-------------------------- MODULE SandboxExecProofs --------------------------
(***************************************************************************)
(* What a request of the sandbox worker is answered, for any limits, any   *)
(* requests and any command (SandboxExec).                                 *)
(***************************************************************************)
EXTENDS SandboxExec, TLAPS

Least(a, b) == IF a < b THEN a ELSE b

\* What a stream's buffer holds when n bytes have been read.
Kept(n) == [i \in 1 .. Least(n, MaxOutputSize) |-> i]

\* Reading never passes writing, and a copier that has stopped either read
\* everything or more than is kept.
StreamOK(s) ==
    /\ read[s] <= written[s]
    /\ kept[s] = Kept(read[s])
    /\ copier[s] = "done" => read[s] = written[s]
    /\ copier[s] = "short" => read[s] > MaxOutputSize

\* Which parts of a request's state belong to which phase.
PhaseOK ==
    /\ phase \in {"idle", "answered"} => \A s \in Streams : copier[s] # "reading"
    /\ answer # NoAnswer => phase = "answered"
    /\ phase = "idle" => shell = "none" /\ ~interrupted
    /\ phase = "running" => shell # "none"
    /\ phase = "draining" => shell \notin {"none", "running"}
    /\ phase = "answered" => shell # "running"
    /\ interrupted => Expired /\ shell # "running"

\* Where a deadline comes from.
DeadlineOK ==
    \/ deadline = MaxTimeout
    \/ request.timeout > 0 /\ deadline = request.timeout * Second
    \/ request.timeout * Second >= 2 ^ (DurationBits - 1)

Inv ==
    /\ TypeOK
    /\ \A s \in Streams : StreamOK(s)
    /\ PhaseOK
    /\ DeadlineOK
    /\ AnswerFaithful

-----------------------------------------------------------------------------
(* The timeout.                                                             *)

LEMMA DurationFits ==
    ASSUME NEW n \in Int, 0 < n, n < 2 ^ (DurationBits - 1)
    PROVE  Duration(n) = n
<1>1. PICK half \in Nat : half = 2 ^ (DurationBits - 1)
  BY SandboxAssumption
<1>2. n + half \in 0 .. 2 * half - 1
  BY <1>1
<1>3. (n + half) % (2 * half) = n + half
  BY <1>1, <1>2
<1> QED
  BY <1>1, <1>3 DEF Duration

LEMMA TimeoutBounds ==
    ASSUME NEW requested \in Int
    PROVE  /\ ResolveTimeout(requested) \in Int
           /\ ResolveTimeout(requested) <= MaxTimeout
           /\ \/ ResolveTimeout(requested) = MaxTimeout
              \/ requested > 0 /\ ResolveTimeout(requested) = requested * Second
              \/ requested * Second >= 2 ^ (DurationBits - 1)
<1>1. PICK half \in Nat : half = 2 ^ (DurationBits - 1) /\ half > 0
  BY SandboxAssumption
<1>2. PICK n \in Int : n = requested * Second
  BY SandboxAssumption
<1>3. requested > 0 => n > 0
  BY <1>2, SandboxAssumption
<1>4. Duration(n) \in Int
  BY <1>1 DEF Duration
<1>5. n > 0 /\ n < half => Duration(n) = n
  BY <1>1, DurationFits
<1> QED
  BY <1>1, <1>2, <1>3, <1>4, <1>5, SandboxAssumption DEF ResolveTimeout

-----------------------------------------------------------------------------
(* The writers.                                                             *)

LEMMA Appended ==
    ASSUME NEW a \in Nat, NEW k \in Nat, NEW r \in Nat, k > 0 => r = a
    PROVE  [i \in 1 .. a |-> i] \o [i \in 1 .. k |-> r + i] = [i \in 1 .. a + k |-> i]
<1> DEFINE f == [i \in 1 .. a |-> i]
           g == [i \in 1 .. k |-> r + i]
           h == [i \in 1 .. a + k |-> i]
<1>1. f \in Seq(Nat) /\ g \in Seq(Nat) /\ h \in Seq(Nat)
  OBVIOUS
<1>2. Len(f) = a /\ Len(g) = k /\ Len(h) = a + k
  OBVIOUS
<1>3. f \o g \in Seq(Nat) /\ Len(f \o g) = a + k
  BY <1>1, <1>2
<1>4. \A i \in 1 .. a + k : (f \o g)[i] = h[i]
  BY <1>1, <1>2
<1> QED
  BY <1>1, <1>2, <1>3, <1>4

LEMMA KeptFacts ==
    ASSUME NEW n \in 0 .. MaxBytes
    PROVE  /\ Least(n, MaxOutputSize) \in Nat
           /\ Least(n, MaxOutputSize) <= n
           /\ Len(Kept(n)) = Least(n, MaxOutputSize)
           /\ Kept(n) \in Seq(1 .. MaxBytes)
<1>1. /\ Least(n, MaxOutputSize) \in Nat
      /\ Least(n, MaxOutputSize) <= n
  BY SandboxAssumption DEF Least
<1>2. PICK m \in Nat : m = Least(n, MaxOutputSize) /\ m <= MaxBytes
  BY <1>1, SandboxAssumption
<1>3. Len([i \in 1 .. m |-> i]) = m /\ [i \in 1 .. m |-> i] \in Seq(1 .. MaxBytes)
  BY <1>2, SandboxAssumption
<1> QED
  BY <1>1, <1>2, <1>3 DEF Kept

LEMMA KeptNothing == Kept(0) = <<>>
<1>1. Least(0, MaxOutputSize) = 0
  BY SandboxAssumption DEF Least
<1> QED
  BY <1>1 DEF Kept

\* A chunk appended by Write leaves the buffer with the first bytes read.
LEMMA WriteKeeps ==
    ASSUME NEW s \in Streams, read[s] \in 0 .. MaxBytes, kept[s] = Kept(read[s]),
           NEW n \in Nat \ {0}, read[s] + n <= MaxBytes
    PROVE  /\ kept[s] \o [i \in 1 .. Accepted(s, n) |-> read[s] + i] = Kept(read[s] + n)
           /\ WrittenShort(s, n) => read[s] + n > MaxOutputSize
<1>1. PICK r \in 0 .. MaxBytes : r = read[s]
  OBVIOUS
<1>2. PICK a \in Nat : a = Least(r, MaxOutputSize) /\ Len(kept[s]) = a
  BY <1>1, KeptFacts
<1>3. PICK k : k = Accepted(s, n)
  OBVIOUS
<1>4. /\ k \in Nat
      /\ k > 0 => r = a
      /\ a + k = Least(r + n, MaxOutputSize)
      /\ WrittenShort(s, n) => r + n > MaxOutputSize
  <2>1. k = IF n > MaxOutputSize - a THEN MaxOutputSize - a ELSE n
    BY <1>2, <1>3 DEF Accepted, Remaining
  <2>2. WrittenShort(s, n) <=> MaxOutputSize - a > 0 /\ k < n
    BY <1>2, <1>3 DEF WrittenShort, Remaining
  <2>3. a = IF r < MaxOutputSize THEN r ELSE MaxOutputSize
    BY <1>2 DEF Least
  <2> QED
    BY <2>1, <2>2, <2>3, SandboxAssumption DEF Least
<1>5. kept[s] = [i \in 1 .. a |-> i]
  BY <1>1, <1>2 DEF Kept
<1>6. kept[s] \o [i \in 1 .. k |-> r + i] = [i \in 1 .. a + k |-> i]
  <2>1. r \in Nat
    OBVIOUS
  <2>2. [i \in 1 .. a |-> i] \o [i \in 1 .. k |-> r + i] = [i \in 1 .. a + k |-> i]
    BY <1>4, <2>1, Appended
  <2> QED
    BY <1>5, <2>2, Zenon
<1> QED
  BY <1>1, <1>3, <1>4, <1>6 DEF Kept

-----------------------------------------------------------------------------
(* The invariant.                                                           *)

LEMMA InitInv == Init => Inv
<1> SUFFICES ASSUME Init PROVE Inv
  OBVIOUS
<1>1. TypeOK
  <2>1. 0 \in 0 .. MaxBytes /\ 0 \in 0 .. MaxTimeout /\ <<>> \in Seq(1 .. MaxBytes)
    BY SandboxAssumption
  <2>2. MaxTimeout \in Int /\ MaxTimeout <= MaxTimeout
    BY SandboxAssumption
  <2> QED
    BY <2>1, <2>2 DEF TypeOK, Init
<1>2. ASSUME NEW s \in Streams PROVE StreamOK(s)
  <2>1. read[s] = 0 /\ written[s] = 0 /\ copier[s] = "done" /\ kept[s] = <<>>
    BY DEF Init
  <2>2. kept[s] = Kept(read[s])
    BY <2>1, KeptNothing
  <2> QED
    BY <2>1, <2>2 DEF StreamOK
<1>3. PhaseOK /\ DeadlineOK
  BY DEF PhaseOK, DeadlineOK, Init
<1>4. AnswerFaithful
  BY DEF AnswerFaithful, NoAnswer, Result, Failure, Init
<1> QED
  BY <1>1, <1>2, <1>3, <1>4 DEF Inv

\* Until there is an answer it is faithful.
LEMMA NoAnswerFaithfulNext == answer' = NoAnswer => AnswerFaithful'
  BY DEF AnswerFaithful, NoAnswer, Result, Failure

LEMMA RefuseInv == ASSUME Inv, Refuse \/ ScriptFileFails PROVE Inv'
<1>1. TypeOK'
  BY DEF Inv, TypeOK, Refuse, ScriptFileFails, os, run
<1>2. \A s \in Streams : StreamOK(s)'
  BY DEF Inv, StreamOK, Refuse, ScriptFileFails, os, run
<1>3. PhaseOK' /\ DeadlineOK'
  BY DEF Inv, PhaseOK, DeadlineOK, Expired, Refuse, ScriptFileFails, os, run
<1>4. AnswerFaithful'
  BY DEF Inv, PhaseOK, AnswerFaithful, Refuse, ScriptFileFails, os, run,
         NoAnswer, Failure, Result
<1> QED
  BY <1>1, <1>2, <1>3, <1>4 DEF Inv

LEMMA StartInv == ASSUME Inv, Start PROVE Inv'
<1>1. request.timeout \in Int
  BY SandboxAssumption DEF Inv, TypeOK
<1>2. PICK t : t = ResolveTimeout(request.timeout)
  OBVIOUS
<1>3. /\ t \in Int /\ t <= MaxTimeout
      /\ \/ t = MaxTimeout
         \/ request.timeout > 0 /\ t = request.timeout * Second
         \/ request.timeout * Second >= 2 ^ (DurationBits - 1)
  BY <1>1, <1>2, TimeoutBounds
<1>4. deadline' = t
  BY <1>2 DEF Start
<1>5. TypeOK'
  BY <1>3, <1>4 DEF Start, Inv, TypeOK
<1>6. \A s \in Streams : StreamOK(s)'
  BY DEF Start, Inv, StreamOK, TypeOK
<1>7. DeadlineOK'
  BY <1>3, <1>4 DEF DeadlineOK, Start
<1>8. now \in Nat /\ ~interrupted /\ answer = NoAnswer /\ phase = "idle"
  BY DEF Start, Inv, TypeOK, PhaseOK
<1>9. PhaseOK'
  BY <1>8 DEF Start, Inv, PhaseOK
<1>10. AnswerFaithful'
  <2>1. CASE deadline' <= 0
    <3>1. answer' = Result(124) /\ Expired'
      BY <1>4, <1>3, <1>8, <2>1 DEF Start, Expired
    <3> QED
      BY <3>1 DEF AnswerFaithful, Result, Failure
  <2>2. CASE ~ (deadline' <= 0)
    BY <1>8, <2>2, NoAnswerFaithfulNext DEF Start
  <2> QED
    BY <2>1, <2>2
<1> QED
  BY <1>5, <1>6, <1>7, <1>9, <1>10 DEF Inv

LEMMA StartFailsInv == ASSUME Inv, StartFails PROVE Inv'
<1>1. request.timeout \in Int
  BY SandboxAssumption DEF Inv, TypeOK
<1>2. PICK t : t = ResolveTimeout(request.timeout)
  OBVIOUS
<1>3. /\ t \in Int /\ t <= MaxTimeout
      /\ \/ t = MaxTimeout
         \/ request.timeout > 0 /\ t = request.timeout * Second
         \/ request.timeout * Second >= 2 ^ (DurationBits - 1)
  BY <1>1, <1>2, TimeoutBounds
<1>4. deadline' = t
  BY <1>2 DEF StartFails
<1>5. TypeOK'
  BY <1>3, <1>4 DEF StartFails, Inv, TypeOK, os, run
<1>6. \A s \in Streams : StreamOK(s)'
  BY DEF StartFails, Inv, StreamOK, os, run
<1>7. DeadlineOK'
  BY <1>3, <1>4 DEF DeadlineOK, StartFails, os, run
<1>8. PhaseOK' /\ AnswerFaithful'
  BY DEF StartFails, Inv, PhaseOK, AnswerFaithful, os, run, NoAnswer, Failure, Result
<1> QED
  BY <1>5, <1>6, <1>7, <1>8 DEF Inv

\* What a shell and its children do is seen only while the shell runs, a
\* copier reads, or afterwards not at all.
LEMMA CommandInv == ASSUME Inv, Command PROVE Inv'
<1>1. CASE ShellExits \/ ShellForks \/ \E s \in Streams : BrokenPipe(s)
  <2>1. answer = NoAnswer /\ phase \notin {"idle", "answered"}
    BY <1>1 DEF Inv, PhaseOK, TypeOK, ShellExits, ShellForks, BrokenPipe
  <2>2. TypeOK'
    BY <1>1 DEF Inv, TypeOK, ShellExits, ShellForks, BrokenPipe, run
  <2>3. \A s \in Streams : StreamOK(s)'
    BY <1>1 DEF Inv, StreamOK, ShellExits, ShellForks, BrokenPipe, run
  <2>4. PhaseOK' /\ DeadlineOK' /\ answer' = NoAnswer
    BY <1>1, <2>1 DEF Inv, PhaseOK, DeadlineOK, Expired,
        ShellExits, ShellForks, BrokenPipe, run
  <2> QED
    BY <2>2, <2>3, <2>4, NoAnswerFaithfulNext DEF Inv
<1>2. CASE ChildEnds
  <2>1. TypeOK'
    BY <1>2 DEF Inv, TypeOK, ChildEnds, run
  <2>2. \A s \in Streams : StreamOK(s)'
    BY <1>2 DEF Inv, StreamOK, ChildEnds, run
  <2>3. PhaseOK' /\ DeadlineOK' /\ AnswerFaithful'
    BY <1>2 DEF Inv, PhaseOK, DeadlineOK, AnswerFaithful, Expired, ChildEnds, run
  <2> QED
    BY <2>1, <2>2, <2>3 DEF Inv
<1>3. ASSUME NEW s \in Streams, Writes(s) PROVE Inv'
  <2>1. answer = NoAnswer
    BY <1>3 DEF Inv, PhaseOK, Writes
  <2>2. PICK n \in 1 .. MaxBytes - written[s] :
            written' = [written EXCEPT ![s] = @ + n]
    BY <1>3 DEF Writes
  <2>3. \A q \in Streams : read[q] \in 0 .. MaxBytes /\ written[q] \in 0 .. MaxBytes
    BY DEF Inv, TypeOK
  <2>4. \A q \in Streams : /\ written'[q] \in 0 .. MaxBytes
                           /\ written'[q] >= written[q]
                           /\ q # s => written'[q] = written[q]
    BY <2>2, <2>3, SandboxAssumption DEF Inv, TypeOK
  <2>5. written' \in [Streams -> 0 .. MaxBytes]
    BY <2>2, <2>4 DEF Inv, TypeOK
  <2>6. TypeOK'
    BY <1>3, <2>5 DEF Inv, TypeOK, Writes, run
  <2>7. \A q \in Streams : StreamOK(q)'
    BY <1>3, <2>3, <2>4 DEF Inv, StreamOK, Writes, run
  <2>8. PhaseOK' /\ DeadlineOK' /\ answer' = NoAnswer
    BY <1>3, <2>1 DEF Inv, PhaseOK, DeadlineOK, Expired, Writes, run
  <2> QED
    BY <2>6, <2>7, <2>8, NoAnswerFaithfulNext DEF Inv
<1> QED
  BY <1>1, <1>2, <1>3 DEF Command

LEMMA CopyInv == ASSUME Inv, NEW s \in Streams, Copy(s) PROVE Inv'
<1>1. answer = NoAnswer
  BY DEF Inv, PhaseOK, Copy
<1>2. PICK n \in 1 .. written[s] - read[s] :
        /\ read' = [read EXCEPT ![s] = @ + n]
        /\ kept' = [kept EXCEPT ![s] =
                       @ \o [i \in 1 .. Accepted(s, n) |-> read[s] + i]]
        /\ copier' = [copier EXCEPT ![s] =
                         IF WrittenShort(s, n) THEN "short" ELSE @]
  BY DEF Copy
<1>3. \A q \in Streams : read[q] \in 0 .. MaxBytes /\ written[q] \in 0 .. MaxBytes
  BY DEF Inv, TypeOK
<1>4. /\ n \in Nat \ {0}
      /\ read[s] + n \in 0 .. MaxBytes
      /\ read[s] + n <= written[s]
  BY <1>2, <1>3, SandboxAssumption
<1>5. /\ read'[s] = read[s] + n
      /\ kept'[s] = Kept(read'[s])
      /\ copier'[s] \in {"reading", "short"}
      /\ copier'[s] = "short" => read'[s] > MaxOutputSize
  <2>1. kept[s] = Kept(read[s])
    BY DEF Inv, StreamOK
  <2>2. /\ kept[s] \o [i \in 1 .. Accepted(s, n) |-> read[s] + i] = Kept(read[s] + n)
        /\ WrittenShort(s, n) => read[s] + n > MaxOutputSize
    <3>1. read[s] \in 0 .. MaxBytes /\ read[s] + n <= MaxBytes
      BY <1>3, <1>4
    <3> QED
      BY <1>4, <2>1, <3>1, WriteKeeps
  <2>3. copier[s] = "reading"
    BY DEF Copy
  <2> QED
    BY <1>2, <2>2, <2>3 DEF Inv, TypeOK
<1>6. \A q \in Streams \ {s} :
        read'[q] = read[q] /\ kept'[q] = kept[q] /\ copier'[q] = copier[q]
  BY <1>2 DEF Inv, TypeOK
<1>7. UNCHANGED <<request, phase, deadline, now, shell, child, written,
                  interrupted, answer>>
  BY DEF Copy, os
<1>8. TypeOK'
  <2>1. kept'[s] \in Seq(1 .. MaxBytes)
    BY <1>4, <1>5, KeptFacts
  <2>2. /\ read' \in [Streams -> 0 .. MaxBytes]
        /\ kept' \in [Streams -> Seq(1 .. MaxBytes)]
        /\ copier' \in [Streams -> {"reading", "done", "short"}]
    BY <1>2, <1>4, <1>5, <2>1 DEF Inv, TypeOK
  <2> QED
    BY <1>7, <2>2 DEF Inv, TypeOK
<1>9. \A q \in Streams : StreamOK(q)'
  BY <1>3, <1>4, <1>5, <1>6, <1>7 DEF Inv, StreamOK
<1>10. PhaseOK' /\ DeadlineOK' /\ answer' = NoAnswer
  BY <1>1, <1>7 DEF Inv, PhaseOK, DeadlineOK, Expired, Copy
<1> QED
  BY <1>8, <1>9, <1>10, NoAnswerFaithfulNext DEF Inv

LEMMA EndOfFileInv == ASSUME Inv, NEW s \in Streams, EndOfFile(s) PROVE Inv'
<1>1. answer = NoAnswer
  BY DEF Inv, PhaseOK, EndOfFile
<1>2. TypeOK'
  BY DEF Inv, TypeOK, EndOfFile, os
<1>3. \A q \in Streams : StreamOK(q)'
  BY DEF Inv, TypeOK, StreamOK, EndOfFile, os
<1>4. PhaseOK' /\ DeadlineOK' /\ answer' = NoAnswer
  BY <1>1 DEF Inv, PhaseOK, DeadlineOK, Expired, EndOfFile, os
<1> QED
  BY <1>2, <1>3, <1>4, NoAnswerFaithfulNext DEF Inv

\* Time passes, the watcher kills, the shell is waited for.
LEMMA RunInv == ASSUME Inv, Tick \/ Kill \/ Reap PROVE Inv'
<1>1. answer = NoAnswer /\ phase \notin {"idle", "answered"}
  BY DEF Inv, PhaseOK, Tick, Kill, Reap
<1>2. now \in Nat /\ deadline \in Int /\ deadline <= MaxTimeout
  BY DEF Inv, TypeOK
<1>3. Tick => now' \in 0 .. MaxTimeout
  BY <1>2, SandboxAssumption DEF Tick, Expired
<1>4. TypeOK'
  <2>1. CASE Tick
    BY <1>3, <2>1 DEF Inv, TypeOK, Tick, os, run
  <2>2. CASE Kill
    BY <2>2 DEF Inv, TypeOK, Kill
  <2>3. CASE Reap
    BY <2>3 DEF Inv, TypeOK, Reap, os, run
  <2> QED
    BY <2>1, <2>2, <2>3
<1>5. \A s \in Streams : StreamOK(s)'
  BY DEF Inv, StreamOK, Tick, Kill, Reap, os, run
<1>6. Expired => Expired'
  BY <1>2 DEF Expired, Tick, Kill, Reap
<1>7. PhaseOK' /\ DeadlineOK' /\ answer' = NoAnswer
  <2>1. CASE Tick
    BY <1>1, <1>6, <2>1 DEF Inv, PhaseOK, DeadlineOK, Tick, os, run
  <2>2. CASE Kill
    BY <1>1, <1>6, <2>2 DEF Inv, PhaseOK, DeadlineOK, Kill
  <2>3. CASE Reap
    BY <1>1, <1>6, <2>3 DEF Inv, PhaseOK, DeadlineOK, Reap, os, run
  <2> QED
    BY <2>1, <2>2, <2>3
<1> QED
  BY <1>4, <1>5, <1>7, NoAnswerFaithfulNext DEF Inv

LEMMA AnswerInv == ASSUME Inv, Answer PROVE Inv'
<1>1. PICK err : err = RunError
  OBVIOUS
<1>2. answer' = AnswerOf(err) /\ shell \in {"ok", "failed", "signalled"}
  BY <1>1 DEF Answer, Inv, PhaseOK, TypeOK
<1>3. /\ err = "none" => shell = "ok" /\ ~interrupted
      /\ err = "exit" => shell \in {"failed", "signalled"}
      /\ err \notin {"none", "exit"} /\ ~Expired =>
            \E s \in Streams : copier[s] = "short"
  BY <1>1, <1>2 DEF RunError, Inv, PhaseOK
<1>4. \A s \in Streams : copier[s] = "short" => written[s] > MaxOutputSize
  BY SandboxAssumption DEF Inv, TypeOK, StreamOK
<1>5. UNCHANGED <<request, deadline, now, shell, child, written,
                  interrupted, read, kept, copier>>
  BY DEF Answer, os, run
<1>6. /\ err = "none" => answer' = Result(0)
      /\ err # "none" /\ Expired => answer' = Result(124)
      /\ err = "exit" /\ ~Expired /\ shell = "failed" => answer' = Result(1)
      /\ err = "exit" /\ ~Expired /\ shell = "signalled" => answer' = Result(-1)
      /\ err \notin {"none", "exit"} /\ ~Expired => answer' = Failure
  BY <1>2 DEF AnswerOf, ExitCode
<1>7. TypeOK'
  <2>1. answer' \in {NoAnswer, Failure} \cup {Result(c) : c \in {0, 1, -1, 124}}
    BY <1>2, <1>3, <1>6
  <2> QED
    BY <1>5, <2>1 DEF Answer, Inv, TypeOK
<1>8. \A s \in Streams : StreamOK(s)'
  BY <1>5 DEF Inv, StreamOK
<1>9. PhaseOK' /\ DeadlineOK'
  BY <1>5 DEF Inv, PhaseOK, DeadlineOK, Expired, Answer
<1>10. AnswerFaithful'
  BY <1>2, <1>3, <1>4, <1>5, <1>6 DEF AnswerFaithful, Expired, Result, Failure
<1> QED
  BY <1>7, <1>8, <1>9, <1>10 DEF Inv

LEMMA NextRequestInv == ASSUME Inv, NextRequest PROVE Inv'
<1>1. TypeOK'
  <2>1. 0 \in 0 .. MaxBytes /\ 0 \in 0 .. MaxTimeout /\ <<>> \in Seq(1 .. MaxBytes)
    BY SandboxAssumption
  <2>2. MaxTimeout \in Int /\ MaxTimeout <= MaxTimeout
    BY SandboxAssumption
  <2> QED
    BY <2>1, <2>2 DEF TypeOK, NextRequest
<1>2. ASSUME NEW s \in Streams PROVE StreamOK(s)'
  <2>1. read'[s] = 0 /\ written'[s] = 0 /\ copier'[s] = "done" /\ kept'[s] = <<>>
    BY DEF NextRequest
  <2>2. kept'[s] = Kept(read'[s])
    BY <2>1, KeptNothing
  <2> QED
    BY <2>1, <2>2 DEF StreamOK
<1>3. PhaseOK' /\ DeadlineOK' /\ answer' = NoAnswer
  BY DEF PhaseOK, DeadlineOK, NextRequest
<1> QED
  BY <1>1, <1>2, <1>3, NoAnswerFaithfulNext DEF Inv

LEMMA NextInv == Inv /\ [Next]_vars => Inv'
<1> SUFFICES ASSUME Inv, [Next]_vars PROVE Inv'
  OBVIOUS
<1>1. CASE UNCHANGED vars
  <2>1. TypeOK'
    BY <1>1 DEF vars, os, run, Inv, TypeOK
  <2>2. \A s \in Streams : StreamOK(s)'
    BY <1>1 DEF vars, os, run, Inv, StreamOK
  <2>3. PhaseOK' /\ DeadlineOK' /\ AnswerFaithful'
    BY <1>1 DEF vars, os, run, Inv, PhaseOK, DeadlineOK, AnswerFaithful, Expired
  <2> QED
    BY <2>1, <2>2, <2>3 DEF Inv
<1>2. CASE Command
  BY <1>2, CommandInv
<1>3. CASE Worker
  BY <1>3, RefuseInv, StartInv, StartFailsInv, RunInv, AnswerInv, CopyInv, EndOfFileInv
     DEF Worker
<1>4. CASE Tick
  BY <1>4, RunInv
<1>5. CASE NextRequest
  BY <1>5, NextRequestInv
<1> QED
  BY <1>1, <1>2, <1>3, <1>4, <1>5 DEF Next

LEMMA Invariance == Spec => []Inv
BY InitInv, NextInv, PTL DEF Spec

-----------------------------------------------------------------------------
(* The state keeps its shape, for any command.                              *)
THEOREM SandboxTypeCorrect == Spec => []TypeOK
<1>1. Inv => TypeOK
  BY DEF Inv
<1> QED
  BY <1>1, Invariance, PTL

(* Output comes whole or cut at the limit, never with a gap, whatever is    *)
(* killed and however the copiers cut the stream.                           *)
THEOREM SandboxOutput == Spec => []OutputFaithful
<1>1. Inv => OutputFaithful
  <2> SUFFICES ASSUME Inv, answer.kind = "result", NEW s \in Streams
               PROVE  kept[s] = [i \in 1 .. Least(written[s], MaxOutputSize) |-> i]
    BY DEF OutputFaithful, Least
  <2>1. copier[s] \in {"done", "short"}
    BY DEF Inv, PhaseOK, TypeOK, NoAnswer
  <2>2. PICK r \in Nat, w \in Nat : r = read[s] /\ w = written[s]
    BY DEF Inv, TypeOK
  <2>3. r = w \/ (r > MaxOutputSize /\ w >= r)
    BY <2>1, <2>2 DEF Inv, StreamOK
  <2>4. Least(r, MaxOutputSize) = Least(w, MaxOutputSize)
    BY <2>2, <2>3, SandboxAssumption DEF Least
  <2>5. kept[s] = [i \in 1 .. Least(r, MaxOutputSize) |-> i]
    BY <2>2 DEF Inv, StreamOK, Kept
  <2> QED
    BY <2>2, <2>4, <2>5
<1> QED
  BY <1>1, Invariance, PTL

(* The exit code is that of the command, and an answer that is none means   *)
(* that it wrote too much.                                                  *)
THEOREM SandboxAnswer == Spec => []AnswerFaithful
<1>1. Inv => AnswerFaithful
  BY DEF Inv
<1> QED
  BY <1>1, Invariance, PTL

(* No command is cut off before the time it asked for, or the limit, and    *)
(* none is given more than the limit.                                       *)
THEOREM SandboxCutOff == Spec => []CutOffInTime
<1>1. Inv => CutOffInTime
  <2> SUFFICES ASSUME Inv PROVE CutOffInTime
    OBVIOUS
  <2>1. PICK half, asked :
            half = 2 ^ (DurationBits - 1) /\ asked = request.timeout * Second
    OBVIOUS
  <2>2. answer = Result(124) \/ interrupted => now >= deadline
    BY DEF Inv, PhaseOK, AnswerFaithful, Expired
  <2>3. deadline <= MaxTimeout
    BY DEF Inv, TypeOK
  <2>4. \/ deadline = MaxTimeout
        \/ request.timeout > 0 /\ deadline = asked
        \/ asked >= half
    BY <2>1 DEF Inv, DeadlineOK
  <2> QED
    BY <2>1, <2>2, <2>3, <2>4 DEF CutOffInTime
<1> QED
  BY <1>1, Invariance, PTL

=============================================================================
