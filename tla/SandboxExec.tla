----------------------------- MODULE SandboxExec -----------------------------
(***************************************************************************)
(* One request of the sandbox worker (examples/sandbox-worker/main.go):    *)
(* handleProcess starts a shell under a deadline, os/exec copies what the  *)
(* shell and its children write to two pipes into limitedWriters, and      *)
(* executeCmd turns the way all of this ended into the answer.             *)
(*                                                                         *)
(* The bytes of a stream are the numbers of their places: 1, 2, ...  Time  *)
(* is in ticks and stops at the deadline: nothing looks at it later.  Of   *)
(* os/exec the model has what Cmd.Run promises: the watcher that kills the *)
(* shell (only the shell) at the deadline, one copier per stream that ends *)
(* at end of file or at a write that fails and then closes its end of the  *)
(* pipe, and Run's wait for the shell first and the copiers then.          *)
(***************************************************************************)
EXTENDS Integers, Sequences

CONSTANTS
    Streams,       \* stdout and stderr
    Requests,      \* the payloads considered
    MaxOutputSize, \* maxOutputSize: how much of a stream is kept
    MaxTimeout,    \* maxTimeout, in ticks
    Second,        \* time.Second, in ticks
    DurationBits,  \* width of a time.Duration
    MaxBytes       \* bound: how much is written to a stream

ASSUME SandboxAssumption ==
    /\ MaxOutputSize \in Nat /\ MaxBytes \in Nat
    /\ MaxTimeout \in Nat \ {0} /\ Second \in Nat \ {0}
    /\ DurationBits \in Nat \ {0} /\ 2 ^ (DurationBits - 1) \in Nat
    /\ MaxTimeout < 2 ^ (DurationBits - 1)
    /\ \A r \in Requests : r \in [ action : STRING, given : BOOLEAN,
                                   language : STRING, timeout : Int ]

VARIABLES
    request, phase,  \* what handleProcess works on and where it is
    deadline, now,   \* of the context, and since it was made
    shell, child,    \* the command and what it leaves in the background
    interrupted,     \* the watcher has signalled the shell
    written,         \* bytes written to each stream
    read,            \* ... and how many of them its copier has read
    kept,            \* the limitedWriters' buffers
    copier,          \* what each copier is doing
    answer

os   == <<shell, child, written>>
run  == <<interrupted, read, kept, copier>>
vars == <<request, phase, deadline, now, os, run, answer>>

NoAnswer    == [kind |-> "none", code |-> 0]
Failure     == [kind |-> "error", code |-> 0]
Result(exitCode) == [kind |-> "result", code |-> exitCode]

-----------------------------------------------------------------------------
(* The timeout.                                                             *)

\* A number as a time.Duration holds it.
Duration(n) ==
    LET half == 2 ^ (DurationBits - 1)
    IN  ((n + half) % (2 * half)) - half

\* Mutants: a missing timeout is no time at all; no request is too long.
ResolveTimeoutZero(requested) ==
    LET t == Duration(requested * Second) IN IF t > MaxTimeout THEN MaxTimeout ELSE t
ResolveTimeoutUncapped(requested) ==
    IF requested <= 0 THEN MaxTimeout ELSE Duration(requested * Second)

ResolveTimeout(requested) ==
    LET t == Duration(requested * Second)
    IN  IF requested <= 0 \/ t > MaxTimeout THEN MaxTimeout ELSE t

\* ctx.Err() is DeadlineExceeded.
Expired == now >= deadline

-----------------------------------------------------------------------------
(* limitedWriter.Write of the chunk that follows in the stream.             *)

Remaining(s) == MaxOutputSize - Len(kept[s])

\* How much of a chunk of n bytes is kept.
Accepted(s, n) == IF n > Remaining(s) THEN Remaining(s) ELSE n

\* Past the limit Write discards and reports success; the chunk that crosses
\* the limit it reports as written in part, which ends the copier.
WrittenShort(s, n) == Remaining(s) > 0 /\ Accepted(s, n) < n

-----------------------------------------------------------------------------
Init ==
    /\ request \in Requests /\ phase = "idle"
    /\ deadline = MaxTimeout /\ now = 0
    /\ shell = "none" /\ child = "none" /\ interrupted = FALSE
    /\ written = [s \in Streams |-> 0] /\ read = [s \in Streams |-> 0]
    /\ kept = [s \in Streams |-> <<>>]
    /\ copier = [s \in Streams |-> "done"]
    /\ answer = NoAnswer

\* The checks before the command is run.
Runnable(r) ==
    /\ r.given
    /\ \/ r.action \in {"exec", "script"}
       \/ r.action = "eval" /\ r.language \in {"", "sh"}

Refuse ==
    /\ phase = "idle" /\ ~Runnable(request)
    /\ phase' = "answered" /\ answer' = Failure
    /\ UNCHANGED <<request, deadline, now, os, run>>

\* runScript cannot write its temporary file.
ScriptFileFails ==
    /\ phase = "idle" /\ Runnable(request) /\ request.action = "script"
    /\ phase' = "answered" /\ answer' = Failure
    /\ UNCHANGED <<request, deadline, now, os, run>>

\* runCommand, runScript.  Under a deadline that has passed Run starts nothing.
Start ==
    /\ phase = "idle" /\ Runnable(request)
    /\ deadline' = ResolveTimeout(request.timeout)
    /\ IF deadline' <= 0
         THEN /\ phase' = "answered" /\ answer' = Result(124)
              /\ UNCHANGED <<shell, copier>>
         ELSE /\ phase' = "running"
              /\ shell' = "running"
              /\ copier' = [s \in Streams |-> "reading"]
              /\ UNCHANGED answer
    /\ UNCHANGED <<request, now, child, written, interrupted, read, kept>>

\* ... or the shell cannot be started: executeCmd returns that error.
StartFails ==
    /\ phase = "idle" /\ Runnable(request)
    /\ deadline' = ResolveTimeout(request.timeout) /\ deadline' > 0
    /\ phase' = "answered" /\ answer' = Failure
    /\ UNCHANGED <<request, now, os, run>>

-----------------------------------------------------------------------------
(* The command: anything a shell may do.                                    *)

ShellExits ==
    /\ shell = "running"
    /\ shell' \in {"ok", "failed"}
    /\ UNCHANGED <<request, phase, deadline, now, child, written, run, answer>>

ShellForks ==
    /\ shell = "running" /\ child = "none"
    /\ child' = "running"
    /\ UNCHANGED <<request, phase, deadline, now, shell, written, run, answer>>

ChildEnds ==
    /\ child = "running"
    /\ child' = "ended"
    /\ UNCHANGED <<request, phase, deadline, now, shell, written, run, answer>>

\* The pipe is open at both ends.
Writes(s) ==
    /\ shell = "running" \/ child = "running"
    /\ copier[s] = "reading" /\ written[s] < MaxBytes
    /\ \E n \in 1 .. MaxBytes - written[s] :
          written' = [written EXCEPT ![s] = @ + n]
    /\ UNCHANGED <<request, phase, deadline, now, shell, child, run, answer>>

\* A write to a pipe nobody reads: the signal may kill the shell itself, or a
\* program that the shell then outlives (no change of state here).
BrokenPipe(s) ==
    /\ shell = "running" /\ copier[s] = "short"
    /\ shell' = "signalled"
    /\ UNCHANGED <<request, phase, deadline, now, child, written, run, answer>>

-----------------------------------------------------------------------------
(* os/exec under executeCmd.                                                *)

Tick ==
    /\ phase \in {"running", "draining"} /\ ~Expired
    /\ now' = now + 1
    /\ UNCHANGED <<request, phase, deadline, os, run, answer>>

\* Mutant: the signal is one that the shell may ignore.
KillIgnored ==
    /\ phase = "running" /\ Expired /\ ~interrupted
    /\ interrupted' = TRUE
    /\ UNCHANGED <<request, phase, deadline, now, os, read, kept, copier, answer>>

\* The watcher.  It may find a shell that has exited and not been waited for.
Kill ==
    /\ phase = "running" /\ Expired /\ ~interrupted
    /\ interrupted' = TRUE
    /\ shell' = IF shell = "running" THEN "signalled" ELSE shell
    /\ UNCHANGED <<request, phase, deadline, now, child, written>>
    /\ UNCHANGED <<read, kept, copier, answer>>

\* A copier reads what is in the pipe, or a part of it, and calls Write.
Copy(s) ==
    /\ copier[s] = "reading"
    /\ \E n \in 1 .. written[s] - read[s] :
        /\ read' = [read EXCEPT ![s] = @ + n]
        /\ kept' = [kept EXCEPT ![s] =
                       @ \o [i \in 1 .. Accepted(s, n) |-> read[s] + i]]
        /\ copier' = [copier EXCEPT ![s] =
                         IF WrittenShort(s, n) THEN "short" ELSE @]
    /\ UNCHANGED <<request, phase, deadline, now, os, interrupted, answer>>

\* Mutant: the end of the shell is taken for the end of the stream.
EndOfFileOfShell(s) ==
    /\ copier[s] = "reading" /\ shell # "running"
    /\ copier' = [copier EXCEPT ![s] = "done"]
    /\ UNCHANGED <<request, phase, deadline, now, os, interrupted, read, kept, answer>>

\* The pipe is empty and no process holds its other end.
EndOfFile(s) ==
    /\ copier[s] = "reading" /\ read[s] = written[s]
    /\ shell # "running" /\ child # "running"
    /\ copier' = [copier EXCEPT ![s] = "done"]
    /\ UNCHANGED <<request, phase, deadline, now, os, interrupted, read, kept, answer>>

\* Process.Wait returns.
Reap ==
    /\ phase = "running" /\ shell # "running"
    /\ phase' = "draining"
    /\ UNCHANGED <<request, deadline, now, os, run, answer>>

\* The error of cmd.Run, by what Wait looks at first.
RunError ==
    IF shell # "ok" THEN "exit"
    ELSE IF interrupted THEN "deadline"
    ELSE IF \E s \in Streams : copier[s] = "short" THEN "short write"
    ELSE "none"

ExitCode == [failed |-> 1, signalled |-> -1]

\* Mutant: any error is taken for a timeout.
AnswerOfAlwaysTimeout(err) ==
    IF err = "none" THEN Result(0) ELSE Result(124)

AnswerOf(err) ==
    IF err = "none" THEN Result(0)
    ELSE IF Expired THEN Result(124)
    ELSE IF err = "exit" THEN Result(ExitCode[shell])
    ELSE Failure

\* Run returns when no copier is left; executeCmd and handleProcess answer.
Answer ==
    /\ phase = "draining"
    /\ \A s \in Streams : copier[s] # "reading"
    /\ phase' = "answered" /\ answer' = AnswerOf(RunError)
    /\ UNCHANGED <<request, deadline, now, os, run>>

\* The next request: another one has a context, pipes and buffers of its own.
NextRequest ==
    /\ phase = "answered"
    /\ request' \in Requests /\ phase' = "idle"
    /\ deadline' = MaxTimeout /\ now' = 0
    /\ shell' = "none" /\ child' = "none" /\ interrupted' = FALSE
    /\ written' = [s \in Streams |-> 0] /\ read' = [s \in Streams |-> 0]
    /\ kept' = [s \in Streams |-> <<>>]
    /\ copier' = [s \in Streams |-> "done"]
    /\ answer' = NoAnswer

Command == ShellExits \/ ShellForks \/ ChildEnds
               \/ \E s \in Streams : Writes(s) \/ BrokenPipe(s)

Worker == Refuse \/ ScriptFileFails \/ Start \/ StartFails \/ Kill \/ Reap \/ Answer
              \/ \E s \in Streams : Copy(s) \/ EndOfFile(s)

Next == Command \/ Worker \/ Tick \/ NextRequest

\* The worker's own steps and time go on; the command owes nothing.
Fairness ==
    /\ WF_vars(Tick) /\ WF_vars(Kill) /\ WF_vars(Reap) /\ WF_vars(Answer)
    /\ \A s \in Streams : WF_vars(Copy(s)) /\ WF_vars(EndOfFile(s))

Spec == Init /\ [][Next]_vars /\ Fairness

-----------------------------------------------------------------------------
TypeOK ==
    /\ request \in Requests
    /\ phase \in {"idle", "running", "draining", "answered"}
    /\ deadline \in Int /\ deadline <= MaxTimeout
    /\ now \in 0 .. MaxTimeout
    /\ shell \in {"none", "running", "ok", "failed", "signalled"}
    /\ child \in {"none", "running", "ended"}
    /\ interrupted \in BOOLEAN
    /\ written \in [Streams -> 0 .. MaxBytes]
    /\ read \in [Streams -> 0 .. MaxBytes]
    /\ kept \in [Streams -> Seq(1 .. MaxBytes)]
    /\ copier \in [Streams -> {"reading", "done", "short"}]
    /\ answer \in {NoAnswer, Failure} \cup {Result(c) : c \in {0, 1, -1, 124}}

(* A result carries the whole of each stream, or its first MaxOutputSize    *)
(* bytes: nothing that was written before the end of the command is missing *)
(* or out of place, however the copiers cut the stream into chunks, and     *)
(* whether the shell exits, is killed at the deadline or leaves a child.    *)
OutputFaithful ==
    answer.kind = "result" =>
        \A s \in Streams :
            LET length == IF written[s] < MaxOutputSize THEN written[s]
                                                        ELSE MaxOutputSize
            IN  kept[s] = [i \in 1 .. length |-> i]

(* The answer tells how the command ended: 0 for a shell that exited with 0 *)
(* and was not interrupted, 124 only after the deadline, any other code is  *)
(* the shell's own.  A command that ran can be answered with an execution   *)
(* error, its output and its code lost, only if a stream is longer than     *)
(* what is kept of it (limitedWriter is to discard the rest in silence, but *)
(* reports the write that crosses the limit as a short one).                *)
AnswerFaithful ==
    /\ answer = Result(0) => shell = "ok" /\ ~interrupted
    /\ answer = Result(124) => Expired
    /\ answer = Result(1) => shell = "failed"
    /\ answer = Result(-1) => shell = "signalled"
    /\ answer = Failure /\ shell # "none" =>
            \E s \in Streams : written[s] > MaxOutputSize

(* The deadline is at most maxTimeout, and no command is cut off before the *)
(* time the request gives it, or maxTimeout, is up.  Where the nanoseconds  *)
(* of the request overflow a time.Duration the deadline may be any time up  *)
(* to maxTimeout, or one that has passed.                                   *)
CutOffInTime ==
    /\ deadline <= MaxTimeout
    /\ answer = Result(124) \/ interrupted =>
           \/ now >= MaxTimeout
           \/ request.timeout > 0 /\ now >= request.timeout * Second
           \/ request.timeout * Second >= 2 ^ (DurationBits - 1)

(* Every command is answered, unless it leaves a child in the background    *)
(* that keeps a pipe open for good: the deadline kills only the shell.      *)
AnsweredUnlessPipeHeld ==
    phase = "running" ~> (phase = "answered" \/ [](child = "running"))

=============================================================================
