-------------------------- MODULE ReviewWorkerProofs --------------------------
(***************************************************************************)
(* Proofs about the code review worker, for every pull request, every      *)
(* output of the LLM and any number of attempts.  The first part is about  *)
(* the pure functions: the lines of a diff, by induction over the patch,   *)
(* and what becomes of a comment between the LLM and the review.           *)
(***************************************************************************)
EXTENDS ReviewWorker, SequenceInduction, FiniteSetTheorems

Line == Nat \ {0}
Scanned == [next : Nat, lines : Seq(Line)]

LEMMA NextLineType ==
    ASSUME NEW acc \in Scanned, NEW l \in PatchLine
    PROVE  NextLine(acc, l) \in Scanned
<1>1. CASE l.hunk # NoHunk
  <2>1. l.hunk \in Nat
    BY <1>1 DEF PatchLine
  <2> QED
    BY <1>1, <2>1 DEF NextLine, Scanned
<1>2. CASE l.hunk = NoHunk /\ (acc.next = 0 \/ l.mark \in {"-", "\\"})
  BY <1>2 DEF NextLine
<1>3. CASE l.hunk = NoHunk /\ ~(acc.next = 0 \/ l.mark \in {"-", "\\"})
  <2>1. acc.next \in Line /\ acc.next + 1 \in Nat /\ acc.lines \in Seq(Line)
    BY <1>3 DEF Scanned, Line
  <2>2. Append(acc.lines, acc.next) \in Seq(Line)
    BY <2>1
  <2> QED
    BY <1>3, <2>1, <2>2 DEF NextLine, Scanned
<1> QED
  BY <1>1, <1>2, <1>3

(* The loop of buildDiffMap, round by round.                                *)
LEMMA ScanRounds ==
    ASSUME NEW patch \in Seq(PatchLine)
    PROVE  /\ DiffScan(patch)[0] = [next |-> 0, lines |-> <<>>]
           /\ \A i \in 1 .. Len(patch) :
                 DiffScan(patch)[i] = NextLine(DiffScan(patch)[i - 1], patch[i])
           /\ \A i \in 0 .. Len(patch) : DiffScan(patch)[i] \in Scanned
<1> DEFINE n == Len(patch)
           start == [next |-> 0, lines |-> <<>>]
           G == [acc \in Scanned |-> [i \in 1 .. n |-> NextLine(acc, patch[i])]]
           Is(f) == f = [i \in 0 .. n |-> IF i = 0 THEN start
                                                   ELSE NextLine(f[i - 1], patch[i])]
           scan == DiffScan(patch)
<1>1. n \in Nat /\ \A i \in 1 .. n : patch[i] \in PatchLine
  OBVIOUS
<1>2. start \in Scanned
  BY DEF Scanned
<1>3. G \in [Scanned -> [1 .. n -> Scanned]]
  BY <1>1, NextLineType
<1>4. PICK f \in [0 .. n -> Scanned] : Computes(f, n, start, G)
  <2> HIDE DEF start, G, n
  <2> QED
    BY <1>1, <1>2, <1>3, PrefixRecursion
<1>5. \A i \in 1 .. n : i - 1 \in 0 .. n /\ f[i] = NextLine(f[i - 1], patch[i])
  <2> SUFFICES ASSUME NEW i \in 1 .. n PROVE i - 1 \in 0 .. n /\ f[i] = NextLine(f[i - 1], patch[i])
    OBVIOUS
  <2> HIDE DEF G, Is, scan, start
  <2>1. i - 1 \in 0 .. n
    BY <1>1
  <2>3. f[i - 1] \in Scanned
    BY <2>1
  <2>2. f[i] = G[f[i - 1]][i]
    BY <1>4 DEF Computes
  <2> QED
    BY <2>1, <2>2, <2>3 DEF G
<1>6. Is(f)
  BY <1>1, <1>4, <1>5 DEF Computes
<1>7. scan = CHOOSE g : Is(g)
  BY DEF DiffScan
<1>8. Is(scan)
  BY <1>6, <1>7
<1> HIDE DEF scan, start
<1>9. scan[0] = start /\ \A i \in 1 .. n : scan[i] = NextLine(scan[i - 1], patch[i])
  BY <1>1, <1>8
<1>10. \A i \in 1 .. n : scan[i - 1] \in Scanned => scan[i] \in Scanned
  BY <1>1, <1>9, NextLineType
<1>11. \A i \in 0 .. n : scan[i] \in Scanned
  <2> HIDE DEF n
  <2> QED
    BY <1>1, <1>2, <1>9, <1>10, PrefixTyping
<1> QED
  BY <1>9, <1>11 DEF scan, start

LEMMA BuildDiffMapType ==
    ASSUME NEW patch \in Seq(PatchLine)
    PROVE  BuildDiffMap(patch) \in Seq(Line)
<1>1. Len(patch) \in 0 .. Len(patch)
  OBVIOUS
<1> QED
  BY <1>1, ScanRounds DEF BuildDiffMap, Scanned

\* h is the header of the hunk that line i of the patch lies in.
Heads(patch, h, i) ==
    /\ h \in 1 .. i /\ patch[h].mark = "@"
    /\ \A m \in h + 1 .. i : patch[m].mark # "@"

RightsIn(patch, m, n) == { k \in m .. n : IsRight(patch[k]) }

\* What the loop has made of the first i lines: the next line number is as far
\* behind the start of the hunk as there are lines of the right side between.
FollowsHunk(patch, i) ==
    \E h \in Nat :
       /\ Heads(patch, h, i)
       /\ DiffScan(patch)[i].next =
             IF patch[h].hunk = 0 THEN 0
             ELSE patch[h].hunk + Cardinality(RightsIn(patch, h + 1, i))

LEMMA RightsFinite ==
    ASSUME NEW patch, NEW m \in Int, NEW n \in Int
    PROVE  IsFiniteSet(RightsIn(patch, m, n)) /\ Cardinality(RightsIn(patch, m, n)) \in Nat
<1>1. IsFiniteSet(m .. n)
  BY FS_Interval
<1>2. RightsIn(patch, m, n) \in SUBSET (m .. n)
  BY DEF RightsIn
<1>3. IsFiniteSet(RightsIn(patch, m, n))
  BY <1>1, <1>2, FS_Subset
<1> QED
  BY <1>3, FS_CardinalityType

LEMMA RightsOneMore ==
    ASSUME NEW patch, NEW m \in Nat, NEW n \in Nat, m <= n + 1
    PROVE  Cardinality(RightsIn(patch, m, n + 1)) =
             IF IsRight(patch[n + 1]) THEN Cardinality(RightsIn(patch, m, n)) + 1
             ELSE Cardinality(RightsIn(patch, m, n))
<1> DEFINE R == RightsIn(patch, m, n)
<1>1. n + 1 \notin R
  BY DEF RightsIn
<1>2. m \in Int /\ n \in Int
  OBVIOUS
<1>3. IsFiniteSet(R)
  BY <1>2, RightsFinite
<1>4. CASE IsRight(patch[n + 1])
  <2>1. RightsIn(patch, m, n + 1) = R \cup {n + 1}
    BY <1>4 DEF RightsIn
  <2> HIDE DEF R
  <2>2. Cardinality(R \cup {n + 1}) = Cardinality(R) + 1
    BY <1>1, <1>3, FS_AddElement
  <2> QED
    BY <1>4, <2>1, <2>2 DEF R
<1>5. CASE ~IsRight(patch[n + 1])
  <2>1. RightsIn(patch, m, n + 1) = R
    BY <1>5 DEF RightsIn
  <2> QED
    BY <1>5, <2>1
<1> QED
  BY <1>4, <1>5

Header(patch, i) ==
    CHOOSE k \in 1 .. i - 1 :
        patch[k].mark = "@" /\ \A m \in k + 1 .. i : patch[m].mark # "@"

NumberOf(patch, i) ==
    patch[Header(patch, i)].hunk + Cardinality(RightsIn(patch, Header(patch, i) + 1, i - 1))

\* The numbers of the right lines among the first i, but for hunks of no lines.
NumbersUpTo(patch, i) ==
    { NumberOf(patch, k) :
        k \in { m \in 1 .. i : IsRight(patch[m]) /\ patch[Header(patch, m)].hunk # 0 } }

LEMMA HeaderIs ==
    ASSUME NEW patch, NEW i \in Nat, NEW h, Heads(patch, h, i), patch[i + 1].mark # "@"
    PROVE  Header(patch, i + 1) = h
<1>1. h \in 1 .. (i + 1) - 1 /\ patch[h].mark = "@"
      /\ \A m \in h + 1 .. i + 1 : patch[m].mark # "@"
  BY DEF Heads
<1>2. ASSUME NEW k \in 1 .. (i + 1) - 1, patch[k].mark = "@",
             \A m \in k + 1 .. i + 1 : patch[m].mark # "@"
      PROVE  k = h
  <2>1. ~(k < h)
    <3>1. k < h => h \in k + 1 .. i + 1
      BY <1>1
    <3> QED
      BY <3>1, <1>1, <1>2
  <2>2. ~(h < k)
    <3>1. h < k => k \in h + 1 .. i + 1
      BY <1>1
    <3> QED
      BY <3>1, <1>1, <1>2
  <2> QED
    BY <2>1, <2>2, <1>1
<1> QED
  BY <1>1, <1>2 DEF Header

LEMMA NumbersOneMore ==
    ASSUME NEW patch, NEW i \in Nat
    PROVE  NumbersUpTo(patch, i + 1) =
             IF IsRight(patch[i + 1]) /\ patch[Header(patch, i + 1)].hunk # 0
               THEN NumbersUpTo(patch, i) \cup {NumberOf(patch, i + 1)}
               ELSE NumbersUpTo(patch, i)
<1> DEFINE Counts(m) == IsRight(patch[m]) /\ patch[Header(patch, m)].hunk # 0
           K(j) == { m \in 1 .. j : Counts(m) }
<1> HIDE DEF Counts
<1>1. K(i + 1) = IF Counts(i + 1) THEN K(i) \cup {i + 1} ELSE K(i)
  OBVIOUS
<1>2. \A j : NumbersUpTo(patch, j) = { NumberOf(patch, k) : k \in K(j) }
  BY DEF NumbersUpTo, Counts
<1> HIDE DEF K
<1>3. CASE Counts(i + 1)
  <2>1. NumbersUpTo(patch, i + 1) = NumbersUpTo(patch, i) \cup {NumberOf(patch, i + 1)}
    BY <1>1, <1>2, <1>3
  <2> QED
    BY <1>3, <2>1 DEF Counts
<1>4. CASE ~Counts(i + 1)
  <2>1. NumbersUpTo(patch, i + 1) = NumbersUpTo(patch, i)
    BY <1>1, <1>2, <1>4
  <2> QED
    BY <1>4, <2>1 DEF Counts
<1> QED
  BY <1>3, <1>4

\* What the loop has found after i lines.
ScanInv(patch, i) ==
    /\ i # 0 => FollowsHunk(patch, i)
    /\ Range(DiffScan(patch)[i].lines) = NumbersUpTo(patch, i)

LEMMA ScanStep ==
    ASSUME NEW patch \in Seq(PatchLine), PlainPatch(patch),
           NEW i \in Nat, i + 1 \in 1 .. Len(patch), ScanInv(patch, i)
    PROVE  ScanInv(patch, i + 1)
<1> DEFINE acc == DiffScan(patch)[i]
           l == patch[i + 1]
<1>1. DiffScan(patch)[i + 1] = NextLine(acc, l) /\ acc \in Scanned
  BY ScanRounds
<1>2. /\ l \in PatchLine /\ l.mark \in {"@", "+", "-", " ", "\\"}
      /\ l.mark = "@" <=> l.hunk # NoHunk
      /\ i = 0 => l.mark = "@"
  <2> HIDE DEF acc
  <2>1. i + 1 \in DOMAIN patch /\ patch # <<>>
    OBVIOUS
  <2>2. l \in PatchLine
    BY <2>1
  <2>3. /\ l.mark \in {"@", "+", "-", " ", "\\"}
        /\ l.mark = "@" <=> l.hunk # NoHunk
    BY <2>1 DEF PlainPatch
  <2>4. patch[1].mark = "@"
    BY <2>1 DEF PlainPatch
  <2>5. i = 0 => patch[i + 1] = patch[1]
    OBVIOUS
  <2> QED
    BY <2>2, <2>3, <2>4, <2>5
<1>3. acc.next \in Nat /\ acc.lines \in Seq(Line)
  BY <1>1 DEF Scanned
<1>4. CASE l.mark = "@"
  <2>1. NextLine(acc, l).next = l.hunk /\ NextLine(acc, l).lines = acc.lines /\ l.hunk \in Nat
    BY <1>1, <1>2, <1>4 DEF NextLine, Scanned, PatchLine
  <2>2. Heads(patch, i + 1, i + 1)
    BY <1>4 DEF Heads
  <2>3. RightsIn(patch, (i + 1) + 1, i + 1) = {}
    BY DEF RightsIn
  <2>4. Cardinality(RightsIn(patch, (i + 1) + 1, i + 1)) = 0
    BY <2>3, FS_EmptySet
  <2>5. FollowsHunk(patch, i + 1)
    BY <1>1, <2>1, <2>2, <2>4 DEF FollowsHunk
  <2>6. NumbersUpTo(patch, i + 1) = NumbersUpTo(patch, i)
    BY <1>4, NumbersOneMore DEF IsRight
  <2> QED
    BY <1>1, <2>1, <2>5, <2>6 DEF ScanInv
<1>5. CASE l.mark # "@"
  <2>1. l.hunk = NoHunk /\ i # 0
    BY <1>2, <1>5
  <2>2. PICK h \in Nat :
          /\ Heads(patch, h, i)
          /\ acc.next = IF patch[h].hunk = 0 THEN 0
                        ELSE patch[h].hunk + Cardinality(RightsIn(patch, h + 1, i))
    BY <2>1 DEF ScanInv, FollowsHunk
  <2>3. Heads(patch, h, i + 1)
    BY <2>2, <1>5 DEF Heads
  <2>4. Header(patch, i + 1) = h
    BY <2>2, <1>5, HeaderIs
  <2> DEFINE before == Cardinality(RightsIn(patch, h + 1, i))
  <2>5. h + 1 \in Nat /\ h + 1 <= i + 1 /\ h \in DOMAIN patch /\ (i + 1) - 1 = i
    BY <2>2 DEF Heads
  <2>6. before \in Nat
    BY <2>5, RightsFinite
  <2>7. patch[h].hunk \in Nat
    <3>1. patch[h].mark = "@" /\ patch[h] \in PatchLine
      BY <2>2, <2>5 DEF Heads
    <3>2. patch[h].hunk # NoHunk
      BY <3>1, <2>5 DEF PlainPatch
    <3> QED
      BY <3>1, <3>2 DEF PatchLine
  <2>8. Cardinality(RightsIn(patch, h + 1, i + 1)) = IF IsRight(l) THEN before + 1 ELSE before
    BY <2>5, RightsOneMore
  <2>9. NumberOf(patch, i + 1) = patch[h].hunk + before
    BY <2>4, <2>5 DEF NumberOf
  <2>10. acc.next = IF patch[h].hunk = 0 THEN 0 ELSE patch[h].hunk + before
    BY <2>2
  <2> HIDE DEF before, acc, l
  <2>11. CASE patch[h].hunk = 0
    <3>1. NextLine(acc, l) = acc
      BY <2>1, <2>10, <2>11 DEF NextLine
    <3>2. FollowsHunk(patch, i + 1)
      BY <1>1, <2>3, <2>10, <2>11, <3>1 DEF FollowsHunk
    <3>3. NumbersUpTo(patch, i + 1) = NumbersUpTo(patch, i)
      BY <2>4, <2>11, NumbersOneMore
    <3> QED
      BY <1>1, <3>1, <3>2, <3>3 DEF ScanInv, acc
  <2>12. CASE patch[h].hunk # 0 /\ ~IsRight(l)
    <3>1. NextLine(acc, l) = acc
      BY <1>2, <1>5, <2>1, <2>12 DEF NextLine, IsRight
    <3>2. DiffScan(patch)[i + 1].next
            = patch[h].hunk + Cardinality(RightsIn(patch, h + 1, i + 1))
      BY <1>1, <2>8, <2>10, <2>12, <3>1
    <3>3. FollowsHunk(patch, i + 1)
      BY <2>3, <2>12, <3>2 DEF FollowsHunk
    <3>4. NumbersUpTo(patch, i + 1) = NumbersUpTo(patch, i)
      BY <2>12, NumbersOneMore DEF l
    <3> QED
      BY <1>1, <3>1, <3>3, <3>4 DEF ScanInv, acc
  <2>13. CASE patch[h].hunk # 0 /\ IsRight(l)
    <3>1. acc.next = patch[h].hunk + before /\ acc.next # 0 /\ acc.next \in Line
      BY <2>6, <2>7, <2>10, <2>13 DEF Line
    <3>2. NextLine(acc, l) = [next |-> acc.next + 1, lines |-> Append(acc.lines, acc.next)]
      BY <2>1, <2>13, <3>1 DEF NextLine, IsRight
    <3>3. DiffScan(patch)[i + 1].next
            = patch[h].hunk + Cardinality(RightsIn(patch, h + 1, i + 1))
      <4>1. Cardinality(RightsIn(patch, h + 1, i + 1)) = before + 1
        BY <2>8, <2>13
      <4>2. DiffScan(patch)[i + 1].next = acc.next + 1
        BY <1>1, <3>2
      <4> QED
        BY <2>6, <2>7, <3>1, <4>1, <4>2
    <3>4. FollowsHunk(patch, i + 1)
      BY <2>3, <2>13, <3>3 DEF FollowsHunk
    <3>5. NumbersUpTo(patch, i + 1) = NumbersUpTo(patch, i) \cup {acc.next}
      BY <2>4, <2>9, <2>13, <3>1, NumbersOneMore DEF l
    <3>6. Range(Append(acc.lines, acc.next)) = Range(acc.lines) \cup {acc.next}
      BY <1>3, <3>1, AppendRange
    <3>7. DiffScan(patch)[i + 1].lines = Append(acc.lines, acc.next)
      BY <1>1, <3>2
    <3>8. Range(acc.lines) = NumbersUpTo(patch, i)
      BY DEF ScanInv, acc
    <3> QED
      BY <3>4, <3>5, <3>6, <3>7, <3>8 DEF ScanInv
  <2> QED
    BY <2>11, <2>12, <2>13
<1> QED
  BY <1>4, <1>5

(* The lines that buildDiffMap finds in a patch are lines of the right side *)
(* as GitHub numbers them, and all of them if no hunk starts at 0, as that  *)
(* of a deleted file does.                                                  *)
THEOREM DiffMapLines ==
    ASSUME NEW patch \in Seq(PatchLine), PlainPatch(patch)
    PROVE  /\ Range(BuildDiffMap(patch)) \subseteq RightLines(patch)
           /\ (\A i \in DOMAIN patch : patch[i].hunk # 0)
                => Range(BuildDiffMap(patch)) = RightLines(patch)
<1> DEFINE n == Len(patch)
           S == { i \in 0 .. n : ScanInv(patch, i) }
<1>1. n \in Nat /\ DOMAIN patch = 1 .. n
  OBVIOUS
<1>2. 0 \in S
  <2>1. Range(<<>>) = {} /\ NumbersUpTo(patch, 0) = {}
    BY DEF Range, NumbersUpTo
  <2>2. DiffScan(patch)[0].lines = <<>>
    BY ScanRounds
  <2>3. 0 \in 0 .. n
    BY <1>1
  <2> QED
    BY <2>1, <2>2, <2>3 DEF ScanInv
<1>3. ASSUME NEW i \in 1 .. n, i - 1 \in S PROVE i \in S
  <2>1. i - 1 \in Nat /\ (i - 1) + 1 = i
    BY <1>1
  <2>2. ScanInv(patch, i - 1)
    BY <1>3
  <2> HIDE DEF n
  <2>3. ScanInv(patch, (i - 1) + 1)
    BY <2>1, <2>2, ScanStep DEF n
  <2> QED
    BY <1>1, <2>1, <2>3
<1>4. n \in S
  <2> HIDE DEF n, S
  <2>1. 0 .. n \subseteq S
    BY <1>1, <1>2, <1>3, UpToInduction
  <2> QED
    BY <1>1, <2>1
<1>5. Range(BuildDiffMap(patch)) = NumbersUpTo(patch, n)
  BY <1>4 DEF ScanInv, BuildDiffMap
<1>6. RightLines(patch) = { NumberOf(patch, i) : i \in { m \in 1 .. n : IsRight(patch[m]) } }
  BY <1>1 DEF RightLines, NumberOf, Header, RightsIn
<1>7. ASSUME \A i \in DOMAIN patch : patch[i].hunk # 0, NEW i \in 1 .. n, IsRight(patch[i])
      PROVE  patch[Header(patch, i)].hunk # 0
  <2>1. i # 1
    <3>1. patch # <<>>
      BY <1>1
    <3>2. patch[1].mark = "@" /\ ~IsRight(patch[1])
      BY <3>1 DEF PlainPatch, IsRight
    <3> QED
      BY <1>7, <3>2
  <2>2. i - 1 \in 0 .. n /\ i - 1 # 0 /\ (i - 1) + 1 = i /\ i - 1 \in Nat
    BY <1>1, <2>1
  <2>3. 0 .. n \subseteq S
    <3> HIDE DEF n, S
    <3> QED
      BY <1>1, <1>2, <1>3, UpToInduction
  <2>4. FollowsHunk(patch, i - 1)
    BY <2>2, <2>3 DEF ScanInv
  <2>5. PICK h \in Nat : Heads(patch, h, i - 1)
    BY <2>4 DEF FollowsHunk
  <2>6. patch[(i - 1) + 1].mark # "@"
    BY <1>7, <2>2 DEF IsRight
  <2>7. Header(patch, (i - 1) + 1) = h
    BY <2>2, <2>5, <2>6, HeaderIs
  <2>8. h \in DOMAIN patch
    BY <1>1, <2>5 DEF Heads
  <2> QED
    BY <1>7, <2>2, <2>7, <2>8
<1> HIDE DEF n
<1> QED
  BY <1>1, <1>5, <1>6, <1>7 DEF NumbersUpTo

-----------------------------------------------------------------------------
(* From the comments of the LLM to those of the review.                     *)

Severe == [file : Seq(STRING), line : Int, severity : Severities,
           suggestion : {"none", "code", "prose"}]
Review == [summary : SUBSET STRING, verdict : Verdicts \cup {""}, comments : Seq(Severe)]

LEMMA FileFields ==
    ASSUME NEW files \in Seq(FileChange), NEW i \in DOMAIN files
    PROVE  files[i].Filename \in Seq(STRING) /\ files[i].Patch \in Seq(PatchLine)
<1>1. files[i] \in FileChange
  OBVIOUS
<1> QED
  BY <1>1 DEF FileChange

LEMMA ReversedLength ==
    ASSUME NEW s \in Seq(STRING)
    PROVE  /\ Reverse(s) \in Seq(STRING) /\ Len(Reverse(s)) = Len(s)
  BY DEF Reverse

LEMMA SuffixFacts ==
    ASSUME NEW s \in Seq(STRING), NEW t \in Seq(STRING)
    PROVE  /\ IsSuffix(s, s)
           /\ IsSuffix(s, t) /\ s # <<>> => t # <<>>
<1> DEFINE r == Reverse(s)
           u == Reverse(t)
<1>1. r \in Seq(STRING) /\ u \in Seq(STRING) /\ Len(r) = Len(s) /\ Len(u) = Len(t)
  BY ReversedLength
<1> HIDE DEF r, u
<1>2. IsPrefix(r, r)
  BY <1>1 DEF IsPrefix
<1>3. IsPrefix(r, u) => Len(r) <= Len(u)
  BY <1>1 DEF IsPrefix
<1>4. (s # <<>> => Len(s) # 0) /\ (Len(t) # 0 => t # <<>>) /\ Len(s) \in Nat /\ Len(t) \in Nat
  OBVIOUS
<1> QED
  BY <1>1, <1>2, <1>3, <1>4 DEF IsSuffix, r, u

LEMMA ResolveFits ==
    ASSUME NEW name \in Seq(STRING), NEW files \in Seq(FileChange)
    PROVE  /\ ResolveFilename(name, files) \in Seq(STRING)
           /\ IsSuffix(name, ResolveFilename(name, files))
           /\ name # <<>> => ResolveFilename(name, files) # <<>>
<1> DEFINE fits == { i \in DOMAIN files : IsStrictSuffix(name, files[i].Filename) }
           first == CHOOSE i \in fits : \A j \in fits : i <= j
<1>1. \A i \in DOMAIN files : files[i].Filename \in Seq(STRING)
  BY FileFields
<1>2. CASE fits = {} \/ \E i \in DOMAIN files : files[i].Filename = name
  <2>1. ResolveFilename(name, files) = name
    BY <1>2 DEF ResolveFilename
  <2> QED
    BY <2>1, SuffixFacts
<1>3. CASE ~(fits = {} \/ \E i \in DOMAIN files : files[i].Filename = name)
  <2>1. ResolveFilename(name, files) = files[first].Filename
    BY <1>3 DEF ResolveFilename
  <2>2. fits \in SUBSET Nat /\ fits # {}
    BY <1>3
  <2>3. first \in fits
    <3> HIDE DEF fits
    <3>1. \E i \in fits : \A j \in fits : i <= j
      BY <2>2, LeastNumber
    <3> QED
      BY <3>1
  <2>4. IsSuffix(name, files[first].Filename) /\ files[first].Filename \in Seq(STRING)
    BY <1>1, <2>3 DEF IsStrictSuffix
  <2> QED
    BY <2>1, <2>4, SuffixFacts
<1> QED
  BY <1>2, <1>3

LEMMA FindDiffLineFits ==
    ASSUME NEW lines \in Seq(Line), NEW target \in Int
    PROVE  /\ FindDiffLine(lines, target) \in Nat
           /\ FindDiffLine(lines, target) # 0 =>
                 /\ FindDiffLine(lines, target) \in Range(lines)
                 /\ Distance(target, FindDiffLine(lines, target)) <= 5
           /\ target \in Range(lines) => FindDiffLine(lines, target) = target
<1> DEFINE nearest(i) ==
              /\ Distance(target, lines[i]) <= 5
              /\ \A j \in DOMAIN lines :
                    Distance(target, lines[i]) < Distance(target, lines[j])
                        \/ (Distance(target, lines[i]) = Distance(target, lines[j]) /\ i <= j)
           found == CHOOSE i \in DOMAIN lines : nearest(i)
<1>1. \A i \in DOMAIN lines : lines[i] \in Line
  OBVIOUS
<1>2. Range(lines) \subseteq Line
  BY <1>1 DEF Range
<1>3. CASE target \in Range(lines)
  <2>1. FindDiffLine(lines, target) = target
    BY <1>3 DEF FindDiffLine
  <2>2. target \in Nat
    BY <1>2, <1>3 DEF Line
  <2> QED
    BY <1>3, <2>1, <2>2 DEF Distance
<1>4. CASE target \notin Range(lines) /\ \E i \in DOMAIN lines : nearest(i)
  <2>1. FindDiffLine(lines, target) = lines[found]
    BY <1>4 DEF FindDiffLine
  <2>2. found \in DOMAIN lines /\ nearest(found)
    BY <1>4
  <2> HIDE DEF found
  <2>3. lines[found] \in Line /\ lines[found] \in Range(lines)
    BY <1>1, <2>2 DEF Range
  <2> QED
    BY <1>4, <2>1, <2>2, <2>3 DEF Line
<1>5. CASE target \notin Range(lines) /\ ~ \E i \in DOMAIN lines : nearest(i)
  <2>1. FindDiffLine(lines, target) = 0
    BY <1>5 DEF FindDiffLine
  <2> QED
    BY <1>5, <2>1
<1> QED
  BY <1>3, <1>4, <1>5

LEMMA DiffLinesFits ==
    ASSUME NEW files \in Seq(FileChange), NEW name
    PROVE  /\ DiffLines(files, name) \in Seq(Line)
           /\ DiffLines(files, name) # <<>> =>
                 \E f \in DOMAIN files : /\ files[f].Filename = name
                                         /\ DiffLines(files, name) = BuildDiffMap(files[f].Patch)
<1> DEFINE entries == { i \in DOMAIN files : files[i].Filename = name }
           last == CHOOSE i \in entries : \A j \in entries : j <= i
<1>1. CASE entries = {}
  <2>1. DiffLines(files, name) = <<>>
    BY <1>1 DEF DiffLines
  <2> QED
    BY <2>1
<1>2. CASE entries # {}
  <2>1. DiffLines(files, name) = BuildDiffMap(files[last].Patch)
    BY <1>2 DEF DiffLines
  <2>2. entries \in SUBSET (1 .. Len(files)) /\ Len(files) \in Nat
    OBVIOUS
  <2>3. last \in entries
    <3> HIDE DEF entries
    <3>1. \E i \in entries : \A j \in entries : j <= i
      BY <1>2, <2>2, GreatestNumber
    <3> QED
      BY <3>1
  <2> HIDE DEF last
  <2>4. files[last].Patch \in Seq(PatchLine)
    BY <2>3, FileFields
  <2> QED
    BY <2>1, <2>3, <2>4, BuildDiffMapType
<1> QED
  BY <1>1, <1>2

LEMMA ListType ==
    ASSUME NEW S, NEW n \in Nat, NEW f \in [1 .. n -> S]
    PROVE  f \in Seq(S)
  OBVIOUS

LEMMA RegexCommentsType ==
    ASSUME NEW comments \in Seq(ReviewComment)
    PROVE  RegexComments(comments) \in Seq(ReviewComment)
<1> DEFINE later(i) == { j \in DOMAIN comments : j >= i /\ comments[j].suggestion # "none" }
           first(i) == CHOOSE j \in later(i) : \A k \in later(i) : j <= k
           suggestion(i) == IF later(i) = {} THEN "none" ELSE comments[first(i)].suggestion
<1>1. ASSUME NEW i \in DOMAIN comments
      PROVE  suggestion(i) \in {"none", "code", "prose"}
  <2>1. CASE later(i) = {}
    BY <2>1
  <2>2. CASE later(i) # {}
    <3>1. later(i) \in SUBSET Nat
      OBVIOUS
    <3>2. first(i) \in later(i)
      <4> HIDE DEF later
      <4>1. \E j \in later(i) : \A k \in later(i) : j <= k
        BY <2>2, <3>1, LeastNumber
      <4> QED
        BY <4>1
    <3> HIDE DEF first
    <3>3. comments[first(i)] \in ReviewComment
      BY <3>2
    <3> QED
      BY <2>2, <3>3 DEF ReviewComment
  <2> QED
    BY <2>1, <2>2
<1>2. RegexComments(comments)
        = [i \in DOMAIN comments |-> [comments[i] EXCEPT !.suggestion = suggestion(i)]]
  BY DEF RegexComments
<1> HIDE DEF suggestion
<1>3. ASSUME NEW i \in DOMAIN comments
      PROVE  [comments[i] EXCEPT !.suggestion = suggestion(i)] \in ReviewComment
  <2>1. comments[i] \in ReviewComment
    OBVIOUS
  <2> QED
    BY <1>1, <2>1 DEF ReviewComment
<1>4. DOMAIN comments = 1 .. Len(comments) /\ Len(comments) \in Nat
  OBVIOUS
<1>5. RegexComments(comments) \in [1 .. Len(comments) -> ReviewComment]
  BY <1>2, <1>3, <1>4
<1> QED
  BY <1>4, <1>5, ListType

LEMMA ReviewRecord ==
    ASSUME NEW text \in SUBSET STRING, NEW verdict \in Verdicts, NEW comments \in Seq(Severe),
           NEW r, r = [summary |-> text, verdict |-> verdict, comments |-> comments]
    PROVE  r \in Review /\ r.verdict \in Verdicts
  BY DEF Review

(* Whatever the LLM answers, the review has one of three verdicts and its   *)
(* comments one of four severities.                                         *)
LEMMA ParsedType ==
    ASSUME NEW out \in LLMOutput
    PROVE  /\ ParseStructuredReview(out) \in Review
           /\ ParseStructuredReview(out).verdict \in Verdicts
<1> DEFINE found == IF out.kind = "cut" THEN RegexComments(out.comments) ELSE out.comments
           normal == [i \in DOMAIN found |-> [found[i] EXCEPT !.severity = NormalizeSeverity(@)]]
<1>1. out.summary \in SUBSET STRING /\ out.comments \in Seq(ReviewComment)
  BY DEF LLMOutput
<1>2. found \in Seq(ReviewComment)
  BY <1>1, RegexCommentsType
<1>3. \A text : ExtractVerdict(text) \in Verdicts
  BY DEF ExtractVerdict, Verdicts
<1> HIDE DEF found
<1>4. normal \in Seq(Severe)
  <2>1. \A i \in DOMAIN found : normal[i] \in Severe
    <3> SUFFICES ASSUME NEW i \in DOMAIN found
                 PROVE  [found[i] EXCEPT !.severity = NormalizeSeverity(@)] \in Severe
      OBVIOUS
    <3>1. found[i] \in ReviewComment
      BY <1>2
    <3>2. NormalizeSeverity(found[i].severity) \in Severities
      BY DEF NormalizeSeverity, Severities
    <3> QED
      BY <3>1, <3>2 DEF ReviewComment, Severe
  <2>2. DOMAIN found = 1 .. Len(found) /\ Len(found) \in Nat
    BY <1>2
  <2>3. normal \in [1 .. Len(found) -> Severe]
    BY <2>1, <2>2
  <2> HIDE DEF normal
  <2> QED
    BY <2>2, <2>3, ListType
<1> HIDE DEF normal
<1>5. CASE out.kind = "text" \/ (out.summary = {} /\ out.verdict = "" /\ found = <<>>)
  <2>1. ParseStructuredReview(out)
          = [summary |-> out.summary, verdict |-> ExtractVerdict(out.summary), comments |-> <<>>]
    BY <1>5 DEF ParseStructuredReview, found
  <2>2. <<>> \in Seq(Severe)
    OBVIOUS
  <2> QED
    BY <1>1, <1>3, <2>1, <2>2, ReviewRecord
<1>6. CASE ~(out.kind = "text" \/ (out.summary = {} /\ out.verdict = "" /\ found = <<>>))
  <2> DEFINE verdict == IF out.verdict \in Verdicts THEN out.verdict
                        ELSE ExtractVerdict(out.summary \cup {out.verdict})
  <2>1. ParseStructuredReview(out)
          = [summary |-> out.summary, verdict |-> verdict, comments |-> normal]
    BY <1>6 DEF ParseStructuredReview, found, normal
  <2>2. verdict \in Verdicts
    BY <1>3
  <2> HIDE DEF verdict
  <2> QED
    BY <1>1, <1>4, <2>1, <2>2, ReviewRecord
<1> QED
  BY <1>5, <1>6

(* What one round of postStructuredReview's loop does to a comment.         *)
LEMMA PlacedFacts ==
    ASSUME NEW c \in Severe, NEW files \in Seq(FileChange)
    PROVE  LET p == Placed(c, files)
               name == ResolveFilename(c.file, files)
               lines == DiffLines(files, name)
           IN  /\ p.at \in Nat /\ p.comment \in Severe
               /\ p.comment.severity = c.severity
               /\ p.at # 0 =>
                     /\ c.file # <<>> /\ c.line > 0
                     /\ p.comment.file = name /\ name # <<>> /\ IsSuffix(c.file, name)
                     /\ p.comment.line = p.at
                     /\ p.at \in Range(lines) /\ Distance(c.line, p.at) <= 5
               /\ p.at = 0 =>
                     \/ p.comment.file = <<>> \/ p.comment.line <= 0
                     \/ /\ p.comment.file = name /\ p.comment.line \notin Range(lines)
<1> DEFINE p == Placed(c, files)
           name == ResolveFilename(c.file, files)
           lines == DiffLines(files, name)
           line == FindDiffLine(lines, c.line)
<1>1. c.file \in Seq(STRING) /\ c.line \in Int /\ c.severity \in Severities
  BY DEF Severe
<1>2. /\ name \in Seq(STRING) /\ IsSuffix(c.file, name)
      /\ c.file # <<>> => name # <<>>
  BY <1>1, ResolveFits
<1>3. lines \in Seq(Line)
  BY DiffLinesFits
<1>4. /\ line \in Nat
      /\ line # 0 => line \in Range(lines) /\ Distance(c.line, line) <= 5
      /\ c.line \in Range(lines) => line = c.line
  BY <1>1, <1>3, FindDiffLineFits
<1>5. CASE c.file = <<>> \/ c.line <= 0
  <2>1. p = [comment |-> c, at |-> 0]
    BY <1>5 DEF Placed
  <2> HIDE DEF p, name, lines
  <2> QED
    BY <1>5, <2>1 DEF p, name, lines
<1>6. CASE ~(c.file = <<>> \/ c.line <= 0)
  <2>1. p = [comment |-> [c EXCEPT !.file = name, !.line = IF line = 0 THEN @ ELSE line],
             at |-> line]
    BY <1>6 DEF Placed
  <2> HIDE DEF p, name, lines, line
  <2>2. /\ p.at = line /\ p.comment.file = name /\ p.comment.severity = c.severity
        /\ p.comment.line = (IF line = 0 THEN c.line ELSE line)
    BY <2>1 DEF Severe
  <2>3. p.comment \in Severe
    <3>1. p.comment = [c EXCEPT !.file = name, !.line = IF line = 0 THEN c.line ELSE line]
      BY <2>1 DEF Severe
    <3>2. (IF line = 0 THEN c.line ELSE line) \in Int
      BY <1>1, <1>4
    <3> QED
      BY <1>2, <3>1, <3>2 DEF Severe
  <2> QED
    BY <1>1, <1>2, <1>4, <1>6, <2>2, <2>3 DEF p, name, lines
<1> QED
  BY <1>5, <1>6

\* A request of postStructuredReview, but for its verdict.
BuiltFrom(r, sha, review, files) ==
    LET built == ReviewRequest(sha, review, files)
    IN  /\ r.commit = built.commit /\ r.comments = built.comments
        /\ r.inline = built.inline /\ r.body = built.body

\* What the review says, comment by comment.
LineOf(review, files, i) == Placed(review.comments[i], files).at
Now(review, files, i) == Placed(review.comments[i], files).comment

RequestIs(r, review, files) ==
    /\ DOMAIN r.comments = DOMAIN review.comments
    /\ \A i \in DOMAIN review.comments : r.comments[i] = Now(review, files, i)
    /\ DOMAIN r.inline = { i \in DOMAIN review.comments : LineOf(review, files, i) # 0 }
    /\ \A i \in DOMAIN r.inline :
          /\ r.inline[i].path = Now(review, files, i).file
          /\ r.inline[i].line = LineOf(review, files, i)
    /\ r.body = { i \in DOMAIN review.comments :
                    ~ \E j \in DOMAIN r.inline :
                         /\ Now(review, files, i).file = Now(review, files, j).file
                         /\ Now(review, files, i).line = LineOf(review, files, j) }

LEMMA CommentFields ==
    ASSUME NEW review \in Review, NEW i \in DOMAIN review.comments
    PROVE  review.comments[i] \in Severe /\ i \in Nat
<1>1. review.comments \in Seq(Severe)
  BY DEF Review
<1> QED
  BY <1>1

LEMMA RequestFacts ==
    ASSUME NEW sha, NEW review, NEW files, NEW r, BuiltFrom(r, sha, review, files)
    PROVE  RequestIs(r, review, files)
<1> DEFINE D == DOMAIN review.comments
           placed   == [i \in D |-> Placed(review.comments[i], files)]
           comments == [i \in DOMAIN placed |-> placed[i].comment]
           inline   == { i \in DOMAIN placed : placed[i].at # 0 }
           posted   == { <<comments[i].file, placed[i].at>> : i \in inline }
           entries  == [i \in inline |->
                          [ path |-> comments[i].file, line |-> placed[i].at,
                            suggests |-> comments[i].suggestion = "code" ]]
<1>1. /\ r.comments = comments /\ r.inline = entries
      /\ r.body = { i \in DOMAIN comments :
                       <<comments[i].file, comments[i].line>> \notin posted }
  BY DEF BuiltFrom, ReviewRequest
<1> HIDE DEF D
<1>2. \A i \in D : comments[i] = Now(review, files, i) /\ placed[i].at = LineOf(review, files, i)
  BY DEF Now, LineOf
<1>3. DOMAIN comments = D /\ inline = { i \in D : placed[i].at # 0 }
  OBVIOUS
<1> HIDE DEF comments, placed, inline
<1>4. /\ DOMAIN entries = inline
      /\ \A i \in inline : entries[i].path = comments[i].file /\ entries[i].line = placed[i].at
  OBVIOUS
<1>5. \A i : <<comments[i].file, comments[i].line>> \notin posted
        <=> ~ \E j \in inline :
               comments[i].file = comments[j].file /\ comments[i].line = placed[j].at
  OBVIOUS
<1> HIDE DEF posted, entries
<1>6. inline \subseteq D
  BY <1>3
<1>7. inline = { i \in D : LineOf(review, files, i) # 0 }
  BY <1>2, <1>3
<1>8. r.body = { i \in D : ~ \E j \in inline :
                   /\ Now(review, files, i).file = Now(review, files, j).file
                   /\ Now(review, files, i).line = LineOf(review, files, j) }
  BY <1>1, <1>2, <1>3, <1>5, <1>6
<1>9. DOMAIN r.comments = D /\ \A i \in D : r.comments[i] = Now(review, files, i)
  BY <1>1, <1>2, <1>3
<1>10. DOMAIN r.inline = inline
       /\ \A i \in inline : r.inline[i].path = Now(review, files, i).file
                             /\ r.inline[i].line = LineOf(review, files, i)
  BY <1>1, <1>2, <1>4, <1>6
<1> QED
  BY <1>7, <1>8, <1>9, <1>10 DEF RequestIs, D

(* Every comment is shown at a line or in the text, and none in both.       *)
LEMMA ShownOnce ==
    ASSUME NEW sha, NEW review \in Review, NEW files \in Seq(FileChange),
           NEW r, BuiltFrom(r, sha, review, files)
    PROVE  /\ DOMAIN r.inline \cup r.body = DOMAIN review.comments
           /\ DOMAIN r.inline \cap r.body = {}
<1> DEFINE D == DOMAIN review.comments
           at(i) == LineOf(review, files, i)
           now(i) == Now(review, files, i)
           lines(f) == Range(DiffLines(files, f))
<1>1. /\ DOMAIN r.inline = { i \in D : at(i) # 0 }
      /\ r.body = { i \in D : ~ \E j \in DOMAIN r.inline :
                        now(i).file = now(j).file /\ now(i).line = at(j) }
  BY RequestFacts DEF RequestIs
<1>2. ASSUME NEW i \in D
      PROVE  /\ at(i) \in Nat
             /\ at(i) # 0 => /\ now(i).file # <<>> /\ now(i).line = at(i)
                             /\ at(i) \in lines(now(i).file)
             /\ at(i) = 0 => \/ now(i).file = <<>> \/ now(i).line <= 0
                             \/ now(i).line \notin lines(now(i).file)
  <2>1. review.comments[i] \in Severe
    BY CommentFields
  <2> HIDE DEF D
  <2> QED
    BY <2>1, PlacedFacts DEF LineOf, Now
<1> HIDE DEF D, at, now, lines
<1>3. ASSUME NEW i \in D, i \notin DOMAIN r.inline PROVE i \in r.body
  <2> SUFFICES ASSUME NEW j \in DOMAIN r.inline,
                      now(i).file = now(j).file, now(i).line = at(j)
               PROVE  FALSE
    BY <1>1
  <2>1. j \in D /\ at(j) # 0 /\ at(i) = 0
    BY <1>1, <1>3
  <2>2. at(j) \in Nat /\ now(j).file # <<>> /\ at(j) \in lines(now(j).file)
    BY <1>2, <2>1
  <2>3. now(i).file # <<>> /\ ~(now(i).line <= 0) /\ now(i).line \in lines(now(i).file)
    BY <2>1, <2>2
  <2> QED
    BY <1>2, <2>1, <2>3
<1>4. ASSUME NEW i \in DOMAIN r.inline PROVE i \notin r.body
  <2>1. i \in D /\ now(i).line = at(i)
    BY <1>1, <1>2
  <2> QED
    BY <1>1, <2>1
<1>5. DOMAIN r.inline \subseteq D /\ r.body \subseteq D
  BY <1>1
<1> QED
  BY <1>3, <1>4, <1>5 DEF D

LEMMA StandsNearby ==
    ASSUME NEW sha, NEW review \in Review, NEW files \in Seq(FileChange),
           NEW r, BuiltFrom(r, sha, review, files), NEW i \in DOMAIN r.inline
    PROVE  /\ Distance(review.comments[i].line, r.inline[i].line) <= 5
           /\ IsSuffix(review.comments[i].file, r.inline[i].path)
<1> DEFINE c == review.comments[i]
           p == Placed(c, files)
<1>1. /\ i \in DOMAIN review.comments /\ c \in Severe
      /\ r.inline[i].path = p.comment.file /\ r.inline[i].line = p.at /\ p.at # 0
  <2>1. RequestIs(r, review, files)
    BY RequestFacts
  <2>2. i \in DOMAIN review.comments /\ LineOf(review, files, i) # 0
    BY <2>1 DEF RequestIs
  <2>3. r.inline[i].path = Now(review, files, i).file
        /\ r.inline[i].line = LineOf(review, files, i)
    BY <2>1 DEF RequestIs
  <2> QED
    BY <2>2, <2>3, CommentFields DEF LineOf, Now
<1>2. p.comment.file = ResolveFilename(c.file, files)
      /\ IsSuffix(c.file, ResolveFilename(c.file, files)) /\ Distance(c.line, p.at) <= 5
  BY <1>1, PlacedFacts
<1> HIDE DEF p
<1> QED
  BY <1>1, <1>2

(* Every comment at a line is at a line that one of the files shows.        *)
LEMMA LinesOfFiles ==
    ASSUME NEW sha, NEW review \in Review, NEW files \in Seq(FileChange),
           NEW r, BuiltFrom(r, sha, review, files), NEW i \in DOMAIN r.inline,
           \A f \in DOMAIN files : PlainPatch(files[f].Patch)
    PROVE  \E f \in DOMAIN files : /\ files[f].Filename = r.inline[i].path
                                   /\ r.inline[i].line \in RightLines(files[f].Patch)
<1> DEFINE c == review.comments[i]
           p == Placed(c, files)
           name == ResolveFilename(c.file, files)
<1>1. /\ i \in DOMAIN review.comments /\ c \in Severe
      /\ r.inline[i].path = p.comment.file /\ r.inline[i].line = p.at /\ p.at # 0
  <2>1. RequestIs(r, review, files)
    BY RequestFacts
  <2>2. i \in DOMAIN review.comments /\ LineOf(review, files, i) # 0
    BY <2>1 DEF RequestIs
  <2>3. r.inline[i].path = Now(review, files, i).file
        /\ r.inline[i].line = LineOf(review, files, i)
    BY <2>1 DEF RequestIs
  <2> QED
    BY <2>2, <2>3, CommentFields DEF LineOf, Now
<1>2. p.comment.file = name /\ p.at \in Range(DiffLines(files, name))
  BY <1>1, PlacedFacts
<1> HIDE DEF p, name
<1>3. DiffLines(files, name) # <<>>
  BY <1>2 DEF Range
<1>4. PICK f \in DOMAIN files : files[f].Filename = name
                                /\ DiffLines(files, name) = BuildDiffMap(files[f].Patch)
  BY <1>3, DiffLinesFits
<1>5. Range(BuildDiffMap(files[f].Patch)) \subseteq RightLines(files[f].Patch)
  BY FileFields, DiffMapLines
<1> QED
  BY <1>1, <1>2, <1>4, <1>5

(* The reaction to a comment that has its line for itself is its own.       *)
LEMMA ReactionOfOwn ==
    ASSUME NEW sha, NEW review \in Review, NEW files \in Seq(FileChange),
           NEW r, BuiltFrom(r, sha, review, files), NEW i \in DOMAIN r.inline,
           \A j \in DOMAIN r.inline \ {i} :
              <<r.inline[j].path, r.inline[j].line>> # <<r.inline[i].path, r.inline[i].line>>
    PROVE  ReactionTo(r, i) = Reaction(review.comments[i].severity)
<1> DEFINE D == DOMAIN review.comments
           at(j) == LineOf(review, files, j)
           now(j) == Now(review, files, j)
           there == { j \in DOMAIN r.comments :
                        r.comments[j].file = r.inline[i].path
                          /\ r.comments[j].line = r.inline[i].line }
           last == CHOOSE j \in there : \A k \in there : k <= j
<1>1. /\ DOMAIN r.comments = D /\ DOMAIN r.inline = { j \in D : at(j) # 0 }
      /\ \A j \in D : r.comments[j] = now(j)
      /\ \A j \in DOMAIN r.inline :
            r.inline[j].path = now(j).file /\ r.inline[j].line = at(j)
      /\ r.body = { k \in D : ~ \E j \in DOMAIN r.inline :
                        now(k).file = now(j).file /\ now(k).line = at(j) }
  BY RequestFacts DEF RequestIs
<1>2. \A j \in D : j \in Nat /\ review.comments[j] \in Severe
  BY CommentFields
<1>3. \A j \in D : (at(j) # 0 => now(j).line = at(j))
                   /\ now(j).severity = review.comments[j].severity
  BY <1>2, PlacedFacts DEF LineOf, Now
<1>4. DOMAIN r.inline \cup r.body = D
  BY ShownOnce
<1> HIDE DEF D, at, now
<1>5. i \in there
  BY <1>1, <1>3
<1>6. ASSUME NEW j \in there PROVE j = i
  <2>1. j \in D /\ now(j).file = now(i).file /\ now(j).line = at(i)
    BY <1>1, <1>6
  <2>2. j \notin r.body
    BY <1>1, <2>1
  <2>3. j \in DOMAIN r.inline
    BY <1>4, <2>1, <2>2
  <2>4. r.inline[j].path = r.inline[i].path /\ r.inline[j].line = r.inline[i].line
    BY <1>1, <1>3, <2>1, <2>3
  <2> QED
    BY <2>3, <2>4
<1>7. there = {i} /\ i \in Nat
  BY <1>1, <1>2, <1>5, <1>6
<1> HIDE DEF there
<1>8. last = i
  <2>1. i \in there /\ \A k \in there : k <= i
    BY <1>7
  <2>2. last \in there
    BY <2>1
  <2> QED
    BY <1>7, <2>2
<1>9. ReactionTo(r, i) = Reaction(r.comments[last].severity)
  BY DEF ReactionTo, there
<1> QED
  BY <1>1, <1>3, <1>8, <1>9

-----------------------------------------------------------------------------
(* The attempts.                                                            *)

Events == {"APPROVE", "REQUEST_CHANGES", "COMMENT"}

FreshRequests ==
    { ReviewRequest(sha, review, files) :
        sha \in Nat, review \in Review, files \in Seq(FileChange) }

Posted(r, e) == [r EXCEPT !.event = e]
Requests == { Posted(r, e) : e \in Events, r \in FreshRequests }

Setups == [token : BOOLEAN, postReviews : BOOLEAN, own : BOOLEAN, job : Jobs]

Attempts ==
    [ step : Running \cup {"none", "done", "dead"}, sha : 0 .. Len(Diffs),
      files : Seq(FileChange), fetched : 0 .. Len(Diffs), review : Review,
      request : Requests, success : BOOLEAN, posted : BOOLEAN, count : Nat ]

\* Before fetchPRFiles has ended.
Early == {"none", "info", "files"}

Allowed(s) == s.token /\ s.postReviews /\ s.job.number

\* What is known of an attempt v with setup s and latest commit h, that has made
\* the reviews made, to whose comments it has added the reactions given.
AttemptInv(s, h, v, made, given) ==
    /\ v.sha <= h /\ v.fetched <= h
    /\ v.step \in Early => v.fetched = 0
    /\ v.fetched # 0 => v.fetched >= v.sha /\ v.files = Diffs[v.fetched]
    /\ v.step # "done" => made = <<>> /\ ~v.posted
    /\ v.step = "post" => Allowed(s) /\ BuiltFrom(v.request, v.sha, v.review, v.files)
    /\ made # <<>> => /\ made = <<made[1]>> /\ Allowed(s)
                      /\ BuiltFrom(made[1], made[1].commit, v.review, v.files)
                      /\ v.sha # 0 => made[1].commit = v.sha
    /\ v.posted => /\ v.success /\ made # <<>>
                   /\ v.count = Cardinality(DOMAIN made[1].inline)
    /\ given # <<>> =>
          /\ v.posted
          /\ \E done \in SUBSET DOMAIN made[1].inline :
                given = [i \in done |-> ReactionTo(made[1], i)]

ReviewInv ==
    /\ setup \in Setups /\ head \in DOMAIN Diffs
    /\ attempt \in [Attempt -> Attempts]
    /\ DOMAIN reviews = Attempt /\ DOMAIN reactions = Attempt
    /\ refused \in [Attempt -> 0 .. head]
    /\ crashes \in 0 .. MaxCrashes
    /\ \A a \in Attempt : AttemptInv(setup, head, attempt[a], reviews[a], reactions[a])

LEMMA Constants ==
    /\ Len(Diffs) \in Nat /\ DOMAIN Diffs = 1 .. Len(Diffs) /\ 1 \in DOMAIN Diffs
    /\ \A d \in DOMAIN Diffs : Diffs[d] \in Seq(FileChange)
    /\ MaxCrashes \in Nat
    /\ \A job \in Jobs : /\ job.number \in BOOLEAN /\ job.sha \in 0 .. Len(Diffs)
                         /\ job.files \in Seq(FileChange)
    /\ Outputs \subseteq LLMOutput
<1>1. Diffs \in Seq(Seq(FileChange)) /\ Diffs # <<>>
  BY ReviewAssumption
<1>2. /\ Len(Diffs) \in Nat /\ DOMAIN Diffs = 1 .. Len(Diffs) /\ 1 \in DOMAIN Diffs
      /\ \A d \in DOMAIN Diffs : Diffs[d] \in Seq(FileChange)
  BY <1>1
<1>3. /\ MaxCrashes \in Nat /\ Outputs \subseteq LLMOutput
      /\ \A job \in Jobs : job \in [number : BOOLEAN, sha : 0 .. Len(Diffs),
                                    cloneURL : BOOLEAN, files : Seq(FileChange)]
  BY ReviewAssumption
<1> QED
  BY <1>2, <1>3

LEMMA RequestKept ==
    ASSUME NEW sha, NEW review, NEW files
    PROVE  /\ ReviewRequest(sha, review, files).event \in Events
           /\ BuiltFrom(ReviewRequest(sha, review, files), sha, review, files)
           /\ sha \in Nat /\ review \in Review /\ files \in Seq(FileChange)
                => ReviewRequest(sha, review, files) \in Requests
<1> DEFINE r == ReviewRequest(sha, review, files)
<1>1. r.event \in Events
  BY DEF ReviewRequest, Event, Events
<1>2. BuiltFrom(r, sha, review, files)
  BY DEF BuiltFrom
<1>3. [r EXCEPT !.event = r.event] = r
  BY DEF ReviewRequest
<1> HIDE DEF r
<1>4. ASSUME sha \in Nat, review \in Review, files \in Seq(FileChange)
      PROVE  r \in Requests
  <2>1. r \in FreshRequests
    BY <1>4 DEF r, FreshRequests
  <2> QED
    BY <1>1, <1>3, <2>1 DEF Requests, Posted
<1> QED
  BY <1>1, <1>2, <1>4 DEF r

LEMMA AsComment ==
    ASSUME NEW r \in Requests
    PROVE  /\ [r EXCEPT !.event = "COMMENT"] \in Requests
           /\ \A sha, review, files :
                 BuiltFrom(r, sha, review, files)
                   => BuiltFrom([r EXCEPT !.event = "COMMENT"], sha, review, files)
<1>1. PICK e \in Events, q \in FreshRequests : r = [q EXCEPT !.event = e]
  BY DEF Requests, Posted
<1>2. q = [commit |-> q.commit, event |-> q.event, comments |-> q.comments,
           inline |-> q.inline, body |-> q.body]
  <2>1. PICK sha \in Nat, review \in Review, files \in Seq(FileChange) :
          q = ReviewRequest(sha, review, files)
    BY DEF FreshRequests
  <2> QED
    BY <2>1 DEF ReviewRequest
<1>3. [r EXCEPT !.event = "COMMENT"] = [q EXCEPT !.event = "COMMENT"]
  BY <1>1, <1>2
<1>4. "COMMENT" \in Events
  BY DEF Events
<1>5. [q EXCEPT !.event = "COMMENT"] \in Requests
  <2>1. Posted(q, "COMMENT") \in Requests
    BY <1>4 DEF Requests
  <2> QED
    BY <2>1 DEF Posted
<1>6. /\ [r EXCEPT !.event = "COMMENT"].commit = r.commit
      /\ [r EXCEPT !.event = "COMMENT"].comments = r.comments
      /\ [r EXCEPT !.event = "COMMENT"].inline = r.inline
      /\ [r EXCEPT !.event = "COMMENT"].body = r.body
  BY <1>1, <1>2
<1> QED
  BY <1>3, <1>5, <1>6 DEF BuiltFrom

\* The review as GitHub keeps it, of commit c.
LEMMA OfCommit ==
    ASSUME NEW r \in Requests, NEW c, NEW sha, NEW review, NEW files,
           BuiltFrom(r, sha, review, files)
    PROVE  /\ [r EXCEPT !.commit = c].commit = c
           /\ [r EXCEPT !.commit = c].inline = r.inline
           /\ BuiltFrom([r EXCEPT !.commit = c], c, review, files)
<1>1. PICK e \in Events, q \in FreshRequests : r = [q EXCEPT !.event = e]
  BY DEF Requests, Posted
<1>2. q = [commit |-> q.commit, event |-> q.event, comments |-> q.comments,
           inline |-> q.inline, body |-> q.body]
  <2>1. PICK d \in Nat, given \in Review, changes \in Seq(FileChange) :
          q = ReviewRequest(d, given, changes)
    BY DEF FreshRequests
  <2> QED
    BY <2>1 DEF ReviewRequest
<1> DEFINE t == [r EXCEPT !.commit = c]
<1>3. /\ t.commit = c /\ t.comments = r.comments
      /\ t.inline = r.inline /\ t.body = r.body
  BY <1>1, <1>2
<1> HIDE DEF t
<1>4. ReviewRequest(c, review, files).commit = c
      /\ ReviewRequest(c, review, files).comments = ReviewRequest(sha, review, files).comments
      /\ ReviewRequest(c, review, files).inline = ReviewRequest(sha, review, files).inline
      /\ ReviewRequest(c, review, files).body = ReviewRequest(sha, review, files).body
  BY DEF ReviewRequest
<1>5. BuiltFrom(t, c, review, files)
  BY <1>3, <1>4 DEF BuiltFrom
<1> QED
  BY <1>3, <1>5 DEF t

LEMMA InlineFinite ==
    ASSUME NEW sha, NEW review \in Review, NEW files \in Seq(FileChange),
           NEW r, BuiltFrom(r, sha, review, files)
    PROVE  Cardinality(DOMAIN r.inline) \in Nat
<1>1. DOMAIN r.inline \subseteq DOMAIN review.comments
  BY ShownOnce
<1>2. review.comments \in Seq(Severe)
  BY DEF Review
<1>3. DOMAIN review.comments = 1 .. Len(review.comments) /\ Len(review.comments) \in Int
  BY <1>2
<1>4. IsFiniteSet(DOMAIN review.comments)
  BY <1>3, FS_Interval
<1>5. IsFiniteSet(DOMAIN r.inline)
  BY <1>1, <1>4, FS_Subset
<1> QED
  BY <1>5, FS_CardinalityType

LEMMA NoReviewType == NoReview \in Review
<1>1. <<>> \in Seq(Severe)
  OBVIOUS
<1> QED
  BY <1>1 DEF NoReview, Review

LEMMA NotStartedType == NotStarted \in Attempts
<1>1. <<>> \in Seq(FileChange)
  OBVIOUS
<1>2. NoRequest \in Requests
  BY <1>1, NoReviewType, RequestKept DEF NoRequest
<1> QED
  BY <1>1, <1>2, NoReviewType, Constants DEF NotStarted, Attempts

LEMMA ReviewInit == Init => ReviewInv
<1> SUFFICES ASSUME Init PROVE ReviewInv
  OBVIOUS
<1>1. attempt \in [Attempt -> Attempts]
  BY NotStartedType DEF Init
<1>2. AttemptInv(setup, head, NotStarted, <<>>, <<>>)
  <2> DEFINE v == NotStarted
  <2>1. v.sha = 0 /\ v.fetched = 0 /\ v.step = "none" /\ v.posted = FALSE
    BY DEF NotStarted
  <2>2. head = 1
    BY DEF Init
  <2> HIDE DEF v
  <2>3. AttemptInv(setup, head, v, <<>>, <<>>)
    BY <2>1, <2>2 DEF AttemptInv
  <2> QED
    BY <2>3 DEF v
<1> QED
  BY <1>1, <1>2, Constants DEF Init, ReviewInv, Setups

\* Only the value at a changes.
OnlyAt(g, f, a, x) == g[a] = x /\ \A b \in Attempt \ {a} : g[b] = f[b]

(* An action of one attempt leaves the others alone.                        *)
LEMMA OneAttempt ==
    ASSUME ReviewInv, NEW a \in Attempt, NEW v \in Attempts, NEW made, NEW given,
           UNCHANGED <<setup, head>>, Becomes(a, v),
           DOMAIN reviews' = Attempt, OnlyAt(reviews', reviews, a, made),
           DOMAIN reactions' = Attempt, OnlyAt(reactions', reactions, a, given),
           refused' \in [Attempt -> 0 .. head], crashes' \in 0 .. MaxCrashes,
           AttemptInv(setup, head, v, made, given)
    PROVE  ReviewInv'
<1>1. attempt' \in [Attempt -> Attempts] /\ attempt'[a] = v
      /\ \A b \in Attempt \ {a} : attempt'[b] = attempt[b]
  BY DEF ReviewInv, Becomes
<1>2. ASSUME NEW b \in Attempt
      PROVE  AttemptInv(setup', head', attempt'[b], reviews'[b], reactions'[b])
  <2>1. CASE b = a
    BY <1>1, <2>1 DEF OnlyAt
  <2>2. CASE b # a
    <3>1. AttemptInv(setup, head, attempt[b], reviews[b], reactions[b])
      BY DEF ReviewInv
    <3> QED
      BY <1>1, <2>2, <3>1 DEF OnlyAt
  <2> QED
    BY <2>1, <2>2
<1> QED
  BY <1>1, <1>2 DEF ReviewInv

(* ... and most actions only its own local variables.                       *)
LEMMA OnlyLocals ==
    ASSUME ReviewInv, NEW a \in Attempt, NEW v \in Attempts,
           UNCHANGED <<setup, head, reviews, reactions>>, Becomes(a, v),
           refused' \in [Attempt -> 0 .. head], crashes' \in 0 .. MaxCrashes,
           AttemptInv(setup, head, v, reviews[a], reactions[a])
    PROVE  ReviewInv'
<1>1. /\ DOMAIN reviews' = Attempt /\ OnlyAt(reviews', reviews, a, reviews[a])
      /\ DOMAIN reactions' = Attempt /\ OnlyAt(reactions', reactions, a, reactions[a])
  BY DEF ReviewInv, OnlyAt
<1> QED
  BY <1>1, OneAttempt

LEMMA PushInv ==
    ASSUME ReviewInv, PushCommit
    PROVE  ReviewInv'
<1>1. head' \in DOMAIN Diffs /\ head' = head + 1 /\ head \in Nat
  BY Constants DEF ReviewInv, PushCommit
<1>2. refused' \in [Attempt -> 0 .. head']
  BY <1>1 DEF ReviewInv, PushCommit
<1>3. ASSUME NEW a \in Attempt
      PROVE  AttemptInv(setup', head', attempt'[a], reviews'[a], reactions'[a])
  <2> DEFINE v == attempt[a]
  <2>1. AttemptInv(setup, head, v, reviews[a], reactions[a])
    BY DEF ReviewInv
  <2>2. v.sha \in Nat /\ v.fetched \in Nat
    <3>1. v \in Attempts
      BY DEF ReviewInv
    <3> QED
      BY <3>1, Constants DEF Attempts
  <2>3. v.sha <= head' /\ v.fetched <= head'
    BY <1>1, <2>1, <2>2 DEF AttemptInv
  <2> QED
    BY <2>1, <2>3 DEF AttemptInv, PushCommit
<1> QED
  BY <1>1, <1>2, <1>3 DEF ReviewInv, PushCommit

LEMMA DeliverInv ==
    ASSUME ReviewInv, NEW a \in Attempt, Deliver(a)
    PROVE  ReviewInv'
<1> DEFINE v == [NotStarted EXCEPT !.step = "info", !.sha = setup.job.sha,
                                   !.files = setup.job.files]
<1>1. setup.job.sha \in 0 .. Len(Diffs) /\ setup.job.files \in Seq(FileChange)
      /\ setup.job.sha <= head /\ 0 <= head
  BY Constants DEF ReviewInv, Setups, Deliver
<1>2. v \in Attempts
  BY <1>1, NotStartedType DEF Attempts, Running
<1>3. v.step = "info" /\ v.fetched = 0 /\ ~v.posted /\ v.sha = setup.job.sha
  BY DEF NotStarted
<1>4. reviews[a] = <<>> /\ reactions[a] = <<>>
  BY DEF Deliver, ReviewInv, AttemptInv
<1>5. Becomes(a, v) /\ UnchangedGitHub
  BY DEF Deliver
<1> HIDE DEF v
<1>6. AttemptInv(setup, head, v, reviews[a], reactions[a])
  BY <1>1, <1>3, <1>4 DEF AttemptInv
<1> QED
  BY <1>2, <1>5, <1>6, OnlyLocals DEF UnchangedGitHub, ReviewInv

\* An action that ends the attempt before anything is posted, or carries it on
\* with what it has fetched.
LEMMA LocalStep ==
    ASSUME ReviewInv, NEW a \in Attempt, NEW v \in Attempts, Becomes(a, v),
           UNCHANGED <<setup, head, reviews, reactions>>,
           refused' \in [Attempt -> 0 .. head], crashes' \in 0 .. MaxCrashes,
           attempt[a].step # "done", ~v.posted, v.sha <= head, v.fetched <= head,
           v.step \in Early => v.fetched = 0,
           v.fetched # 0 => v.fetched >= v.sha /\ v.files = Diffs[v.fetched],
           v.step = "post" =>
              Allowed(setup) /\ BuiltFrom(v.request, v.sha, v.review, v.files)
    PROVE  ReviewInv'
<1>1. reviews[a] = <<>> /\ reactions[a] = <<>>
  BY DEF ReviewInv, AttemptInv
<1>2. AttemptInv(setup, head, v, reviews[a], reactions[a])
  BY <1>1 DEF AttemptInv
<1> QED
  BY <1>2, OnlyLocals

\* What every action of an attempt that runs starts from.
LEMMA AttemptFacts ==
    ASSUME ReviewInv, NEW a \in Attempt
    PROVE  /\ attempt[a] \in Attempts
           /\ AttemptInv(setup, head, attempt[a], reviews[a], reactions[a])
           /\ head \in 1 .. Len(Diffs) /\ Diffs[head] \in Seq(FileChange)
           /\ attempt[a].sha \in Nat /\ attempt[a].fetched \in Nat
           /\ refused \in [Attempt -> 0 .. head] /\ crashes \in 0 .. MaxCrashes
<1>1. attempt[a] \in Attempts
  BY DEF ReviewInv
<1>2. attempt[a].sha \in Nat /\ attempt[a].fetched \in Nat
  BY <1>1, Constants DEF Attempts
<1> QED
  BY <1>1, <1>2, Constants DEF ReviewInv

LEMMA CrashInv ==
    ASSUME ReviewInv, NEW a \in Attempt, Crash(a)
    PROVE  ReviewInv'
<1> DEFINE v == [attempt[a] EXCEPT !.step = "dead"]
<1>1. v \in Attempts /\ v.step = "dead" /\ v.posted = attempt[a].posted
      /\ v.sha = attempt[a].sha /\ v.fetched = attempt[a].fetched /\ v.files = attempt[a].files
  BY AttemptFacts DEF Attempts
<1>2. attempt[a].step # "done" /\ crashes' \in 0 .. MaxCrashes
  BY AttemptFacts, Constants DEF Crash, Running
<1>3. Becomes(a, v) /\ UNCHANGED <<setup, head, reviews, refused, reactions>>
  BY DEF Crash
<1> HIDE DEF v
<1>4. v.step \notin Early /\ v.step # "post"
  BY <1>1 DEF Early
<1>5. AttemptInv(setup, head, attempt[a], reviews[a], reactions[a])
  BY AttemptFacts
<1>6. /\ ~v.posted /\ v.sha <= head /\ v.fetched <= head
      /\ v.fetched # 0 => v.fetched >= v.sha /\ v.files = Diffs[v.fetched]
  BY <1>1, <1>2, <1>5 DEF AttemptInv
<1> QED
  BY <1>1, <1>2, <1>3, <1>4, <1>6, AttemptFacts, LocalStep

\* The same for the actions that touch nothing but the local variables.
LEMMA QuietStep ==
    ASSUME ReviewInv, NEW a \in Attempt, NEW v \in Attempts, Becomes(a, v), UnchangedGitHub,
           attempt[a].step # "done", v.posted = attempt[a].posted \/ v.posted = FALSE,
           v.sha <= head, v.fetched <= head,
           v.step \in Early => v.fetched = 0,
           v.fetched # 0 => v.fetched >= v.sha /\ v.files = Diffs[v.fetched],
           v.step = "post" =>
              Allowed(setup) /\ BuiltFrom(v.request, v.sha, v.review, v.files)
    PROVE  ReviewInv'
<1>1. ~v.posted
  BY AttemptFacts DEF AttemptInv
<1>2. refused' \in [Attempt -> 0 .. head] /\ crashes' \in 0 .. MaxCrashes
      /\ UNCHANGED <<setup, head, reviews, reactions>>
  BY AttemptFacts DEF UnchangedGitHub
<1> QED
  BY <1>1, <1>2, LocalStep

LEMMA InfoInv ==
    ASSUME ReviewInv, NEW a \in Attempt, FetchPRInfo(a)
    PROVE  ReviewInv'
<1>1. PICK sha, step :
        /\ sha \in {attempt[a].sha, head} /\ step \in {"clone", "files"}
        /\ Becomes(a, [attempt[a] EXCEPT !.step = step, !.sha = sha])
  <2>1. attempt[a] = [attempt[a] EXCEPT !.sha = attempt[a].sha]
    BY AttemptFacts DEF Attempts
  <2>2. CASE ~AsksGitHub
    <3>1. Becomes(a, [attempt[a] EXCEPT !.step = "clone", !.sha = attempt[a].sha])
      BY <2>2, AttemptFacts DEF FetchPRInfo, Attempts
    <3> QED
      BY <3>1
  <2>3. CASE AsksGitHub /\ Becomes(a, [attempt[a] EXCEPT !.step = "files"])
    <3>1. Becomes(a, [attempt[a] EXCEPT !.step = "files", !.sha = attempt[a].sha])
      BY <2>3, AttemptFacts DEF Attempts
    <3> QED
      BY <3>1
  <2>4. CASE AsksGitHub /\ Becomes(a, [attempt[a] EXCEPT !.step = "files",
                                         !.sha = IF @ = 0 THEN head ELSE @])
    <3>1. Becomes(a, [attempt[a] EXCEPT !.step = "files",
                        !.sha = IF attempt[a].sha = 0 THEN head ELSE attempt[a].sha])
      BY <2>4, AttemptFacts DEF Attempts
    <3> QED
      BY <3>1
  <2> QED
    BY <2>2, <2>3, <2>4 DEF FetchPRInfo
<1> DEFINE v == [attempt[a] EXCEPT !.step = step, !.sha = sha]
<1>2. /\ v \in Attempts /\ v.sha = sha /\ v.step = step /\ v.posted = attempt[a].posted
      /\ v.fetched = attempt[a].fetched
  <2>1. sha \in 0 .. Len(Diffs)
    BY <1>1, AttemptFacts DEF Attempts
  <2>2. step \in Running
    BY <1>1 DEF Running
  <2> QED
    BY <2>1, <2>2, AttemptFacts DEF Attempts
<1>3. attempt[a].step = "info" /\ UnchangedGitHub /\ Becomes(a, v)
  BY <1>1 DEF FetchPRInfo
<1> HIDE DEF v
<1>4. v.fetched = 0 /\ v.sha <= head /\ 0 <= head
  BY <1>1, <1>2, <1>3, AttemptFacts DEF AttemptInv, Early
<1>5. v.step # "post" /\ attempt[a].step # "done" /\ v.fetched <= head
  BY <1>1, <1>2, <1>3, <1>4
<1> QED
  BY <1>2, <1>3, <1>4, <1>5, QuietStep

LEMMA FilesInv ==
    ASSUME ReviewInv, NEW a \in Attempt, FetchPRFiles(a)
    PROVE  ReviewInv'
<1>1. PICK fetched, files :
        /\ \/ fetched = head /\ files = Diffs[head]
           \/ fetched = attempt[a].fetched /\ files = attempt[a].files
        /\ Becomes(a, [attempt[a] EXCEPT !.step = "clone", !.fetched = fetched, !.files = files])
  <2>1. CASE Becomes(a, [attempt[a] EXCEPT !.step = "clone"])
    <3>1. Becomes(a, [attempt[a] EXCEPT !.step = "clone", !.fetched = attempt[a].fetched,
                                        !.files = attempt[a].files])
      BY <2>1, AttemptFacts DEF Attempts
    <3> QED
      BY <3>1
  <2>2. CASE Becomes(a, [attempt[a] EXCEPT !.step = "clone", !.fetched = head,
                                           !.files = Diffs[head]])
    BY <2>2
  <2> QED
    BY <2>1, <2>2 DEF FetchPRFiles
<1> DEFINE v == [attempt[a] EXCEPT !.step = "clone", !.fetched = fetched, !.files = files]
<1>2. /\ v \in Attempts /\ v.fetched = fetched /\ v.files = files /\ v.step = "clone"
      /\ v.posted = attempt[a].posted /\ v.sha = attempt[a].sha
  <2>1. fetched \in 0 .. Len(Diffs) /\ files \in Seq(FileChange)
    BY <1>1, AttemptFacts DEF Attempts
  <2>2. "clone" \in Running
    BY DEF Running
  <2> QED
    BY <2>1, <2>2, AttemptFacts DEF Attempts
<1>3. attempt[a].step = "files" /\ UnchangedGitHub /\ Becomes(a, v)
  BY <1>1 DEF FetchPRFiles
<1> HIDE DEF v
<1>4. attempt[a].fetched = 0 /\ v.sha <= head /\ head \in Nat
  BY <1>2, <1>3, AttemptFacts DEF AttemptInv, Early
<1>5. v.fetched <= head
  BY <1>1, <1>2, <1>4
<1>6. v.fetched # 0 => v.fetched >= v.sha /\ v.files = Diffs[v.fetched]
  BY <1>1, <1>2, <1>4, AttemptFacts
<1>7. v.step \notin Early /\ v.step # "post" /\ attempt[a].step # "done"
  BY <1>2, <1>3 DEF Early
<1> QED
  BY <1>2, <1>3, <1>4, <1>5, <1>6, <1>7, QuietStep

\* Once the files are there, the commit, the files and their origin stay.
LEMMA KeptFiles ==
    ASSUME ReviewInv, NEW a \in Attempt, NEW v \in Attempts, Becomes(a, v), UnchangedGitHub,
           attempt[a].step # "done", v.step \notin Early,
           v.sha = attempt[a].sha, v.files = attempt[a].files,
           v.fetched = attempt[a].fetched, v.posted = FALSE,
           v.step = "post" =>
              Allowed(setup) /\ BuiltFrom(v.request, v.sha, v.review, v.files)
    PROVE  ReviewInv'
<1>1. /\ v.sha <= head /\ v.fetched <= head
      /\ v.fetched # 0 => v.fetched >= v.sha /\ v.files = Diffs[v.fetched]
  BY AttemptFacts DEF AttemptInv
<1> QED
  BY <1>1, QuietStep

LEMMA CloneInv ==
    ASSUME ReviewInv, NEW a \in Attempt, CloneRepo(a)
    PROVE  ReviewInv'
<1> DEFINE v == [attempt[a] EXCEPT !.step = "llm"]
<1>1. attempt[a].step = "clone" /\ Becomes(a, v) /\ UnchangedGitHub
  BY DEF CloneRepo
<1>2. attempt[a].posted = FALSE
  BY <1>1, AttemptFacts DEF AttemptInv, Attempts
<1>3. /\ v \in Attempts /\ v.sha = attempt[a].sha /\ v.files = attempt[a].files
      /\ v.fetched = attempt[a].fetched /\ v.posted = FALSE /\ v.step = "llm"
  BY <1>2, AttemptFacts DEF Attempts, Running
<1> HIDE DEF v
<1>4. attempt[a].step # "done" /\ v.step \notin Early /\ v.step # "post"
  BY <1>1, <1>3 DEF Early
<1> QED
  BY <1>1, <1>3, <1>4, KeptFiles

\* respond without a review.
LEMMA RespondsInv ==
    ASSUME ReviewInv, NEW a \in Attempt, attempt[a].step # "done",
           NEW success \in BOOLEAN, Responds(a, success, FALSE, 0),
           UNCHANGED <<setup, head, reviews, reactions, crashes>>,
           refused' \in [Attempt -> 0 .. head], attempt[a].step \notin Early
    PROVE  ReviewInv'
<1> DEFINE v == [attempt[a] EXCEPT !.step = "done", !.success = success,
                                   !.posted = FALSE, !.count = 0]
<1>1. Becomes(a, v)
  BY DEF Responds
<1>2. /\ v \in Attempts /\ v.sha = attempt[a].sha /\ v.files = attempt[a].files
      /\ v.fetched = attempt[a].fetched /\ v.posted = FALSE /\ v.step = "done"
  BY AttemptFacts DEF Attempts, Running
<1> HIDE DEF v
<1>3. /\ v.sha <= head /\ v.fetched <= head
      /\ v.fetched # 0 => v.fetched >= v.sha /\ v.files = Diffs[v.fetched]
  BY <1>2, AttemptFacts DEF AttemptInv
<1>4. v.step \notin Early /\ v.step # "post" /\ ~v.posted
  BY <1>2 DEF Early
<1>5. crashes' \in 0 .. MaxCrashes
  BY AttemptFacts
<1> QED
  BY <1>1, <1>2, <1>3, <1>4, <1>5, LocalStep

LEMMA LLMInv ==
    ASSUME ReviewInv, NEW a \in Attempt, LLMAnswers(a)
    PROVE  ReviewInv'
<1>1. PICK out \in Outputs :
        LET review == ParseStructuredReview(out)
            parsed == [attempt[a] EXCEPT !.review = review]
        IN  IF setup.postReviews /\ AsksGitHub
              THEN Becomes(a, [parsed EXCEPT !.step = "post",
                     !.request = ReviewRequest(attempt[a].sha, review, attempt[a].files)])
              ELSE Becomes(a, [parsed EXCEPT !.step = "done", !.success = TRUE])
  BY DEF LLMAnswers
<1>2. attempt[a].step = "llm" /\ UnchangedGitHub
  BY DEF LLMAnswers
<1> DEFINE review == ParseStructuredReview(out)
           request == ReviewRequest(attempt[a].sha, review, attempt[a].files)
<1>3. review \in Review
  BY Constants, ParsedType
<1>4. attempt[a].posted = FALSE
  BY <1>2, AttemptFacts DEF AttemptInv, Attempts
<1>5. attempt[a].sha \in Nat /\ attempt[a].files \in Seq(FileChange)
  BY AttemptFacts DEF Attempts
<1>6. CASE setup.postReviews /\ AsksGitHub
  <2> DEFINE v == [attempt[a] EXCEPT !.review = review, !.step = "post", !.request = request]
  <2>1. request \in Requests /\ BuiltFrom(request, attempt[a].sha, review, attempt[a].files)
    BY <1>3, <1>5, RequestKept
  <2>2. Becomes(a, v)
    BY <1>1, <1>6
  <2> HIDE DEF request, review
  <2>3. /\ v \in Attempts /\ v.sha = attempt[a].sha /\ v.files = attempt[a].files
        /\ v.fetched = attempt[a].fetched /\ v.posted = FALSE /\ v.step = "post"
        /\ v.request = request /\ v.review = review
    BY <1>3, <1>4, <2>1, AttemptFacts DEF Attempts, Running
  <2> HIDE DEF v
  <2>4. attempt[a].step # "done" /\ v.step \notin Early
    BY <1>2, <2>3 DEF Early
  <2>5. Allowed(setup) /\ BuiltFrom(v.request, v.sha, v.review, v.files)
    BY <1>6, <2>1, <2>3 DEF Allowed, AsksGitHub
  <2> QED
    BY <1>2, <2>2, <2>3, <2>4, <2>5, KeptFiles
<1>7. CASE ~(setup.postReviews /\ AsksGitHub)
  <2> DEFINE v == [attempt[a] EXCEPT !.review = review, !.step = "done", !.success = TRUE]
  <2>2. Becomes(a, v)
    BY <1>1, <1>7
  <2> HIDE DEF request, review
  <2>3. /\ v \in Attempts /\ v.sha = attempt[a].sha /\ v.files = attempt[a].files
        /\ v.fetched = attempt[a].fetched /\ v.posted = FALSE /\ v.step = "done"
    BY <1>3, <1>4, AttemptFacts DEF Attempts, Running
  <2> HIDE DEF v
  <2>4. attempt[a].step # "done" /\ v.step \notin Early /\ v.step # "post"
    BY <1>2, <2>3 DEF Early
  <2> QED
    BY <1>2, <2>2, <2>3, <2>4, KeptFiles
<1> QED
  BY <1>6, <1>7

\* A review is made of an attempt's request, whether or not the reply arrives.
LEMMA PostInv ==
    ASSUME ReviewInv, NEW a \in Attempt, attempt[a].step = "post", NEW posted \in BOOLEAN,
           NEW count, count = IF posted THEN Cardinality(DOMAIN attempt[a].request.inline) ELSE 0,
           reviews' = [reviews EXCEPT ![a] = Append(@, Taken(attempt[a].request))],
           Responds(a, TRUE, posted, count),
           UNCHANGED <<setup, head, refused, reactions, crashes>>
    PROVE  ReviewInv'
<1> DEFINE v == [attempt[a] EXCEPT !.step = "done", !.success = TRUE,
                                   !.posted = posted, !.count = count]
           r == attempt[a].request
           t == Taken(r)
<1>1. Becomes(a, v)
  BY DEF Responds
<1>2. /\ Allowed(setup) /\ reviews[a] = <<>> /\ reactions[a] = <<>>
      /\ BuiltFrom(r, attempt[a].sha, attempt[a].review, attempt[a].files)
      /\ attempt[a].sha <= head /\ attempt[a].fetched <= head
      /\ attempt[a].fetched # 0 => /\ attempt[a].fetched >= attempt[a].sha
                                   /\ attempt[a].files = Diffs[attempt[a].fetched]
  BY AttemptFacts DEF AttemptInv
<1>9. /\ BuiltFrom(t, t.commit, attempt[a].review, attempt[a].files)
      /\ t.inline = r.inline
      /\ attempt[a].sha # 0 => t.commit = attempt[a].sha
  <2>1. r \in Requests /\ r.commit = attempt[a].sha
    BY <1>2, AttemptFacts DEF Attempts, BuiltFrom, ReviewRequest
  <2>2. t = [r EXCEPT !.commit = CommitOf(r)]
    BY DEF Taken
  <2> HIDE DEF r, t
  <2>3. /\ t.commit = CommitOf(r) /\ t.inline = r.inline
        /\ BuiltFrom(t, CommitOf(r), attempt[a].review, attempt[a].files)
    BY <1>2, <2>1, <2>2, OfCommit
  <2> QED
    BY <2>1, <2>3 DEF CommitOf
<1>3. Cardinality(DOMAIN r.inline) \in Nat
  <2>1. attempt[a].review \in Review /\ attempt[a].files \in Seq(FileChange)
    BY AttemptFacts DEF Attempts
  <2> QED
    BY <1>2, <2>1, InlineFinite
<1>4. count \in Nat
  BY <1>3
<1>5. /\ v \in Attempts /\ v.sha = attempt[a].sha /\ v.files = attempt[a].files
      /\ v.fetched = attempt[a].fetched /\ v.posted = posted /\ v.step = "done"
      /\ v.success = TRUE /\ v.count = count /\ v.review = attempt[a].review
  BY <1>4, AttemptFacts DEF Attempts, Running
<1>6. /\ DOMAIN reviews' = Attempt /\ OnlyAt(reviews', reviews, a, <<t>>)
      /\ DOMAIN reactions' = Attempt /\ OnlyAt(reactions', reactions, a, reactions[a])
  <2>1. Append(<<>>, t) = <<t>>
    OBVIOUS
  <2> QED
    BY <1>2, <2>1 DEF ReviewInv, OnlyAt
<1> HIDE DEF v
<1>7. AttemptInv(setup, head, v, <<t>>, reactions[a])
  <2> DEFINE made == <<t>>
  <2>1. made[1] = t /\ made = <<made[1]>> /\ made # <<>>
    OBVIOUS
  <2>3. count = IF posted THEN Cardinality(DOMAIN r.inline) ELSE 0
    OBVIOUS
  <2> HIDE DEF made, r, t
  <2>2. AttemptInv(setup, head, v, made, reactions[a])
    BY <1>2, <1>5, <1>9, <2>1, <2>3 DEF AttemptInv, Early
  <2> QED
    BY <2>2 DEF made
<1> QED
  BY <1>1, <1>5, <1>6, <1>7, AttemptFacts, OneAttempt

LEMMA RefusedCommit ==
    ASSUME ReviewInv, NEW a \in Attempt, PostRefused(a)
    PROVE  /\ CommitOf(attempt[a].request) \in 1 .. head
           /\ refused' \in [Attempt -> 0 .. head]
<1>1. attempt[a].request.commit = attempt[a].sha
  <2>1. BuiltFrom(attempt[a].request, attempt[a].sha, attempt[a].review, attempt[a].files)
    BY AttemptFacts DEF PostRefused, AttemptInv
  <2> QED
    BY <2>1 DEF BuiltFrom, ReviewRequest
<1>2. attempt[a].sha <= head /\ attempt[a].sha \in Nat /\ head \in Nat /\ head >= 1
  BY AttemptFacts, Constants DEF AttemptInv
<1>3. CommitOf(attempt[a].request) \in 1 .. head
  BY <1>1, <1>2 DEF CommitOf
<1>4. refused' \in [Attempt -> 0 .. head]
  BY <1>2, <1>3, AttemptFacts DEF PostRefused
<1> QED
  BY <1>3, <1>4

LEMMA RefusedInv ==
    ASSUME ReviewInv, NEW a \in Attempt, PostRefused(a)
    PROVE  ReviewInv'
<1>1. attempt[a].step = "post" /\ UNCHANGED <<setup, head, reviews, reactions, crashes>>
  BY DEF PostRefused
<1>2. refused' \in [Attempt -> 0 .. head]
  BY RefusedCommit
<1>3. CASE Responds(a, TRUE, FALSE, 0)
  BY <1>1, <1>2, <1>3, RespondsInv DEF Early
<1>4. CASE Becomes(a, [attempt[a] EXCEPT !.request.event = "COMMENT"])
  <2> DEFINE q == [attempt[a].request EXCEPT !.event = "COMMENT"]
             v == [attempt[a] EXCEPT !.request = q]
  <2>1. attempt[a].request \in Requests
    BY AttemptFacts DEF Attempts
  <2>2. BuiltFrom(attempt[a].request, attempt[a].sha, attempt[a].review, attempt[a].files)
        /\ Allowed(setup)
    BY <1>1, AttemptFacts DEF AttemptInv
  <2>3. q \in Requests /\ BuiltFrom(q, attempt[a].sha, attempt[a].review, attempt[a].files)
    BY <2>1, <2>2, AsComment
  <2>4. Becomes(a, v)
    BY <1>4
  <2> HIDE DEF q
  <2>5. /\ v \in Attempts /\ v.sha = attempt[a].sha /\ v.files = attempt[a].files
        /\ v.fetched = attempt[a].fetched /\ v.posted = attempt[a].posted /\ v.step = "post"
        /\ v.request = q /\ v.review = attempt[a].review
    BY <1>1, <2>3, AttemptFacts DEF Attempts
  <2> HIDE DEF v
  <2>6. /\ v.sha <= head /\ v.fetched <= head /\ ~v.posted
        /\ v.fetched # 0 => v.fetched >= v.sha /\ v.files = Diffs[v.fetched]
    BY <1>1, <2>5, AttemptFacts DEF AttemptInv
  <2>7. v.step \notin Early /\ attempt[a].step # "done" /\ crashes' \in 0 .. MaxCrashes
    BY <1>1, <2>5, AttemptFacts DEF Early
  <2>8. Allowed(setup) /\ BuiltFrom(v.request, v.sha, v.review, v.files)
    BY <2>2, <2>3, <2>5
  <2> QED
    BY <1>1, <1>2, <2>4, <2>5, <2>6, <2>7, <2>8, LocalStep
<1> QED
  BY <1>3, <1>4 DEF PostRefused

LEMMA ReactionsInv ==
    ASSUME ReviewInv, NEW a \in Attempt, AddReactions(a)
    PROVE  ReviewInv'
<1> DEFINE v == attempt[a]
           made == reviews[a]
           r == made[Len(made)]
<1>1. attempt[a].posted /\ UNCHANGED <<setup, head, attempt, reviews, refused, crashes>>
  BY DEF AddReactions
<1>2. AttemptInv(setup, head, v, made, reactions[a]) /\ made = <<made[1]>>
  BY <1>1, AttemptFacts DEF AttemptInv
<1>3. r = made[1]
  <2> DEFINE s == made[1]
  <2>1. made = <<s>>
    BY <1>2
  <2> HIDE DEF s, made
  <2>2. Len(made) = 1
    BY <2>1
  <2> QED
    BY <2>2
<1>4. PICK done \in SUBSET DOMAIN made[1].inline :
        reactions' = [reactions EXCEPT ![a] = [i \in done |-> ReactionTo(made[1], i)]]
  <2>1. \E done \in SUBSET DOMAIN r.inline :
          reactions' = [reactions EXCEPT ![a] = [i \in done |-> ReactionTo(r, i)]]
    BY DEF AddReactions
  <2> HIDE DEF r, made
  <2> QED
    BY <1>3, <2>1
<1> DEFINE given == [i \in done |-> ReactionTo(made[1], i)]
<1>5. \E d \in SUBSET DOMAIN made[1].inline : given = [i \in d |-> ReactionTo(made[1], i)]
  OBVIOUS
<1>6. DOMAIN reactions' = Attempt /\ OnlyAt(reactions', reactions, a, given)
  BY <1>4 DEF ReviewInv, OnlyAt
<1> HIDE DEF given
<1>7. AttemptInv(setup, head, v, made, given)
  BY <1>1, <1>2, <1>5 DEF AttemptInv
<1>8. ASSUME NEW b \in Attempt
      PROVE  AttemptInv(setup', head', attempt'[b], reviews'[b], reactions'[b])
  <2>1. CASE b = a
    BY <1>1, <1>6, <1>7, <2>1 DEF OnlyAt
  <2>2. CASE b # a
    BY <1>1, <1>6, <2>2 DEF OnlyAt, ReviewInv
  <2> QED
    BY <2>1, <2>2
<1> QED
  BY <1>1, <1>6, <1>8 DEF ReviewInv

LEMMA ReviewNext ==
    ASSUME ReviewInv, [Next]_vars
    PROVE  ReviewInv'
<1>1. ASSUME NEW a \in Attempt, LLMFails(a) PROVE ReviewInv'
  BY <1>1, AttemptFacts, RespondsInv DEF LLMFails, UnchangedGitHub, Early
<1>2. ASSUME NEW a \in Attempt, PostFails(a) PROVE ReviewInv'
  BY <1>2, AttemptFacts, RespondsInv DEF PostFails, UnchangedGitHub, Early
<1>3. ASSUME NEW a \in Attempt, PostLost(a) PROVE ReviewInv'
  BY <1>3, PostInv DEF PostLost
<1>4. ASSUME NEW a \in Attempt, PostAccepted(a) PROVE ReviewInv'
  BY <1>4, PostInv DEF PostAccepted
<1>5. ASSUME UNCHANGED vars PROVE ReviewInv'
  BY <1>5 DEF vars, ReviewInv
<1> QED
  BY <1>1, <1>2, <1>3, <1>4, <1>5, PushInv, DeliverInv, CrashInv, InfoInv, FilesInv, CloneInv,
     LLMInv, RefusedInv, ReactionsInv DEF Next, CallsGitHub

LEMMA ReviewInvariance == Spec => []ReviewInv
  BY ReviewInit, ReviewNext, PTL DEF Spec

(* Sizes, steps and verdicts are what the code takes them to be; the shapes *)
(* of the review and of the request are part of the invariant behind it.    *)
THEOREM ReviewTypeCorrect == Spec => []TypeOK
<1>1. ReviewInv => TypeOK
  <2> SUFFICES ASSUME ReviewInv, NEW a \in Attempt
               PROVE  /\ attempt[a].step \in Running \cup {"none", "done", "dead"}
                      /\ attempt[a].sha \in 0 .. head /\ attempt[a].fetched \in 0 .. head
                      /\ attempt[a].review.verdict \in Verdicts \cup {NoReview.verdict}
                      /\ \A i \in DOMAIN attempt[a].review.comments :
                            attempt[a].review.comments[i].severity \in Severities
                      /\ attempt[a].count \in Nat
    BY DEF ReviewInv, TypeOK, Setups
  <2>1. attempt[a] \in Attempts
    BY AttemptFacts
  <2>2. attempt[a].review \in Review
    BY <2>1 DEF Attempts
  <2>3. attempt[a].sha \in 0 .. head /\ attempt[a].fetched \in 0 .. head
    BY AttemptFacts DEF AttemptInv
  <2>4. \A i \in DOMAIN attempt[a].review.comments :
           attempt[a].review.comments[i].severity \in Severities
    BY <2>2, CommentFields DEF Severe
  <2>5. attempt[a].review.verdict \in Verdicts \cup {NoReview.verdict}
    BY <2>2 DEF Review, NoReview
  <2> QED
    BY <2>1, <2>3, <2>4, <2>5 DEF Attempts
<1> QED
  BY <1>1, ReviewInvariance, PTL

(* No attempt leaves two reviews at GitHub, even though the reply to the    *)
(* first may be lost and a refused verdict is posted anew as a comment; and *)
(* what the job reports of a review is what GitHub has.                     *)
THEOREM ReviewReported == Spec => []ReviewsAsReported
<1>1. ReviewInv => ReviewsAsReported
  <2> SUFFICES ASSUME ReviewInv, NEW a \in Attempt
               PROVE  /\ Len(reviews[a]) <= 1
                      /\ attempt[a].posted =>
                           /\ Len(reviews[a]) = 1 /\ attempt[a].success
                           /\ attempt[a].count = Cardinality(DOMAIN reviews[a][1].inline)
                      /\ reviews[a] # <<>> =>
                           setup.token /\ setup.postReviews /\ setup.job.number
    BY DEF ReviewsAsReported
  <2> DEFINE made == reviews[a]
             r == made[1]
  <2>1. AttemptInv(setup, head, attempt[a], made, reactions[a])
    BY AttemptFacts
  <2>2. made # <<>> => made = <<r>>
    BY <2>1 DEF AttemptInv
  <2>3. Len(made) = IF made = <<>> THEN 0 ELSE 1
    <3> HIDE DEF made, r
    <3>1. Len(<<>>) = 0 /\ Len(<<r>>) = 1
      OBVIOUS
    <3> QED
      BY <2>2, <3>1
  <2> QED
    BY <2>1, <2>3 DEF AttemptInv, Allowed
<1> QED
  BY <1>1, ReviewInvariance, PTL

\* A review at GitHub was built from what its attempt still holds.
LEMMA BuiltReviews ==
    ASSUME ReviewInv, NEW a \in Attempt, NEW n \in DOMAIN reviews[a]
    PROVE  /\ n = 1 /\ attempt[a].review \in Review /\ attempt[a].files \in Seq(FileChange)
           /\ BuiltFrom(reviews[a][n], reviews[a][n].commit, attempt[a].review,
                        attempt[a].files)
           /\ attempt[a].sha # 0 => reviews[a][n].commit = attempt[a].sha
<1> DEFINE made == reviews[a]
           r == made[1]
<1>1. AttemptInv(setup, head, attempt[a], made, reactions[a]) /\ attempt[a] \in Attempts
  BY AttemptFacts
<1>2. made # <<>> => made = <<r>>
  BY <1>1 DEF AttemptInv
<1>3. made # <<>> /\ n = 1
  <2> HIDE DEF made, r
  <2>1. DOMAIN <<>> = {} /\ DOMAIN <<r>> = {1}
    OBVIOUS
  <2>2. n \in DOMAIN made
    BY DEF made
  <2> QED
    BY <1>2, <2>1, <2>2
<1> QED
  BY <1>1, <1>3 DEF AttemptInv, Attempts

(* No comment of the LLM is lost and none is shown twice, for every diff.   *)
THEOREM ReviewCommentsOnce == Spec => []CommentsShownOnce
<1>1. ReviewInv => CommentsShownOnce
  <2> SUFFICES ASSUME ReviewInv, NEW a \in Attempt, NEW n \in DOMAIN reviews[a]
               PROVE  /\ DOMAIN reviews[a][n].inline \cup reviews[a][n].body
                            = DOMAIN attempt[a].review.comments
                      /\ DOMAIN reviews[a][n].inline \cap reviews[a][n].body = {}
    BY DEF CommentsShownOnce
  <2> DEFINE r == reviews[a][n]
  <2>1. /\ BuiltFrom(r, r.commit, attempt[a].review, attempt[a].files)
        /\ attempt[a].review \in Review /\ attempt[a].files \in Seq(FileChange)
    BY BuiltReviews
  <2> HIDE DEF r
  <2>2. /\ DOMAIN r.inline \cup r.body = DOMAIN attempt[a].review.comments
        /\ DOMAIN r.inline \cap r.body = {}
    BY <2>1, ShownOnce
  <2> QED
    BY <2>2 DEF r
<1> QED
  BY <1>1, ReviewInvariance, PTL

(* ... and one at a line is near the line it was meant for, in a file whose *)
(* name ends in the one the LLM gave.                                       *)
THEOREM ReviewCommentsNearby == Spec => []CommentsNearby
<1>1. ReviewInv => CommentsNearby
  <2> SUFFICES ASSUME ReviewInv, NEW a \in Attempt, NEW n \in DOMAIN reviews[a],
                      NEW i \in DOMAIN reviews[a][n].inline
               PROVE  /\ Distance(attempt[a].review.comments[i].line,
                                  reviews[a][n].inline[i].line) <= 5
                      /\ IsSuffix(attempt[a].review.comments[i].file,
                                  reviews[a][n].inline[i].path)
    BY DEF CommentsNearby
  <2> QED
    BY BuiltReviews, StandsNearby
<1> QED
  BY <1>1, ReviewInvariance, PTL

(* An attempt that knows the commit it reviews, from the job or from        *)
(* fetchPRInfo, leaves no verdict on a diff that is older than the commit   *)
(* GitHub puts it on, whatever is pushed between the calls.                 *)
THEOREM ReviewDiffNotOlder == Spec => []DiffNotOlder
<1>1. ReviewInv => DiffNotOlder
  <2> SUFFICES ASSUME ReviewInv, NEW a \in Attempt, NEW n \in DOMAIN reviews[a],
                      attempt[a].fetched # 0, attempt[a].sha # 0
               PROVE  attempt[a].fetched >= reviews[a][n].commit
    BY DEF DiffNotOlder
  <2>1. reviews[a][n].commit = attempt[a].sha
    BY BuiltReviews
  <2>2. attempt[a].fetched >= attempt[a].sha
    BY AttemptFacts DEF AttemptInv
  <2> QED
    BY <2>1, <2>2
<1> QED
  BY <1>1, ReviewInvariance, PTL

(* The reaction to a comment fits its severity, however many of the calls   *)
(* fail and whichever comments share a file.                                *)
THEOREM ReviewReactionsFit == Spec => []ReactionsFit
<1>1. ReviewInv => ReactionsFit
  <2> SUFFICES ASSUME ReviewInv, NEW a \in Attempt, NEW i \in DOMAIN reactions[a],
                      \A j \in DOMAIN reviews[a][1].inline \ {i} :
                         <<reviews[a][1].inline[j].path, reviews[a][1].inline[j].line>>
                           # <<reviews[a][1].inline[i].path, reviews[a][1].inline[i].line>>
               PROVE  reactions[a][i] = Reaction(attempt[a].review.comments[i].severity)
    BY DEF ReactionsFit
  <2>1. AttemptInv(setup, head, attempt[a], reviews[a], reactions[a])
    BY AttemptFacts
  <2>2. reactions[a] # <<>>
    OBVIOUS
  <2>3. PICK done \in SUBSET DOMAIN reviews[a][1].inline :
          reactions[a] = [k \in done |-> ReactionTo(reviews[a][1], k)]
    BY <2>1, <2>2 DEF AttemptInv
  <2>4. i \in DOMAIN reviews[a][1].inline /\ reactions[a][i] = ReactionTo(reviews[a][1], i)
    BY <2>3
  <2>5. /\ BuiltFrom(reviews[a][1], reviews[a][1].commit, attempt[a].review,
                  attempt[a].files)
        /\ attempt[a].review \in Review /\ attempt[a].files \in Seq(FileChange)
    BY <2>1, <2>2, AttemptFacts DEF AttemptInv, Attempts
  <2> QED
    BY <2>4, <2>5, ReactionOfOwn
<1> QED
  BY <1>1, ReviewInvariance, PTL

-----------------------------------------------------------------------------
(* What GitHub refuses.                                                     *)

RefusalInv ==
    \A a \in Attempt : refused[a] # 0 =>
        attempt[a].step \notin Early /\ refused[a] # attempt[a].fetched

PlainDiffs == \A d \in DOMAIN Diffs : \A f \in DOMAIN Diffs[d] : PlainPatch(Diffs[d][f].Patch)

\* The lines of a request built from the diff of a commit are lines of that diff.
LEMMA KnownLines ==
    ASSUME PlainDiffs, ReviewInv, NEW a \in Attempt, attempt[a].step = "post",
           LineUnknown(attempt[a].request)
    PROVE  CommitOf(attempt[a].request) # attempt[a].fetched
<1> SUFFICES ASSUME CommitOf(attempt[a].request) = attempt[a].fetched,
                    attempt[a].fetched # 0
             PROVE  FALSE
  <2>1. CommitOf(attempt[a].request) # 0
    <3>1. attempt[a].request.commit = 0 => head # 0
      BY AttemptFacts, Constants
    <3> QED
      BY <3>1 DEF CommitOf
  <2> QED
    BY <2>1
<1> DEFINE files == Diffs[attempt[a].fetched]
           r == attempt[a].request
<1>1. /\ attempt[a].files = files /\ attempt[a].fetched \in DOMAIN Diffs
      /\ BuiltFrom(r, attempt[a].sha, attempt[a].review, files)
      /\ attempt[a].review \in Review /\ files \in Seq(FileChange)
  <2>1. attempt[a].fetched \in DOMAIN Diffs
    BY AttemptFacts, Constants DEF Attempts
  <2> QED
    BY <2>1, AttemptFacts, Constants DEF AttemptInv, Attempts
<1>2. PICK i \in DOMAIN r.inline :
        ~ \E f \in DOMAIN files : files[f].Filename = r.inline[i].path
                                  /\ r.inline[i].line \in RightLines(files[f].Patch)
  BY DEF LineUnknown
<1>3. \A f \in DOMAIN files : PlainPatch(files[f].Patch)
  BY <1>1 DEF PlainDiffs
<1> HIDE DEF files, r
<1> QED
  BY <1>1, <1>2, <1>3, LinesOfFiles

(* If no line of a file reads like the header of a hunk, the lines that the *)
(* worker computes are GitHub's: a review is refused for a line only when   *)
(* it was made from another commit's diff, or from the job's.               *)
THEOREM ReviewLinesKnown ==
    ASSUME PlainDiffs
    PROVE  Spec => []LinesRefusedOnlyIfStale
<1>1. Init => RefusalInv
  BY DEF Init, RefusalInv
<1>2. ASSUME ReviewInv, RefusalInv, [Next]_vars PROVE RefusalInv'
  <2> SUFFICES ASSUME NEW b \in Attempt, refused'[b] # 0
               PROVE  attempt'[b].step \notin Early /\ refused'[b] # attempt'[b].fetched
    BY DEF RefusalInv
  <2>1. ASSUME NEW a \in Attempt, NEW v, Becomes(a, v), UNCHANGED refused,
               attempt[a].step \in Early \/ (v.step \notin Early /\ v.fetched = attempt[a].fetched)
        PROVE  attempt'[b].step \notin Early /\ refused'[b] # attempt'[b].fetched
    <3>1. attempt' = [attempt EXCEPT ![a] = v] /\ refused[b] # 0 /\ attempt \in [Attempt -> Attempts]
      BY <1>2, <2>1 DEF Becomes, ReviewInv
    <3>2. attempt[b].step \notin Early /\ refused[b] # attempt[b].fetched
      BY <1>2, <3>1 DEF RefusalInv
    <3> QED
      BY <2>1, <3>1, <3>2
  <2>2. ASSUME UNCHANGED <<attempt, refused>>
        PROVE  attempt'[b].step \notin Early /\ refused'[b] # attempt'[b].fetched
    BY <1>2, <2>2 DEF RefusalInv
  <2>3. \A a \in Attempt : attempt[a] \in Attempts
    BY <1>2 DEF ReviewInv
  <2>4. ASSUME NEW a \in Attempt, Deliver(a) \/ FetchPRInfo(a) \/ FetchPRFiles(a)
        PROVE  attempt'[b].step \notin Early /\ refused'[b] # attempt'[b].fetched
    <3>1. attempt[a].step \in Early /\ UNCHANGED refused
      BY <2>4 DEF Deliver, FetchPRInfo, FetchPRFiles, UnchangedGitHub, Early
    <3>2. \E v : Becomes(a, v)
      BY <2>4 DEF Deliver, FetchPRInfo, FetchPRFiles
    <3> QED
      BY <2>1, <3>1, <3>2
  <2>5. ASSUME NEW a \in Attempt, NEW success, NEW posted, NEW count,
               Responds(a, success, posted, count), UNCHANGED refused
        PROVE  attempt'[b].step \notin Early /\ refused'[b] # attempt'[b].fetched
    <3> DEFINE v == [attempt[a] EXCEPT !.step = "done", !.success = success,
                                       !.posted = posted, !.count = count]
    <3>1. v.step \notin Early /\ v.fetched = attempt[a].fetched
      BY <2>3 DEF Attempts, Early
    <3>2. Becomes(a, v)
      BY <2>5 DEF Responds
    <3> HIDE DEF v
    <3> QED
      BY <2>1, <2>5, <3>1, <3>2
  <2>6. ASSUME NEW a \in Attempt, CloneRepo(a) \/ Crash(a)
        PROVE  attempt'[b].step \notin Early /\ refused'[b] # attempt'[b].fetched
    <3>1. PICK step \in {"llm", "dead"} : Becomes(a, [attempt[a] EXCEPT !.step = step])
      BY <2>6 DEF CloneRepo, Crash
    <3> DEFINE v == [attempt[a] EXCEPT !.step = step]
    <3>2. v.step \notin Early /\ v.fetched = attempt[a].fetched
      BY <2>3, <3>1 DEF Attempts, Early
    <3>3. UNCHANGED refused /\ Becomes(a, v)
      BY <2>6, <3>1 DEF CloneRepo, Crash, UnchangedGitHub
    <3> HIDE DEF v
    <3> QED
      BY <2>1, <3>2, <3>3
  <2>7. ASSUME NEW a \in Attempt, LLMAnswers(a)
        PROVE  attempt'[b].step \notin Early /\ refused'[b] # attempt'[b].fetched
    <3>1. PICK out \in Outputs :
            LET review == ParseStructuredReview(out)
                parsed == [attempt[a] EXCEPT !.review = review]
            IN  IF setup.postReviews /\ AsksGitHub
                  THEN Becomes(a, [parsed EXCEPT !.step = "post",
                         !.request = ReviewRequest(attempt[a].sha, review, attempt[a].files)])
                  ELSE Becomes(a, [parsed EXCEPT !.step = "done", !.success = TRUE])
      BY <2>7 DEF LLMAnswers
    <3> DEFINE review == ParseStructuredReview(out)
               request == ReviewRequest(attempt[a].sha, review, attempt[a].files)
               v == [attempt[a] EXCEPT !.review = review, !.step = "post", !.request = request]
               w == [attempt[a] EXCEPT !.review = review, !.step = "done", !.success = TRUE]
    <3>2. Becomes(a, v) \/ Becomes(a, w)
      BY <3>1
    <3> HIDE DEF review, request
    <3>3. /\ v.step \notin Early /\ v.fetched = attempt[a].fetched
          /\ w.step \notin Early /\ w.fetched = attempt[a].fetched
      BY <2>3 DEF Attempts, Early
    <3>4. UNCHANGED refused
      BY <2>7 DEF LLMAnswers, UnchangedGitHub
    <3> HIDE DEF v, w
    <3> QED
      BY <2>1, <3>2, <3>3, <3>4
  <2>8. ASSUME NEW a \in Attempt, PostRefused(a)
        PROVE  attempt'[b].step \notin Early /\ refused'[b] # attempt'[b].fetched
    <3>1. attempt[a].step = "post" /\ a \in DOMAIN refused /\ refused \in [Attempt -> 0 .. head]
      BY <1>2, <2>8 DEF PostRefused, ReviewInv
    <3>2. PICK v : /\ Becomes(a, v) /\ v.step \notin Early
                   /\ v.fetched = attempt[a].fetched
      <4> DEFINE v == [attempt[a] EXCEPT !.request.event = "COMMENT"]
                 w == [attempt[a] EXCEPT !.step = "done", !.success = TRUE,
                                         !.posted = FALSE, !.count = 0]
      <4>1. Becomes(a, v) \/ Becomes(a, w)
        BY <2>8 DEF PostRefused, Responds
      <4>2. /\ v.step \notin Early /\ v.fetched = attempt[a].fetched
            /\ w.step \notin Early /\ w.fetched = attempt[a].fetched
        BY <2>3, <3>1 DEF Attempts, Early
      <4> HIDE DEF v, w
      <4> QED
        BY <4>1, <4>2
    <3>3. attempt' = [attempt EXCEPT ![a] = v] /\ attempt \in [Attempt -> Attempts]
      BY <1>2, <3>2 DEF Becomes, ReviewInv
    <3>4. CASE b = a /\ LineUnknown(attempt[a].request)
      <4>1. CommitOf(attempt[a].request) # attempt[a].fetched
        BY <1>2, <3>1, <3>4, KnownLines
      <4>2. refused'[a] = CommitOf(attempt[a].request)
        BY <2>8, <3>1, <3>4 DEF PostRefused
      <4> QED
        BY <3>2, <3>3, <3>4, <4>1, <4>2
    <3>5. CASE b # a \/ ~LineUnknown(attempt[a].request)
      <4>1. refused'[b] = refused[b]
        BY <2>8, <3>1, <3>5 DEF PostRefused
      <4>2. attempt[b].step \notin Early /\ refused[b] # attempt[b].fetched
        BY <1>2, <4>1 DEF RefusalInv
      <4> QED
        BY <3>2, <3>3, <4>1, <4>2
    <3> QED
      BY <3>4, <3>5
  <2> QED
    BY <1>2, <2>2, <2>4, <2>5, <2>6, <2>7, <2>8
       DEF Next, CallsGitHub, vars, PushCommit, AddReactions, LLMFails, PostLost, PostAccepted,
           PostFails, UnchangedGitHub
<1>3. RefusalInv => LinesRefusedOnlyIfStale
  BY DEF RefusalInv, LinesRefusedOnlyIfStale
<1> QED
  BY <1>1, <1>2, <1>3, ReviewInvariance, PTL DEF Spec

=============================================================================
