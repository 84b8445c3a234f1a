-------------------------- MODULE SequenceInduction --------------------------
(***************************************************************************)
(* Induction over the prefixes of a sequence, for the loops of the code    *)
(* that carry an accumulator through a list, and what the operators on     *)
(* sequences that the models use return.  The library's theorem on         *)
(* induction has a predicate for its parameter; here its place is taken by *)
(* a set, the numbers for which the predicate holds, and by the least      *)
(* number outside it, so that every leaf is first-order.                   *)
(***************************************************************************)
EXTENDS SequencesExt, Integers, TLAPS, WellFoundedInduction

LEMMA LessThanWellFounded ==
    \E R : IsWellFoundedOn(R, Nat) /\ \A m, n \in Nat : m < n => <<m, n>> \in R
<1>1. \A m, n \in Nat : m < n => <<m, n>> \in OpToRel(<, Nat)
  BY DEF OpToRel
<1> QED
  BY <1>1, NatLessThanWellFounded, Zenon

(* Of the numbers in a list of positions one is the first and one the last. *)
THEOREM LeastNumber ==
    ASSUME NEW T \in SUBSET Nat, T # {}
    PROVE  \E i \in T : \A j \in T : i <= j
<1>1. PICK R : IsWellFoundedOn(R, Nat) /\ \A m, n \in Nat : m < n => <<m, n>> \in R
  BY LessThanWellFounded
<1>2. IsWellFoundedOn(R, Nat) /\ T \subseteq Nat /\ T # {}
  BY <1>1
<1>3. PICK i \in T : \A j \in T : ~(<<j, i>> \in R)
  BY <1>2, WFMin, Zenon
<1>4. ASSUME NEW j \in T PROVE i <= j
  <2>1. i \in Nat /\ j \in Nat /\ ~(j < i)
    BY <1>1, <1>3
  <2> QED
    BY <2>1
<1> QED
  BY <1>4

THEOREM GreatestNumber ==
    ASSUME NEW n \in Nat, NEW T \in SUBSET (1 .. n), T # {}
    PROVE  \E i \in T : \A j \in T : j <= i
<1> DEFINE U == { n - i : i \in T }
<1>1. U \in SUBSET Nat /\ U # {}
  OBVIOUS
<1>2. PICK k \in U : \A m \in U : k <= m
  <2> HIDE DEF U
  <2> QED
    BY <1>1, LeastNumber
<1>3. PICK i \in T : k = n - i
  BY <1>2
<1>4. \A j \in T : n - i <= n - j
  BY <1>2, <1>3
<1> QED
  BY <1>4

(* A set of numbers that 0 belongs to, and with each number the next, has   *)
(* all numbers.                                                             *)
THEOREM SetInduction ==
    ASSUME NEW S, 0 \in S, \A n \in Nat : n \in S => n + 1 \in S
    PROVE  Nat \subseteq S
<1> SUFFICES ASSUME Nat \ S # {} PROVE FALSE
  OBVIOUS
<1>1. PICK x \in Nat \ S : \A y \in Nat \ S : x <= y
  <2> DEFINE T == Nat \ S
  <2> HIDE DEF T
  <2>1. T \in SUBSET Nat /\ T # {}
    BY DEF T
  <2>2. \E x \in T : \A y \in T : x <= y
    BY <2>1, LeastNumber
  <2> QED
    BY <2>2 DEF T
<1>2. x - 1 \in Nat /\ x - 1 < x /\ x - 1 + 1 = x
  BY <1>1
<1> QED
  BY <1>1, <1>2

(* The same for the numbers up to the length of a list.                     *)
THEOREM UpToInduction ==
    ASSUME NEW n \in Nat, NEW S, 0 \in S, \A i \in 1 .. n : i - 1 \in S => i \in S
    PROVE  0 .. n \subseteq S
<1> DEFINE T == { k \in Nat : k <= n => k \in S }
<1>1. 0 \in T
  OBVIOUS
<1>2. ASSUME NEW k \in Nat, k \in T PROVE k + 1 \in T
  <2> SUFFICES ASSUME k + 1 <= n PROVE k + 1 \in S
    OBVIOUS
  <2>1. k \in S /\ k + 1 \in 1 .. n /\ (k + 1) - 1 = k
    BY <1>2
  <2> QED
    BY <2>1
<1> HIDE DEF T
<1>3. Nat \subseteq T
  BY <1>1, <1>2, SetInduction
<1> QED
  BY <1>3 DEF T

Computes(f, k, base, G) ==
    f[0] = base /\ \A i \in 1 .. k : f[i] = G[f[i - 1]][i]

(* A loop over n elements has a result after each of them: what the         *)
(* definition of a recursive function needs in order to mean something.     *)
THEOREM PrefixRecursion ==
    ASSUME NEW n \in Nat, NEW V, NEW base \in V, NEW G \in [V -> [1 .. n -> V]]
    PROVE  \E f \in [0 .. n -> V] : Computes(f, n, base, G)
<1> DEFINE S == { k \in Nat : k <= n => \E f \in [0 .. k -> V] : Computes(f, k, base, G) }
<1>1. 0 \in S
  <2> DEFINE f == [i \in 0 .. 0 |-> base]
  <2>1. f \in [0 .. 0 -> V] /\ Computes(f, 0, base, G)
    BY DEF Computes
  <2> QED
    BY <2>1
<1>2. ASSUME NEW k \in Nat, k \in S PROVE k + 1 \in S
  <2> SUFFICES ASSUME k + 1 <= n
               PROVE  \E f \in [0 .. k + 1 -> V] : Computes(f, k + 1, base, G)
    OBVIOUS
  <2>1. PICK f \in [0 .. k -> V] : Computes(f, k, base, G)
    BY <1>2
  <2>2. G[f[k]][k + 1] \in V
    OBVIOUS
  <2> DEFINE g == [i \in 0 .. k + 1 |-> IF i = k + 1 THEN G[f[k]][k + 1] ELSE f[i]]
  <2>3. g \in [0 .. k + 1 -> V]
    BY <2>2
  <2>4. Computes(g, k + 1, base, G)
    BY <2>1 DEF Computes
  <2> QED
    BY <2>3, <2>4
<1> HIDE DEF S
<1>3. Nat \subseteq S
  BY <1>1, <1>2, SetInduction
<1>4. n \in S
  BY <1>3
<1> QED
  BY <1>4 DEF S

(* What such a loop computes stays in a set that no round leaves.           *)
THEOREM PrefixTyping ==
    ASSUME NEW n \in Nat, NEW V, NEW f, f[0] \in V,
           \A i \in 1 .. n : f[i - 1] \in V => f[i] \in V
    PROVE  \A i \in 0 .. n : f[i] \in V
<1> DEFINE S == { k \in 0 .. n : f[k] \in V }
<1>1. 0 \in S /\ \A i \in 1 .. n : i - 1 \in S => i \in S
  OBVIOUS
<1> HIDE DEF S
<1>2. 0 .. n \subseteq S
  BY <1>1, UpToInduction
<1> QED
  BY <1>2 DEF S

-----------------------------------------------------------------------------
(* What the operators on sequences return.                                  *)

LEMMA AppendRange ==
    ASSUME NEW S, NEW seq \in Seq(S), NEW e \in S
    PROVE  Range(Append(seq, e)) = Range(seq) \cup {e}
<1>1. DOMAIN Append(seq, e) = DOMAIN seq \cup {Len(seq) + 1}
  OBVIOUS
<1>2. \A k \in DOMAIN seq : Append(seq, e)[k] = seq[k]
  OBVIOUS
<1>3. Append(seq, e)[Len(seq) + 1] = e
  OBVIOUS
<1> HIDE <1>1, <1>2, <1>3
<1> DEFINE app == Append(seq, e)
<1> HIDE DEF app
<1>4. DOMAIN app = DOMAIN seq \cup {Len(seq) + 1} /\ app[Len(seq) + 1] = e
      /\ \A k \in DOMAIN seq : app[k] = seq[k]
  BY <1>1, <1>2, <1>3 DEF app
<1> QED
  BY <1>4 DEF Range, app

LEMMA ConcatRange ==
    ASSUME NEW S, NEW s \in Seq(S), NEW t \in Seq(S)
    PROVE  s \o t \in Seq(S) /\ Range(s \o t) = Range(s) \cup Range(t)
<1> DEFINE u == s \o t
<1>1. /\ u \in Seq(S) /\ Len(u) = Len(s) + Len(t) /\ Len(s) \in Nat /\ Len(t) \in Nat
      /\ DOMAIN s = 1 .. Len(s) /\ DOMAIN t = 1 .. Len(t) /\ DOMAIN u = 1 .. Len(u)
  OBVIOUS
<1>2. /\ \A i \in DOMAIN s : u[i] = s[i]
      /\ \A i \in DOMAIN t : u[Len(s) + i] = t[i]
  OBVIOUS
<1> HIDE DEF u
<1>3. \A i \in DOMAIN u : i \in DOMAIN s \/ i - Len(s) \in DOMAIN t
  BY <1>1
<1>4. \A i \in DOMAIN u : u[i] \in Range(s) \cup Range(t)
  <2> SUFFICES ASSUME NEW i \in DOMAIN u, i \notin DOMAIN s PROVE u[i] \in Range(t)
    BY <1>2 DEF Range
  <2>1. i - Len(s) \in DOMAIN t /\ Len(s) + (i - Len(s)) = i
    BY <1>1, <1>3
  <2>2. u[i] = t[i - Len(s)]
    BY <1>2, <2>1
  <2> QED
    BY <2>1, <2>2 DEF Range
<1>5. Range(s) \cup Range(t) \subseteq Range(u)
  <2>1. \A i \in DOMAIN s : i \in DOMAIN u
    BY <1>1
  <2>2. \A i \in DOMAIN t : Len(s) + i \in DOMAIN u
    BY <1>1
  <2> QED
    BY <1>2, <2>1, <2>2 DEF Range
<1>6. Range(u) \subseteq Range(s) \cup Range(t)
  BY <1>4 DEF Range
<1> QED
  BY <1>1, <1>5, <1>6 DEF u

(* FlattenSeq has the members of all the sequences and no others.           *)
THEOREM FlattenRange ==
    ASSUME NEW S, NEW seqs \in Seq(Seq(S))
    PROVE  /\ FlattenSeq(seqs) \in Seq(S)
           /\ Range(FlattenSeq(seqs)) = UNION { Range(seqs[i]) : i \in DOMAIN seqs }
<1> DEFINE n == Len(seqs)
           V == Seq(S)
           G == [v \in V |-> [i \in 1 .. n |-> v \o seqs[i]]]
           Is(f) == f = [i \in 1 .. n |-> IF i = 1 THEN seqs[i] ELSE f[i - 1] \o seqs[i]]
<1>1. n \in Nat /\ DOMAIN seqs = 1 .. n /\ \A i \in 1 .. n : seqs[i] \in V
  OBVIOUS
<1>2. CASE n = 0
  <2>1. FlattenSeq(seqs) = seqs /\ seqs = <<>>
    BY <1>2 DEF FlattenSeq
  <2>2. Range(<<>>) = {} /\ DOMAIN seqs = {}
    BY <1>1, <1>2 DEF Range
  <2> QED
    BY <2>1, <2>2
<1>3. CASE n # 0
  <2>1. G \in [V -> [1 .. n -> V]] /\ <<>> \in V
    BY <1>1, ConcatRange
  <2>2. PICK f \in [0 .. n -> V] : Computes(f, n, <<>>, G)
    <3> HIDE DEF n, V, G
    <3> QED
      BY <1>1, <2>1, PrefixRecursion
  <2>3. ASSUME NEW i \in 1 .. n PROVE f[i - 1] \in V /\ f[i] = f[i - 1] \o seqs[i]
    <3>1. i - 1 \in 0 .. n
      BY <1>1
    <3>2. f[i - 1] \in V
      <4> HIDE DEF n, V
      <4> QED
        BY <3>1
    <3>3. f[i] = G[f[i - 1]][i]
      BY <2>2 DEF Computes
    <3> QED
      BY <3>2, <3>3
  <2>4. f[1] = seqs[1]
    <3>1. 1 \in 1 .. n /\ f[0] = <<>> /\ 1 - 1 = 0
      BY <1>1, <1>3, <2>2 DEF Computes
    <3>2. f[1] = f[0] \o seqs[1]
      BY <2>3, <3>1
    <3> QED
      BY <1>1, <3>1, <3>2
  <2> DEFINE g == [i \in 1 .. n |-> f[i]]
             flat == CHOOSE h : Is(h)
  <2>5. Is(g)
    <3>1. \A i \in 1 .. n : i # 1 => g[i - 1] = f[i - 1]
      BY <1>1
    <3>2. \A i \in 1 .. n : g[i] = IF i = 1 THEN seqs[i] ELSE g[i - 1] \o seqs[i]
      BY <2>3, <2>4, <3>1
    <3> QED
      BY <3>2
  <2>6. FlattenSeq(seqs) = flat[n]
    BY <1>3 DEF FlattenSeq
  <2>7. Is(flat)
    BY <2>5
  <2> DEFINE T == { k \in 1 .. n : /\ flat[k] \in V
                                   /\ Range(flat[k]) = UNION { Range(seqs[i]) : i \in 1 .. k } }
  <2>8. 1 \in T
    <3>1. 1 \in 1 .. n /\ 1 .. 1 = {1}
      BY <1>1, <1>3
    <3>2. flat[1] = seqs[1]
      <4> HIDE DEF flat
      <4> QED
        BY <2>7, <3>1
    <3> HIDE DEF flat
    <3> QED
      BY <1>1, <3>1, <3>2
  <2>9. ASSUME NEW k \in 1 .. n, k # 1, k - 1 \in T PROVE k \in T
    <3> HIDE DEF flat
    <3>1. flat[k] = flat[k - 1] \o seqs[k]
      BY <2>7, <2>9
    <3>2. flat[k - 1] \in V /\ seqs[k] \in V
          /\ Range(flat[k - 1]) = UNION { Range(seqs[i]) : i \in 1 .. k - 1 }
      BY <1>1, <2>9
    <3>3. flat[k] \in V /\ Range(flat[k]) = Range(flat[k - 1]) \cup Range(seqs[k])
      BY <3>1, <3>2, ConcatRange
    <3>4. 1 .. k = (1 .. k - 1) \cup {k}
      BY <1>1
    <3>5. Range(flat[k]) = UNION { Range(seqs[i]) : i \in 1 .. k }
      <4> DEFINE K == 1 .. k - 1
      <4> HIDE DEF K, n, V
      <4>1. UNION { Range(seqs[i]) : i \in K \cup {k} }
              = (UNION { Range(seqs[i]) : i \in K }) \cup Range(seqs[k])
        OBVIOUS
      <4> QED
        BY <3>2, <3>3, <3>4, <4>1 DEF K
    <3> QED
      BY <3>3, <3>5
  <2>10. n \in T
    <3> DEFINE U == { k \in 0 .. n : k = 0 \/ k \in T }
    <3>1. 0 \in U /\ \A k \in 1 .. n : k - 1 \in U => k \in U
      <4> HIDE DEF T, n
      <4> QED
        BY <1>1, <2>8, <2>9
    <3> HIDE DEF U, n
    <3>2. 0 .. n \subseteq U
      BY <1>1, <3>1, UpToInduction
    <3>3. n \in 0 .. n
      BY <1>1
    <3> QED
      BY <1>3, <3>2, <3>3 DEF U
  <2> QED
    BY <1>1, <2>6, <2>10
<1> QED
  BY <1>2, <1>3

=============================================================================
