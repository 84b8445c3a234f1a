--------------------------- MODULE ScalingLoopProofs ---------------------------
(***************************************************************************)
(* The safety properties of the scaling loop, for all configurations with  *)
(* Min <= Max, all loads and all initial counts.                           *)
(***************************************************************************)
EXTENDS ScalingLoop, ScaleStrategyProofs

LEMMA CfgInConfig ==
    ASSUME TypeOK
    PROVE  /\ cfg \in Config /\ cfg.Min <= cfg.Max
           /\ work \in Nat /\ replicas \in Nat
BY LoopAssumption, ConfigFields DEF TypeOK, AtLeast

(* The count stays within replicas.max, or within where it started.         *)
THEOREM LoopTypeOK == Spec => []TypeOK
<1> USE LoopAssumption
<1>1. Init => TypeOK
  <2> SUFFICES ASSUME Init PROVE TypeOK
    OBVIOUS
  <2>1. cfg.Max \in Nat
    BY ConfigFields DEF Init
  <2>2. QED
    BY <2>1 DEF Init, TypeOK, AtLeast
<1>2. TypeOK /\ [Next]_vars => TypeOK'
  <2> SUFFICES ASSUME TypeOK, [Next]_vars PROVE TypeOK'
    OBVIOUS
  <2>1. CASE WorkChanges
    BY <2>1 DEF WorkChanges, TypeOK
  <2>2. CASE Evaluate
    <3>1. /\ CalculateDesired(cfg, work, replicas) \in Nat
          /\ CalculateDesired(cfg, work, replicas) <= AtLeast(cfg.Max, replicas)
      BY CfgInConfig, DesiredBounds
    <3>2. cfg.Max \in Nat /\ replicas \in 0 .. AtLeast(MaxReplicas, cfg.Max)
      BY CfgInConfig, ConfigFields DEF TypeOK
    <3>3. replicas' \in 0 .. AtLeast(MaxReplicas, cfg.Max)
      BY <2>2, <3>1, <3>2 DEF Evaluate, AtLeast
    <3>4. QED
      BY <2>2, <3>3 DEF Evaluate, TypeOK
  <2>3. CASE UNCHANGED vars
    BY <2>3 DEF vars, TypeOK
  <2>4. QED
    BY <2>1, <2>2, <2>3 DEF Next
<1>3. QED
  BY <1>1, <1>2, PTL DEF Spec

(* More work never gets fewer workers, in every state of the loop.          *)
THEOREM LoopMonotone == Spec => []MonotoneInWork
<1>1. TypeOK => MonotoneInWork
  <2> SUFFICES ASSUME TypeOK, NEW w1 \in 0 .. MaxWork, NEW w2 \in 0 .. MaxWork,
                      w1 <= w2
               PROVE  CalculateDesired(cfg, w1, replicas)
                          <= CalculateDesired(cfg, w2, replicas)
    BY DEF MonotoneInWork
  <2>1. w1 \in Nat /\ w2 \in Nat
    BY LoopAssumption
  <2>2. QED
    BY <2>1, CfgInConfig, DesiredMonotone
<1>2. QED
  BY <1>1, LoopTypeOK, PTL

(* An overloaded queue never loses a worker.                                *)
THEOREM LoopNoShrinkUnderLoad == Spec => NoShrinkUnderLoad
<1>1. TypeOK /\ [Next]_vars =>
        [Overloaded(cfg, work, replicas) /\ replicas <= cfg.Max
            => replicas' >= replicas]_replicas
  <2> SUFFICES ASSUME TypeOK, [Next]_vars, replicas' # replicas,
                      Overloaded(cfg, work, replicas), replicas <= cfg.Max
               PROVE  replicas' >= replicas
    OBVIOUS
  <2>1. replicas' = CalculateDesired(cfg, work, replicas)
    BY DEF Next, vars, WorkChanges, Evaluate
  <2>2. cfg \in Config /\ cfg.Min <= cfg.Max /\ work \in Nat /\ replicas \in Nat
    BY CfgInConfig
  <2>3. replicas \in 0 .. cfg.Max
    BY <2>2, ConfigFields
  <2>4. QED
    BY <2>1, <2>2, <2>3, DesiredUnderLoad
<1>2. QED
  BY <1>1, LoopTypeOK, PTL DEF Spec, NoShrinkUnderLoad

(* One evaluation removes at most the fraction scale_down_rate, rounded up. *)
THEOREM LoopRemovalLimited == Spec => RemovalLimited
<1>1. TypeOK /\ [Next]_vars =>
        [replicas' < replicas /\ cfg.RateNum > 0 =>
            (replicas - replicas' - 1) * cfg.RateDen
                < AtLeast(replicas * cfg.RateNum, 1)]_replicas
  <2> SUFFICES ASSUME TypeOK, [Next]_vars, replicas' < replicas, cfg.RateNum > 0,
                      replicas' # replicas
               PROVE  (replicas - replicas' - 1) * cfg.RateDen
                          < AtLeast(replicas * cfg.RateNum, 1)
    OBVIOUS
  <2> DEFINE d == CalculateDesired(cfg, work, replicas)
  <2>1. replicas' = d
    BY DEF Next, vars, WorkChanges, Evaluate
  <2>2. cfg \in Config /\ cfg.Min <= cfg.Max /\ work \in Nat /\ replicas \in Nat
    BY CfgInConfig
  <2>3. d < replicas
    BY <2>1
  <2>4. (replicas - d - 1) * cfg.RateDen < AtLeast(replicas * cfg.RateNum, 1)
    BY <2>2, <2>3, DesiredRemovalFraction
  <2>5. QED
    BY <2>1, <2>4, Zenon
<1>2. QED
  BY <1>1, LoopTypeOK, PTL DEF Spec, RemovalLimited

=============================================================================
