----------------------------- MODULE ScalingLoop -----------------------------
(***************************************************************************)
(* The control loop that repeated evaluations of one queue form, when      *)
(* every call succeeds and no cooldown is pending: the work in the queue   *)
(* changes at will and each evaluation sets the replica count to what      *)
(* calculateDesired returns for the work and the count it reads.           *)
(*                                                                         *)
(* The count may start anywhere: EnsureDeployment leaves Min, but an older *)
(* configuration or an operator's kubectl may leave a count outside the    *)
(* present bounds.                                                         *)
(***************************************************************************)
EXTENDS ScaleStrategy

CONSTANTS Configs,      \* the queue configurations considered
          MaxWork,      \* bound on pending + processing
          MaxReplicas   \* bound on the initial replica count

ASSUME LoopAssumption ==
    /\ \A c \in Configs : c \in Config /\ c.Min <= c.Max
    /\ MaxWork \in Nat /\ MaxReplicas \in Nat

VARIABLES cfg, work, replicas

vars == <<cfg, work, replicas>>

Init ==
    /\ cfg \in Configs
    /\ work \in 0 .. MaxWork
    /\ replicas \in 0 .. MaxReplicas

WorkChanges ==
    /\ work' \in 0 .. MaxWork
    /\ UNCHANGED <<cfg, replicas>>

\* One pass of evaluate() for the queue.
Evaluate ==
    /\ replicas' = CalculateDesired(cfg, work, replicas)
    /\ UNCHANGED <<cfg, work>>

Next == WorkChanges \/ Evaluate

Spec == Init /\ [][Next]_vars /\ WF_vars(Evaluate)

-----------------------------------------------------------------------------
TypeOK ==
    /\ cfg \in Configs
    /\ work \in 0 .. MaxWork
    /\ replicas \in 0 .. AtLeast(MaxReplicas, cfg.Max)

(* More work never gets fewer workers: calculateDesired is monotone in the  *)
(* work it reads, through the dead band, the clamp, the idle floor and the  *)
(* rate limit, which each cut the range at a different place.               *)
MonotoneInWork ==
    \A w1, w2 \in 0 .. MaxWork :
        w1 <= w2 => CalculateDesired(cfg, w1, replicas)
                        <= CalculateDesired(cfg, w2, replicas)

(* A queue whose work exceeds what its workers are configured to carry      *)
(* never loses a worker, unless it runs more than replicas.max.             *)
NoShrinkUnderLoad ==
    [][Overloaded(cfg, work, replicas) /\ replicas <= cfg.Max
            => replicas' >= replicas]_replicas

(* scale_down_rate: one evaluation removes at most that fraction of the     *)
(* workers, rounded up, and may always remove one; this also holds on the   *)
(* way down from a count above replicas.max.                                *)
RemovalLimited ==
    [][replicas' < replicas /\ cfg.RateNum > 0 =>
            (replicas - replicas' - 1) * cfg.RateDen
                < AtLeast(replicas * cfg.RateNum, 1)]_replicas

(* From any count the loop enters [idle floor, replicas.max] and stays.     *)
EntersBounds == <>[](replicas \in IdleFloor(cfg) .. cfg.Max)

(* While the work stays the same the loop settles: it does not hunt between *)
(* two counts for ever.                                                     *)
Settles ==
    \A w \in 0 .. MaxWork :
        <>[](work = w) => <>[](CalculateDesired(cfg, work, replicas) = replicas)

(* ... and where it settles the queue is not overloaded, or has all the     *)
(* workers it may have.                                                     *)
Suffices ==
    \A w \in 0 .. MaxWork :
        <>[](work = w) =>
            <>[](~Overloaded(cfg, work, replicas) \/ replicas = cfg.Max)

=============================================================================
