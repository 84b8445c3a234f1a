----------------------------- MODULE WorkerPool -----------------------------
(***************************************************************************)
(* Delivery and scaling together: the pods that carry the jobs of a queue  *)
(* (JobDelivery) are as many as the autoscaler wants (ScaleStrategy), and  *)
(* it wants them by the work it reads from the very consumer they empty.   *)
(* Kubernetes takes pods away without asking whether they are busy:        *)
(* EnsureDeployment gives them neither a hook nor a grace period, and the  *)
(* 30 seconds of the default are shorter than a processing_timeout.        *)
(*                                                                         *)
(* The calls of one evaluation are one step here; Autoscaler has each of   *)
(* them, with their failures and the cooldown.                             *)
(***************************************************************************)
EXTENDS JobDelivery, ScaleStrategy

CONSTANT Scaling   \* replicas and scale_strategy of the queue

ASSUME PoolAssumption ==
    /\ Scaling \in Config /\ Scaling.Min <= Scaling.Max
    /\ IsFiniteSet(Job)

VARIABLES
    replicas,  \* spec.replicas of the Deployment
    taken      \* observation: jobs whose pod was removed while it had them

pool     == <<replicas, taken>>
poolVars == <<vars, pool>>

Up == {p \in Pod : pod[p].step # "down"}

PoolInit == Init /\ replicas = Scaling.Min /\ taken = {}

-----------------------------------------------------------------------------
(* The autoscaler.                                                          *)

\* Mutant: the messages of the stream are counted instead.
WorkOfStream == Cardinality(stream)

\* GetStats: NumPending and NumAckPending of the consumer.  A message that was
\* delivered MaxDeliver times in vain is in neither.
Work == Cardinality({j \in stream : delivered[j] = 0})
            + Cardinality(waiting \cup redeliver)

Evaluate ==
    /\ replicas' = CalculateDesired(Scaling, Work, replicas)
    /\ replicas' # replicas
    /\ UNCHANGED <<vars, taken>>

-----------------------------------------------------------------------------
(* Kubernetes.                                                              *)

StartPod(p) == Cardinality(Up) < replicas /\ PodStart(p) /\ UNCHANGED pool

\* Any pod may be the one too many.  What follows the answer of the worker ends
\* within the grace period.
RemovePod(p) ==
    /\ pod[p].step \in {"idle", "post"} /\ Cardinality(Up) > replicas
    /\ Becomes(p, Resting("down", retriesEnv))
    /\ taken' = IF pod[p].step = "post" THEN taken \cup {pod[p].job} ELSE taken
    /\ UNCHANGED <<queue, maxDeliver, retriesEnv, crashes, lost, replicas>>

PoolServe(p) ==
    \/ StartPod(p)
    \/ (pod[p].step # "down" /\ Serve(p) /\ UNCHANGED pool)

PoolNext ==
    \/ \E j \in Job : (Publish(j) \/ AckWaitExpires(j)) /\ UNCHANGED pool
    \/ (SetupQueue \/ EnsureDeployment \/ Tick) /\ UNCHANGED pool
    \/ \E p \in Pod : PoolServe(p) \/ RemovePod(p) \/ (PodCrash(p) /\ UNCHANGED pool)
    \/ Evaluate

\* As in JobDelivery; and evaluations go on, and Kubernetes carries them out.
PoolFairness ==
    /\ \A p \in Pod : WF_poolVars(PoolServe(p)) /\ WF_poolVars(RemovePod(p))
    /\ \A j \in Job : WF_poolVars(AckWaitExpires(j) /\ UNCHANGED pool)
    /\ WF_poolVars(Tick /\ UNCHANGED pool)
    /\ WF_poolVars(EnsureDeployment /\ UNCHANGED pool)
    /\ WF_poolVars(Evaluate)

PoolSpec == PoolInit /\ [][PoolNext]_poolVars /\ PoolFairness

-----------------------------------------------------------------------------
PoolTypeOK ==
    /\ TypeOK
    /\ replicas \in Scaling.Min .. Scaling.Max
    /\ taken \subseteq Job

\* Every published job ends, unless it has had all its attempts and a pod was
\* taken from it, died, or a message was lost: none is forgotten before, and
\* none because another took its worker's place.
EndsUnlessTaken ==
    \A j \in Job :
        j \in published ~>
            \/ Ended(j)
            \/ AllTried(j) /\ (j \in taken \/ crashes > 0 \/ lost > 0)

\* When the jobs are through the pool goes back to the size it rests at: a job
\* that is left in the stream for ever does not keep workers waiting for it.
PoolRests == <>[](replicas = RestingSize(Scaling))

=============================================================================
