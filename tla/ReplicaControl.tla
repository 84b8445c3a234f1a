---------------------------- MODULE ReplicaControl ----------------------------
(***************************************************************************)
(* What the control of worker pools promises, without its calls, failures  *)
(* and crashes: a pool is deployed with replicas.min workers, and from     *)
(* then on its size only changes by one decision of the strategy at a      *)
(* time, taken of the size the pool really has, and not sooner after the   *)
(* last change than the cooldown allows.  A controller that starts anew    *)
(* deploys every pool again and has forgotten the last change.             *)
(***************************************************************************)
EXTENDS ScaleStrategy

CONSTANTS Queue, Cfg, MaxWork

VARIABLES deployed,   \* queues that have a Deployment
          replicas,   \* size of each pool
          sinceScale  \* time since the pool was last scaled, as far as it is
                      \* remembered and matters

vars == <<deployed, replicas, sinceScale>>

Init ==
    /\ deployed = {}
    /\ replicas = [q \in Queue |-> 0]
    /\ sinceScale = [q \in Queue |-> ScaleHorizon(Cfg[q])]

Deploy(q) ==
    /\ deployed' = deployed \cup {q}
    /\ replicas' = [replicas EXCEPT ![q] = Cfg[q].Min]
    /\ UNCHANGED sinceScale

Forget ==
    /\ sinceScale' = [q \in Queue |-> ScaleHorizon(Cfg[q])]
    /\ UNCHANGED <<deployed, replicas>>

Rescale(q) ==
    /\ q \in deployed
    /\ \E w \in 0 .. MaxWork :
         LET d == CalculateDesired(Cfg[q], w, replicas[q]) IN
           /\ d # replicas[q]
           /\ sinceScale[q] >= EffectiveCooldown(Cfg[q], d < replicas[q])
           /\ replicas' = [replicas EXCEPT ![q] = d]
    /\ sinceScale' = [sinceScale EXCEPT ![q] = 0]
    /\ UNCHANGED deployed

Tick ==
    /\ sinceScale' = [q \in Queue |-> Older(sinceScale[q], ScaleHorizon(Cfg[q]))]
    /\ UNCHANGED <<deployed, replicas>>

Next ==
    \/ \E q \in Queue : Deploy(q) \/ Rescale(q)
    \/ Forget
    \/ Tick

Spec == Init /\ [][Next]_vars

=============================================================================
