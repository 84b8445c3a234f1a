---------------------------- MODULE MCScalingLoop ----------------------------
(* Configurations for TLC: every strategy, with and without an idle floor   *)
(* and a rate limit, bounds that the idle floor exceeds, and steps larger   *)
(* than the range; and what config.Load makes of files that leave out as    *)
(* much as they can.  In each, ScaleUpThreshold >= 2 * ScaleDownThreshold   *)
(* and ScaleDownStep = 1, which the rate strategy needs in order not to     *)
(* hunt.                                                                    *)
EXTENDS ScalingLoop, QueueConfig

MCWritten ==
    { [ Type |-> t, Min |-> 1, Max |-> mx,
        ScaleUpThreshold |-> up, ScaleDownThreshold |-> 1,
        ScaleUpStep |-> us, ScaleDownStep |-> 1,
        TargetPerWorker |-> 2, RateNum |-> rn, RateDen |-> 4,
        MinIdleWorkers |-> idle, CooldownSeconds |-> 0,
        ScaleDownDelaySeconds |-> 0, StartupCostSeconds |-> 0 ] :
      t \in {"threshold", "rate", "target_per_worker", "other"},
      mx \in {1, 4}, up \in {2, 3}, us \in {1, 2, 5},
      rn \in {0, 1, 2}, idle \in {0, 2} }

\* An entry that names its queue and nothing else.
MCEmpty ==
    [ Type |-> "", Min |-> 0, Max |-> 0, ScaleUpThreshold |-> 0,
      ScaleDownThreshold |-> 0, ScaleUpStep |-> 0, ScaleDownStep |-> 0,
      TargetPerWorker |-> 0, RateNum |-> 0, RateDen |-> 1, MinIdleWorkers |-> 0,
      CooldownSeconds |-> 0, ScaleDownDelaySeconds |-> 0, StartupCostSeconds |-> 0,
      MaxRetries |-> 0, ProcessingTimeout |-> 0 ]

MCFiles ==
    { [MCEmpty EXCEPT !.Type = t, !.Max = mx, !.ScaleUpThreshold = up,
                      !.MinIdleWorkers = idle] :
      t \in {"", "rate", "target_per_worker"}, mx \in {0, 4},
      up \in {0, 4, 5}, idle \in {0, 2} }

MCConfigs == MCWritten \cup { LoadScaling(f) : f \in MCFiles }

=============================================================================
