----------------------------- MODULE MCAutoscaler -----------------------------
(* Queue configurations for TLC.  Times are in ticks.                       *)
EXTENDS Autoscaler

\* Workers that are cheap to start: only cooldown_seconds matters.
Cheap == [ Type |-> "threshold", Min |-> 1, Max |-> 4,
           ScaleUpThreshold |-> 2, ScaleDownThreshold |-> 1,
           ScaleUpStep |-> 2, ScaleDownStep |-> 1, TargetPerWorker |-> 1,
           RateNum |-> 1, RateDen |-> 2, MinIdleWorkers |-> 0,
           CooldownSeconds |-> 1, ScaleDownDelaySeconds |-> 0,
           StartupCostSeconds |-> 0 ]

\* Workers that are costly to start: a scale-down waits 1 + 1 + 2 after a
\* scale event and 4 after the last work.  The strategy gives up three workers
\* at once, the rate limit only one, and the idle floor keeps two.
Costly == [ Cheap EXCEPT !.ScaleDownStep = 3, !.RateDen = 4, !.MinIdleWorkers = 1,
                         !.StartupCostSeconds = 2, !.ScaleDownDelaySeconds = 1 ]

\* The smallest pools and loads that scale in both directions.
Small == [ Cheap EXCEPT !.Max = 3, !.ScaleUpThreshold = 1, !.RateDen = 4 ]

MCSmall  == [q \in Queue |-> Small]
MCCostly == [q \in Queue |-> Costly]
MCCheap  == [q \in Queue |-> Cheap]

=============================================================================
