---------------------------- MODULE MCWorkerPool ----------------------------
(* A queue that gets its second worker for a second job and keeps it no      *)
(* longer than that job.                                                     *)
EXTENDS WorkerPool

MCScaling ==
    [ Type |-> "threshold", Min |-> 1, Max |-> 2,
      ScaleUpThreshold |-> 1, ScaleDownThreshold |-> 2,
      ScaleUpStep |-> 1, ScaleDownStep |-> 1,
      TargetPerWorker |-> 5, RateNum |-> 1, RateDen |-> 2, MinIdleWorkers |-> 0,
      CooldownSeconds |-> 1, ScaleDownDelaySeconds |-> 0, StartupCostSeconds |-> 0 ]

=============================================================================
