----------------------------- MODULE QueueConfig -----------------------------
(***************************************************************************)
(* What config.Load (internal/config/config.go) makes of one entry under   *)
(* queues: in the configuration file.  A field the file leaves out is the  *)
(* zero of its type, and Load takes zero for "left out": it fills in the   *)
(* default, whether the file says 0 or nothing.  Nothing is validated.     *)
(***************************************************************************)
EXTENDS ScaleStrategy

FileTypes == StrategyTypes \cup {""}

\* An entry as yaml.Unmarshal leaves it (api.QueueConfig, api.ReplicaConfig,
\* api.ScaleStrategy; the fields that scaling and delivery use).
File ==
    [ Type : FileTypes,
      Min : Nat,                    Max : Nat,
      ScaleUpThreshold : Nat,       ScaleDownThreshold : Nat,
      ScaleUpStep : Nat,            ScaleDownStep : Nat,
      TargetPerWorker : Nat,
      RateNum : Nat,                RateDen : Nat \ {0},
      MinIdleWorkers : Nat,
      CooldownSeconds : Nat,        ScaleDownDelaySeconds : Nat,
      StartupCostSeconds : Nat,
      MaxRetries : Nat,             ProcessingTimeout : Nat ]

OrDefault(v, default) == IF v = 0 THEN default ELSE v

\* Mutant: one of the fields is forgotten in the list of defaults.
LoadScalingNoStep(file) ==
    [ Type |-> IF file.Type = "" THEN "threshold" ELSE file.Type,
      Min |-> OrDefault(file.Min, 1),
      Max |-> OrDefault(file.Max, 10),
      ScaleUpThreshold |-> OrDefault(file.ScaleUpThreshold, 10),
      ScaleDownThreshold |-> OrDefault(file.ScaleDownThreshold, 2),
      TargetPerWorker |-> OrDefault(file.TargetPerWorker, 5),
      CooldownSeconds |-> OrDefault(file.CooldownSeconds, 30),
      ScaleUpStep |-> file.ScaleUpStep,
      ScaleDownStep |-> OrDefault(file.ScaleDownStep, 1),
      StartupCostSeconds |-> file.StartupCostSeconds,
      ScaleDownDelaySeconds |-> file.ScaleDownDelaySeconds,
      MinIdleWorkers |-> file.MinIdleWorkers,
      RateNum |-> OrDefault(file.RateNum, 1),
      RateDen |-> IF file.RateNum = 0 THEN 2 ELSE file.RateDen ]

\* Replicas and ScaleStrategy of the queue; the defaults of the cost-aware
\* fields are their zeros, but for the rate, whose default is 1/2.
LoadScaling(file) ==
    [ Type |-> IF file.Type = "" THEN "threshold" ELSE file.Type,
      Min |-> OrDefault(file.Min, 1),
      Max |-> OrDefault(file.Max, 10),
      ScaleUpThreshold |-> OrDefault(file.ScaleUpThreshold, 10),
      ScaleDownThreshold |-> OrDefault(file.ScaleDownThreshold, 2),
      TargetPerWorker |-> OrDefault(file.TargetPerWorker, 5),
      CooldownSeconds |-> OrDefault(file.CooldownSeconds, 30),
      ScaleUpStep |-> OrDefault(file.ScaleUpStep, 2),
      ScaleDownStep |-> OrDefault(file.ScaleDownStep, 1),
      StartupCostSeconds |-> file.StartupCostSeconds,
      ScaleDownDelaySeconds |-> file.ScaleDownDelaySeconds,
      MinIdleWorkers |-> file.MinIdleWorkers,
      RateNum |-> OrDefault(file.RateNum, 1),
      RateDen |-> IF file.RateNum = 0 THEN 2 ELSE file.RateDen ]

\* MaxRetries and ProcessingTimeout (in seconds) of the queue.
LoadDelivery(file) ==
    [ MaxRetries |-> OrDefault(file.MaxRetries, 3),
      ProcessingTimeout |-> OrDefault(file.ProcessingTimeout, 300) ]

=============================================================================
