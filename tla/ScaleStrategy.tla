---------------------------- MODULE ScaleStrategy ----------------------------
(***************************************************************************)
(* The pure part of the autoscaler: Autoscaler.calculateDesired and the    *)
(* three strategies it dispatches to (pkg/scaler/autoscaler.go).           *)
(*                                                                         *)
(* A queue configuration is a record with the fields of api.ReplicaConfig  *)
(* and api.ScaleStrategy.  ScaleDownRate is a float64 in the code; it is   *)
(* the fraction RateNum / RateDen here, so the model is exact for rates    *)
(* a float64 holds exactly (1/2, 1/4, 3/4, 1, ...).                        *)
(***************************************************************************)
EXTENDS Integers

\* "other" stands for every word that calculateDesired does not know.
StrategyTypes == {"threshold", "rate", "target_per_worker", "other"}

Config ==
    [ Type : StrategyTypes,
      Min : Nat,                    Max : Nat,
      ScaleUpThreshold : Nat,       ScaleDownThreshold : Nat,
      ScaleUpStep : Nat,            ScaleDownStep : Nat,
      TargetPerWorker : Nat \ {0},
      RateNum : Nat,                RateDen : Nat \ {0},
      MinIdleWorkers : Nat,
      CooldownSeconds : Nat,        ScaleDownDelaySeconds : Nat,
      StartupCostSeconds : Nat ]

AtLeast(n, low) == IF n < low THEN low ELSE n
AtMost(n, high) == IF n > high THEN high ELSE n
CeilDiv(a, b)   == (a + b - 1) \div b

-----------------------------------------------------------------------------
(* The strategies.                                                          *)

ThresholdStrategy(cfg, work, current) ==
    IF work > cfg.ScaleUpThreshold
      THEN current + cfg.ScaleUpStep
      ELSE IF work < cfg.ScaleDownThreshold /\ current > cfg.Min
             THEN current - cfg.ScaleDownStep
             ELSE current

\* Mutant: no dead band, everything that does not scale up scales down.
RateStrategyNoBand(cfg, work, current) ==
    IF current > 0 /\ work > cfg.ScaleUpThreshold * current
      THEN current + cfg.ScaleUpStep
      ELSE current - cfg.ScaleDownStep

\* work / current is compared with the thresholds, here multiplied out.
RateStrategy(cfg, work, current) ==
    IF current = 0
      THEN IF work > 0 THEN cfg.Min ELSE 0
      ELSE IF work > cfg.ScaleUpThreshold * current
        THEN current + cfg.ScaleUpStep
        ELSE IF work < cfg.ScaleDownThreshold * current /\ current > cfg.Min
          THEN current - cfg.ScaleDownStep
          ELSE current

\* Mutants: an idle queue keeps its workers; the quotient is rounded down.
TargetPerWorkerStrategySticky(cfg, work, current) ==
    IF work = 0 THEN current ELSE CeilDiv(work, cfg.TargetPerWorker)
TargetPerWorkerStrategyFloor(cfg, work, current) ==
    IF work = 0 THEN cfg.Min ELSE work \div cfg.TargetPerWorker

TargetPerWorkerStrategy(cfg, work, current) ==
    IF work = 0 THEN cfg.Min ELSE CeilDiv(work, cfg.TargetPerWorker)

\* An unknown type falls back to the threshold strategy.
Strategy(cfg, work, current) ==
    IF cfg.Type = "rate"
      THEN RateStrategy(cfg, work, current)
      ELSE IF cfg.Type = "target_per_worker"
        THEN TargetPerWorkerStrategy(cfg, work, current)
        ELSE ThresholdStrategy(cfg, work, current)

-----------------------------------------------------------------------------
(* What calculateDesired does to the number the strategy asks for: clamp,   *)
(* raise to the idle floor, limit how many workers one decision removes.    *)

\* Mutants: the clamp has no upper end; it falls back to Min instead of Max.
ClampNoMax(cfg, n)     == AtLeast(n, cfg.Min)
ClampWrongSide(cfg, n) == IF n > cfg.Max THEN cfg.Min ELSE AtLeast(n, cfg.Min)

Clamp(cfg, n) == AtMost(AtLeast(n, cfg.Min), cfg.Max)

IdleFloor(cfg) == AtMost(cfg.Min + cfg.MinIdleWorkers, cfg.Max)

RaiseToIdleFloor(cfg, n) ==
    IF cfg.MinIdleWorkers > 0 THEN AtLeast(n, IdleFloor(cfg)) ELSE n

\* Mutant: rounded down, so that a small pool may lose nobody.
MaxRemoveRoundedDown(cfg, current) == (current * cfg.RateNum) \div cfg.RateDen

MaxRemove(cfg, current) ==
    AtLeast(CeilDiv(current * cfg.RateNum, cfg.RateDen), 1)

\* Mutant: the limit is taken of the wanted number, not of the current one.
LimitRateOfWanted(cfg, n, current) ==
    IF n < current /\ cfg.RateNum > 0
      THEN AtLeast(AtLeast(n, n - MaxRemove(cfg, n)), cfg.Min)
      ELSE n

LimitRate(cfg, n, current) ==
    IF n < current /\ cfg.RateNum > 0
      THEN AtLeast(AtLeast(n, current - MaxRemove(cfg, current)), cfg.Min)
      ELSE n

CalculateDesired(cfg, work, current) ==
    LET wanted  == Strategy(cfg, work, current)
        clamped == Clamp(cfg, wanted)
        floored == RaiseToIdleFloor(cfg, clamped)
    IN  LimitRate(cfg, floored, current)

\* The work is more than the strategy wants so many workers to carry.
Overloaded(cfg, work, n) ==
    LET load == IF cfg.Type = "rate" THEN cfg.ScaleUpThreshold * n
                ELSE IF cfg.Type = "target_per_worker" THEN cfg.TargetPerWorker * n
                ELSE cfg.ScaleUpThreshold
    IN  work > load

\* The work is little enough for the strategy to want fewer than n workers;
\* by target_per_worker one worker fewer could carry it.
Underloaded(cfg, work, n) ==
    IF cfg.Type = "rate" THEN work < cfg.ScaleDownThreshold * n
    ELSE IF cfg.Type = "target_per_worker" THEN work <= cfg.TargetPerWorker * (n - 1)
    ELSE work < cfg.ScaleDownThreshold

\* The size of a pool that has had no work for long enough.
RestingSize(cfg) == RaiseToIdleFloor(cfg, cfg.Min)

\* What evaluate() needs before it may act on a desired count: the cooldown,
\* longer for a scale-down of a queue whose workers are costly to start, ...
EffectiveCooldown(cfg, isScaleDown) ==
    IF isScaleDown /\ cfg.StartupCostSeconds > 0
      THEN cfg.CooldownSeconds + cfg.ScaleDownDelaySeconds
                               + cfg.StartupCostSeconds
      ELSE cfg.CooldownSeconds

\* ... and how long work seen in the queue forbids a scale-down.
RecentWindow(cfg, isScaleDown) ==
    IF isScaleDown THEN 2 * cfg.StartupCostSeconds ELSE 0

\* No guard tells the ages beyond these apart: they are cut off there.
ScaleHorizon(cfg)    == EffectiveCooldown(cfg, TRUE)
ActivityHorizon(cfg) == RecentWindow(cfg, TRUE)

Older(age, horizon) == AtMost(age + 1, horizon)

=============================================================================
