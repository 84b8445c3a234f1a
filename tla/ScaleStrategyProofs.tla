-------------------------- MODULE ScaleStrategyProofs --------------------------
(***************************************************************************)
(* What calculateDesired guarantees, for every configuration, every amount *)
(* of work and every current count, and what config.Load makes of a file   *)
(* that is to be evaluated.                                                *)
(***************************************************************************)
EXTENDS QueueConfig, TLAPS

LEMMA CeilDivType ==
    ASSUME NEW a \in Nat, NEW b \in Nat \ {0}
    PROVE  CeilDiv(a, b) \in Int
BY DEF CeilDiv

\* The types of the fields, to be cited instead of Config.
LEMMA ConfigFields ==
    ASSUME NEW cfg \in Config
    PROVE  /\ cfg.Min \in Nat /\ cfg.Max \in Nat
           /\ cfg.ScaleUpThreshold \in Nat /\ cfg.ScaleDownThreshold \in Nat
           /\ cfg.ScaleUpStep \in Nat /\ cfg.ScaleDownStep \in Nat
           /\ cfg.TargetPerWorker \in Nat \ {0}
           /\ cfg.RateNum \in Nat /\ cfg.RateDen \in Nat \ {0}
           /\ cfg.MinIdleWorkers \in Nat /\ cfg.CooldownSeconds \in Nat
           /\ cfg.ScaleDownDelaySeconds \in Nat /\ cfg.StartupCostSeconds \in Nat
BY DEF Config

LEMMA StrategyType ==
    ASSUME NEW cfg \in Config, NEW work \in Nat, NEW current \in Nat
    PROVE  Strategy(cfg, work, current) \in Int
<1>1. ThresholdStrategy(cfg, work, current) \in Int
  BY ConfigFields DEF ThresholdStrategy
<1>2. RateStrategy(cfg, work, current) \in Int
  BY ConfigFields DEF RateStrategy
<1>3. TargetPerWorkerStrategy(cfg, work, current) \in Int
  BY ConfigFields, CeilDivType DEF TargetPerWorkerStrategy
<1>4. QED
  BY <1>1, <1>2, <1>3 DEF Strategy

LEMMA MaxRemoveType ==
    ASSUME NEW cfg \in Config, NEW current \in Nat
    PROVE  MaxRemove(cfg, current) \in Nat \ {0}
<1>1. current * cfg.RateNum \in Nat
  BY ConfigFields
<1>2. CeilDiv(current * cfg.RateNum, cfg.RateDen) \in Int
  BY <1>1, ConfigFields, CeilDivType
<1>3. QED
  BY <1>2 DEF MaxRemove, AtLeast

\* The count before the rate limit lies in the bounds and above the floor.
LEMMA FlooredBounds ==
    ASSUME NEW cfg \in Config, cfg.Min <= cfg.Max, NEW n \in Int
    PROVE  LET f == RaiseToIdleFloor(cfg, Clamp(cfg, n)) IN
           /\ f \in cfg.Min .. cfg.Max
           /\ cfg.MinIdleWorkers > 0 => f >= IdleFloor(cfg)
BY ConfigFields DEF RaiseToIdleFloor, Clamp, IdleFloor, AtLeast, AtMost

LEMMA LimitRateBounds ==
    ASSUME NEW cfg \in Config, NEW current \in Nat, NEW n \in cfg.Min .. cfg.Max
    PROVE  LET d == LimitRate(cfg, n, current) IN
           /\ d \in Nat
           /\ d >= n
           /\ d <= AtLeast(cfg.Max, current)
           /\ n < current => d < current \/ cfg.Min >= current
           /\ n >= current => d = n
           /\ n < current /\ cfg.RateNum > 0 =>
                d >= current - MaxRemove(cfg, current)
           /\ d # n => d = current - MaxRemove(cfg, current)
<1>1. MaxRemove(cfg, current) \in Nat \ {0}
  BY MaxRemoveType
<1>2. cfg.Min \in Nat /\ cfg.Max \in Nat /\ cfg.RateNum \in Nat /\ n \in Nat
  BY ConfigFields
<1>3. QED
  BY <1>1, <1>2 DEF LimitRate, AtLeast

(* calculateDesired never leaves [replicas.min, replicas.max] when it       *)
(* starts within replicas.max, never goes further out from a count above    *)
(* it, and never goes below the idle floor.                                 *)
THEOREM DesiredBounds ==
    ASSUME NEW cfg \in Config, cfg.Min <= cfg.Max,
           NEW work \in Nat, NEW current \in Nat
    PROVE  LET d == CalculateDesired(cfg, work, current) IN
           /\ d \in Nat
           /\ d >= cfg.Min
           /\ d <= AtLeast(cfg.Max, current)
           /\ current > cfg.Max => d < current
           /\ cfg.MinIdleWorkers > 0 => d >= IdleFloor(cfg)
<1> DEFINE n == RaiseToIdleFloor(cfg, Clamp(cfg, Strategy(cfg, work, current)))
<1>1. /\ n \in cfg.Min .. cfg.Max
      /\ cfg.MinIdleWorkers > 0 => n >= IdleFloor(cfg)
  BY StrategyType, FlooredBounds
<1>2. CalculateDesired(cfg, work, current) = LimitRate(cfg, n, current)
  BY DEF CalculateDesired
<1>3. IdleFloor(cfg) \in Int /\ cfg.Min \in Nat /\ cfg.Max \in Nat
  BY ConfigFields DEF IdleFloor, AtMost
<1> HIDE DEF n
<1>4. QED
  BY <1>1, <1>2, <1>3, LimitRateBounds

(* One decision takes away at most the fraction scale_down_rate of the      *)
(* workers, rounded up, or one worker.                                      *)
THEOREM DesiredRemoval ==
    ASSUME NEW cfg \in Config, cfg.Min <= cfg.Max, cfg.RateNum > 0,
           NEW work \in Nat, NEW current \in Nat
    PROVE  CalculateDesired(cfg, work, current)
               >= current - MaxRemove(cfg, current)
<1> DEFINE n == RaiseToIdleFloor(cfg, Clamp(cfg, Strategy(cfg, work, current)))
<1>1. n \in cfg.Min .. cfg.Max
  BY StrategyType, FlooredBounds
<1>2. CalculateDesired(cfg, work, current) = LimitRate(cfg, n, current)
  BY DEF CalculateDesired
<1>3. n \in Nat /\ MaxRemove(cfg, current) \in Nat \ {0}
  BY <1>1, ConfigFields, MaxRemoveType
<1> HIDE DEF n
<1>4. QED
  BY <1>1, <1>2, <1>3, LimitRateBounds

-----------------------------------------------------------------------------
(* Division rounds up: q = CeilDiv(a, b) is the least q with q * b >= a.    *)
LEMMA CeilDivCovers ==
    ASSUME NEW a \in Nat, NEW b \in Nat \ {0}
    PROVE  /\ CeilDiv(a, b) \in Nat
           /\ b * CeilDiv(a, b) >= a
<1> DEFINE q == (a + b - 1) \div b
           r == (a + b - 1) % b
<1>1. q \in Int /\ r \in 0 .. b - 1 /\ a + b - 1 = b * q + r
  OBVIOUS
<1>2. b * q >= a
  BY <1>1
<1>3. q >= 0
  BY <1>1
<1>4. QED
  BY <1>1, <1>2, <1>3 DEF CeilDiv

LEMMA CeilDivMonotone ==
    ASSUME NEW a1 \in Nat, NEW a2 \in Nat, a1 <= a2, NEW b \in Nat \ {0}
    PROVE  CeilDiv(a1, b) <= CeilDiv(a2, b)
<1> DEFINE q1 == (a1 + b - 1) \div b
           r1 == (a1 + b - 1) % b
           q2 == (a2 + b - 1) \div b
           r2 == (a2 + b - 1) % b
<1>1. q1 \in Int /\ r1 \in 0 .. b - 1 /\ a1 + b - 1 = b * q1 + r1
  OBVIOUS
<1>2. q2 \in Int /\ r2 \in 0 .. b - 1 /\ a2 + b - 1 = b * q2 + r2
  OBVIOUS
<1> HIDE DEF q1, r1, q2, r2
<1>3. ASSUME q1 >= q2 + 1 PROVE FALSE
  <2>1. b * q1 >= b * (q2 + 1)
    BY <1>1, <1>2, <1>3
  <2>2. b * (q2 + 1) = b * q2 + b
    BY <1>2
  <2>3. b * q1 \in Int /\ b * q2 \in Int
    BY <1>1, <1>2
  <2>4. QED
    BY <1>1, <1>2, <2>1, <2>2, <2>3
<1>4. QED
  BY <1>1, <1>2, <1>3 DEF CeilDiv, q1, q2

LEMMA ClampedStrategyMonotone ==
    ASSUME NEW cfg \in Config, cfg.Min <= cfg.Max, NEW current \in Nat,
           NEW w1 \in Nat, NEW w2 \in Nat, w1 <= w2
    PROVE  Clamp(cfg, Strategy(cfg, w1, current))
              <= Clamp(cfg, Strategy(cfg, w2, current))
<1> USE ConfigFields
<1>1. CASE cfg.Type = "rate"
  <2>1. cfg.ScaleUpThreshold * current \in Nat
        /\ cfg.ScaleDownThreshold * current \in Nat
    OBVIOUS
  <2>2. QED
    BY <1>1, <2>1 DEF Strategy, RateStrategy, Clamp, AtLeast, AtMost
<1>2. CASE cfg.Type = "target_per_worker"
  <2>1. /\ CeilDiv(w1, cfg.TargetPerWorker) \in Nat
        /\ CeilDiv(w2, cfg.TargetPerWorker) \in Nat
    BY CeilDivCovers
  <2>2. CeilDiv(w1, cfg.TargetPerWorker) <= CeilDiv(w2, cfg.TargetPerWorker)
    BY CeilDivMonotone
  <2>3. QED
    BY <1>2, <2>1, <2>2
    DEF Strategy, TargetPerWorkerStrategy, Clamp, AtLeast, AtMost
<1>3. CASE cfg.Type \notin {"rate", "target_per_worker"}
  BY <1>3 DEF Strategy, ThresholdStrategy, Clamp, AtLeast, AtMost
<1>4. QED
  BY <1>1, <1>2, <1>3

(* More work is never answered with fewer workers.                          *)
THEOREM DesiredMonotone ==
    ASSUME NEW cfg \in Config, cfg.Min <= cfg.Max, NEW current \in Nat,
           NEW w1 \in Nat, NEW w2 \in Nat, w1 <= w2
    PROVE  CalculateDesired(cfg, w1, current) <= CalculateDesired(cfg, w2, current)
<1> DEFINE c1 == Clamp(cfg, Strategy(cfg, w1, current))
           c2 == Clamp(cfg, Strategy(cfg, w2, current))
           n1 == RaiseToIdleFloor(cfg, c1)
           n2 == RaiseToIdleFloor(cfg, c2)
<1>1. c1 \in Int /\ c2 \in Int /\ c1 <= c2
  BY ClampedStrategyMonotone, StrategyType, ConfigFields
  DEF Clamp, AtLeast, AtMost
<1>2. n1 \in cfg.Min .. cfg.Max /\ n2 \in cfg.Min .. cfg.Max
  BY StrategyType, FlooredBounds
<1>3. IdleFloor(cfg) \in Int
  BY ConfigFields DEF IdleFloor, AtMost
<1> HIDE DEF c1, c2
<1>4. n1 <= n2
  BY <1>1, <1>3, ConfigFields DEF RaiseToIdleFloor, AtLeast
<1>5. /\ CalculateDesired(cfg, w1, current) = LimitRate(cfg, n1, current)
      /\ CalculateDesired(cfg, w2, current) = LimitRate(cfg, n2, current)
  BY DEF CalculateDesired, c1, c2
<1>6. MaxRemove(cfg, current) \in Nat \ {0}
  BY MaxRemoveType
<1> HIDE DEF n1, n2
<1>7. LimitRate(cfg, n1, current) <= LimitRate(cfg, n2, current)
  BY <1>2, <1>4, <1>6, ConfigFields DEF LimitRate, AtLeast
<1>8. QED
  BY <1>5, <1>7

(* An overloaded queue within its bounds loses no worker.                   *)
THEOREM DesiredUnderLoad ==
    ASSUME NEW cfg \in Config, cfg.Min <= cfg.Max, NEW work \in Nat,
           NEW current \in 0 .. cfg.Max, Overloaded(cfg, work, current)
    PROVE  CalculateDesired(cfg, work, current) >= current
<1> USE ConfigFields
<1> DEFINE n == RaiseToIdleFloor(cfg, Clamp(cfg, Strategy(cfg, work, current)))
<1>1. Strategy(cfg, work, current) \in Int
  BY StrategyType
<1>2. Strategy(cfg, work, current) >= current
  <2>1. CASE cfg.Type = "rate"
    <3>1. work > cfg.ScaleUpThreshold * current
      BY <2>1 DEF Overloaded
    <3>2. QED
      BY <2>1, <3>1 DEF Strategy, RateStrategy
  <2>2. CASE cfg.Type = "target_per_worker"
    <3> DEFINE q == CeilDiv(work, cfg.TargetPerWorker)
    <3>1. work > cfg.TargetPerWorker * current
      BY <2>2 DEF Overloaded
    <3>2. q \in Nat /\ cfg.TargetPerWorker * q >= work
      BY CeilDivCovers
    <3>3. work > 0
      BY <3>1
    <3> HIDE DEF q
    <3>4. ASSUME q < current PROVE FALSE
      <4>1. cfg.TargetPerWorker * q <= cfg.TargetPerWorker * current
        BY <3>2, <3>4
      <4>2. QED
        BY <3>1, <3>2, <4>1
    <3>5. q >= current
      BY <3>2, <3>4
    <3>6. QED
      BY <2>2, <3>3, <3>5 DEF Strategy, TargetPerWorkerStrategy, q
  <2>3. CASE cfg.Type \notin {"rate", "target_per_worker"}
    BY <2>3 DEF Overloaded, Strategy, ThresholdStrategy
  <2>4. QED
    BY <2>1, <2>2, <2>3
<1>3. n \in cfg.Min .. cfg.Max /\ n >= current
  <2>1. n \in cfg.Min .. cfg.Max
    BY <1>1, FlooredBounds
  <2>2. Clamp(cfg, Strategy(cfg, work, current)) >= current
    BY <1>1, <1>2 DEF Clamp, AtLeast, AtMost
  <2>3. Clamp(cfg, Strategy(cfg, work, current)) \in Int
    BY <1>1 DEF Clamp, AtLeast, AtMost
  <2>4. IdleFloor(cfg) \in Int
    BY DEF IdleFloor, AtMost
  <2>5. QED
    BY <2>1, <2>2, <2>3, <2>4 DEF RaiseToIdleFloor, AtLeast
<1>4. CalculateDesired(cfg, work, current) = LimitRate(cfg, n, current)
  BY DEF CalculateDesired
<1> HIDE DEF n
<1>5. QED
  BY <1>3, <1>4, LimitRateBounds

(* Workers are only taken out of a pool whose work is little enough for the *)
(* strategy, whatever the clamp, the idle floor and the rate limit do to    *)
(* its number.                                                              *)
THEOREM DesiredUnderloaded ==
    ASSUME NEW cfg \in Config, cfg.Min <= cfg.Max, NEW work \in Nat,
           NEW current \in 0 .. cfg.Max,
           CalculateDesired(cfg, work, current) < current
    PROVE  Underloaded(cfg, work, current)
<1> USE ConfigFields
<1> DEFINE s == Strategy(cfg, work, current)
           n == RaiseToIdleFloor(cfg, Clamp(cfg, s))
<1>1. s \in Int
  BY StrategyType
<1>2. n \in cfg.Min .. cfg.Max
  BY <1>1, FlooredBounds
<1>3. n < current
  <2>1. CalculateDesired(cfg, work, current) = LimitRate(cfg, n, current)
    BY DEF CalculateDesired
  <2> HIDE DEF n
  <2> QED
    BY <1>2, <2>1, LimitRateBounds
<1>4. s < current
  <2> HIDE DEF s
  <2>1. PICK c \in Int : c = Clamp(cfg, s)
    BY <1>1 DEF Clamp, AtLeast, AtMost
  <2>2. IdleFloor(cfg) \in Int
    BY DEF IdleFloor, AtMost
  <2>3. c <= n
    BY <1>2, <2>1, <2>2 DEF RaiseToIdleFloor, AtLeast
  <2>4. c < current
    BY <1>2, <1>3, <2>3
  <2> QED
    BY <1>1, <2>1, <2>4 DEF Clamp, AtLeast, AtMost
<1>5. CASE cfg.Type = "rate"
  BY <1>4, <1>5 DEF Underloaded, Strategy, RateStrategy
<1>6. CASE cfg.Type = "target_per_worker"
  <2>1. PICK t \in Nat \ {0} : t = cfg.TargetPerWorker
    OBVIOUS
  <2>2. PICK k \in Nat : k = current - 1
    BY <1>2, <1>3
  <2>3. t * k \in Nat
    BY <2>1, <2>2
  <2>4. CASE work = 0
    BY <1>6, <2>1, <2>2, <2>3, <2>4 DEF Underloaded
  <2>5. CASE work # 0
    <3>1. PICK m \in Nat : m = CeilDiv(work, t) /\ t * m >= work
      BY <2>1, CeilDivCovers
    <3>2. m <= k
      BY <1>4, <1>6, <2>1, <2>2, <2>5, <3>1 DEF Strategy, TargetPerWorkerStrategy
    <3>3. t * m <= t * k /\ t * m \in Nat
      BY <2>1, <2>2, <3>1, <3>2
    <3> QED
      BY <1>6, <2>1, <2>2, <2>3, <3>1, <3>3 DEF Underloaded
  <2> QED
    BY <2>4, <2>5
<1>7. CASE cfg.Type \notin {"rate", "target_per_worker"}
  BY <1>4, <1>7 DEF Underloaded, Strategy, ThresholdStrategy
<1> QED
  BY <1>5, <1>6, <1>7

(* CeilDiv(a, b) is less than one above a / b.                              *)
LEMMA CeilDivTight ==
    ASSUME NEW a \in Nat, NEW b \in Nat \ {0}
    PROVE  b * (CeilDiv(a, b) - 1) < a \/ CeilDiv(a, b) = 0
<1> DEFINE q == (a + b - 1) \div b
           r == (a + b - 1) % b
<1>1. q \in Int /\ r \in 0 .. b - 1 /\ a + b - 1 = b * q + r
  OBVIOUS
<1> HIDE DEF q, r
<1>2. b * (q - 1) = b * q - b /\ b * q \in Int
  BY <1>1
<1>3. CASE a > 0
  BY <1>1, <1>2, <1>3 DEF CeilDiv, q
<1>4. CASE a = 0
  <2>1. b * q < b /\ b * q >= 0
    BY <1>1, <1>2, <1>4
  <2>2. q = 0
    BY <1>1, <2>1
  <2>3. QED
    BY <1>4, <2>2 DEF CeilDiv, q
<1>5. QED
  BY <1>3, <1>4

(* The rate limit as a fraction: all but the last worker removed make up    *)
(* less than the fraction scale_down_rate of the pool.                      *)
THEOREM DesiredRemovalFraction ==
    ASSUME NEW cfg \in Config, cfg.Min <= cfg.Max, cfg.RateNum > 0,
           NEW work \in Nat, NEW current \in Nat,
           CalculateDesired(cfg, work, current) < current
    PROVE  (current - CalculateDesired(cfg, work, current) - 1) * cfg.RateDen
               < AtLeast(current * cfg.RateNum, 1)
<1> DEFINE a == current * cfg.RateNum
           b == cfg.RateDen
           k == CeilDiv(a, b)
           d == CalculateDesired(cfg, work, current)
           x == current - d - 1
<1>1. a \in Nat /\ b \in Nat \ {0}
  BY ConfigFields
<1>2. k \in Nat
  BY <1>1, CeilDivCovers
<1>3. d \in Nat /\ d < current /\ d >= current - AtLeast(k, 1)
  BY DesiredRemoval, DesiredBounds DEF MaxRemove
<1>4. b * (k - 1) < a \/ k = 0
  BY <1>1, CeilDivTight
<1> HIDE DEF a, b, k, d
<1>5. x \in Nat /\ x <= AtLeast(k, 1) - 1
  BY <1>2, <1>3 DEF AtLeast
<1> HIDE DEF x
<1>6. CASE k <= 1
  <2>1. x = 0
    BY <1>2, <1>5, <1>6 DEF AtLeast
  <2>2. x * b < AtLeast(a, 1)
    BY <1>1, <2>1 DEF AtLeast
  <2>3. QED
    BY <2>2 DEF a, b, d, x
<1>7. CASE k > 1
  <2>1. x <= k - 1
    BY <1>2, <1>5, <1>7 DEF AtLeast
  <2>2. x * b <= b * (k - 1)
    BY <1>1, <1>2, <1>5, <2>1
  <2>3. x * b \in Int /\ b * (k - 1) \in Int
    BY <1>1, <1>2, <1>5
  <2>4. x * b < AtLeast(a, 1)
    BY <1>1, <1>4, <1>7, <2>2, <2>3 DEF AtLeast
  <2>5. QED
    BY <2>4 DEF a, b, d, x
<1>8. QED
  BY <1>2, <1>6, <1>7

-----------------------------------------------------------------------------
(* What the defaults of config.Load guarantee for every file.               *)

LEMMA FileFields ==
    ASSUME NEW file \in File
    PROVE  /\ file.Type \in FileTypes
           /\ file.Min \in Nat /\ file.Max \in Nat
           /\ file.ScaleUpThreshold \in Nat /\ file.ScaleDownThreshold \in Nat
           /\ file.ScaleUpStep \in Nat /\ file.ScaleDownStep \in Nat
           /\ file.TargetPerWorker \in Nat
           /\ file.RateNum \in Nat /\ file.RateDen \in Nat \ {0}
           /\ file.MinIdleWorkers \in Nat /\ file.CooldownSeconds \in Nat
           /\ file.ScaleDownDelaySeconds \in Nat /\ file.StartupCostSeconds \in Nat
           /\ file.MaxRetries \in Nat /\ file.ProcessingTimeout \in Nat
  BY DEF File

(* Whatever the file holds, Load makes a configuration the strategies can   *)
(* be evaluated with: in particular TargetPerWorker, by which               *)
(* targetPerWorkerStrategy divides, is never 0.                             *)
THEOREM LoadedIsConfig ==
    ASSUME NEW file \in File
    PROVE  LoadScaling(file) \in Config
<1>1. \A v, d \in Nat : OrDefault(v, d) \in Nat
  BY DEF OrDefault
<1>2. OrDefault(file.TargetPerWorker, 5) \in Nat \ {0}
  BY FileFields DEF OrDefault
<1>3. (IF file.Type = "" THEN "threshold" ELSE file.Type) \in StrategyTypes
  BY FileFields DEF StrategyTypes, FileTypes
<1>4. (IF file.RateNum = 0 THEN 2 ELSE file.RateDen) \in Nat \ {0}
  BY FileFields
<1> QED
  BY FileFields, <1>1, <1>2, <1>3, <1>4 DEF LoadScaling, Config

(* No strategy stands still for a step of 0, no queue keeps no worker and   *)
(* none is scaled without a cooldown or without a limit to removals.        *)
THEOREM LoadedIsEffective ==
    ASSUME NEW file \in File
    PROVE  LET c == LoadScaling(file) IN
           /\ c.Min >= 1 /\ c.Max >= 1
           /\ c.ScaleUpStep >= 1 /\ c.ScaleDownStep >= 1
           /\ c.ScaleUpThreshold >= 1 /\ c.ScaleDownThreshold >= 1
           /\ c.CooldownSeconds >= 1 /\ c.RateNum >= 1
  BY FileFields DEF LoadScaling, OrDefault

(* The bounds that the autoscaler needs in order are in order if the file   *)
(* gives them so, or gives one that fits the default of the other.          *)
THEOREM LoadedBoundsOrdered ==
    ASSUME NEW file \in File,
           file.Max # 0 => file.Min <= file.Max,
           file.Max = 0 => file.Min <= 10
    PROVE  LoadScaling(file).Min <= LoadScaling(file).Max
  BY FileFields DEF LoadScaling, OrDefault

(* ... and in no other case: nothing checks them.                           *)
THEOREM LoadedBoundsUnordered ==
    ASSUME NEW file \in File,
           file.Max = 0, file.Min > 10
    PROVE  LoadScaling(file).Min > LoadScaling(file).Max
  BY FileFields DEF LoadScaling, OrDefault

(* A file that holds what Load made of another one is loaded as it is:      *)
(* writing the defaults down changes nothing.                               *)
THEOREM LoadIdempotent ==
    ASSUME NEW file \in File, NEW again \in File,
           \A f \in DOMAIN LoadScaling(file) : again[f] = LoadScaling(file)[f]
    PROVE  LoadScaling(again) = LoadScaling(file)
  BY FileFields DEF LoadScaling, OrDefault

(* No queue of a configuration file delivers a job only once: max_retries 0 *)
(* is taken for "not given", and MaxDeliver is MaxRetries + 1.              *)
THEOREM LoadedRetries ==
    ASSUME NEW file \in File
    PROVE  /\ LoadDelivery(file).MaxRetries >= 1
           /\ file.MaxRetries = 0 => LoadDelivery(file).MaxRetries + 1 = 4
           /\ LoadDelivery(file).ProcessingTimeout \in Nat \ {0}
  BY FileFields DEF LoadDelivery, OrDefault

=============================================================================
