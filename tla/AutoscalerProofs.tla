--------------------------- MODULE AutoscalerProofs ---------------------------
(***************************************************************************)
(* Type correctness and the bounds of every pool and of every decision on  *)
(* its way, for any number of controllers, queues, failures and crashes;   *)
(* and for one controller the cooldown, the memory of recent work, the     *)
(* protection of loaded pools and the refinement of ReplicaControl.        *)
(***************************************************************************)
EXTENDS Autoscaler, ScaleStrategyProofs

LEMMA CfgOfQueue ==
    ASSUME NEW q \in Queue
    PROVE  /\ Cfg[q] \in Config
           /\ Cfg[q].Min <= Cfg[q].Max
           /\ Cfg[q].Min \in Nat /\ Cfg[q].Max \in Nat
           /\ ScaleHorizon(Cfg[q]) \in Nat /\ ActivityHorizon(Cfg[q]) \in Nat
<1>1. Cfg[q] \in Config /\ Cfg[q].Min <= Cfg[q].Max
  BY CfgAssumption
<1>2. QED
  BY <1>1, ConfigFields
  DEF ScaleHorizon, ActivityHorizon, EffectiveCooldown, RecentWindow

LEMMA OlderType ==
    ASSUME NEW age \in Nat, NEW horizon \in Nat
    PROVE  Older(age, horizon) \in Nat
BY DEF Older, AtMost

LEMMA BlankType == Blank \in Locals
<1>1. (CHOOSE q \in Queue : TRUE) \in Queue
  BY CfgAssumption
<1>2. QED
  BY <1>1, BoundsAssumption DEF Blank, Locals

LEMMA CallFailsType ==
    ASSUME faults \in 0 .. MaxFaults, NEW kind, NEW q, CallFails(kind, q)
    PROVE  faults' \in 0 .. MaxFaults
BY BoundsAssumption DEF CallFails

LEMMA DieType ==
    ASSUME TypeOK, NEW c \in Controller, Die(c), crashes' \in 0 .. MaxCrashes
    PROVE  TypeOK'
<1>1. pc' \in [Controller -> PCs] /\ ev' \in [Controller -> Locals]
  BY BlankType DEF TypeOK, Die, Leave, Goto, Visit, PCs
<1>2. /\ lastScaleTime' \in [Controller -> [Queue -> Nat]]
      /\ lastActivity' \in [Controller -> [Queue -> Nat]]
      /\ sinceScale' \in [Queue -> Nat] /\ sinceBusy' \in [Queue -> Nat]
  BY CfgOfQueue DEF TypeOK, Die
<1>3. QED
  BY <1>1, <1>2 DEF TypeOK, Die, NoWrite

THEOREM AutoscalerTypeOK == Spec => []TypeOK
<1>1. Init => TypeOK
  BY BlankType, CfgOfQueue, BoundsAssumption DEF Init, TypeOK, PCs
<1>2. TypeOK /\ [Next]_vars => TypeOK'
  <2> SUFFICES ASSUME TypeOK, [Next]_vars PROVE TypeOK'
    OBVIOUS
  <2>1. ASSUME NEW c \in Controller, Start(c) PROVE TypeOK'
    BY <2>1 DEF TypeOK, Start, Goto, PCs, kube, ages
  <2>2. ASSUME NEW c \in Controller, EnsureGet(c) PROVE TypeOK'
    <3>1. PICK q \in todo[c] :
             /\ todo' = [todo EXCEPT ![c] = @ \ {q}]
             /\ Visit(c, [Blank EXCEPT !.queue = q])
             /\ faults' = faults \/ CallFails("ensure", q)
             /\ \/ Goto(c, "ensure") /\ Read(c)
                \/ Goto(c, "create") /\ UNCHANGED kube
      BY <2>2 DEF EnsureGet
    <3>2. q \in Queue
      BY DEF TypeOK
    <3>3. [Blank EXCEPT !.queue = q] \in Locals
      BY <3>2, BlankType DEF Locals
    <3>4. faults' \in 0 .. MaxFaults
      BY <3>1, CallFailsType DEF TypeOK
    <3>5. pc' \in [Controller -> PCs] /\ fresh' \subseteq Controller
          /\ deployed' = deployed /\ replicas' = replicas
      BY <3>1 DEF TypeOK, Goto, Read, PCs, kube
    <3>6. ev' \in [Controller -> Locals]
      <4> DEFINE b == [Blank EXCEPT !.queue = q]
      <4>1. ev' = [ev EXCEPT ![c] = b] /\ b \in Locals
        BY <3>1, <3>3 DEF Visit
      <4> HIDE DEF b
      <4>2. QED
        BY <4>1 DEF TypeOK
    <3>7. todo' \in [Controller -> SUBSET Queue]
      BY <3>1 DEF TypeOK
    <3>8. QED
      BY <2>2, <3>4, <3>5, <3>6, <3>7 DEF TypeOK, EnsureGet, ages
  <2>3. ASSUME NEW c \in Controller, EnsureWrite(c) PROVE TypeOK'
    <3> DEFINE q == ev[c].queue
    <3>1. q \in Queue
      BY DEF TypeOK, Locals
    <3>2. faults' \in 0 .. MaxFaults
      BY <2>3, CallFailsType DEF TypeOK, EnsureWrite
    <3>3. configs' \in [Controller -> SUBSET Queue]
      BY <2>3, <3>1 DEF TypeOK, EnsureWrite, EnsureFailed, Register
    <3>4. /\ deployed' \subseteq Queue /\ replicas' \in [Queue -> Nat]
          /\ fresh' \subseteq Controller
      BY <2>3, <3>1, CfgOfQueue DEF TypeOK, EnsureWrite, EnsureFailed, Write, NoWrite
    <3>5. pc' \in [Controller -> PCs] /\ ev' \in [Controller -> Locals]
      BY <2>3, BlankType DEF TypeOK, EnsureWrite, Leave, Goto, Visit, PCs
    <3>6. QED
      BY <2>3, <3>2, <3>3, <3>4, <3>5 DEF TypeOK, EnsureWrite, ages
  <2>4. ASSUME NEW c \in Controller, BootDone(c) PROVE TypeOK'
    BY <2>4 DEF TypeOK, BootDone, Goto, PCs, kube, ages
  <2>5. ASSUME NEW c \in Controller, BeginEvaluate(c) PROVE TypeOK'
    BY <2>5 DEF TypeOK, BeginEvaluate, Goto, PCs, kube, ages
  <2>6. ASSUME NEW c \in Controller, EndEvaluate(c) PROVE TypeOK'
    BY <2>6 DEF TypeOK, EndEvaluate, Goto, PCs, kube, ages
  <2>7. ASSUME NEW c \in Controller, GetStats(c) PROVE TypeOK'
    <3>1. PICK q \in todo[c] :
             /\ todo' = [todo EXCEPT ![c] = @ \ {q}]
             /\ \/ faults' = faults
                \/ CallFails("consumer", q)
                \/ CallFails("stats", q)
             /\ \/ UNCHANGED <<pc, ev, sinceBusy>>
                \/ \E n \in {0, work[q]} :
                     /\ Visit(c, [Blank EXCEPT !.queue = q, !.seen = n, !.truth = work[q]])
                     /\ Goto(c, "stats")
                     /\ sinceBusy' = IF n > 0 THEN [sinceBusy EXCEPT ![q] = 0] ELSE sinceBusy
      BY <2>7 DEF GetStats
    <3>2. q \in Queue
      BY DEF TypeOK
    <3>3. work[q] \in 0 .. MaxWork /\ 0 \in 0 .. MaxWork
      BY <3>2, BoundsAssumption DEF TypeOK
    <3>4. \A n \in {0, work[q]} :
             [Blank EXCEPT !.queue = q, !.seen = n, !.truth = work[q]] \in Locals
      BY <3>2, <3>3, BlankType DEF Locals
    <3>5. ev' \in [Controller -> Locals] /\ pc' \in [Controller -> PCs]
      BY <3>1, <3>4 DEF TypeOK, Visit, Goto, PCs
    <3>6. sinceBusy' \in [Queue -> Nat]
      BY <3>1 DEF TypeOK
    <3>7. faults' \in 0 .. MaxFaults
      BY <3>1, CallFailsType DEF TypeOK
    <3>8. todo' \in [Controller -> SUBSET Queue]
      BY <3>1 DEF TypeOK
    <3>9. QED
      BY <2>7, <3>5, <3>6, <3>7, <3>8 DEF TypeOK, GetStats, kube
  <2>8. ASSUME NEW c \in Controller, Decide(c) PROVE TypeOK'
    <3> DEFINE q == ev[c].queue
               d == CalculateDesired(Cfg[q], ev[c].seen, replicas[q])
    <3>1. /\ q \in Queue /\ ev[c] \in Locals
          /\ ev[c].seen \in Nat /\ replicas[q] \in Nat
      BY BoundsAssumption DEF TypeOK, Locals
    <3>2. d \in Nat
      BY <3>1, CfgOfQueue, DesiredBounds
    <3>3. Decided(c, replicas[q], d) \in Locals
      BY <3>1, <3>2 DEF Decided, Locals
    <3>4. ActivityAge(c, q) \in Nat
      BY <3>1 DEF TypeOK, ActivityAge
    <3>5. \/ Goto(c, "scale") /\ Visit(c, Decided(c, replicas[q], d))
          \/ Leave(c, "loop")
      BY <2>8 DEF Decide, GetCurrentReplicas
    <3>6. \/ lastActivity' = [lastActivity EXCEPT ![c][q] = ActivityAge(c, q)]
          \/ lastActivity' = lastActivity
      BY <2>8 DEF Decide, GetCurrentReplicas
    <3>7. PICK e \in Locals, label \in PCs : Goto(c, label) /\ Visit(c, e)
      BY <3>3, <3>5, BlankType DEF Leave, PCs
    <3>8. ev' \in [Controller -> Locals] /\ pc' \in [Controller -> PCs]
      BY <3>7 DEF TypeOK, Goto, Visit
    <3>9. lastActivity' \in [Controller -> [Queue -> Nat]]
      <4>1. PICK age \in Nat : \/ lastActivity' = [lastActivity EXCEPT ![c][q] = age]
                               \/ lastActivity' = lastActivity
        BY <3>4, <3>6
      <4>2. lastActivity[c] \in [Queue -> Nat]
        BY DEF TypeOK
      <4>3. [lastActivity[c] EXCEPT ![q] = age] \in [Queue -> Nat]
        BY <4>2, <3>1
      <4>4. QED
        BY <4>1, <4>3 DEF TypeOK
    <3>10. faults' \in 0 .. MaxFaults
      BY <2>8, CallFailsType DEF TypeOK, Decide
    <3>11. QED
      BY <2>8, <3>8, <3>9, <3>10 DEF TypeOK, Decide, kube
  <2>9. ASSUME NEW c \in Controller, GetScale(c) PROVE TypeOK'
    <3>1. ev' \in [Controller -> Locals] /\ pc' \in [Controller -> PCs]
      BY <2>9, BlankType DEF TypeOK, GetScale, Leave, Goto, Visit, PCs
    <3>2. faults' \in 0 .. MaxFaults
      BY <2>9, CallFailsType DEF TypeOK, GetScale
    <3>3. QED
      BY <2>9, <3>1, <3>2 DEF TypeOK, GetScale, Read, kube, ages
  <2>10. ASSUME NEW c \in Controller, UpdateScale(c) PROVE TypeOK'
    <3>1. ev[c].queue \in Queue /\ ev[c].desired \in Nat
      BY DEF TypeOK, Locals
    <3>2. ev' \in [Controller -> Locals] /\ pc' \in [Controller -> PCs]
      BY <2>10, BlankType DEF TypeOK, UpdateScale, Leave, Goto, Visit, PCs
    <3>3. faults' \in 0 .. MaxFaults
      BY <2>10, CallFailsType DEF TypeOK, UpdateScale
    <3>4. /\ Write(ev[c].queue, ev[c].desired) \/ NoWrite(c)
          /\ \/ sinceScale' = [sinceScale EXCEPT ![ev[c].queue] = 0]
             \/ sinceScale' = sinceScale
      BY <2>10 DEF UpdateScale
    <3>5. /\ deployed' \subseteq Queue /\ replicas' \in [Queue -> Nat]
          /\ fresh' \subseteq Controller
      BY <3>1, <3>4 DEF TypeOK, Write, NoWrite
    <3>6. sinceScale' \in [Queue -> Nat]
      BY <3>1, <3>4 DEF TypeOK
    <3>7. QED
      BY <2>10, <3>2, <3>3, <3>5, <3>6 DEF TypeOK, UpdateScale
  <2>11. ASSUME NEW c \in Controller, RecordScale(c) PROVE TypeOK'
    <3>1. ev' \in [Controller -> Locals] /\ pc' \in [Controller -> PCs]
      BY <2>11, BlankType DEF TypeOK, RecordScale, Leave, Goto, Visit, PCs
    <3>2. lastScaleTime' \in [Controller -> [Queue -> Nat]]
      BY <2>11 DEF TypeOK, RecordScale
    <3>3. QED
      BY <2>11, <3>1, <3>2 DEF TypeOK, RecordScale, kube
  <2>12. ASSUME NEW c \in Controller, Stop(c) PROVE TypeOK'
    BY <2>12, BoundsAssumption DEF TypeOK, Stop, kube, ages
  <2>13. ASSUME NEW c \in Controller, ExitLoop(c) PROVE TypeOK'
    BY <2>13, DieType DEF TypeOK, ExitLoop
  <2>14. ASSUME NEW c \in Controller, Crash(c) PROVE TypeOK'
    <3>1. crashes' \in 0 .. MaxCrashes
      BY <2>14, BoundsAssumption DEF TypeOK, Crash
    <3>2. QED
      BY <2>14, <3>1, DieType DEF Crash
  <2>15. ASSUME NEW q \in Queue, WorkChanges(q) PROVE TypeOK'
    BY <2>15 DEF TypeOK, WorkChanges, kube, ages, local
  <2>16. ASSUME Tick PROVE TypeOK'
    <3>1. /\ lastScaleTime' \in [Controller -> [Queue -> Nat]]
          /\ lastActivity' \in [Controller -> [Queue -> Nat]]
          /\ sinceScale' \in [Queue -> Nat] /\ sinceBusy' \in [Queue -> Nat]
      BY <2>16, CfgOfQueue, OlderType DEF TypeOK, Tick
    <3>2. QED
      BY <2>16, <3>1 DEF TypeOK, Tick, kube, local
  <2>17. CASE UNCHANGED vars
    BY <2>17 DEF TypeOK, vars, kube, ages, local
  <2>18. QED
    BY <2>1, <2>2, <2>3, <2>4, <2>5, <2>6, <2>7, <2>8, <2>9, <2>10, <2>11,
       <2>12, <2>13, <2>14, <2>15, <2>16, <2>17 DEF Next, Run
<1>3. QED
  BY <1>1, <1>2, PTL DEF Spec

-----------------------------------------------------------------------------
(* Bounds.  ReplicasInBounds is not inductive: Scale writes a number that   *)
(* was decided on earlier, of a pool that may have changed since.  That     *)
(* number lies in the bounds because the pool it was taken of did.          *)

Bounds == ReplicasInBounds /\ DecisionsInBounds

Bounded(q, n) == n \in Cfg[q].Min .. Cfg[q].Max

LEMMA DecisionBounded ==
    ASSUME NEW q \in Queue, NEW w \in Nat, NEW n \in Nat, Bounded(q, n)
    PROVE  Bounded(q, CalculateDesired(Cfg[q], w, n))
<1> DEFINE d == CalculateDesired(Cfg[q], w, n)
<1>1. d \in Nat /\ d >= Cfg[q].Min /\ d <= AtLeast(Cfg[q].Max, n)
  BY CfgOfQueue, DesiredBounds
<1>2. Cfg[q].Min \in Nat /\ Cfg[q].Max \in Nat
  BY CfgOfQueue
<1> HIDE DEF d
<1>3. QED
  BY <1>1, <1>2 DEF Bounded, AtLeast, d

\* A visit that moves on without a write keeps the pools as they are.
LEMMA QuietStep ==
    ASSUME TypeOK, Bounds, NEW c \in Controller,
           UNCHANGED <<deployed, replicas>>,
           NEW label \in PCs \ {"scale", "update"}, NEW e,
           Goto(c, label), Visit(c, e) \/ UNCHANGED ev
    PROVE  Bounds'
<1>1. ReplicasInBounds'
  BY DEF Bounds, ReplicasInBounds
<1>2. ASSUME NEW d \in Controller, pc'[d] \in {"scale", "update"}
      PROVE  ev'[d].desired \in Cfg[ev'[d].queue].Min .. Cfg[ev'[d].queue].Max
  <2>1. d # c /\ pc[d] = pc'[d] /\ ev[d] = ev'[d]
    BY <1>2 DEF Goto, Visit, TypeOK
  <2>2. QED
    BY <1>2, <2>1 DEF Bounds, DecisionsInBounds
<1>3. QED
  BY <1>1, <1>2 DEF Bounds, DecisionsInBounds

\* A write of a size in the bounds, after which the visit moves on.
LEMMA WriteStep ==
    ASSUME TypeOK, Bounds, NEW c \in Controller,
           NEW q \in Queue, NEW n, Bounded(q, n), Write(q, n),
           NEW label \in PCs \ {"scale", "update"}, NEW e,
           Goto(c, label), Visit(c, e) \/ UNCHANGED ev
    PROVE  Bounds'
<1>1. ReplicasInBounds'
  BY DEF Bounds, ReplicasInBounds, Write, Bounded, TypeOK
<1>2. ASSUME NEW d \in Controller, pc'[d] \in {"scale", "update"}
      PROVE  ev'[d].desired \in Cfg[ev'[d].queue].Min .. Cfg[ev'[d].queue].Max
  <2>1. d # c /\ pc[d] = pc'[d] /\ ev[d] = ev'[d]
    BY <1>2 DEF Goto, Visit, TypeOK
  <2>2. QED
    BY <1>2, <2>1 DEF Bounds, DecisionsInBounds
<1>3. QED
  BY <1>1, <1>2 DEF Bounds, DecisionsInBounds

(* Every Deployment keeps between replicas.min and replicas.max workers,    *)
(* for any number of controllers, whatever fails, crashes or goes stale.    *)
THEOREM AutoscalerBounds == Spec => [](ReplicasInBounds /\ DecisionsInBounds)
<1>1. Init => Bounds
  BY DEF Init, Bounds, ReplicasInBounds, DecisionsInBounds
<1>2. TypeOK /\ Bounds /\ [Next]_vars => Bounds'
  <2> SUFFICES ASSUME TypeOK, Bounds, [Next]_vars PROVE Bounds'
    OBVIOUS
  <2>1. ASSUME NEW c \in Controller, Start(c) PROVE Bounds'
    BY <2>1, QuietStep DEF Start, kube, PCs
  <2>2. ASSUME NEW c \in Controller, EnsureGet(c) PROVE Bounds'
    <3>1. UNCHANGED <<deployed, replicas>>
      BY <2>2 DEF EnsureGet, Read, kube
    <3>2. Goto(c, "ensure") \/ Goto(c, "create")
      BY <2>2 DEF EnsureGet
    <3>3. \E e : Visit(c, e)
      BY <2>2, Zenon DEF EnsureGet
    <3>4. QED
      BY <3>1, <3>2, <3>3, QuietStep DEF PCs
  <2>3. ASSUME NEW c \in Controller, EnsureWrite(c) PROVE Bounds'
    <3> DEFINE q == ev[c].queue
    <3>1. q \in Queue /\ Bounded(q, Cfg[q].Min)
      BY CfgOfQueue DEF TypeOK, Locals, Bounded
    <3>2. Goto(c, "boot") /\ Visit(c, Blank)
      BY <2>3 DEF EnsureWrite, Leave
    <3>3. Write(q, Cfg[q].Min) \/ UNCHANGED <<deployed, replicas>>
      BY <2>3 DEF EnsureWrite, EnsureFailed, NoWrite
    <3>4. QED
      BY <3>1, <3>2, <3>3, QuietStep, WriteStep DEF PCs
  <2>4. ASSUME NEW c \in Controller, BootDone(c) PROVE Bounds'
    BY <2>4, QuietStep DEF BootDone, kube, PCs
  <2>5. ASSUME NEW c \in Controller, BeginEvaluate(c) PROVE Bounds'
    BY <2>5, QuietStep DEF BeginEvaluate, kube, PCs
  <2>6. ASSUME NEW c \in Controller, EndEvaluate(c) PROVE Bounds'
    BY <2>6, QuietStep DEF EndEvaluate, kube, PCs
  <2>7. ASSUME NEW c \in Controller, GetStats(c) PROVE Bounds'
    <3>1. \/ UNCHANGED <<pc, ev>>
          \/ Goto(c, "stats") /\ \E e : Visit(c, e)
      BY <2>7 DEF GetStats
    <3>2. UNCHANGED <<deployed, replicas>>
      BY <2>7 DEF GetStats, kube
    <3>3. QED
      BY <3>1, <3>2, QuietStep
      DEF PCs, Bounds, ReplicasInBounds, DecisionsInBounds
  <2>8. ASSUME NEW c \in Controller, Decide(c) PROVE Bounds'
    <3> DEFINE q == ev[c].queue
               d == CalculateDesired(Cfg[q], ev[c].seen, replicas[q])
    <3>1. UNCHANGED <<deployed, replicas>>
      BY <2>8 DEF Decide, kube
    <3>2. CASE Leave(c, "loop")
      BY <3>1, <3>2, QuietStep DEF Leave, PCs
    <3>3. CASE ~Leave(c, "loop")
      <4>1. q \in deployed
        BY <2>8, <3>3 DEF Decide, GetCurrentReplicas
      <4>2. Goto(c, "scale") /\ Visit(c, Decided(c, replicas[q], d))
        BY <2>8, <3>3 DEF Decide, GetCurrentReplicas
      <4>3. ev[c] \in Locals /\ q \in Queue /\ ev[c].seen \in Nat /\ replicas[q] \in Nat
        BY BoundsAssumption DEF TypeOK, Locals
      <4>4. Bounded(q, replicas[q])
        BY <4>1 DEF Bounds, ReplicasInBounds, Bounded
      <4>5. Bounded(q, d)
        BY <4>3, <4>4, DecisionBounded
      <4> HIDE DEF d
      <4>6. /\ Decided(c, replicas[q], d).queue = q
            /\ Decided(c, replicas[q], d).desired = d
        BY <4>3 DEF Decided, Locals
      <4>7. ReplicasInBounds'
        BY <3>1 DEF Bounds, ReplicasInBounds
      <4>8. ASSUME NEW f \in Controller, pc'[f] \in {"scale", "update"}
            PROVE  ev'[f].desired \in Cfg[ev'[f].queue].Min .. Cfg[ev'[f].queue].Max
        <5>1. CASE f = c
          <6>1. ev'[f] = Decided(c, replicas[q], d)
            BY <4>2, <5>1 DEF Visit, TypeOK
          <6>2. QED
            BY <6>1, <4>5, <4>6 DEF Bounded
        <5>2. CASE f # c
          <6>1. pc[f] = pc'[f] /\ ev[f] = ev'[f]
            BY <4>2, <5>2 DEF Goto, Visit, TypeOK
          <6>2. QED
            BY <4>8, <6>1 DEF Bounds, DecisionsInBounds
        <5>3. QED
          BY <5>1, <5>2
      <4>9. QED
        BY <4>7, <4>8 DEF Bounds, DecisionsInBounds
    <3>4. QED
      BY <3>2, <3>3
  <2>9. ASSUME NEW c \in Controller, GetScale(c) PROVE Bounds'
    <3>1. UNCHANGED <<deployed, replicas>>
      BY <2>9 DEF GetScale, Read, kube
    <3>2. CASE Leave(c, "loop")
      BY <3>1, <3>2, QuietStep DEF Leave, PCs
    <3>3. CASE Goto(c, "update") /\ UNCHANGED ev
      <4>1. pc[c] = "scale"
        BY <2>9 DEF GetScale
      <4>2. DecisionsInBounds'
        BY <3>3, <4>1 DEF Bounds, DecisionsInBounds, Goto, TypeOK
      <4>3. QED
        BY <3>1, <4>2 DEF Bounds, ReplicasInBounds
    <3>4. QED
      BY <2>9, <3>2, <3>3 DEF GetScale
  <2>10. ASSUME NEW c \in Controller, UpdateScale(c) PROVE Bounds'
    <3> DEFINE q == ev[c].queue
    <3>1. q \in Queue /\ Bounded(q, ev[c].desired)
      BY <2>10 DEF TypeOK, Locals, UpdateScale, Bounds, DecisionsInBounds, Bounded
    <3>2. Write(q, ev[c].desired) \/ UNCHANGED <<deployed, replicas>>
      BY <2>10 DEF UpdateScale, NoWrite
    <3>3. \/ Goto(c, "record") /\ UNCHANGED ev
          \/ Goto(c, "loop") /\ Visit(c, Blank)
      BY <2>10 DEF UpdateScale, Leave
    <3>4. QED
      BY <3>1, <3>2, <3>3, QuietStep, WriteStep DEF PCs
  <2>11. ASSUME NEW c \in Controller, RecordScale(c) PROVE Bounds'
    BY <2>11, QuietStep DEF RecordScale, Leave, kube, PCs
  <2>12. ASSUME NEW c \in Controller, ExitLoop(c) \/ Crash(c) PROVE Bounds'
    BY <2>12, QuietStep DEF ExitLoop, Crash, Die, Leave, NoWrite, PCs
  <2>13. CASE \/ \E c \in Controller : Stop(c)
              \/ \E q \in Queue : WorkChanges(q)
              \/ Tick
              \/ UNCHANGED vars
    <3>1. UNCHANGED <<deployed, replicas, pc, ev>>
      BY <2>13 DEF Stop, WorkChanges, Tick, kube, local, vars
    <3>2. QED
      BY <3>1 DEF Bounds, ReplicasInBounds, DecisionsInBounds
  <2>14. QED
    BY <2>1, <2>2, <2>3, <2>4, <2>5, <2>6, <2>7, <2>8, <2>9, <2>10, <2>11,
       <2>12, <2>13 DEF Next, Run
<1>3. QED
  BY <1>1, <1>2, AutoscalerTypeOK, PTL DEF Spec, Bounds

(* A decision on its way to Kubernetes lies in the bounds, however old the  *)
(* count it was made of.                                                    *)
THEOREM AutoscalerDecisions == Spec => []DecisionsInBounds
BY AutoscalerBounds, PTL

-----------------------------------------------------------------------------
(* One controller.  What follows holds of a deployment that runs one        *)
(* replica of the controller (deploy/minimal/controller.yaml) and never two *)
(* side by side; with two of them none of it does.                          *)

OneController == \A c, d \in Controller : c = d

\* What a decision on its way to Kubernetes still holds true.
Due(c) ==
    LET q == ev[c].queue
        n == replicas[q]
    IN
    /\ q \in deployed
    /\ ev[c].desired = CalculateDesired(Cfg[q], ev[c].seen, n)
    /\ ev[c].desired # n
    /\ lastScaleTime[c][q] >= EffectiveCooldown(Cfg[q], ev[c].desired < n)
    /\ lastActivity[c][q] >= RecentWindow(Cfg[q], ev[c].desired < n)

DecisionsDue == \A c \in Controller : pc[c] \in {"scale", "update"} => Due(c)

\* Time only makes an age meet a guard that lies within its horizon.
LEMMA CooldownWithin ==
    ASSUME NEW q \in Queue, NEW d \in Nat, NEW n \in Nat
    PROVE  /\ EffectiveCooldown(Cfg[q], d < n) \in Nat
           /\ EffectiveCooldown(Cfg[q], d < n) <= ScaleHorizon(Cfg[q])
           /\ RecentWindow(Cfg[q], d < n) \in Nat
           /\ RecentWindow(Cfg[q], d < n) <= ActivityHorizon(Cfg[q])
<1>1. Cfg[q] \in Config
  BY CfgOfQueue
<1> QED
  BY <1>1, ConfigFields
  DEF EffectiveCooldown, RecentWindow, ScaleHorizon, ActivityHorizon

LEMMA OlderKeeps ==
    ASSUME NEW age \in Nat, NEW horizon \in Nat, NEW least \in Nat,
           least <= horizon, age >= least
    PROVE  Older(age, horizon) >= least
BY DEF Older, AtMost

LEMMA OlderMonotone ==
    ASSUME NEW age \in Nat, NEW other \in Nat, NEW horizon \in Nat, age <= other
    PROVE  Older(age, horizon) <= Older(other, horizon)
BY DEF Older, AtMost

\* A step of the only controller that leaves pools and ages alone and ends
\* where no decision is under way.
LEMMA DueRest ==
    ASSUME TypeOK, OneController, NEW c \in Controller,
           pc'[c] \notin {"scale", "update"}
    PROVE  DecisionsDue'
BY DEF OneController, DecisionsDue

LEMMA DueSame ==
    ASSUME DecisionsDue, UNCHANGED <<deployed, replicas, ev, lastScaleTime, lastActivity>>,
           \A c \in Controller :
               pc'[c] \in {"scale", "update"} => pc[c] \in {"scale", "update"}
    PROVE  DecisionsDue'
BY DEF DecisionsDue, Due

LEMMA DueDecided ==
    ASSUME TypeOK, OneController, NEW c \in Controller, Decide(c)
    PROVE  DecisionsDue'
<1>1. PICK q \in Queue : q = ev[c].queue
  BY DEF TypeOK, Locals
<1>2. PICK d : d = CalculateDesired(Cfg[q], ev[c].seen, replicas[q])
  OBVIOUS
<1>3. CASE Leave(c, "loop")
  <2>1. pc'[c] = "loop"
    BY <1>3 DEF Leave, Goto, TypeOK
  <2> QED
    BY <2>1, DueRest
<1>4. CASE ~Leave(c, "loop")
  <2>1. /\ q \in deployed
        /\ lastActivity' = [lastActivity EXCEPT ![c][q] = ActivityAge(c, q)]
        /\ MayScale(c, q, replicas[q], d)
        /\ Visit(c, Decided(c, replicas[q], d))
        /\ Goto(c, "scale")
        /\ UNCHANGED <<deployed, replicas, lastScaleTime>>
    BY <1>1, <1>2, <1>4 DEF Decide, GetCurrentReplicas, kube
  <2>2. ev'[c] = Decided(c, replicas[q], d)
    BY <2>1 DEF Visit, TypeOK
  <2>3. ev'[c].queue = q /\ ev'[c].seen = ev[c].seen /\ ev'[c].desired = d
    BY <1>1, <2>2 DEF Decided, TypeOK, Locals
  <2>4. lastActivity'[c][q] = ActivityAge(c, q)
    BY <2>1 DEF TypeOK
  <2>5. Due(c)'
    BY <1>2, <2>1, <2>3, <2>4 DEF Due, MayScale
  <2> QED
    BY <2>5 DEF OneController, DecisionsDue
<1> QED
  BY <1>3, <1>4

LEMMA DueTick == ASSUME TypeOK, DecisionsDue, Tick PROVE DecisionsDue'
<1> SUFFICES ASSUME NEW c \in Controller, pc'[c] \in {"scale", "update"} PROVE Due(c)'
  BY DEF DecisionsDue
<1>1. UNCHANGED <<deployed, replicas, pc, ev>>
  BY DEF Tick, kube, local
<1>2. PICK q \in Queue : q = ev[c].queue
  BY DEF TypeOK, Locals
<1>3. PICK d \in Nat, n \in Nat : d = ev[c].desired /\ n = replicas[q]
  BY <1>2 DEF TypeOK, Locals
<1>4. Due(c)
  BY <1>1 DEF DecisionsDue
<1>5. /\ lastScaleTime[c][q] \in Nat /\ lastActivity[c][q] \in Nat
      /\ lastScaleTime[c][q] >= EffectiveCooldown(Cfg[q], d < n)
      /\ lastActivity[c][q] >= RecentWindow(Cfg[q], d < n)
  BY <1>2, <1>3, <1>4 DEF Due, TypeOK
<1>6. /\ lastScaleTime'[c][q] = Older(lastScaleTime[c][q], ScaleHorizon(Cfg[q]))
      /\ lastActivity'[c][q] = Older(lastActivity[c][q], ActivityHorizon(Cfg[q]))
  BY DEF Tick
<1>7. PICK e \in Nat, r \in Nat :
         /\ e = EffectiveCooldown(Cfg[q], d < n) /\ e <= ScaleHorizon(Cfg[q])
         /\ r = RecentWindow(Cfg[q], d < n) /\ r <= ActivityHorizon(Cfg[q])
  BY CooldownWithin
<1>8. lastScaleTime'[c][q] >= e /\ lastActivity'[c][q] >= r
  BY <1>5, <1>6, <1>7, CfgOfQueue, OlderKeeps
<1> QED
  BY <1>1, <1>2, <1>3, <1>4, <1>7, <1>8 DEF Due

LEMMA DueInvariant == ASSUME OneController PROVE Spec => [](TypeOK /\ DecisionsDue)
<1>1. Init => DecisionsDue
  BY DEF Init, DecisionsDue
<1>2. TypeOK /\ DecisionsDue /\ [Next]_vars => DecisionsDue'
  <2> SUFFICES ASSUME TypeOK, DecisionsDue, [Next]_vars PROVE DecisionsDue'
    OBVIOUS
  <2>1. ASSUME NEW c \in Controller,
               \/ Start(c) \/ EnsureGet(c) \/ EnsureWrite(c) \/ BootDone(c)
               \/ BeginEvaluate(c) \/ EndEvaluate(c) \/ UpdateScale(c)
               \/ RecordScale(c) \/ ExitLoop(c) \/ Crash(c)
        PROVE  DecisionsDue'
    <3>1. pc'[c] \notin {"scale", "update"}
      BY <2>1 DEF TypeOK, Goto, Leave, Start, EnsureGet, EnsureWrite, BootDone,
           BeginEvaluate, EndEvaluate, UpdateScale, RecordScale, ExitLoop, Crash, Die
    <3> QED
      BY <3>1, DueRest
  <2>2. ASSUME NEW c \in Controller, GetStats(c) PROVE DecisionsDue'
    <3>1. pc'[c] \notin {"scale", "update"}
      BY <2>2 DEF TypeOK, Goto, GetStats
    <3> QED
      BY <3>1, DueRest
  <2>3. ASSUME NEW c \in Controller, Decide(c) PROVE DecisionsDue'
    BY <2>3, DueDecided
  <2>4. ASSUME NEW c \in Controller, GetScale(c) PROVE DecisionsDue'
    <3>1. CASE Leave(c, "loop")
      BY <3>1, DueRest DEF Leave, Goto, TypeOK
    <3>2. CASE Goto(c, "update") /\ Read(c) /\ UNCHANGED ev
      BY <2>4, <3>2, DueSame DEF GetScale, Goto, Read, ages, TypeOK
    <3> QED
      BY <2>4, <3>1, <3>2 DEF GetScale
  <2>5. CASE \/ \E c \in Controller : Stop(c)
             \/ \E q \in Queue : WorkChanges(q)
             \/ UNCHANGED vars
    BY <2>5, DueSame DEF Stop, WorkChanges, vars, kube, ages, local
  <2>6. CASE Tick
    BY <2>6, DueTick
  <2> QED
    BY <2>1, <2>2, <2>3, <2>4, <2>5, <2>6 DEF Next, Run
<1> QED
  BY <1>1, <1>2, AutoscalerTypeOK, PTL DEF Spec

-----------------------------------------------------------------------------
(* Cooldown.  The controller remembers the time of the reply, not that of   *)
(* the write, and it remembers it only once RecordScale has run.            *)

Remembers(c, q) ==
    \/ lastScaleTime[c][q] <= sinceScale[q]
    \/ pc[c] = "record" /\ ev[c].queue = q

ScaleRemembered == \A c \in Controller : \A q \in Queue : Remembers(c, q)

LEMMA RememberedSame ==
    ASSUME ScaleRemembered, UNCHANGED <<lastScaleTime, sinceScale>>,
           \A c \in Controller : pc[c] # "record" \/ UNCHANGED <<pc, ev>>
    PROVE  ScaleRemembered'
BY DEF ScaleRemembered, Remembers

LEMMA RememberedDie ==
    ASSUME TypeOK, OneController, NEW c \in Controller, Die(c)
    PROVE  ScaleRemembered'
<1> SUFFICES ASSUME NEW q \in Queue PROVE Remembers(c, q)'
  BY DEF OneController, ScaleRemembered
<1>1. /\ lastScaleTime' = [lastScaleTime EXCEPT ![c] = [p \in Queue |-> ScaleHorizon(Cfg[p])]]
      /\ sinceScale' = [p \in Queue |-> ScaleHorizon(Cfg[p])]
  BY DEF Die
<1>2. lastScaleTime'[c][q] = ScaleHorizon(Cfg[q]) /\ sinceScale'[q] = ScaleHorizon(Cfg[q])
  BY <1>1 DEF TypeOK
<1> QED
  BY <1>2, CfgOfQueue DEF Remembers

LEMMA RememberedWrite ==
    ASSUME TypeOK, OneController, "reply" \notin Faults, Broken = {},
           ScaleRemembered, NEW c \in Controller, UpdateScale(c)
    PROVE  ScaleRemembered'
<1>1. PICK q \in Queue : q = ev[c].queue
  BY DEF TypeOK, Locals
<1> SUFFICES ASSUME NEW p \in Queue PROVE Remembers(c, p)'
  BY DEF OneController, ScaleRemembered
<1>2. lastScaleTime' = lastScaleTime /\ pc[c] = "update" /\ Remembers(c, p)
  BY DEF UpdateScale, ScaleRemembered
<1>3. ~CallFails("reply", q)
  BY DEF CallFails
<1>4. CASE sinceScale' = [sinceScale EXCEPT ![q] = 0]
  <2>1. (Goto(c, "record") /\ UNCHANGED ev) \/ sinceScale' = sinceScale
    BY <1>1, <1>3 DEF UpdateScale
  <2> QED
    BY <1>1, <1>2, <1>4, <2>1 DEF Remembers, Goto, TypeOK
<1>5. CASE sinceScale' = sinceScale
  BY <1>2, <1>5 DEF Remembers
<1> QED
  BY <1>1, <1>4, <1>5 DEF UpdateScale

LEMMA RememberedRecord ==
    ASSUME TypeOK, OneController, ScaleRemembered, NEW c \in Controller, RecordScale(c)
    PROVE  ScaleRemembered'
<1>1. PICK q \in Queue : q = ev[c].queue
  BY DEF TypeOK, Locals
<1> SUFFICES ASSUME NEW p \in Queue PROVE Remembers(c, p)'
  BY DEF OneController, ScaleRemembered
<1>2. /\ lastScaleTime' = [lastScaleTime EXCEPT ![c][q] = 0]
      /\ sinceScale' = sinceScale /\ Remembers(c, p)
  BY <1>1 DEF RecordScale, ScaleRemembered
<1> QED
  BY <1>1, <1>2 DEF Remembers, TypeOK

LEMMA RememberedTick ==
    ASSUME TypeOK, ScaleRemembered, Tick
    PROVE  ScaleRemembered'
<1> SUFFICES ASSUME NEW c \in Controller, NEW q \in Queue PROVE Remembers(c, q)'
  BY DEF ScaleRemembered
<1>1. /\ lastScaleTime'[c][q] = Older(lastScaleTime[c][q], ScaleHorizon(Cfg[q]))
      /\ sinceScale'[q] = Older(sinceScale[q], ScaleHorizon(Cfg[q]))
      /\ UNCHANGED <<pc, ev>>
  BY DEF Tick, local
<1>2. /\ lastScaleTime[c][q] \in Nat /\ sinceScale[q] \in Nat
      /\ ScaleHorizon(Cfg[q]) \in Nat
  BY CfgOfQueue DEF TypeOK
<1>3. Remembers(c, q)
  BY DEF ScaleRemembered
<1> QED
  BY <1>1, <1>2, <1>3, OlderMonotone DEF Remembers

LEMMA RememberedInvariant ==
    ASSUME OneController, "reply" \notin Faults, Broken = {}
    PROVE  Spec => [](TypeOK /\ ScaleRemembered)
<1>1. Init => ScaleRemembered
  BY CfgOfQueue DEF Init, ScaleRemembered, Remembers
<1>2. TypeOK /\ ScaleRemembered /\ [Next]_vars => ScaleRemembered'
  <2> SUFFICES ASSUME TypeOK, ScaleRemembered, [Next]_vars PROVE ScaleRemembered'
    OBVIOUS
  <2>1. ASSUME NEW c \in Controller,
               \/ Start(c) \/ EnsureGet(c) \/ EnsureWrite(c) \/ BootDone(c)
               \/ BeginEvaluate(c) \/ EndEvaluate(c) \/ GetStats(c)
               \/ Decide(c) \/ GetScale(c)
        PROVE  ScaleRemembered'
    <3>1. UNCHANGED <<lastScaleTime, sinceScale>> /\ pc[c] # "record"
      BY <2>1 DEF Start, EnsureGet, EnsureWrite, BootDone, BeginEvaluate,
           EndEvaluate, GetStats, Decide, GetScale, ages
    <3> QED
      BY <3>1, RememberedSame DEF OneController
  <2>2. ASSUME NEW c \in Controller, UpdateScale(c) PROVE ScaleRemembered'
    BY <2>2, RememberedWrite
  <2>3. ASSUME NEW c \in Controller, RecordScale(c) PROVE ScaleRemembered'
    BY <2>3, RememberedRecord
  <2>4. ASSUME NEW c \in Controller, ExitLoop(c) \/ Crash(c) PROVE ScaleRemembered'
    BY <2>4, RememberedDie DEF ExitLoop, Crash
  <2>5. CASE \/ \E c \in Controller : Stop(c)
             \/ \E q \in Queue : WorkChanges(q)
             \/ UNCHANGED vars
    BY <2>5, RememberedSame DEF Stop, WorkChanges, vars, ages, local
  <2>6. CASE Tick
    BY <2>6, RememberedTick
  <2> QED
    BY <2>1, <2>2, <2>3, <2>4, <2>5, <2>6 DEF Next, Run
<1> QED
  BY <1>1, <1>2, AutoscalerTypeOK, PTL DEF Spec

\* The only step that changes a pool while its controller is about to write.
LEMMA ScaledByUpdate ==
    ASSUME TypeOK, OneController, NEW c \in Controller, [Next]_vars, Scaled(c)
    PROVE  UpdateScale(c) /\ Write(ev[c].queue, ev[c].desired)
<1>1. pc[c] = "update" /\ replicas' # replicas
  BY DEF Scaled
<1>2. \A d \in Controller : pc[d] = "update"
  BY <1>1 DEF OneController
<1>3. ASSUME NEW d \in Controller,
             \/ Start(d) \/ EnsureGet(d) \/ EnsureWrite(d) \/ BootDone(d)
             \/ BeginEvaluate(d) \/ EndEvaluate(d) \/ GetStats(d)
             \/ Decide(d) \/ GetScale(d) \/ RecordScale(d) \/ Stop(d)
             \/ ExitLoop(d) \/ Crash(d)
      PROVE  FALSE
  BY <1>1, <1>2, <1>3
  DEF Start, EnsureGet, EnsureWrite, BootDone, BeginEvaluate, EndEvaluate,
      GetStats, Decide, GetScale, RecordScale, Stop, ExitLoop, Crash, Die,
      NoWrite, kube
<1>4. ~Tick /\ ~UNCHANGED vars /\ \A q \in Queue : ~WorkChanges(q)
  BY <1>1 DEF Tick, vars, WorkChanges, kube
<1>5. \E d \in Controller : UpdateScale(d)
  BY <1>3, <1>4 DEF Next, Run
<1>6. UpdateScale(c)
  BY <1>5 DEF OneController
<1> QED
  BY <1>1, <1>6 DEF UpdateScale, NoWrite

(* Between two writes that change the size of a pool the whole cooldown     *)
(* passes, although the controller remembers the time of the reply: for     *)
(* every number of queues, every configuration and any number of crashes    *)
(* and failing calls, as long as no accepted write reports an error and one *)
(* controller runs.                                                         *)
THEOREM AutoscalerCooldown ==
    ASSUME OneController, "reply" \notin Faults, Broken = {}
    PROVE  Spec => CooldownRespected
<1>1. TypeOK /\ DecisionsDue /\ ScaleRemembered /\ [Next]_vars =>
        [\A c \in Controller :
           Scaled(c) => sinceScale[ev[c].queue] >=
               EffectiveCooldown(Cfg[ev[c].queue], ScaledDown(c))]_vars
  <2> SUFFICES ASSUME TypeOK, DecisionsDue, ScaleRemembered, [Next]_vars,
                      NEW c \in Controller, Scaled(c)
               PROVE  sinceScale[ev[c].queue] >=
                        EffectiveCooldown(Cfg[ev[c].queue], ScaledDown(c))
    OBVIOUS
  <2>1. PICK q \in Queue : q = ev[c].queue
    BY DEF TypeOK, Locals
  <2>2. PICK d \in Nat, n \in Nat : d = ev[c].desired /\ n = replicas[q]
    BY <2>1 DEF TypeOK, Locals
  <2>3. pc[c] = "update" /\ replicas' = [replicas EXCEPT ![q] = d]
    BY <2>1, <2>2, ScaledByUpdate DEF Scaled, Write
  <2>4. ScaledDown(c) <=> d < n
    BY <2>1, <2>2, <2>3 DEF ScaledDown, TypeOK
  <2>5. EffectiveCooldown(Cfg[q], ScaledDown(c)) = EffectiveCooldown(Cfg[q], d < n)
    BY <2>4 DEF EffectiveCooldown
  <2>6. lastScaleTime[c][q] >= EffectiveCooldown(Cfg[q], d < n)
    BY <2>1, <2>2, <2>3 DEF DecisionsDue, Due
  <2>7. lastScaleTime[c][q] <= sinceScale[q]
    BY <2>3 DEF ScaleRemembered, Remembers
  <2>8. PICK e \in Nat : e = EffectiveCooldown(Cfg[q], d < n)
    BY CooldownWithin
  <2>9. sinceScale[q] >= e
    BY <2>6, <2>7, <2>8 DEF TypeOK
  <2> QED
    BY <2>1, <2>5, <2>8, <2>9
<1> QED
  BY <1>1, DueInvariant, RememberedInvariant, PTL DEF Spec, CooldownRespected

-----------------------------------------------------------------------------
(* Activity.  Work that GetStats found is remembered by the next step of    *)
(* the same visit; until a queue has its Deployment nothing is remembered   *)
(* of it, and nothing can be scaled down.                                   *)

Noticed(c, q) == lastActivity[c][q] <= sinceBusy[q]

ActivityNoticed ==
    \A c \in Controller : \A q \in Queue :
        \/ Noticed(c, q)
        \/ /\ pc[c] \notin {"down", "boot", "create", "ensure"}
           /\ q \notin deployed
        \/ pc[c] = "stats" /\ ev[c].queue = q /\ ev[c].seen > 0

LEMMA NoticedSame ==
    ASSUME TypeOK, OneController, ActivityNoticed, NEW c \in Controller,
           UNCHANGED <<deployed, lastActivity, sinceBusy>>,
           pc[c] # "stats",
           \/ pc'[c] \notin {"down", "boot", "create", "ensure"}
           \/ pc[c] \in {"down", "boot", "create", "ensure"}
    PROVE  ActivityNoticed'
BY DEF OneController, ActivityNoticed, Noticed

LEMMA NoticedDie ==
    ASSUME TypeOK, OneController, NEW c \in Controller, Die(c)
    PROVE  ActivityNoticed'
<1> SUFFICES ASSUME NEW q \in Queue PROVE Noticed(c, q)'
  BY DEF OneController, ActivityNoticed
<1>1. /\ lastActivity' = [lastActivity EXCEPT ![c] = [p \in Queue |-> ActivityHorizon(Cfg[p])]]
      /\ sinceBusy' = [p \in Queue |-> ActivityHorizon(Cfg[p])]
  BY DEF Die
<1>2. lastActivity'[c][q] = ActivityHorizon(Cfg[q]) /\ sinceBusy'[q] = ActivityHorizon(Cfg[q])
  BY <1>1 DEF TypeOK
<1> QED
  BY <1>2, CfgOfQueue DEF Noticed

LEMMA NoticedDeploy ==
    ASSUME TypeOK, OneController, ActivityNoticed, NEW c \in Controller, EnsureWrite(c)
    PROVE  ActivityNoticed'
<1>1. pc[c] \in {"create", "ensure"} /\ UNCHANGED <<lastActivity, sinceBusy>>
  BY DEF EnsureWrite, ages
<1> QED
  BY <1>1 DEF OneController, ActivityNoticed, Noticed

LEMMA NoticedStats ==
    ASSUME TypeOK, OneController, ActivityNoticed, NEW c \in Controller, GetStats(c)
    PROVE  ActivityNoticed'
<1>1. /\ pc[c] = "loop" /\ pc'[c] \in {"loop", "stats"}
      /\ UNCHANGED <<deployed, lastActivity>>
  BY DEF GetStats, Goto, TypeOK, kube
<1> SUFFICES ASSUME NEW p \in Queue
             PROVE  \/ Noticed(c, p)' \/ p \notin deployed
                    \/ pc'[c] = "stats" /\ ev'[c].queue = p /\ ev'[c].seen > 0
  BY <1>1 DEF OneController, ActivityNoticed
<1>2. Noticed(c, p) \/ p \notin deployed
  BY <1>1 DEF ActivityNoticed
<1>3. CASE sinceBusy' = sinceBusy
  BY <1>1, <1>2, <1>3 DEF Noticed
<1>4. CASE sinceBusy' # sinceBusy
  <2>0. PICK q \in todo[c] : \E m \in {0, work[q]} :
           /\ Visit(c, [Blank EXCEPT !.queue = q, !.seen = m, !.truth = work[q]])
           /\ Goto(c, "stats")
           /\ sinceBusy' = IF m > 0 THEN [sinceBusy EXCEPT ![q] = 0] ELSE sinceBusy
    BY <1>4 DEF GetStats
  <2>1. PICK n \in {0, work[q]} :
           /\ Visit(c, [Blank EXCEPT !.queue = q, !.seen = n, !.truth = work[q]])
           /\ Goto(c, "stats")
           /\ sinceBusy' = IF n > 0 THEN [sinceBusy EXCEPT ![q] = 0] ELSE sinceBusy
    BY <2>0
  <2>2. n > 0 /\ sinceBusy' = [sinceBusy EXCEPT ![q] = 0]
    BY <1>4, <2>1
  <2>3. ev'[c] = [Blank EXCEPT !.queue = q, !.seen = n, !.truth = work[q]]
    BY <2>1 DEF Visit, TypeOK
  <2>4. ev'[c].queue = q /\ ev'[c].seen = n /\ pc'[c] = "stats"
    BY <2>1, <2>3, BlankType DEF Locals, Goto, TypeOK
  <2> QED
    BY <1>1, <1>2, <2>0, <2>2, <2>4 DEF Noticed, TypeOK
<1> QED
  BY <1>3, <1>4

LEMMA NoticedDecided ==
    ASSUME TypeOK, OneController, "replicas" \notin Faults, Broken = {},
           ActivityNoticed, NEW c \in Controller, Decide(c)
    PROVE  ActivityNoticed'
<1>1. PICK q \in Queue : q = ev[c].queue
  BY DEF TypeOK, Locals
<1>2. ~CallFails("replicas", q)
  BY DEF CallFails
<1>3. /\ pc'[c] \in {"loop", "scale"} /\ UNCHANGED <<deployed, sinceBusy>>
  BY DEF Decide, Goto, Leave, TypeOK, kube
<1> SUFFICES ASSUME NEW p \in Queue PROVE Noticed(c, p)' \/ p \notin deployed
  BY <1>3 DEF OneController, ActivityNoticed
<1>4. Noticed(c, p) \/ p \notin deployed \/ (p = q /\ ev[c].seen > 0)
  BY <1>1 DEF ActivityNoticed, Decide
<1>5. CASE q \in deployed
  <2>1. PICK age \in Nat : age = ActivityAge(c, q)
    BY DEF ActivityAge, TypeOK
  <2>2. lastActivity' = [lastActivity EXCEPT ![c][q] = age]
    BY <1>1, <1>2, <1>5, <2>1 DEF Decide
  <2>3. age = IF ev[c].seen > 0 THEN 0 ELSE lastActivity[c][q]
    BY <2>1 DEF ActivityAge
  <2> QED
    BY <1>3, <1>4, <2>2, <2>3 DEF Noticed, TypeOK
<1>6. CASE q \notin deployed
  <2>1. lastActivity' = lastActivity
    BY <1>1, <1>6 DEF Decide
  <2> QED
    BY <1>3, <1>4, <1>6, <2>1 DEF Noticed
<1> QED
  BY <1>5, <1>6

LEMMA NoticedTick ==
    ASSUME TypeOK, ActivityNoticed, Tick
    PROVE  ActivityNoticed'
<1>1. UNCHANGED <<deployed, pc, ev>>
  BY DEF Tick, kube, local
<1>2. ASSUME NEW c \in Controller, NEW q \in Queue, Noticed(c, q)
      PROVE  Noticed(c, q)'
  <2>1. /\ lastActivity'[c][q] = Older(lastActivity[c][q], ActivityHorizon(Cfg[q]))
        /\ sinceBusy'[q] = Older(sinceBusy[q], ActivityHorizon(Cfg[q]))
    BY DEF Tick
  <2>2. /\ lastActivity[c][q] \in Nat /\ sinceBusy[q] \in Nat
        /\ ActivityHorizon(Cfg[q]) \in Nat
    BY CfgOfQueue DEF TypeOK
  <2> QED
    BY <1>2, <2>1, <2>2, OlderMonotone DEF Noticed
<1> QED
  BY <1>1, <1>2 DEF ActivityNoticed

LEMMA NoticedInvariant ==
    ASSUME OneController, "replicas" \notin Faults, Broken = {}
    PROVE  Spec => [](TypeOK /\ ActivityNoticed)
<1>1. Init => ActivityNoticed
  BY CfgOfQueue DEF Init, ActivityNoticed, Noticed
<1>2. TypeOK /\ DecisionsDue /\ ActivityNoticed /\ [Next]_vars => ActivityNoticed'
  <2> SUFFICES ASSUME TypeOK, DecisionsDue, ActivityNoticed, [Next]_vars
               PROVE  ActivityNoticed'
    OBVIOUS
  <2>1. ASSUME NEW c \in Controller,
               \/ Start(c) \/ EnsureGet(c) \/ BootDone(c)
               \/ BeginEvaluate(c) \/ EndEvaluate(c) \/ GetScale(c)
               \/ UpdateScale(c) \/ RecordScale(c)
        PROVE  ActivityNoticed'
    <3>1. UNCHANGED <<lastActivity, sinceBusy>> /\ pc[c] # "stats"
      BY <2>1 DEF Start, EnsureGet, BootDone, BeginEvaluate, EndEvaluate,
           GetScale, UpdateScale, RecordScale, ages
    <3>2. ASSUME UpdateScale(c) PROVE UNCHANGED deployed
      BY <3>2 DEF UpdateScale, Write, NoWrite, DecisionsDue, Due
    <3>3. UNCHANGED deployed
      BY <2>1, <3>2 DEF Start, EnsureGet, BootDone, BeginEvaluate, EndEvaluate,
           GetScale, RecordScale, Read, kube
    <3>4. \/ pc'[c] \notin {"down", "boot", "create", "ensure"}
          \/ pc[c] \in {"down", "boot", "create", "ensure"}
      BY <2>1 DEF Start, EnsureGet, BootDone, BeginEvaluate, EndEvaluate,
           GetScale, UpdateScale, RecordScale, Goto, Leave, TypeOK
    <3> QED
      BY <3>1, <3>3, <3>4, NoticedSame
  <2>2. ASSUME NEW c \in Controller, EnsureWrite(c) PROVE ActivityNoticed'
    BY <2>2, NoticedDeploy
  <2>3. ASSUME NEW c \in Controller, GetStats(c) PROVE ActivityNoticed'
    BY <2>3, NoticedStats
  <2>4. ASSUME NEW c \in Controller, Decide(c) PROVE ActivityNoticed'
    BY <2>4, NoticedDecided
  <2>5. ASSUME NEW c \in Controller, ExitLoop(c) \/ Crash(c) PROVE ActivityNoticed'
    BY <2>5, NoticedDie DEF ExitLoop, Crash
  <2>6. CASE \/ \E c \in Controller : Stop(c)
             \/ \E q \in Queue : WorkChanges(q)
             \/ UNCHANGED vars
    BY <2>6 DEF Stop, WorkChanges, vars, kube, ages, local, ActivityNoticed, Noticed
  <2>7. CASE Tick
    BY <2>7, NoticedTick
  <2> QED
    BY <2>1, <2>2, <2>3, <2>4, <2>5, <2>6, <2>7 DEF Next, Run
<1> QED
  BY <1>1, <1>2, DueInvariant, PTL DEF Spec

(* A queue whose workers are costly to start loses none of them within      *)
(* twice that cost of the last work found in it: for every number of        *)
(* queues, any crashes and any failing calls but that of                    *)
(* GetCurrentReplicas, whose failure makes evaluate forget the work it saw. *)
THEOREM AutoscalerActivity ==
    ASSUME OneController, "replicas" \notin Faults, Broken = {}
    PROVE  Spec => NoScaleDownAfterActivity
<1>1. TypeOK /\ DecisionsDue /\ ActivityNoticed /\ [Next]_vars =>
        [\A c \in Controller :
           ScaledDown(c) => sinceBusy[ev[c].queue] >=
               RecentWindow(Cfg[ev[c].queue], TRUE)]_vars
  <2> SUFFICES ASSUME TypeOK, DecisionsDue, ActivityNoticed, [Next]_vars,
                      NEW c \in Controller, ScaledDown(c)
               PROVE  sinceBusy[ev[c].queue] >= RecentWindow(Cfg[ev[c].queue], TRUE)
    OBVIOUS
  <2>1. PICK q \in Queue : q = ev[c].queue
    BY DEF TypeOK, Locals
  <2>2. PICK d \in Nat, n \in Nat : d = ev[c].desired /\ n = replicas[q]
    BY <2>1 DEF TypeOK, Locals
  <2>3. pc[c] = "update" /\ replicas' = [replicas EXCEPT ![q] = d]
    BY <2>1, <2>2, ScaledByUpdate DEF ScaledDown, Scaled, Write
  <2>4. d < n
    BY <2>1, <2>2, <2>3 DEF ScaledDown, TypeOK
  <2>5. q \in deployed /\ lastActivity[c][q] >= RecentWindow(Cfg[q], d < n)
    BY <2>1, <2>2, <2>3 DEF DecisionsDue, Due
  <2>6. RecentWindow(Cfg[q], TRUE) = RecentWindow(Cfg[q], d < n)
    BY <2>4 DEF RecentWindow
  <2>7. PICK r \in Nat : r = RecentWindow(Cfg[q], d < n)
    BY CooldownWithin
  <2>8. lastActivity[c][q] <= sinceBusy[q]
    BY <2>3, <2>5 DEF ActivityNoticed, Noticed
  <2>9. sinceBusy[q] >= r
    BY <2>5, <2>7, <2>8 DEF TypeOK
  <2> QED
    BY <2>1, <2>6, <2>7, <2>9
<1> QED
  BY <1>1, DueInvariant, NoticedInvariant, PTL DEF Spec, NoScaleDownAfterActivity

-----------------------------------------------------------------------------
(* Load.  What evaluate decides on is what GetStats counted, if the error   *)
(* of consumer.Info does not turn the count into 0.                         *)

CountsTrue ==
    \A c \in Controller :
        pc[c] \in {"stats", "scale", "update"} => ev[c].seen = ev[c].truth

LEMMA CountsTrueInvariant ==
    ASSUME "consumer" \notin Faults, Broken = {}
    PROVE  Spec => [](TypeOK /\ CountsTrue)
<1>1. Init => CountsTrue
  BY DEF Init, CountsTrue
<1>2. TypeOK /\ CountsTrue /\ [Next]_vars => CountsTrue'
  <2> SUFFICES ASSUME TypeOK, CountsTrue, [Next]_vars PROVE CountsTrue'
    OBVIOUS
  <2>1. ASSUME NEW c \in Controller, UNCHANGED ev,
               \A b \in Controller \ {c} : pc'[b] = pc[b],
               \/ pc'[c] \notin {"stats", "scale", "update"}
               \/ pc[c] \in {"stats", "scale", "update"}
        PROVE  CountsTrue'
    BY <2>1 DEF CountsTrue
  <2>2. ASSUME NEW c \in Controller, NEW label, Leave(c, label),
               label \notin {"stats", "scale", "update"}
        PROVE  CountsTrue'
    BY <2>2 DEF CountsTrue, Leave, Goto, Visit, TypeOK
  <2>3. ASSUME NEW c \in Controller, Start(c) \/ BootDone(c)
                                     \/ BeginEvaluate(c) \/ EndEvaluate(c)
        PROVE  CountsTrue'
    BY <2>1, <2>3 DEF Start, BootDone, BeginEvaluate, EndEvaluate, Goto, TypeOK
  <2>4. ASSUME NEW c \in Controller, EnsureGet(c) PROVE CountsTrue'
    <3>1. PICK e : Visit(c, e)
      BY <2>4, Zenon DEF EnsureGet
    <3>2. PICK label \in {"ensure", "create"} : Goto(c, label)
      BY <2>4 DEF EnsureGet
    <3> QED
      BY <3>1, <3>2 DEF CountsTrue, Goto, Visit, TypeOK
  <2>5. ASSUME NEW c \in Controller, EnsureWrite(c) PROVE CountsTrue'
    BY <2>2, <2>5 DEF EnsureWrite
  <2>6. ASSUME NEW c \in Controller, GetStats(c) PROVE CountsTrue'
    <3>1. \A q \in Queue : ~CallFails("consumer", q)
      BY DEF CallFails
    <3>2. PICK q \in Queue :
             \/ UNCHANGED <<pc, ev>>
             \/ /\ Visit(c, [Blank EXCEPT !.queue = q, !.seen = work[q], !.truth = work[q]])
                /\ Goto(c, "stats")
      BY <2>6, <3>1 DEF GetStats, TypeOK
    <3>3. CASE UNCHANGED <<pc, ev>>
      BY <3>3 DEF CountsTrue
    <3>4. CASE ~UNCHANGED <<pc, ev>>
      <4>1. ev' = [ev EXCEPT ![c] = [Blank EXCEPT !.queue = q, !.seen = work[q],
                                                  !.truth = work[q]]]
            /\ pc' = [pc EXCEPT ![c] = "stats"]
        BY <3>2, <3>4 DEF Visit, Goto
      <4>2. ev'[c] = [Blank EXCEPT !.queue = q, !.seen = work[q], !.truth = work[q]]
        BY <4>1 DEF TypeOK
      <4>3. ev'[c].seen = ev'[c].truth
        BY <4>2, BlankType DEF Locals
      <4> QED
        BY <4>1, <4>3 DEF CountsTrue, TypeOK
    <3> QED
      BY <3>3, <3>4
  <2>7. ASSUME NEW c \in Controller, Decide(c) PROVE CountsTrue'
    <3>1. PICK current, desired :
             \/ Leave(c, "loop")
             \/ Visit(c, Decided(c, current, desired)) /\ Goto(c, "scale")
      BY <2>7 DEF Decide
    <3>2. CASE ~Leave(c, "loop")
      <4>1. ev'[c] = Decided(c, current, desired)
        BY <3>1, <3>2 DEF Visit, TypeOK
      <4>2. ev'[c].seen = ev[c].seen /\ ev'[c].truth = ev[c].truth
        BY <4>1 DEF Decided, TypeOK, Locals
      <4>3. pc[c] = "stats"
        BY <2>7 DEF Decide
      <4> QED
        BY <3>1, <3>2, <4>2, <4>3 DEF CountsTrue, Goto, Visit, TypeOK
    <3> QED
      BY <2>2, <3>2
  <2>8. ASSUME NEW c \in Controller, GetScale(c) PROVE CountsTrue'
    <3>1. Leave(c, "loop") \/ (UNCHANGED ev /\ Goto(c, "update") /\ pc[c] = "scale")
      BY <2>8 DEF GetScale
    <3> QED
      BY <2>1, <2>2, <3>1 DEF Goto, TypeOK
  <2>9. ASSUME NEW c \in Controller, UpdateScale(c) PROVE CountsTrue'
    <3>1. Leave(c, "loop") \/ (UNCHANGED ev /\ Goto(c, "record"))
      BY <2>9 DEF UpdateScale
    <3> QED
      BY <2>1, <2>2, <3>1 DEF Goto, TypeOK
  <2>10. ASSUME NEW c \in Controller, RecordScale(c) PROVE CountsTrue'
    BY <2>2, <2>10 DEF RecordScale
  <2>11. ASSUME NEW c \in Controller, ExitLoop(c) \/ Crash(c) PROVE CountsTrue'
    BY <2>2, <2>11 DEF ExitLoop, Crash, Die
  <2>12. CASE \/ \E c \in Controller : Stop(c)
              \/ \E q \in Queue : WorkChanges(q)
              \/ Tick
              \/ UNCHANGED vars
    BY <2>12 DEF Stop, WorkChanges, Tick, vars, local, CountsTrue
  <2> QED
    BY <2>3, <2>4, <2>5, <2>6, <2>7, <2>8, <2>9, <2>10, <2>11, <2>12 DEF Next, Run
<1> QED
  BY <1>1, <1>2, AutoscalerTypeOK, PTL DEF Spec

(* A pool only loses workers when its queue really had too little work for  *)
(* the size the pool has at that moment, for every strategy, any number of  *)
(* queues, crashes and failing calls - but not if consumer.Info may fail,   *)
(* whose error GetStats drops.                                              *)
THEOREM AutoscalerLoad ==
    ASSUME OneController, "consumer" \notin Faults, Broken = {}
    PROVE  Spec => LoadedPoolKept
<1>1. TypeOK /\ Bounds /\ DecisionsDue /\ CountsTrue /\ [Next]_vars =>
        [\A c \in Controller :
           ScaledDown(c) => LET q == ev[c].queue
                            IN  Underloaded(Cfg[q], ev[c].truth, replicas[q])]_vars
  <2> SUFFICES ASSUME TypeOK, Bounds, DecisionsDue, CountsTrue, [Next]_vars,
                      NEW c \in Controller, ScaledDown(c)
               PROVE  Underloaded(Cfg[ev[c].queue], ev[c].truth, replicas[ev[c].queue])
    OBVIOUS
  <2>1. PICK q \in Queue : q = ev[c].queue
    BY DEF TypeOK, Locals
  <2>0. ev[c].desired \in Nat /\ replicas[q] \in Nat /\ ev[c].seen \in Nat
    BY <2>1, BoundsAssumption DEF TypeOK, Locals
  <2>2. PICK d \in Nat, n \in Nat, w \in Nat :
            d = ev[c].desired /\ n = replicas[q] /\ w = ev[c].seen
    BY <2>0
  <2>3. pc[c] = "update" /\ replicas' = [replicas EXCEPT ![q] = d]
    BY <2>1, <2>2, ScaledByUpdate DEF ScaledDown, Scaled, Write
  <2>4. d < n
    BY <2>1, <2>2, <2>3 DEF ScaledDown, TypeOK
  <2>5. q \in deployed /\ d = CalculateDesired(Cfg[q], w, n)
    BY <2>1, <2>2, <2>3 DEF DecisionsDue, Due
  <2>6. n \in 0 .. Cfg[q].Max
    BY <2>2, <2>5, CfgOfQueue DEF Bounds, ReplicasInBounds
  <2>7. Underloaded(Cfg[q], w, n)
    BY <2>4, <2>5, <2>6, CfgOfQueue, DesiredUnderloaded
  <2> QED
    BY <2>1, <2>2, <2>3, <2>7 DEF CountsTrue
<1> QED
  BY <1>1, DueInvariant, CountsTrueInvariant, AutoscalerBounds, PTL
  DEF Spec, LoadedPoolKept, Bounds

-----------------------------------------------------------------------------
(* Refinement.  The variables of ReplicaControl are those of the same name; *)
(* every step below changes them like one of its actions or not at all.     *)

\* An instance has operators of its own, equal to those of the same name.
LEMMA SameStrategy ==
    ASSUME NEW cfg, NEW w, NEW n
    PROVE  Control!CalculateDesired(cfg, w, n) = CalculateDesired(cfg, w, n)
<1>1. /\ \A k, low : Control!AtLeast(k, low) = AtLeast(k, low)
      /\ \A k, high : Control!AtMost(k, high) = AtMost(k, high)
      /\ \A a, b : Control!CeilDiv(a, b) = CeilDiv(a, b)
  BY DEF Control!AtLeast, AtLeast, Control!AtMost, AtMost, Control!CeilDiv, CeilDiv
<1>2. Control!Strategy(cfg, w, n) = Strategy(cfg, w, n)
  BY <1>1 DEF Control!Strategy, Strategy, Control!RateStrategy, RateStrategy,
     Control!ThresholdStrategy, ThresholdStrategy,
     Control!TargetPerWorkerStrategy, TargetPerWorkerStrategy
<1>3. \A k : Control!RaiseToIdleFloor(cfg, k) = RaiseToIdleFloor(cfg, k)
  BY <1>1 DEF Control!RaiseToIdleFloor, RaiseToIdleFloor, Control!IdleFloor, IdleFloor
<1>4. \A k : Control!Clamp(cfg, k) = Clamp(cfg, k)
  BY <1>1 DEF Control!Clamp, Clamp
<1>5. \A k : Control!LimitRate(cfg, k, n) = LimitRate(cfg, k, n)
  BY <1>1 DEF Control!LimitRate, LimitRate, Control!MaxRemove, MaxRemove
<1> QED
  BY <1>2, <1>3, <1>4, <1>5 DEF Control!CalculateDesired, CalculateDesired

LEMMA SameTimes ==
    ASSUME NEW cfg
    PROVE  /\ Control!ScaleHorizon(cfg) = ScaleHorizon(cfg)
           /\ \A age, horizon : Control!Older(age, horizon) = Older(age, horizon)
           /\ \A a, b : Control!EffectiveCooldown(cfg, a < b) = EffectiveCooldown(cfg, a < b)
BY DEF Control!ScaleHorizon, ScaleHorizon, Control!Older, Older, Control!AtMost, AtMost,
   Control!EffectiveCooldown, EffectiveCooldown

LEMMA DeployStep ==
    ASSUME TypeOK, NEW c \in Controller, EnsureWrite(c)
    PROVE  [Control!Next]_(Control!vars)
<1>1. PICK q \in Queue : q = ev[c].queue
  BY DEF TypeOK, Locals
<1>2. UNCHANGED sinceScale
  BY DEF EnsureWrite, ages
<1>3. Write(q, Cfg[q].Min) \/ NoWrite(c)
  BY <1>1 DEF EnsureWrite, EnsureFailed
<1>4. CASE Write(q, Cfg[q].Min)
  <2>1. Control!Deploy(q)
    BY <1>2, <1>4 DEF Write, Control!Deploy
  <2> QED
    BY <2>1 DEF Control!Next
<1>5. CASE NoWrite(c)
  BY <1>2, <1>5 DEF NoWrite, Control!vars
<1> QED
  BY <1>3, <1>4, <1>5

LEMMA RescaleStep ==
    ASSUME TypeOK, DecisionsDue, ScaleRemembered, NEW c \in Controller, UpdateScale(c)
    PROVE  [Control!Next]_(Control!vars)
<1>1. PICK q \in Queue : q = ev[c].queue
  BY DEF TypeOK, Locals
<1>2. \/ Write(q, ev[c].desired) /\ sinceScale' = [sinceScale EXCEPT ![q] = 0]
      \/ NoWrite(c) /\ UNCHANGED sinceScale
  BY <1>1 DEF UpdateScale
<1>3. CASE NoWrite(c) /\ UNCHANGED sinceScale
  BY <1>3 DEF NoWrite, Control!vars
<1>4. CASE Write(q, ev[c].desired) /\ sinceScale' = [sinceScale EXCEPT ![q] = 0]
  <2>1. ev[c].seen \in 0 .. MaxWork /\ ev[c].desired \in Nat /\ replicas[q] \in Nat
    BY <1>1 DEF TypeOK, Locals
  <2>2. PICK w \in 0 .. MaxWork, d \in Nat, n \in Nat :
            w = ev[c].seen /\ d = ev[c].desired /\ n = replicas[q]
    BY <2>1
  <2>3. pc[c] = "update" /\ Due(c)
    BY DEF UpdateScale, DecisionsDue
  <2>4. /\ q \in deployed /\ d = CalculateDesired(Cfg[q], w, n) /\ d # n
        /\ lastScaleTime[c][q] >= EffectiveCooldown(Cfg[q], d < n)
    BY <1>1, <2>2, <2>3 DEF Due
  <2>5. lastScaleTime[c][q] <= sinceScale[q]
    BY <2>3 DEF ScaleRemembered, Remembers
  <2>6. PICK e \in Nat : e = EffectiveCooldown(Cfg[q], d < n)
    BY CooldownWithin
  <2>7. sinceScale[q] >= EffectiveCooldown(Cfg[q], d < n)
    BY <2>4, <2>5, <2>6 DEF TypeOK
  <2>8. /\ replicas' = [replicas EXCEPT ![q] = d] /\ deployed' = deployed
    BY <1>4, <2>2, <2>4 DEF Write
  <2>9. /\ d = Control!CalculateDesired(Cfg[q], w, replicas[q])
        /\ sinceScale[q] >= Control!EffectiveCooldown(Cfg[q], d < replicas[q])
    BY <2>2, <2>4, <2>7, SameStrategy, SameTimes
  <2>10. /\ d # replicas[q] /\ replicas' = [replicas EXCEPT ![q] = d]
         /\ sinceScale' = [sinceScale EXCEPT ![q] = 0]
         /\ q \in deployed /\ deployed' = deployed
    BY <1>4, <2>2, <2>4, <2>8
  <2>11. Control!Rescale(q)
    BY <2>9, <2>10 DEF Control!Rescale
  <2> QED
    BY <2>11 DEF Control!Next
<1> QED
  BY <1>2, <1>3, <1>4

LEMMA OtherSteps ==
    ASSUME TypeOK, [Next]_vars, \A c \in Controller : ~EnsureWrite(c) /\ ~UpdateScale(c)
    PROVE  [Control!Next]_(Control!vars)
<1>1. ASSUME NEW c \in Controller,
             \/ Start(c) \/ EnsureGet(c) \/ BootDone(c) \/ BeginEvaluate(c)
             \/ EndEvaluate(c) \/ GetStats(c) \/ Decide(c) \/ GetScale(c)
             \/ RecordScale(c) \/ Stop(c)
      PROVE  UNCHANGED <<deployed, replicas, sinceScale>>
  BY <1>1 DEF Start, EnsureGet, BootDone, BeginEvaluate, EndEvaluate, GetStats,
     Decide, GetScale, RecordScale, Stop, Read, kube, ages
<1>2. ASSUME NEW c \in Controller, ExitLoop(c) \/ Crash(c) PROVE Control!Forget
  BY <1>2, SameTimes DEF ExitLoop, Crash, Die, NoWrite, Control!Forget
<1>3. CASE Tick
  <2>1. Control!Tick
    BY <1>3, SameTimes DEF Tick, kube, Control!Tick
  <2> QED
    BY <2>1 DEF Control!Next
<1>4. CASE UNCHANGED vars \/ \E q \in Queue : WorkChanges(q)
  BY <1>4 DEF vars, WorkChanges, kube, ages, Control!vars
<1> QED
  BY <1>1, <1>2, <1>3, <1>4 DEF Next, Run, Control!Next, Control!vars

(* One controller implements ReplicaControl: for every number of queues and *)
(* whatever crashes or fails, as long as no accepted write reports an       *)
(* error, every change of a pool is one whole decision of the strategy,     *)
(* made of the size the pool has at the write and after the cooldown.       *)
THEOREM AutoscalerRefinement ==
    ASSUME OneController, "reply" \notin Faults, Broken = {}
    PROVE  Spec => RefinesReplicaControl
<1>1. Init => Control!Init
  BY SameTimes DEF Init, Control!Init
<1>2. TypeOK /\ DecisionsDue /\ ScaleRemembered /\ [Next]_vars =>
        [Control!Next]_(Control!vars)
  BY DeployStep, RescaleStep, OtherSteps
<1> QED
  BY <1>1, <1>2, DueInvariant, RememberedInvariant, PTL
  DEF Spec, RefinesReplicaControl, Control!Spec

=============================================================================
