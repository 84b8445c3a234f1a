------------------------------ MODULE Autoscaler ------------------------------
(***************************************************************************)
(* The controller's scaling side: the loop of pkg/scaler/autoscaler.go and *)
(* the Deployer it drives (pkg/k8s/deployer.go), against a Kubernetes API  *)
(* that refuses writes of an object changed since it was read.             *)
(*                                                                         *)
(* A controller process boots (EnsureDeployment and AddQueue per queue),   *)
(* then evaluates all its queues at every tick of its ticker.  Each call   *)
(* to NATS or to Kubernetes is a step of its own, may fail, and other      *)
(* controllers, jobs and time move between two steps.  Controllers crash,  *)
(* are stopped, and are started again with empty memory; two of them run   *)
(* side by side while a rolling update replaces one.                       *)
(*                                                                         *)
(* Times are ages in ticks of a clock, cut off at a horizon; a missing      *)
(* map entry (lastScaleTime, lastActivity) is an age at the cut, because   *)
(* the code treats both alike.                                             *)
(***************************************************************************)
EXTENDS ScaleStrategy

CONSTANTS
    Queue, Controller,
    Cfg,          \* configuration of each queue, after config.Load
    MaxWork,      \* bound on the work (pending + processing) of a queue
    Faults,       \* kinds of failing calls considered
    MaxFaults,    \* how many calls may fail
    MaxCrashes,   \* how many crashes and stops may happen
    Broken        \* queues whose calls may fail without that bound

FaultKinds == {"ensure", "stats", "consumer", "replicas", "scale", "update",
               "reply"}

ASSUME CfgAssumption ==
    /\ Queue # {}
    /\ Cfg \in [Queue -> Config]
    /\ \A q \in Queue : Cfg[q].Min <= Cfg[q].Max
ASSUME BoundsAssumption ==
    /\ MaxWork \in Nat /\ MaxFaults \in Nat /\ MaxCrashes \in Nat
    /\ Faults \subseteq FaultKinds
    /\ Broken \subseteq Queue

VARIABLES
    \* Kubernetes and NATS
    deployed,       \* queues that have a Deployment
    replicas,       \* spec.replicas of each Deployment
    work,           \* pending + processing of each queue
    \* controllers
    pc,             \* where each controller is
    todo,           \* queues the boot or the evaluation has still to visit
    configs,        \* queues registered by AddQueue
    ev,             \* locals of the visit to one queue
    fresh,          \* controllers whose copy of the object is up to date
    lastScaleTime,  \* age of the last successful Scale, per controller, queue
    lastActivity,   \* age of the last work seen, per controller and queue
    stopped,        \* controllers whose stopCh is closed
    \* bounds and observations
    faults, crashes,
    sinceScale,     \* age of the last write by the running controllers
    sinceBusy       \* age of the last GetStats that returned work

kube  == <<deployed, replicas, fresh>>
ages  == <<lastScaleTime, lastActivity, sinceScale, sinceBusy>>
local == <<pc, todo, configs, ev, stopped>>
vars  == <<kube, ages, local, work, faults, crashes>>

Control == INSTANCE ReplicaControl

PCs == {"down", "boot", "create", "ensure", "idle", "loop", "stats", "scale",
        "update", "record"}

\* truth is the work the queue had when seen was read: an observation.
Blank == [queue |-> CHOOSE q \in Queue : TRUE, seen |-> 0, truth |-> 0,
          current |-> 0, desired |-> 0]

Init ==
    /\ deployed = {}
    /\ replicas = [q \in Queue |-> 0]
    /\ work \in [Queue -> 0 .. MaxWork]
    /\ pc = [c \in Controller |-> "down"]
    /\ todo = [c \in Controller |-> {}]
    /\ configs = [c \in Controller |-> {}]
    /\ ev = [c \in Controller |-> Blank]
    /\ fresh = {}
    /\ lastScaleTime = [c \in Controller |-> [q \in Queue |-> ScaleHorizon(Cfg[q])]]
    /\ lastActivity = [c \in Controller |-> [q \in Queue |-> ActivityHorizon(Cfg[q])]]
    /\ stopped = {}
    /\ faults = 0
    /\ crashes = 0
    /\ sinceScale = [q \in Queue |-> ScaleHorizon(Cfg[q])]
    /\ sinceBusy = [q \in Queue |-> ActivityHorizon(Cfg[q])]

-----------------------------------------------------------------------------
Goto(c, label)   == pc' = [pc EXCEPT ![c] = label]
Visit(c, locals) == ev' = [ev EXCEPT ![c] = locals]

\* continue: the locals of the visit go out of scope.
Leave(c, label) == Goto(c, label) /\ Visit(c, Blank)

CallFails(kind, q) ==
    \/ q \in Broken /\ UNCHANGED faults
    \/ kind \in Faults /\ faults < MaxFaults /\ faults' = faults + 1

\* A write of the object of queue q: every copy read before is now old.
Write(q, n) ==
    /\ deployed' = deployed \cup {q}
    /\ replicas' = [replicas EXCEPT ![q] = n]
    /\ fresh' = {d \in fresh : ev[d].queue # q}

Read(c)    == fresh' = fresh \cup {c} /\ UNCHANGED <<deployed, replicas>>
NoWrite(c) == fresh' = fresh \ {c}    /\ UNCHANGED <<deployed, replicas>>

-----------------------------------------------------------------------------
(* Start-up: SetupQueue, EnsureDeployment and AddQueue for every queue.     *)

Start(c) ==
    /\ pc[c] = "down"
    /\ Goto(c, "boot")
    /\ todo' = [todo EXCEPT ![c] = Queue]
    /\ UNCHANGED <<kube, ages, configs, ev, stopped, work, faults, crashes>>

\* EnsureDeployment: any error of Get leads to Create.
EnsureGet(c) ==
    /\ pc[c] = "boot"
    /\ \E q \in todo[c] :
         /\ todo' = [todo EXCEPT ![c] = @ \ {q}]
         /\ Visit(c, [Blank EXCEPT !.queue = q])
         /\ \/ /\ q \in deployed /\ UNCHANGED faults
               /\ Goto(c, "ensure") /\ Read(c)
            \/ /\ q \notin deployed /\ UNCHANGED faults
               /\ Goto(c, "create") /\ UNCHANGED kube
            \/ /\ CallFails("ensure", q)
               /\ Goto(c, "create") /\ UNCHANGED kube
    /\ UNCHANGED <<ages, configs, stopped, work, crashes>>

\* AddQueue
Register(c, q) == configs' = [configs EXCEPT ![c] = @ \cup {q}]

\* What the start-up does about an error is not in the repository: it may go
\* on to register the queue, or leave it out.
EnsureFailed(c, q) == NoWrite(c) /\ (Register(c, q) \/ UNCHANGED configs)

\* The second call of EnsureDeployment: Create, or Update of the object read.
EnsureWrite(c) ==
    LET q == ev[c].queue
        accepted == \/ pc[c] = "create" /\ q \notin deployed
                    \/ pc[c] = "ensure" /\ c \in fresh
    IN
    /\ pc[c] \in {"create", "ensure"}
    /\ \/ /\ accepted /\ UNCHANGED faults
          /\ Write(q, Cfg[q].Min) /\ Register(c, q)
       \/ /\ ~accepted /\ UNCHANGED faults
          /\ EnsureFailed(c, q)
       \/ /\ CallFails("ensure", q)
          /\ EnsureFailed(c, q)
    /\ Leave(c, "boot")
    /\ UNCHANGED <<ages, todo, stopped, work, crashes>>

BootDone(c) ==
    /\ pc[c] = "boot" /\ todo[c] = {}
    /\ Goto(c, "idle")
    /\ UNCHANGED <<kube, ages, todo, configs, ev, stopped, work, faults, crashes>>

-----------------------------------------------------------------------------
(* Start and Stop: the select between the ticker and stopCh.                *)

\* The ticker fires; evaluate() copies the registered configurations.
BeginEvaluate(c) ==
    /\ pc[c] = "idle"
    /\ todo' = [todo EXCEPT ![c] = configs[c]]
    /\ Goto(c, "loop")
    /\ UNCHANGED <<kube, ages, configs, ev, stopped, work, faults, crashes>>

EndEvaluate(c) ==
    /\ pc[c] = "loop" /\ todo[c] = {}
    /\ Goto(c, "idle")
    /\ UNCHANGED <<kube, ages, todo, configs, ev, stopped, work, faults, crashes>>

Stop(c) ==
    /\ pc[c] \in {"idle", "loop", "stats", "scale", "update", "record"}
    /\ c \notin stopped
    /\ crashes < MaxCrashes /\ crashes' = crashes + 1
    /\ stopped' = stopped \cup {c}
    /\ UNCHANGED <<kube, ages, pc, todo, configs, ev, work, faults>>

\* The process ends; whatever it kept in memory is gone.
Die(c) ==
    /\ Leave(c, "down") /\ NoWrite(c)
    /\ todo' = [todo EXCEPT ![c] = {}]
    /\ configs' = [configs EXCEPT ![c] = {}]
    /\ stopped' = stopped \ {c}
    /\ lastScaleTime' = [lastScaleTime EXCEPT ![c] = [q \in Queue |-> ScaleHorizon(Cfg[q])]]
    /\ lastActivity' = [lastActivity EXCEPT ![c] = [q \in Queue |-> ActivityHorizon(Cfg[q])]]
    /\ sinceScale' = [q \in Queue |-> ScaleHorizon(Cfg[q])]
    /\ sinceBusy' = [q \in Queue |-> ActivityHorizon(Cfg[q])]
    /\ UNCHANGED <<work, faults>>

\* A closed stopCh is seen only between evaluations, and when the ticker has
\* fired as well the select may still take the tick.
ExitLoop(c) == pc[c] = "idle" /\ c \in stopped /\ Die(c) /\ UNCHANGED crashes

Crash(c) ==
    /\ pc[c] # "down"
    /\ crashes < MaxCrashes /\ crashes' = crashes + 1
    /\ Die(c)

-----------------------------------------------------------------------------
(* evaluate: the visit to one queue, in any order of the queues.            *)

\* Mutant: an error of GetStats ends the evaluation of all queues.
GetStatsReturns(c) ==
    /\ pc[c] = "loop"
    /\ \E q \in todo[c] :
         \/ /\ Visit(c, [Blank EXCEPT !.queue = q, !.seen = work[q], !.truth = work[q]])
            /\ Goto(c, "stats")
            /\ sinceBusy' = IF work[q] > 0 THEN [sinceBusy EXCEPT ![q] = 0] ELSE sinceBusy
            /\ todo' = [todo EXCEPT ![c] = @ \ {q}]
            /\ UNCHANGED faults
         \/ /\ CallFails("stats", q)
            /\ todo' = [todo EXCEPT ![c] = {}]
            /\ UNCHANGED <<pc, ev, sinceBusy>>
    /\ UNCHANGED <<kube, lastScaleTime, lastActivity, sinceScale>>
    /\ UNCHANGED <<configs, stopped, work, crashes>>

\* Mutant: an error of GetStats is taken for an empty queue.
GetStatsAsEmpty(c) ==
    /\ pc[c] = "loop"
    /\ \E q \in todo[c] :
         \E n \in {0, work[q]} :
           /\ \/ n = work[q] /\ UNCHANGED faults
              \/ n = 0 /\ CallFails("stats", q)
           /\ todo' = [todo EXCEPT ![c] = @ \ {q}]
           /\ Visit(c, [Blank EXCEPT !.queue = q, !.seen = n, !.truth = work[q]])
           /\ Goto(c, "stats")
           /\ sinceBusy' = IF n > 0 THEN [sinceBusy EXCEPT ![q] = 0] ELSE sinceBusy
    /\ UNCHANGED <<kube, lastScaleTime, lastActivity, sinceScale>>
    /\ UNCHANGED <<configs, stopped, work, crashes>>

\* GetStats: an error skips the queue, except that an error of consumer.Info
\* is dropped and leaves both counts at 0.
GetStats(c) ==
    /\ pc[c] = "loop"
    /\ \E q \in todo[c] :
         LET Seen(n) ==
               /\ Visit(c, [Blank EXCEPT !.queue = q, !.seen = n, !.truth = work[q]])
               /\ Goto(c, "stats")
               /\ sinceBusy' = IF n > 0 THEN [sinceBusy EXCEPT ![q] = 0] ELSE sinceBusy
         IN
         /\ todo' = [todo EXCEPT ![c] = @ \ {q}]
         /\ \/ Seen(work[q]) /\ UNCHANGED faults
            \/ CallFails("consumer", q) /\ Seen(0)
            \/ CallFails("stats", q) /\ UNCHANGED <<pc, ev, sinceBusy>>
    /\ UNCHANGED <<kube, lastScaleTime, lastActivity, sinceScale>>
    /\ UNCHANGED <<configs, stopped, work, crashes>>

\* Activity of queue q as evaluate() records it before it decides.
ActivityAge(c, q) == IF ev[c].seen > 0 THEN 0 ELSE lastActivity[c][q]

\* Mutants: the longer cooldown is applied to scale-ups; the recent activity
\* is not looked at.
MayScaleSwapped(c, q, current, desired) ==
    /\ desired # current
    /\ ActivityAge(c, q) >= RecentWindow(Cfg[q], desired < current)
    /\ lastScaleTime[c][q] >= EffectiveCooldown(Cfg[q], desired > current)
MayScaleAnyTime(c, q, current, desired) ==
    /\ desired # current
    /\ lastScaleTime[c][q] >= EffectiveCooldown(Cfg[q], desired < current)

\* The guards between calculateDesired and Scale.
MayScale(c, q, current, desired) ==
    /\ desired # current
    /\ ActivityAge(c, q) >= RecentWindow(Cfg[q], desired < current)
    /\ lastScaleTime[c][q] >= EffectiveCooldown(Cfg[q], desired < current)

\* The visit of c, once the sizes are known.
Decided(c, current, desired) ==
    [ev[c] EXCEPT !.current = current, !.desired = desired]

\* A Deployment written by EnsureDeployment has its replicas set, so the
\* default of 1 is never returned.
GetCurrentReplicas(q) == replicas[q]

\* GetCurrentReplicas, and all that evaluate() does up to the call of Scale.
Decide(c) ==
    LET q       == ev[c].queue
        current == GetCurrentReplicas(q)
        desired == CalculateDesired(Cfg[q], ev[c].seen, current)
    IN
    /\ pc[c] = "stats"
    /\ \/ /\ q \in deployed /\ UNCHANGED faults
          /\ lastActivity' = [lastActivity EXCEPT ![c][q] = ActivityAge(c, q)]
          /\ IF MayScale(c, q, current, desired)
               THEN /\ Visit(c, Decided(c, current, desired))
                    /\ Goto(c, "scale")
               ELSE Leave(c, "loop")
       \/ /\ q \notin deployed /\ UNCHANGED <<faults, lastActivity>>
          /\ Leave(c, "loop")
       \/ /\ CallFails("replicas", q) /\ UNCHANGED lastActivity
          /\ Leave(c, "loop")
    /\ UNCHANGED <<kube, lastScaleTime, sinceScale, sinceBusy>>
    /\ UNCHANGED <<todo, configs, stopped, work, crashes>>

\* Mutant: the object comes out of a cache and is never up to date.
GetScaleCached(c) ==
    /\ pc[c] = "scale"
    /\ Goto(c, "update")
    /\ UNCHANGED <<kube, ages, todo, configs, ev, stopped, work, faults, crashes>>

\* Scale reads the object again ...
GetScale(c) ==
    /\ pc[c] = "scale"
    /\ \/ /\ Goto(c, "update") /\ Read(c)
          /\ UNCHANGED <<ev, faults>>
       \/ /\ CallFails("scale", ev[c].queue)
          /\ Leave(c, "loop") /\ UNCHANGED kube
    /\ UNCHANGED <<ages, todo, configs, stopped, work, crashes>>

\* ... and writes it back: refused if another write came between, failed with
\* no effect, done, or done with the reply lost.
UpdateScale(c) ==
    LET q == ev[c].queue IN
    /\ pc[c] = "update"
    /\ \/ /\ c \in fresh
          /\ Write(q, ev[c].desired)
          /\ sinceScale' = [sinceScale EXCEPT ![q] = 0]
          /\ \/ Goto(c, "record") /\ UNCHANGED <<ev, faults>>
             \/ CallFails("reply", q) /\ Leave(c, "loop")
       \/ /\ \/ c \notin fresh /\ UNCHANGED faults
             \/ CallFails("update", q)
          /\ NoWrite(c) /\ UNCHANGED sinceScale
          /\ Leave(c, "loop")
    /\ UNCHANGED <<lastScaleTime, lastActivity, sinceBusy>>
    /\ UNCHANGED <<todo, configs, stopped, work, crashes>>

\* Mutant: the time is kept under another key and never found again.
RecordScaleLost(c) ==
    /\ pc[c] = "record"
    /\ Leave(c, "loop")
    /\ UNCHANGED <<kube, ages, todo, configs, stopped, work, faults, crashes>>

\* Mutant: the end of the cooldown is kept instead of the present.
RecordScaleDeadline(c) ==
    /\ pc[c] = "record"
    /\ lastScaleTime' = [lastScaleTime EXCEPT
                           ![c][ev[c].queue] = 0 - Cfg[ev[c].queue].CooldownSeconds]
    /\ Leave(c, "loop")
    /\ UNCHANGED <<kube, lastActivity, sinceScale, sinceBusy>>
    /\ UNCHANGED <<todo, configs, stopped, work, faults, crashes>>

RecordScale(c) ==
    /\ pc[c] = "record"
    /\ lastScaleTime' = [lastScaleTime EXCEPT ![c][ev[c].queue] = 0]
    /\ Leave(c, "loop")
    /\ UNCHANGED <<kube, lastActivity, sinceScale, sinceBusy>>
    /\ UNCHANGED <<todo, configs, stopped, work, faults, crashes>>

-----------------------------------------------------------------------------
(* The surroundings: jobs come and go, time passes.                         *)

WorkChanges(q) ==
    /\ \E n \in 0 .. MaxWork : work' = [work EXCEPT ![q] = n]
    /\ UNCHANGED <<kube, ages, local, faults, crashes>>

Tick ==
    LET ByScale(f)    == [q \in Queue |-> Older(f[q], ScaleHorizon(Cfg[q]))]
        ByActivity(f) == [q \in Queue |-> Older(f[q], ActivityHorizon(Cfg[q]))]
    IN
    /\ lastScaleTime' = [c \in Controller |-> ByScale(lastScaleTime[c])]
    /\ lastActivity' = [c \in Controller |-> ByActivity(lastActivity[c])]
    /\ sinceScale' = ByScale(sinceScale)
    /\ sinceBusy' = ByActivity(sinceBusy)
    /\ UNCHANGED <<kube, local, work, faults, crashes>>

Run(c) ==
    \/ Start(c) \/ EnsureGet(c) \/ EnsureWrite(c) \/ BootDone(c)
    \/ BeginEvaluate(c) \/ EndEvaluate(c)
    \/ GetStats(c) \/ Decide(c) \/ GetScale(c) \/ UpdateScale(c) \/ RecordScale(c)

Next ==
    \/ \E c \in Controller : Run(c) \/ Stop(c) \/ ExitLoop(c) \/ Crash(c)
    \/ \E q \in Queue : WorkChanges(q)
    \/ Tick

Spec == Init /\ [][Next]_vars

\* The processes run, Kubernetes restarts them, clocks advance, and a closed
\* stopCh is not passed over for ever by the select.
Fairness ==
    /\ \A c \in Controller : WF_vars(Run(c)) /\ SF_vars(ExitLoop(c))
    /\ WF_vars(Tick)

FairSpec == Spec /\ Fairness

-----------------------------------------------------------------------------
Locals == [queue : Queue, seen : 0 .. MaxWork, truth : 0 .. MaxWork,
           current : Nat, desired : Nat]

TypeOK ==
    /\ deployed \subseteq Queue
    /\ replicas \in [Queue -> Nat]
    /\ work \in [Queue -> 0 .. MaxWork]
    /\ pc \in [Controller -> PCs]
    /\ todo \in [Controller -> SUBSET Queue]
    /\ configs \in [Controller -> SUBSET Queue]
    /\ ev \in [Controller -> Locals]
    /\ fresh \subseteq Controller
    /\ stopped \subseteq Controller
    /\ faults \in 0 .. MaxFaults
    /\ crashes \in 0 .. MaxCrashes
    /\ sinceScale \in [Queue -> Nat]
    /\ sinceBusy \in [Queue -> Nat]
    /\ lastScaleTime \in [Controller -> [Queue -> Nat]]
    /\ lastActivity \in [Controller -> [Queue -> Nat]]

(* Every Deployment has between replicas.min and replicas.max workers, with *)
(* any number of controllers deciding from counts that may be stale when    *)
(* they write.                                                              *)
ReplicasInBounds ==
    \A q \in deployed : replicas[q] \in Cfg[q].Min .. Cfg[q].Max

(* The part of the state ReplicasInBounds depends on: a decision on its way *)
(* to Kubernetes lies in the bounds, however old the count it was made of.  *)
DecisionsInBounds ==
    \A c \in Controller :
        pc[c] \in {"scale", "update"} =>
            ev[c].desired \in Cfg[ev[c].queue].Min .. Cfg[ev[c].queue].Max

\* The autoscaler of c changes the size of its pool; c takes workers away.
Scaled(c)     == pc[c] = "update" /\ replicas' # replicas
ScaledDown(c) == Scaled(c) /\ replicas'[ev[c].queue] < replicas[ev[c].queue]

(* cooldown_seconds, and for a costly queue also scale_down_delay_seconds   *)
(* and startup_cost_seconds, pass between two writes of a running           *)
(* controller, although the time it remembers is that of the reply.         *)
CooldownRespected ==
    [][\A c \in Controller :
         Scaled(c) => sinceScale[ev[c].queue] >=
             EffectiveCooldown(Cfg[ev[c].queue], ScaledDown(c))]_vars

(* A costly queue is not scaled down within 2 * startup_cost_seconds of the *)
(* last reading that found work in it.                                      *)
NoScaleDownAfterActivity ==
    [][\A c \in Controller :
         ScaledDown(c) => sinceBusy[ev[c].queue] >=
             RecentWindow(Cfg[ev[c].queue], TRUE)]_vars

(* If the work of a queue stays the same, its pool ends up large enough for *)
(* it, or at replicas.max, whatever the calls of the other queues do: one   *)
(* queue that always fails holds none of the others back.                   *)
ScalesToWork ==
    \A q \in Queue \ Broken : \A w \in 0 .. MaxWork :
        <>[](work[q] = w) =>
            <>[](/\ q \in deployed
                 /\ \/ ~Overloaded(Cfg[q], w, replicas[q])
                    \/ replicas[q] = Cfg[q].Max)

(* An idle queue that is deployed and registered gives its workers back,    *)
(* down to replicas.min and the idle floor: cooldown, activity window, rate *)
(* limit, failed calls and a restart put it off, but not for ever.          *)
DrainsWhenIdle ==
    \A q \in Queue \ Broken :
        <>[](work[q] = 0 /\ q \in deployed /\ \E c \in Controller : q \in configs[c])
            => <>[](replicas[q] = RestingSize(Cfg[q]))

(* A pool is only made smaller when the queue really had too little work    *)
(* for the size the pool has at the write (by thresholds: less than         *)
(* scale_down_threshold) at the moment GetStats counted it, although Scale  *)
(* writes later and GetStats, GetCurrentReplicas and Scale may each fail.   *)
(* Not with the fault "consumer", whose error GetStats drops.               *)
LoadedPoolKept ==
    [][\A c \in Controller :
         ScaledDown(c) => LET q == ev[c].queue
                          IN  Underloaded(Cfg[q], ev[c].truth, replicas[q])]_vars

(* What ReplicaControl promises, which a single controller keeps: every     *)
(* change of a pool is a whole decision of the strategy, taken of the size  *)
(* the pool has at the moment of the write.                                 *)
RefinesReplicaControl == Control!Spec

-----------------------------------------------------------------------------
(* A statement of the documentation that the code does not keep.            *)

\* scale_down_rate: workers that one write may take out of a pool of n.
Removable(q, n) == MaxRemove(Cfg[q], n)

(* "Maximum fraction of workers to remove per scale-down cycle.  Prevents   *)
(* mass termination": of every write of a pool, EnsureDeployment included.  *)
NoMassTermination ==
    [][\A q \in deployed :
         Cfg[q].RateNum > 0 =>
            replicas'[q] >= replicas[q] - Removable(q, replicas[q])]_vars

=============================================================================
