# kqueue: specifications and proofs

TLA+ specifications of [kqueue](../src/README.md), a job queue for Kubernetes:
jobs are published to NATS JetStream, worker pods take them, and a controller
scales the pool of workers of each queue with the work in it. The specifications
are model-checked with TLC; what matters most is also proved with TLAPS, for every
value of the constants.

Run a check with `tlc -config <run>.cfg <module>.tla` and a proof with
`tlapm <module>.tla`. `PROJECT.json` lists runs, theorems, mutants, hazards, and
the lines of the source every definition stands for.

## 1. The system

| Component | Source | State | Operations |
|---|---|---|---|
| Scaling strategies | `pkg/scaler/autoscaler.go:162-253`, `pkg/api/types.go` | none | `calculateDesired`, `thresholdStrategy`, `rateStrategy`, `targetPerWorkerStrategy` |
| Autoscaler loop | `pkg/scaler/autoscaler.go:14-160` | `configs`, `lastScaleTime`, `lastActivity`, `stopCh` | `AddQueue`, `Start`, `Stop`, `evaluate` |
| Deployer | `pkg/k8s/deployer.go` | none of its own; Deployments in Kubernetes | `EnsureDeployment`, `Scale`, `GetCurrentReplicas` |
| Queue manager | `pkg/queue/nats.go` | `streams`, `consumers`; streams and consumers in JetStream | `SetupQueue`, `Publish`, `PublishToDLQ`, `GetStats`, `GetConsumer`, `Close` |
| Job delivery | JetStream, the sidecar (`cmd/sidecar`, not in the repository), the workers | the stream, deliveries and their timers, the dead letter stream | fetch, ack, nak, term, redelivery, dead-lettering |
| Controller | `cmd/controller` (not in the repository; `test/*.go` hold a stand-in) | job store, counters | HTTP API, start-up, status events |
| Configuration | `internal/config/config.go` | none | `Load` with its defaults |
| Validation | `pkg/validate/schema.go` | compiled schemas | `NewValidator`, `Validate` |
| Webhook | `cmd/webhook/main.go` | none | event filter, submission |
| Example workers | `examples/*` | none between jobs | echo, sandboxed commands, code review, NLP |
| Metrics, dashboard, deployment files, scripts | `pkg/metrics`, `ui`, `deploy`, `scripts` | none | none that changes state |

How they interact. The controller sets up a stream and a Deployment per queue,
registers the queue with the autoscaler and starts its loop. At every tick the
loop reads the statistics of each queue from JetStream, the replica count from
Kubernetes, decides, and writes the new count to Kubernetes. Clients (the webhook
is one) post jobs to the controller, which validates and publishes them; the
sidecar in each pod fetches one message at a time, posts it to the worker beside
it, and acknowledges, returns or terminates the message by the answer. The parts
share no memory: each pair is joined by calls that can fail, be late, or have
happened although the caller was told they failed.

What is hard about it, and what makes each component correct:

- *Autoscaler and deployer.* Read, decide and write are separate calls, and the
  pool can change between them: a second controller (the controller is replaced
  by a rolling update), a restart that runs `EnsureDeployment` again, an update
  whose reply was lost. Correct means that a pool stays between `replicas.min` and
  `replicas.max`; that cooldown, activity window and rate limit hold between the
  writes that really happened, not between those the controller remembers; that
  one queue whose calls fail does not hold up the others; and that in the end a
  pool gets the size its work needs, and an idle one shrinks to rest.
- *Strategies.* Clamp, idle floor and rate limit each cut the same number at a
  different place. Correct means that no combination of them shrinks a loaded
  pool, gives fewer workers for more work, stays out of the bounds, or hunts.
- *Job delivery.* At-least-once delivery with a bounded number of attempts: a job
  may be delivered while an earlier delivery still runs, and acknowledgements can
  be lost. Correct means that no job vanishes: it ends completed or in the dead
  letter stream, and not in both.
- *Delivery and scaling together.* The pool is scaled by the work it carries, and
  Kubernetes removes any pod, busy or not. Correct means that a scale-down costs a
  job at most the attempt it had, and that the pool comes to rest.
- *Submission.* The webhook gives up after ten seconds, the publication's own
  acknowledgement can be lost, and the controller goes on in either case. Correct
  means that nobody is told something the stream contradicts, and that only what
  conforms to the schema of a queue gets into it.
- *Configuration.* Zero stands for "use the default", also where zero is a
  meaningful value, and bounds are not compared with one another.
- *Validation.* The schema comes from YAML, the payload from JSON, and values are
  compared by how they print. Correct means that the verdict is the one the
  documentation's table of validations gives.
- *Sandbox worker.* A shell, its children, the kill at the deadline and two copiers
  end in any order. Correct means that output and exit code tell what happened.
- *Code review worker.* The pull request moves on between the calls for its commit, its
  diff and the review; a job may be attempted twice. Correct means that an attempt
  leaves one review and reports it as it is, that every comment is shown once and near
  its line, and that an attempt that knows the commit it reviews leaves no review of an
  older diff on it.

`PROJECT.json` lists the hazards with the lines where they bite and the properties
that would catch them.

## 2. Modules

    ScaleStrategy        pure operators: configuration, strategies, cooldowns
      QueueConfig        what config.Load makes of a queue's entry
      ScalingLoop        the loop that repeated evaluations of one queue form
      ReplicaControl     abstract: what the control of worker pools promises
      Autoscaler         controllers, Deployer, Kubernetes; implements it
    JobLifecycle         abstract: what the delivery of jobs promises
      JobDelivery        stream, consumer, pods, dead letter stream; implements it
        WorkerPool       JobDelivery composed with ScaleStrategy
    PayloadSchema        pure operators: the validator of payloads
      Submission         webhook, controller and stream
    SandboxExec          one request of the sandbox worker
    ReviewPosting        pure operators: diffs, the LLM's output, the review
      ReviewWorker       attempts at a review while the pull request moves on
    MCScalingLoop, MCAutoscaler, MCWorkerPool, MCSubmission, MCSandboxExec,
    MCReviewWorker       constants for TLC
    SequenceInduction    induction over the prefixes of a sequence, for the proofs
    ScaleStrategyProofs  with QueueConfig; ScalingLoopProofs, AutoscalerProofs,
    JobDeliveryProofs    with WorkerPool; SubmissionProofs, SandboxExecProofs,
    ReviewWorkerProofs   theorems

**ScaleStrategy** translates `calculateDesired` and what it calls, one operator
per strategy and per adjustment, in the order of the code. A configuration is a
record with the fields of `api.ReplicaConfig` and `api.ScaleStrategy`. The floats
of the code are fractions: the comparison of `totalWork / current` with a
threshold is multiplied out, `scale_down_rate` is `RateNum / RateDen`. A `float64`
holds 1/2, 1/4 or 3/4 exactly; for a rate such as 0.1 the code may round
`current * rate` to just above a whole number and remove one worker more.
`EffectiveCooldown` and `RecentWindow` are the guards of `evaluate`.

**QueueConfig** is `config.Load` for one entry under `queues:`, field by field. An
entry is what `yaml.Unmarshal` leaves: zero where the file says nothing. `MCScalingLoop`
lets the loop run with what `Load` makes of sparse files as well.

**ScalingLoop** asks what the strategies do when they are applied again and again:
`Evaluate` is one pass of `evaluate` in which every call succeeds and no cooldown
is pending, `WorkChanges` changes the work at will. The replica count may start
outside the bounds, as after an edit of the configuration.

**Autoscaler** is the detailed model. The variables correspond to the code so:

| Variable | Code |
|---|---|
| `deployed`, `replicas` | the Deployments and their `spec.replicas` |
| `fresh` | controllers whose copy of the object has its present `resourceVersion` |
| `work` | `NumPending + NumAckPending` of the consumer of each queue |
| `pc`, `todo`, `ev` | where a controller is in start-up or `evaluate`; the queues the `range` has still to visit; the locals of one visit |
| `configs`, `lastScaleTime`, `lastActivity`, `stopped` | the fields of `Autoscaler` |
| `faults`, `crashes` | bounds on failures |
| `sinceScale`, `sinceBusy` | observations: time since the last write, and since the last `GetStats` that returned work |

Points in time are ages in ticks, cut off where no guard tells them apart
(`ScaleHorizon`, `ActivityHorizon`). A missing map entry is an age at the cut,
since `ok` and `hasActivity` treat "never" as "long ago".

| Action | Code |
|---|---|
| `Start`, `BootDone` | start-up and the call of `Autoscaler.Start` (in `cmd/controller`, external) |
| `EnsureGet`, `EnsureWrite` | `EnsureDeployment`: `Get`, where any error leads to `Create`; then `Create` or `Update`; then `AddQueue` |
| `BeginEvaluate`, `EndEvaluate`, `ExitLoop`, `Stop` | the `select` of `Start`, the copy of `configs`, `Stop` |
| `GetStats` | the call of `GetStats`; a failed `consumer.Info` reads as no work |
| `Decide` | `GetCurrentReplicas`, the activity record, `calculateDesired`, the guards |
| `GetScale`, `UpdateScale` | the two calls of `Scale`; the second is refused if another write came between |
| `RecordScale` | the assignment to `lastScaleTime` after `Scale` returned |
| `Crash` | the process dies anywhere; its memory is gone |
| `WorkChanges`, `Tick` | jobs come and go; time passes |

Every call is a step of its own, so controllers, crashes and time interleave
between any two. `Map` iteration is random in Go: the next queue is any of `todo`.
What start-up does when `EnsureDeployment` fails is not in the repository:
both the queue is registered all the same and it is left out are allowed.

**ReplicaControl** is the promise without calls, failures and crashes: a pool is
deployed at `replicas.min`; from then on its size changes only by one decision of
the strategy, taken of the size it really has, after the cooldown. A restart
deploys again and forgets the last change. `Autoscaler` implements it
(`RefinesReplicaControl`, the identity on three variables) with one controller
whose replies are not lost. With two controllers it does not: `Scale` takes an
absolute number and reads the object anew (`deployer.go:155`), so optimistic
concurrency does not notice a write made since the count was read, and a decision
of an old count goes through.

**JobDelivery** follows the jobs of one queue from `Publish` to the worker and out
of the stream. Its actions are one per message or call, so that the AckWait timer, other
pods, crashes and losses come between any two:

| Action | Code |
|---|---|
| `Publish` | `Manager.Publish`; the MsgID makes a message the job it carries |
| `SetupQueue`, `EnsureDeployment` | a controller started with another `max_retries`: `MaxDeliver` of the consumer, then `MAX_RETRIES` of the pod template |
| `PodStart`, `PodReplaced`, `PodCrash` | Kubernetes; a pod keeps the `MAX_RETRIES` it was started with |
| `Fetch`, `Ack`, `Nak`, `Term` | the sidecar and JetStream; `Nak` gives back whatever delivery of the message is waiting, as JetStream does |
| `Answer` | `handleProcess`: success, failure, or nothing within the sidecar's limit |
| `PublishToDLQ` | `Manager.PublishToDLQ` as the sidecar calls it after `Term` |
| `AckWaitExpires` | JetStream; a message delivered `MaxDeliver` times stays in the stream and is not delivered again |
| `Tick` | time passes in the stream and in the calls of workers; everything else is prompt |

The sidecar's source is not in the repository. Its part is taken from what the code
around it fixes: the environment its pod gets (`deployer.go:107-113`), the consumer it reads
(`nats.go:86-93`), the answers of the workers and the dead letter stream. In `JobLifecycle`
a job is absent, open, completed, dead-lettered or lost, and the last three are final, but for a job that is late;
`JobDelivery` implements it (`RefinesJobLifecycle`). A job between `Term` and
`PublishToDLQ` is in no stream and still open: the pod has it in hand. `Lose`
is in the abstract specification since the code gives no more: it allows a loss
only after the last try. Nothing in `src/` keeps the sidecar's limit inside the AckWait, so `HttpTimeout`
is any number, and a job may be delivered again while a pod has it or after one has buried it (its
`Term` was lost). `overtaken` observes which jobs this happens to, `late` in `JobLifecycle`: they alone
may end twice or be tried after they ended.

**WorkerPool** puts delivery and scaling together. `Work` is what `GetStats` reads of the
very consumer the pods empty (`nats.go:165-170`): messages not delivered yet and messages
waiting or given back; one that was delivered `MaxDeliver` times in vain is in neither.
`Evaluate` is a whole evaluation (Autoscaler has its calls one by one). `StartPod` and
`RemovePod` are Kubernetes: the second takes any pod, also one whose worker is busy, since
`EnsureDeployment` gives the pods neither a `preStop` hook nor a grace period and the 30
seconds of the default are shorter than a `processing_timeout`. What the sidecar does
after the worker's answer is taken to fit in them.

**PayloadSchema** has `compileSchema` (`CompileSchema`, `SchemaInvalid`) and
`validateAgainstSchema` (`Accepted`) over values that know which decoder made them, and,
apart from the code, `Conforms`: what the documentation's table says a schema means.

**Submission** is the way into a queue. Each delivery of an event, call of the test endpoint
or call of the API is handled by itself, all at the same time:

| Action | Code |
|---|---|
| `Receive` | `handleGitHubWebhook` or `handleTestWebhook` up to the request of `submitToKQueue`; `CallAPI` is any other client |
| `Validate`, `Publish` | the controller (external): 400, 422, or the publication, whose acknowledgement may be lost |
| `TimeOut`, `ReadReply` | the end of `submitToKQueue`: ten seconds, or the status |

**SandboxExec** is one request of the sandbox worker. `Start` is `runCommand` and `runScript`
up to `cmd.Run`; `ShellExits`, `ShellForks`, `ChildEnds`, `Writes`, `BrokenPipe` are the command, `Kill`,
`Copy`, `EndOfFile`, `Reap` are os/exec, `StartFails` is a shell that cannot be started, and `Answer` is the rest of `executeCmd` and
`handleProcess`. `Copy` calls `limitedWriter.Write`; the bytes of a stream are the numbers of
their places, so that lost or misplaced output shows. `Duration` wraps around as
`time.Duration` does.

**ReviewPosting** holds the pure functions of the code review worker: `buildDiffMap`,
`findDiffLine`, `resolveFilename`, `parseStructuredReview` with its fallbacks, and the request
that `postStructuredReview` builds. `RightLines` says without running through the patch which lines
GitHub takes a comment on. The comments of an output that is no JSON are those that the regular expression finds (`main.go:496`); it
passes over all others. **ReviewWorker** is `handleProcess`, one step per call:

| Action | Code |
|---|---|
| `Deliver`, `Crash`, `PushCommit` | the sidecar, Kubernetes, and the author, who pushes while the worker works |
| `FetchPRInfo`, `FetchPRFiles`, `CloneRepo` | the calls of GitHub and git; their failures are only logged |
| `LLMAnswers`, `LLMFails` | `callLLMCli`, the parsing, and the request of the review |
| `PostAccepted`, `PostLost`, `PostRefused`, `PostFails` | the call for the review: made, made with the reply lost, 422 (once more as a comment), anything else |
| `AddReactions` | the goroutine that adds reactions, each of whose calls may fail |

Definitions that begin with `\* Mutant:` are plausible bugs. The project's mutants
put one in the place of the definition it varies; a property that survived it would
say nothing.

## 3. Runs

| Run | Question | Bounds |
|---|---|---|
| `scaling_loop` | Do the strategies work with the load, stay in bounds, settle and suffice, also with what `Load` makes of sparse files? | 288 written configurations (four types, one of them unknown; `max` 1 and 4, two thresholds, steps 1, 2 and 5, three rates, idle floor 0 and 2) and 36 sparse files |
| `autoscaler_single` | Do bounds, cooldown, activity window and the abstract specification hold with one controller, is a loaded pool never taken for an idle one, and does an idle pool come down to its floor? | one costly queue with an idle floor, pool of up to four, one failing call, one crash or stop |
| `autoscaler_queues` | Does a queue whose calls may always fail keep another one from the size it needs? | two queues, one of them broken, one more failing call |
| `autoscaler_two` | Do two overlapping controllers stay in the bounds, and make progress against refused writes? | two controllers, one failing call, one crash |
| `delivery` | Under a pool that is scaled by its own work: do jobs follow their lifecycle, one delivery at a time, with one end, but for those delivered again under a pod; is none forgotten before its attempts are used; does the pool rest? | two jobs, one to two pods, one retry, one crash, one lost message; the sidecar's limit is the AckWait |
| `delivery_late` | Does a job end, or have every attempt, if workers are slower than the AckWait, `max_retries` grows from 1 to 2 while pods run, a pod dies and a message is lost? Can any other than an overtaken job be dead-lettered twice? | one job, two pods, limit 2, AckWait 1, one crash, one lost message |
| `delivery_overlap` | Does a job end one way with a limit of five minutes and a `processing_timeout` of one? It does not (section 5) | one job, two pods, one retry, no fault |
| `sandbox` | Do output and exit code tell what happened, whatever ends first? | limit 2 bytes, up to 3 written; deadline of at most 4 ticks, 2 to a second, 4-bit durations |
| `submission` | Is every sender told the truth, and does the stream hold only what conforms? | two deliveries at a time, events, test calls and API calls, three sets of schemas, with and without a secret |
| `review` | Does each attempt leave and report one review, with every comment once and near its line, and none for a commit newer than its diff, if it knew one? | two attempts, one crash, two commits, two files, three outputs of the LLM |
| `scaler_restart`, `pool_scale_down` | Statements of the documentation that the code does not keep (section 5) | one restart; no fault at all |

Why the bounds are enough. `Max = 4` with steps of 1 and 2 and a work bound above
the threshold gives room for several changes in each direction, clamping at
both ends and a rate limit that bites (half of 4). The costly queue of `autoscaler_single` would give up three of its four
workers at once; the rate limit (a quarter) lets one go at a time, each past cooldown and activity window, and the idle floor
keeps two, so that all four stand between the pool and its rest. Cooldown 1 and start-up time
2 give horizons of 3 and 4 ticks: every guard is met on both sides. One failing call is
enough for each hazard on its own, since a call that fails leaves no trace but the
missing effect; the broken queue of `autoscaler_queues` fails without bound.
Two controllers are what a rolling update of one replica creates.

In `delivery` the sidecar's limit is as long as the AckWait (1 and 1), as `docs/ARCHITECTURE.md:926` has it: then AckWait may run out
in the moment the sidecar gives up, and the job is in two hands. `delivery_late` has the limit longer (2 and 1), and `delivery_overlap` five times as long, the five minutes of
`docs/ARCHITECTURE.md:313` against the `processing_timeout: 60s` of `deploy/base/controller.yaml:78`. A shorter limit
only takes behaviours away, since the worker may answer at any time within it.

For delivery, two pods are the least that can hold one message together, one retry
tells the first delivery from the last, and two (in `delivery_late`) have one
between them.
Jobs meet only in the pods they wait for: two of them are enough, and the second one's end is
what takes a worker from the first; in `delivery_late`, about the two pods that have the same job,
one is.
`max_retries` is raised and not lowered: lowered, it reaches the consumer at once and
a running sidecar only when its pod is replaced (`deployer.go:112`), which then gives
back what was the last delivery; such a job is never delivered again and ends neither way,
without a crash or a loss, so that the second part of `EndsOrAllTried` does not hold.

In the sandbox, three bytes written against a limit of two give the chunk that ends below,
at and across the limit, in one piece or several; timeouts of 1, 3, 4 and 9 seconds are below the limit,
above it, and beyond what four bits hold, once with a negative and once with a short result. One
request follows another and shares nothing with it. In a pull request, two commits
are what it takes for a diff to be older or newer than the job's commit; the diffs have
a hunk that moves, deleted lines, a file without a patch and the mark of a missing last newline, and
the comments fall on a line, near it, at a line another one was moved to, and outside the diff.

In the configurations of `scaling_loop`, `ScaleUpThreshold` is at least twice
`ScaleDownThreshold` and `ScaleDownStep` is 1. With thresholds closer together the rate
strategy does hunt: work 3 with thresholds 2 and 2 moves between 1 and 2 workers
for ever; a file that sets `scale_up_threshold: 2` and leaves the other one to its
default of 2 gets there. That is a limit of the strategy that the documentation does not
rule out, and `Settles` holds only under this condition.

Fairness. `WF(Run(c))`: a controller process keeps running, and Kubernetes
restarts it. `SF(ExitLoop(c))`: when both the ticker and `stopCh` are ready, Go's
`select` picks at random, so a closed channel is not passed over for ever.
`WF(Tick)`: clocks advance. Nothing is assumed of single calls: each may fail as
often as the bounds let it, of a broken queue always.

In `JobDelivery`, `WF(Serve(p))`: a pod is restarted and its sidecar goes on, whatever
the worker answers; the limit on its call bounds the wait. `WF(AckWaitExpires(j))`,
`WF(Tick)`: JetStream's timers go off. `WF(EnsureDeployment)`: a controller that
set the queue up goes on to the Deployment. Nothing is assumed of `Publish`, of
crashes, losses or changes of the configuration. In `WorkerPool` also `WF(Evaluate)`,
`WF(RemovePod(p))`: the loop ticks, and Kubernetes brings a Deployment to its size.

`Submission` states none: its properties are about what must not happen. In `SandboxExec` time, the watcher, the copiers and `Wait` go on; the command owes nothing, so that
a child that never ends is a behaviour of the model, and `AnsweredUnlessPipeHeld` names it. In
`ReviewWorker` calls of GitHub end, since their client has a time limit of 30 seconds; git
and the LLM have none (`callLLMCli` runs without a context), and `AttemptEnds` says what follows.

## 4. Proofs

`ScaleStrategyProofs` proves about `calculateDesired`, for every configuration with
`Min <= Max`, all work and all counts: its bounds (`DesiredBounds`), the rate limit
(`DesiredRemoval`, `DesiredRemovalFraction`), monotony in the work
(`DesiredMonotone`), that an overloaded pool does not shrink
(`DesiredUnderLoad`), and that any pool it shrinks, but for one above `replicas.max`, is underloaded by the measure of its own
strategy (`DesiredUnderloaded`). They rest on lemmas about rounding up (`CeilDivCovers`,
`CeilDivTight`, `CeilDivMonotone`) and about each adjustment.

`ScalingLoopProofs` lifts these to the specification of the loop: `LoopTypeOK`,
`LoopMonotone`, `LoopNoShrinkUnderLoad`, `LoopRemovalLimited`.

`AutoscalerProofs` proves, for any number of controllers and queues and any
failures and crashes:

- `AutoscalerTypeOK`: `Spec => []TypeOK`, one step per action.
- `AutoscalerBounds`, `AutoscalerDecisions`: `Spec => [](ReplicasInBounds /\ DecisionsInBounds)`.
  `ReplicasInBounds` is not inductive alone: `UpdateScale` writes a number decided
  earlier, of a pool that may have changed since. `DecisionsInBounds` says that a
  number on its way to Kubernetes is in the bounds; it is when it is decided,
  since the pool it is taken of is (`DesiredBounds` needs a current count of at
  most `Max`), and no other step changes it. Two lemmas, `QuietStep` and
  `WriteStep`, treat the actions alike.

Four more theorems are about one controller (`OneController`, as `deploy/minimal/controller.yaml:99` runs it; while two
overlap in a rolling update they do not hold, and `autoscaler_two` checks what does). `Broken = {}` is no restriction of
its own: in a prefix of a behaviour calls fail a finite number of times, and `MaxFaults` is any number; a broken queue adds
only the kinds of failure outside `Faults`. Each theorem excludes one kind, with which TLC finds the property violated (section 5):

- `AutoscalerCooldown` (`CooldownRespected`, without `"reply"`). What is measured is the time since the write, what is compared the
  time since its reply. `ScaleRemembered` relates them: outside the call that has just written, the remembered age is at most
  the real one. `DecisionsDue` carries the guard from `Decide` to `UpdateScale`: between the two, time only passes, and
  whether the pool shrinks is known from `current`, which nobody else changes.
- `AutoscalerActivity` (`NoScaleDownAfterActivity`, without `"replicas"`). `ActivityNoticed`: work seen by `GetStats` is in
  `lastActivity` with an age of at most the real one, or still in the locals of the visit that saw it, whose next step
  records it, or the queue has no Deployment to shrink.
- `AutoscalerLoad` (`LoadedPoolKept`, without `"consumer"`). `CountsTrue`: the count an evaluation works with is the one the consumer
  had when it was read; then `DesiredUnderloaded`.
- `AutoscalerRefinement` (`RefinesReplicaControl`, without `"reply"`), from the invariants of `AutoscalerCooldown`: a write is
  `ReplicaControl`'s rescaling or its deployment, every other step a passage of time or a stutter.

The assumptions are those of the modules: `Min <= Max` in every configuration, and
bounds that are natural numbers. `config.Load` does not check the first: a file that
sets only `min`, to 11 or more, gets `max` 10. The clamp then yields `Max`, below
`Min`.

The last part of `ScaleStrategyProofs`: whatever a file holds, `Load` makes a configuration the strategies can be
evaluated with (`LoadedIsConfig`: never a target of 0 to divide by; `LoadedIsEffective`), in what
case the bounds come out in order and in what case not (`LoadedBoundsOrdered`, `LoadedBoundsUnordered`), that loading twice changes
nothing (`LoadIdempotent`), and that no file gives a queue without retries (`LoadedRetries`).

`JobDeliveryProofs`, for any number of jobs, pods, retries, crashes and lost messages:

- `DeliveryTypeOK`: what waits is in the stream and is not given back as well, what is completed has left it.
- `DeliveryOneAtATime`, `DeliveryOneEnd`, `DeliveryDeadOnce`, `DeliveryRefinesLifecycle`, for any time limits of sidecar and
  consumer and any change of `max_retries`. Each speaks of the jobs that are not `overtaken`. None of them is inductive. The
  invariant `Inv` adds: no job is delivered more often than one of the limits allows, a pod's own attempt is not ahead of the
  consumer's count, and a job that is dead-lettered, or gone without being completed, has had as many deliveries as one of
  the limits asks for (`Counts`). Of jobs that are not overtaken it says that one pod at most has them (`Alone`), that what a
  pod has is not to be delivered again and has not ended (`Underway`), and that what is dead-lettered is so once and is neither
  to be delivered again nor completed (`Buried`). For the
  refinement each step is shown to move at most one job, as `JobLifecycle` allows, or none (`StateMoves`, `SameState`, and `LetGo` for
  a pod that loses what it had).

Its last part carries these over to the scaled pool: every step of `PoolNext` is one of `JobDelivery` or
the removal of a pod (`PoolSteps`), which is, for the streams, one more way to die that no bound
limits. `PoolTypeCorrect` takes the bounds of the pool from `DesiredBounds`; `PoolOneAtATime`,
`PoolOneEnd`, `PoolDeadOnce` and `PoolRefinesLifecycle` follow as above.

`SubmissionProofs`, for any number of deliveries, any inputs and any schemas: `SubmissionTypeCorrect`, with which
no delivery ever has two jobs, and `SubmissionTruth` (`ToldTheTruth`). The invariant (`Told`) fixes what
each answer says of the controller's status: "queued" only after 201, and a refusal only of a delivery
that was never posted or that the controller has refused for good, so that no job of it can follow.

What the validator means is `AcceptedAsDocumented`: for a schema written with the documented table (`Documented`) and any payload,
`Accepted` and `Conforms` agree, field by field, but where `fmt` prints a value of the payload like another one of the enum (`TakenForListed`: then an accepted
payload need not conform) or the listed value otherwise (`ListedMissed`: then a refused one may). With the invariant `Judged` (a delivery beyond
`Validate` has the verdict of its own payload) this gives `SubmissionAdmitted` (`AdmittedAsDocumented`). `RawSchemasAssumption`
says what a decoder delivers: enums are lists.

`PushedFilesComplete` is about the loops of `parsePushEvent`, for all commits, by induction over the files they touch: each
is named, and none twice. `Pushed` relates the job to the event it comes from; `SubmissionPushedFiles` (`PushedFilesNamedOnce`)
follows. `InputAssumption` gives a well-formed push the types of the struct it is decoded into.

`SequenceInduction` is what makes induction over data possible here. The induction theorems of the library have a predicate for a parameter,
which the provers cannot instantiate; but `WFMin` has a set, so that every non-empty set of numbers has a least one
(`LeastNumber`), and the numbers up to `n` for which a loop's invariant holds are a set (`UpToInduction`). `PrefixRecursion` shows
that a recursive function over the prefixes of a sequence has the value its equation says, `FlattenRange` what is in
a flattened sequence. `AppendRange` and `ConcatRange` are the small change.

`ReviewWorkerProofs`, for any pull request, any output of the LLM, any number of attempts, pushes and crashes:

- `DiffMapLines`: the line numbers `buildDiffMap` finds in a patch are those of its right side, as GitHub counts them without
  running through the patch. The induction over the lines (`ScanInv`) relates the counter to the last hunk header. They are all of them
  unless a hunk starts at line 0, as that of a deleted file does.
- `ShownOnce`, `StandsNearby`, `LinesOfFiles`, `ReactionOfOwn`: what becomes of a comment between the LLM and the review, from lemmas about
  `findDiffLine` (`FindDiffLineFits`) and `resolveFilename` (`ResolveFits`).
- `ReviewTypeCorrect`, `ReviewReported`, `ReviewCommentsOnce`, `ReviewCommentsNearby`, `ReviewDiffNotOlder`, `ReviewReactionsFit`: the
  properties of the run. `ReviewInv` says of each attempt by its step what it has (`AttemptInv`): no review before `post`, at
  most one after it, which is the request built from its own comments and its own diff, or the fallback made of that; the diff was fetched after
  the commit was; and GitHub has the review on that commit, if there is one (`OfCommit`). `ReviewDiffNotOlder` follows for attempts that know a commit.
- `ReviewLinesKnown` (`LinesRefusedOnlyIfStale`), with `PlainDiffs`: each patch starts with a header, and no line of the file holds the text of one
  (section 5 says what happens otherwise).

`SandboxExecProofs`, for any limits, requests, streams and commands: `SandboxTypeCorrect`, `SandboxOutput`
(`OutputFaithful`), `SandboxAnswer` (`AnswerFaithful`) and `SandboxCutOff` (`CutOffInTime`). The invariant says of each
stream that its buffer holds the first bytes read, up to the limit, and that a copier stops only when it has read
everything or more than the limit (`StreamOK`); which parts of the state belong to which phase (`PhaseOK`);
and where a deadline comes from (`DeadlineOK`). `WriteKeeps` is the lemma about `limitedWriter.Write`, `TimeoutBounds` the one
about `resolveTimeout`, overflow included.

Only model-checked: everything under fairness (`Settles`, `EntersBounds`, `Suffices`,
`ScalesToWork`, `DrainsWhenIdle`, `EndsUnlessTaken`, `EndsOrAllTried`, `PoolRests`,
`AnsweredUnlessPipeHeld`, `AttemptEnds`), which is out of the provers' reach. Every safety property of a passing run is a theorem,
with the hypotheses given above.

## 5. What the code does otherwise than its documentation says

- `scaler_restart`: `EnsureDeployment` sets an existing Deployment back to
  `replicas.min` (`deployer.go:143`), so a restart of the controller removes all
  scaled-up workers at once, whatever `scale_down_rate`.
- `pool_scale_down`: a scale-down takes a worker that is busy with the last delivery of a
  job; `MaxDeliver` is used up, so JetStream neither delivers the job again nor moves it, and it
  stays in the stream, undelivered, until `MaxAge` (`nats.go:91`). A crash of the pod has the same effect.
- `delivery_overlap`: the sidecar is not told `processing_timeout` (`deployer.go:107-113`), though `docs/ARCHITECTURE.md:926`
  says it "sets both the NATS AckWait and the HTTP client timeout"; by `docs/ARCHITECTURE.md:313` its limit is five minutes. With a
  `processing_timeout` of one minute (`deploy/base/controller.yaml:78`) a slow worker's job is delivered again while it
  runs, and ends both completed and dead-lettered, without any fault. It is so with equal limits as well (`delivery`).

Found on the way; no run of its own checks them:

- The cooldown starts only when `Scale` returns no error (`autoscaler.go:150`): after a write
  whose reply was lost the next tick scales again (`docs/ARCHITECTURE.md:495`: "After any scale
  event"). `CooldownRespected` fails with `"reply"` in `Faults`.
- An error of `consumer.Info` reads as an empty queue (`nats.go:165`): a loaded pool shrinks by a count that was never made.
  `LoadedPoolKept` fails with `"consumer"` in `Faults`.
- Activity is recorded after a call that can fail (`autoscaler.go:91-102`), and is lost with it.
  `NoScaleDownAfterActivity` fails with `"replicas"` in `Faults`.
- Values of an enum are compared by how `fmt` prints them (`schema.go:188`), while `docs/ARCHITECTURE.md:584` says "Value must be one
  of the listed values". Where the schema gives no type, the string "5" is taken for the number 5; and a number of a million or more
  never equals the same one of the enum, since JSON's is a float64 and prints as 1e+06. `AdmittedAsDocumented` names the two
  cases (`TakenForListed`, `ListedMissed`), both occur in the run, and it fails without either of them.
- Every action of a pull request queues a job; for other actions than `opened` and `synchronize` one without a
  pull request (`cmd/webhook/main.go:285-292`), though `docs/ARCHITECTURE.md:1800` lists these two.
- A review without a commit goes to the head of the pull request (`codereview-worker/main.go:83`, `omitempty`): when the job
  names none and `fetchPRInfo` fails, which is only logged (`:205-217`), a commit pushed after `fetchPRFiles` gets the review of the diff
  before it. `DiffNotOlder` excludes this case, which occurs in the run: without the exception it fails.
- `max_retries: 0` gives four deliveries (`config.go:60`, theorem `LoadedRetries`);
  `docs/ARCHITECTURE.md:1438` says "only 1 delivery attempt".
- A command whose output crosses the limit in the middle of a chunk fails with "short write", or dies of
  SIGPIPE, although `limitedWriter` means to discard what is too much (`sandbox-worker/main.go:216-224`). A timeout of so many seconds
  that nanoseconds do not fit an `int64` is no timeout or a short one (`:200`). The timeout kills the
  shell only (`:136`).
- `buildDiffMap` looks for a hunk header anywhere in a line (`codereview-worker/main.go:839-843`), so that a line of a file with the
  text of one is taken for it: the lines after it get other numbers, and a comment on them may be posted elsewhere or
  refused. `PlainPatch` excludes such patches.
- A job whose review could not be posted is a success and is not tried again
  (`codereview-worker/main.go:310`).

## 6. Plan

*Done*: strategies, loop, autoscaler with Kubernetes; job delivery, by itself and under a scaled pool; configuration,
validation, submission; the sandbox and the code review worker; the proofs of section 4.

Left, in order of importance:

1. What two overlapping controllers keep beyond the bounds: a cooldown between the writes of each, and which of the
   theorems about one controller survive a rolling update.
2. Status events of the workers and their order at the job store, once the controller's source is there.

## 7. Not modelled

The pod template (containers, labels, resources, runtime class): data no property
tells apart. The NLP worker: a handler without state around a text library. The text of prompts and
review comments. Metrics, dashboard, deployment files, scripts: no state of their
own. `cmd/controller` and `cmd/sidecar` are not in the repository; what the models need
of them is taken from how `src/` uses them and marked external. Status updates that
Kubernetes itself makes to a Deployment also change its `resourceVersion`; they appear
as failing updates (`"update"` in `Faults`).
