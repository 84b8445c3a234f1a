----------------------------- MODULE JobDelivery -----------------------------
(***************************************************************************)
(* The way of the jobs of one queue from Publish to the worker and out of  *)
(* the stream: the stream and the consumer that SetupQueue configures      *)
(* (pkg/queue/nats.go), the pods that EnsureDeployment creates             *)
(* (pkg/k8s/deployer.go), each a worker and a sidecar, and the dead letter *)
(* stream.                                                                 *)
(*                                                                         *)
(* The sidecar is not in the repository; its loop is the one the pod's     *)
(* environment (QUEUE_NAME, WORKER_URL, MAX_RETRIES) and the worker's      *)
(* protocol call for: fetch one message, post it to the worker, then ack,  *)
(* nak, or, after the last attempt, terminate and dead-letter it.          *)
(*                                                                         *)
(* A message is the job it carries: Publish gives every job one MsgID.     *)
(***************************************************************************)
EXTENDS Integers, FiniteSets

CONSTANTS
    Job, Pod,
    MaxRetries,   \* max_retries the queue is first set up with
    NewRetries,   \* values a later configuration may give it
    ProcessingTimeout,  \* processing_timeout, in ticks
    HttpTimeout,  \* time limit of the sidecar's call of the worker, in ticks
    MaxCrashes,   \* bound: how many pods may die
    MaxLost       \* bound: how many messages to JetStream may be lost

ASSUME DeliveryAssumption ==
    /\ Job # {} /\ MaxRetries \in Nat /\ NewRetries \subseteq Nat
    /\ ProcessingTimeout \in Nat \ {0} /\ HttpTimeout \in Nat \ {0}
    /\ MaxCrashes \in Nat /\ MaxLost \in Nat

VARIABLES
    \* JetStream
    published,   \* jobs that were published
    stream,      \* jobs in the main stream
    delivered,   \* NumDelivered of each message
    waiting,     \* messages delivered and neither answered nor overdue
    ackAge,      \* time since the last delivery of each waiting message
    redeliver,   \* messages to be delivered again
    maxDeliver,  \* MaxDeliver of the consumer
    dlq,         \* number of copies of each job in the dead letter stream
    \* Kubernetes and the pods
    retriesEnv,  \* MAX_RETRIES in the Deployment's pod template
    pod,         \* what each pod is doing
    \* bounds and observations
    crashes, lost,
    completed,   \* jobs whose message was removed by an Ack
    overtaken    \* jobs given back although a pod had them or had buried them

queue == <<published, stream, delivered, waiting, ackAge, redeliver, dlq,
           completed, overtaken>>
vars  == <<queue, maxDeliver, retriesEnv, pod, crashes, lost>>

Steps == {"down", "idle", "post", "ack", "nak", "term", "dlq"}
Busy  == Steps \ {"down", "idle"}

\* job, attempt and age are meaningful while a message is in the pod's hands.
Resting(step, retries) ==
    [step |-> step, retries |-> retries,
     job |-> CHOOSE j \in Job : TRUE, attempt |-> 0, age |-> 0]

\* Mutant: one retry is one delivery.
DeliveriesOfRetries(retries) == retries

\* MaxDeliver of the consumer: one attempt and the retries.
Deliveries(retries) == retries + 1

AckWait == ProcessingTimeout

Init ==
    /\ published = {} /\ stream = {}
    /\ delivered = [j \in Job |-> 0]
    /\ waiting = {} /\ redeliver = {}
    /\ ackAge = [j \in Job |-> 0]
    /\ maxDeliver = Deliveries(MaxRetries)
    /\ dlq = [j \in Job |-> 0]
    /\ retriesEnv = MaxRetries
    /\ pod = [p \in Pod |-> Resting("down", MaxRetries)]
    /\ crashes = 0 /\ lost = 0
    /\ completed = {} /\ overtaken = {}

-----------------------------------------------------------------------------
(* JetStream.                                                               *)

\* A message leaves a work-queue stream, and with it the consumer's state.
Remove(j) ==
    /\ stream' = stream \ {j}
    /\ waiting' = waiting \ {j}
    /\ redeliver' = redeliver \ {j}
    /\ ackAge' = [ackAge EXCEPT ![j] = 0]

\* A delivery has failed: the message will be delivered again, unless it has
\* been delivered MaxDeliver times; then it stays in the stream undelivered.
GiveBack(j) ==
    /\ waiting' = waiting \ {j}
    /\ ackAge' = [ackAge EXCEPT ![j] = 0]
    /\ redeliver' = IF delivered[j] < maxDeliver
                      THEN redeliver \cup {j} ELSE redeliver

InHands(j) == \E p \in Pod : pod[p].step \in Busy /\ pod[p].job = j

\* The server does not know what the sidecar is doing: the worker may still be
\* at work, or the job dead-lettered and its Term lost.
AckWaitExpires(j) ==
    /\ j \in waiting /\ ackAge[j] >= AckWait
    /\ GiveBack(j)
    /\ overtaken' = IF delivered[j] < maxDeliver /\ (InHands(j) \/ dlq[j] > 0)
                      THEN overtaken \cup {j} ELSE overtaken
    /\ UNCHANGED <<published, stream, delivered, dlq, completed>>
    /\ UNCHANGED <<maxDeliver, retriesEnv, pod, crashes, lost>>

\* Mutant: every pod has a consumer of its own, and what one of them waits for
\* another hands out.
DeliverableToEach == {j \in stream : delivered[j] < maxDeliver}

\* Messages the consumer may hand out.
Deliverable ==
    {j \in stream : delivered[j] = 0} \cup {j \in redeliver : delivered[j] < maxDeliver}

\* Mutant: a job may be published again, as no MsgID tells the copies apart.
PublishWithoutMsgID(j) ==
    /\ published' = published \cup {j}
    /\ stream' = stream \cup {j}
    /\ UNCHANGED <<delivered, waiting, ackAge, redeliver, dlq, completed, overtaken>>
    /\ UNCHANGED <<maxDeliver, retriesEnv, pod, crashes, lost>>

\* The caller makes up the id of each job and publishes it once.
Publish(j) ==
    /\ j \notin published
    /\ published' = published \cup {j}
    /\ stream' = stream \cup {j}
    /\ UNCHANGED <<delivered, waiting, ackAge, redeliver, dlq, completed, overtaken>>
    /\ UNCHANGED <<maxDeliver, retriesEnv, pod, crashes, lost>>

-----------------------------------------------------------------------------
(* The configuration: SetupQueue and EnsureDeployment of a controller that  *)
(* starts with another max_retries.                                         *)

\* CreateOrUpdateConsumer; EnsureDeployment has not come to this queue yet.
SetupQueue ==
    /\ maxDeliver = Deliveries(retriesEnv)
    /\ \E r \in NewRetries \ {retriesEnv} : maxDeliver' = Deliveries(r)
    /\ UNCHANGED <<queue, retriesEnv, pod, crashes, lost>>

\* Mutant: MAX_RETRIES is taken for the number of deliveries.
EnsureDeploymentOfDeliveries ==
    /\ maxDeliver # Deliveries(retriesEnv)
    /\ retriesEnv' = maxDeliver
    /\ UNCHANGED <<queue, maxDeliver, pod, crashes, lost>>

\* The pod template gets the new MAX_RETRIES; running pods keep theirs until
\* they are replaced.
EnsureDeployment ==
    /\ maxDeliver # Deliveries(retriesEnv)
    /\ retriesEnv' = maxDeliver - 1
    /\ UNCHANGED <<queue, maxDeliver, pod, crashes, lost>>

-----------------------------------------------------------------------------
(* The pods.                                                                *)

Becomes(p, locals) == pod' = [pod EXCEPT ![p] = locals]
Step(p, step)      == Becomes(p, [pod[p] EXCEPT !.step = step])
Rest(p)            == Becomes(p, Resting("idle", pod[p].retries))

PodStart(p) ==
    /\ pod[p].step = "down"
    /\ Becomes(p, Resting("idle", retriesEnv))
    /\ UNCHANGED <<queue, maxDeliver, retriesEnv, crashes, lost>>

\* The rolling update replaces idle pods of an old template.
PodReplaced(p) ==
    /\ pod[p].step = "idle" /\ pod[p].retries # retriesEnv
    /\ Becomes(p, Resting("down", retriesEnv))
    /\ UNCHANGED <<queue, maxDeliver, retriesEnv, crashes, lost>>

\* A pod dies, is evicted or scaled away; what it had in hand is forgotten.
PodCrash(p) ==
    /\ pod[p].step # "down"
    /\ crashes < MaxCrashes /\ crashes' = crashes + 1
    /\ Becomes(p, Resting("down", retriesEnv))
    /\ UNCHANGED <<queue, maxDeliver, retriesEnv, lost>>

Fetch(p) ==
    /\ pod[p].step = "idle"
    /\ \E j \in Deliverable :
         /\ delivered' = [delivered EXCEPT ![j] = @ + 1]
         /\ waiting' = waiting \cup {j}
         /\ ackAge' = [ackAge EXCEPT ![j] = 0]
         /\ redeliver' = redeliver \ {j}
         /\ Becomes(p, [pod[p] EXCEPT !.step = "post", !.job = j,
                                      !.attempt = delivered[j] + 1])
    /\ UNCHANGED <<published, stream, dlq, completed, overtaken>>
    /\ UNCHANGED <<maxDeliver, retriesEnv, crashes, lost>>

\* Mutant: the first try is counted as a retry.
LastAttemptEarly(p) == pod[p].attempt >= pod[p].retries

LastAttempt(p) == pod[p].attempt >= pod[p].retries + 1

\* The worker's answer, or none within the sidecar's limit, which is a failure.
Answer(p) ==
    /\ pod[p].step = "post"
    /\ \/ Step(p, "ack")
       \/ LastAttempt(p) /\ Step(p, "term")
       \/ ~LastAttempt(p) /\ Step(p, "nak")
    /\ UNCHANGED <<queue, maxDeliver, retriesEnv, crashes, lost>>

\* A message to JetStream is lost on its way: nobody waits for a reply.
Lost == lost < MaxLost /\ lost' = lost + 1

Ack(p) ==
    LET j == pod[p].job IN
    /\ pod[p].step = "ack"
    /\ Rest(p)
    /\ \/ /\ j \in stream /\ UNCHANGED lost
          /\ Remove(j) /\ completed' = completed \cup {j}
       \/ /\ j \notin stream /\ UNCHANGED lost
          /\ UNCHANGED <<stream, waiting, ackAge, redeliver, completed>>
       \/ /\ Lost
          /\ UNCHANGED <<stream, waiting, ackAge, redeliver, completed>>
    /\ UNCHANGED <<published, delivered, dlq, overtaken>>
    /\ UNCHANGED <<maxDeliver, retriesEnv, crashes>>

\* A message that is not waiting any more is not given back a second time.
Nak(p) ==
    LET j == pod[p].job IN
    /\ pod[p].step = "nak"
    /\ Rest(p)
    /\ \/ j \in waiting /\ GiveBack(j) /\ UNCHANGED lost
       \/ /\ j \notin waiting /\ UNCHANGED <<waiting, ackAge, redeliver, lost>>
       \/ /\ Lost /\ UNCHANGED <<waiting, ackAge, redeliver>>
    /\ UNCHANGED <<published, stream, delivered, dlq, completed, overtaken>>
    /\ UNCHANGED <<maxDeliver, retriesEnv, crashes>>

Term(p) ==
    /\ pod[p].step = "term"
    /\ Step(p, "dlq")
    /\ \/ Remove(pod[p].job) /\ UNCHANGED lost
       \/ Lost /\ UNCHANGED <<stream, waiting, ackAge, redeliver>>
    /\ UNCHANGED <<published, delivered, dlq, completed, overtaken>>
    /\ UNCHANGED <<maxDeliver, retriesEnv, crashes>>

\* Mutant: the publication is repeated until its reply arrives.
PublishToDLQRepeated(p) ==
    /\ pod[p].step = "dlq"
    /\ dlq' = [dlq EXCEPT ![pod[p].job] = @ + 1]
    /\ \/ Rest(p) /\ UNCHANGED lost
       \/ Lost /\ UNCHANGED pod
    /\ UNCHANGED <<published, stream, delivered, waiting, ackAge, redeliver>>
    /\ UNCHANGED <<completed, overtaken>>
    /\ UNCHANGED <<maxDeliver, retriesEnv, crashes>>

\* Published without a MsgID: nothing removes a second copy.
PublishToDLQ(p) ==
    /\ pod[p].step = "dlq"
    /\ Rest(p)
    /\ \/ dlq' = [dlq EXCEPT ![pod[p].job] = @ + 1] /\ UNCHANGED lost
       \/ Lost /\ UNCHANGED dlq
    /\ UNCHANGED <<published, stream, delivered, waiting, ackAge, redeliver>>
    /\ UNCHANGED <<completed, overtaken>>
    /\ UNCHANGED <<maxDeliver, retriesEnv, crashes>>

\* The calls of workers take time, everything else is prompt.
Tick ==
    /\ \A p \in Pod :
         /\ pod[p].step \in {"down", "idle", "post"}
         /\ pod[p].step = "post" => pod[p].age < HttpTimeout
    /\ ackAge' = [j \in Job |-> IF j \in waiting /\ ackAge[j] < AckWait
                                  THEN ackAge[j] + 1 ELSE ackAge[j]]
    /\ pod' = [p \in Pod |-> IF pod[p].step = "post"
                               THEN [pod[p] EXCEPT !.age = @ + 1] ELSE pod[p]]
    /\ UNCHANGED <<published, stream, delivered, waiting, redeliver, dlq, completed, overtaken>>
    /\ UNCHANGED <<maxDeliver, retriesEnv, crashes, lost>>

Serve(p) ==
    \/ PodStart(p) \/ PodReplaced(p) \/ Fetch(p) \/ Answer(p)
    \/ Ack(p) \/ Nak(p) \/ Term(p) \/ PublishToDLQ(p)

Next ==
    \/ \E j \in Job : Publish(j) \/ AckWaitExpires(j)
    \/ SetupQueue \/ EnsureDeployment
    \/ \E p \in Pod : Serve(p) \/ PodCrash(p)
    \/ Tick

Spec == Init /\ [][Next]_vars

\* Pods run and are restarted, workers answer within the limit, the consumer's
\* timers go off, and the controller that has called SetupQueue goes on.
Fairness ==
    /\ \A p \in Pod : WF_vars(Serve(p))
    /\ \A j \in Job : WF_vars(AckWaitExpires(j))
    /\ WF_vars(Tick) /\ WF_vars(EnsureDeployment)

FairSpec == Spec /\ Fairness

-----------------------------------------------------------------------------
(* Properties.                                                              *)

Retries == {MaxRetries} \cup NewRetries

\* Type correctness; what waits is in the stream and not given back as well.
TypeOK ==
    /\ published \subseteq Job /\ stream \subseteq published
    /\ waiting \subseteq stream /\ redeliver \subseteq stream \ waiting
    /\ completed \subseteq published \ stream /\ overtaken \subseteq published
    /\ delivered \in [Job -> Nat] /\ dlq \in [Job -> Nat]
    /\ ackAge \in [Job -> 0..AckWait]
    /\ maxDeliver \in {Deliveries(r) : r \in Retries} /\ retriesEnv \in Retries
    /\ pod \in [Pod -> [step : Steps, retries : Retries, job : Job,
                        attempt : Nat, age : 0..HttpTimeout]]
    /\ crashes \in 0..MaxCrashes /\ lost \in 0..MaxLost

\* A job is in the hands of two pods only if its AckWait ran out under the
\* first of them: neither a nak, nor a pod that dies or is taken away, nor a
\* new max_retries gives it to a second pod while the first still has it.
OneAtATime ==
    \A p, q \in Pod :
        /\ pod[p].step \in Busy /\ pod[q].step \in Busy
        /\ pod[p].job = pod[q].job /\ pod[p].job \notin overtaken
        => p = q

\* A job is both completed and in the dead letter stream only if it was given
\* to another pod while one had it, or after one had buried it: that Term and
\* PublishToDLQ are two calls, either of which may be lost, is not enough.
OneEnd == \A j \in completed : dlq[j] > 0 => j \in overtaken

\* PublishToDLQ has no MsgID to remove duplicates by, and yet only such a job
\* can be twice in the dead letter stream, whatever is done to max_retries.
DeadOnce == \A j \in Job : dlq[j] > 1 => j \in overtaken

Ended(j) == j \in completed \/ dlq[j] > 0

\* Every published job is completed or dead-lettered in the end: the attempts
\* the consumer makes are those after which the sidecar dead-letters.
EveryJobEnds == \A j \in Job : j \in published ~> Ended(j)

\* No job ends twice, completed and dead-lettered: "processing_timeout sets
\* both the NATS AckWait and the HTTP client timeout".
EndsOneWay == \A j \in completed : dlq[j] = 0

JobState(j) ==
    IF j \notin published THEN "absent"
    ELSE IF j \in completed THEN IF dlq[j] > 0 THEN "both" ELSE "completed"
    ELSE IF dlq[j] > 0 THEN "dead"
    ELSE IF j \in stream \/ InHands(j) THEN "open" ELSE "lost"

\* The consumer has made the deliveries max_retries asks for and waits for no
\* answer; or a pod has given the job up by its own MAX_RETRIES in vain.
AllTried(j) ==
    \/ delivered[j] >= maxDeliver /\ j \notin waiting
    \/ JobState(j) = "lost"

\* Every job that waits for its first delivery ends, or it comes to have had
\* the attempts that the max_retries in force at that moment asks for; and if
\* nothing dies and no message is lost it ends.
EndsOrAllTried ==
    \A j \in Job :
        /\ (j \in published /\ delivered[j] = 0) ~> (Ended(j) \/ AllTried(j))
        /\ [](crashes = 0 /\ lost = 0) => (j \in published ~> Ended(j))

Lifecycle == INSTANCE JobLifecycle
    WITH Limits <- {Deliveries(r) : r \in Retries},
         state <- [j \in Job |-> JobState(j)], tries <- delivered, late <- overtaken

\* Streams, timers, crashes and lost messages carry out the lifecycle: no job
\* is tried more often than max_retries allows, given up or lost before its
\* last try, or leaves the state it ended in, unless it was overtaken.
RefinesJobLifecycle == Lifecycle!Spec

=============================================================================
