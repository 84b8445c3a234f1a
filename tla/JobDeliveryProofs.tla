-------------------------- MODULE JobDeliveryProofs --------------------------
(***************************************************************************)
(* Type correctness of job delivery under every fault, with any limits and *)
(* any change of max_retries; and that a job whose deliveries overlap, or  *)
(* that ends twice, was given back by JetStream while a pod had it or had  *)
(* buried it: AckWait is the only thing that comes between a job and its   *)
(* one end.                                                                *)
(*                                                                         *)
(* The last part shows the same while the autoscaler changes the number of *)
(* the pods (WorkerPool): a removal is, for the streams, one more way for  *)
(* a pod to die, and no bound limits it.  Only that part uses the          *)
(* assumption on WorkerPool's constants.                                   *)
(***************************************************************************)
EXTENDS WorkerPool, ScaleStrategyProofs, FiniteSetTheorems

PodType == [step : Steps, retries : Retries, job : Job,
            attempt : Nat, age : 0 .. HttpTimeout]

LEMMA Constants ==
    /\ MaxRetries \in Nat /\ NewRetries \subseteq Nat
    /\ Retries \subseteq Nat /\ MaxRetries \in Retries
    /\ AckWait \in Nat \ {0} /\ HttpTimeout \in Nat \ {0}
    /\ MaxCrashes \in Nat /\ MaxLost \in Nat
    /\ (CHOOSE j \in Job : TRUE) \in Job
  BY DeliveryAssumption DEF Retries, AckWait

LEMMA RestingType ==
    ASSUME NEW step \in Steps, NEW retries \in Retries
    PROVE  Resting(step, retries) \in PodType
  BY Constants DEF Resting, PodType

\* The fields of a pod one by one.
LEMMA PodFields ==
    ASSUME TypeOK, NEW p \in Pod
    PROVE  /\ pod[p].step \in Steps /\ pod[p].retries \in Retries
           /\ pod[p].job \in Job /\ pod[p].attempt \in Nat
           /\ pod[p].age \in 0 .. HttpTimeout
  BY DEF TypeOK

\* A step of one pod that leaves the streams alone.
LEMMA PodStepType ==
    ASSUME TypeOK, NEW p \in Pod, NEW locals \in PodType, Becomes(p, locals),
           UNCHANGED <<queue, maxDeliver, retriesEnv>>,
           crashes' \in 0 .. MaxCrashes, lost' \in 0 .. MaxLost
    PROVE  TypeOK'
  BY DEF TypeOK, Becomes, PodType, queue, Deliveries, Retries, Steps

LEMMA StepType ==
    ASSUME TypeOK, NEW p \in Pod, NEW step \in Steps
    PROVE  [pod[p] EXCEPT !.step = step] \in PodType
  BY DEF TypeOK, PodType

LEMMA LostType ==
    ASSUME TypeOK, Lost \/ UNCHANGED lost
    PROVE  lost' \in 0 .. MaxLost
  BY Constants DEF TypeOK, Lost

LEMMA InitType == Init => TypeOK
<1> SUFFICES ASSUME Init PROVE TypeOK
  OBVIOUS
<1>1. Resting("down", MaxRetries) \in PodType
  BY Constants, RestingType DEF Steps
<1> QED
  BY <1>1, Constants DEF Init, TypeOK, PodType, Deliveries, Retries

LEMMA NextType ==
    ASSUME TypeOK, [Next]_vars
    PROVE  TypeOK'
<1>1. ASSUME NEW j \in Job, Publish(j) PROVE TypeOK'
  BY <1>1 DEF TypeOK, Publish
<1>2. ASSUME NEW j \in Job, AckWaitExpires(j) PROVE TypeOK'
  <2>1. overtaken' \in {overtaken, overtaken \cup {j}} /\ j \in published
    BY <1>2 DEF AckWaitExpires, TypeOK
  <2>2. ackAge' \in [Job -> 0 .. AckWait]
    BY <1>2, Constants DEF AckWaitExpires, GiveBack, TypeOK
  <2> QED
    BY <1>2, <2>1, <2>2 DEF TypeOK, AckWaitExpires, GiveBack
<1>3. CASE SetupQueue
  BY <1>3 DEF TypeOK, SetupQueue, queue, Retries
<1>4. CASE EnsureDeployment
  <2>1. PICK r \in Retries : maxDeliver = r + 1
    BY DEF TypeOK, Deliveries
  <2>2. retriesEnv' \in Retries
    BY <1>4, <2>1, Constants DEF EnsureDeployment
  <2> QED
    BY <1>4, <2>2 DEF TypeOK, EnsureDeployment, queue
<1>5. ASSUME NEW p \in Pod, PodStart(p) \/ PodReplaced(p) \/ PodCrash(p)
      PROVE  TypeOK'
  <2>1. PICK step \in Steps : Becomes(p, Resting(step, retriesEnv))
    BY <1>5 DEF PodStart, PodReplaced, PodCrash, Steps
  <2>2. Resting(step, retriesEnv) \in PodType
    BY RestingType DEF TypeOK
  <2>3. crashes' \in 0 .. MaxCrashes /\ UNCHANGED <<queue, maxDeliver, retriesEnv, lost>>
    BY <1>5, Constants DEF PodStart, PodReplaced, PodCrash, TypeOK
  <2> QED
    BY <2>1, <2>2, <2>3, PodStepType DEF TypeOK
<1>6. ASSUME NEW p \in Pod, Fetch(p) PROVE TypeOK'
  <2>1. PICK j \in Deliverable :
           /\ delivered' = [delivered EXCEPT ![j] = @ + 1]
           /\ waiting' = waiting \cup {j}
           /\ ackAge' = [ackAge EXCEPT ![j] = 0]
           /\ redeliver' = redeliver \ {j}
           /\ Becomes(p, [pod[p] EXCEPT !.step = "post", !.job = j,
                                        !.attempt = delivered[j] + 1])
    BY <1>6 DEF Fetch
  <2>2. j \in stream /\ j \in Job
    BY DEF Deliverable, TypeOK
  <2>3. pod' \in [Pod -> PodType]
    <3> DEFINE locals == [pod[p] EXCEPT !.step = "post", !.job = j,
                                        !.attempt = delivered[j] + 1]
    <3>1. delivered[j] + 1 \in Nat
      BY <2>2 DEF TypeOK
    <3>2. locals \in PodType
      BY <3>1, <2>2 DEF TypeOK, PodType, Steps
    <3>3. pod' = [pod EXCEPT ![p] = locals]
      BY <2>1 DEF Becomes
    <3> QED
      BY <3>2, <3>3 DEF TypeOK, PodType
  <2>4. delivered' \in [Job -> Nat] /\ ackAge' \in [Job -> 0 .. AckWait]
    BY <2>1, <2>2, Constants DEF TypeOK
  <2>5. waiting' \subseteq stream /\ redeliver' \subseteq stream \ waiting'
    BY <2>1, <2>2 DEF TypeOK
  <2> QED
    BY <1>6, <2>3, <2>4, <2>5 DEF Fetch, TypeOK, PodType
<1>7. ASSUME NEW p \in Pod, Answer(p) PROVE TypeOK'
  <2>1. PICK step \in Steps : Step(p, step)
    BY <1>7 DEF Answer, Steps
  <2> QED
    BY <1>7, <2>1, StepType, PodStepType DEF Answer, Step, TypeOK
<1>8. ASSUME NEW p \in Pod, Ack(p) \/ Nak(p) \/ PublishToDLQ(p) \/ Term(p)
      PROVE  TypeOK'
  <2>1. pod' \in [Pod -> PodType]
    <3>1. Resting("idle", pod[p].retries) \in PodType
      BY PodFields, RestingType DEF Steps
    <3>2. [pod[p] EXCEPT !.step = "dlq"] \in PodType
      BY StepType DEF Steps
    <3> QED
      BY <1>8, <3>1, <3>2 DEF Ack, Nak, PublishToDLQ, Term, Rest, Step, Becomes,
                             TypeOK, PodType
  <2>2. lost' \in 0 .. MaxLost
    BY <1>8, LostType DEF Ack, Nak, PublishToDLQ, Term
  <2>3. pod[p].job \in Job
    BY PodFields
  <2>8. ackAge' \in [Job -> 0 .. AckWait]
    BY <1>8, <2>3, Constants DEF Ack, Nak, PublishToDLQ, Term, Remove, GiveBack, TypeOK
  <2>4. CASE Ack(p)
    BY <2>1, <2>2, <2>3, <2>4, <2>8 DEF Ack, Remove, TypeOK, PodType
  <2>5. CASE Nak(p)
    BY <2>1, <2>2, <2>3, <2>5, <2>8 DEF Nak, GiveBack, TypeOK, PodType
  <2>6. CASE Term(p)
    BY <2>1, <2>2, <2>3, <2>6, <2>8 DEF Term, Remove, TypeOK, PodType
  <2>7. CASE PublishToDLQ(p)
    BY <2>1, <2>2, <2>3, <2>7 DEF PublishToDLQ, TypeOK, PodType
  <2> QED
    BY <1>8, <2>4, <2>5, <2>6, <2>7
<1>9. CASE Tick
  <2>1. pod' \in [Pod -> PodType]
    <3> SUFFICES ASSUME NEW p \in Pod PROVE pod'[p] \in PodType
      BY <1>9 DEF Tick
    <3>1. CASE pod[p].step = "post"
      <4>1. pod[p].age + 1 \in 0 .. HttpTimeout
        BY <1>9, <3>1, PodFields, Constants DEF Tick
      <4>2. [pod[p] EXCEPT !.age = @ + 1] \in PodType
        BY <4>1 DEF TypeOK, PodType
      <4> QED
        BY <1>9, <3>1, <4>2 DEF Tick
    <3>2. CASE pod[p].step # "post"
      BY <1>9, <3>2 DEF Tick, TypeOK, PodType
    <3> QED
      BY <3>1, <3>2
  <2>2. ackAge' \in [Job -> 0 .. AckWait]
    BY <1>9, Constants DEF Tick, TypeOK
  <2> QED
    BY <1>9, <2>1, <2>2 DEF Tick, TypeOK, PodType
<1>10. CASE UNCHANGED vars
  BY <1>10 DEF vars, queue, TypeOK
<1> QED
  BY <1>1, <1>2, <1>3, <1>4, <1>5, <1>6, <1>7, <1>8, <1>9, <1>10 DEF Next, Serve

(* Every step of the consumer and of any number of pods, whatever crashes   *)
(* or is lost, keeps the streams and the consumer's sets consistent.        *)
THEOREM DeliveryTypeOK == Spec => []TypeOK
<1> QED
  BY InitType, NextType, PTL DEF Spec

-----------------------------------------------------------------------------
(* One delivery at a time.  The first part of the invariant counts: what a  *)
(* pod knows of its job is at most what was delivered of it, a pod that     *)
(* gives a job up has had all the attempts of its own MAX_RETRIES, and a    *)
(* job leaves the stream by its end or after them.  The second part holds   *)
(* of the jobs that were not overtaken: one pod has them, they are not      *)
(* about to be delivered while it does, and they have not ended yet.        *)

Tried(j) == \E r \in Retries : delivered[j] >= r + 1

Counts ==
    /\ \A j \in waiting : delivered[j] >= 1
    /\ \A j \in Job : \E r \in Retries : delivered[j] <= r + 1
    /\ \A j \in Job : dlq[j] > 0 => j \in published /\ Tried(j)
    /\ \A j \in published : j \in stream \/ j \in completed \/ Tried(j)
    /\ \A p \in Pod :
        /\ pod[p].step \in Busy =>
              /\ pod[p].job \in published
              /\ pod[p].attempt >= 1 /\ pod[p].attempt <= delivered[pod[p].job]
        /\ pod[p].step \in {"term", "dlq"} => pod[p].attempt >= pod[p].retries + 1

Alone ==
    \A p, q \in Pod :
        /\ pod[p].step \in Busy /\ pod[q].step \in Busy
        /\ pod[p].job = pod[q].job /\ pod[p].job \notin overtaken
        => p = q

Underway ==
    \A p \in Pod :
        pod[p].step \in Busy /\ pod[p].job \notin overtaken =>
            /\ pod[p].job \notin redeliver
            /\ dlq[pod[p].job] = 0 /\ pod[p].job \notin completed

Buried ==
    \A j \in Job :
        dlq[j] > 0 /\ j \notin overtaken =>
            dlq[j] = 1 /\ j \notin redeliver /\ j \notin completed

Inv == TypeOK /\ Counts /\ Alone /\ Underway /\ Buried

\* What is delivered next nobody has and has not ended, unless it is late.
LEMMA NotDeliverable ==
    ASSUME Inv, NEW j \in Deliverable
    PROVE  /\ j \in stream /\ j \in Job /\ j \in published /\ j \notin completed
           /\ delivered[j] < maxDeliver
           /\ j \notin overtaken =>
                /\ dlq[j] = 0
                /\ \A p \in Pod : pod[p].step \in Busy => pod[p].job # j
<1>1. /\ j \in stream /\ j \in Job /\ j \in published /\ j \notin completed
      /\ delivered[j] \in Nat /\ dlq[j] \in Nat
  BY DEF Inv, TypeOK, Deliverable
<1>2. delivered[j] < maxDeliver
  BY <1>1, Constants DEF Inv, TypeOK, Deliverable, Deliveries
<1>3. ASSUME j \notin overtaken PROVE dlq[j] = 0
  <2>1. CASE delivered[j] = 0
    BY <1>1, <2>1, Constants DEF Inv, Counts, Tried
  <2>2. CASE j \in redeliver
    BY <1>1, <1>3, <2>2 DEF Inv, Buried
  <2> QED
    BY <2>1, <2>2 DEF Deliverable
<1>4. ASSUME j \notin overtaken, NEW p \in Pod, pod[p].step \in Busy
      PROVE  pod[p].job # j
  <2>1. CASE delivered[j] = 0
    BY <1>1, <1>4, <2>1, PodFields DEF Inv, Counts
  <2>2. CASE j \in redeliver
    BY <1>1, <1>4, <2>2 DEF Inv, Underway
  <2> QED
    BY <2>1, <2>2 DEF Deliverable
<1> QED
  BY <1>1, <1>2, <1>3, <1>4

\* A pod that has used up its attempts has used up those of a max_retries.
LEMMA TriedOf ==
    ASSUME Inv, NEW p \in Pod, pod[p].step \in {"term", "dlq"}
    PROVE  Tried(pod[p].job)
<1>1. /\ pod[p].step \in Busy /\ pod[p].retries \in Retries /\ pod[p].retries \in Nat
      /\ pod[p].attempt \in Nat /\ pod[p].job \in Job
  BY PodFields, Constants DEF Inv, Busy, Steps
<1>2. delivered[pod[p].job] \in Nat
  BY <1>1 DEF Inv, TypeOK
<1>3. /\ pod[p].attempt >= pod[p].retries + 1
      /\ pod[p].attempt <= delivered[pod[p].job]
  BY <1>1 DEF Inv, Counts
<1> QED
  BY <1>1, <1>2, <1>3 DEF Tried

\* A pod that stops working on its job leaves nothing to hold it to.
LEMMA RestStep ==
    ASSUME Inv, NEW p \in Pod, \A q \in Pod \ {p} : pod'[q] = pod[q],
           pod'[p].step \in {"down", "idle"},
           UNCHANGED queue, TypeOK'
    PROVE  Inv'
<1>1. pod'[p].step \notin Busy /\ pod'[p].step \notin {"term", "dlq"}
  BY DEF Busy
<1>2. Counts'
  BY <1>1 DEF Inv, Counts, Tried, queue
<1>3. Alone'
  BY <1>1 DEF Inv, Alone, queue
<1>4. Underway' /\ Buried'
  BY <1>1 DEF Inv, Underway, Buried, queue
<1> QED
  BY <1>2, <1>3, <1>4 DEF Inv

\* p has a job that was not overtaken: nobody else has it.
LEMMA JobOf ==
    ASSUME Inv, NEW p \in Pod, pod[p].step \in Busy, NEW j \in Job, j = pod[p].job
    PROVE  /\ j \in published /\ delivered[j] >= 1
           /\ j \notin overtaken =>
                /\ dlq[j] = 0 /\ j \notin completed /\ j \notin redeliver
                /\ \A q \in Pod \ {p} : pod[q].step \in Busy => pod[q].job # j
<1>1. delivered[j] \in Nat /\ pod[p].attempt \in Nat
  BY PodFields DEF Inv, TypeOK
<1> QED
  BY <1>1 DEF Inv, Counts, Alone, Underway

LEMMA FetchStep ==
    ASSUME Inv, NEW p \in Pod, Fetch(p), TypeOK'
    PROVE  Inv'
<1>1. PICK j \in Deliverable :
         /\ delivered' = [delivered EXCEPT ![j] = @ + 1]
         /\ waiting' = waiting \cup {j}
         /\ redeliver' = redeliver \ {j}
         /\ Becomes(p, [pod[p] EXCEPT !.step = "post", !.job = j,
                                      !.attempt = delivered[j] + 1])
  BY DEF Fetch
<1>2. UNCHANGED <<published, stream, dlq, completed, overtaken, maxDeliver>>
  BY DEF Fetch
<1>3. /\ pod'[p].step = "post" /\ pod'[p].job = j
      /\ pod'[p].attempt = delivered[j] + 1
      /\ \A q \in Pod \ {p} : pod'[q] = pod[q]
  BY <1>1 DEF Inv, TypeOK, Becomes
<1>4. /\ j \in stream /\ j \in Job /\ j \in published /\ j \notin completed
      /\ delivered[j] < maxDeliver
      /\ j \notin overtaken =>
            dlq[j] = 0 /\ \A q \in Pod : pod[q].step \in Busy => pod[q].job # j
  BY NotDeliverable
<1>5. /\ delivered'[j] = delivered[j] + 1 /\ delivered[j] \in Nat
      /\ \A k \in Job \ {j} : delivered'[k] = delivered[k]
      /\ \A k \in Job : delivered[k] \in Nat /\ delivered'[k] >= delivered[k]
  BY <1>1, <1>4 DEF Inv, TypeOK
<1>6. \A q \in Pod : pod[q].job \in Job /\ pod[q].attempt \in Nat
  BY PodFields DEF Inv
<1>7. Counts'
  <2>1. \A k \in waiting' : delivered'[k] >= 1
    BY <1>1, <1>5 DEF Inv, TypeOK, Counts
  <2>2. ASSUME NEW k \in Job PROVE \E r \in Retries : delivered'[k] <= r + 1
    <3>1. CASE k = j
      <4>1. PICK r \in Retries : maxDeliver = r + 1
        BY DEF Inv, TypeOK, Deliveries
      <4> QED
        BY <3>1, <4>1, <1>4, <1>5, Constants
    <3> QED
      BY <3>1, <1>5 DEF Inv, Counts
  <2>3. ASSUME NEW k \in Job, Tried(k) PROVE Tried(k)'
    <3>1. PICK r \in Retries : delivered[k] >= r + 1
      BY <2>3 DEF Tried
    <3>2. r \in Nat /\ delivered[k] \in Nat /\ delivered'[k] \in Nat
      BY <1>5, Constants DEF TypeOK
    <3>3. delivered'[k] >= r + 1
      BY <3>1, <3>2, <1>5
    <3> QED
      BY <3>3 DEF Tried, Retries
  <2>4. ASSUME NEW q \in Pod \ {p}
        PROVE  /\ pod'[q].step \in Busy =>
                      /\ pod'[q].job \in published' /\ pod'[q].attempt >= 1
                      /\ pod'[q].attempt <= delivered'[pod'[q].job]
               /\ pod'[q].step \in {"term", "dlq"} =>
                      pod'[q].attempt >= pod'[q].retries + 1
    <3>1. delivered'[pod[q].job] \in Nat
      BY <1>6 DEF TypeOK
    <3> QED
      BY <3>1, <1>2, <1>3, <1>5, <1>6 DEF Inv, Counts
  <2>5. \A k \in published : k \in Job
    BY DEF Inv, TypeOK
  <2>6. \A k \in Job : dlq'[k] > 0 => k \in published' /\ Tried(k)'
    BY <1>2, <2>3 DEF Inv, Counts
  <2>7. \A k \in published' : k \in stream' \/ k \in completed' \/ Tried(k)'
    BY <1>2, <2>3, <2>5 DEF Inv, Counts
  <2> QED
    BY <1>2, <1>3, <1>4, <1>5, <2>1, <2>2, <2>4, <2>6, <2>7 DEF Counts, Retries
<1>8. Alone'
  BY <1>2, <1>3, <1>4 DEF Inv, Alone
<1>9. Underway'
  BY <1>1, <1>2, <1>3, <1>4 DEF Inv, Underway
<1>10. Buried'
  BY <1>1, <1>2 DEF Inv, Buried
<1> QED
  BY <1>7, <1>8, <1>9, <1>10 DEF Inv

\* The worker has answered, or the sidecar's limit is over.
LEMMA WorkerStep ==
    ASSUME Inv, NEW p \in Pod, Answer(p), TypeOK'
    PROVE  Inv'
<1>1. /\ pod[p].step \in Busy /\ pod'[p].step \in Busy
      /\ pod'[p].step \in {"term", "dlq"} => LastAttempt(p)
      /\ pod'[p].job = pod[p].job /\ pod'[p].retries = pod[p].retries
      /\ pod'[p].attempt = pod[p].attempt
      /\ \A q \in Pod \ {p} : pod'[q] = pod[q]
      /\ UNCHANGED queue
  BY DEF Answer, Step, Becomes, Inv, TypeOK, Busy, Steps
<1>2. Counts'
  BY <1>1 DEF Inv, Counts, Tried, queue, LastAttempt
<1>3. Alone'
  BY <1>1 DEF Inv, Alone, queue
<1>4. Underway' /\ Buried'
  BY <1>1 DEF Inv, Underway, Buried, queue
<1> QED
  BY <1>2, <1>3, <1>4 DEF Inv

\* JetStream gives a message back because nobody has answered for it.
LEMMA ExpiryStep ==
    ASSUME Inv, NEW j \in Job, AckWaitExpires(j), TypeOK'
    PROVE  Inv'
<1>1. /\ UNCHANGED <<published, stream, delivered, dlq, completed, pod>>
      /\ waiting' = waiting \ {j}
      /\ j \in waiting /\ j \in stream /\ j \notin completed
  BY DEF AckWaitExpires, GiveBack, Inv, TypeOK
<1>2. \/ redeliver' = redeliver /\ overtaken' = overtaken
      \/ /\ redeliver' = redeliver \cup {j} /\ overtaken' = overtaken
         /\ ~InHands(j) /\ ~(dlq[j] > 0)
      \/ redeliver' = redeliver \cup {j} /\ overtaken' = overtaken \cup {j}
  BY DEF AckWaitExpires, GiveBack
<1>3. Counts'
  BY <1>1 DEF Inv, Counts, Tried
<1>4. Alone'
  BY <1>1, <1>2 DEF Inv, Alone
<1>5. Underway'
  BY <1>1, <1>2 DEF Inv, Underway, InHands
<1>6. Buried'
  BY <1>1, <1>2 DEF Inv, Buried
<1> QED
  BY <1>3, <1>4, <1>5, <1>6 DEF Inv

\* The sidecar answers for its job: by Ack, Nak, Term or the dead letter.
LEMMA AnswerStep ==
    ASSUME Inv, NEW p \in Pod, Ack(p) \/ Nak(p) \/ Term(p) \/ PublishToDLQ(p), TypeOK'
    PROVE  Inv'
<1>0. PICK j \in Job : j = pod[p].job
  BY PodFields DEF Inv
<1>1. pod[p].step \in Busy
  BY DEF Ack, Nak, Term, PublishToDLQ, Busy, Steps
<1>2. /\ j \in published /\ delivered[j] >= 1
      /\ j \notin overtaken =>
            /\ dlq[j] = 0 /\ j \notin completed /\ j \notin redeliver
            /\ \A q \in Pod \ {p} : pod[q].step \in Busy => pod[q].job # j
  BY <1>0, <1>1, JobOf
<1>3. /\ \A q \in Pod \ {p} : pod'[q] = pod[q]
      /\ \/ pod'[p].step = "idle"
         \/ /\ pod[p].step = "term" /\ pod'[p].step = "dlq" /\ pod'[p].job = j
            /\ pod'[p].attempt = pod[p].attempt /\ pod'[p].retries = pod[p].retries
  BY <1>0 DEF Ack, Nak, Term, PublishToDLQ, Rest, Step, Becomes, Resting, Inv, TypeOK
<1>4. /\ UNCHANGED <<published, delivered, overtaken>>
      /\ waiting' \in {waiting, waiting \ {j}}
      /\ redeliver' \in {redeliver, redeliver \ {j}, redeliver \cup {j}}
      /\ redeliver' = redeliver \cup {j} => pod'[p].step = "idle" \/ j \in redeliver
  <2>1. CASE Nak(p)
    <3>1. pod'[p].step = "idle"
      BY <2>1 DEF Nak, Rest, Becomes, Resting, Inv, TypeOK
    <3> QED
      BY <1>0, <2>1, <3>1 DEF Nak, GiveBack
  <2>2. CASE Ack(p) \/ Term(p) \/ PublishToDLQ(p)
    BY <1>0, <2>2 DEF Ack, Term, PublishToDLQ, Remove
  <2> QED
    BY <2>1, <2>2
<1>5. \/ /\ completed' = completed \cup {j} /\ stream' = stream \ {j} /\ dlq' = dlq
         /\ redeliver' = redeliver \ {j} /\ pod'[p].step = "idle"
      \/ /\ completed' = completed /\ stream' = stream \ {j} /\ dlq' = dlq
         /\ redeliver' = redeliver \ {j} /\ pod[p].step = "term"
      \/ /\ completed' = completed /\ stream' = stream
         /\ dlq' = [dlq EXCEPT ![j] = @ + 1]
         /\ redeliver' = redeliver /\ pod[p].step = "dlq" /\ pod'[p].step = "idle"
      \/ completed' = completed /\ stream' = stream /\ dlq' = dlq
  BY <1>0 DEF Ack, Nak, Term, PublishToDLQ, Remove, Rest, Becomes, Resting, Inv, TypeOK
<1>6. pod[p].step \in {"term", "dlq"} => Tried(j)
  BY <1>0, TriedOf
<1>7. \A k \in Job : Tried(k)' <=> Tried(k)
  BY <1>4 DEF Tried, Retries
<1>8. /\ \A k \in Job \ {j} : dlq'[k] = dlq[k]
      /\ dlq'[j] \in {dlq[j], dlq[j] + 1}
      /\ \A k \in Job : dlq[k] \in Nat
      /\ \A q \in Pod : pod[q].job \in Job
  BY <1>5, PodFields DEF Inv, TypeOK
<1>9. "idle" \notin Busy /\ "dlq" \in Busy /\ "term" \in Busy
  BY DEF Busy, Steps
<1>10. Counts'
  <2>1. \A k \in waiting' : delivered'[k] >= 1
    BY <1>4 DEF Inv, Counts
  <2>2. \A k \in Job : \E r \in Retries : delivered'[k] <= r + 1
    BY <1>4 DEF Inv, Counts
  <2>3. ASSUME NEW k \in Job, dlq'[k] > 0 PROVE k \in published' /\ Tried(k)'
    <3>1. CASE k # j
      BY <2>3, <3>1, <1>4, <1>7, <1>8 DEF Inv, Counts
    <3>2. CASE k = j /\ dlq'[j] = dlq[j]
      BY <2>3, <3>2, <1>4, <1>7 DEF Inv, Counts
    <3>3. CASE k = j /\ dlq'[j] # dlq[j]
      BY <3>3, <1>2, <1>4, <1>5, <1>6, <1>7
    <3> QED
      BY <3>1, <3>2, <3>3
  <2>4. ASSUME NEW k \in published' PROVE k \in stream' \/ k \in completed' \/ Tried(k)'
    <3>1. k \in Job /\ k \in published
      BY <1>4 DEF Inv, TypeOK
    <3>2. CASE k # j
      BY <3>1, <3>2, <1>5, <1>7 DEF Inv, Counts
    <3>3. CASE k = j
      BY <3>1, <3>3, <1>5, <1>6, <1>7 DEF Inv, Counts
    <3> QED
      BY <3>2, <3>3
  <2>5. ASSUME NEW q \in Pod
        PROVE  /\ pod'[q].step \in Busy =>
                      /\ pod'[q].job \in published' /\ pod'[q].attempt >= 1
                      /\ pod'[q].attempt <= delivered'[pod'[q].job]
               /\ pod'[q].step \in {"term", "dlq"} =>
                      pod'[q].attempt >= pod'[q].retries + 1
    BY <1>0, <1>3, <1>4, <1>9 DEF Inv, Counts
  <2> QED
    BY <2>1, <2>2, <2>3, <2>4, <2>5 DEF Counts, Retries
<1>11. Alone'
  BY <1>0, <1>3, <1>4, <1>9 DEF Inv, Alone
<1>12. Underway'
  <2> SUFFICES ASSUME NEW q \in Pod, pod'[q].step \in Busy, pod'[q].job \notin overtaken'
               PROVE  /\ pod'[q].job \notin redeliver'
                      /\ dlq'[pod'[q].job] = 0 /\ pod'[q].job \notin completed'
    BY DEF Underway
  <2>1. CASE q # p
    <3>1. pod'[q] = pod[q] /\ pod[q].job # j
      BY <2>1, <1>2, <1>3, <1>4
    <3>2. /\ pod[q].job \notin redeliver /\ dlq[pod[q].job] = 0
          /\ pod[q].job \notin completed
      BY <3>1, <1>4 DEF Inv, Underway
    <3> QED
      BY <3>1, <3>2, <1>4, <1>5, <1>8
  <2>2. CASE q = p
    <3>1. /\ pod[p].step = "term" /\ pod'[p].step = "dlq" /\ pod'[p].job = j
          /\ j \notin overtaken
      BY <2>2, <1>3, <1>4, <1>9
    <3>2. redeliver' \in {redeliver, redeliver \ {j}}
      BY <3>1, <1>2, <1>4
    <3> QED
      BY <2>2, <3>1, <3>2, <1>2, <1>5
  <2> QED
    BY <2>1, <2>2
<1>13. Buried'
  <2> SUFFICES ASSUME NEW k \in Job, dlq'[k] > 0, k \notin overtaken'
               PROVE  dlq'[k] = 1 /\ k \notin redeliver' /\ k \notin completed'
    BY DEF Buried
  <2>1. CASE k # j
    BY <2>1, <1>4, <1>5, <1>8 DEF Inv, Buried
  <2>2. CASE k = j
    <3>1. dlq[j] = 0 /\ j \notin completed /\ j \notin redeliver
      BY <2>2, <1>2, <1>4
    <3> QED
      BY <2>2, <3>1, <1>5, <1>8
  <2> QED
    BY <2>1, <2>2
<1> QED
  BY <1>10, <1>11, <1>12, <1>13 DEF Inv

LEMMA InitInv ==
    ASSUME Init, TypeOK
    PROVE  Inv
<1>1. \A p \in Pod : pod[p].step = "down"
  BY DEF Init, Resting
<1>2. \A j \in Job : delivered[j] = 0 /\ dlq[j] = 0
  BY DEF Init
<1>3. "down" \notin Busy
  BY DEF Busy
<1>4. Counts
  <2>1. \A j \in Job : delivered[j] <= MaxRetries + 1
    BY <1>2, Constants
  <2> QED
    BY <1>1, <1>2, <1>3, <2>1, Constants DEF Init, Counts
<1> QED
  BY <1>1, <1>2, <1>3, <1>4 DEF Init, Inv, Alone, Underway, Buried

LEMMA NextInv ==
    ASSUME Inv, TypeOK', [Next]_vars
    PROVE  Inv'
<1>1. ASSUME NEW j \in Job, Publish(j) PROVE Inv'
  <2>1. UNCHANGED <<delivered, waiting, redeliver, dlq, completed, overtaken, pod>>
        /\ published' = published \cup {j} /\ stream' = stream \cup {j}
    BY <1>1 DEF Publish
  <2>2. Counts'
    BY <2>1 DEF Inv, Counts, Tried
  <2>3. Alone' /\ Underway' /\ Buried'
    BY <2>1 DEF Inv, Alone, Underway, Buried
  <2> QED
    BY <2>2, <2>3 DEF Inv
<1>2. ASSUME SetupQueue \/ EnsureDeployment \/ UNCHANGED vars PROVE Inv'
  <2>1. UNCHANGED <<queue, pod>>
    BY <1>2 DEF SetupQueue, EnsureDeployment, vars
  <2>2. Counts'
    BY <2>1 DEF Inv, Counts, Tried, queue
  <2>3. Alone' /\ Underway' /\ Buried'
    BY <2>1 DEF Inv, Alone, Underway, Buried, queue
  <2> QED
    BY <2>2, <2>3 DEF Inv
<1>3. ASSUME NEW p \in Pod, PodStart(p) \/ PodReplaced(p) \/ PodCrash(p)
      PROVE  Inv'
  <2>1. /\ \A q \in Pod \ {p} : pod'[q] = pod[q]
        /\ pod'[p].step \in {"down", "idle"}
        /\ UNCHANGED queue
    BY <1>3 DEF PodStart, PodReplaced, PodCrash, Becomes, Resting, Inv, TypeOK
  <2> QED
    BY <2>1, RestStep
<1>4. ASSUME NEW p \in Pod, Serve(p) PROVE Inv'
  BY <1>3, <1>4, FetchStep, WorkerStep, AnswerStep DEF Serve
<1>5. CASE Tick
  <2>1. /\ UNCHANGED <<published, stream, delivered, waiting, redeliver, dlq,
                        completed, overtaken>>
        /\ \A p \in Pod :
              /\ pod'[p].step = pod[p].step /\ pod'[p].job = pod[p].job
              /\ pod'[p].attempt = pod[p].attempt /\ pod'[p].retries = pod[p].retries
    BY <1>5 DEF Tick, Inv, TypeOK
  <2>2. Counts'
    BY <2>1 DEF Inv, Counts, Tried
  <2>3. Alone' /\ Underway' /\ Buried'
    BY <2>1 DEF Inv, Alone, Underway, Buried
  <2> QED
    BY <2>2, <2>3 DEF Inv
<1> QED
  BY <1>1, <1>2, <1>3, <1>4, <1>5, ExpiryStep DEF Next

(* For any number of jobs, pods, retries, crashes and lost messages, any    *)
(* limits of sidecar and consumer, and any change of max_retries.           *)
LEMMA DeliveryInvariant == Spec => []Inv
<1> QED
  BY InitInv, NextInv, DeliveryTypeOK, PTL DEF Spec

LEMMA InvConsequences == Inv => OneAtATime /\ OneEnd /\ DeadOnce
<1> SUFFICES ASSUME Inv PROVE OneAtATime /\ OneEnd /\ DeadOnce
  OBVIOUS
<1>1. OneAtATime
  BY DEF Inv, Alone, OneAtATime
<1>2. OneEnd
  <2>1. completed \subseteq Job
    BY DEF Inv, TypeOK
  <2> QED
    BY <2>1 DEF Inv, Buried, OneEnd
<1>3. DeadOnce
  BY DEF Inv, TypeOK, Buried, DeadOnce
<1> QED
  BY <1>1, <1>2, <1>3

(* ... no job is in the hands of two pods unless its AckWait ran out under  *)
(* the first: no nak, no death of a pod and no new max_retries does it.     *)
THEOREM DeliveryOneAtATime == Spec => []OneAtATime
<1> QED
  BY InvConsequences, DeliveryInvariant, PTL

(* ... no other job is both completed and in the dead letter stream.        *)
THEOREM DeliveryOneEnd == Spec => []OneEnd
<1> QED
  BY InvConsequences, DeliveryInvariant, PTL

(* ... and none is there twice, though PublishToDLQ gives it no MsgID.      *)
THEOREM DeliveryDeadOnce == Spec => []DeadOnce
<1> QED
  BY InvConsequences, DeliveryInvariant, PTL

-----------------------------------------------------------------------------
(* The lifecycle.  A job is open while it is in the stream or in a pod's    *)
(* hands; the pod that lets it go when it is no longer in the stream and    *)
(* has not ended loses it, and by Counts only after all its tries.          *)

Simulated == Lifecycle!Next \/ UNCHANGED Lifecycle!vars

LEMMA SameState ==
    ASSUME NEW j,
           (j \in published') <=> (j \in published),
           (j \in completed') <=> (j \in completed),
           dlq'[j] = dlq[j],
           (j \in stream' \/ InHands(j)') <=> (j \in stream \/ InHands(j))
    PROVE  JobState(j)' = JobState(j)
  BY DEF JobState

LEMMA Stutters ==
    ASSUME \A j \in Job : JobState(j)' = JobState(j), UNCHANGED <<delivered, overtaken>>
    PROVE  UNCHANGED Lifecycle!vars
  BY DEF Lifecycle!vars

LEMMA StateMoves ==
    ASSUME NEW j \in Job, NEW s, JobState(j)' = s,
           \A k \in Job \ {j} : JobState(k)' = JobState(k)
    PROVE  Lifecycle!Becomes(j, s)
  BY DEF Lifecycle!Becomes

LEMMA TriedAll ==
    ASSUME NEW j \in Job, Tried(j)
    PROVE  Lifecycle!AllTried(j)
<1>1. PICK r \in Retries : delivered[j] >= Deliveries(r)
  BY DEF Tried, Deliveries
<1> QED
  BY <1>1 DEF Lifecycle!AllTried

LEMMA LimitLeft ==
    ASSUME TypeOK, NEW j \in Job, delivered[j] < maxDeliver
    PROVE  Lifecycle!AttemptLeft(j)
  BY DEF TypeOK, Lifecycle!AttemptLeft

\* A pod has a job in its hands whatever the others have.
LEMMA HandsOf ==
    ASSUME Inv, NEW p \in Pod, \A q \in Pod \ {p} : pod'[q] = pod[q],
           NEW k \in Job, k # pod[p].job,
           pod'[p].step \in Busy => pod'[p].job # k
    PROVE  InHands(k)' <=> InHands(k)
  BY DEF InHands

\* A pod forgets what it had in hand: by its death, its removal, or because
\* it has answered, or believes it has.
LEMMA LetGo ==
    ASSUME Inv, NEW p \in Pod, \A q \in Pod \ {p} : pod'[q] = pod[q],
           pod'[p].step \in {"down", "idle"},
           UNCHANGED <<published, stream, completed, dlq, delivered, overtaken>>
    PROVE  Simulated
<1>1. PICK j \in Job : j = pod[p].job
  BY PodFields DEF Inv
<1>2. pod'[p].step \notin Busy
  BY DEF Busy
<1>3. \A k \in Job \ {j} : JobState(k)' = JobState(k)
  BY <1>1, <1>2, HandsOf, SameState
<1>4. CASE JobState(j)' = JobState(j)
  BY <1>3, <1>4, Stutters DEF Simulated
<1>5. CASE JobState(j)' # JobState(j)
  <2>1. /\ j \in published /\ j \notin completed /\ ~(dlq[j] > 0)
        /\ (j \in stream \/ InHands(j)') # (j \in stream \/ InHands(j))
    BY <1>5 DEF JobState
  <2>2. InHands(j)' => InHands(j)
    BY <1>2 DEF InHands
  <2>3. /\ j \notin stream /\ InHands(j) /\ ~InHands(j)'
    BY <2>1, <2>2
  <2>4. JobState(j) = "open" /\ JobState(j)' = "lost"
    BY <2>1, <2>3 DEF JobState
  <2>5. Lifecycle!Becomes(j, "lost")
    BY <1>3, <2>4, StateMoves
  <2>6. Lifecycle!AllTried(j)
    BY <2>1, <2>3, TriedAll DEF Inv, Counts
  <2> QED
    BY <2>4, <2>5, <2>6 DEF Simulated, Lifecycle!Next, Lifecycle!Lose
<1> QED
  BY <1>4, <1>5

LEMMA PublishRefines ==
    ASSUME Inv, NEW j \in Job, Publish(j)
    PROVE  Simulated
<1>1. /\ UNCHANGED <<delivered, dlq, completed, overtaken, pod>>
      /\ published' = published \cup {j} /\ stream' = stream \cup {j}
      /\ j \notin published
  BY DEF Publish
<1>2. j \notin completed /\ ~(dlq[j] > 0)
  BY <1>1 DEF Inv, TypeOK, Counts
<1>3. \A k \in Job \ {j} : JobState(k)' = JobState(k)
  BY <1>1 DEF JobState, InHands
<1>4. JobState(j) = "absent" /\ JobState(j)' = "open"
  BY <1>1, <1>2 DEF JobState
<1>5. Lifecycle!Becomes(j, "open")
  BY <1>3, <1>4, StateMoves
<1> QED
  BY <1>1, <1>4, <1>5 DEF Simulated, Lifecycle!Next, Lifecycle!Submit

LEMMA ExpiryRefines ==
    ASSUME Inv, NEW j \in Job, AckWaitExpires(j)
    PROVE  Simulated
<1>1. /\ UNCHANGED <<published, stream, delivered, dlq, completed, pod>>
      /\ j \in published /\ j \in stream /\ j \notin completed /\ delivered[j] >= 1
  BY DEF AckWaitExpires, Inv, TypeOK, Counts
<1>2. \A k \in Job : JobState(k)' = JobState(k)
  BY <1>1 DEF JobState, InHands
<1>3. CASE overtaken' = overtaken
  BY <1>1, <1>2, <1>3, Stutters DEF Simulated
<1>4. CASE overtaken' = overtaken \cup {j} /\ delivered[j] < maxDeliver
  <2>1. JobState(j) \in {"open", "dead"}
    BY <1>1 DEF JobState
  <2>2. delivered[j] > 0
    BY <1>1 DEF Inv, TypeOK
  <2>3. Lifecycle!AttemptLeft(j)
    BY <1>4, LimitLeft DEF Inv
  <2> QED
    BY <1>1, <1>2, <1>4, <2>1, <2>2, <2>3
    DEF Simulated, Lifecycle!Next, Lifecycle!Overtake
<1> QED
  BY <1>3, <1>4 DEF AckWaitExpires

LEMMA FetchRefines ==
    ASSUME Inv, NEW p \in Pod, Fetch(p)
    PROVE  Simulated
<1>1. PICK j \in Deliverable :
         /\ delivered' = [delivered EXCEPT ![j] = @ + 1]
         /\ Becomes(p, [pod[p] EXCEPT !.step = "post", !.job = j,
                                      !.attempt = delivered[j] + 1])
  BY DEF Fetch
<1>2. UNCHANGED <<published, stream, dlq, completed, overtaken>>
  BY DEF Fetch
<1>3. /\ pod'[p].step = "post" /\ pod'[p].job = j
      /\ \A q \in Pod \ {p} : pod'[q] = pod[q]
  BY <1>1 DEF Inv, TypeOK, Becomes
<1>4. /\ j \in stream /\ j \in Job /\ j \in published /\ j \notin completed
      /\ delivered[j] < maxDeliver
      /\ j \notin overtaken => dlq[j] = 0
  BY NotDeliverable
<1>5. \A k \in Job \ {j} : InHands(k)' <=> InHands(k)
  BY <1>3 DEF Fetch, InHands, Busy
<1>6. \A k \in Job : JobState(k)' = JobState(k)
  BY <1>2, <1>4, <1>5, SameState
<1>7. JobState(j) = "open" \/ (JobState(j) = "dead" /\ j \in overtaken)
  BY <1>4 DEF JobState
<1>8. Lifecycle!AttemptLeft(j)
  BY <1>4, LimitLeft DEF Inv
<1> QED
  BY <1>1, <1>2, <1>4, <1>6, <1>7, <1>8
  DEF Simulated, Lifecycle!Next, Lifecycle!Try, Lifecycle!OnlyLate

LEMMA AnswerRefines ==
    ASSUME Inv, NEW p \in Pod, Ack(p) \/ Nak(p) \/ Term(p) \/ PublishToDLQ(p)
    PROVE  Simulated
<1>1. PICK j \in Job : j = pod[p].job
  BY PodFields DEF Inv
<1>2. /\ pod[p].step \in Busy /\ InHands(j)
      /\ pod[p].step \in {"term", "dlq"} => Tried(j)
  BY <1>1, TriedOf DEF Ack, Nak, Term, PublishToDLQ, Busy, Steps, InHands
<1>3. /\ j \in published /\ delivered[j] >= 1
      /\ j \notin overtaken => dlq[j] = 0 /\ j \notin completed
  BY <1>1, <1>2, JobOf
<1>4. delivered[j] > 0 /\ dlq[j] \in Nat
  BY <1>3 DEF Inv, TypeOK
<1>5. \A q \in Pod \ {p} : pod'[q] = pod[q]
  BY DEF Ack, Nak, Term, PublishToDLQ, Rest, Step, Becomes, Inv, TypeOK
<1>6. UNCHANGED <<published, delivered, overtaken>>
  BY DEF Ack, Nak, Term, PublishToDLQ
<1>7. \A k \in Job \ {j} : InHands(k)' <=> InHands(k)
  <2>1. pod'[p].step \in Busy => pod'[p].job = j
    BY <1>1 DEF Ack, Nak, Term, PublishToDLQ, Rest, Step, Becomes, Resting,
                Busy, Inv, TypeOK
  <2> QED
    BY <1>1, <1>5, <2>1, HandsOf
<1>8. CASE Ack(p) /\ completed' = completed \cup {j} /\ stream' = stream \ {j}
                  /\ j \in stream /\ dlq' = dlq
  <2>1. \A k \in Job \ {j} : JobState(k)' = JobState(k)
    BY <1>6, <1>7, <1>8, SameState
  <2>2. j \notin completed
    BY <1>8 DEF Inv, TypeOK
  <2>3. CASE dlq[j] > 0
    <3>1. JobState(j) = "dead" /\ JobState(j)' = "both" /\ j \in overtaken
      BY <1>3, <1>4, <1>6, <1>8, <2>2, <2>3 DEF JobState
    <3>2. Lifecycle!Becomes(j, "both")
      BY <2>1, <3>1, StateMoves
    <3> QED
      BY <1>4, <1>6, <3>1, <3>2
      DEF Simulated, Lifecycle!Next, Lifecycle!Complete, Lifecycle!OnlyLate
  <2>4. CASE ~(dlq[j] > 0)
    <3>1. JobState(j) = "open" /\ JobState(j)' = "completed"
      BY <1>3, <1>6, <1>8, <2>2, <2>4 DEF JobState
    <3>2. Lifecycle!Becomes(j, "completed")
      BY <2>1, <3>1, StateMoves
    <3> QED
      BY <1>4, <1>6, <3>1, <3>2 DEF Simulated, Lifecycle!Next, Lifecycle!Complete
  <2> QED
    BY <2>3, <2>4
<1>9. CASE PublishToDLQ(p) /\ dlq' = [dlq EXCEPT ![j] = @ + 1]
  <2>1. UNCHANGED <<stream, completed>> /\ Tried(j)
    BY <1>2, <1>9 DEF PublishToDLQ
  <2>2. dlq'[j] > 0 /\ \A k \in Job \ {j} : dlq'[k] = dlq[k]
    BY <1>4, <1>9 DEF Inv, TypeOK
  <2>3. \A k \in Job \ {j} : JobState(k)' = JobState(k)
    BY <1>6, <1>7, <2>1, <2>2, SameState
  <2>4. Lifecycle!AllTried(j)
    BY <2>1, TriedAll
  <2>5. CASE dlq[j] > 0
    <3>1. JobState(j)' = JobState(j)
      BY <1>6, <2>1, <2>2, <2>5 DEF JobState
    <3> QED
      BY <1>6, <2>3, <3>1, Stutters DEF Simulated
  <2>6. CASE ~(dlq[j] > 0) /\ j \in completed
    <3>1. JobState(j) = "completed" /\ JobState(j)' = "both" /\ j \in overtaken
      BY <1>3, <1>6, <2>1, <2>2, <2>6 DEF JobState
    <3>2. Lifecycle!Becomes(j, "both")
      BY <2>3, <3>1, StateMoves
    <3> QED
      BY <1>6, <2>4, <3>1, <3>2
      DEF Simulated, Lifecycle!Next, Lifecycle!Bury, Lifecycle!OnlyLate
  <2>7. CASE ~(dlq[j] > 0) /\ j \notin completed
    <3>1. JobState(j) = "open" /\ JobState(j)' = "dead"
      BY <1>2, <1>3, <1>6, <2>1, <2>2, <2>7 DEF JobState
    <3>2. Lifecycle!Becomes(j, "dead")
      BY <2>3, <3>1, StateMoves
    <3> QED
      BY <1>6, <2>4, <3>1, <3>2 DEF Simulated, Lifecycle!Next, Lifecycle!Bury
  <2> QED
    BY <2>5, <2>6, <2>7
<1>10. CASE Term(p)
  <2>1. UNCHANGED <<completed, dlq>> /\ stream' \in {stream, stream \ {j}}
    BY <1>1, <1>10 DEF Term, Remove
  <2>2. pod'[p].step = "dlq" /\ pod'[p].job = j
    BY <1>1, <1>10 DEF Term, Step, Becomes, Inv, TypeOK
  <2>3. InHands(j)'
    BY <2>2 DEF InHands, Busy, Steps
  <2>4. JobState(j)' = JobState(j)
    BY <1>2, <1>6, <2>1, <2>3, SameState
  <2>5. \A k \in Job \ {j} : JobState(k)' = JobState(k)
    BY <1>6, <1>7, <2>1, SameState
  <2> QED
    BY <1>6, <2>4, <2>5, Stutters DEF Simulated
<1>11. CASE /\ Ack(p) \/ Nak(p) \/ PublishToDLQ(p)
            /\ UNCHANGED <<stream, completed, dlq>>
  <2>1. pod'[p].step = "idle"
    BY <1>11 DEF Ack, Nak, PublishToDLQ, Rest, Becomes, Resting, Inv, TypeOK
  <2> QED
    BY <1>5, <1>6, <1>11, <2>1, LetGo
<1> QED
  BY <1>1, <1>8, <1>9, <1>10, <1>11 DEF Ack, Nak, PublishToDLQ, Remove

LEMMA RefinementStep ==
    ASSUME Inv, [Next]_vars
    PROVE  Simulated
<1>1. ASSUME SetupQueue \/ EnsureDeployment \/ UNCHANGED vars PROVE Simulated
  <2>1. UNCHANGED <<queue, pod>>
    BY <1>1 DEF SetupQueue, EnsureDeployment, vars
  <2>2. \A k \in Job : JobState(k)' = JobState(k)
    BY <2>1 DEF JobState, InHands, queue
  <2> QED
    BY <2>1, <2>2, Stutters DEF Simulated, queue
<1>2. ASSUME NEW p \in Pod, PodStart(p) \/ PodReplaced(p) \/ PodCrash(p)
      PROVE  Simulated
  <2>1. /\ \A q \in Pod \ {p} : pod'[q] = pod[q]
        /\ pod'[p].step \in {"down", "idle"}
        /\ UNCHANGED queue
    BY <1>2 DEF PodStart, PodReplaced, PodCrash, Becomes, Resting, Inv, TypeOK
  <2> QED
    BY <2>1, LetGo DEF queue
<1>3. ASSUME NEW p \in Pod, Answer(p) PROVE Simulated
  <2>1. /\ pod[p].step \in Busy /\ pod'[p].step \in Busy
        /\ pod'[p].job = pod[p].job
        /\ \A q \in Pod \ {p} : pod'[q] = pod[q]
        /\ UNCHANGED queue
    BY <1>3 DEF Answer, Step, Becomes, Inv, TypeOK, Busy, Steps
  <2>2. \A k \in Job : InHands(k)' <=> InHands(k)
    BY <2>1 DEF InHands
  <2>3. \A k \in Job : JobState(k)' = JobState(k)
    BY <2>1, <2>2, SameState DEF queue
  <2> QED
    BY <2>1, <2>3, Stutters DEF Simulated, queue
<1>4. ASSUME NEW p \in Pod, Serve(p) PROVE Simulated
  BY <1>2, <1>3, <1>4, FetchRefines, AnswerRefines DEF Serve
<1>5. CASE Tick
  <2>1. /\ UNCHANGED <<published, stream, delivered, dlq, completed, overtaken>>
        /\ \A p \in Pod : /\ pod'[p].step = pod[p].step
                          /\ pod'[p].job = pod[p].job
    BY <1>5 DEF Tick, Inv, TypeOK
  <2>2. \A k \in Job : InHands(k)' <=> InHands(k)
    BY <2>1 DEF InHands
  <2>3. \A k \in Job : JobState(k)' = JobState(k)
    BY <2>1, <2>2, SameState
  <2> QED
    BY <2>1, <2>3, Stutters DEF Simulated
<1> QED
  BY <1>1, <1>2, <1>4, <1>5, PublishRefines, ExpiryRefines DEF Next

(* Delivery carries out the lifecycle of a job, for any number of pods,     *)
(* crashes and lost messages, any limits of sidecar and consumer and any    *)
(* change of max_retries: no job has more tries than the largest limit of   *)
(* its queue, none is given up or lost before as many as one of them asks   *)
(* for, and none leaves the state it ended in unless it was overtaken.      *)
THEOREM DeliveryRefinesLifecycle == Spec => RefinesJobLifecycle
<1>1. Init => Lifecycle!Init
  BY DEF Init, JobState, Lifecycle!Init
<1>2. Inv /\ [Next]_vars => [Lifecycle!Next]_Lifecycle!vars
  BY RefinementStep DEF Simulated
<1> QED
  BY <1>1, <1>2, DeliveryInvariant, PTL
  DEF Spec, RefinesJobLifecycle, Lifecycle!Spec

-----------------------------------------------------------------------------
(* The scaled pool.                                                         *)

\* The step RemovePod makes of a pod.
Removal(p) ==
    /\ Becomes(p, Resting("down", retriesEnv))
    /\ UNCHANGED <<queue, maxDeliver, retriesEnv, crashes, lost>>

LEMMA PoolSteps ==
    ASSUME [PoolNext]_poolVars
    PROVE  [Next]_vars \/ \E p \in Pod : Removal(p)
<1>1. ASSUME NEW p \in Pod, PoolServe(p) \/ PodCrash(p) PROVE [Next]_vars
  BY <1>1 DEF PoolServe, StartPod, Serve, Next
<1>2. ASSUME NEW p \in Pod, RemovePod(p) PROVE Removal(p)
  BY <1>2 DEF RemovePod, Removal
<1>3. ASSUME Evaluate \/ UNCHANGED poolVars PROVE UNCHANGED vars
  BY <1>3 DEF Evaluate, poolVars
<1> QED
  BY <1>1, <1>2, <1>3 DEF PoolNext, Next

LEMMA RemovalType ==
    ASSUME TypeOK, NEW p \in Pod, Removal(p)
    PROVE  TypeOK'
<1>1. Resting("down", retriesEnv) \in PodType
  BY RestingType DEF TypeOK, Steps
<1> QED
  BY <1>1, PodStepType DEF Removal, TypeOK

LEMMA RemovalKeeps ==
    ASSUME Inv, NEW p \in Pod, Removal(p)
    PROVE  /\ \A q \in Pod \ {p} : pod'[q] = pod[q]
           /\ pod'[p].step \in {"down", "idle"}
           /\ UNCHANGED queue
  BY DEF Removal, Becomes, Resting, Inv, TypeOK

LEMMA RemovalInv ==
    ASSUME Inv, TypeOK', NEW p \in Pod, Removal(p)
    PROVE  Inv'
  BY RemovalKeeps, RestStep

LEMMA RemovalRefines ==
    ASSUME Inv, NEW p \in Pod, Removal(p)
    PROVE  Simulated
  BY RemovalKeeps, LetGo DEF queue

LEMMA WorkType == TypeOK => Work \in Nat
<1> SUFFICES ASSUME TypeOK PROVE Work \in Nat
  OBVIOUS
<1>1. /\ {j \in stream : delivered[j] = 0} \subseteq Job
      /\ waiting \cup redeliver \subseteq Job
  BY DEF TypeOK
<1>2. /\ IsFiniteSet({j \in stream : delivered[j] = 0})
      /\ IsFiniteSet(waiting \cup redeliver)
  BY <1>1, PoolAssumption, FS_Subset
<1>3. /\ Cardinality({j \in stream : delivered[j] = 0}) \in Nat
      /\ Cardinality(waiting \cup redeliver) \in Nat
  BY <1>2, FS_CardinalityType
<1> QED
  BY <1>3 DEF Work

(* The streams stay consistent and the pool within its bounds, however the  *)
(* autoscaler, Kubernetes, the consumer and the pods take turns.            *)
THEOREM PoolTypeCorrect == PoolSpec => []PoolTypeOK
<1>1. PoolInit => PoolTypeOK
  <2>1. Scaling.Min \in Scaling.Min .. Scaling.Max
    BY PoolAssumption, ConfigFields
  <2> QED
    BY <2>1, InitType DEF PoolInit, PoolTypeOK
<1>2. PoolTypeOK /\ [PoolNext]_poolVars => PoolTypeOK'
  <2> SUFFICES ASSUME PoolTypeOK, [PoolNext]_poolVars PROVE PoolTypeOK'
    OBVIOUS
  <2>1. TypeOK'
    BY PoolSteps, NextType, RemovalType DEF PoolTypeOK
  <2>2. replicas' \in Scaling.Min .. Scaling.Max
    <3>1. CASE Evaluate
      <4>1. Scaling.Min \in Nat /\ Scaling.Max \in Nat
        BY PoolAssumption, ConfigFields
      <4>2. replicas \in Nat /\ replicas <= Scaling.Max
        BY <4>1 DEF PoolTypeOK
      <4>3. AtLeast(Scaling.Max, replicas) = Scaling.Max
        BY <4>1, <4>2 DEF AtLeast
      <4>4. Work \in Nat
        BY WorkType DEF PoolTypeOK
      <4>5. PICK d : d = CalculateDesired(Scaling, Work, replicas)
        OBVIOUS
      <4>6. d \in Nat /\ d >= Scaling.Min /\ d <= AtLeast(Scaling.Max, replicas)
        BY <4>2, <4>4, <4>5, DesiredBounds, PoolAssumption
      <4>7. CalculateDesired(Scaling, Work, replicas) \in Scaling.Min .. Scaling.Max
        BY <4>1, <4>3, <4>5, <4>6
      <4> QED
        BY <3>1, <4>7 DEF Evaluate
    <3>2. CASE UNCHANGED replicas
      BY <3>2 DEF PoolTypeOK
    <3> QED
      BY <3>1, <3>2 DEF PoolNext, PoolServe, StartPod, RemovePod, pool, poolVars
  <2>3. taken' \subseteq Job
    <3>1. CASE UNCHANGED taken
      BY <3>1 DEF PoolTypeOK
    <3>2. ASSUME NEW p \in Pod, RemovePod(p) PROVE taken' \subseteq Job
      BY <3>2, PodFields DEF RemovePod, PoolTypeOK
    <3> QED
      BY <3>1, <3>2 DEF PoolNext, PoolServe, StartPod, Evaluate, pool, poolVars
  <2> QED
    BY <2>1, <2>2, <2>3 DEF PoolTypeOK
<1> QED
  BY <1>1, <1>2, PTL DEF PoolSpec

-----------------------------------------------------------------------------
(* The invariant Inv of above, with removals at any moment.                 *)
LEMMA PoolInvariant == PoolSpec => []Inv
<1>1. PoolInit /\ PoolTypeOK => Inv
  BY InitInv DEF PoolInit, PoolTypeOK
<1>2. Inv /\ PoolTypeOK' /\ [PoolNext]_poolVars => Inv'
  BY PoolSteps, NextInv, RemovalInv DEF PoolTypeOK
<1> QED
  BY <1>1, <1>2, PoolTypeCorrect, PTL DEF PoolSpec

(* However the number of pods follows the work that is waiting, a job is in *)
(* the hands of two of them only after its AckWait ran out under the first: *)
(* the removal of a busy pod, by itself, gives its job to nobody else.      *)
THEOREM PoolOneAtATime == PoolSpec => []OneAtATime
<1> QED
  BY InvConsequences, PoolInvariant, PTL

(* No job that was not overtaken is both completed and in the dead letter   *)
(* stream, whichever of its pods is removed.                                *)
THEOREM PoolOneEnd == PoolSpec => []OneEnd
<1> QED
  BY InvConsequences, PoolInvariant, PTL

(* ... and none is there twice, though PublishToDLQ gives it no MsgID.      *)
THEOREM PoolDeadOnce == PoolSpec => []DeadOnce
<1> QED
  BY InvConsequences, PoolInvariant, PTL

(* The scaled pool carries out the lifecycle as well: a scale-down takes a  *)
(* job from its worker but neither gives it more tries than the largest     *)
(* limit of its queue nor loses it before it had as many as one asks for.   *)
THEOREM PoolRefinesLifecycle == PoolSpec => RefinesJobLifecycle
<1>1. PoolInit => Lifecycle!Init
  BY DEF PoolInit, Init, JobState, Lifecycle!Init
<1>2. Inv /\ [PoolNext]_poolVars => [Lifecycle!Next]_Lifecycle!vars
  BY PoolSteps, RefinementStep, RemovalRefines DEF Simulated
<1> QED
  BY <1>1, <1>2, PoolInvariant, PTL
  DEF PoolSpec, RefinesJobLifecycle, Lifecycle!Spec

=============================================================================
