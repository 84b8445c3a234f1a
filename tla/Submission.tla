----------------------------- MODULE Submission -----------------------------
(***************************************************************************)
(* How work gets into a queue: the webhook service (cmd/webhook/main.go)   *)
(* turns GitHub's events and the bodies of its test endpoint into jobs and *)
(* posts them to the controller, which also takes jobs from any other      *)
(* client, validates their payloads (PayloadSchema) and publishes them     *)
(* (Publish of pkg/queue/nats.go).                                         *)
(*                                                                         *)
(* The controller's handler is not in the repository: it is what the table *)
(* of statuses in docs/ARCHITECTURE.md and the callers make of it.         *)
(*                                                                         *)
(* Every delivery of an event, or call of a client, is handled on its own  *)
(* and all at the same time.  A number in a payload is written as a        *)
(* string of digits, "0" where there is none.                              *)
(***************************************************************************)
EXTENDS PayloadSchema, SequencesExt

CONSTANTS
    Delivery,    \* deliveries and calls
    Input,       \* what may be delivered
    RawSchemas,  \* configurations: functions from queue names to schemas
    QueueNames,  \* the configured queues
    WebhookQueue \* QUEUE_NAME of the webhook service

ASSUME RawSchemasAssumption ==
    \A schemas \in RawSchemas : \A q \in DOMAIN schemas : EnumsAreLists(schemas[q])

\* What json.Unmarshal makes of the commits of a push.
Commit == [added : Seq(STRING), modified : Seq(STRING), removed : Seq(STRING)]

ASSUME InputAssumption ==
    \A e \in Input :
        e.via = "github" /\ e.event = "push" /\ e.wellFormed => e.commits \in Seq(Commit)

VARIABLES
    raws,     \* the payload schemas of the configuration
    secret,   \* WEBHOOK_SECRET is set
    input,    \* what each delivery consists of
    step,     \* what its handler in the webhook, or its client, does
    answer,   \* what the sender is told
    submit,   \* the SubmitRequest that was made of it
    control,  \* what the controller has made of that
    jobs      \* how many jobs in the stream come from the delivery

config == <<raws, secret>>
vars   == <<config, input, step, answer, submit, control, jobs>>

Nothing == [via |-> "none"]
NoSubmit == [queue |-> "", payload |-> Null]

Init ==
    /\ raws \in RawSchemas /\ secret \in BOOLEAN
    /\ input = [d \in Delivery |-> Nothing]
    /\ step = [d \in Delivery |-> "none"]
    /\ answer = [d \in Delivery |-> "none"]
    /\ submit = [d \in Delivery |-> NoSubmit]
    /\ control = [d \in Delivery |-> "none"]
    /\ jobs = [d \in Delivery |-> 0]

-----------------------------------------------------------------------------
(* The events.                                                              *)

EmptyPayload ==
    [ Action |-> "", RepoOwner |-> "", RepoName |-> "", CloneURL |-> "",
      Ref |-> "", PRNumber |-> "0", CommitSHA |-> "", FilesChanged |-> <<>> ]

\* Of other actions of a pull request only the repository is passed on.
ParsePullRequestEvent(e) ==
    LET repo == [ EmptyPayload EXCEPT !.Action = "review_pr",
                    !.RepoOwner = e.owner, !.RepoName = e.name ]
    IN  IF e.action \notin {"opened", "synchronize"}
          THEN repo
          ELSE [ repo EXCEPT !.CloneURL = e.cloneURL, !.Ref = e.ref,
                   !.PRNumber = e.number, !.CommitSHA = e.sha ]

Changes(names, status) ==
    [i \in DOMAIN names |-> [Filename |-> names[i], Status |-> status]]

\* The files of a push in the order they are met, each as often as it is.
Touched(commits) ==
    FlattenSeq([i \in DOMAIN commits |->
        Changes(commits[i].added, "added")
            \o Changes(commits[i].modified, "modified")
            \o Changes(commits[i].removed, "removed")])

\* Mutant: a file is looked for together with its status.
NotedByStatus(files, f) ==
    IF \E i \in DOMAIN files : files[i] = f THEN files ELSE Append(files, f)

\* seen: the first status of a file is the one it keeps.
Noted(files, f) ==
    IF \E i \in DOMAIN files : files[i].Filename = f.Filename
      THEN files ELSE Append(files, f)

\* The loops: the files after so many of those touched.
PushScan(touched) ==
    LET after[i \in 0 .. Len(touched)] ==
          IF i = 0 THEN <<>> ELSE Noted(after[i - 1], touched[i])
    IN  after

PushedFiles(commits) == PushScan(Touched(commits))[Len(Touched(commits))]

\* e.ref is the name of the branch, e.owner the login or else the name.
ParsePushEvent(e) ==
    [ EmptyPayload EXCEPT !.Action = "review_push", !.RepoOwner = e.owner,
        !.RepoName = e.name, !.CloneURL = e.cloneURL, !.Ref = e.ref,
        !.CommitSHA = e.sha, !.FilesChanged = PushedFiles(e.commits) ]

\* The defaults of the test endpoint.
FillDefaults(p) ==
    [ p EXCEPT
        !.Action = IF @ = "" THEN "review_pr" ELSE @,
        !.CloneURL = IF @ = "" /\ p.RepoOwner # "" /\ p.RepoName # ""
                       THEN "https://github.com" ELSE @ ]

\* json.Marshal of a ReviewPayload: omitempty leaves three fields out.
Marshal(p) ==
    LET value == [ action |-> String(p.Action), repo_owner |-> String(p.RepoOwner),
                   repo_name |-> String(p.RepoName), clone_url |-> String(p.CloneURL),
                   ref |-> String(p.Ref), pr_number |-> Number(p.PRNumber),
                   commit_sha |-> String(p.CommitSHA),
                   files_changed |-> [type |-> "array", content |-> "files",
                                      items |-> p.FilesChanged] ]
        empty == (IF p.PRNumber = "0" THEN {"pr_number"} ELSE {})
                    \cup (IF p.CommitSHA = "" THEN {"commit_sha"} ELSE {})
                    \cup (IF p.FilesChanged = <<>> THEN {"files_changed"} ELSE {})
    IN  Object([f \in DOMAIN value \ empty |-> value[f]])

-----------------------------------------------------------------------------
(* The webhook service.                                                     *)

Answers(d, what) ==
    /\ answer' = [answer EXCEPT ![d] = what]
    /\ step' = [step EXCEPT ![d] = "done"]

\* submitToKQueue, or a client of its own, posts the request and waits.
Posts(d, queue, payload) ==
    /\ submit' = [submit EXCEPT ![d] = [queue |-> queue, payload |-> payload]]
    /\ step' = [step EXCEPT ![d] = "waiting"]
    /\ UNCHANGED answer

\* The payload of an event that handleGitHubWebhook submits.
EventPayload(e) ==
    IF e.event = "pull_request" THEN ParsePullRequestEvent(e)
                                ELSE ParsePushEvent(e)

HandleGitHubWebhook(d, e) ==
    /\ e.via = "github"
    /\ IF secret /\ ~e.signed THEN Answers(d, "401") /\ UNCHANGED submit
       ELSE IF e.event \notin {"pull_request", "push"}
         THEN Answers(d, IF e.event = "ping" THEN "pong" ELSE "ignored")
              /\ UNCHANGED submit
       ELSE IF ~e.wellFormed THEN Answers(d, "400") /\ UNCHANGED submit
       ELSE Posts(d, WebhookQueue, Marshal(EventPayload(e)))

HandleTestWebhook(d, t) ==
    /\ t.via = "test"
    /\ IF ~t.wellFormed THEN Answers(d, "400") /\ UNCHANGED submit
       ELSE Posts(d, WebhookQueue, Marshal(FillDefaults(t.payload)))

\* A client that calls the controller itself.
CallAPI(d, c) ==
    /\ c.via = "api"
    /\ Posts(d, c.queue, c.payload)

Receive(d) ==
    /\ step[d] = "none"
    /\ \E i \in Input :
        /\ input' = [input EXCEPT ![d] = i]
        /\ HandleGitHubWebhook(d, i) \/ HandleTestWebhook(d, i) \/ CallAPI(d, i)
    /\ UNCHANGED <<config, control, jobs>>

\* Mutant: a call that timed out is made again.
TimeOutRetried(d) ==
    /\ step[d] = "waiting" /\ control[d] # "none"
    /\ control' = [control EXCEPT ![d] = "none"]
    /\ UNCHANGED <<config, input, step, answer, submit, jobs>>

\* The client's ten seconds are over, or the connection fails; whatever the
\* controller is doing it goes on with.
TimeOut(d) ==
    /\ step[d] = "waiting"
    /\ Answers(d, "502")
    /\ UNCHANGED <<config, input, submit, control, jobs>>

\* Mutant: any response is taken for a job.
StatusUnchecked(status) == "queued"

\* What submitToKQueue's callers make of the controller's status.
Status(status) == IF status = "201" THEN "queued" ELSE "502"

ReadReply(d) ==
    /\ step[d] = "waiting"
    /\ control[d] \in {"201", "400", "422", "500"}
    /\ Answers(d, IF input[d].via = "api" /\ control[d] # "201"
                    THEN control[d] ELSE Status(control[d]))
    /\ UNCHANGED <<config, input, submit, control, jobs>>

-----------------------------------------------------------------------------
(* The controller.  It does not start with a configuration whose schemas    *)
(* NewValidator refuses.                                                    *)

Controls(d, what) == control' = [control EXCEPT ![d] = what]

Validate(d) ==
    /\ step[d] \in {"waiting", "done"} /\ submit[d] # NoSubmit
    /\ control[d] = "none" /\ ~ValidatorFails(raws)
    /\ Controls(d, IF submit[d].queue \notin QueueNames THEN "400"
                   ELSE IF ~Validates(raws, submit[d].queue, submit[d].payload) THEN "422"
                   ELSE "valid")
    /\ UNCHANGED <<config, input, step, answer, submit, jobs>>

\* The message is stored and acknowledged, stored only, or neither.
Publish(d) ==
    /\ control[d] = "valid"
    /\ \/ /\ Controls(d, "201")
          /\ jobs' = [jobs EXCEPT ![d] = @ + 1]
       \/ /\ Controls(d, "500")
          /\ jobs' = [jobs EXCEPT ![d] = @ + 1]
       \/ /\ Controls(d, "500")
          /\ UNCHANGED jobs
    /\ UNCHANGED <<config, input, step, answer, submit>>

Next ==
    \E d \in Delivery :
        Receive(d) \/ TimeOut(d) \/ ReadReply(d) \/ Validate(d) \/ Publish(d)

Spec == Init /\ [][Next]_vars

-----------------------------------------------------------------------------
TypeOK ==
    /\ raws \in RawSchemas /\ secret \in BOOLEAN
    /\ input \in [Delivery -> Input \cup {Nothing}]
    /\ step \in [Delivery -> {"none", "waiting", "done"}]
    /\ answer \in [Delivery -> {"none", "pong", "ignored", "queued", "400",
                                "401", "422", "500", "502"}]
    /\ control \in [Delivery -> {"none", "valid", "201", "400", "422", "500"}]
    /\ jobs \in [Delivery -> 0 .. 1]

(* A sender that is told "queued" has exactly one job in the stream, one    *)
(* that is told anything else but 502 or 500 has none, and no delivery has  *)
(* two, however the reply, the publication's acknowledgement and the time   *)
(* limit of submitToKQueue race each other.                                 *)
ToldTheTruth ==
    \A d \in Delivery :
        /\ jobs[d] <= 1
        /\ answer[d] = "queued" => jobs[d] = 1
        /\ answer[d] \in {"400", "401", "422", "pong", "ignored"} => jobs[d] = 0

(* Schema validation at submit time, for every schema that uses what the    *)
(* documentation lists: what is in the stream conforms to it, and what was  *)
(* refused for its payload does not - except for one disagreement, that the *)
(* validator compares enums by how their members are printed.  It takes a   *)
(* value that is not listed only if it prints like one that is, and misses  *)
(* a listed one only if the two print differently.                          *)
AdmittedAsDocumented ==
    \A d \in Delivery :
        LET raw     == raws[submit[d].queue]
            payload == submit[d].payload
        IN
        submit[d].queue \in DOMAIN raws /\ Documented(raw) =>
            /\ jobs[d] > 0 => Conforms(raw, payload) \/ TakenForListed(raw, payload)
            /\ control[d] = "422" /\ Conforms(raw, payload) => ListedMissed(raw, payload)

(* The job of a push names every file that one of its commits touches, and  *)
(* names it once; of a push that touches none it has no list.               *)
PushedFilesNamedOnce ==
    \A d \in Delivery :
        jobs[d] > 0 /\ input[d].via = "github" /\ input[d].event = "push" =>
            LET fields == submit[d].payload.fields
                items  == IF "files_changed" \in DOMAIN fields
                            THEN fields["files_changed"].items ELSE <<>>
            IN
            /\ { items[i].Filename : i \in DOMAIN items } =
                   UNION { Range(c.added) \cup Range(c.modified) \cup Range(c.removed) :
                             c \in Range(input[d].commits) }
            /\ \A i, j \in DOMAIN items :
                   items[i].Filename = items[j].Filename => i = j

=============================================================================
