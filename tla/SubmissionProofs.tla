--------------------------- MODULE SubmissionProofs ---------------------------
(***************************************************************************)
(* What senders are told of their jobs, and what the validation of their   *)
(* payloads lets through, and what becomes of the files of a push, for any *)
(* number of deliveries at the same time, any inputs and any configuration *)
(* (Submission).                                                           *)
(***************************************************************************)
EXTENDS Submission, SequenceInduction

Refusals == {"400", "401", "422", "pong", "ignored"}

\* What is known of a delivery from the status the controller gave it.
Told(d) ==
    /\ step[d] = "none" =>
          answer[d] = "none" /\ submit[d] = NoSubmit /\ control[d] = "none"
    /\ step[d] = "waiting" => answer[d] = "none"
    /\ control[d] \in {"none", "valid", "400", "422"} => jobs[d] = 0
    /\ control[d] = "201" => jobs[d] = 1
    /\ answer[d] = "queued" => control[d] = "201"
    /\ answer[d] \in Refusals =>
          \/ submit[d] = NoSubmit /\ control[d] = "none"
          \/ control[d] \in {"400", "422"}

\* submit has no type of its own: any payload may be posted.
Inv ==
    /\ TypeOK
    /\ submit = [d \in Delivery |-> submit[d]]
    /\ \A d \in Delivery : Told(d)

LEMMA InitInv == Init => Inv
BY DEF Init, Inv, TypeOK, Told, Refusals, Nothing

\* Of the other deliveries a step leaves everything as it is.
LEMMA OthersTold ==
    ASSUME Inv, NEW d \in Delivery,
           \A e \in Delivery \ {d} :
               /\ step'[e] = step[e] /\ answer'[e] = answer[e]
               /\ submit'[e] = submit[e] /\ control'[e] = control[e]
               /\ jobs'[e] = jobs[e],
           Told(d)'
    PROVE  \A e \in Delivery : Told(e)'
BY DEF Inv, Told

LEMMA ReceiveInv == ASSUME Inv, NEW d \in Delivery, Receive(d) PROVE Inv'
<1>1. PICK i \in Input :
        /\ input' = [input EXCEPT ![d] = i]
        /\ HandleGitHubWebhook(d, i) \/ HandleTestWebhook(d, i) \/ CallAPI(d, i)
  BY DEF Receive
<1>2. UNCHANGED <<raws, secret, control, jobs>> /\ step[d] = "none"
  BY DEF Receive, config
<1>3. \/ \E what \in Refusals : Answers(d, what) /\ UNCHANGED submit
      \/ \E q, p : Posts(d, q, p)
  BY <1>1 DEF HandleGitHubWebhook, HandleTestWebhook, CallAPI, Refusals
<1>4. CASE \E what \in Refusals : Answers(d, what) /\ UNCHANGED submit
  <2>1. PICK what \in Refusals :
            /\ answer' = [answer EXCEPT ![d] = what]
            /\ step' = [step EXCEPT ![d] = "done"]
            /\ UNCHANGED submit
    BY <1>4 DEF Answers
  <2>2. TypeOK'
    BY <1>1, <1>2, <2>1 DEF Inv, TypeOK, Refusals
  <2>3. Told(d)'
    BY <1>2, <2>1 DEF Inv, TypeOK, Told, Refusals
  <2>4. \A e \in Delivery : Told(e)'
    BY <1>2, <2>1, <2>3, OthersTold DEF Inv, TypeOK
  <2> QED
    BY <2>1, <2>2, <2>4 DEF Inv
<1>5. CASE \E q, p : Posts(d, q, p)
  <2>1. PICK q, p :
            /\ submit' = [submit EXCEPT ![d] = [queue |-> q, payload |-> p]]
            /\ step' = [step EXCEPT ![d] = "waiting"]
            /\ UNCHANGED answer
    BY <1>5 DEF Posts
  <2>2. TypeOK'
    BY <1>1, <1>2, <2>1 DEF Inv, TypeOK
  <2>3. Told(d)'
    BY <1>2, <2>1 DEF Inv, TypeOK, Told, Refusals
  <2>4. \A e \in Delivery : Told(e)'
    BY <1>2, <2>1, <2>3, OthersTold DEF Inv, TypeOK
  <2>5. submit' = [e \in Delivery |-> submit'[e]]
    BY <2>1 DEF Inv
  <2> QED
    BY <2>2, <2>4, <2>5 DEF Inv
<1> QED
  BY <1>3, <1>4, <1>5

\* The time limit and the reply, whichever comes first.
LEMMA AnswersInv == ASSUME Inv, NEW d \in Delivery, TimeOut(d) \/ ReadReply(d) PROVE Inv'
<1>1. UNCHANGED <<raws, secret, input, submit, control, jobs>>
      /\ step[d] = "waiting"
  BY DEF TimeOut, ReadReply, config
<1>2. \E what : Answers(d, what) /\ (\/ what = "502" \/ what = "500"
                                     \/ what = "queued" /\ control[d] = "201"
                                     \/ what \in {"400", "422"} /\ control[d] = what)
  BY DEF TimeOut, ReadReply, Status
<1>3. PICK what :
        /\ answer' = [answer EXCEPT ![d] = what]
        /\ step' = [step EXCEPT ![d] = "done"]
        /\ \/ what = "502" \/ what = "500"
           \/ what = "queued" /\ control[d] = "201"
           \/ what \in {"400", "422"} /\ control[d] = what
  BY <1>2 DEF Answers
<1>4. TypeOK'
  BY <1>1, <1>3 DEF Inv, TypeOK
<1>5. Told(d)'
  BY <1>1, <1>3 DEF Inv, TypeOK, Told, Refusals
<1>6. \A e \in Delivery : Told(e)'
  BY <1>1, <1>3, <1>5, OthersTold DEF Inv, TypeOK
<1> QED
  BY <1>1, <1>4, <1>6 DEF Inv

\* The controller may act on a request whose sender has long been answered.
LEMMA ControllerInv == ASSUME Inv, NEW d \in Delivery, Validate(d) \/ Publish(d) PROVE Inv'
<1>1. UNCHANGED <<raws, secret, input, step, answer, submit>>
  BY DEF Validate, Publish, config
<1>2. CASE Validate(d)
  <2>1. PICK what \in {"400", "422", "valid"} : control' = [control EXCEPT ![d] = what]
    BY <1>2 DEF Validate, Controls
  <2>2. TypeOK'
    BY <1>1, <1>2, <2>1 DEF Inv, TypeOK, Validate
  <2>3. Told(d)'
    BY <1>1, <1>2, <2>1 DEF Inv, TypeOK, Told, Refusals, Validate
  <2>4. \A e \in Delivery : Told(e)'
    BY <1>1, <1>2, <2>1, <2>3, OthersTold DEF Inv, TypeOK, Validate
  <2> QED
    BY <1>1, <2>2, <2>4 DEF Inv
<1>3. CASE Publish(d)
  <2>1. PICK what \in {"201", "500"}, n \in {0, 1} :
            /\ control' = [control EXCEPT ![d] = what]
            /\ jobs' = [jobs EXCEPT ![d] = n]
            /\ what = "201" => n = 1
    <3>1. jobs[d] = 0 /\ jobs = [jobs EXCEPT ![d] = 0]
      BY <1>3 DEF Publish, Inv, Told, TypeOK
    <3> QED
      BY <1>3, <3>1 DEF Publish, Controls, Inv, TypeOK
  <2>2. TypeOK'
    BY <1>1, <2>1 DEF Inv, TypeOK
  <2>3. Told(d)'
    BY <1>1, <1>3, <2>1 DEF Inv, TypeOK, Told, Refusals, Publish
  <2>4. \A e \in Delivery : Told(e)'
    BY <1>1, <2>1, <2>3, OthersTold DEF Inv, TypeOK
  <2> QED
    BY <1>1, <2>2, <2>4 DEF Inv
<1> QED
  BY <1>2, <1>3

LEMMA NextInv == Inv /\ [Next]_vars => Inv'
<1> SUFFICES ASSUME Inv, [Next]_vars PROVE Inv'
  OBVIOUS
<1>1. CASE UNCHANGED vars
  BY <1>1 DEF vars, config, Inv, TypeOK, Told
<1>2. CASE Next
  BY <1>2, ReceiveInv, AnswersInv, ControllerInv DEF Next
<1> QED
  BY <1>1, <1>2

LEMMA Invariance == Spec => []Inv
BY InitInv, NextInv, PTL DEF Spec

-----------------------------------------------------------------------------
(* The state keeps its shape, and no delivery ever has two jobs.            *)
THEOREM SubmissionTypeCorrect == Spec => []TypeOK
<1>1. Inv => TypeOK
  BY DEF Inv
<1> QED
  BY <1>1, Invariance, PTL

(* Whoever is told "queued" has one job in the stream, whoever is refused   *)
(* has none and will have none.                                             *)
THEOREM SubmissionTruth == Spec => []ToldTheTruth
<1>1. Inv => ToldTheTruth
  BY DEF Inv, TypeOK, Told, Refusals, ToldTheTruth
<1> QED
  BY <1>1, Invariance, PTL

-----------------------------------------------------------------------------
(* Validation.  The validator looks for a value among the printed members   *)
(* of an enum: what it finds is listed or prints like a listed value.       *)

LEMMA FieldAsDocumented ==
    ASSUME NEW raw, EnumsAreLists(raw), Documented(raw),
           NEW n \in DOMAIN raw.properties.map, NEW v
    PROVE  LET p == raw.properties.map[n]
               typed == p.type = Null \/ v.type = p.type.content
           IN
           FieldAccepted([Type |-> AsString(p.type), Enum |-> Range(p.enum)], v)
             <=> /\ typed
                 /\ \/ p.enum = <<>>
                    \/ \E w \in Range(p.enum) :
                          \/ SameValue(v, w) /\ ~PrintApart(v, w)
                          \/ PrintAlike(v, w)
<1> DEFINE p == raw.properties.map[n]
<1>1. /\ p.type = Null \/ (p.type.type = "string" /\ p.type.content \in JsonTypes)
      /\ p.enum \in Seq(Range(p.enum))
  BY DEF Documented, EnumsAreLists
<1>2. PICK type, enum : type = p.type /\ enum = p.enum
  OBVIOUS
<1> HIDE DEF p
<1>3. (AsString(type) # "" => v.type = AsString(type)) <=> (type = Null \/ v.type = type.content)
  <2>1. CASE type = Null
    <3>1. AsString(type) = ""
      BY <2>1 DEF AsString, Null
    <3> QED
      BY <2>1, <3>1
  <2>2. CASE type.type = "string" /\ type.content \in JsonTypes
    <3>1. AsString(type) = type.content /\ type.content # ""
      BY <2>2 DEF AsString, JsonTypes
    <3>2. type # Null
      BY <2>2 DEF Null
    <3> QED
      BY <3>1, <3>2
  <2> QED
    BY <1>1, <1>2, <2>1, <2>2
<1>4. Range(enum) = {} <=> enum = <<>>
  <2>1. enum \in Seq(Range(enum))
    BY <1>1, <1>2
  <2>2. enum # <<>> => 1 \in DOMAIN enum
    BY <2>1
  <2>3. DOMAIN <<>> = {}
    OBVIOUS
  <2> QED
    BY <2>2, <2>3 DEF Range
<1>5. ASSUME NEW w
      PROVE  Printed(v) = Printed(w)
               <=> (SameValue(v, w) /\ ~PrintApart(v, w)) \/ PrintAlike(v, w)
  BY DEF PrintApart, PrintAlike
<1>6. FieldAccepted([Type |-> AsString(type), Enum |-> Range(enum)], v)
        <=> /\ AsString(type) # "" => v.type = AsString(type)
            /\ Range(enum) # {} => \E w \in Range(enum) : Printed(v) = Printed(w)
  BY DEF FieldAccepted
<1> QED
  BY <1>2, <1>3, <1>4, <1>5, <1>6 DEF p

(* The validator against the table of supported validations, for every      *)
(* schema that uses what the table lists and every payload: it accepts only *)
(* what conforms or holds a value that prints like a listed one, and all    *)
(* that conforms and holds no listed value that prints differently.         *)
THEOREM AcceptedAsDocumented ==
    ASSUME NEW raw, EnumsAreLists(raw), Documented(raw), NEW data
    PROVE  /\ Accepted(CompileSchema(raw), data)
                 => Conforms(raw, data) \/ TakenForListed(raw, data)
           /\ Conforms(raw, data)
                 => Accepted(CompileSchema(raw), data) \/ ListedMissed(raw, data)
<1> DEFINE s == CompileSchema(raw)
           Both == DOMAIN raw.properties.map \cap DOMAIN data.fields
           Typed(n) == \/ raw.properties.map[n].type = Null
                       \/ data.fields[n].type = raw.properties.map[n].type.content
           Among(n) == \/ raw.properties.map[n].enum = <<>>
                       \/ \E w \in Range(raw.properties.map[n].enum) :
                             SameValue(data.fields[n], w)
<1>1. \A r \in Range(raw.required) : r.type = "string"
  BY DEF Documented
<1>2. s.Required = { r.content : r \in Range(raw.required) }
  BY <1>1 DEF CompileSchema
<1>3. \A n \in DOMAIN raw.properties.map : raw.properties.map[n].isMap
  BY DEF Documented
<1>4. /\ DOMAIN s.Properties = DOMAIN raw.properties.map
      /\ \A n \in DOMAIN raw.properties.map :
            s.Properties[n] = [ Type |-> AsString(raw.properties.map[n].type),
                                Enum |-> Range(raw.properties.map[n].enum) ]
  BY <1>3 DEF CompileSchema
<1> HIDE DEF s
<1>5. ASSUME NEW n \in Both
      PROVE  /\ FieldAccepted(s.Properties[n], data.fields[n])
                   => Typed(n) /\ (Among(n) \/ TakenForListed(raw, data))
             /\ Typed(n) /\ Among(n)
                   => FieldAccepted(s.Properties[n], data.fields[n])
                        \/ ListedMissed(raw, data)
  <2>1. PICK v : v = data.fields[n]
    OBVIOUS
  <2>2. FieldAccepted(s.Properties[n], v)
          <=> /\ Typed(n)
              /\ \/ raw.properties.map[n].enum = <<>>
                 \/ \E w \in Range(raw.properties.map[n].enum) :
                       \/ SameValue(v, w) /\ ~PrintApart(v, w)
                       \/ PrintAlike(v, w)
    BY <1>4, <2>1, FieldAsDocumented
  <2>3. (\E w \in Range(raw.properties.map[n].enum) : PrintAlike(v, w))
            => TakenForListed(raw, data)
    BY <2>1 DEF TakenForListed
  <2>4. (\E w \in Range(raw.properties.map[n].enum) : PrintApart(v, w))
            => ListedMissed(raw, data)
    BY <2>1 DEF ListedMissed
  <2> QED
    BY <2>1, <2>2, <2>3, <2>4
<1>6. s.Required \subseteq DOMAIN data.fields
        <=> \A r \in Range(raw.required) : r.content \in DOMAIN data.fields
  BY <1>2
<1>7. Accepted(s, data)
        <=> /\ data.type = "object" /\ s.Required \subseteq DOMAIN data.fields
            /\ \A n \in Both : FieldAccepted(s.Properties[n], data.fields[n])
  BY <1>4 DEF Accepted
<1>8. Conforms(raw, data)
        <=> /\ data.type = "object"
            /\ \A r \in Range(raw.required) : r.content \in DOMAIN data.fields
            /\ \A n \in Both : Typed(n) /\ Among(n)
  BY DEF Conforms
<1> HIDE DEF Both, Typed, Among
<1> QED
  BY <1>5, <1>6, <1>7, <1>8 DEF s

\* What the controller's status says of the payload.
Judged(d) ==
    LET verdict == Validates(raws, submit[d].queue, submit[d].payload) IN
    /\ control[d] \in {"valid", "201", "500"} => verdict
    /\ control[d] = "422" => ~verdict

AllJudged == \A d \in Delivery : Judged(d)

LEMMA JudgedNext == Inv /\ AllJudged /\ [Next]_vars => AllJudged'
<1> SUFFICES ASSUME Inv, AllJudged, [Next]_vars, NEW d \in Delivery PROVE Judged(d)'
  BY DEF AllJudged
<1>1. UNCHANGED raws
  BY DEF Next, vars, config, Receive, TimeOut, ReadReply, Validate, Publish
<1>2. ASSUME UNCHANGED <<submit, control>> PROVE Judged(d)'
  BY <1>1, <1>2 DEF AllJudged, Judged
<1>3. ASSUME NEW e \in Delivery, Receive(e) PROVE Judged(d)'
  <2>1. UNCHANGED control /\ control[e] = "none"
    BY <1>3 DEF Receive, Inv, Told
  <2>2. d # e => submit'[d] = submit[d]
    BY <1>3 DEF Receive, HandleGitHubWebhook, HandleTestWebhook, CallAPI, Posts, Inv
  <2> QED
    BY <1>1, <2>1, <2>2 DEF AllJudged, Judged
<1>4. ASSUME NEW e \in Delivery, Validate(e) PROVE Judged(d)'
  <2>1. d # e => control'[d] = control[d]
    BY <1>4 DEF Validate, Controls, Inv, TypeOK
  <2>2. UNCHANGED submit
    BY <1>4 DEF Validate
  <2>3. ASSUME d = e PROVE Judged(d)'
    <3>1. control'[d] = IF submit[d].queue \notin QueueNames THEN "400"
                        ELSE IF ~Validates(raws, submit[d].queue, submit[d].payload)
                          THEN "422" ELSE "valid"
      BY <1>4, <2>3 DEF Validate, Controls, Inv, TypeOK
    <3> QED
      BY <1>1, <2>2, <3>1 DEF Judged
  <2> QED
    BY <1>1, <2>1, <2>2, <2>3 DEF AllJudged, Judged
<1>5. ASSUME NEW e \in Delivery, Publish(e) PROVE Judged(d)'
  <2>1. control[e] = "valid" /\ UNCHANGED submit
    BY <1>5 DEF Publish
  <2>2. \/ control'[d] = control[d]
        \/ control[d] = "valid" /\ control'[d] \in {"201", "500"}
    BY <1>5, <2>1 DEF Publish, Controls, Inv, TypeOK
  <2> QED
    BY <1>1, <2>1, <2>2 DEF AllJudged, Judged
<1> QED
  BY <1>2, <1>3, <1>4, <1>5 DEF Next, vars, TimeOut, ReadReply

(* Validation at submit time, for any number of deliveries, any payloads    *)
(* and any schemas that use what the documentation lists: what is in the    *)
(* stream conforms to its queue's schema or holds a value that prints like  *)
(* a listed one, and what was refused with 422 does not conform or holds a  *)
(* listed value that prints differently.                                    *)
THEOREM SubmissionAdmitted == Spec => []AdmittedAsDocumented
<1>1. Init => AllJudged
  BY DEF Init, AllJudged, Judged
<1>2. Inv /\ AllJudged => AdmittedAsDocumented
  <2> SUFFICES ASSUME Inv, AllJudged, NEW d \in Delivery, NEW raw, NEW payload,
                      raw = raws[submit[d].queue], payload = submit[d].payload,
                      submit[d].queue \in DOMAIN raws, Documented(raw)
               PROVE  /\ jobs[d] > 0 => Conforms(raw, payload) \/ TakenForListed(raw, payload)
                      /\ control[d] = "422" /\ Conforms(raw, payload)
                             => ListedMissed(raw, payload)
    BY DEF AdmittedAsDocumented
  <2>1. EnumsAreLists(raw)
    BY RawSchemasAssumption DEF Inv, TypeOK
  <2>2. Validates(raws, submit[d].queue, payload) <=> Accepted(CompileSchema(raw), payload)
    BY DEF Validates
  <2>3. jobs[d] > 0 => control[d] \in {"201", "500"}
    BY DEF Inv, TypeOK, Told
  <2> QED
    BY <2>1, <2>2, <2>3, AcceptedAsDocumented DEF AllJudged, Judged
<1> QED
  BY <1>1, <1>2, JudgedNext, Invariance, PTL DEF Spec

-----------------------------------------------------------------------------
(* The files of a push, by induction over those its commits touch.          *)

Statuses == {"added", "modified", "removed"}

Change == [Filename : STRING, Status : Statuses]

Names(files) == { files[i].Filename : i \in DOMAIN files }

TouchedNames(commits) ==
    UNION { Range(c.added) \cup Range(c.modified) \cup Range(c.removed) : c \in Range(commits) }

LEMMA ChangesType ==
    ASSUME NEW names \in Seq(STRING), NEW status \in Statuses
    PROVE  /\ Changes(names, status) \in Seq(Change)
           /\ { f.Filename : f \in Range(Changes(names, status)) } = Range(names)
<1> DEFINE files == Changes(names, status)
<1>1. /\ DOMAIN names = 1 .. Len(names) /\ Len(names) \in Nat
      /\ \A i \in DOMAIN names : names[i] \in STRING
  OBVIOUS
<1>2. /\ DOMAIN files = DOMAIN names
      /\ \A i \in DOMAIN names : files[i] = [Filename |-> names[i], Status |-> status]
  BY DEF Changes
<1>3. \A i \in DOMAIN names : files[i] \in Change /\ files[i].Filename = names[i]
  BY <1>1, <1>2 DEF Change
<1>4. files \in [1 .. Len(names) -> Change]
  BY <1>1, <1>3 DEF Changes
<1> HIDE DEF files
<1>5. files \in Seq(Change)
  BY <1>1, <1>4
<1>6. { f.Filename : f \in Range(files) } = Range(names)
  BY <1>2, <1>3 DEF Range
<1> QED
  BY <1>5, <1>6 DEF files

LEMMA TouchedType ==
    ASSUME NEW commits \in Seq(Commit)
    PROVE  /\ Touched(commits) \in Seq(Change)
           /\ Names(Touched(commits)) = TouchedNames(commits)
<1> DEFINE all(c) == Changes(c.added, "added") \o Changes(c.modified, "modified")
                        \o Changes(c.removed, "removed")
           lists == [i \in DOMAIN commits |-> all(commits[i])]
           names(c) == Range(c.added) \cup Range(c.modified) \cup Range(c.removed)
           flat == FlattenSeq(lists)
<1>1. ASSUME NEW c \in Commit
      PROVE  all(c) \in Seq(Change) /\ { f.Filename : f \in Range(all(c)) } = names(c)
  <2> DEFINE a == Changes(c.added, "added")
             m == Changes(c.modified, "modified")
             r == Changes(c.removed, "removed")
  <2>1. c.added \in Seq(STRING) /\ c.modified \in Seq(STRING) /\ c.removed \in Seq(STRING)
    BY DEF Commit
  <2>2. a \in Seq(Change) /\ { f.Filename : f \in Range(a) } = Range(c.added)
    BY <2>1, ChangesType DEF Statuses
  <2>3. m \in Seq(Change) /\ { f.Filename : f \in Range(m) } = Range(c.modified)
    BY <2>1, ChangesType DEF Statuses
  <2>4. r \in Seq(Change) /\ { f.Filename : f \in Range(r) } = Range(c.removed)
    BY <2>1, ChangesType DEF Statuses
  <2> DEFINE am == a \o m
  <2>5. all(c) = am \o r
    OBVIOUS
  <2> HIDE DEF a, m, r, all
  <2>6. am \in Seq(Change) /\ Range(am) = Range(a) \cup Range(m)
    BY <2>2, <2>3, ConcatRange
  <2> HIDE DEF am
  <2>7. all(c) \in Seq(Change) /\ Range(all(c)) = Range(am) \cup Range(r)
    BY <2>4, <2>5, <2>6, ConcatRange
  <2> QED
    BY <2>2, <2>3, <2>4, <2>6, <2>7
<1>2. /\ DOMAIN commits = 1 .. Len(commits) /\ Len(commits) \in Nat
      /\ \A i \in DOMAIN commits : commits[i] \in Commit
  OBVIOUS
<1> HIDE DEF all
<1>3. lists \in Seq(Seq(Change))
  <2>1. lists \in [1 .. Len(commits) -> Seq(Change)]
    BY <1>1, <1>2
  <2> HIDE DEF lists
  <2> QED
    BY <1>2, <2>1
<1>4. flat \in Seq(Change)
      /\ Range(flat) = UNION { Range(all(commits[i])) : i \in DOMAIN commits }
  <2>1. DOMAIN lists = DOMAIN commits /\ \A i \in DOMAIN commits : lists[i] = all(commits[i])
    OBVIOUS
  <2> HIDE DEF lists
  <2>2. flat \in Seq(Change) /\ Range(flat) = UNION { Range(lists[i]) : i \in DOMAIN lists }
    BY <1>3, FlattenRange
  <2> QED
    BY <2>1, <2>2
<1>5. Touched(commits) = flat
  BY DEF Touched, all
<1> HIDE DEF flat
<1>6. Names(flat) = { f.Filename : f \in Range(flat) }
  BY DEF Names, Range
<1>7. { f.Filename : f \in Range(flat) } = UNION { names(commits[i]) : i \in DOMAIN commits }
  <2>1. \A i \in DOMAIN commits : { f.Filename : f \in Range(all(commits[i])) } = names(commits[i])
    BY <1>1, <1>2
  <2> HIDE DEF names
  <2> QED
    BY <1>4, <2>1
<1>8. UNION { names(commits[i]) : i \in DOMAIN commits } = TouchedNames(commits)
  BY DEF TouchedNames, Range
<1> QED
  BY <1>4, <1>5, <1>6, <1>7, <1>8

Distinct(files) ==
    \A i, j \in DOMAIN files : files[i].Filename = files[j].Filename => i = j

LEMMA NotedFacts ==
    ASSUME NEW files \in Seq(Change), NEW f \in Change, Distinct(files)
    PROVE  /\ Noted(files, f) \in Seq(Change) /\ Distinct(Noted(files, f))
           /\ Names(Noted(files, f)) = Names(files) \cup {f.Filename}
<1>1. CASE \E i \in DOMAIN files : files[i].Filename = f.Filename
  BY <1>1 DEF Noted, Names
<1>2. CASE ~ \E i \in DOMAIN files : files[i].Filename = f.Filename
  <2> DEFINE more == Append(files, f)
             n == Len(files)
  <2>1. /\ n \in Nat /\ DOMAIN files = 1 .. n /\ DOMAIN more = 1 .. n + 1
        /\ more \in Seq(Change) /\ more[n + 1] = f
        /\ \A i \in 1 .. n : more[i] = files[i]
    OBVIOUS
  <2>2. Noted(files, f) = more
    BY <1>2 DEF Noted
  <2> HIDE DEF more, n
  <2>3. DOMAIN more = DOMAIN files \cup {n + 1} /\ n + 1 \notin DOMAIN files
    BY <2>1
  <2>4. Names(more) = Names(files) \cup {f.Filename}
    BY <2>1, <2>3 DEF Names
  <2>5. Distinct(more)
    BY <1>2, <2>1, <2>3 DEF Distinct
  <2> QED
    BY <2>1, <2>2, <2>4, <2>5
<1> QED
  BY <1>1, <1>2

LEMMA NotedType ==
    ASSUME NEW files \in Seq(Change), NEW f \in Change
    PROVE  Noted(files, f) \in Seq(Change)
  BY DEF Noted

(* The loops of parsePushEvent.                                             *)
LEMMA PushRounds ==
    ASSUME NEW touched \in Seq(Change)
    PROVE  /\ PushScan(touched)[0] = <<>>
           /\ \A i \in 1 .. Len(touched) :
                 PushScan(touched)[i] = Noted(PushScan(touched)[i - 1], touched[i])
<1> DEFINE n == Len(touched)
           V == Seq(Change)
           G == [v \in V |-> [i \in 1 .. n |-> Noted(v, touched[i])]]
           Is(f) == f = [i \in 0 .. n |-> IF i = 0 THEN <<>> ELSE Noted(f[i - 1], touched[i])]
           scan == PushScan(touched)
<1>1. n \in Nat /\ \A i \in 1 .. n : touched[i] \in Change
  OBVIOUS
<1>2. G \in [V -> [1 .. n -> V]] /\ <<>> \in V
  <2>1. ASSUME NEW v \in V, NEW i \in 1 .. n PROVE Noted(v, touched[i]) \in V
    BY <1>1, NotedType
  <2>2. <<>> \in V
    OBVIOUS
  <2> HIDE DEF n, V
  <2> QED
    BY <2>1, <2>2
<1>3. PICK f \in [0 .. n -> V] : Computes(f, n, <<>>, G)
  <2> HIDE DEF G, n, V
  <2> QED
    BY <1>1, <1>2, PrefixRecursion
<1>4. ASSUME NEW i \in 1 .. n PROVE i - 1 \in 0 .. n /\ f[i] = Noted(f[i - 1], touched[i])
  <2> HIDE DEF Is, scan
  <2>1. i - 1 \in 0 .. n
    BY <1>1
  <2>2. f[i - 1] \in V
    <3> HIDE DEF V, n
    <3> QED
      BY <2>1
  <2>3. f[i] = G[f[i - 1]][i]
    BY <1>3 DEF Computes
  <2> QED
    BY <2>1, <2>2, <2>3
<1>5. Is(f)
  BY <1>1, <1>3, <1>4 DEF Computes
<1>6. scan = CHOOSE g : Is(g)
  BY DEF PushScan
<1>7. Is(scan)
  BY <1>5, <1>6
<1> HIDE DEF scan
<1>8. scan[0] = <<>> /\ \A i \in 1 .. n : scan[i] = Noted(scan[i - 1], touched[i])
  BY <1>1, <1>7
<1> QED
  BY <1>8 DEF scan

(* parsePushEvent lists every file that a commit of the push touches, and   *)
(* none twice, whatever the commits are.                                    *)
THEOREM PushedFilesComplete ==
    ASSUME NEW commits \in Seq(Commit)
    PROVE  /\ PushedFiles(commits) \in Seq(Change)
           /\ Names(PushedFiles(commits)) = TouchedNames(commits)
           /\ Distinct(PushedFiles(commits))
<1> DEFINE touched == Touched(commits)
           n == Len(touched)
           scan == PushScan(touched)
           S == { k \in 0 .. n :
                    /\ scan[k] \in Seq(Change) /\ Distinct(scan[k])
                    /\ Names(scan[k]) = { touched[i].Filename : i \in 1 .. k } }
<1>1. touched \in Seq(Change) /\ Names(touched) = TouchedNames(commits)
  BY TouchedType
<1> HIDE DEF touched
<1>2. n \in Nat /\ DOMAIN touched = 1 .. n /\ \A i \in 1 .. n : touched[i] \in Change
  BY <1>1
<1>3. scan[0] = <<>> /\ \A i \in 1 .. n : scan[i] = Noted(scan[i - 1], touched[i])
  BY <1>1, PushRounds
<1> HIDE DEF scan, n
<1>4. 0 \in S
  <2>1. <<>> \in Seq(Change) /\ Distinct(<<>>) /\ Names(<<>>) = {}
    BY DEF Distinct, Names
  <2>2. { touched[i].Filename : i \in 1 .. 0 } = {}
    OBVIOUS
  <2>3. 0 \in 0 .. n
    BY <1>2
  <2> QED
    BY <1>3, <2>1, <2>2, <2>3
<1>5. ASSUME NEW i \in 1 .. n, i - 1 \in S PROVE i \in S
  <2>1. /\ scan[i - 1] \in Seq(Change) /\ Distinct(scan[i - 1])
        /\ Names(scan[i - 1]) = { touched[k].Filename : k \in 1 .. i - 1 }
    BY <1>5
  <2>2. /\ scan[i] \in Seq(Change) /\ Distinct(scan[i])
        /\ Names(scan[i]) = Names(scan[i - 1]) \cup {touched[i].Filename}
    BY <1>2, <1>3, <2>1, NotedFacts
  <2>3. 1 .. i = (1 .. i - 1) \cup {i} /\ i \in 0 .. n
    BY <1>2
  <2>4. Names(scan[i]) = { touched[k].Filename : k \in 1 .. i }
    <3> DEFINE K == 1 .. i - 1
    <3> HIDE DEF K
    <3>1. { touched[k].Filename : k \in K \cup {i} }
            = { touched[k].Filename : k \in K } \cup {touched[i].Filename}
      OBVIOUS
    <3> QED
      BY <2>1, <2>2, <2>3, <3>1 DEF K
  <2> QED
    BY <2>2, <2>3, <2>4
<1> HIDE DEF S
<1>6. n \in S
  <2>1. 0 .. n \subseteq S
    BY <1>2, <1>4, <1>5, UpToInduction
  <2>2. n \in 0 .. n
    BY <1>2
  <2> QED
    BY <2>1, <2>2
<1>7. PushedFiles(commits) = scan[n]
  BY DEF PushedFiles, scan, n, touched
<1>8. { touched[i].Filename : i \in 1 .. n } = Names(touched)
  BY <1>2 DEF Names
<1> QED
  BY <1>1, <1>6, <1>7, <1>8 DEF S

\* What a push is submitted as.
Pushed(d) ==
    /\ input[d].via = "github" /\ input[d].event = "push" /\ submit[d] # NoSubmit =>
          /\ input[d].wellFormed
          /\ submit[d].payload = Marshal(ParsePushEvent(input[d]))
    /\ control[d] # "none" => submit[d] # NoSubmit

AllPushed == \A d \in Delivery : Pushed(d)

LEMMA PushedNext == Inv /\ AllPushed /\ [Next]_vars => AllPushed'
<1> SUFFICES ASSUME Inv, AllPushed, [Next]_vars, NEW d \in Delivery PROVE Pushed(d)'
  BY DEF AllPushed
<1>1. ASSUME UNCHANGED <<input, submit, control>> PROVE Pushed(d)'
  BY <1>1 DEF AllPushed, Pushed
<1>2. ASSUME NEW e \in Delivery, Receive(e) PROVE Pushed(d)'
  <2>1. PICK i \in Input :
          /\ input' = [input EXCEPT ![e] = i]
          /\ HandleGitHubWebhook(e, i) \/ HandleTestWebhook(e, i) \/ CallAPI(e, i)
    BY <1>2 DEF Receive
  <2>2. UNCHANGED control /\ control[e] = "none" /\ submit[e] = NoSubmit
    BY <1>2 DEF Receive, Inv, Told
  <2>3. d # e => submit'[d] = submit[d] /\ input'[d] = input[d]
    BY <2>1 DEF HandleGitHubWebhook, HandleTestWebhook, CallAPI, Posts, Inv, TypeOK
  <2>4. ASSUME d = e, i.via = "github", i.event = "push"
        PROVE  \/ submit'[d] = NoSubmit
               \/ i.wellFormed /\ submit'[d].payload = Marshal(ParsePushEvent(i))
    <3>1. HandleGitHubWebhook(d, i)
      BY <2>1, <2>4 DEF HandleTestWebhook, CallAPI
    <3>2. CASE UNCHANGED submit
      BY <2>2, <2>4, <3>2
    <3>3. CASE i.wellFormed /\ Posts(d, WebhookQueue, Marshal(EventPayload(i)))
      <4>1. EventPayload(i) = ParsePushEvent(i)
        BY <2>4 DEF EventPayload
      <4>2. submit'[d] = [queue |-> WebhookQueue, payload |-> Marshal(EventPayload(i))]
        BY <3>3 DEF Posts, Inv
      <4> QED
        BY <3>3, <4>1, <4>2
    <3> QED
      BY <3>1, <3>2, <3>3, <2>4 DEF HandleGitHubWebhook
  <2>5. d = e => input'[d] = i
    BY <2>1 DEF Inv, TypeOK
  <2> QED
    BY <2>2, <2>3, <2>4, <2>5 DEF AllPushed, Pushed
<1>3. ASSUME NEW e \in Delivery, Validate(e) \/ Publish(e) PROVE Pushed(d)'
  <2>1. UNCHANGED <<input, submit>> /\ (d # e => control'[d] = control[d])
    BY <1>3 DEF Validate, Publish, Controls, Inv, TypeOK
  <2>2. submit[e] # NoSubmit
    BY <1>3 DEF Validate, Publish, AllPushed, Pushed
  <2> QED
    BY <2>1, <2>2 DEF AllPushed, Pushed
<1> QED
  BY <1>1, <1>2, <1>3 DEF Next, vars, TimeOut, ReadReply

(* The job of a push names the files of its commits, each once.             *)
THEOREM SubmissionPushedFiles == Spec => []PushedFilesNamedOnce
<1>1. Init => AllPushed
  BY DEF Init, AllPushed, Pushed, NoSubmit
<1>2. Inv /\ AllPushed => PushedFilesNamedOnce
  <2> SUFFICES ASSUME Inv, AllPushed, NEW d \in Delivery,
                      jobs[d] > 0, input[d].via = "github", input[d].event = "push"
               PROVE  LET fields == submit[d].payload.fields
                          items  == IF "files_changed" \in DOMAIN fields
                                      THEN fields["files_changed"].items ELSE <<>>
                      IN  Names(items) = TouchedNames(input[d].commits) /\ Distinct(items)
    BY DEF PushedFilesNamedOnce, Names, TouchedNames, Distinct
  <2> DEFINE p == ParsePushEvent(input[d])
             files == PushedFiles(input[d].commits)
             fields == submit[d].payload.fields
             items  == IF "files_changed" \in DOMAIN fields
                         THEN fields["files_changed"].items ELSE <<>>
  <2>1. submit[d] # NoSubmit
    BY DEF Inv, Told, TypeOK, AllPushed, Pushed
  <2>2. input[d].wellFormed /\ submit[d].payload = Marshal(p)
    BY <2>1 DEF AllPushed, Pushed
  <2>3. input[d] \in Input
    BY DEF Inv, TypeOK, Nothing
  <2>4. input[d].commits \in Seq(Commit)
    BY <2>2, <2>3, InputAssumption
  <2>5. p.FilesChanged = files
    BY DEF ParsePushEvent, EmptyPayload
  <2>6. items = files
    <3> DEFINE value == [ action |-> String(p.Action), repo_owner |-> String(p.RepoOwner),
                   repo_name |-> String(p.RepoName), clone_url |-> String(p.CloneURL),
                   ref |-> String(p.Ref), pr_number |-> Number(p.PRNumber),
                   commit_sha |-> String(p.CommitSHA),
                   files_changed |-> [type |-> "array", content |-> "files",
                                      items |-> p.FilesChanged] ]
               empty == (IF p.PRNumber = "0" THEN {"pr_number"} ELSE {})
                    \cup (IF p.CommitSHA = "" THEN {"commit_sha"} ELSE {})
                    \cup (IF p.FilesChanged = <<>> THEN {"files_changed"} ELSE {})
    <3> HIDE DEF p, files
    <3>1. fields = [f \in DOMAIN value \ empty |-> value[f]]
      <4>1. Marshal(p) = Object([f \in DOMAIN value \ empty |-> value[f]])
        BY DEF Marshal
      <4> HIDE DEF value, empty
      <4> QED
        BY <2>2, <4>1 DEF Object
    <3>2. "files_changed" \in DOMAIN value /\ value["files_changed"].items = files
      BY <2>5
    <3>3. "files_changed" \in empty <=> files = <<>>
      BY <2>5
    <3> HIDE DEF value, empty, fields
    <3>4. "files_changed" \in DOMAIN fields <=> files # <<>>
      BY <3>1, <3>2, <3>3
    <3>5. files # <<>> => fields["files_changed"] = value["files_changed"]
      BY <3>1, <3>2, <3>3
    <3> QED
      BY <3>2, <3>4, <3>5
  <2>7. Names(files) = TouchedNames(input[d].commits) /\ Distinct(files)
    BY <2>4, PushedFilesComplete
  <2> HIDE DEF files, items
  <2> QED
    BY <2>6, <2>7 DEF items
<1> QED
  BY <1>1, <1>2, PushedNext, Invariance, PTL DEF Spec

=============================================================================
