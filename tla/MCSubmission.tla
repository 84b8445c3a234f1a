---------------------------- MODULE MCSubmission ----------------------------
(* The schema of the codereview queue of deploy/base/controller.yaml, a     *)
(* queue with numbers, and configurations with a schema that is refused and *)
(* with one that holds what the validator leaves out.                       *)
EXTENDS Submission

MCExponentForm == "1000000" :> "1e+06"

MCProp(type, enum) == [isMap |-> TRUE, type |-> type, enum |-> enum]
MCRaw(type, required, map) ==
    [ isMap |-> TRUE, type |-> type, required |-> required,
      properties |-> [isMap |-> TRUE, map |-> map] ]

MCReview ==
    MCRaw(String("object"),
          <<String("action"), String("repo_owner"), String("repo_name")>>,
          "action" :> MCProp(String("string"),
                             <<String("review_pr"), String("review_push")>>))
\* The enum of note has no type: the validator takes a string "1" for its 1,
\* and does not find its 1000000 in a payload.
MCTyped ==
    MCRaw(Null, <<String("count")>>,
          [ count |-> MCProp(String("number"), <<YamlInt("1"), YamlInt("5")>>),
            flag  |-> MCProp(String("boolean"), <<>>),
            note  |-> MCProp(Null, <<YamlInt("1"), YamlInt("1000000")>>) ])

\* A name that is no string, a property that is no object.
MCLoose ==
    MCRaw(YamlInt("1"), <<YamlInt("1")>>,
          [ count |-> MCProp(Null, <<YamlInt("1"), YamlInt("1000000")>>),
            flag  |-> [isMap |-> FALSE, type |-> Null, enum |-> <<>>] ])

MCRawSchemas ==
    { [codereview |-> MCReview, typed |-> MCTyped],
      [codereview |-> MCReview, typed |-> MCLoose],
      [codereview |-> MCReview,
       typed |-> [MCTyped EXCEPT !.type = String("array")]] }

MCEvent(event, action, signed, wellFormed) ==
    [ via |-> "github", event |-> event, action |-> action, signed |-> signed,
      wellFormed |-> wellFormed, owner |-> "o", name |-> "n",
      cloneURL |-> "https://github.com/o/n.git", ref |-> "b", number |-> "7",
      sha |-> "abc",
      commits |-> << [added |-> <<"f">>, modified |-> <<"g">>, removed |-> <<>>],
                     [added |-> <<>>, modified |-> <<"f">>, removed |-> <<"g", "h">>] >> ]

MCTest(wellFormed, action, owner) ==
    [ via |-> "test", wellFormed |-> wellFormed,
      payload |-> [EmptyPayload EXCEPT !.Action = action, !.RepoOwner = owner,
                                       !.RepoName = owner, !.PRNumber = "7"] ]

MCCall(queue, payload) == [via |-> "api", queue |-> queue, payload |-> payload]

MCInput ==
    { MCEvent("pull_request", "opened", TRUE, TRUE),
      MCEvent("pull_request", "synchronize", FALSE, TRUE),
      MCEvent("pull_request", "closed", TRUE, TRUE),
      MCEvent("pull_request", "opened", TRUE, FALSE),
      MCEvent("push", "", TRUE, TRUE),
      [MCEvent("push", "", TRUE, TRUE) EXCEPT !.commits = <<>>], MCEvent("ping", "", TRUE, TRUE),
      MCEvent("star", "created", TRUE, TRUE),
      MCTest(TRUE, "", "o"), MCTest(TRUE, "", ""), MCTest(FALSE, "", ""),
      MCTest(TRUE, "deploy", "o"),
      MCCall("codereview", Object("action" :> String("review_pr"))),
      MCCall("free", Null), MCCall("absent", Null), MCCall("typed", Null) }
    \cup { MCCall("typed", Object("count" :> v)) :
             v \in { Number("1"), Number("2"), String("1"), Number("1000000"), Null } }
    \cup { MCCall("typed", Object([count |-> Number("1"), note |-> v])) :
             v \in { String("1"), Number("1000000") } }
    \cup { MCCall("typed", Object("note" :> Null)),
           MCCall("typed", Object([count |-> Number("5"), flag |-> String("x")])) }

=============================================================================
