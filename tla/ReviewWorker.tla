---------------------------- MODULE ReviewWorker ----------------------------
(***************************************************************************)
(* The code review worker (examples/codereview-worker/main.go): attempts   *)
(* to process a job of a pull request while commits are pushed to it.      *)
(* Each call of GitHub, git and the LLM is a step of handleProcess, and    *)
(* between two of them the pull request, or another attempt at the same    *)
(* job, may move on.                                                       *)
(*                                                                         *)
(* Commits are the numbers 1, 2, ... in the order they are pushed; Diffs   *)
(* gives the files of the pull request at each.  A job is                  *)
(* [number, sha, cloneURL, files]: number says whether it names the pull   *)
(* request, sha is the commit, 0 where it has none.                        *)
(***************************************************************************)
EXTENDS ReviewPosting

CONSTANTS
    Attempt,    \* deliveries of the job to workers
    Jobs,       \* what the job may be
    Diffs,      \* the diff at each commit, a sequence of sequences of files
    Outputs,    \* what the LLM may answer
    MaxCrashes  \* bound: how many attempts die with their pod

ASSUME ReviewAssumption ==
    /\ Diffs \in Seq(Seq(FileChange)) /\ Diffs # <<>> /\ MaxCrashes \in Nat
    /\ Jobs \subseteq [number : BOOLEAN, sha : 0 .. Len(Diffs),
                       cloneURL : BOOLEAN, files : Seq(FileChange)]
    /\ Outputs \subseteq LLMOutput

VARIABLES
    setup,    \* GITHUB_TOKEN, POST_REVIEWS, whose pull request it is, the job
    head,     \* the latest commit of the pull request
    attempt,  \* the local variables of each handleProcess
    reviews,  \* the reviews each attempt has left at GitHub, a sequence, each
              \* with the commit GitHub put it on
    refused,  \* the commit at which GitHub refused a comment's line, or 0
    reactions, \* the reactions to the comments of an attempt's review
    crashes

vars == <<setup, head, attempt, reviews, refused, reactions, crashes>>

NoReview == [summary |-> {}, verdict |-> "", comments |-> <<>>]
NoRequest == ReviewRequest(0, NoReview, <<>>)

NotStarted ==
    [ step |-> "none", sha |-> 0, files |-> <<>>, fetched |-> 0,
      review |-> NoReview, request |-> NoRequest,
      success |-> FALSE, posted |-> FALSE, count |-> 0 ]

Init ==
    /\ setup \in [token : BOOLEAN, postReviews : BOOLEAN, own : BOOLEAN, job : Jobs]
    /\ head = 1
    /\ attempt = [a \in Attempt |-> NotStarted]
    /\ reviews = [a \in Attempt |-> <<>>]
    /\ refused = [a \in Attempt |-> 0]
    /\ reactions = [a \in Attempt |-> <<>>]
    /\ crashes = 0

Becomes(a, locals) == attempt' = [attempt EXCEPT ![a] = locals]
UnchangedGitHub == UNCHANGED <<setup, head, reviews, refused, reactions, crashes>>

-----------------------------------------------------------------------------
(* The surroundings.                                                        *)

PushCommit ==
    /\ head < Len(Diffs)
    /\ head' = head + 1
    /\ UNCHANGED <<setup, attempt, reviews, refused, reactions, crashes>>

\* The job is delivered for the first time, again after a failure, or while an
\* attempt that takes longer than processing_timeout goes on.
Deliver(a) ==
    /\ attempt[a].step = "none"
    /\ setup.job.sha <= head
    /\ Becomes(a, [NotStarted EXCEPT !.step = "info", !.sha = setup.job.sha,
                                     !.files = setup.job.files])
    /\ UnchangedGitHub

Running == {"info", "files", "clone", "llm", "post"}

\* The pod dies; what it has posted stays.
Crash(a) ==
    /\ attempt[a].step \in Running /\ crashes < MaxCrashes
    /\ Becomes(a, [attempt[a] EXCEPT !.step = "dead"])
    /\ crashes' = crashes + 1
    /\ UNCHANGED <<setup, head, reviews, refused, reactions>>

-----------------------------------------------------------------------------
(* handleProcess up to the answer of the LLM.                               *)

AsksGitHub == setup.token /\ setup.job.number

\* fetchPRInfo, whose failure is only logged.
FetchPRInfo(a) ==
    /\ attempt[a].step = "info"
    /\ IF ~AsksGitHub THEN Becomes(a, [attempt[a] EXCEPT !.step = "clone"])
       ELSE \/ Becomes(a, [attempt[a] EXCEPT !.step = "files",
                             !.sha = IF @ = 0 THEN head ELSE @])
            \/ Becomes(a, [attempt[a] EXCEPT !.step = "files"])
    /\ UnchangedGitHub

\* Mutant: the files are those of the commit before the latest.
FetchPRFilesCached(a) ==
    /\ attempt[a].step = "files"
    /\ \/ Becomes(a, [attempt[a] EXCEPT !.step = "clone", !.fetched = 1,
                        !.files = Diffs[1]])
       \/ Becomes(a, [attempt[a] EXCEPT !.step = "clone"])
    /\ UnchangedGitHub

\* fetchPRFiles: the diff of the latest commit, or else the payload's files.
FetchPRFiles(a) ==
    /\ attempt[a].step = "files"
    /\ \/ Becomes(a, [attempt[a] EXCEPT !.step = "clone", !.fetched = head,
                        !.files = Diffs[head]])
       \/ Becomes(a, [attempt[a] EXCEPT !.step = "clone"])
    /\ UnchangedGitHub

\* cloneRepo: with or without the clone the review goes on.
CloneRepo(a) ==
    /\ attempt[a].step = "clone"
    /\ Becomes(a, [attempt[a] EXCEPT !.step = "llm"])
    /\ UnchangedGitHub

\* respond, after handleProcess got so far.
Responds(a, success, posted, count) ==
    Becomes(a, [attempt[a] EXCEPT !.step = "done", !.success = success,
                                  !.posted = posted, !.count = count])

\* callLLMCli fails, and with it the job.
LLMFails(a) ==
    /\ attempt[a].step = "llm"
    /\ Responds(a, FALSE, FALSE, 0)
    /\ UnchangedGitHub

\* ... or its output is parsed, and postStructuredReview builds its request; a
\* job that names no pull request ends here.
LLMAnswers(a) ==
    /\ attempt[a].step = "llm"
    /\ \E out \in Outputs :
          LET review == ParseStructuredReview(out)
              parsed == [attempt[a] EXCEPT !.review = review]
          IN  IF setup.postReviews /\ AsksGitHub
                THEN Becomes(a, [parsed EXCEPT !.step = "post",
                       !.request = ReviewRequest(attempt[a].sha, review, attempt[a].files)])
                ELSE Becomes(a, [parsed EXCEPT !.step = "done", !.success = TRUE])
    /\ UnchangedGitHub

-----------------------------------------------------------------------------
(* The rest of postStructuredReview.                                        *)

\* GitHub takes a comment only on a line that the diff at the commit shows;
\* without a commit_id it takes the latest.
CommitOf(request) == IF request.commit = 0 THEN head ELSE request.commit

\* The review as GitHub keeps it: of that commit.
Taken(request) == [request EXCEPT !.commit = CommitOf(request)]

LineUnknown(request) ==
    LET files == Diffs[CommitOf(request)]
    IN  \E i \in DOMAIN request.inline :
          ~ \E f \in DOMAIN files :
                files[f].Filename = request.inline[i].path
                    /\ request.inline[i].line \in RightLines(files[f].Patch)

\* ... and no verdict of the author's.
Refused(request) ==
    LineUnknown(request) \/ (setup.own /\ request.event # "COMMENT")

\* Mutant: an error of the transport is answered with the fallback, too.
PostLostRetried(a) ==
    /\ attempt[a].step = "post"
    /\ ~Refused(attempt[a].request)
    /\ reviews' = [reviews EXCEPT ![a] = Append(@, Taken(attempt[a].request))]
    /\ IF attempt[a].request.event # "COMMENT"
         THEN Becomes(a, [attempt[a] EXCEPT !.request.event = "COMMENT"])
         ELSE Responds(a, TRUE, FALSE, 0)
    /\ UNCHANGED <<setup, head, refused, reactions, crashes>>

\* The review is made, but the reply is lost or too late: an error.
PostLost(a) ==
    /\ attempt[a].step = "post"
    /\ ~Refused(attempt[a].request)
    /\ reviews' = [reviews EXCEPT ![a] = Append(@, Taken(attempt[a].request))]
    /\ Responds(a, TRUE, FALSE, 0)
    /\ UNCHANGED <<setup, head, refused, reactions, crashes>>

\* The review is made.
PostAccepted(a) ==
    /\ attempt[a].step = "post"
    /\ ~Refused(attempt[a].request)
    /\ reviews' = [reviews EXCEPT ![a] = Append(@, Taken(attempt[a].request))]
    /\ Responds(a, TRUE, TRUE, Cardinality(DOMAIN attempt[a].request.inline))
    /\ UNCHANGED <<setup, head, refused, reactions, crashes>>

\* Mutant: after a refusal the review is made anew from the diff.
PostRefusedRetried(a) ==
    /\ attempt[a].step = "post"
    /\ Refused(attempt[a].request)
    /\ Becomes(a, [attempt[a] EXCEPT !.step = "files"])
    /\ UnchangedGitHub

\* 422: once more as a comment, if it was more than that; else an error.
PostRefused(a) ==
    /\ attempt[a].step = "post"
    /\ Refused(attempt[a].request)
    /\ refused' = [refused EXCEPT ![a] = IF LineUnknown(attempt[a].request)
                                            THEN CommitOf(attempt[a].request) ELSE @]
    /\ IF attempt[a].request.event # "COMMENT"
         THEN Becomes(a, [attempt[a] EXCEPT !.request.event = "COMMENT"])
         ELSE Responds(a, TRUE, FALSE, 0)
    /\ UNCHANGED <<setup, head, reviews, reactions, crashes>>

\* The request does not arrive, or GitHub answers with any other status.
PostFails(a) ==
    /\ attempt[a].step = "post"
    /\ Responds(a, TRUE, FALSE, 0)
    /\ UnchangedGitHub

\* addReactionsToReviewComments, in a goroutine of its own; each of the calls
\* for a reaction may fail.
AddReactions(a) ==
    /\ attempt[a].posted /\ reactions[a] = <<>>
    /\ LET request == reviews[a][Len(reviews[a])] IN
       \E done \in SUBSET DOMAIN request.inline :
          reactions' = [reactions EXCEPT ![a] = [i \in done |-> ReactionTo(request, i)]]
    /\ UNCHANGED <<setup, head, attempt, reviews, refused, crashes>>

-----------------------------------------------------------------------------
CallsGitHub(a) ==
    FetchPRInfo(a) \/ FetchPRFiles(a) \/ PostAccepted(a) \/ PostLost(a)
        \/ PostRefused(a) \/ PostFails(a)

Next ==
    \/ PushCommit
    \/ \E a \in Attempt :
          Deliver(a) \/ Crash(a) \/ CallsGitHub(a) \/ CloneRepo(a)
              \/ LLMAnswers(a) \/ LLMFails(a) \/ AddReactions(a)

\* Calls of GitHub end within 30 seconds; git and the LLM have no time limit.
Spec ==
    /\ Init /\ [][Next]_vars
    /\ \A a \in Attempt : WF_vars(CallsGitHub(a))

-----------------------------------------------------------------------------
TypeOK ==
    /\ setup \in [token : BOOLEAN, postReviews : BOOLEAN, own : BOOLEAN, job : Jobs]
    /\ head \in DOMAIN Diffs
    /\ \A a \in Attempt :
        /\ attempt[a].step \in Running \cup {"none", "done", "dead"}
        /\ attempt[a].sha \in 0 .. head /\ attempt[a].fetched \in 0 .. head
        /\ attempt[a].review.verdict \in Verdicts \cup {NoReview.verdict}
        /\ \A i \in DOMAIN attempt[a].review.comments :
              attempt[a].review.comments[i].severity \in Severities
        /\ attempt[a].count \in Nat
    /\ DOMAIN reviews = Attempt /\ DOMAIN reactions = Attempt
    /\ refused \in [Attempt -> 0 .. head]
    /\ crashes \in 0 .. MaxCrashes

(* An attempt leaves at most one review, whatever becomes of the replies    *)
(* and with the fallback; one that reports a review has left it, with as    *)
(* many comments at lines as it reports; and nothing is posted for a job    *)
(* that names no pull request or when it is switched off.                   *)
ReviewsAsReported ==
    \A a \in Attempt :
        /\ Len(reviews[a]) <= 1
        /\ attempt[a].posted =>
              /\ Len(reviews[a]) = 1 /\ attempt[a].success
              /\ attempt[a].count = Cardinality(DOMAIN reviews[a][1].inline)
        /\ reviews[a] # <<>> =>
              setup.token /\ setup.postReviews /\ setup.job.number

(* Every comment of the LLM is shown exactly once: at a line of the diff or *)
(* in the text of the review, although its file and its line are changed on *)
(* the way and the two are told apart by them.                              *)
CommentsShownOnce ==
    \A a \in Attempt : \A n \in DOMAIN reviews[a] :
        LET r == reviews[a][n] IN
        /\ DOMAIN r.inline \cup r.body = DOMAIN attempt[a].review.comments
        /\ DOMAIN r.inline \cap r.body = {}

(* A comment stands at most five lines away from where the LLM put it, in a *)
(* file whose name ends in the one it gave (the first of several).          *)
CommentsNearby ==
    \A a \in Attempt : \A n \in DOMAIN reviews[a] :
        \A i \in DOMAIN reviews[a][n].inline :
            LET c == attempt[a].review.comments[i]
                at == reviews[a][n].inline[i]
            IN  /\ Distance(c.line, at.line) <= 5
                /\ IsSuffix(c.file, at.path)

(* The lines the worker finds in a diff are those GitHub finds in it: a     *)
(* review is refused for a comment's line only if the diff is not the one   *)
(* of the commit it is posted for.                                          *)
LinesRefusedOnlyIfStale ==
    \A a \in Attempt : refused[a] # 0 => refused[a] # attempt[a].fetched

(* The diff that is reviewed is never older than the commit GitHub puts the *)
(* review on, though commits are pushed between the calls: once the attempt *)
(* knows a commit, from the job or from fetchPRInfo, it fetches the files   *)
(* later and posts the review for the commit it knows.  Without one (the    *)
(* job has none and fetchPRInfo failed) GitHub puts the review on the head, *)
(* which may have moved since.                                              *)
DiffNotOlder ==
    \A a \in Attempt : \A n \in DOMAIN reviews[a] :
        attempt[a].fetched # 0 /\ attempt[a].sha # 0 =>
            attempt[a].fetched >= reviews[a][n].commit

(* A comment that has its line for itself gets the reaction of its severity *)
(* (severityMap has one severity for all the comments at a line).           *)
ReactionsFit ==
    \A a \in Attempt : \A i \in DOMAIN reactions[a] :
        LET r == reviews[a][1]
            alone == \A j \in DOMAIN r.inline \ {i} :
                        <<r.inline[j].path, r.inline[j].line>>
                            # <<r.inline[i].path, r.inline[i].line>>
        IN  alone => reactions[a][i] = Reaction(attempt[a].review.comments[i].severity)

(* Every attempt responds, unless its pod dies or git or the LLM, for which *)
(* the worker sets no time limit, never ends.                               *)
AttemptEnds ==
    \A a \in Attempt :
        attempt[a].step = "info" ~>
            \/ attempt[a].step \in {"done", "dead"}
            \/ [](attempt[a].step \in {"clone", "llm"})

=============================================================================
