---------------------------- MODULE ReviewPosting ----------------------------
(***************************************************************************)
(* The pure part of the code review worker                                 *)
(* (examples/codereview-worker/main.go): what it makes of the output of    *)
(* the LLM and of the diff of a pull request.                              *)
(*                                                                         *)
(* A file name is the sequence of its path's components.  A text is the    *)
(* set of the phrases extractVerdict looks for in it.  A line of a patch   *)
(* is [mark, hunk]: its first character, and the start on the right side   *)
(* if it holds the header of a hunk (NoHunk otherwise).  A suggestion is   *)
(* "none", "code", or "prose", which isValidSuggestion finds to be none.   *)
(***************************************************************************)
EXTENDS Integers, SequencesExt

NoHunk == -1

PatchLine == [mark : STRING, hunk : Nat \cup {NoHunk}]
FileChange == [Filename : Seq(STRING), Patch : Seq(PatchLine)]
ReviewComment == [file : Seq(STRING), line : Int, severity : STRING,
                  suggestion : {"none", "code", "prose"}]
LLMOutput == [kind : {"json", "cut", "text"}, summary : SUBSET STRING,
              verdict : STRING, comments : Seq(ReviewComment)]

-----------------------------------------------------------------------------
(* The diff.                                                                *)

\* Mutant: deleted lines are counted.
NextLineCountingDeleted(acc, l) ==
    IF l.hunk # NoHunk THEN [acc EXCEPT !.next = l.hunk]
    ELSE IF acc.next = 0 \/ l.mark = "\\" THEN acc
    ELSE [next |-> acc.next + 1, lines |-> Append(acc.lines, acc.next)]

\* One round of the loop of buildDiffMap.
NextLine(acc, l) ==
    IF l.hunk # NoHunk THEN [acc EXCEPT !.next = l.hunk]
    ELSE IF acc.next = 0 \/ l.mark \in {"-", "\\"} THEN acc
    ELSE [next |-> acc.next + 1, lines |-> Append(acc.lines, acc.next)]

\* The loop: what is known after so many lines of the patch.
DiffScan(patch) ==
    LET after[i \in 0 .. Len(patch)] ==
          IF i = 0 THEN [next |-> 0, lines |-> <<>>]
                   ELSE NextLine(after[i - 1], patch[i])
    IN  after

\* buildDiffMap: the lines of the new file that the patch shows, in order.
BuildDiffMap(patch) == DiffScan(patch)[Len(patch)].lines

Distance(m, n) == IF m > n THEN m - n ELSE n - m

\* Mutant: the nearest line, however far away.
FindDiffLineAnywhere(lines, target) ==
    IF target \in Range(lines) THEN target
    ELSE IF lines = <<>> THEN 0
    ELSE lines[CHOOSE i \in DOMAIN lines :
                  \A j \in DOMAIN lines :
                      Distance(target, lines[i]) <= Distance(target, lines[j])]

\* The line itself, or the first of those nearest to it, at most five lines
\* away; 0 where the code returns false.
FindDiffLine(lines, target) ==
    LET nearest(i) ==
            /\ Distance(target, lines[i]) <= 5
            /\ \A j \in DOMAIN lines :
                  Distance(target, lines[i]) < Distance(target, lines[j])
                      \/ (Distance(target, lines[i]) = Distance(target, lines[j]) /\ i <= j)
    IN  IF target \in Range(lines) THEN target
        ELSE IF \E i \in DOMAIN lines : nearest(i)
          THEN lines[CHOOSE i \in DOMAIN lines : nearest(i)]
          ELSE 0

\* The full name of a file that the LLM gave without its directories.  What
\* the third loop of the code looks for, one of the first two has found.
ResolveFilename(name, files) ==
    LET fits == { i \in DOMAIN files : IsStrictSuffix(name, files[i].Filename) }
    IN  IF fits = {} \/ \E i \in DOMAIN files : files[i].Filename = name
          THEN name
          ELSE files[CHOOSE i \in fits : \A j \in fits : i <= j].Filename

\* diffMaps: of two entries for a file the later one.
DiffLines(files, name) ==
    LET entries == { i \in DOMAIN files : files[i].Filename = name }
    IN  IF entries = {} THEN <<>>
        ELSE BuildDiffMap(files[CHOOSE i \in entries : \A j \in entries : j <= i].Patch)

-----------------------------------------------------------------------------
(* The output of the LLM: [kind, summary, verdict, comments].  "json" is    *)
(* what json.Unmarshal takes, "cut" is JSON with a mistake in it, "text" is *)
(* anything else.  A verdict is one of Verdicts, "" or another phrase that   *)
(* extractVerdict looks for.                                                *)

Verdicts == {"approve", "request_changes", "comment"}
Severities == {"critical", "warning", "suggestion", "praise"}

\* extractVerdict.
ExtractVerdict(text) ==
    IF text \cap {"request_changes", "request changes", "critical", "must be fixed"} # {}
      THEN "request_changes"
    ELSE IF text \cap {"approve", "lgtm", "looks good"} # {} THEN "approve"
    ELSE "comment"

\* normalizeSeverity.
NormalizeSeverity(word) ==
    IF word \in {"critical", "high", "error", "blocker"} THEN "critical"
    ELSE IF word \in {"warning", "medium", "warn", "major"} THEN "warning"
    ELSE IF word \in {"praise", "positive", "good", "nice"} THEN "praise"
    ELSE "suggestion"

\* regexParseReview.  Of an output with a mistake in it, comments are those that
\* the regular expression finds: with file, line in digits, severity and a
\* message in this order; it passes over all others.  Each has the first
\* suggestion that follows it.
RegexComments(comments) ==
    [ i \in DOMAIN comments |->
        LET later == { j \in DOMAIN comments :
                         j >= i /\ comments[j].suggestion # "none" }
        IN  [ comments[i] EXCEPT !.suggestion =
                IF later = {} THEN "none"
                ELSE comments[CHOOSE j \in later : \A k \in later : j <= k].suggestion ] ]

\* Mutant: the verdict is taken as the LLM words it.
ParseStructuredReviewRaw(out) ==
    LET found == IF out.kind = "cut" THEN RegexComments(out.comments) ELSE out.comments
    IN  IF out.kind = "text"
          THEN [ summary |-> out.summary, verdict |-> ExtractVerdict(out.summary),
                 comments |-> <<>> ]
          ELSE [ summary |-> out.summary, verdict |-> out.verdict,
                 comments |-> [ i \in DOMAIN found |->
                     [found[i] EXCEPT !.severity = NormalizeSeverity(@)] ] ]

\* parseStructuredReview.  An empty output ends as plain text as well.
ParseStructuredReview(out) ==
    LET found == IF out.kind = "cut" THEN RegexComments(out.comments) ELSE out.comments
    IN  IF out.kind = "text" \/ (out.summary = {} /\ out.verdict = "" /\ found = <<>>)
          THEN [ summary |-> out.summary, verdict |-> ExtractVerdict(out.summary),
                 comments |-> <<>> ]
          ELSE [ summary |-> out.summary,
                 verdict |-> IF out.verdict \in Verdicts THEN out.verdict
                             ELSE ExtractVerdict(out.summary \cup {out.verdict}),
                 comments |-> [ i \in DOMAIN found |->
                     [found[i] EXCEPT !.severity = NormalizeSeverity(@)] ] ]

-----------------------------------------------------------------------------
(* The review that postStructuredReview makes of them.                      *)

\* Mutant: the comment in the list keeps the line the LLM gave it.
PlacedAsGiven(c, files) ==
    LET name == ResolveFilename(c.file, files)
        line == FindDiffLine(DiffLines(files, name), c.line)
    IN  IF c.file = <<>> \/ c.line <= 0 THEN [comment |-> c, at |-> 0]
        ELSE [comment |-> [c EXCEPT !.file = name], at |-> line]

\* One round of the loop over the comments: the comment as it is from now on,
\* and the line it is posted at (0: it is not).
Placed(c, files) ==
    LET name == ResolveFilename(c.file, files)
        line == FindDiffLine(DiffLines(files, name), c.line)
    IN  IF c.file = <<>> \/ c.line <= 0 THEN [comment |-> c, at |-> 0]
        ELSE [ comment |-> [c EXCEPT !.file = name,
                                     !.line = IF line = 0 THEN @ ELSE line],
               at |-> line ]

Event(verdict) ==
    IF verdict = "approve" THEN "APPROVE"
    ELSE IF verdict = "request_changes" THEN "REQUEST_CHANGES" ELSE "COMMENT"

\* Comments are known by their index: those of inline are posted at a line,
\* those of body are listed in the text of the review.
ReviewRequest(sha, review, files) ==
    LET placed   == [i \in DOMAIN review.comments |-> Placed(review.comments[i], files)]
        comments == [i \in DOMAIN placed |-> placed[i].comment]
        inline   == { i \in DOMAIN placed : placed[i].at # 0 }
        posted   == { <<comments[i].file, placed[i].at>> : i \in inline }
    IN  [ commit |-> sha, event |-> Event(review.verdict), comments |-> comments,
          inline |-> [i \in inline |-> [ path |-> comments[i].file, line |-> placed[i].at,
                                         suggests |-> comments[i].suggestion = "code" ]],
          body |-> { i \in DOMAIN comments :
                       <<comments[i].file, comments[i].line>> \notin posted } ]

Reaction(severity) ==
    CASE severity = "critical" -> "-1"      [] severity = "warning" -> "confused"
      [] severity = "suggestion" -> "eyes"  [] severity = "praise" -> "+1"

\* Mutant: the first of the comments at a line decides.
ReactionOfFirst(request, i) ==
    LET there == { j \in DOMAIN request.comments :
                     request.comments[j].line = request.inline[i].line }
    IN  Reaction(request.comments[CHOOSE j \in there : \A k \in there : j <= k].severity)

\* severityMap: of the comments at a line the last one decides.
ReactionTo(request, i) ==
    LET at(j) == request.comments[j].file = request.inline[i].path
                     /\ request.comments[j].line = request.inline[i].line
        there == { j \in DOMAIN request.comments : at(j) }
    IN  Reaction(request.comments[CHOOSE j \in there : \A k \in there : k <= j].severity)

-----------------------------------------------------------------------------
(* What GitHub takes for the lines of a patch, without running through it:  *)
(* a line that is not deleted lies as far behind the start of its hunk as   *)
(* there are such lines between them.                                       *)

IsRight(l) == l.mark \in {"+", " "}

\* A patch with which this is well defined: it starts with a header, and no
\* line of the file holds the text of one.
PlainPatch(patch) ==
    /\ \A i \in DOMAIN patch :
          /\ patch[i].mark \in {"@", "+", "-", " ", "\\"}
          /\ patch[i].mark = "@" <=> patch[i].hunk # NoHunk
    /\ patch # <<>> => patch[1].mark = "@"

RightLines(patch) ==
    { LET h == CHOOSE k \in 1 .. i - 1 :
                  patch[k].mark = "@" /\ \A m \in k + 1 .. i : patch[m].mark # "@"
      IN  patch[h].hunk + Cardinality({ m \in h + 1 .. i - 1 : IsRight(patch[m]) }) :
      i \in { n \in DOMAIN patch : IsRight(patch[n]) } }

=============================================================================
