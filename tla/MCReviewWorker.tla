--------------------------- MODULE MCReviewWorker ---------------------------
(* A pull request of two files and two commits.  The second commit moves    *)
(* the hunk of the first file and leaves the lines 3 to 5 out of the diff.  *)
EXTENDS ReviewWorker

MCHeader(start) == [mark |-> "@", hunk |-> start]
MCLine(mark) == [mark |-> mark, hunk |-> NoHunk]
MCFile(name, patch) == [Filename |-> name, Patch |-> patch]

MCMain == <<"src", "main">>
MCTest == <<"test", "main">>

MCDiffs ==
    << << MCFile(MCMain, << MCHeader(3), MCLine(" "), MCLine("-"), MCLine("+"),
                            MCLine("\\"), MCHeader(20), MCLine("+") >>),
          MCFile(MCTest, <<>>) >>,
       << MCFile(MCMain, << MCHeader(6), MCLine("+"), MCLine("-"), MCLine("+") >>),
          MCFile(MCTest, << MCHeader(6), MCLine("+") >>) >> >>

MCJob(number, sha, files) ==
    [number |-> number, sha |-> sha, cloneURL |-> number, files |-> files]

\* Opened, brought a commit, another event, and two calls of the test endpoint.
MCJobs ==
    { MCJob(TRUE, 1, <<>>), MCJob(TRUE, 2, <<>>), MCJob(FALSE, 0, <<>>),
       MCJob(TRUE, 0, <<MCFile(MCMain, <<MCHeader(5), MCLine("+"), MCLine("+")>>)>>) }

MCComment(file, line, severity, suggestion) ==
    [file |-> file, line |-> line, severity |-> severity, suggestion |-> suggestion]

MCOutputs ==
    { [ kind |-> "json", summary |-> {"looks good"}, verdict |-> "approve",
        comments |-> << MCComment(<<"main">>, 4, "nit", "code"),
                        MCComment(MCTest, 4, "good", "none"),
                        MCComment(MCMain, 8, "high", "prose"),
                        MCComment(<<>>, 4, "info", "none") >> ],
      [ kind |-> "cut", summary |-> {"critical"}, verdict |-> "looks good",
        comments |-> << MCComment(MCMain, 26, "blocker", "none"),
                        MCComment(<<"other">>, 3, "odd", "code"),
                        MCComment(MCMain, 0, "medium", "none") >> ],
      [ kind |-> "text", summary |-> {"lgtm"}, verdict |-> "", comments |-> <<>> ] }

=============================================================================
