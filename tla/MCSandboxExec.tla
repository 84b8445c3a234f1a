---------------------------- MODULE MCSandboxExec ----------------------------
(* Every action of the payload, with and without the field it needs, and    *)
(* timeouts missing, negative, below and above the limit, and two that do   *)
(* not fit: 4 seconds become -8 ticks, 9 seconds become 2.                  *)
EXTENDS SandboxExec

MCRequest(action, given, language, timeout) ==
    [ action |-> action, given |-> given, language |-> language,
      timeout |-> timeout ]

MCRequests ==
    { MCRequest("exec", TRUE, "", t) : t \in {-1, 0, 1, 3, 4, 9} }
    \cup { MCRequest("exec", FALSE, "", 0), MCRequest("eval", TRUE, "python", 0),
           MCRequest("eval", TRUE, "sh", 1), MCRequest("script", TRUE, "", 1),
           MCRequest("other", TRUE, "", 0) }

=============================================================================
