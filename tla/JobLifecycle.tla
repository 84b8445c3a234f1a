----------------------------- MODULE JobLifecycle -----------------------------
(***************************************************************************)
(* What delivery promises for one queue, without streams, timers, pods and *)
(* failures: a job that was published is tried at most as often as the     *)
(* largest of its queue's limits says and ends once.  It is completed only *)
(* after a try, and given up, into the dead letter stream, only after as   *)
(* many as one of the limits asks for.                                     *)
(*                                                                         *)
(* A job that is tried again before its last try is over may do more: it   *)
(* may end both ways, and be tried after it was given up.                  *)
(***************************************************************************)
EXTENDS Integers

CONSTANTS Job,
          Limits  \* how many tries a job of the queue may have

VARIABLES state,  \* absent, open, completed, dead, both or lost
          tries,  \* how often the job was handed to a worker
          late    \* jobs handed out again before their last try was over

vars == <<state, tries, late>>

Init ==
    /\ state = [j \in Job |-> "absent"]
    /\ tries = [j \in Job |-> 0]
    /\ late = {}

Becomes(j, s) == state' = [state EXCEPT ![j] = s]

AttemptLeft(j) == \E m \in Limits : tries[j] < m
AllTried(j)    == \E m \in Limits : tries[j] >= m

\* What only a job that is late may do.
OnlyLate(j, s) == state[j] = s /\ j \in late

Submit(j) == state[j] = "absent" /\ Becomes(j, "open") /\ UNCHANGED <<tries, late>>

Try(j) ==
    /\ state[j] = "open" \/ OnlyLate(j, "dead")
    /\ AttemptLeft(j)
    /\ tries' = [tries EXCEPT ![j] = @ + 1]
    /\ UNCHANGED <<state, late>>

Overtake(j) ==
    /\ state[j] \in {"open", "dead"} /\ tries[j] > 0 /\ AttemptLeft(j)
    /\ late' = late \cup {j}
    /\ UNCHANGED <<state, tries>>

Complete(j) ==
    /\ tries[j] > 0
    /\ \/ state[j] = "open" /\ Becomes(j, "completed")
       \/ OnlyLate(j, "dead") /\ Becomes(j, "both")
    /\ UNCHANGED <<tries, late>>

Bury(j) ==
    /\ AllTried(j)
    /\ \/ state[j] = "open" /\ Becomes(j, "dead")
       \/ OnlyLate(j, "completed") /\ Becomes(j, "both")
    /\ UNCHANGED <<tries, late>>

\* The job is in no stream any more although all its tries failed.
Lose(j) ==
    /\ state[j] = "open" /\ AllTried(j)
    /\ Becomes(j, "lost")
    /\ UNCHANGED <<tries, late>>

Next ==
    \E j \in Job :
        \/ Submit(j) \/ Try(j) \/ Overtake(j)
        \/ Complete(j) \/ Bury(j) \/ Lose(j)

Spec == Init /\ [][Next]_vars

=============================================================================
