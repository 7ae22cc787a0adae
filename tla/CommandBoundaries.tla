------------------------- MODULE CommandBoundaries -------------------------
(***************************************************************************)
(* The two boundaries to command-line programs: a child that is kept for a *)
(* conversation (module CommandSession) or for one exchange (module        *)
(* ProcessGroup).  docs/design.md promises of both that they kill the      *)
(* whole process group during timeout, cancellation, or cleanup.           *)
(***************************************************************************)
EXTENDS Integers, Sequences

CONSTANTS
    Strays,      \* whether a descendant may leave the group
    MaxRequests, \* bound: requests of one session
    MaxLines     \* bound: unread lines in stdout

ASSUME BoundariesAssumption ==
    /\ Strays \in SUBSET BOOLEAN /\ Strays # {}
    /\ MaxRequests \in Nat \ {0}
    /\ MaxLines \in Nat \ {0}

VARIABLES
    boundary, \* what runs the child: "session" or "job"
    leader, members, stray, out, err,
    at, method, asked, answered, lines, result, failed, opened, cut,
    pc, reader, writer, watcher, cause, signals, lost

child == <<leader, members, stray, out, err>>
session == <<at, method, asked, answered, lines, result, failed, opened, cut>>
exchange == <<pc, reader, writer, watcher, cause, signals, lost>>
vars == <<boundary, child, session, exchange>>

Session == INSTANCE CommandSession
Job == INSTANCE ProcessGroup

TypeOK ==
    /\ boundary \in {"session", "job"}
    /\ Session!ChildTypeOK
    /\ Session!SessionTypeOK
    /\ Job!JobTypeOK

Init ==
    /\ boundary \in {"session", "job"}
    /\ Session!ChildInit
    /\ Session!SessionInit
    /\ Job!JobInit

RunSession == boundary = "session" /\ Session!SessionNext /\ UNCHANGED <<boundary, exchange>>

RunJob == boundary = "job" /\ Job!JobNext /\ UNCHANGED <<boundary, session>>

Over ==
    IF boundary = "session" THEN at = "over" ELSE pc \in {"returned", "raised"}

(* The exchange is over, or waits for a pipe whose end never comes.        *)
Stopped == (Over \/ stray \/ out = "full") /\ UNCHANGED vars

Next == RunSession \/ RunJob \/ Stopped

Spec == Init /\ [][Next]_vars

(* The loop runs what is ready and timers fire.                            *)
FairSpec ==
    /\ Spec
    /\ WF_vars(boundary = "session" /\ Session!SessionLoop /\ UNCHANGED <<boundary, exchange>>)
    /\ WF_vars(boundary = "session" /\ Session!SessionTimers /\ UNCHANGED <<boundary, exchange>>)
    /\ WF_vars(boundary = "job" /\ Job!JobLoop /\ UNCHANGED <<boundary, session>>)
    /\ WF_vars(boundary = "job" /\ Job!JobTimers /\ UNCHANGED <<boundary, session>>)

-----------------------------------------------------------------------------
(* Properties.                                                             *)

(* Neither boundary leaves a process of the group behind, whether it ends  *)
(* with a result, an error, a timeout or a cancellation, and also when the *)
(* leader has exited long before: "including children left behind after    *)
(* the immediate process exits".                                           *)
GroupIsKilled == Over => leader # "running" /\ ~members

(* What open, send and finish return is the child's answer to this very    *)
(* request, though the child may answer late, twice or with noise, and     *)
(* though a call that rejected a reply leaves the session usable.          *)
RepliesMatch == result # 0 => at # "exchange" /\ result = asked

(* Every request and every close ends, and every exchange, if the child    *)
(* hangs, ignores signals or floods a job, unless a process outside the    *)
(* group holds a pipe or the child floods a session.                       *)
CallsEnd ==
    /\ boundary = "session" =>
           (at \notin {"ready", "over"} ~>
               at \in {"ready", "over"} \/ stray \/ out = "full")
    /\ boundary = "job" => <>(Over \/ stray)

(* Not true of this code: after a request's response limit the session     *)
(* waits for the end of a stdout that nobody reads.                        *)
RequestsEnd ==
    boundary = "session" =>
        (at \in {"exchange", "exit", "abort"} ~> at \notin {"exchange", "exit", "abort"})
=============================================================================
