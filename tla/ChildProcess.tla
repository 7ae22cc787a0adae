--------------------------- MODULE ChildProcess ---------------------------
(***************************************************************************)
(* A child process as its parent's event loop sees it: the leader of a new *)
(* session (start_new_session=True), another member of its process group,  *)
(* a stray that left the group, and the pipes all of them hold.  The child *)
(* itself is external.  Of harnesses/_process.py it has                    *)
(* terminate_process_group; Process.wait() is asyncio's: called before the *)
(* loop knows the exit status, it waits for the end of both pipes as well. *)
(***************************************************************************)
CONSTANT
    Strays   \* whether a descendant may leave the group, a subset of BOOLEAN

VARIABLES
    leader,  \* "exited" until the loop has its status, then "reaped"
    members, \* some other process of the group runs
    stray,   \* a descendant outside the group holds the pipes
    out,     \* stdout: "full" once it is not read any more, "eof" at its end
    err      \* stderr

child == <<leader, members, stray, out, err>>

ChildTypeOK ==
    /\ leader \in {"running", "exited", "reaped"}
    /\ members \in BOOLEAN
    /\ stray \in BOOLEAN
    /\ out \in {"open", "full", "eof"}
    /\ err \in {"open", "full", "eof"}

ChildInit ==
    /\ leader = "running"
    /\ members \in BOOLEAN
    /\ stray \in Strays
    /\ out = "open"
    /\ err = "open"

(* Somebody may still write to the pipes.                                  *)
Held == leader = "running" \/ members \/ stray

GroupIsDead == leader # "running" /\ ~members

(* terminate_process_group: SIGKILL to whoever is left of the group.       *)
KillGroup ==
    /\ leader' = IF leader = "running" THEN "exited" ELSE leader
    /\ members' = FALSE
    /\ UNCHANGED <<stray, out, err>>

(* A Process.wait() that began before the exit status was known returns.   *)
Waited == leader = "reaped" /\ out = "eof" /\ err = "eof"

(* Processes end of themselves, or of a signal they do not ignore.         *)
Exits ==
    \/ /\ leader = "running"
       /\ leader' = "exited"
       /\ UNCHANGED <<members, stray, out, err>>
    \/ /\ members
       /\ members' = FALSE
       /\ UNCHANGED <<leader, stray, out, err>>

(* The event loop learns of the exit, and of the end of a pipe it reads.   *)
Noticed ==
    \/ /\ leader = "exited"
       /\ leader' = "reaped"
       /\ UNCHANGED <<members, stray, out, err>>
    \/ /\ ~Held /\ out = "open"
       /\ out' = "eof"
       /\ UNCHANGED <<leader, members, stray, err>>
    \/ /\ ~Held /\ err = "open"
       /\ err' = "eof"
       /\ UNCHANGED <<leader, members, stray, out>>
=============================================================================
