---------------------------- MODULE SweBenchRun ----------------------------
(***************************************************************************)
(* adapters/swebench.py: a solver's patch, or the gold one, is graded by   *)
(* the official evaluator, a child process that creates a container at the *)
(* Docker daemon.  Unless the evaluator left a valid report and status 0,  *)
(* the adapter looks for its container and removes it.                     *)
(***************************************************************************)
EXTENDS AdapterTrial

VARIABLES
    listed, \* docker ps named the container
    removal \* what swebench-cleanup.json says: "none", "completed", "failed"

swebench == <<listed, removal>>

SweBenchTypeOK ==
    /\ listed \in BOOLEAN
    /\ removal \in {"none", "completed", "failed"}

SweBenchInit ==
    /\ listed = FALSE
    /\ removal = "none"

(* The state file names the run before anything can exist under its name;  *)
(* then the solver runs, or with the gold patch the evaluator at once.     *)
Begin ==
    /\ at = "start"
    /\ \/ Goes("over", "failed") /\ UNCHANGED <<asked, known, statefile>>
       \/ /\ \/ Waits("solve") /\ UNCHANGED asked
             \/ Waits("verify") /\ asked' = TRUE
          /\ known' = TRUE
          /\ Writes("located")
    /\ UNCHANGED <<remote, swebench>>

(* No such command, too much output or time.                               *)
CommandFails == Goes("over", "failed") /\ UNCHANGED <<asked, statefile>>

(* No patch is graded as it is; any other is one for the evaluator.        *)
Grades ==
    \/ Goes("over", "evidence") /\ Writes("finished") /\ UNCHANGED asked
    \/ Waits("verify") /\ asked' = TRUE /\ UNCHANGED statefile

(* The solver's answer, another status or an invalid one included.         *)
Solved ==
    /\ at = "solve"
    /\ CommandFails \/ Grades
    /\ UNCHANGED <<remote, known, swebench>>

(* The evaluator has left one report of the instance that says whether it  *)
(* is resolved, or none, several, or one that does not say.                *)
Reports == {"evidence", "failed"}

(* The evaluator is done: status 0 and a report, and it has removed its    *)
(* container; another status and a report; or no usable report, no         *)
(* evaluator, too much output or time.                                     *)
Verified ==
    /\ at = "verify"
    /\ \/ /\ remote # "live"
          /\ asked' = FALSE
          /\ \/ Goes("over", "evidence") /\ Writes("finished")
             \/ Goes("over", "failed") /\ UNCHANGED statefile
       \/ /\ asked' \in {FALSE, asked}
          /\ \E result \in Reports : Goes("list", result)
          /\ UNCHANGED statefile
    /\ UNCHANGED <<remote, known, swebench>>

(* _write_json of the cleanup's status, whose OSError is passed over.      *)
Says(status) ==
    \/ removal' = status /\ UNCHANGED unwritten
    \/ unwritten' = TRUE /\ UNCHANGED removal

(* The rest of run, once the cleanup has ended: with evidence the state    *)
(* file is finished, whatever the cleanup came to, or cannot be written.   *)
Concludes ==
    \/ outcome = "evidence" /\ Waits("over") /\ file' = "finished"
    \/ outcome = "evidence" /\ Goes("over", "failed") /\ UNCHANGED file
    \/ outcome # "evidence" /\ Waits("over") /\ UNCHANGED file

(* docker ps.                                                              *)
List ==
    /\ at = "list"
    /\ listed' = (remote = "live")
    /\ \/ remote = "live" /\ Waits("remove") /\ UNCHANGED <<statefile, removal>>
       \/ remote # "live" /\ Concludes /\ Says("completed")
    /\ UNCHANGED <<remote, asked, known>>

(* docker rm --force.                                                      *)
Remove ==
    /\ at = "remove"
    /\ remote' = "gone"
    /\ Concludes
    /\ Says("completed")
    /\ UNCHANGED <<asked, known, listed>>

(* No Docker, an error of its, or cleanup_timeout_seconds.                 *)
CleanupFails ==
    /\ at \in {"list", "remove"}
    /\ remote' \in {remote, IF at = "remove" THEN "gone" ELSE remote}
    /\ Concludes
    /\ Says("failed")
    /\ UNCHANGED <<asked, known, listed>>

(* CancelledError: the child is killed; the cleanup swallows what arrives  *)
(* while it runs.                                                          *)
SweBenchInterrupted ==
    /\ \/ at = "solve" /\ Interrupts("over", "cancelled")
       \/ at = "verify" /\ Interrupts("list", "cancelled")
       \/ at \in {"list", "remove"} /\ Interrupts(at, outcome)
    /\ UNCHANGED <<resource, swebench>>

SweBenchSteps ==
    \/ Begin \/ Solved \/ Verified \/ List \/ Remove \/ CleanupFails

(* The evaluator removes the container when its tests are done.            *)
SweBenchNext ==
    \/ SweBenchSteps
    \/ SweBenchInterrupted
    \/ (Created \/ Vanishes) /\ UNCHANGED swebench
=============================================================================
