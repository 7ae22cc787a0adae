----------------------------- MODULE TrialTasks -----------------------------
(***************************************************************************)
(* What `run` and `_run_pending` promise each other (campaign.py): a call  *)
(* is handed the trials without a receipt; each is run at most once in it, *)
(* and none any more once something went wrong.  The call returns when     *)
(* every trial has its result, and raises when no trial is running; only a *)
(* process that dies leaves its trials sooner.                             *)
(***************************************************************************)
EXTENDS Naturals

CONSTANT Trials

VARIABLES
    task,   \* each trial in the current call
    stage,  \* where the call is
    deaths  \* processes that died

none == [t \in Trials |-> "none"]

Handed == [Trials -> {"none", "queued"}]

Init ==
    /\ \/ stage = "idle" /\ task = none
       \/ stage = "execute" /\ task \in Handed
    /\ deaths = 0

Call ==
    /\ stage = "idle"
    /\ stage' = "execute"
    /\ task' \in Handed
    /\ UNCHANGED deaths

Start(t) ==
    /\ stage = "execute"
    /\ task[t] = "queued"
    /\ task' = [task EXCEPT ![t] = "running"]
    /\ UNCHANGED <<stage, deaths>>

End(t, outcome) ==
    /\ task[t] = "running"
    /\ task' = [task EXCEPT ![t] = outcome]
    /\ UNCHANGED <<stage, deaths>>

(* A task raised, or the call is cancelled at its only await, which there  *)
(* is no reaching without a trial that was started.                        *)
Abort ==
    /\ stage = "execute"
    /\ \E t \in Trials : task[t] \in {"running", "result", "raised"}
    /\ stage' = "drain"
    /\ UNCHANGED <<task, deaths>>

Return ==
    /\ stage = "execute"
    /\ \A t \in Trials : task[t] \in {"none", "result"}
    /\ stage' = "returned"
    /\ UNCHANGED <<task, deaths>>

Over == stage' = "idle" /\ task' = none

(* The exception leaves the call, or `run` has used what it returned.      *)
Leave ==
    /\ \/ stage = "returned"
       \/ stage = "drain" /\ \A t \in Trials : task[t] # "running"
    /\ Over
    /\ UNCHANGED deaths

Die == deaths' = deaths + 1 /\ Over

Next ==
    \/ Call \/ Abort \/ Return \/ Leave \/ Die
    \/ \E t \in Trials : Start(t) \/ \E outcome \in {"result", "raised"} : End(t, outcome)

Spec == Init /\ [][Next]_<<task, stage, deaths>>
=============================================================================
