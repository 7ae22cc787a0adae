----------------------------- MODULE ModelCalls -----------------------------
(***************************************************************************)
(* providers.py inside a conversation trial: the simulated user decides,   *)
(* the model under test replies, the judge grades.  Every call to a model  *)
(* goes through _recorded_run, which leaves one receipt in the trace.  The *)
(* provider is external.                                                   *)
(***************************************************************************)
EXTENDS AdapterTrial

CONSTANT
    MaxTurns  \* the case's turn budget

VARIABLES
    turn,     \* messages sent to the target
    history,  \* the roles of the target session's messages
    calls,    \* model calls begun
    statuses  \* status -> receipts with it

modelcalls == <<turn, history, calls, statuses>>

Statuses == {"completed", "failed", "cancelled"}

ModelCallsTypeOK ==
    /\ turn \in 0..MaxTurns
    /\ history \in Seq({"user", "assistant"})
    /\ calls \in Nat
    /\ statuses \in [Statuses -> Nat]

ModelCallsInit ==
    /\ turn = 0
    /\ history = <<>>
    /\ calls = 0
    /\ statuses = [status \in Statuses |-> 0]

Operation ==
    CASE at = "actor" -> <<"actor", turn + 1>>
      [] at = "target" -> <<"target", turn>>
      [] at = "judge" -> <<"judge", 0>>

(* _recorded_run's receipt, whatever the call's end.                       *)
Receipt(status) ==
    /\ statuses' = [statuses EXCEPT ![status] = @ + 1]
    /\ receipts' = receipts \union {Operation}

Calls(place) == at' = place /\ calls' = calls + 1

Begin ==
    /\ at = "start"
    /\ Calls("actor")
    /\ UNCHANGED <<outcome, cancels, imports, resource, turn, history, statuses>>

(* The end of the conversation: the judge is asked, if there are criteria. *)
Concludes ==
    \/ Calls("judge") /\ UNCHANGED outcome
    \/ at' = "over" /\ outcome' = "evidence" /\ UNCHANGED calls

(* next_turn: continue with a message, or accept.                          *)
Decided ==
    /\ at = "actor"
    /\ Receipt("completed")
    /\ \/ Calls("target") /\ turn' = turn + 1 /\ UNCHANGED outcome
       \/ Concludes /\ UNCHANGED turn
    /\ UNCHANGED <<cancels, cause, kept, dialogue, resource, history>>

(* Mutant of Replied: `<=` for `<`.                                        *)
RepliedPastBudget ==
    /\ at = "target"
    /\ Receipt("completed")
    /\ history' = history \o <<"user", "assistant">>
    /\ \/ turn <= MaxTurns /\ Calls("actor") /\ UNCHANGED outcome
       \/ turn > MaxTurns /\ Concludes
    /\ UNCHANGED <<cancels, cause, kept, dialogue, resource, turn>>

(* send: message and reply enter the history together, unless the reply is *)
(* empty; after the case's last turn the conversation ends.                *)
Replied ==
    /\ at = "target"
    /\ Receipt("completed")
    /\ \/ /\ history' = history \o <<"user", "assistant">>
          /\ \/ turn < MaxTurns /\ Calls("actor") /\ UNCHANGED outcome
             \/ turn = MaxTurns /\ Concludes
       \/ /\ at' = "over"
          /\ outcome' = "failed"
          /\ UNCHANGED <<history, calls>>
    /\ UNCHANGED <<cancels, cause, kept, dialogue, resource, turn>>

Judged ==
    /\ at = "judge"
    /\ Receipt("completed")
    /\ at' = "over"
    /\ outcome' \in {"evidence", "failed"}  \* judgments may not match
    /\ UNCHANGED <<cancels, cause, kept, dialogue, resource, turn, history, calls>>

CallFails ==
    /\ at \in {"actor", "target", "judge"}
    /\ Receipt("failed")
    /\ at' = "over"
    /\ outcome' = "failed"
    /\ UNCHANGED <<cancels, cause, kept, dialogue, resource, turn, history, calls>>

ModelCallsInterrupted ==
    /\ at \in {"actor", "target", "judge"}
    /\ Receipt("cancelled")
    /\ cancels < MaxCancels
    /\ cancels' = cancels + 1
    /\ at' = "over"
    /\ outcome' = "cancelled"
    /\ UNCHANGED <<cause, kept, dialogue, resource, turn, history, calls>>

ModelCallsSteps == Begin \/ Decided \/ Replied \/ Judged \/ CallFails

ModelCallsNext == ModelCallsSteps \/ ModelCallsInterrupted
=============================================================================
