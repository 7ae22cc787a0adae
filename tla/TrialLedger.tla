---------------------------- MODULE TrialLedger ----------------------------
(***************************************************************************)
(* What a campaign directory promises about its trials, whatever processes *)
(* work on it, crash and are started again (docs/design.md, "Execution"):  *)
(* an attempt is opened once and closed once, its receipt never changes,   *)
(* and a further attempt is opened only on top of an interrupted one.      *)
(***************************************************************************)
EXTENDS Integers

CONSTANTS Trials, MaxAttempts

VARIABLE history    \* what is recorded of each attempt of each trial

Attempts == 1..MaxAttempts

Receipts == {"completed", "failed", "interrupted"}

Init == history = [t \in Trials |-> [a \in Attempts |-> "absent"]]

Record(t, a, state) == history' = [history EXCEPT ![t][a] = state]

Begin(t, a) ==
    /\ history[t][a] = "absent"
    /\ a = 1 \/ history[t][a - 1] = "interrupted"
    /\ Record(t, a, "open")

Close(t, a, receipt) ==
    /\ history[t][a] = "open"
    /\ Record(t, a, receipt)

Next ==
    \E t \in Trials, a \in Attempts :
        Begin(t, a) \/ \E receipt \in Receipts : Close(t, a, receipt)

Spec == Init /\ [][Next]_history
=============================================================================
