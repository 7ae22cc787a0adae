------------------------------ MODULE Tau3Run ------------------------------
(***************************************************************************)
(* adapters/tau3.py: a worker process runs one simulation; the adapter     *)
(* checks what it left in order, each failure keeping the files as partial *)
(* evidence, and records the simulation's messages one by one.  The worker *)
(* is external; a message is chosen when it is imported.                   *)
(***************************************************************************)
EXTENDS AdapterTrial

CONSTANT
    MaxMessages  \* bound: messages of one simulation

VARIABLES
    checked,     \* the checks that the worker's files have passed
    messages,    \* the simulation's messages as far as they are imported
    generations  \* role -> model calls of that participant so far

tau3 == <<checked, messages, generations>>

Participants == {"assistant", "user"}

(* The order in which run looks at what the worker left.                   *)
Checks == <<"exit", "reply", "results", "version", "revision", "count",
            "task", "reward", "agent", "user">>

(* A participant's message is generated if it reports usage, raw data or a *)
(* generation time, and the participant's model is not a dummy.            *)
Messages ==
    [role : Participants \union {"tool"}, generated : BOOLEAN, text : BOOLEAN]

Tau3TypeOK ==
    /\ checked \in 0..Len(Checks)
    /\ messages \in Seq(Messages) /\ Len(messages) <= MaxMessages
    /\ generations \in [Participants -> 0..MaxMessages]

Tau3Init ==
    /\ checked = 0
    /\ messages = <<>>
    /\ generations = [role \in Participants |-> 0]

Start ==
    /\ at = "start"
    /\ Waits("job") \/ (Fails("start", FALSE) /\ UNCHANGED <<dialogue, receipts>>)
    /\ UNCHANGED <<resource, tau3>>

(* Output beyond its limit ends the worker without evidence; it has no     *)
(* other timeout than the trial's.                                         *)
JobEnds ==
    /\ at = "job"
    /\ Waits("check") \/ (Fails("limit", FALSE) /\ UNCHANGED <<dialogue, receipts>>)
    /\ UNCHANGED <<resource, tau3>>

Check ==
    /\ at = "check"
    /\ checked < Len(Checks)
    /\ \/ checked' = checked + 1 /\ Waits("check")
       \/ UNCHANGED checked /\ Fails(Checks[checked + 1], TRUE)
          /\ UNCHANGED <<dialogue, receipts>>
    /\ UNCHANGED <<resource, messages, generations>>

(* Model calls are named by the participant and counted per participant.   *)
Call(role) == <<role, generations'[role]>>

(* One message of _import_trace: its model call, then its text.            *)
ImportMessage ==
    /\ at = "check"
    /\ checked = Len(Checks)
    /\ Len(messages) < MaxMessages
    /\ \E message \in Messages :
          /\ messages' = Append(messages, message)
          /\ IF message.role \in Participants /\ message.generated
             THEN /\ generations' = [generations EXCEPT ![message.role] = @ + 1]
                  /\ receipts' = receipts \union {Call(message.role)}
             ELSE UNCHANGED <<generations, receipts>>
          /\ dialogue' = IF message.role \in Participants /\ message.text
                         THEN Append(dialogue, Len(messages'))
                         ELSE dialogue
    /\ UNCHANGED <<at, outcome, cancels, cause, kept, resource, checked>>

(* All is imported, or a fact refuses a value: that error has no evidence. *)
Imported ==
    /\ at = "check"
    /\ checked = Len(Checks)
    /\ \/ Goes("over", "evidence")
       \/ Fails("refused", FALSE) /\ UNCHANGED <<dialogue, receipts>>
    /\ UNCHANGED <<resource, tau3>>

Tau3Interrupted ==
    /\ at = "job"
    /\ Interrupts("over", "cancelled")
    /\ UNCHANGED <<resource, tau3>>

Tau3Steps == Start \/ JobEnds \/ Check \/ ImportMessage \/ Imported

Tau3Next == Tau3Steps \/ Tau3Interrupted
=============================================================================
