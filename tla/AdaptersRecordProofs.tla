------------------------ MODULE AdaptersRecordProofs ------------------------
(***************************************************************************)
(* What the adapters record: the types of all their variables, the         *)
(* messages told in a trace and the receipts of model calls, for           *)
(* conversations, chains of files and simulations of any length.  Each     *)
(* list that grows step by step carries its own reference definition, a    *)
(* set of numbers, from one step to the next.                              *)
(***************************************************************************)
EXTENDS AdaptersProofs, SequenceTheorems, FiniteSetTheorems

-----------------------------------------------------------------------------
(* Sequences.                                                              *)
LEMMA AscendingAppend ==
    ASSUME NEW s \in Seq(Nat), NEW x \in Nat, Ascending(s), \A y \in Range(s) : y < x
    PROVE  /\ Append(s, x) \in Seq(Nat)
           /\ Ascending(Append(s, x))
           /\ Range(Append(s, x)) = Range(s) \union {x}
<1> DEFINE t == Append(s, x)
<1>1. t \in Seq(Nat) /\ Len(t) = Len(s) + 1 /\ Len(s) \in Nat
  BY AppendProperties
<1>2. \A i \in 1..Len(s) : t[i] = s[i] /\ s[i] \in Nat /\ s[i] \in Range(s)
  BY AppendProperties, ElementOfSeq DEF Range
<1>3. t[Len(t)] = x
  BY AppendProperties
<1> HIDE DEF t
<1>4. ASSUME NEW i \in 1..Len(t), NEW j \in 1..Len(t), i < j PROVE t[i] < t[j]
  <2>1. i \in 1..Len(s)
    BY <1>1, <1>4
  <2>2. CASE j = Len(t)
    BY <1>2, <1>3, <2>1, <2>2
  <2>3. CASE j # Len(t)
    <3>1. j \in 1..Len(s)
      BY <1>1, <2>3
    <3> QED BY <1>2, <1>4, <2>1, <3>1 DEF Ascending
  <2> QED BY <2>2, <2>3
<1>5. Range(t) = Range(s) \union {x}
  <2>1. DOMAIN t = 1..Len(t) /\ DOMAIN s = 1..Len(s)
    BY <1>1
  <2>2. 1..Len(t) = (1..Len(s)) \union {Len(t)}
    BY <1>1
  <2> QED BY <1>2, <1>3, <2>1, <2>2 DEF Range
<1>6. Ascending(t)
  BY <1>4 DEF Ascending
<1> QED BY <1>1, <1>5, <1>6 DEF t

-----------------------------------------------------------------------------
(* Types.  Flags are kept apart from the rest.                             *)
Flags == asked \in BOOLEAN /\ known \in BOOLEAN /\ unwritten \in BOOLEAN /\ kept \in BOOLEAN

LEMMA TrialTypes ==
    Templar!TrialTypeOK <=>
        /\ Flags
        /\ outcome \in {"none", "evidence", "failed", "cancelled"}
        /\ cancels \in 0..MaxCancels
        /\ remote \in {"none", "live", "gone"}
        /\ file \in {"none", "located", "released", "unconfirmed", "finished"}
        /\ dialogue \in Seq(Nat)
<1> QED BY Zenon DEF Templar!TrialTypeOK, Flags

(* A step that leaves each variable its own value or one of the values a   *)
(* session gives it keeps the types of a trial.                            *)
LEMMA TrialStepTypes ==
    ASSUME Templar!TrialTypeOK,
           Flags',
           outcome' \in {outcome, "evidence", "failed", "cancelled"},
           remote' \in {remote, "live", "gone"},
           file' \in {file, "located", "released", "unconfirmed", "finished"},
           dialogue' = dialogue,
           cancels' = cancels \/ (cancels < MaxCancels /\ cancels' = cancels + 1)
    PROVE  Templar!TrialTypeOK'
<1> USE AdaptersAssumption
<1>1. cancels' \in 0..MaxCancels
  BY DEF Templar!TrialTypeOK
<1>2. outcome' \in {"none", "evidence", "failed", "cancelled"}
  BY DEF Templar!TrialTypeOK
<1>3. remote' \in {"none", "live", "gone"}
  BY DEF Templar!TrialTypeOK
<1>4. file' \in {"none", "located", "released", "unconfirmed", "finished"}
  BY DEF Templar!TrialTypeOK
<1>5. dialogue' \in Seq(Nat)
  BY Zenon DEF Templar!TrialTypeOK
<1> QED BY <1>1, <1>2, <1>3, <1>4, <1>5, Zenon DEF Templar!TrialTypeOK, Flags

LEMMA TemplarTypes ==
    ASSUME Templar!TrialTypeOK, Templar!TemplarTypeOK, Templar!TemplarNext
    PROVE  Templar!TrialTypeOK' /\ Templar!TemplarTypeOK'
<1> USE AdaptersAssumption
    DEF Templar!TemplarNext, Templar!TemplarSteps, Templar!Goes, Templar!Waits, Templar!Writes,
        Templar!Records, Templar!Interrupts, Templar!resource, Templar!statefile,
        Templar!control, Templar!imports, Templar!templar, Templar!Stage, Templar!Submitted,
        Templar!SubmissionFails, Templar!ReadEvents, Templar!ReadView, Templar!ReadResult,
        Templar!RequestFails, Templar!Cancelled, Templar!TemplarInterrupted,
        Templar!Created, Templar!RunWorks
<1>1. Flags'
  <2>1. asked' \in {FALSE, TRUE, asked} /\ known' \in {TRUE, known}
        /\ unwritten' \in {TRUE, unwritten} /\ kept' = kept
    BY Zenon
  <2> QED BY <2>1, Zenon DEF Flags, Templar!TrialTypeOK
<1>2. /\ outcome' \in {outcome, "evidence", "failed", "cancelled"}
      /\ remote' \in {remote, "live", "gone"}
      /\ file' \in {file, "located", "released", "unconfirmed", "finished"}
      /\ dialogue' = dialogue
  BY Zenon
<1>3. cancels' = cancels \/ (cancels < MaxCancels /\ cancels' = cancels + 1)
  BY Zenon
<1>4. /\ cursor' = cursor \/ cursor' \in cursor..emitted
      /\ emitted' = emitted \/ (emitted < MaxEvents /\ emitted' = emitted + 1)
      /\ status' \in {status, "accepted", "failed"}
  BY Zenon
<1> QED
  <2>1. Templar!TemplarTypeOK'
    BY <1>4 DEF Templar!TemplarTypeOK
  <2>2. Templar!TrialTypeOK'
    BY <1>1, <1>2, <1>3, TrialStepTypes, Zenon
  <2> QED BY <2>1, <2>2, Zenon

LEMMA AgentEnvTypes ==
    ASSUME Templar!TrialTypeOK, AgentEnv!AgentEnvTypeOK, AgentEnv!AgentEnvNext
    PROVE  Templar!TrialTypeOK' /\ AgentEnv!AgentEnvTypeOK'
<1> USE AdaptersAssumption
    DEF AgentEnv!AgentEnvNext, AgentEnv!AgentEnvSteps, AgentEnv!Goes, AgentEnv!Waits,
        AgentEnv!Writes, AgentEnv!Records, AgentEnv!Interrupts, AgentEnv!resource,
        AgentEnv!statefile, AgentEnv!control, AgentEnv!imports, AgentEnv!agentenv,
        AgentEnv!Open, AgentEnv!Opened, AgentEnv!OpenFails, AgentEnv!Send, AgentEnv!Command,
        AgentEnv!Read, AgentEnv!Finish, AgentEnv!SandboxFails, AgentEnv!Close,
        AgentEnv!CleanupResult, AgentEnv!AgentEnvInterrupted, AgentEnv!Created,
        AgentEnv!Vanishes
<1>1. Flags'
  <2>1. asked' \in {FALSE, TRUE, asked} /\ known' \in {TRUE, known}
        /\ unwritten' \in {TRUE, unwritten} /\ kept' = kept
    BY Zenon
  <2> QED BY <2>1, Zenon DEF Flags, Templar!TrialTypeOK
<1>2. /\ outcome' \in {outcome, "evidence", "failed", "cancelled"}
      /\ remote' \in {remote, "live", "gone"}
      /\ file' \in {file, "located", "released", "unconfirmed", "finished"}
      /\ dialogue' = dialogue
  BY Zenon
<1>3. cancels' = cancels \/ (cancels < MaxCancels /\ cancels' = cancels + 1)
  BY Zenon
<1>4. /\ turn' = turn \/ (turn < MaxTurns /\ turn' = turn + 1)
      /\ response' \in {response, turn}
      /\ answered' \in {answered, response}
      /\ opened' = TRUE \/ opened' = opened
  BY Zenon
<1> QED
  <2>1. opened' \in BOOLEAN
    BY <1>4, Zenon DEF AgentEnv!AgentEnvTypeOK
  <2>2. turn' \in 0..MaxTurns /\ response' \in 0..MaxTurns /\ answered' \in 0..MaxTurns
    BY <1>4 DEF AgentEnv!AgentEnvTypeOK
  <2>3. AgentEnv!AgentEnvTypeOK'
    BY <2>1, <2>2, Zenon DEF AgentEnv!AgentEnvTypeOK
  <2>4. Templar!TrialTypeOK'
    BY <1>1, <1>2, <1>3, TrialStepTypes, Zenon
  <2> QED BY <2>3, <2>4, Zenon

LEMMA SweBenchTypes ==
    ASSUME Templar!TrialTypeOK, SweBench!SweBenchTypeOK, SweBench!SweBenchNext
    PROVE  Templar!TrialTypeOK' /\ SweBench!SweBenchTypeOK'
<1> USE AdaptersAssumption
    DEF SweBench!SweBenchNext, SweBench!SweBenchSteps, SweBench!Goes, SweBench!Waits,
        SweBench!Writes, SweBench!Records, SweBench!Interrupts, SweBench!resource,
        SweBench!statefile, SweBench!control, SweBench!imports, SweBench!Begin,
        SweBench!CommandFails, SweBench!Grades, SweBench!Solved, SweBench!Reports,
        SweBench!Verified, SweBench!Concludes, SweBench!List, SweBench!Remove,
        SweBench!CleanupFails, SweBench!SweBenchInterrupted, SweBench!Created,
        SweBench!Vanishes, SweBench!Says, SweBench!swebench
<1>1. Flags'
  <2>1. asked' \in {FALSE, TRUE, asked} /\ known' \in {TRUE, known}
        /\ unwritten' \in {TRUE, unwritten} /\ kept' = kept
    BY Zenon
  <2> QED BY <2>1, Zenon DEF Flags, Templar!TrialTypeOK
<1>2. /\ outcome' \in {outcome, "evidence", "failed", "cancelled"}
      /\ remote' \in {remote, "live", "gone"}
      /\ file' \in {file, "located", "released", "unconfirmed", "finished"}
      /\ dialogue' = dialogue
  BY Zenon
<1>3. cancels' = cancels \/ (cancels < MaxCancels /\ cancels' = cancels + 1)
  BY Zenon
<1>4. SweBench!SweBenchTypeOK'
  BY Zenon DEF SweBench!SweBenchTypeOK
<1> QED
  <2>1. Templar!TrialTypeOK'
    BY <1>1, <1>2, <1>3, TrialStepTypes, Zenon
  <2> QED BY <1>4, <2>1, Zenon

LEMMA LangfuseTypes ==
    ASSUME Templar!TrialTypeOK, Langfuse!LangfuseTypeOK, Langfuse!LangfuseNext
    PROVE  Templar!TrialTypeOK' /\ Langfuse!LangfuseTypeOK'
<1> USE AdaptersAssumption
    DEF Langfuse!LangfuseNext, Langfuse!LangfuseSteps, Langfuse!Goes, Langfuse!Waits,
        Langfuse!resource, Langfuse!statefile, Langfuse!control, Langfuse!imports,
        Langfuse!langfuse, Langfuse!Start, Langfuse!Observe, Langfuse!Score,
        Langfuse!WorkerBreaks, Langfuse!WorkerEnds, Langfuse!LangfuseInterrupted,
        Langfuse!Again
<1>1. /\ asked' = asked /\ known' = known /\ unwritten' = unwritten /\ kept' = kept
      /\ remote' = remote /\ file' = file /\ dialogue' = dialogue
      /\ outcome' \in {outcome, "none", "evidence", "failed", "cancelled"}
  BY Zenon DEF Langfuse!Deliver, Langfuse!Sends
<1>2. cancels' = cancels \/ (cancels < MaxCancels /\ cancels' = cancels + 1) \/ cancels' = 0
  BY Zenon DEF Langfuse!Deliver, Langfuse!Sends
<1>3. /\ exports' = exports \/ (exports < MaxExports /\ exports' = exports + 1)
      /\ observed' = observed \/ (observed < Facts /\ observed' = observed + 1) \/ observed' = 0
  BY Zenon DEF Langfuse!Deliver, Langfuse!Sends
<1>4. refused' \subseteq {"spans", "scores"}
  <2>1. CASE Langfuse!Deliver
    <3>1. ASSUME NEW kind \in {"spans", "scores"}, NEW items, Langfuse!Sends(kind, items)
          PROVE  refused' \subseteq {"spans", "scores"}
      <4>1. refused' = refused \/ refused' = refused \union {kind}
        BY <3>1, Zenon DEF Langfuse!Sends
      <4> QED BY <4>1 DEF Langfuse!LangfuseTypeOK
    <3> QED BY <2>1, <3>1 DEF Langfuse!Deliver
  <2>2. CASE ~Langfuse!Deliver
    <3>1. refused' \in {refused, {}}
      BY <2>2, Zenon
    <3> QED BY <3>1 DEF Langfuse!LangfuseTypeOK
  <2> QED BY <2>1, <2>2
<1> QED
  <2>1. cancels' \in 0..MaxCancels
    BY <1>2 DEF Templar!TrialTypeOK
  <2>2. Langfuse!LangfuseTypeOK'
    BY <1>3, <1>4 DEF Langfuse!LangfuseTypeOK
  <2> QED BY <1>1, <2>1, <2>2, TrialTypes, Zenon DEF Templar!TrialTypeOK, Flags

-----------------------------------------------------------------------------
(* Model calls.                                                            *)
(* A call under way has no receipt yet; turns are what tells calls apart.  *)
ModelHolds ==
    /\ at \in {"start", "actor", "target", "judge", "over"}
    /\ IsFiniteSet(receipts)
    /\ statuses["completed"] + statuses["failed"] + statuses["cancelled"] = Cardinality(receipts)
    /\ at \in {"actor", "target", "judge"} => calls = Cardinality(receipts) + 1
    /\ at \in {"start", "over"} => calls = Cardinality(receipts)
    /\ at = "start" => receipts = {} /\ turn = 0
    /\ at = "actor" => turn < MaxTurns
    /\ \A call \in receipts :
           /\ call[2] \in Nat
           /\ at \in {"actor", "target"} /\ call[1] = "actor" => call[2] <= turn
           /\ at = "actor" /\ call[1] = "target" => call[2] <= turn
           /\ at = "target" /\ call[1] = "target" => call[2] < turn
           /\ call[1] = "judge" => at = "over"

LEMMA ModelTypes ==
    ASSUME Templar!TrialTypeOK, Model!ModelCallsTypeOK, ModelHolds, Model!ModelCallsNext
    PROVE  Templar!TrialTypeOK' /\ Model!ModelCallsTypeOK'
<1> USE AdaptersAssumption
    DEF Model!ModelCallsNext, Model!ModelCallsSteps, Model!Begin, Model!Calls, Model!Decided,
        Model!Concludes, Model!Replied, Model!Judged, Model!CallFails, Model!Receipt,
        Model!ModelCallsInterrupted, Model!resource, Model!statefile, Model!imports
<1>1. /\ asked' = asked /\ known' = known /\ unwritten' = unwritten /\ kept' = kept
      /\ remote' = remote /\ file' = file /\ dialogue' = dialogue
      /\ outcome' \in {outcome, "evidence", "failed", "cancelled"}
  BY Zenon
<1>2. cancels' = cancels \/ (cancels < MaxCancels /\ cancels' = cancels + 1)
  BY Zenon
<1>3. /\ turn' = turn \/ (at = "actor" /\ turn' = turn + 1)
      /\ calls' = calls \/ calls' = calls + 1
      /\ history' = history \/ history' = history \o <<"user", "assistant">>
  BY Zenon
<1>4. statuses' = statuses \/ (\E status_ \in Model!Statuses :
                                  statuses' = [statuses EXCEPT ![status_] = @ + 1])
  BY Zenon DEF Model!Statuses
<1> HIDE DEF Model!ModelCallsNext, Model!ModelCallsSteps
<1>5. turn' \in 0..MaxTurns /\ calls' \in Nat
  <2>1. turn \in 0..MaxTurns /\ calls \in Nat /\ MaxTurns \in Nat
    BY AdaptersAssumption DEF Model!ModelCallsTypeOK
  <2>2. at = "actor" => turn < MaxTurns
    BY DEF ModelHolds
  <2> QED BY <1>3, <2>1, <2>2
<1>6. history' \in Seq({"user", "assistant"})
  <2>1. <<"user", "assistant">> \in Seq({"user", "assistant"})
    OBVIOUS
  <2>2. history \in Seq({"user", "assistant"})
    BY DEF Model!ModelCallsTypeOK
  <2>3. history \o <<"user", "assistant">> \in Seq({"user", "assistant"})
    BY <2>1, <2>2, ConcatProperties
  <2> QED BY <1>3, <2>2, <2>3
<1>7. statuses' \in [Model!Statuses -> Nat]
  BY <1>4 DEF Model!ModelCallsTypeOK
<1>8. cancels' \in 0..MaxCancels
  BY <1>2 DEF Templar!TrialTypeOK
<1> QED BY <1>1, <1>5, <1>6, <1>7, <1>8, TrialTypes, Zenon
        DEF Templar!TrialTypeOK, Flags, Model!ModelCallsTypeOK

(* A receipt is one more: its operation has not been recorded before.      *)
LEMMA ReceiptCounts ==
    ASSUME Model!ModelCallsTypeOK, ModelHolds, at \in {"actor", "target", "judge"},
           NEW end \in Model!Statuses, Model!Receipt(end)
    PROVE  /\ IsFiniteSet(receipts')
           /\ Cardinality(receipts') = Cardinality(receipts) + 1
           /\ statuses'["completed"] + statuses'["failed"] + statuses'["cancelled"] =
                  Cardinality(receipts) + 1
           /\ receipts' = receipts \union {Model!Operation}
<1>1. Model!Operation \notin receipts
  BY DEF ModelHolds, Model!Operation, Model!ModelCallsTypeOK
<1>2. receipts' = receipts \union {Model!Operation}
  BY DEF Model!Receipt
<1>3. IsFiniteSet(receipts') /\ Cardinality(receipts') = Cardinality(receipts) + 1
  BY <1>1, <1>2, FS_AddElement DEF ModelHolds
<1>4. /\ statuses' = [statuses EXCEPT ![end] = @ + 1]
      /\ statuses \in [Model!Statuses -> Nat]
      /\ statuses["completed"] + statuses["failed"] + statuses["cancelled"] =
             Cardinality(receipts)
  BY DEF Model!Receipt, ModelHolds, Model!ModelCallsTypeOK
<1>5. statuses'["completed"] + statuses'["failed"] + statuses'["cancelled"] =
          Cardinality(receipts) + 1
  BY <1>4 DEF Model!Statuses
<1> QED BY <1>2, <1>3, <1>5

LEMMA ModelRecords ==
    ASSUME Model!ModelCallsTypeOK, ModelHolds, Model!ModelCallsNext
    PROVE  ModelHolds'
<1> USE DEF Model!Calls
<1> DEFINE n == Cardinality(receipts)
<1>0. /\ n \in Nat /\ turn \in Nat /\ MaxTurns \in Nat \ {0} /\ turn <= MaxTurns
      /\ {"completed", "failed", "cancelled"} \subseteq Model!Statuses
  BY AdaptersAssumption, FS_CardinalityType DEF ModelHolds, Model!ModelCallsTypeOK, Model!Statuses
<1>a. ASSUME NEW end \in {"completed", "failed", "cancelled"}, Model!Receipt(end),
             at \in {"actor", "target", "judge"}
      PROVE  /\ IsFiniteSet(receipts') /\ Cardinality(receipts') = n + 1 /\ calls = n + 1
             /\ statuses'["completed"] + statuses'["failed"] + statuses'["cancelled"] = n + 1
             /\ receipts' = receipts \union {Model!Operation}
  BY <1>0, <1>a, ReceiptCounts DEF ModelHolds
<1>1. CASE Model!Begin
  <2>1. /\ at = "start" /\ at' = "actor" /\ calls' = calls + 1
        /\ UNCHANGED <<receipts, turn, statuses>>
    BY <1>1 DEF Model!Begin, Model!imports
  <2> QED BY <1>0, <2>1 DEF ModelHolds
<1>2. CASE Model!Decided
  <2>1. at = "actor" /\ Model!Receipt("completed") /\ Model!Operation = <<"actor", turn + 1>>
    BY <1>2 DEF Model!Decided, Model!Operation
  <2>2. \/ at' = "target" /\ calls' = calls + 1 /\ turn' = turn + 1
        \/ at' = "judge" /\ calls' = calls + 1 /\ turn' = turn
        \/ at' = "over" /\ calls' = calls /\ turn' = turn
    BY <1>2 DEF Model!Decided, Model!Concludes
  <2> QED BY <1>0, <2>1, <2>2, <1>a DEF ModelHolds, Model!Operation
<1>3. CASE Model!Replied
  <2>1. at = "target" /\ Model!Receipt("completed") /\ Model!Operation = <<"target", turn>>
        /\ turn' = turn
    BY <1>3 DEF Model!Replied, Model!Operation
  <2>2. \/ at' = "actor" /\ calls' = calls + 1 /\ turn < MaxTurns
        \/ at' = "judge" /\ calls' = calls + 1
        \/ at' = "over" /\ calls' = calls
    BY <1>3 DEF Model!Replied, Model!Concludes
  <2> QED BY <1>0, <2>1, <2>2, <1>a DEF ModelHolds, Model!Operation
<1>4. CASE Model!Judged
  <2>1. at = "judge" /\ Model!Receipt("completed") /\ at' = "over" /\ UNCHANGED <<turn, calls>>
    BY <1>4 DEF Model!Judged
  <2> QED BY <1>0, <2>1, <1>a DEF ModelHolds, Model!Operation
<1>5. CASE Model!CallFails
  <2>1. at \in {"actor", "target", "judge"} /\ Model!Receipt("failed") /\ at' = "over"
        /\ UNCHANGED <<turn, calls>>
    BY <1>5 DEF Model!CallFails
  <2> QED BY <1>0, <2>1, <1>a DEF ModelHolds, Model!Operation
<1>6. CASE Model!ModelCallsInterrupted
  <2>1. at \in {"actor", "target", "judge"} /\ Model!Receipt("cancelled") /\ at' = "over"
        /\ UNCHANGED <<turn, calls>>
    BY <1>6 DEF Model!ModelCallsInterrupted
  <2> QED BY <1>0, <2>1, <1>a DEF ModelHolds, Model!Operation
<1> QED BY <1>1, <1>2, <1>3, <1>4, <1>5, <1>6
        DEF Model!ModelCallsNext, Model!ModelCallsSteps

-----------------------------------------------------------------------------
(* A tau3 simulation.                                                      *)
(* The messages of a simulation that participants sent, or generated.      *)
Texts(list) == {k \in 1..Len(list) : list[k].role # "tool" /\ list[k].text}

Made(list) == {k \in 1..Len(list) : list[k].role # "tool" /\ list[k].generated}

(* Receipts carry numbers up to their participant's counter.               *)
Tau3Holds ==
    /\ Tells(Texts(messages))
    /\ IsFiniteSet(receipts)
    /\ Cardinality(receipts) = Cardinality(Made(messages))
    /\ \A role \in Tau3!Participants : generations[role] <= Len(messages)
    /\ \A call \in receipts :
          call[1] \in Tau3!Participants /\ call[2] \in 1..generations[call[1]]

LEMMA Tau3Types ==
    ASSUME Templar!TrialTypeOK, Tau3!Tau3TypeOK, Tau3Holds, Tau3!Tau3Next
    PROVE  Templar!TrialTypeOK' /\ Tau3!Tau3TypeOK'
<1> USE DEF Tau3!Tau3Next, Tau3!Tau3Steps, Tau3!Start, Tau3!JobEnds, Tau3!Check,
        Tau3!Imported, Tau3!Tau3Interrupted, Tau3!Waits, Tau3!Goes, Tau3!Fails,
        Tau3!Interrupts, Tau3!resource, Tau3!statefile, Tau3!imports, Tau3!tau3
<1>1. /\ asked' = asked /\ known' = known /\ unwritten' = unwritten
      /\ kept' \in {kept, TRUE, FALSE}
      /\ remote' = remote /\ file' = file
      /\ outcome' \in {outcome, "evidence", "failed", "cancelled"}
      /\ cancels' = cancels \/ (cancels < MaxCancels /\ cancels' = cancels + 1)
      /\ checked' = checked \/ (checked < Len(Tau3!Checks) /\ checked' = checked + 1)
  BY Zenon DEF Tau3!ImportMessage
<1>2. \/ Tau3!ImportMessage
      \/ UNCHANGED <<dialogue, messages, generations>>
  BY Zenon
<1> HIDE DEF Tau3!Tau3Next, Tau3!Tau3Steps
<1>3. checked' \in 0..Len(Tau3!Checks)
  <2>1. Len(Tau3!Checks) = 10
    BY DEF Tau3!Checks
  <2> QED BY <1>1, <2>1 DEF Tau3!Tau3TypeOK
<1>4. cancels' \in 0..MaxCancels
  BY <1>1, AdaptersAssumption DEF Templar!TrialTypeOK
<1>5. kept' \in BOOLEAN
  BY <1>1, Zenon DEF Templar!TrialTypeOK
<1>6. /\ messages \in Seq(Tau3!Messages) /\ Len(messages) \in Nat /\ Len(messages) <= MaxMessages
      /\ generations \in [Tau3!Participants -> 0..MaxMessages]
      /\ dialogue \in Seq(Nat) /\ MaxMessages \in Nat
  BY AdaptersAssumption DEF Tau3!Tau3TypeOK, Templar!TrialTypeOK
<1>7. CASE Tau3!ImportMessage
  <2>1. PICK message \in Tau3!Messages :
            /\ messages' = Append(messages, message)
            /\ generations' = generations
               \/ (message.role \in Tau3!Participants
                   /\ generations' = [generations EXCEPT ![message.role] = @ + 1])
            /\ dialogue' \in {dialogue, Append(dialogue, Len(messages'))}
    BY <1>7, Zenon DEF Tau3!ImportMessage
  <2>2. Len(messages) < MaxMessages
    BY <1>7 DEF Tau3!ImportMessage
  <2>3. /\ messages' \in Seq(Tau3!Messages)
        /\ Len(messages') = Len(messages) + 1 /\ Len(messages') <= MaxMessages
    BY <1>6, <2>1, <2>2, AppendProperties
  <2>4. dialogue' \in Seq(Nat)
    <3>1. Len(messages') \in Nat
      BY <1>6, <2>3
    <3>2. Append(dialogue, Len(messages')) \in Seq(Nat)
      BY <1>6, <3>1, AppendProperties
    <3> QED BY <1>6, <2>1, <3>2
  <2>5. generations' \in [Tau3!Participants -> 0..MaxMessages]
    <3>1. \A role \in Tau3!Participants : generations[role] + 1 \in 0..MaxMessages
      BY <1>6, <2>2 DEF Tau3Holds
    <3> QED BY <1>6, <2>1, <3>1
  <2> QED BY <1>1, <1>3, <1>4, <1>5, <2>3, <2>4, <2>5, TrialTypes, Zenon
          DEF Templar!TrialTypeOK, Flags, Tau3!Tau3TypeOK
<1>8. CASE UNCHANGED <<dialogue, messages, generations>>
  <2>1. dialogue' = dialogue /\ messages' = messages /\ generations' = generations
    BY <1>8
  <2> QED BY <1>1, <1>3, <1>4, <1>5, <1>6, <2>1, TrialTypes, Zenon
          DEF Templar!TrialTypeOK, Flags, Tau3!Tau3TypeOK
<1> QED BY <1>2, <1>7, <1>8

LEMMA Tau3Records ==
    ASSUME Templar!TrialTypeOK, Tau3!Tau3TypeOK, Tau3Holds, Tau3!Tau3Next
    PROVE  Tau3Holds'
<1>1. CASE Tau3!ImportMessage
  <2> DEFINE n == Len(messages)
             m == n + 1
  <2>1. PICK message \in Tau3!Messages :
            /\ messages' = Append(messages, message)
            /\ IF message.role \in Tau3!Participants /\ message.generated
               THEN /\ generations' = [generations EXCEPT ![message.role] = @ + 1]
                    /\ receipts' = receipts \union {<<message.role, generations'[message.role]>>}
               ELSE UNCHANGED <<generations, receipts>>
            /\ dialogue' = IF message.role \in Tau3!Participants /\ message.text
                           THEN Append(dialogue, Len(messages'))
                           ELSE dialogue
    BY <1>1, Zenon DEF Tau3!ImportMessage, Tau3!Call
  <2>2. /\ n \in Nat
        /\ messages \in Seq(Tau3!Messages)
        /\ generations \in [Tau3!Participants -> 0..MaxMessages]
        /\ dialogue \in Seq(Nat) /\ MaxMessages \in Nat
    BY AdaptersAssumption DEF Tau3!Tau3TypeOK, Templar!TrialTypeOK
  <2>3. /\ Len(messages') = m /\ messages'[m] = message
        /\ \A k \in 1..n : messages'[k] = messages[k]
    BY <2>1, <2>2, AppendProperties
  <2>4. message.role \in Tau3!Participants <=> message.role # "tool"
    BY DEF Tau3!Messages, Tau3!Participants
  <2>5. Texts(messages') =
            IF message.role # "tool" /\ message.text
            THEN Texts(messages) \union {m} ELSE Texts(messages)
    <3>1. \A k : k \in 1..m <=> k \in 1..n \/ k = m
      BY <2>2
    <3> QED BY <2>2, <2>3, <3>1 DEF Texts
  <2>6. Made(messages') =
            IF message.role # "tool" /\ message.generated
            THEN Made(messages) \union {m} ELSE Made(messages)
    <3>1. \A k : k \in 1..m <=> k \in 1..n \/ k = m
      BY <2>2
    <3> QED BY <2>2, <2>3, <3>1 DEF Made
  <2>7. Tells(Texts(messages))'
    <3>1. CASE message.role # "tool" /\ message.text
      <4>1. dialogue' = Append(dialogue, m)
        BY <2>1, <2>3, <2>4, <3>1
      <4>2. Ascending(dialogue) /\ Range(dialogue) = Texts(messages)
        BY DEF Tau3Holds, Tells
      <4>3. \A y \in Range(dialogue) : y < m
        BY <2>2, <4>2 DEF Texts
      <4> QED BY <2>2, <2>5, <3>1, <4>1, <4>2, <4>3, AscendingAppend DEF Tells
    <3>2. CASE ~(message.role # "tool" /\ message.text)
      BY <2>1, <2>4, <2>5, <3>2, Zenon DEF Tau3Holds, Tells
    <3> QED BY <3>1, <3>2
  <2>8. /\ IsFiniteSet(Made(messages)) /\ Made(messages) \subseteq 1..n
        /\ m \notin Made(messages) /\ IsFiniteSet(receipts)
        /\ Cardinality(Made(messages)) = Cardinality(receipts)
        /\ Cardinality(receipts) \in Nat
    <3>1. Made(messages) \subseteq 1..n /\ IsFiniteSet(1..n)
      BY <2>2, FS_Interval DEF Made
    <3>2. m \notin 1..n
      BY <2>2
    <3> QED BY <3>1, <3>2, FS_Subset, FS_CardinalityType DEF Tau3Holds
  <2>9. CASE message.role # "tool" /\ message.generated
    <3> DEFINE role == message.role
               call == <<role, generations[role] + 1>>
    <3>1. /\ role \in Tau3!Participants
          /\ generations' = [generations EXCEPT ![role] = @ + 1]
          /\ receipts' = receipts \union {call}
          /\ generations[role] \in 0..MaxMessages
      BY <2>1, <2>2, <2>4, <2>9
    <3>2. call \notin receipts
      BY <3>1 DEF Tau3Holds
    <3>3. IsFiniteSet(receipts') /\ Cardinality(receipts') = Cardinality(receipts) + 1
      BY <2>8, <3>1, <3>2, FS_AddElement
    <3>4. Cardinality(Made(messages')) = Cardinality(receipts) + 1
      BY <2>6, <2>8, <2>9, FS_AddElement
    <3>5. \A other \in Tau3!Participants : generations'[other] <= m
      BY <2>2, <3>1 DEF Tau3Holds
    <3>6. ASSUME NEW other \in receipts'
          PROVE  other[1] \in Tau3!Participants /\ other[2] \in 1..generations'[other[1]]
      BY <2>2, <3>1, <3>6 DEF Tau3Holds
    <3> QED BY <2>3, <2>7, <3>3, <3>4, <3>5, <3>6 DEF Tau3Holds
  <2>10. CASE ~(message.role # "tool" /\ message.generated)
    <3>1. generations' = generations /\ receipts' = receipts /\ Made(messages') = Made(messages)
      BY <2>1, <2>4, <2>6, <2>10, Zenon
    <3>2. \A other \in Tau3!Participants : generations[other] <= m
      BY <2>2 DEF Tau3Holds
    <3> QED BY <2>3, <2>7, <3>1, <3>2 DEF Tau3Holds
  <2> QED BY <2>9, <2>10
<1>2. CASE ~Tau3!ImportMessage
  <2>1. UNCHANGED <<dialogue, receipts, messages, generations>>
    BY <1>2, Zenon DEF Tau3!Tau3Next, Tau3!Tau3Steps, Tau3!Start, Tau3!JobEnds, Tau3!Check,
        Tau3!Imported, Tau3!Tau3Interrupted, Tau3!Waits, Tau3!Goes, Tau3!Fails,
        Tau3!Interrupts, Tau3!resource, Tau3!statefile, Tau3!imports, Tau3!tau3
  <2> QED BY <2>1 DEF Tau3Holds, Tells
<1> QED BY <1>1, <1>2

-----------------------------------------------------------------------------
(* A Harbor trajectory.                                                    *)
(* A file without a trajectory covers steps that nobody can import.        *)
Base(k) ==
    IF k = 0 THEN 0
    ELSE IF chain[k].content = "invalid" THEN chain[k].from ELSE chain[k].until

(* How far the conversation is imported.                                   *)
Reached ==
    IF position = 0 THEN Base(imported)
    ELSE IF position <= Harbor!Segment.copied THEN Harbor!Segment.from
    ELSE Harbor!StepAt(Harbor!Segment, position)

(* The segments cover the conversation from its beginning, each file once; *)
(* nothing follows a file without a trajectory.                            *)
ChainHolds ==
    /\ \A i \in 1..Len(chain) :
          /\ chain[i].copied <= chain[i].from /\ chain[i].from <= chain[i].until
          /\ chain[i].from = IF i = 1 THEN 0 ELSE chain[i - 1].until
          /\ chain[i].until <= Covered
          /\ chain[i].content = "invalid" =>
                 /\ i = Len(chain)
                 /\ at = "over" \/ (at = "import" /\ Harbor!Supplements)
                 /\ outcome # "evidence"
    /\ \A i \in 1..Len(chain) : \A j \in 1..Len(chain) : chain[i].file = chain[j].file => i = j

(* Where the adapter is decides what is imported.                          *)
PlaceHolds ==
    /\ at \in {"start", "job", "chain", "import", "over"}
    /\ at \in {"start", "job", "chain"} =>
           /\ imported = 0 /\ position = 0
           /\ current \in 1..(Len(chain) + 1)
    /\ at # "over" => outcome = "none"
    /\ imported <= Len(chain)
    /\ position > 0 =>
           /\ imported < Len(chain)
           /\ Harbor!Segment.content = "sound"
           /\ position <= Harbor!Steps(Harbor!Segment)
    /\ outcome = "evidence" => at = "over" /\ imported = Len(chain) /\ position = 0

(* What is imported is exactly what was reached, and every receipt is of a *)
(* step that was reached.                                                  *)
ImportHolds ==
    /\ Tells(Public(Reached))
    /\ IsFiniteSet(receipts)
    /\ Cardinality(receipts) = Cardinality(Generated(Reached))
    /\ \A call \in receipts :
           /\ call[2] \in Nat
           /\ \E i \in 1..Len(chain) :
                 /\ call[1] = chain[i].file
                 /\ i <= imported \/ (i = imported + 1 /\ call[2] <= position)

LEMMA ChainTypes ==
    ASSUME Harbor!HarborTypeOK
    PROVE  /\ Len(chain) \in 0..MaxSegments /\ Len(Sources) \in Nat /\ MaxSegments \in Nat
           /\ imported \in Nat /\ position \in Nat /\ current \in Nat
           /\ \A i \in 1..Len(chain) :
                 /\ chain[i].file \in 1..MaxSegments /\ chain[i].copied \in 0..Len(Sources)
                 /\ chain[i].from \in 0..Len(Sources) /\ chain[i].until \in 0..Len(Sources)
                 /\ chain[i].content \in {"sound", "invalid", "refused"}
<1>1. /\ MaxSegments \in Nat /\ Len(Sources) \in Nat /\ chain \in Seq(Harbor!Segments)
      /\ Len(chain) <= MaxSegments /\ imported \in 0..MaxSegments /\ position \in 0..Len(Sources)
      /\ current \in 0..MaxSegments + 1
  BY AdaptersAssumption DEF Harbor!HarborTypeOK
<1>2. Len(chain) \in Nat /\ \A i \in 1..Len(chain) : chain[i] \in Harbor!Segments
  BY <1>1, ElementOfSeq
<1> QED BY <1>1, <1>2 DEF Harbor!Segments, Harbor!Contents

LEMMA CoveredIs ==
    ASSUME Harbor!HarborTypeOK
    PROVE  /\ Covered = IF Len(chain) = 0 THEN 0 ELSE chain[Len(chain)].until
           /\ Covered \in 0..Len(Sources)
<1>1. chain \in Seq(Harbor!Segments) /\ Len(chain) \in Nat
  BY DEF Harbor!HarborTypeOK
<1>2. chain = <<>> <=> Len(chain) = 0
  BY <1>1, EmptySeq
<1>3. Covered = IF Len(chain) = 0 THEN 0 ELSE chain[Len(chain)].until
  BY <1>2 DEF Covered, Harbor!Covered, Harbor!Last
<1> QED BY <1>1, <1>3, ChainTypes

(* Where the import has come to, for a chain that holds.                   *)
LEMMA ReachedIs ==
    ASSUME Harbor!HarborTypeOK, ChainHolds, PlaceHolds
    PROVE  /\ Reached \in 0..Covered
           /\ imported < Len(chain) => Base(imported) = chain[imported + 1].from
<1>1. /\ Len(chain) \in Nat /\ imported \in Nat /\ imported <= Len(chain)
      /\ Covered \in Nat /\ position \in Nat
      /\ \A i \in 1..Len(chain) :
            /\ chain[i].copied \in Nat /\ chain[i].from \in Nat /\ chain[i].until \in Nat
            /\ chain[i].from <= chain[i].until /\ chain[i].until <= Covered
            /\ chain[i].from = IF i = 1 THEN 0 ELSE chain[i - 1].until
            /\ chain[i].content = "invalid" => i = Len(chain)
            /\ chain[i].copied <= chain[i].from
  BY ChainTypes, CoveredIs DEF ChainHolds, PlaceHolds
<1>2. Base(imported) \in 0..Covered
  BY <1>1 DEF Base
<1>3. imported < Len(chain) => Base(imported) = chain[imported + 1].from
  BY <1>1 DEF Base
<1>4. CASE position > 0
  <2>1. /\ imported + 1 \in 1..Len(chain)
        /\ position <= chain[imported + 1].copied + chain[imported + 1].until
                       - chain[imported + 1].from
    BY <1>1, <1>4 DEF PlaceHolds, Harbor!Segment, Harbor!Steps
  <2>2. Reached = IF position <= chain[imported + 1].copied THEN chain[imported + 1].from
                  ELSE chain[imported + 1].from - chain[imported + 1].copied + position
    BY <1>1, <1>4 DEF Reached, Harbor!Segment, Harbor!StepAt
  <2> DEFINE s == chain[imported + 1]
  <2>3. /\ s.copied \in Nat /\ s.from \in Nat /\ s.until \in Nat
        /\ s.from <= s.until /\ s.until <= Covered /\ s.copied <= s.from
    BY <1>1, <2>1
  <2>4. Reached = IF position <= s.copied THEN s.from ELSE s.from - s.copied + position
    BY <2>2
  <2>5. position <= s.copied + s.until - s.from
    BY <2>1
  <2> HIDE DEF s
  <2>6. Reached \in 0..Covered
    BY <1>1, <2>3, <2>4, <2>5
  <2> QED BY <1>3, <2>6
<1>5. CASE position = 0
  BY <1>2, <1>3, <1>5 DEF Reached
<1> QED BY <1>1, <1>3, <1>4, <1>5

(* The steps of Harbor that neither read a file nor import.                *)
Quiet == UNCHANGED <<dialogue, receipts, chain, current, imported, position>>

LEMMA HarborControl ==
    ASSUME Templar!TrialTypeOK, Harbor!HarborTypeOK, PlaceHolds, Harbor!HarborNext
    PROVE  /\ Harbor!ReadSegment \/ Harbor!ImportStep \/ Harbor!NextSegment \/ Quiet
           /\ dialogue' \in Seq(Nat) => Templar!TrialTypeOK'
           /\ native' \in Harbor!Natives
           /\ Harbor!ReadSegment \/ Harbor!ImportStep \/ Harbor!NextSegment => native' = native
<1> USE DEF Harbor!HarborNext, Harbor!HarborSteps, Harbor!Start, Harbor!JobFails,
        Harbor!ReadNative, Harbor!FindTrajectory, Harbor!Unreadable, Harbor!ChainFails,
        Harbor!ImportFails, Harbor!Imported, Harbor!HarborInterrupted, Harbor!Waits,
        Harbor!Goes, Harbor!Fails, Harbor!Interrupts, Harbor!resource, Harbor!statefile,
        Harbor!imports, Harbor!harbor, Harbor!progress, Harbor!control
<1>1. Harbor!ReadSegment \/ Harbor!ImportStep \/ Harbor!NextSegment \/ Quiet
  BY Zenon DEF Quiet
<1>2. /\ asked' = asked /\ known' = known /\ unwritten' = unwritten
      /\ kept' \in {kept, TRUE, FALSE}
      /\ remote' = remote /\ file' = file
      /\ outcome' \in {outcome, "evidence", "failed", "cancelled"}
      /\ cancels' = cancels \/ (cancels < MaxCancels /\ cancels' = cancels + 1)
  BY Zenon DEF Harbor!ReadSegment, Harbor!ImportStep, Harbor!NextSegment
<1>3. native' = native \/ native' = "many" \/ native' \in Harbor!Natives \ {"unknown", "many"}
  BY Zenon DEF Harbor!ReadSegment, Harbor!ImportStep, Harbor!NextSegment
<1>4. Harbor!ReadSegment \/ Harbor!ImportStep \/ Harbor!NextSegment => native' = native
  BY Zenon DEF Harbor!ReadSegment, Harbor!ImportStep, Harbor!NextSegment
<1> HIDE DEF Harbor!HarborNext, Harbor!HarborSteps
<1>5. native' \in Harbor!Natives
  BY <1>3 DEF Harbor!HarborTypeOK, Harbor!Natives
<1>6. cancels' \in 0..MaxCancels
  BY <1>2, AdaptersAssumption DEF Templar!TrialTypeOK
<1>7. kept' \in BOOLEAN
  BY <1>2, Zenon DEF Templar!TrialTypeOK
<1>8. dialogue' \in Seq(Nat) => Templar!TrialTypeOK'
  BY <1>2, <1>6, <1>7, TrialTypes, Zenon DEF Templar!TrialTypeOK, Flags
<1> QED BY <1>1, <1>4, <1>5, <1>8

(* Reading one more file.                                                  *)
LEMMA ReadSegmentIs ==
    ASSUME Harbor!HarborTypeOK, ChainHolds, PlaceHolds, Harbor!ReadSegment
    PROVE  \E segment \in Harbor!Segments :
               /\ at = "chain" /\ at' \in {"chain", "import", "over"}
               /\ outcome' \in {"none", "failed"}
               /\ at' # "over" => outcome' = "none"
               /\ Len(chain) < MaxSegments /\ chain' = Append(chain, segment)
               /\ \A i \in 1..Len(chain) : chain[i].file # segment.file
               /\ segment.from = Covered /\ segment.copied <= Covered
               /\ Covered <= segment.until
               /\ segment.content = "invalid" =>
                      at' = "over" \/ (at' = "import" /\ Harbor!Supplements')
               /\ current' \in 0..MaxSegments + 1
               /\ at' = "chain" => current' \in 1..(Len(chain) + 2)
               /\ UNCHANGED <<dialogue, receipts, native, imported, position>>
<1>1. PICK copied \in 0..Covered, fresh \in 0..(Len(Sources) - Covered),
           content \in Harbor!Contents, next \in 0..Len(chain) + 2 :
          /\ chain' = Append(chain, [file |-> current, copied |-> copied, from |-> Covered,
                                     until |-> Covered + fresh, content |-> content])
          /\ IF content = "invalid"
             THEN Harbor!ChainFails /\ UNCHANGED current
             ELSE /\ Harbor!Waits(IF next = 0 THEN "import" ELSE "chain")
                  /\ current' = next
  BY Zenon DEF Harbor!ReadSegment, Covered
<1> DEFINE segment == [file |-> current, copied |-> copied, from |-> Covered,
                       until |-> Covered + fresh, content |-> content]
<1>2. /\ at = "chain" /\ outcome = "none" /\ Len(chain) < MaxSegments
      /\ current \notin {chain[i].file : i \in 1..Len(chain)}
      /\ UNCHANGED <<native, imported, position>>
  BY DEF Harbor!ReadSegment, Harbor!MayRead, Harbor!progress, PlaceHolds
<1>3. /\ Len(chain) \in 0..MaxSegments /\ MaxSegments \in Nat /\ Len(Sources) \in Nat
      /\ Covered \in 0..Len(Sources) /\ current \in 1..(Len(chain) + 1)
  BY <1>2, ChainTypes, CoveredIs DEF PlaceHolds
<1>4. segment \in Harbor!Segments
  BY <1>2, <1>3 DEF Harbor!Segments
<1>5. UNCHANGED <<dialogue, receipts>>
  BY <1>1, Zenon DEF Harbor!ChainFails, Harbor!Waits, Harbor!Goes, Harbor!imports
<1>6. CASE content = "invalid"
  <2>1. /\ current' = current
        /\ \/ Harbor!Supplements /\ at' = "import" /\ outcome' = outcome
           \/ at' = "over" /\ outcome' = "failed"
    BY <1>1, <1>6, Zenon DEF Harbor!ChainFails, Harbor!Waits, Harbor!Goes, Harbor!Fails
  <2>2. Harbor!Supplements => Harbor!Supplements'
    BY <1>2 DEF Harbor!Supplements
  <2> QED BY <1>1, <1>2, <1>3, <1>4, <1>5, <2>1, <2>2
<1>7. CASE content # "invalid"
  <2>1. /\ current' = next /\ outcome' = outcome
        /\ at' = IF next = 0 THEN "import" ELSE "chain"
    BY <1>1, <1>7 DEF Harbor!Waits, Harbor!Goes
  <2> QED BY <1>1, <1>2, <1>3, <1>4, <1>5, <1>7, <2>1
<1> QED BY <1>6, <1>7

LEMMA ConversationGrows ==
    ASSUME NEW n \in Nat
    PROVE  /\ Public(n + 1) = IF Sources[n + 1] # "system" THEN Public(n) \union {n + 1}
                              ELSE Public(n)
           /\ Generated(n + 1) = IF Sources[n + 1] = "agent" THEN Generated(n) \union {n + 1}
                                 ELSE Generated(n)
           /\ Public(n) \subseteq 1..n
           /\ IsFiniteSet(Generated(n)) /\ Cardinality(Generated(n)) \in Nat
           /\ n + 1 \notin Generated(n)
<1>1. \A k : k \in 1..(n + 1) <=> k \in 1..n \/ k = n + 1
  OBVIOUS
<1>2. Generated(n) \subseteq 1..n /\ IsFiniteSet(1..n) /\ n + 1 \notin 1..n
  BY FS_Interval DEF Generated
<1>3. IsFiniteSet(Generated(n)) /\ Cardinality(Generated(n)) \in Nat
  BY <1>2, FS_Subset, FS_CardinalityType
<1> QED BY <1>1, <1>2, <1>3 DEF Public, Generated

(* One step of a segment: it is either one that was reached already, or    *)
(* the next of the conversation.                                           *)
LEMMA ImportStepIs ==
    ASSUME Harbor!HarborTypeOK, ChainHolds, PlaceHolds, Harbor!ImportStep,
           NEW s, s = chain[imported + 1], NEW p, p = position + 1
    PROVE  /\ at = "import" /\ imported + 1 \in 1..Len(chain) /\ s.content = "sound"
           /\ p \in Nat /\ p <= s.copied + s.until - s.from /\ p \in 0..Len(Sources)
           /\ p <= s.copied => Reached' = Reached
           /\ p > s.copied =>
                  /\ Reached' = Reached + 1
                  /\ Harbor!StepAt(s, p) = Reached + 1
<1>1. /\ at = "import" /\ imported < Len(chain) /\ s.content = "sound"
      /\ position < s.copied + s.until - s.from
      /\ position' = position + 1
      /\ UNCHANGED <<chain, imported>>
  BY DEF Harbor!ImportStep, Harbor!Importing, Harbor!Segment, Harbor!Steps
<1>2. Len(chain) \in Nat /\ imported \in Nat /\ position \in Nat /\ Len(Sources) \in Nat
  BY ChainTypes
<1>3. imported + 1 \in 1..Len(chain)
  BY <1>1, <1>2
<1>4. /\ s.copied \in Nat /\ s.from \in Nat /\ s.until \in 0..Len(Sources)
      /\ s.copied <= s.from /\ s.from <= s.until
  BY <1>3, ChainTypes DEF ChainHolds
<1>5. Reached = IF position = 0 THEN s.from ELSE
                IF position <= s.copied THEN s.from ELSE s.from - s.copied + position
  BY <1>1, <1>2, ReachedIs DEF Reached, Harbor!Segment, Harbor!StepAt
<1>6. Reached' = IF p <= s.copied THEN s.from ELSE s.from - s.copied + p
  BY <1>1, <1>2 DEF Reached, Harbor!Segment, Harbor!StepAt
<1>7. Harbor!StepAt(s, p) = s.from - s.copied + p
  BY DEF Harbor!StepAt
<1>8. p \in Nat /\ p <= s.copied + s.until - s.from /\ p \in 0..Len(Sources)
  BY <1>1, <1>2, <1>4
<1>9. p <= s.copied => Reached' = Reached
  BY <1>2, <1>4, <1>5, <1>6
<1>10. p > s.copied => Reached' = Reached + 1 /\ Harbor!StepAt(s, p) = Reached + 1
  <2>1. SUFFICES ASSUME p > s.copied
                 PROVE  Reached' = Reached + 1 /\ Harbor!StepAt(s, p) = Reached + 1
    OBVIOUS
  <2>2. Reached = s.from - s.copied + position
    BY <1>2, <1>4, <1>5, <2>1
  <2>3. Reached' = s.from - s.copied + p
    BY <1>2, <1>4, <1>6, <2>1
  <2>4. s.from - s.copied + p = s.from - s.copied + position + 1
    <3>1. s.from - s.copied \in Int
      BY <1>4
    <3> QED BY <1>2, <3>1
  <2> QED BY <1>7, <2>2, <2>3, <2>4
<1> QED BY <1>1, <1>3, <1>8, <1>9, <1>10

LEMMA ImportStepRecords ==
    ASSUME Templar!TrialTypeOK, Harbor!HarborTypeOK, ChainHolds, PlaceHolds, ImportHolds,
           Harbor!ImportStep
    PROVE  dialogue' \in Seq(Nat) /\ ImportHolds'
<1> DEFINE s == chain[imported + 1]
           p == position + 1
           step == Harbor!StepAt(s, p)
           n == Reached
<1>1. /\ imported + 1 \in 1..Len(chain) /\ p \in Nat
      /\ p <= s.copied => Reached' = n
      /\ p > s.copied => Reached' = n + 1 /\ step = n + 1
  BY ImportStepIs
<1>2. /\ position' = p /\ UNCHANGED <<chain, imported>>
      /\ IF p <= s.copied \/ Sources[step] = "system"
         THEN UNCHANGED <<dialogue, receipts>>
         ELSE /\ dialogue' = Append(dialogue, step)
              /\ IF Sources[step] = "agent"
                 THEN receipts' = receipts \union {<<s.file, p>>}
                 ELSE UNCHANGED receipts
  BY Zenon DEF Harbor!ImportStep, Harbor!Skipped, Harbor!Segment, Harbor!Call
<1>3. /\ n \in Nat /\ dialogue \in Seq(Nat) /\ imported \in Nat /\ position \in Nat
      /\ s.copied \in Nat
  BY <1>1, ReachedIs, CoveredIs, ChainTypes DEF Templar!TrialTypeOK
<1>4. /\ Ascending(dialogue) /\ Range(dialogue) = Public(n) /\ IsFiniteSet(receipts)
      /\ Cardinality(receipts) = Cardinality(Generated(n))
  BY DEF ImportHolds, Tells
<1>5. Cardinality(receipts) \in Nat
  BY <1>4, FS_CardinalityType
<1>6. <<s.file, p>> \notin receipts
  <2>1. SUFFICES ASSUME <<s.file, p>> \in receipts PROVE FALSE
    OBVIOUS
  <2>2. PICK i \in 1..Len(chain) : /\ s.file = chain[i].file
                                   /\ i <= imported \/ (i = imported + 1 /\ p <= position)
    BY <2>1 DEF ImportHolds
  <2>3. i = imported + 1
    BY <1>1, <2>2 DEF ChainHolds
  <2> QED BY <1>3, <2>2, <2>3
<1>7. \A call \in receipts' :
          /\ call[2] \in Nat
          /\ \E i \in 1..Len(chain') :
                /\ call[1] = chain'[i].file
                /\ i <= imported' \/ (i = imported' + 1 /\ call[2] <= position')
  <2>1. SUFFICES ASSUME NEW call \in receipts'
                 PROVE  /\ call[2] \in Nat
                        /\ \E i \in 1..Len(chain) :
                              /\ call[1] = chain[i].file
                              /\ i <= imported \/ (i = imported + 1 /\ call[2] <= p)
    BY <1>2
  <2>2. CASE call \in receipts
    <3>1. call[2] \in Nat
      BY <2>2 DEF ImportHolds
    <3>2. PICK i \in 1..Len(chain) :
              /\ call[1] = chain[i].file
              /\ i <= imported \/ (i = imported + 1 /\ call[2] <= position)
      BY <2>2 DEF ImportHolds
    <3> QED BY <1>3, <3>1, <3>2
  <2>3. CASE call = <<s.file, p>>
    BY <1>1, <2>3
  <2> QED BY <1>2, <2>2, <2>3
<1> HIDE DEF s, p, step, n
<1>8. CASE p <= s.copied
  <2>1. UNCHANGED <<dialogue, receipts>> /\ Reached' = n
    BY <1>1, <1>2, <1>8
  <2> QED BY <1>3, <1>4, <1>7, <2>1 DEF ImportHolds, Tells, Ascending, Public, Generated
<1>9. CASE p > s.copied
  <2>0. ~(p <= s.copied)
    BY <1>1, <1>3, <1>9
  <2>1. Reached' = n + 1 /\ step = n + 1
    BY <1>1, <1>9
  <2>2. /\ Public(n + 1) = IF Sources[n + 1] # "system" THEN Public(n) \union {n + 1}
                           ELSE Public(n)
        /\ Generated(n + 1) = IF Sources[n + 1] = "agent" THEN Generated(n) \union {n + 1}
                              ELSE Generated(n)
        /\ Public(n) \subseteq 1..n
        /\ IsFiniteSet(Generated(n)) /\ Cardinality(Generated(n)) \in Nat
        /\ n + 1 \notin Generated(n)
    BY <1>3, ConversationGrows
  <2>3. /\ dialogue' \in Seq(Nat)
        /\ Ascending(dialogue') /\ Range(dialogue') = Public(n + 1)
    <3>1. CASE Sources[n + 1] = "system"
      <4>1. dialogue' = dialogue
        BY <1>2, <2>1, <3>1
      <4> QED BY <1>3, <1>4, <2>2, <3>1, <4>1
    <3>2. CASE Sources[n + 1] # "system"
      <4>1. dialogue' = Append(dialogue, n + 1)
        BY <1>2, <2>0, <2>1, <3>2
      <4>2. \A y \in Range(dialogue) : y < n + 1
        BY <1>3, <1>4, <2>2
      <4>3. /\ Append(dialogue, n + 1) \in Seq(Nat) /\ Ascending(Append(dialogue, n + 1))
            /\ Range(Append(dialogue, n + 1)) = Range(dialogue) \union {n + 1}
        BY <1>3, <1>4, <4>2, AscendingAppend
      <4> QED BY <1>4, <2>2, <3>2, <4>1, <4>3
    <3> QED BY <3>1, <3>2
  <2>4. IsFiniteSet(receipts') /\ Cardinality(receipts') = Cardinality(Generated(n + 1))
    <3>1. CASE Sources[n + 1] = "agent"
      <4>1. receipts' = receipts \union {<<s.file, p>>}
        BY <1>2, <2>0, <2>1, <3>1
      <4>2. IsFiniteSet(receipts') /\ Cardinality(receipts') = Cardinality(receipts) + 1
        BY <1>4, <1>6, <4>1, FS_AddElement
      <4>3. Cardinality(Generated(n) \union {n + 1}) = Cardinality(Generated(n)) + 1
        BY <2>2, FS_AddElement
      <4> QED BY <1>4, <2>2, <3>1, <4>2, <4>3
    <3>2. CASE Sources[n + 1] # "agent"
      <4>1. receipts' = receipts
        BY <1>2, <2>1, <3>2
      <4> QED BY <1>4, <2>2, <3>2, <4>1
    <3> QED BY <3>1, <3>2
  <2>5. Tells(Public(Reached))' /\ Generated(Reached)' = Generated(n + 1)
    BY <2>1, <2>3 DEF Tells, Public, Generated, Ascending
  <2> QED BY <1>7, <2>1, <2>3, <2>4, <2>5 DEF ImportHolds
<1>10. p <= s.copied \/ p > s.copied
  BY <1>1, <1>3
<1> QED BY <1>8, <1>9, <1>10

(* The next segment begins where this one ends.                            *)
LEMMA NextSegmentRecords ==
    ASSUME Harbor!HarborTypeOK, ChainHolds, PlaceHolds, ImportHolds, Harbor!NextSegment
    PROVE  ImportHolds'
<1> DEFINE s == chain[imported + 1]
<1>1. /\ imported < Len(chain) /\ imported' = imported + 1 /\ position' = 0
      /\ UNCHANGED <<chain, dialogue, receipts>>
      /\ \/ s.content = "invalid"
         \/ s.content = "sound" /\ position = s.copied + s.until - s.from
  BY DEF Harbor!NextSegment, Harbor!Importing, Harbor!Segment, Harbor!Steps, Harbor!control,
         Harbor!imports
<1>2. Len(chain) \in Nat /\ imported \in Nat /\ position \in Nat
  BY ChainTypes
<1>3. imported + 1 \in 1..Len(chain)
  BY <1>1, <1>2
<1>4. /\ s.copied \in Nat /\ s.from \in Nat /\ s.until \in Nat
      /\ s.copied <= s.from /\ s.from <= s.until
  BY <1>3, ChainTypes DEF ChainHolds
<1>5. Reached = IF position = 0 THEN s.from ELSE
                IF position <= s.copied THEN s.from ELSE s.from - s.copied + position
  BY <1>1, <1>2, ReachedIs DEF Reached, Harbor!Segment, Harbor!StepAt
<1>6. Reached' = IF s.content = "invalid" THEN s.from ELSE s.until
  BY <1>1, <1>2 DEF Reached, Base
<1> HIDE DEF s
<1>7. Reached' = Reached
  <2>1. CASE s.content = "invalid"
    <3>1. position = 0
      BY <1>2, <2>1 DEF PlaceHolds, Harbor!Segment, s
    <3> QED BY <1>5, <1>6, <2>1, <3>1
  <2>2. CASE s.content # "invalid"
    <3>1. Reached' = s.until /\ position = s.copied + s.until - s.from
      BY <1>1, <1>6, <2>2
    <3>2. CASE position <= s.copied
      <4>1. s.until = s.from
        BY <1>4, <3>1, <3>2
      <4> QED BY <1>5, <3>1, <3>2, <4>1
    <3>3. CASE ~(position <= s.copied)
      <4>1. Reached = s.from - s.copied + position
        BY <1>2, <1>4, <1>5, <3>3
      <4> QED BY <1>4, <3>1, <4>1
    <3> QED BY <3>2, <3>3
  <2> QED BY <2>1, <2>2
<1>8. ASSUME NEW call \in receipts
      PROVE  \E i \in 1..Len(chain) :
                 /\ call[1] = chain[i].file
                 /\ i <= imported + 1 \/ (i = imported + 2 /\ call[2] <= 0)
  <2>1. PICK i \in 1..Len(chain) : /\ call[1] = chain[i].file
                                   /\ i <= imported \/ i = imported + 1
    BY DEF ImportHolds
  <2>2. i <= imported + 1
    BY <1>2, <2>1
  <2> QED BY <2>1, <2>2
<1>9. \A call \in receipts' :
          /\ call[2] \in Nat
          /\ \E i \in 1..Len(chain') :
                /\ call[1] = chain'[i].file
                /\ i <= imported' \/ (i = imported' + 1 /\ call[2] <= position')
  <2>1. imported' + 1 = imported + 2
    BY <1>1, <1>2
  <2> QED BY <1>1, <1>8, <2>1 DEF ImportHolds
<1>10. Tells(Public(Reached))' /\ Generated(Reached)' = Generated(Reached)
  BY <1>1, <1>7 DEF ImportHolds, Tells, Ascending, Public, Generated
<1> QED BY <1>1, <1>9, <1>10 DEF ImportHolds

(* A file that is read is not yet imported.                                *)
LEMMA ReadSegmentRecords ==
    ASSUME Harbor!HarborTypeOK, ChainHolds, PlaceHolds, ImportHolds, Harbor!ReadSegment
    PROVE  Harbor!HarborTypeOK' /\ ChainHolds' /\ PlaceHolds' /\ ImportHolds'
<1>1. PICK segment \in Harbor!Segments :
          /\ at = "chain" /\ at' \in {"chain", "import", "over"} /\ outcome' \in {"none", "failed"}
          /\ at' # "over" => outcome' = "none"
          /\ Len(chain) < MaxSegments /\ chain' = Append(chain, segment)
          /\ \A i \in 1..Len(chain) : chain[i].file # segment.file
          /\ segment.from = Covered /\ segment.copied <= Covered
          /\ Covered <= segment.until
          /\ segment.content = "invalid" =>
                 at' = "over" \/ (at' = "import" /\ Harbor!Supplements')
          /\ current' \in 0..MaxSegments + 1
          /\ at' = "chain" => current' \in 1..(Len(chain) + 2)
          /\ UNCHANGED <<dialogue, receipts, native, imported, position>>
  BY ReadSegmentIs
<1> DEFINE n == Len(chain)
<1>2. /\ n \in Nat /\ MaxSegments \in Nat /\ imported = 0 /\ position = 0 /\ Covered \in Nat
      /\ chain \in Seq(Harbor!Segments)
  BY <1>1, ChainTypes, CoveredIs DEF PlaceHolds, Harbor!HarborTypeOK
<1>3. /\ chain' \in Seq(Harbor!Segments) /\ Len(chain') = n + 1
      /\ chain'[n + 1] = segment
      /\ \A i \in 1..n : chain'[i] = chain[i]
  BY <1>1, <1>2, AppendProperties
<1>4. \A i \in 1..(n + 1) : i \in 1..n \/ i = n + 1
  BY <1>2
<1>5. Harbor!HarborTypeOK'
  BY <1>1, <1>2, <1>3 DEF Harbor!HarborTypeOK
<1>6. Covered' = segment.until
  <2>1. Covered' = IF Len(chain') = 0 THEN 0 ELSE chain'[Len(chain')].until
    <3>1. chain' # <<>>
      BY <1>2, <1>3
    <3> QED BY <1>2, <1>3, <3>1 DEF Covered, Harbor!Covered, Harbor!Last
  <2> QED BY <1>2, <1>3, <2>1
<1>7. ChainHolds'
  <2>1. ASSUME NEW i \in 1..(n + 1)
        PROVE  /\ chain'[i].copied <= chain'[i].from /\ chain'[i].from <= chain'[i].until
               /\ chain'[i].from = IF i = 1 THEN 0 ELSE chain'[i - 1].until
               /\ chain'[i].until <= Covered'
               /\ chain'[i].content = "invalid" =>
                      /\ i = n + 1
                      /\ at' = "over" \/ (at' = "import" /\ Harbor!Supplements')
                      /\ outcome' # "evidence"
    <3>1. CASE i = n + 1
      <4>1. chain'[i] = segment
        BY <1>3, <3>1
      <4>2. segment.from = IF i = 1 THEN 0 ELSE chain'[i - 1].until
        <5>1. CASE n = 0
          BY <1>1, <3>1, <5>1, CoveredIs
        <5>2. CASE n # 0
          <6>1. i # 1 /\ i - 1 = n /\ n \in 1..n
            BY <1>2, <3>1, <5>2
          <6> QED BY <1>1, <1>3, <5>2, <6>1, CoveredIs
        <5> QED BY <5>1, <5>2
      <4>3. segment.until <= Covered'
        <5>1. segment.until \in Nat
          BY AdaptersAssumption DEF Harbor!Segments
        <5> QED BY <1>6, <5>1
      <4> QED BY <1>1, <3>1, <4>1, <4>2, <4>3
    <3>2. CASE i # n + 1
      <4>1. i \in 1..n /\ chain'[i] = chain[i] /\ (i # 1 => i - 1 \in 1..n)
        BY <1>2, <1>3, <3>2
      <4>2. /\ chain[i].copied <= chain[i].from /\ chain[i].from <= chain[i].until
            /\ chain[i].from = IF i = 1 THEN 0 ELSE chain[i - 1].until
            /\ chain[i].until <= Covered
            /\ chain[i].content # "invalid"
        BY <1>1, <4>1 DEF ChainHolds
      <4>3. chain[i].until \in Nat
        BY <4>1, ChainTypes
      <4>4. segment.until \in Nat
        BY AdaptersAssumption DEF Harbor!Segments
      <4>5. chain[i].until <= Covered'
        BY <1>1, <1>2, <1>6, <4>2, <4>3, <4>4
      <4> QED BY <1>3, <4>1, <4>2, <4>5
    <3> QED BY <3>1, <3>2
  <2>2. ASSUME NEW i \in 1..(n + 1), NEW j \in 1..(n + 1), chain'[i].file = chain'[j].file
        PROVE  i = j
    BY <1>1, <1>3, <1>4, <2>2 DEF ChainHolds
  <2> QED BY <1>3, <2>1, <2>2 DEF ChainHolds
<1>8. PlaceHolds'
  BY <1>1, <1>2, <1>3 DEF PlaceHolds
<1>9. ImportHolds'
  <2>1. Reached = 0 /\ Reached' = 0
    BY <1>1, <1>2 DEF Reached, Base
  <2>2. Tells(Public(Reached))' /\ Generated(Reached)' = Generated(Reached)
    BY <1>1, <2>1 DEF ImportHolds, Tells, Ascending, Public, Generated
  <2>3. ASSUME NEW call \in receipts'
        PROVE  /\ call[2] \in Nat
               /\ \E i \in 1..Len(chain') :
                      /\ call[1] = chain'[i].file
                      /\ i <= imported' \/ (i = imported' + 1 /\ call[2] <= position')
    <3>1. call \in receipts
      BY <1>1
    <3>2. PICK i \in 1..n : /\ call[1] = chain[i].file
                            /\ i <= imported \/ (i = imported + 1 /\ call[2] <= position)
      BY <3>1 DEF ImportHolds
    <3>3. i \in 1..Len(chain') /\ chain'[i] = chain[i]
      BY <1>2, <1>3
    <3> QED BY <1>1, <3>1, <3>2, <3>3 DEF ImportHolds
  <2> QED BY <1>1, <2>2, <2>3 DEF ImportHolds
<1> QED BY <1>5, <1>7, <1>8, <1>9

(* Any step of Harbor.                                                     *)
LEMMA HarborTypes ==
    ASSUME Templar!TrialTypeOK, Harbor!HarborTypeOK, ChainHolds, PlaceHolds, ImportHolds,
           Harbor!HarborNext
    PROVE  Templar!TrialTypeOK' /\ Harbor!HarborTypeOK' /\ ImportHolds'
<1>1. CASE Harbor!ReadSegment
  <2>1. dialogue' = dialogue
    BY <1>1, ReadSegmentIs
  <2> QED BY <1>1, <2>1, ReadSegmentRecords, HarborControl DEF Templar!TrialTypeOK
<1>2. CASE Harbor!ImportStep
  <2>1. dialogue' \in Seq(Nat) /\ ImportHolds'
    BY <1>2, ImportStepRecords
  <2>2. /\ position' = position + 1 /\ position + 1 \in 0..Len(Sources)
        /\ UNCHANGED <<chain, current, imported>>
    BY <1>2, ImportStepIs DEF Harbor!ImportStep
  <2>3. Harbor!HarborTypeOK'
    BY <1>2, <2>2, HarborControl DEF Harbor!HarborTypeOK
  <2> QED BY <2>1, <2>3, HarborControl
<1>3. CASE Harbor!NextSegment
  <2>1. /\ imported < Len(chain) /\ imported' = imported + 1 /\ position' = 0
        /\ UNCHANGED <<chain, current, dialogue>>
    BY <1>3 DEF Harbor!NextSegment, Harbor!Importing, Harbor!control, Harbor!imports
  <2>2. imported' \in 0..MaxSegments /\ position' \in 0..Len(Sources)
    BY <2>1, ChainTypes
  <2>3. Harbor!HarborTypeOK'
    BY <1>3, <2>1, <2>2, HarborControl DEF Harbor!HarborTypeOK
  <2>4. Templar!TrialTypeOK'
    BY <2>1, HarborControl DEF Templar!TrialTypeOK
  <2> QED BY <1>3, <2>3, <2>4, NextSegmentRecords
<1>4. CASE Quiet
  <2>1. Harbor!HarborTypeOK'
    BY <1>4, HarborControl DEF Harbor!HarborTypeOK, Quiet
  <2>2. Templar!TrialTypeOK'
    BY <1>4, HarborControl DEF Templar!TrialTypeOK, Quiet
  <2>3. ImportHolds'
    <3>1. Reached' = Reached
      BY <1>4 DEF Quiet, Reached, Base, Harbor!Segment, Harbor!StepAt
    <3> QED BY <1>4, <3>1 DEF Quiet, ImportHolds, Tells, Ascending, Public, Generated
  <2> QED BY <2>1, <2>2, <2>3
<1> QED BY <1>1, <1>2, <1>3, <1>4, HarborControl

LEMMA HarborPlaces ==
    ASSUME Templar!TrialTypeOK, Harbor!HarborTypeOK, ChainHolds, PlaceHolds, ImportHolds,
           Harbor!HarborNext
    PROVE  ChainHolds' /\ PlaceHolds'
<1>1. CASE Harbor!ReadSegment
  BY <1>1, ReadSegmentRecords
<1>2. CASE Harbor!ImportStep \/ Harbor!NextSegment
  <2>1. /\ at = "import" /\ at' = at /\ outcome' = outcome
        /\ UNCHANGED <<native, chain, current>>
        /\ imported < Len(chain)
    BY <1>2, Zenon DEF Harbor!ImportStep, Harbor!NextSegment, Harbor!Importing, Harbor!control
  <2>2. ChainHolds'
    BY <2>1 DEF ChainHolds, Covered, Harbor!Covered, Harbor!Supplements
  <2>3. PlaceHolds'
    <3>1. CASE Harbor!ImportStep
      <4>1. /\ position' = position + 1 /\ imported' = imported
            /\ Harbor!Segment.content = "sound" /\ position < Harbor!Steps(Harbor!Segment)
        BY <3>1 DEF Harbor!ImportStep, Harbor!Importing
      <4>2. /\ position' <= Harbor!Steps(Harbor!Segment)
        <5>1. imported + 1 \in 1..Len(chain)
          BY <2>1, ChainTypes
        <5>2. /\ chain[imported + 1].copied \in Nat /\ chain[imported + 1].from \in Nat
              /\ chain[imported + 1].until \in Nat
          BY <5>1, ChainTypes
        <5>3. Harbor!Steps(Harbor!Segment) \in Int
          BY <5>2 DEF Harbor!Steps, Harbor!Segment
        <5> QED BY <4>1, <5>3, ChainTypes
      <4>3. Harbor!Segment' = Harbor!Segment
        BY <2>1, <4>1 DEF Harbor!Segment
      <4> QED BY <2>1, <4>1, <4>2, <4>3 DEF PlaceHolds, Harbor!Steps
    <3>2. CASE Harbor!NextSegment
      <4>1. position' = 0 /\ imported' = imported + 1
        BY <3>2 DEF Harbor!NextSegment
      <4> QED BY <2>1, <4>1, ChainTypes DEF PlaceHolds
    <3> QED BY <1>2, <3>1, <3>2
  <2> QED BY <2>2, <2>3
<1>3. CASE Quiet /\ ~(Harbor!ImportStep \/ Harbor!NextSegment \/ Harbor!ReadSegment)
  <2>1. \/ /\ at \in {"start", "job"} /\ at' \in {"job", "chain", "import"}
           /\ outcome' = outcome
        \/ /\ at = "chain" /\ at' = "import" /\ outcome' = outcome /\ native' = native
        \/ at' = "over" /\ outcome' \in {"failed", "cancelled"}
        \/ /\ at = "import" /\ at' = "over" /\ imported = Len(chain)
           /\ native = "graded" /\ native' = native
    BY <1>3, Zenon DEF Harbor!HarborNext, Harbor!HarborSteps, Harbor!Start, Harbor!JobFails,
        Harbor!ReadNative, Harbor!FindTrajectory, Harbor!Unreadable, Harbor!ChainFails,
        Harbor!ImportFails, Harbor!Imported, Harbor!HarborInterrupted, Harbor!Waits,
        Harbor!Goes, Harbor!Fails, Harbor!Interrupts, Harbor!harbor
  <2>2. UNCHANGED <<chain, current, imported, position>>
    BY <1>3 DEF Quiet
  <2>3. Harbor!Segment' = Harbor!Segment /\ Covered' = Covered
    BY <2>2 DEF Harbor!Segment, Covered, Harbor!Covered
  <2>4. \A i \in 1..Len(chain) : chain[i].content = "invalid" =>
            /\ i = Len(chain)
            /\ at' = "over" \/ (at' = "import" /\ Harbor!Supplements')
            /\ outcome' # "evidence"
    BY <2>1 DEF ChainHolds, PlaceHolds, Harbor!Supplements
  <2>5. ChainHolds'
    BY <2>2, <2>3, <2>4 DEF ChainHolds
  <2>6. PlaceHolds'
    BY <2>1, <2>2, <2>3, ChainTypes DEF PlaceHolds, Harbor!Steps
  <2> QED BY <2>5, <2>6
<1> QED BY <1>1, <1>2, <1>3, HarborControl

-----------------------------------------------------------------------------
(* The trial of any adapter.                                               *)
(* What holds of the records, and the types of everything.                 *)
TInv ==
    /\ TypeOK
    /\ adapter = "harbor" => ChainHolds /\ PlaceHolds /\ ImportHolds
    /\ adapter = "tau3" => Tau3Holds
    /\ adapter = "model" => ModelHolds

LEMMA InitTInv == Init => TInv
<1> SUFFICES ASSUME Init PROVE TInv
  OBVIOUS
<1>1. /\ MaxCancels \in Nat /\ MaxEvents \in Nat /\ MaxTurns \in Nat \ {0} /\ Len(Sources) \in Nat
      /\ MaxSegments \in Nat \ {0} /\ MaxMessages \in Nat /\ Facts \in Nat /\ MaxExports \in Nat
  BY AdaptersAssumption
<1>2. TypeOK
  <2>1. Flags
    BY Zenon DEF Init, Templar!TrialInit, Flags
  <2>2. Templar!TrialTypeOK
    <3>1. /\ outcome = "none" /\ cancels = 0 /\ remote = "none" /\ file = "none"
          /\ dialogue = <<>>
      BY DEF Init, Templar!TrialInit
    <3>2. cancels \in 0..MaxCancels /\ dialogue \in Seq(Nat)
      BY <1>1, <3>1
    <3> QED BY <2>1, <3>1, <3>2, TrialTypes, Zenon
  <2>3. Templar!TemplarTypeOK
    BY <1>1 DEF Init, Templar!TemplarInit, Templar!TemplarTypeOK
  <2>4. AgentEnv!AgentEnvTypeOK
    <3>1. opened \in BOOLEAN
      BY Zenon DEF Init, AgentEnv!AgentEnvInit
    <3>2. turn \in 0..MaxTurns /\ response \in 0..MaxTurns /\ answered \in 0..MaxTurns
      BY <1>1 DEF Init, AgentEnv!AgentEnvInit
    <3> QED BY <3>1, <3>2, Zenon DEF AgentEnv!AgentEnvTypeOK
  <2>5. SweBench!SweBenchTypeOK
    BY Zenon DEF Init, SweBench!SweBenchInit, SweBench!SweBenchTypeOK
  <2>6. Harbor!HarborTypeOK
    BY <1>1 DEF Init, Harbor!HarborInit, Harbor!HarborTypeOK, Harbor!Natives
  <2>7. Tau3!Tau3TypeOK
    <3>1. Len(Tau3!Checks) = 10
      BY DEF Tau3!Checks
    <3> QED BY <1>1, <3>1 DEF Init, Tau3!Tau3Init, Tau3!Tau3TypeOK
  <2>8. Model!ModelCallsTypeOK
    BY <1>1 DEF Init, Model!ModelCallsInit, Model!ModelCallsTypeOK
  <2>9. Langfuse!LangfuseTypeOK
    BY <1>1 DEF Init, Langfuse!LangfuseInit, Langfuse!LangfuseTypeOK
  <2> QED BY <2>2, <2>3, <2>4, <2>5, <2>6, <2>7, <2>8, <2>9, Zenon DEF TypeOK, Init
<1>3. at = "start" /\ outcome = "none" /\ dialogue = <<>> /\ receipts = {}
  BY DEF Init, Templar!TrialInit
<1>4. IsFiniteSet(receipts) /\ Cardinality(receipts) = 0
  BY <1>3, FS_EmptySet
<1>5. Ascending(dialogue) /\ Range(dialogue) = {}
  BY <1>3 DEF Ascending, Range
<1>6. ChainHolds /\ PlaceHolds /\ ImportHolds
  <2>1. chain = <<>> /\ current = 1 /\ imported = 0 /\ position = 0
    BY DEF Init, Harbor!HarborInit
  <2>2. Reached = 0
    BY <2>1 DEF Reached, Base
  <2>3. Public(0) = {} /\ Generated(0) = {}
    BY DEF Public, Generated
  <2>4. ImportHolds
    BY <1>3, <1>4, <1>5, <2>2, <2>3 DEF ImportHolds, Tells
  <2> QED BY <1>3, <2>1, <2>4 DEF ChainHolds, PlaceHolds
<1>7. Tau3Holds
  <2>1. messages = <<>> /\ generations = [role \in Tau3!Participants |-> 0]
    BY DEF Init, Tau3!Tau3Init
  <2>2. Texts(messages) = {} /\ Made(messages) = {}
    BY <2>1 DEF Texts, Made
  <2>3. \A role \in Tau3!Participants : generations[role] <= Len(messages)
    BY <2>1
  <2>4. Cardinality(Made(messages)) = 0
    BY <2>2, FS_EmptySet
  <2> QED BY <1>3, <1>4, <1>5, <2>2, <2>3, <2>4 DEF Tau3Holds, Tells
<1>8. ModelHolds
  <2>1. turn = 0 /\ calls = 0 /\ statuses = [end \in Model!Statuses |-> 0]
    BY DEF Init, Model!ModelCallsInit
  <2> QED BY <1>3, <1>4, <2>1 DEF ModelHolds, Model!Statuses
<1> QED BY <1>2, <1>6, <1>7, <1>8 DEF TInv

LEMMA StepTInv == TInv /\ [Next]_vars => TInv'
<1> SUFFICES ASSUME TInv, [Next]_vars PROVE TInv'
  OBVIOUS
<1>0. /\ adapter \in Harnesses /\ Templar!TrialTypeOK /\ Templar!TemplarTypeOK
      /\ AgentEnv!AgentEnvTypeOK /\ SweBench!SweBenchTypeOK /\ Harbor!HarborTypeOK
      /\ Tau3!Tau3TypeOK /\ Model!ModelCallsTypeOK /\ Langfuse!LangfuseTypeOK
  BY DEF TInv, TypeOK
<1>1. /\ UNCHANGED Templar!templar => Templar!TemplarTypeOK'
      /\ UNCHANGED <<turn, session>> => AgentEnv!AgentEnvTypeOK'
      /\ UNCHANGED swebench => SweBench!SweBenchTypeOK'
      /\ UNCHANGED harbor => Harbor!HarborTypeOK'
      /\ UNCHANGED tau3 => Tau3!Tau3TypeOK'
      /\ UNCHANGED model /\ turn' \in 0..MaxTurns => Model!ModelCallsTypeOK'
      /\ UNCHANGED langfuse => Langfuse!LangfuseTypeOK'
  BY <1>0, Zenon DEF Templar!templar, session, swebench, harbor, tau3, model, langfuse,
     Templar!TemplarTypeOK, AgentEnv!AgentEnvTypeOK, SweBench!SweBenchTypeOK,
     Harbor!HarborTypeOK, Tau3!Tau3TypeOK, Model!ModelCallsTypeOK, Langfuse!LangfuseTypeOK
<1>2. turn \in 0..MaxTurns
  BY <1>0 DEF Model!ModelCallsTypeOK
<1>3. CASE Templars /\ Templar!TemplarNext
  BY <1>0, <1>1, <1>2, <1>3, TemplarTypes, Zenon DEF Templars, TInv, TypeOK
<1>4. CASE AgentEnvs /\ AgentEnv!AgentEnvNext
  <2>1. Templar!TrialTypeOK' /\ AgentEnv!AgentEnvTypeOK' /\ turn' \in 0..MaxTurns
    BY <1>0, <1>4, AgentEnvTypes DEF AgentEnv!AgentEnvTypeOK
  <2>2. /\ adapter = "agentenv" /\ adapter' = adapter
        /\ UNCHANGED Templar!templar /\ UNCHANGED swebench /\ UNCHANGED harbor
        /\ UNCHANGED tau3 /\ UNCHANGED model /\ UNCHANGED langfuse
    BY <1>4 DEF AgentEnvs, templar, Templar!templar
  <2> QED BY <1>0, <1>1, <2>1, <2>2, Zenon DEF TInv, TypeOK
<1>5. CASE SweBenches /\ SweBench!SweBenchNext
  <2>1. Templar!TrialTypeOK' /\ SweBench!SweBenchTypeOK'
    BY <1>0, <1>5, SweBenchTypes
  <2>2. /\ adapter = "swebench" /\ adapter' = adapter /\ turn' = turn
        /\ UNCHANGED Templar!templar /\ UNCHANGED <<turn, session>> /\ UNCHANGED harbor
        /\ UNCHANGED tau3 /\ UNCHANGED model /\ UNCHANGED langfuse
    BY <1>5 DEF SweBenches, templar, Templar!templar
  <2> QED BY <1>0, <1>1, <1>2, <2>1, <2>2, Zenon DEF TInv, TypeOK
<1>6. CASE Harbors /\ Harbor!HarborNext
  <2>1. /\ adapter = "harbor" /\ adapter' = adapter /\ turn' = turn
        /\ UNCHANGED Templar!templar /\ UNCHANGED <<turn, session>> /\ UNCHANGED swebench
        /\ UNCHANGED tau3 /\ UNCHANGED model /\ UNCHANGED langfuse
    BY <1>6 DEF Harbors, templar, Templar!templar
  <2>2. ChainHolds /\ PlaceHolds /\ ImportHolds
    BY <2>1 DEF TInv
  <2>3. /\ Templar!TrialTypeOK' /\ Harbor!HarborTypeOK'
        /\ ChainHolds' /\ PlaceHolds' /\ ImportHolds'
    BY <1>0, <1>6, <2>2, HarborTypes, HarborPlaces
  <2> QED BY <1>0, <1>1, <1>2, <2>1, <2>3, Zenon DEF TInv, TypeOK
<1>7. CASE Tau3s /\ Tau3!Tau3Next
  <2>1. /\ adapter = "tau3" /\ adapter' = adapter /\ turn' = turn
        /\ UNCHANGED Templar!templar /\ UNCHANGED <<turn, session>> /\ UNCHANGED swebench
        /\ UNCHANGED harbor /\ UNCHANGED model /\ UNCHANGED langfuse
    BY <1>7 DEF Tau3s, templar, Templar!templar
  <2>2. Tau3Holds
    BY <2>1 DEF TInv
  <2>3. Templar!TrialTypeOK' /\ Tau3!Tau3TypeOK' /\ Tau3Holds'
    BY <1>0, <1>7, <2>2, Tau3Types, Tau3Records
  <2> QED BY <1>0, <1>1, <1>2, <2>1, <2>3, Zenon DEF TInv, TypeOK
<1>8. CASE Models /\ Model!ModelCallsNext
  <2>1. /\ adapter = "model" /\ adapter' = adapter
        /\ UNCHANGED Templar!templar /\ UNCHANGED session /\ UNCHANGED swebench
        /\ UNCHANGED harbor /\ UNCHANGED tau3 /\ UNCHANGED langfuse
    BY <1>8 DEF Models, templar, Templar!templar
  <2>2. ModelHolds
    BY <2>1 DEF TInv
  <2>3. Templar!TrialTypeOK' /\ Model!ModelCallsTypeOK' /\ ModelHolds'
    BY <1>0, <1>8, <2>2, ModelTypes, ModelRecords
  <2>4. AgentEnv!AgentEnvTypeOK'
    BY <1>0, <2>1, <2>3 DEF session, AgentEnv!AgentEnvTypeOK, Model!ModelCallsTypeOK
  <2> QED BY <1>0, <1>1, <2>1, <2>3, <2>4, Zenon DEF TInv, TypeOK
<1>9. CASE Langfuses /\ Langfuse!LangfuseNext
  <2>1. Templar!TrialTypeOK' /\ Langfuse!LangfuseTypeOK'
    BY <1>0, <1>9, LangfuseTypes
  <2>2. /\ adapter = "langfuse" /\ adapter' = adapter /\ turn' = turn
        /\ UNCHANGED Templar!templar /\ UNCHANGED <<turn, session>> /\ UNCHANGED swebench
        /\ UNCHANGED harbor /\ UNCHANGED tau3 /\ UNCHANGED model
    BY <1>9 DEF Langfuses, templar, Templar!templar
  <2> QED BY <1>0, <1>1, <1>2, <2>1, <2>2, Zenon DEF TInv, TypeOK
<1>10. CASE UNCHANGED vars
  <2>1. /\ UNCHANGED common /\ turn' = turn
        /\ UNCHANGED Templar!templar /\ UNCHANGED <<turn, session>> /\ UNCHANGED swebench
        /\ UNCHANGED harbor /\ UNCHANGED tau3 /\ UNCHANGED model /\ UNCHANGED langfuse
    BY <1>10 DEF vars, templar, Templar!templar
  <2>2. Templar!TrialTypeOK'
    BY <1>0, <2>1, Zenon DEF common, Templar!TrialTypeOK
  <2>3. TypeOK'
    BY <1>0, <1>1, <1>2, <2>1, <2>2, Zenon DEF TypeOK, common
  <2>4. adapter = "harbor" => ChainHolds' /\ PlaceHolds' /\ ImportHolds'
    <3>1. ASSUME ChainHolds, PlaceHolds, ImportHolds
          PROVE  ChainHolds' /\ PlaceHolds' /\ ImportHolds'
      BY <2>1, <3>1 DEF common, harbor, ChainHolds, PlaceHolds, ImportHolds, Covered,
         Harbor!Covered, Harbor!Supplements, Harbor!Segment, Harbor!Steps, Harbor!StepAt,
         Reached, Base, Tells, Ascending, Public, Generated
    <3> QED BY <3>1 DEF TInv
  <2>5. adapter = "tau3" => Tau3Holds'
    BY <2>1 DEF TInv, Tau3Holds, common, tau3, Tells, Ascending, Texts, Made
  <2>6. adapter = "model" => ModelHolds'
    BY <2>1 DEF TInv, ModelHolds, common, model
  <2> QED BY <2>1, <2>3, <2>4, <2>5, <2>6 DEF TInv, common
<1> QED BY <1>3, <1>4, <1>5, <1>6, <1>7, <1>8, <1>9, <1>10 DEF Next, Stopped

(* The inductive invariant.                                                *)
THEOREM RecordsHold == Spec => []TInv
<1> QED BY InitTInv, StepTInv, PTL DEF Spec

(* Every variable of every adapter has its type.                           *)
THEOREM TypeCorrect == Spec => []TypeOK
<1>1. TInv => TypeOK
  BY DEF TInv
<1> QED BY <1>1, RecordsHold, PTL

(* Whatever files a conversation is split into and wherever the chain      *)
(* breaks off, the trace tells a prefix of it once and in order, and all   *)
(* of it with the evidence; and a simulation's texts as they were sent.    *)
THEOREM DialoguesAreExact == Spec => []DialogueIsExact
<1>1. TInv => DialogueIsExact
  <2> SUFFICES ASSUME TInv PROVE DialogueIsExact
    OBVIOUS
  <2>1. ASSUME adapter = "harbor"
        PROVE  /\ \E n \in 0..Covered : Tells(Public(n))
               /\ outcome = "evidence" => Tells(Public(Covered))
    <3>1. Harbor!HarborTypeOK /\ ChainHolds /\ PlaceHolds /\ ImportHolds
      BY <2>1 DEF TInv, TypeOK
    <3>2. Reached \in 0..Covered /\ Tells(Public(Reached))
      BY <3>1, ReachedIs DEF ImportHolds
    <3>3. ASSUME outcome = "evidence" PROVE Reached = Covered
      <4>1. imported = Len(chain) /\ position = 0 /\ Len(chain) \in Nat
        BY <3>1, <3>3, ChainTypes DEF PlaceHolds
      <4>2. Reached = Base(Len(chain))
        BY <4>1 DEF Reached
      <4>3. Len(chain) # 0 => chain[Len(chain)].content # "invalid"
        BY <3>1, <3>3, <4>1 DEF ChainHolds
      <4> QED BY <3>1, <4>2, <4>3, CoveredIs DEF Base
    <3> QED BY <3>2, <3>3
  <2>2. ASSUME adapter = "tau3" PROVE Tells(Texts(messages))
    BY <2>2 DEF TInv, Tau3Holds
  <2> QED BY <2>1, <2>2 DEF DialogueIsExact, Texts
<1> QED BY <1>1, RecordsHold, PTL

(* Of the model calls of a conversation, whatever their ends, and of those *)
(* Harbor and tau3 report, each has one receipt and none has two.          *)
THEOREM ReceiptsAreComplete == Spec => []ReceiptsAreExact
<1>1. TInv => ReceiptsAreExact
  <2> SUFFICES ASSUME TInv PROVE ReceiptsAreExact
    OBVIOUS
  <2>1. ASSUME adapter = "harbor"
        PROVE  \E n \in 0..Covered :
                   Tells(Public(n)) /\ Cardinality(receipts) = Cardinality(Generated(n))
    <3>1. Harbor!HarborTypeOK /\ ChainHolds /\ PlaceHolds /\ ImportHolds
      BY <2>1 DEF TInv, TypeOK
    <3> QED BY <3>1, ReachedIs DEF ImportHolds
  <2>2. ASSUME adapter = "tau3" PROVE Cardinality(receipts) = Cardinality(Made(messages))
    BY <2>2 DEF TInv, Tau3Holds
  <2>3. ASSUME adapter = "model", Over
        PROVE  /\ Cardinality(receipts) = calls
               /\ statuses["completed"] + statuses["failed"] + statuses["cancelled"] = calls
    BY <2>3 DEF TInv, ModelHolds, Over
  <2> QED BY <2>1, <2>2, <2>3 DEF ReceiptsAreExact, Made
<1> QED BY <1>1, RecordsHold, PTL
=============================================================================
