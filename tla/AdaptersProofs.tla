--------------------------- MODULE AdaptersProofs ---------------------------
(***************************************************************************)
(* What the adapters promise about resources, cancellation, answers and    *)
(* deliveries, for any number of cancellations, events, turns, facts and   *)
(* criteria.  One invariant per adapter, preserved by its own steps; the   *)
(* steps of another adapter do not take place in the same trial.           *)
(***************************************************************************)
EXTENDS Adapters, TLAPS

(* Whoever does not know the resource has not been cancelled and goes on;  *)
(* what is known was created; an accepted run emits nothing more.          *)
TemplarHolds ==
    /\ at \in {"start", "submit", "events", "view", "result", "cancel", "over"}
    /\ cursor \in Nat /\ emitted \in Nat /\ cursor <= emitted
    /\ at \in {"start", "submit"} => ~known /\ cancels = 0
    /\ at = "start" => remote = "none" /\ ~asked
    /\ at \in {"events", "view", "result", "cancel"} => known
    /\ known => ~asked
    /\ remote # "none" => ~asked
    /\ status # "running" => remote = "gone"
    /\ at # "over" => file # "released" /\ outcome # "evidence"
    /\ at = "cancel" => outcome \in {"failed", "cancelled"}
    /\ at = "result" \/ outcome = "evidence" => status = "accepted" /\ cursor = emitted
    /\ cancels > 0 => at \in {"cancel", "over"} /\ outcome \in {"failed", "cancelled"}
    /\ at = "over" /\ remote = "live" /\ known =>
           file = "unconfirmed" \/ (file # "released" /\ unwritten)

(* A session exists once its sandbox is known, and then nothing else is on *)
(* its way; between two turns the last answer is the last turn's.          *)
AgentEnvHolds ==
    /\ at \in {"start", "open", "ready", "command", "read", "kill", "over"}
    /\ at \in {"start", "open"} => ~known /\ ~opened /\ cancels = 0 /\ turn = 0 /\ answered = 0
    /\ at \in {"ready", "command", "read", "kill"} => known /\ opened
    /\ known => ~asked
    /\ at # "over" => file # "released"
    /\ at = "ready" => answered = turn
    /\ cancels > 0 => at \in {"kill", "over"}
    /\ at = "over" /\ cancels > 0 => outcome = "cancelled"
    /\ at = "over" /\ remote = "live" /\ known =>
           \/ file = "unconfirmed" \/ (file # "released" /\ unwritten)
           \/ ~opened /\ file = "located"

(* There is one container at most, and docker ps names it only if it is    *)
(* there: once removed it does not come back.                              *)
SweBenchHolds ==
    /\ at \in {"start", "solve", "verify", "list", "remove", "over"}
    /\ at \in {"start", "solve"} => remote = "none" /\ ~asked
    /\ remote # "none" => ~asked
    /\ listed => at \in {"remove", "over"}
    /\ listed \/ at = "remove" => remote # "none"
    /\ at # "over" => removal = "none"
    /\ at = "over" /\ remote = "live" /\ listed =>
           removal = "failed" \/ (removal # "completed" /\ unwritten)

(* A child process is all these adapters have: it dies with the trial.     *)
LocalHolds ==
    /\ remote = "none" /\ ~asked
    /\ cancels > 0 => Over /\ outcome = "cancelled"

Items == Langfuse!Observations \union Langfuse!Scores

(* While no delivery has failed, all that was replayed is with the SDK or  *)
(* with the collector.                                                     *)
LangfuseHolds ==
    /\ at \in {"start", "work", "flush", "over"}
    /\ observed \in 0..Facts
    /\ queued \subseteq Items /\ receipts \subseteq Items
    /\ at \in {"start", "over"} => queued = {}
    /\ at \in {"start", "work"} => outcome = "none"
    /\ at = "work" /\ refused = {} =>
           \A fact \in 1..observed : Langfuse!Identity(fact) \in queued \union receipts
    /\ at = "flush" /\ outcome = "none" /\ refused = {} => Items \subseteq queued \union receipts
    /\ outcome = "evidence" => Over /\ Items \subseteq receipts

IInv ==
    /\ adapter \in Harnesses
    /\ cancels \in Nat
    /\ adapter = "templar" => TemplarHolds
    /\ adapter = "agentenv" => AgentEnvHolds
    /\ adapter = "swebench" => SweBenchHolds
    /\ adapter \in {"harbor", "tau3", "model", "langfuse"} => LocalHolds
    /\ adapter = "langfuse" => LangfuseHolds

LEMMA InitIInv == Init => IInv
<1> SUFFICES ASSUME Init PROVE IInv
  OBVIOUS
<1> USE AdaptersAssumption
<1>1. /\ at = "start" /\ outcome = "none" /\ cancels = 0 /\ remote = "none"
      /\ asked = FALSE /\ known = FALSE /\ file = "none" /\ unwritten = FALSE
      /\ receipts = {}
  BY DEF Init, Templar!TrialInit
<1>2. emitted = 0 /\ status = "running" /\ cursor = 0
  BY DEF Init, Templar!TemplarInit
<1>3. turn = 0 /\ answered = 0 /\ ~opened
  BY DEF Init, AgentEnv!AgentEnvInit
<1>4. listed = FALSE /\ removal = "none"
  BY DEF Init, SweBench!SweBenchInit
<1>5. observed = 0 /\ queued = {} /\ refused = {}
  BY DEF Init, Langfuse!LangfuseInit
<1>6. TemplarHolds
  BY <1>1, <1>2 DEF TemplarHolds
<1>7. AgentEnvHolds
  BY <1>1, <1>3 DEF AgentEnvHolds
<1>8. SweBenchHolds
  BY <1>1, <1>4 DEF SweBenchHolds
<1>9. LocalHolds
  BY <1>1 DEF LocalHolds
<1>10. LangfuseHolds
  BY <1>1, <1>5 DEF LangfuseHolds
<1> QED BY <1>1, <1>6, <1>7, <1>8, <1>9, <1>10 DEF IInv, Init

-----------------------------------------------------------------------------
(* One step of each adapter.                                               *)
LEMMA TemplarStep ==
    ASSUME cancels \in Nat, TemplarHolds, Templar!TemplarNext
    PROVE  cancels' \in Nat /\ TemplarHolds'
<1> USE DEF TemplarHolds, Templar!Goes, Templar!Waits, Templar!Writes, Templar!Records,
            Templar!Interrupts, Templar!resource, Templar!statefile, Templar!control,
            Templar!imports, Templar!templar
<1>1. CASE Templar!Stage
  BY <1>1 DEF Templar!Stage
<1>2. CASE Templar!Submitted
  BY <1>2 DEF Templar!Submitted
<1>3. CASE Templar!SubmissionFails
  <2>1. ~known' /\ cancels' = 0 /\ at' = "over" /\ outcome' = "failed"
    BY <1>3 DEF Templar!SubmissionFails
  <2>2. ~asked' \/ asked' = asked
    BY <1>3, Zenon DEF Templar!SubmissionFails
  <2> QED BY <1>3, <2>1, <2>2 DEF Templar!SubmissionFails
<1>4. CASE Templar!ReadEvents
  BY <1>4 DEF Templar!ReadEvents
<1>5. CASE Templar!ReadView
  BY <1>5 DEF Templar!ReadView, Templar!Drained
<1>6. CASE Templar!ReadResult
  BY <1>6 DEF Templar!ReadResult
<1>7. CASE Templar!RequestFails
  BY <1>7 DEF Templar!RequestFails
<1>8. CASE Templar!Cancelled
  <2>1. file' = "unconfirmed" \/ (unwritten' /\ file' = file) \/ remote' = "gone"
    BY <1>8, Zenon DEF Templar!Cancelled
  <2>2. /\ at = "cancel" /\ at' = "over" /\ remote' \in {remote, "gone"}
        /\ UNCHANGED <<outcome, cancels, asked, known, emitted, status, cursor>>
    BY <1>8 DEF Templar!Cancelled
  <2> QED BY <2>1, <2>2
<1>9. CASE Templar!TemplarInterrupted
  BY <1>9 DEF Templar!TemplarInterrupted
<1>10. CASE Templar!Created /\ UNCHANGED Templar!templar
  BY <1>10 DEF Templar!Created
<1>11. CASE Templar!RunWorks
  BY <1>11 DEF Templar!RunWorks
<1> QED BY <1>1, <1>2, <1>3, <1>4, <1>5, <1>6, <1>7, <1>8, <1>9, <1>10, <1>11
        DEF Templar!TemplarNext, Templar!TemplarSteps

LEMMA AgentEnvStep ==
    ASSUME cancels \in Nat, AgentEnvHolds, AgentEnv!AgentEnvNext
    PROVE  cancels' \in Nat /\ AgentEnvHolds'
<1> USE DEF AgentEnvHolds, AgentEnv!Goes, AgentEnv!Waits, AgentEnv!Writes, AgentEnv!Records,
            AgentEnv!Interrupts, AgentEnv!resource, AgentEnv!statefile, AgentEnv!control,
            AgentEnv!imports, AgentEnv!agentenv
<1>1. CASE AgentEnv!Open
  BY <1>1 DEF AgentEnv!Open
<1>2. CASE AgentEnv!Opened
  <2>1. /\ at = "open" /\ ~asked /\ ~asked' /\ known'
        /\ UNCHANGED <<cancels, turn, answered>>
        /\ at' = "ready" \/ at' = "over"
    BY <1>2, Zenon DEF AgentEnv!Opened
  <2>2. at' = "ready" => opened' /\ file' = "located"
    BY <1>2 DEF AgentEnv!Opened
  <2>3. at' = "over" => file' = "located" \/ (unwritten' /\ file' = file)
    BY <1>2, Zenon DEF AgentEnv!Opened
  <2>4. at' = "over" => opened' = opened
    BY <1>2 DEF AgentEnv!Opened
  <2> QED BY <2>1, <2>2, <2>3, <2>4
<1>3. CASE AgentEnv!OpenFails
  BY <1>3 DEF AgentEnv!OpenFails
<1>4. CASE AgentEnv!Send
  BY <1>4 DEF AgentEnv!Send
<1>5. CASE AgentEnv!Command
  BY <1>5 DEF AgentEnv!Command
<1>6. CASE AgentEnv!Read
  BY <1>6 DEF AgentEnv!Read
<1>7. CASE AgentEnv!Finish
  BY <1>7 DEF AgentEnv!Finish
<1>8. CASE AgentEnv!SandboxFails
  BY <1>8 DEF AgentEnv!SandboxFails
<1>9. CASE AgentEnv!Close
  BY <1>9 DEF AgentEnv!Close, AgentEnv!CleanupResult
<1>10. CASE AgentEnv!AgentEnvInterrupted
  BY <1>10 DEF AgentEnv!AgentEnvInterrupted
<1>11. CASE (AgentEnv!Created \/ AgentEnv!Vanishes) /\ UNCHANGED AgentEnv!agentenv
  BY <1>11 DEF AgentEnv!Created, AgentEnv!Vanishes
<1> QED BY <1>1, <1>2, <1>3, <1>4, <1>5, <1>6, <1>7, <1>8, <1>9, <1>10, <1>11
        DEF AgentEnv!AgentEnvNext, AgentEnv!AgentEnvSteps
LEMMA SweBenchStep ==
    ASSUME cancels \in Nat, SweBenchHolds, SweBench!SweBenchNext
    PROVE  cancels' \in Nat /\ SweBenchHolds'
<1> USE DEF SweBenchHolds, SweBench!Goes, SweBench!Waits, SweBench!Writes, SweBench!Records,
            SweBench!Interrupts, SweBench!resource, SweBench!statefile, SweBench!control,
            SweBench!imports, SweBench!Concludes,
            SweBench!Says, SweBench!swebench
<1>1. CASE SweBench!Begin
  BY <1>1 DEF SweBench!Begin
<1>2. CASE SweBench!Solved
  BY <1>2 DEF SweBench!Solved, SweBench!CommandFails, SweBench!Grades
<1>3. CASE SweBench!Verified
  <2>1. ~asked' \/ asked' = asked
    BY <1>3, Zenon DEF SweBench!Verified
  <2>2. /\ at = "verify" /\ at' \in {"over", "list"}
        /\ UNCHANGED <<remote, listed, removal, cancels>>
        /\ at' = "over" => remote # "live"
    BY <1>3 DEF SweBench!Verified
  <2> QED BY <2>1, <2>2
<1>4. CASE SweBench!List
  BY <1>4 DEF SweBench!List
<1>5. CASE SweBench!Remove
  <2>1. /\ at = "remove" /\ at' = "over" /\ remote' = "gone"
        /\ UNCHANGED <<asked, listed, cancels>>
    BY <1>5 DEF SweBench!Remove
  <2> QED BY <2>1
<1>6. CASE SweBench!CleanupFails
  <2>1. removal' = "failed" \/ (unwritten' /\ removal' = removal)
    BY <1>6, Zenon DEF SweBench!CleanupFails
  <2>2. /\ at \in {"list", "remove"} /\ at' = "over"
        /\ remote' \in {remote, "gone"} /\ (at = "list" => remote' = remote)
        /\ UNCHANGED <<asked, listed, cancels>>
    BY <1>6 DEF SweBench!CleanupFails
  <2> QED BY <2>1, <2>2
<1>7. CASE SweBench!SweBenchInterrupted
  BY <1>7 DEF SweBench!SweBenchInterrupted
<1>8. CASE (SweBench!Created \/ SweBench!Vanishes) /\ UNCHANGED SweBench!swebench
  BY <1>8 DEF SweBench!Created, SweBench!Vanishes
<1> QED BY <1>1, <1>2, <1>3, <1>4, <1>5, <1>6, <1>7, <1>8
        DEF SweBench!SweBenchNext, SweBench!SweBenchSteps

LEMMA HarborStep ==
    ASSUME cancels \in Nat, LocalHolds, Harbor!HarborNext
    PROVE  cancels' \in Nat /\ LocalHolds'
<1> USE DEF LocalHolds, Over, Harbor!Goes, Harbor!Waits, Harbor!Fails, Harbor!Interrupts,
            Harbor!resource, Harbor!statefile
<1>1. CASE Harbor!Start
  BY <1>1 DEF Harbor!Start
<1>2. CASE Harbor!JobFails
  BY <1>2 DEF Harbor!JobFails
<1>3. CASE Harbor!ReadNative
  BY <1>3 DEF Harbor!ReadNative, Harbor!FindTrajectory
<1>4. CASE Harbor!Unreadable
  BY <1>4 DEF Harbor!Unreadable, Harbor!ChainFails
<1>5. CASE Harbor!ReadSegment
  BY <1>5 DEF Harbor!ReadSegment, Harbor!ChainFails
<1>6. CASE Harbor!ImportStep
  BY <1>6 DEF Harbor!ImportStep, Harbor!Importing
<1>7. CASE Harbor!NextSegment
  BY <1>7 DEF Harbor!NextSegment, Harbor!Importing, Harbor!control
<1>8. CASE Harbor!ImportFails
  BY <1>8 DEF Harbor!ImportFails, Harbor!Importing
<1>9. CASE Harbor!Imported
  BY <1>9 DEF Harbor!Imported
<1>10. CASE Harbor!HarborInterrupted
  BY <1>10 DEF Harbor!HarborInterrupted
<1> QED BY <1>1, <1>2, <1>3, <1>4, <1>5, <1>6, <1>7, <1>8, <1>9, <1>10
        DEF Harbor!HarborNext, Harbor!HarborSteps

LEMMA Tau3Step ==
    ASSUME cancels \in Nat, LocalHolds, Tau3!Tau3Next
    PROVE  cancels' \in Nat /\ LocalHolds'
<1> USE DEF LocalHolds, Over, Tau3!Goes, Tau3!Waits, Tau3!Fails, Tau3!Interrupts,
            Tau3!resource, Tau3!statefile
<1>1. CASE Tau3!Start
  BY <1>1 DEF Tau3!Start
<1>2. CASE Tau3!JobEnds
  BY <1>2 DEF Tau3!JobEnds
<1>3. CASE Tau3!Check
  BY <1>3 DEF Tau3!Check
<1>4. CASE Tau3!ImportMessage
  BY <1>4 DEF Tau3!ImportMessage
<1>5. CASE Tau3!Imported
  BY <1>5 DEF Tau3!Imported
<1>6. CASE Tau3!Tau3Interrupted
  BY <1>6 DEF Tau3!Tau3Interrupted
<1> QED BY <1>1, <1>2, <1>3, <1>4, <1>5, <1>6 DEF Tau3!Tau3Next, Tau3!Tau3Steps

LEMMA ModelStep ==
    ASSUME cancels \in Nat, LocalHolds, Model!ModelCallsNext
    PROVE  cancels' \in Nat /\ LocalHolds'
<1> USE DEF LocalHolds, Over, Model!Calls, Model!Concludes, Model!resource, Model!statefile
<1>1. CASE Model!Begin
  BY <1>1 DEF Model!Begin
<1>2. CASE Model!Decided
  BY <1>2 DEF Model!Decided
<1>3. CASE Model!Replied
  BY <1>3 DEF Model!Replied
<1>4. CASE Model!Judged
  BY <1>4 DEF Model!Judged
<1>5. CASE Model!CallFails
  BY <1>5 DEF Model!CallFails
<1>6. CASE Model!ModelCallsInterrupted
  BY <1>6 DEF Model!ModelCallsInterrupted
<1> QED BY <1>1, <1>2, <1>3, <1>4, <1>5, <1>6
        DEF Model!ModelCallsNext, Model!ModelCallsSteps
(* Of a step of Langfuse: the trial's part first, then the deliveries.     *)
LEMMA LangfuseLocal ==
    ASSUME cancels \in Nat, LocalHolds, Langfuse!LangfuseNext
    PROVE  cancels' \in Nat /\ LocalHolds'
<1> USE DEF LocalHolds, Over, Langfuse!Goes, Langfuse!Waits, Langfuse!resource,
            Langfuse!statefile, Langfuse!control
<1>1. CASE Langfuse!Start
  BY <1>1 DEF Langfuse!Start
<1>2. CASE Langfuse!Observe
  BY <1>2 DEF Langfuse!Observe
<1>3. CASE Langfuse!Score
  BY <1>3 DEF Langfuse!Score
<1>4. CASE Langfuse!WorkerBreaks
  BY <1>4 DEF Langfuse!WorkerBreaks
<1>5. CASE Langfuse!Deliver
  <2>1. UNCHANGED <<at, outcome, cancels, remote, asked>>
    BY <1>5, Zenon DEF Langfuse!Deliver, Langfuse!Sends
  <2> QED BY <2>1
<1>6. CASE Langfuse!WorkerEnds
  BY <1>6 DEF Langfuse!WorkerEnds
<1>7. CASE Langfuse!LangfuseInterrupted
  BY <1>7 DEF Langfuse!LangfuseInterrupted
<1>8. CASE Langfuse!Again
  BY <1>8 DEF Langfuse!Again
<1> QED BY <1>1, <1>2, <1>3, <1>4, <1>5, <1>6, <1>7, <1>8
        DEF Langfuse!LangfuseNext, Langfuse!LangfuseSteps

LEMMA LangfuseStep ==
    ASSUME LangfuseHolds, Langfuse!LangfuseNext
    PROVE  LangfuseHolds'
<1> USE AdaptersAssumption DEF Over, Langfuse!Goes, Langfuse!Waits, Langfuse!imports
<1>1. CASE Langfuse!Start
  <2>1. at = "start" /\ observed' = 0 /\ UNCHANGED <<queued, receipts>>
    BY <1>1 DEF Langfuse!Start
  <2>2. \/ at' = "work" /\ outcome' = outcome
        \/ at' = "over" /\ outcome' = "failed"
    BY <1>1 DEF Langfuse!Start
  <2> QED BY <2>1, <2>2 DEF LangfuseHolds
<1>2. CASE Langfuse!Observe
  <2>1. /\ at = "work" /\ observed < Facts /\ observed' = observed + 1
        /\ queued' = queued \union {Langfuse!Identity(observed')}
        /\ UNCHANGED <<at, outcome, receipts, refused>>
    BY <1>2 DEF Langfuse!Observe, Langfuse!control
  <2>2. Langfuse!Identity(observed') \in Items
    BY <2>1 DEF LangfuseHolds, Items, Langfuse!Observations
  <2> QED BY <2>1, <2>2 DEF LangfuseHolds
<1>3. CASE Langfuse!Score
  <2>1. /\ at = "work" /\ at' = "flush" /\ observed = Facts
        /\ queued' = queued \union Langfuse!Scores \union {Langfuse!Identity(0)}
        /\ UNCHANGED <<outcome, receipts, observed, refused>>
    BY <1>3 DEF Langfuse!Score
  <2>2. Langfuse!Identity(0) \in Items
    BY DEF Items, Langfuse!Observations
  <2>3. refused = {} => Items \subseteq queued' \union receipts'
    BY <2>1 DEF LangfuseHolds, Items, Langfuse!Observations
  <2> QED BY <2>1, <2>2, <2>3 DEF LangfuseHolds, Items
<1>4. CASE Langfuse!WorkerBreaks
  <2>1. /\ at = "work" /\ at' = "flush" /\ outcome' = "failed"
        /\ queued' = queued \union {Langfuse!Identity(0)}
        /\ UNCHANGED <<receipts, observed>>
    BY <1>4 DEF Langfuse!WorkerBreaks
  <2>2. Langfuse!Identity(0) \in Items
    BY DEF Items, Langfuse!Observations
  <2> QED BY <2>1, <2>2 DEF LangfuseHolds
<1>5. CASE Langfuse!Deliver
  <2>1. PICK kind, items : Langfuse!Sends(kind, items)
    BY <1>5 DEF Langfuse!Deliver
  <2>2. PICK batch \in (SUBSET (queued \intersect items)) \ {{}} :
            /\ queued' = queued \ batch
            /\ \/ receipts' = receipts \union batch /\ UNCHANGED refused
               \/ \E stored \in SUBSET batch :
                     /\ receipts' = receipts \union stored
                     /\ refused' = refused \union {kind}
            /\ UNCHANGED <<at, outcome, observed>>
    BY <2>1 DEF Langfuse!Sends
  <2>3. UNCHANGED <<at, outcome, observed>> /\ queued' \subseteq queued
    BY <2>2
  <2>4. queued # {}
    <3>1. batch \subseteq queued /\ batch # {}
      BY <2>2
    <3> QED BY <3>1
  <2>5. receipts \subseteq receipts' /\ receipts' \subseteq Items
    BY <2>2 DEF LangfuseHolds
  <2>6. ASSUME refused' = {}
        PROVE  refused = {} /\ queued \union receipts \subseteq queued' \union receipts'
    <3>1. receipts' = receipts \union batch /\ UNCHANGED refused
      BY <2>2, <2>6
    <3> QED BY <2>2, <2>6, <3>1
  <2> QED BY <2>3, <2>4, <2>5, <2>6 DEF LangfuseHolds
<1>6. CASE Langfuse!WorkerEnds
  <2>1. /\ at = "flush" /\ at' = "over" /\ queued = {}
        /\ UNCHANGED <<queued, observed, refused, receipts>>
        /\ outcome' = "failed" \/ (outcome = "none" /\ refused = {})
    BY <1>6 DEF Langfuse!WorkerEnds, Langfuse!Delivered, Langfuse!langfuse
  <2> QED BY <2>1 DEF LangfuseHolds
<1>7. CASE Langfuse!LangfuseInterrupted
  <2>1. at' = "over" /\ outcome' = "cancelled" /\ queued' = {} /\ UNCHANGED observed
    BY <1>7 DEF Langfuse!LangfuseInterrupted
  <2>2. receipts' \subseteq receipts \union queued
    BY <1>7 DEF Langfuse!LangfuseInterrupted
  <2> QED BY <2>1, <2>2 DEF LangfuseHolds
<1>8. CASE Langfuse!Again
  BY <1>8 DEF Langfuse!Again, Langfuse!langfuse, LangfuseHolds
<1> QED BY <1>1, <1>2, <1>3, <1>4, <1>5, <1>6, <1>7, <1>8
        DEF Langfuse!LangfuseNext, Langfuse!LangfuseSteps

-----------------------------------------------------------------------------
(* A trial is of one adapter from its beginning to its end.                *)
LEMMA StepIInv == IInv /\ [Next]_vars => IInv'
<1> SUFFICES ASSUME IInv, [Next]_vars PROVE IInv'
  OBVIOUS
<1> USE DEF IInv, Harnesses
<1>1. CASE Templars /\ Templar!TemplarNext
  BY <1>1, TemplarStep DEF Templars
<1>2. CASE AgentEnvs /\ AgentEnv!AgentEnvNext
  BY <1>2, AgentEnvStep DEF AgentEnvs
<1>3. CASE SweBenches /\ SweBench!SweBenchNext
  BY <1>3, SweBenchStep DEF SweBenches
<1>4. CASE Harbors /\ Harbor!HarborNext
  BY <1>4, HarborStep DEF Harbors
<1>5. CASE Tau3s /\ Tau3!Tau3Next
  BY <1>5, Tau3Step DEF Tau3s
<1>6. CASE Models /\ Model!ModelCallsNext
  BY <1>6, ModelStep DEF Models
<1>7. CASE Langfuses /\ Langfuse!LangfuseNext
  BY <1>7, LangfuseStep, LangfuseLocal DEF Langfuses
<1>8. CASE UNCHANGED vars
  BY <1>8 DEF vars, common, templar, session, swebench, langfuse, TemplarHolds, AgentEnvHolds,
              SweBenchHolds, LocalHolds, LangfuseHolds, Over
<1> QED BY <1>1, <1>2, <1>3, <1>4, <1>5, <1>6, <1>7, <1>8 DEF Next, Stopped

(* The inductive invariant.                                                *)
THEOREM AdaptersHold == Spec => []IInv
<1> QED BY InitIInv, StepIInv, PTL DEF Spec

(* Whatever fails or is cancelled, and however often, a resource that      *)
(* outlives its trial is one the adapter could not know of, or one it has  *)
(* reported as far as the disk let it.                                     *)
THEOREM ResourcesAreReleased == Spec => []NothingIsAbandoned
<1>1. IInv => NothingIsAbandoned
  BY DEF IInv, NothingIsAbandoned, Reported, Harnesses, Over, TemplarHolds, AgentEnvHolds,
         SweBenchHolds, LocalHolds
<1> QED BY <1>1, AdaptersHold, PTL

(* A cancelled trial does not end as if it had not been, except in the     *)
(* cleanups of Templar and SWE-bench.                                      *)
THEOREM CancellationsAreKept == Spec => []CancellationIsKept
<1>1. IInv => CancellationIsKept
  BY DEF IInv, CancellationIsKept, Harnesses, Over, TemplarHolds, AgentEnvHolds, LocalHolds
<1> QED BY <1>1, AdaptersHold, PTL

(* A Templar result is taken with every event of its run, and a sandbox's  *)
(* answer is the answer to this turn.                                      *)
THEOREM NothingStaleIsTaken == Spec => []AnswersAreCurrent
<1>1. IInv => AnswersAreCurrent
  BY DEF IInv, AnswersAreCurrent, TemplarHolds, AgentEnvHolds
<1> QED BY <1>1, AdaptersHold, PTL

(* An export counts as a success only if every fact and score is at the    *)
(* collector, each once, for attempts of any length and any retries.       *)
THEOREM DeliveriesAreWhole == Spec => []DeliveryIsWhole
<1>1. IInv => DeliveryIsWhole
  BY DEF IInv, DeliveryIsWhole, Over, LangfuseHolds, Items, Langfuse!Observations,
         Langfuse!Identity
<1> QED BY <1>1, AdaptersHold, PTL
=============================================================================
