------------------------------ MODULE Adapters ------------------------------
(***************************************************************************)
(* The harnesses that drive an external evaluation system, one trial of    *)
(* one of them: Templar runs, AgentENV sandboxes, SWE-bench containers,    *)
(* Harbor and tau3 jobs, the model calls of a conversation, and the export *)
(* of an attempt to Langfuse.  The trial may be cancelled, by its budget   *)
(* or with its campaign, at any wait.                                      *)
(***************************************************************************)
EXTENDS Naturals, Sequences, FiniteSets, Functions

CONSTANTS
    MaxCancels,  \* bound: cancellations delivered to one trial
    MaxEvents,   \* bound: events a Templar run emits
    MaxTurns,    \* the conversation's turn budget
    Sources,     \* the steps of the conversation a Harbor agent has
    MaxSegments, \* _MAX_TRAJECTORY_SEGMENTS
    MaxMessages, \* bound: messages of a tau3 simulation
    Facts,       \* events of an attempt that is exported
    Criteria,    \* its judgments
    MaxExports   \* bound: times it is exported

ASSUME AdaptersAssumption ==
    /\ {MaxCancels, MaxEvents, MaxTurns, MaxSegments, MaxMessages, Facts, MaxExports}
           \subseteq Nat \ {0}
    /\ Sources \in Seq({"system", "user", "agent"})

VARIABLES
    adapter, \* the harness this trial runs
    at, outcome, cancels, remote, asked, known, file, unwritten,
    cause, kept, dialogue, receipts,
    emitted, status, cursor,
    turn, response, answered, opened,
    listed, removal,
    native, chain, current, imported, position,
    checked, messages, generations,
    history, calls, statuses,
    exports, observed, queued, refused

common == <<adapter, at, outcome, cancels, remote, asked, known, file, unwritten,
            cause, kept, dialogue, receipts>>
templar == <<emitted, status, cursor>>
session == <<response, answered, opened>>
swebench == <<listed, removal>>
harbor == <<native, chain, current, imported, position>>
tau3 == <<checked, messages, generations>>
model == <<history, calls, statuses>>
langfuse == <<exports, observed, queued, refused>>
vars == <<common, turn, templar, session, swebench, harbor, tau3, model, langfuse>>

Templar == INSTANCE TemplarRun
AgentEnv == INSTANCE AgentEnvSession
SweBench == INSTANCE SweBenchRun
Harbor == INSTANCE HarborRun
Tau3 == INSTANCE Tau3Run
Model == INSTANCE ModelCalls
Langfuse == INSTANCE LangfuseExport

Over == at = "over"

Harnesses ==
    {"templar", "agentenv", "swebench", "harbor", "tau3", "model", "langfuse"}

TypeOK ==
    /\ adapter \in Harnesses
    /\ Templar!TrialTypeOK /\ Templar!TemplarTypeOK
    /\ AgentEnv!AgentEnvTypeOK
    /\ SweBench!SweBenchTypeOK
    /\ Harbor!HarborTypeOK
    /\ Tau3!Tau3TypeOK
    /\ Model!ModelCallsTypeOK
    /\ Langfuse!LangfuseTypeOK

Init ==
    /\ adapter \in Harnesses
    /\ Templar!TrialInit /\ Templar!TemplarInit
    /\ AgentEnv!AgentEnvInit
    /\ SweBench!SweBenchInit
    /\ Harbor!HarborInit
    /\ Tau3!Tau3Init
    /\ Model!ModelCallsInit
    /\ Langfuse!LangfuseInit

(* What the others of these variables are when this adapter runs.          *)
Templars ==
    adapter = "templar" /\ UNCHANGED <<adapter, turn, session, swebench, harbor, tau3, model, langfuse>>
AgentEnvs ==
    adapter = "agentenv" /\ UNCHANGED <<adapter, templar, swebench, harbor, tau3, model, langfuse>>
SweBenches ==
    adapter = "swebench" /\ UNCHANGED <<adapter, turn, templar, session, harbor, tau3, model, langfuse>>
Harbors ==
    adapter = "harbor" /\ UNCHANGED <<adapter, turn, templar, session, swebench, tau3, model, langfuse>>
Tau3s ==
    adapter = "tau3" /\ UNCHANGED <<adapter, turn, templar, session, swebench, harbor, model, langfuse>>
Models ==
    adapter = "model" /\ UNCHANGED <<adapter, templar, session, swebench, harbor, tau3, langfuse>>
Langfuses ==
    adapter = "langfuse" /\ UNCHANGED <<adapter, turn, templar, session, swebench, harbor, tau3, model>>

Stopped == Over /\ UNCHANGED vars

Next ==
    \/ Templars /\ Templar!TemplarNext
    \/ AgentEnvs /\ AgentEnv!AgentEnvNext
    \/ SweBenches /\ SweBench!SweBenchNext
    \/ Harbors /\ Harbor!HarborNext
    \/ Tau3s /\ Tau3!Tau3Next
    \/ Models /\ Model!ModelCallsNext
    \/ Langfuses /\ Langfuse!LangfuseNext
    \/ Stopped

Spec == Init /\ [][Next]_vars

(* The event loop runs what is ready, every wait of an adapter has an      *)
(* answer or a timeout, and the budget of a trial that goes on is used up. *)
FairSpec ==
    /\ Spec
    /\ WF_vars(Templars /\ Templar!TemplarSteps)
    /\ WF_vars(Templars /\ Templar!TemplarInterrupted)
    /\ WF_vars(AgentEnvs /\ AgentEnv!AgentEnvSteps)
    /\ WF_vars(SweBenches /\ SweBench!SweBenchSteps)
    /\ WF_vars(Harbors /\ Harbor!HarborSteps)
    /\ WF_vars(Tau3s /\ Tau3!Tau3Steps)
    /\ WF_vars(Models /\ Model!ModelCallsSteps)
    /\ WF_vars(Langfuses /\ Langfuse!LangfuseSteps)

-----------------------------------------------------------------------------
(* Properties.                                                             *)

(* What is left for an operator says that the release is unconfirmed, or   *)
(* the disk has refused to say so; SWE-bench has a file of its own for it. *)
Reported ==
    \/ file = "unconfirmed"
    \/ adapter # "swebench" /\ file # "released" /\ unwritten
    \/ adapter = "swebench" /\ removal = "failed"
    \/ adapter = "swebench" /\ removal # "completed" /\ unwritten

(* No trial ends with its resource alive and nobody told: whatever fails   *)
(* or is cancelled, in whatever order, the adapter has tried to release it *)
(* and has reported this unconfirmed, unless it never had its id, a        *)
(* container came into being after Docker was asked for it, or AgentENV's  *)
(* open failed with the sandbox's id in hand: no session closes that one,  *)
(* and its state file says no more than that it was created.               *)
NothingIsAbandoned ==
    Over /\ remote = "live" =>
        \/ ~known
        \/ Reported
        \/ adapter = "swebench" /\ ~listed
        \/ adapter = "agentenv" /\ ~opened /\ file = "located"

(* A trial that was cancelled does not end as if it had not been.  Two     *)
(* adapters swallow what arrives during their cleanup: Templar then raises *)
(* the failure it cleans up after, SWE-bench may even return evidence.     *)
CancellationIsKept ==
    Over /\ cancels > 0 /\ outcome # "cancelled" =>
        \/ adapter = "templar" /\ outcome = "failed"
        \/ adapter = "swebench"

(* An answer is about what was asked.  A Templar result is taken only when *)
(* every event of the run is in the attempt's event file, though events    *)
(* and view are two requests and the run goes on between them; and what    *)
(* send returns is the sandbox's response to this very turn.               *)
AnswersAreCurrent ==
    /\ adapter = "templar" /\ outcome = "evidence" =>
           status = "accepted" /\ cursor = emitted
    /\ adapter = "agentenv" /\ at = "ready" => answered = turn

Ascending(sequence) ==
    \A i \in 1..Len(sequence) : \A j \in 1..Len(sequence) : i < j => sequence[i] < sequence[j]

(* The dialogue is the sequence of these numbers, each once and in order.  *)
Tells(numbers) == Ascending(dialogue) /\ Range(dialogue) = numbers

Public(n) == {step \in 1..n : Sources[step] # "system"}

Generated(n) == {step \in 1..n : Sources[step] = "agent"}

Covered == Harbor!Covered

(* However a Harbor conversation is split into files that replay each      *)
(* other, and wherever the chain of files breaks off, the trace holds a    *)
(* prefix of the conversation, every step once and in order, and all of it *)
(* with the evidence.  The same of a tau3 simulation.                      *)
DialogueIsExact ==
    /\ adapter = "harbor" =>
           /\ \E n \in 0..Covered : Tells(Public(n))
           /\ outcome = "evidence" => Tells(Public(Covered))
    /\ adapter = "tau3" =>
           Tells({k \in 1..Len(messages) : messages[k].role # "tool" /\ messages[k].text})

(* Every model call has one receipt, and no two calls share an operation:  *)
(* those a conversation makes, completed, failed or cancelled, and those   *)
(* Harbor and tau3 report.                                                 *)
ReceiptsAreExact ==
    /\ adapter = "harbor" =>
           \E n \in 0..Covered :
               Tells(Public(n)) /\ Cardinality(receipts) = Cardinality(Generated(n))
    /\ adapter = "tau3" =>
           Cardinality(receipts) =
               Cardinality({k \in 1..Len(messages) : messages[k].role # "tool" /\ messages[k].generated})
    /\ adapter = "model" /\ Over =>
           /\ Cardinality(receipts) = calls
           /\ statuses["completed"] + statuses["failed"] + statuses["cancelled"] = calls

(* A Langfuse export that counts as a success has left every fact of the   *)
(* attempt and every score at the collector, though the SDK hides failed   *)
(* deliveries; and however often parts of it were sent before, each is     *)
(* there once.                                                             *)
DeliveryIsWhole ==
    LET items == {<<"observation", fact>> : fact \in 0..Facts} \union Langfuse!Scores
    IN  adapter = "langfuse" =>
            /\ \A item \in receipts : item \in items
            /\ Over /\ outcome = "evidence" => items \subseteq receipts

(* Every trial ends: polling with the trial's budget, every cleanup with   *)
(* its own timeout, also if it is cancelled again.                         *)
TrialEnds == <>Over

(* Not true of this code: a transcript that parses and that the facts of a *)
(* trace refuse takes the place of the failure Harbor itself recorded.     *)
NativeErrorIsPrimary ==
    adapter = "harbor" /\ Over /\ native = "exception" => cause = "exception" /\ kept
=============================================================================
