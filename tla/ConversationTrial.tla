------------------------- MODULE ConversationTrial -------------------------
(***************************************************************************)
(* One trial of a conversational variant from its first await to its       *)
(* receipt: `_run_trial` and `_execute_harness` (campaign.py),             *)
(* ConversationHarness.run and `_close_session` (harnesses/conversation.py)*)
(* and `evaluate` (evaluation.py).                                         *)
(*                                                                         *)
(* The trial is one asyncio task.  A cancellation of it, by the deadline   *)
(* of asyncio.timeout or by the campaign, is delivered as a CancelledError *)
(* at the await where the task is suspended.  Actors, targets and          *)
(* evaluators are external: they return, raise or hang at will, and let a  *)
(* CancelledError through.                                                 *)
(***************************************************************************)
EXTENDS Integers

CONSTANTS
    Turns,      \* case.budget.turns
    Evaluators, \* number of the variant's evaluators
    MaxCancels  \* bound: cancellations of the trial's task by the campaign

ASSUME TrialAssumption ==
    Turns \in Nat \ {0} /\ Evaluators \in Nat /\ MaxCancels \in Nat

VARIABLES
    pc,         \* the await the task is suspended at
    turn,       \* turns begun
    primary,    \* the exception in flight inside the harness
    carried,    \* the evidence its HarnessError carries
    finished,   \* finished_evidence was built
    cleanup,    \* the task that closes the session
    captured,   \* _close_session holds a cancellation to raise
    judged,     \* evaluators that returned
    terminal,   \* the receipt
    pending,    \* a CancelledError is due at the current await
    deadline,   \* the timer of asyncio.timeout
    cancels     \* cancellations requested by the campaign

harness == <<turn, primary, carried, finished>>
closing == <<cleanup, captured>>
clock == <<pending, deadline, cancels>>
vars == <<pc, harness, closing, judged, terminal, clock>>

Awaits == {"open", "actor", "send", "finish", "close", "evaluate"}
Evidence == {"none", "partial", "full"}
Phases == {"start", "actor", "execute", "verify", "cleanup", "evidence",
           "evaluate", "internal", "timeout"}

NoTerminal == [kind |-> "none", phase |-> "none", evidence |-> "none"]

TypeOK ==
    /\ pc \in Awaits \cup {"ended"}
    /\ turn \in 0..Turns
    /\ primary \in {"none", "cancelled", "broken", "actor", "execute", "verify"}
    /\ carried \in Evidence
    /\ finished \in BOOLEAN
    /\ cleanup \in {"none", "running", "ok", "failed"}
    /\ captured \in BOOLEAN
    /\ judged \in 0..Evaluators
    /\ terminal \in [kind : {"none", "completed", "failed", "interrupted"},
                     phase : Phases \cup {"none"}, evidence : Evidence]
    /\ pending \in BOOLEAN
    /\ deadline \in {"armed", "fired"}
    /\ cancels \in 0..MaxCancels

Init ==
    /\ pc = "open"
    /\ turn = 0
    /\ primary = "none"
    /\ carried = "none"
    /\ finished = FALSE
    /\ cleanup = "none"
    /\ captured = FALSE
    /\ judged = 0
    /\ terminal = NoTerminal
    /\ pending = FALSE
    /\ deadline = "armed"
    /\ cancels = 0

-----------------------------------------------------------------------------
(* Leaving the `async with asyncio.timeout` block of _run_trial.  Nothing  *)
(* is awaited from there to result.json, so the receipt is one step.       *)

Settle(kind, phase, evidence) ==
    /\ pc' = "ended"
    /\ terminal' = [kind |-> kind, phase |-> phase, evidence |-> evidence]

(* Mutant: a fired timer claims every cancellation.                        *)
TimedOutByFlag == deadline = "fired"

(* asyncio.timeout turns a CancelledError into TimeoutError only if its    *)
(* own cancellation is the only one the task was asked for.                *)
TimedOut == deadline = "fired" /\ cancels = 0

SettleCancelled(evidence) ==
    IF TimedOut THEN Settle("failed", "timeout", evidence)
                ELSE Settle("interrupted", "none", "none")

-----------------------------------------------------------------------------
(* The timer and the campaign.  The task is always suspended at an await   *)
(* here: everything between two awaits is one step.                        *)

Deadline ==
    /\ pc \in Awaits
    /\ deadline = "armed"
    /\ deadline' = "fired"
    /\ pending' = TRUE
    /\ UNCHANGED <<pc, harness, closing, judged, terminal, cancels>>

Cancel ==
    /\ pc \in Awaits
    /\ cancels < MaxCancels
    /\ cancels' = cancels + 1
    /\ pending' = TRUE
    /\ UNCHANGED <<pc, harness, closing, judged, terminal, deadline>>

(* The suspended call comes back and no cancellation is due.               *)
Resumes(await) == pc = await /\ ~pending

-----------------------------------------------------------------------------
(* ConversationHarness.run.                                                *)

(* Mutant: HarnessError is raised without its evidence.                    *)
NoEvidence == "none"

PartialEvidence == "partial"

(* The finally clause starts the cleanup task in the same step.            *)
StartClosing ==
    /\ pc' = "close"
    /\ cleanup' = "running"
    /\ UNCHANGED <<captured, judged, terminal, clock>>

Fail(phase) ==
    /\ primary' = phase
    /\ carried' = PartialEvidence
    /\ UNCHANGED <<turn, finished>>
    /\ StartClosing

OpenReturns ==
    /\ Resumes("open")
    /\ pc' = "actor"
    /\ turn' = 1
    /\ UNCHANGED <<primary, carried, finished, closing, judged, terminal, clock>>

(* There is no session yet, so nothing is closed.                          *)
OpenFails ==
    /\ Resumes("open")
    /\ Settle("failed", "start", "none")
    /\ UNCHANGED <<harness, closing, judged, clock>>

ActorAccepts ==
    /\ Resumes("actor")
    /\ pc' = "finish"
    /\ UNCHANGED <<harness, closing, judged, terminal, clock>>

ActorContinues ==
    /\ Resumes("actor")
    /\ pc' = "send"
    /\ UNCHANGED <<harness, closing, judged, terminal, clock>>

(* It raises, or returns Stop.                                             *)
ActorFails == Resumes("actor") /\ Fail("actor")

(* Mutant: one turn more than the budget.                                  *)
AnotherTurnOffByOne == turn <= Turns

AnotherTurn == turn < Turns

SendReturns ==
    /\ Resumes("send")
    /\ IF AnotherTurn THEN pc' = "actor" /\ turn' = turn + 1
                      ELSE pc' = "finish" /\ UNCHANGED turn
    /\ UNCHANGED <<primary, carried, finished, closing, judged, terminal, clock>>

(* It raises, or returns no message.                                       *)
SendFails == Resumes("send") /\ Fail("execute")

FinishReturns ==
    /\ Resumes("finish")
    /\ finished' = TRUE
    /\ UNCHANGED <<turn, primary, carried>>
    /\ StartClosing

FinishFails == Resumes("finish") /\ Fail("verify")

(* An exception that is no HarnessError: the events file takes no message, *)
(* or the completion names a check or an artifact twice and Evidence       *)
(* rejects it.  _execute_harness makes it an "execute" without evidence.   *)
HarnessBreaks ==
    /\ \E await \in {"actor", "send", "finish"} : Resumes(await)
    /\ primary' = "broken"
    /\ UNCHANGED <<turn, carried, finished>>
    /\ StartClosing

(* CancelledError passes every `except Exception`.                         *)
HarnessCancelled ==
    /\ pending
    /\ pending' = FALSE
    /\ \/ /\ pc = "open"
          /\ SettleCancelled("none")
          /\ UNCHANGED <<harness, closing, judged>>
       \/ /\ pc \in {"actor", "send", "finish"}
          /\ primary' = "cancelled"
          /\ pc' = "close"
          /\ cleanup' = "running"
          /\ UNCHANGED <<turn, carried, finished, captured, judged, terminal>>
    /\ UNCHANGED <<deadline, cancels>>

-----------------------------------------------------------------------------
(* _close_session: the close runs in a task of its own, shielded from the  *)
(* trial's cancellations and bounded by its own timeout.                   *)

CleanupEnds(outcome) ==
    /\ cleanup = "running"
    /\ cleanup' = outcome
    /\ UNCHANGED <<pc, harness, captured, judged, terminal, clock>>

CloseReturns == CleanupEnds("ok") \/ CleanupEnds("failed")

(* Mutant: session.close() is not bounded.                                 *)
CleanupUnbounded == FALSE /\ UNCHANGED vars

CleanupTimesOut == CleanupEnds("failed")

(* Mutant: the cancellation leaves the loop at once.                       *)
CloseCancelledUnshielded ==
    /\ pc = "close"
    /\ pending
    /\ pending' = FALSE
    /\ SettleCancelled("none")
    /\ UNCHANGED <<harness, closing, judged, deadline, cancels>>

(* The cancellation is kept for later, and the wait starts again.          *)
CloseCancelled ==
    /\ pc = "close"
    /\ pending
    /\ pending' = FALSE
    /\ captured' = TRUE
    /\ UNCHANGED <<pc, harness, cleanup, judged, terminal, deadline, cancels>>

Closed == Resumes("close") /\ cleanup \in {"ok", "failed"}

(* A captured cancellation replaces whatever the harness was raising or    *)
(* returning, the evidence with it.                                        *)
CloseRaisesCancellation ==
    /\ Closed
    /\ captured \/ primary = "cancelled"
    /\ SettleCancelled("none")
    /\ UNCHANGED <<harness, closing, judged, clock>>

(* Otherwise the first error wins; a cleanup failure is an error only if   *)
(* there was none.                                                         *)
CloseRaisesError ==
    /\ Closed
    /\ ~captured
    /\ \/ /\ primary \in {"actor", "execute", "verify"}
          /\ Settle("failed", primary, carried)
       \/ /\ primary = "broken"
          /\ Settle("failed", "execute", "none")
       \/ /\ primary = "none"
          /\ cleanup = "failed"
          /\ Settle("failed", "cleanup", "full")
    /\ UNCHANGED <<harness, closing, judged, clock>>

(* Mutant: a cancellation caught during the cleanup is dropped.            *)
CleanReturnUncancelled == Closed /\ primary = "none" /\ cleanup = "ok"

(* Mutant: a failed cleanup is ignored.                                    *)
CleanReturnUnclosed == Closed /\ ~captured /\ primary = "none"

CleanReturn == Closed /\ ~captured /\ primary = "none" /\ cleanup = "ok"

-----------------------------------------------------------------------------
(* The rest of _run_trial: check facts, artifacts, evaluators.             *)

(* Every evaluator returned: each criterion has exactly one judgment, or   *)
(* EvaluationError; Completed itself refuses a trial with neither a check  *)
(* nor a judgment.                                                         *)
Judge ==
    \/ Settle("completed", "none", "full")
    \/ Settle("failed", "evaluate", "full")
    \/ Settle("failed", "internal", "full")

(* LocalTrace.record: the events file does not take the evidence fact.     *)
EvidenceUnrecorded == Settle("failed", "internal", "full")

(* _validate_artifacts: too many, too large, or not a regular file inside  *)
(* the attempt's directory.                                                *)
ArtifactsRefused == Settle("failed", "evidence", "full")

(* _require_native_checks, before any evaluator runs.                      *)
ChecksMissing == Settle("failed", "evaluate", "full")

(* The evidence arrives.                                                   *)
HarnessReturns ==
    /\ CleanReturn
    /\ \/ EvidenceUnrecorded \/ ArtifactsRefused \/ ChecksMissing
       \/ Evaluators = 0 /\ Judge
       \/ Evaluators > 0 /\ pc' = "evaluate" /\ UNCHANGED terminal
    /\ UNCHANGED <<harness, closing, judged, clock>>

EvaluatorReturns ==
    /\ Resumes("evaluate")
    /\ judged' = judged + 1
    /\ \/ judged' = Evaluators /\ Judge
       \/ judged' < Evaluators /\ UNCHANGED <<pc, terminal>>
    /\ UNCHANGED <<harness, closing, clock>>

EvaluatorFails ==
    /\ Resumes("evaluate")
    /\ Settle("failed", "evaluate", "full")
    /\ UNCHANGED <<harness, closing, judged, clock>>

EvaluationCancelled ==
    /\ pc = "evaluate"
    /\ pending
    /\ pending' = FALSE
    /\ SettleCancelled("full")
    /\ UNCHANGED <<harness, closing, judged, deadline, cancels>>

-----------------------------------------------------------------------------
(* What the event loop does of itself, and what external code may do.      *)

Loop ==
    \/ HarnessCancelled \/ CloseCancelled \/ EvaluationCancelled
    \/ CloseRaisesCancellation \/ CloseRaisesError \/ HarnessReturns

External ==
    \/ OpenReturns \/ OpenFails
    \/ ActorAccepts \/ ActorContinues \/ ActorFails
    \/ SendReturns \/ SendFails
    \/ FinishReturns \/ FinishFails \/ HarnessBreaks
    \/ CloseReturns
    \/ EvaluatorReturns \/ EvaluatorFails

Stopped == pc = "ended" /\ UNCHANGED vars

Next == Loop \/ External \/ Deadline \/ CleanupTimesOut \/ Cancel \/ Stopped

Spec == Init /\ [][Next]_vars

(* Timers fire and the loop runs what is ready.  Nothing is assumed of     *)
(* actors, targets and evaluators: each may hang for ever.                 *)
FairSpec == Spec /\ WF_vars(Loop) /\ WF_vars(Deadline) /\ WF_vars(CleanupTimesOut)

-----------------------------------------------------------------------------
(* Properties.                                                             *)

(* A session that was opened is closed before the trial gives up its       *)
(* capacity and before anything judges its outcome, whatever the deadline  *)
(* and the campaign do meanwhile: _close_session is never left while its   *)
(* cleanup task runs.                                                      *)
ClosedBeforeEnd ==
    turn > 0 /\ pc \in {"evaluate", "ended"} => cleanup \in {"ok", "failed"}

(* A campaign that cancels a trial gets "interrupted", the only receipt    *)
(* --retry-interrupted repeats, even when the deadline fires as well,      *)
(* before or after.                                                        *)
CancelWins ==
    pc = "ended" /\ cancels > 0 => terminal.kind = "interrupted"

(* The deadline is final: once it has fired no trial of its own accord     *)
(* completes or fails of anything else, not even when it fires during a    *)
(* cleanup that succeeds.                                                  *)
DeadlineIsFinal ==
    pc = "ended" /\ cancels = 0 =>
        (deadline = "fired" <=> terminal.phase = "timeout")

(* A failure of the session, of its cleanup, of the artifacts or of an     *)
(* evaluator is receipted with the evidence there was; a cleanup failure   *)
(* and a failed evaluator do not cost the finished evidence.               *)
FailuresKeepEvidence ==
    /\ terminal.phase \in {"actor", "verify"} => terminal.evidence = "partial"
    /\ terminal.phase = "execute" /\ primary # "broken" => terminal.evidence = "partial"
    /\ terminal.phase \in {"cleanup", "evidence", "evaluate", "internal"} =>
           finished /\ terminal.evidence = "full"

(* A completed trial finished its conversation, closed its session without *)
(* an error and heard every evaluator, with no cancellation outstanding.   *)
CompletedIsJudged ==
    terminal.kind = "completed" =>
        finished /\ cleanup = "ok" /\ judged = Evaluators /\ ~captured

(* Every trial gets a receipt, though the actor, the target, its close and *)
(* the evaluators may each hang for ever.                                  *)
Settles == <>(pc = "ended")

(* Not true of this code, though a failed trial is to retain any evidence  *)
(* already produced: a deadline that arrives while the session is being    *)
(* closed discards what is there, and an error of the harness's own the    *)
(* messages exchanged before it.                                           *)
EvidenceIsRetained ==
    /\ terminal.phase = "timeout" /\ (finished \/ carried # "none") =>
           terminal.evidence # "none"
    /\ terminal.phase = "execute" => terminal.evidence # "none"
=============================================================================
