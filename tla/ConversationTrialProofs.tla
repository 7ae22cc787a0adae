---------------------- MODULE ConversationTrialProofs ----------------------
(***************************************************************************)
(* The safety properties of ConversationTrial for every budget of turns,   *)
(* every number of evaluators and every number of cancellations.           *)
(***************************************************************************)
EXTENDS ConversationTrial, TLAPS

(* What holds at each await.                                               *)
Fresh ==
    primary = "none" /\ carried = "none" /\ ~finished /\ cleanup = "none" /\ ~captured

AtAwait ==
    /\ pc # "ended" => terminal = NoTerminal
    /\ pc \notin {"evaluate", "ended"} => judged = 0
    /\ pc = "open" => turn = 0 /\ Fresh
    /\ pc \in {"actor", "send", "finish"} => turn > 0 /\ Fresh
    /\ pc = "close" =>
           /\ cleanup # "none"
           /\ finished <=> primary = "none"
           /\ primary \in {"actor", "execute", "verify"} => carried = "partial"
    /\ pc = "evaluate" =>
           /\ primary = "none" /\ finished /\ cleanup = "ok" /\ ~captured
           /\ judged < Evaluators
    /\ pc = "ended" => cleanup # "running"

(* No cancellation is ever lost: one that was asked for is due at the      *)
(* current await, or is already on its way out through the harness.        *)
Asked == deadline = "fired" \/ cancels > 0

NothingLost ==
    pc # "ended" => (Asked <=> pending \/ captured \/ primary = "cancelled")

(* The receipt is the one the cancellations call for.                      *)
Receipt ==
    pc = "ended" =>
        /\ terminal.kind # "none"
        /\ terminal.kind = "interrupted" <=> cancels > 0
        /\ terminal.phase = "timeout" <=> deadline = "fired" /\ cancels = 0

IInv ==
    /\ TypeOK
    /\ AtAwait
    /\ NothingLost
    /\ Receipt
    /\ ClosedBeforeEnd
    /\ FailuresKeepEvidence
    /\ CompletedIsJudged

-----------------------------------------------------------------------------
(* The invariant holds at the first await.                                 *)
LEMMA InitIInv == Init => IInv
<1> SUFFICES ASSUME Init PROVE IInv
  OBVIOUS
<1>1. TypeOK
  <2>1. pending \in BOOLEAN /\ captured \in BOOLEAN /\ finished \in BOOLEAN
    BY Zenon DEF Init
  <2> QED
    BY <2>1, TrialAssumption DEF Init, TypeOK, Awaits, Evidence, Phases, NoTerminal
<1>2. AtAwait /\ NothingLost /\ Receipt
  BY DEF Init, AtAwait, Fresh, NothingLost, Asked, Receipt
<1>3. ClosedBeforeEnd /\ FailuresKeepEvidence /\ CompletedIsJudged
  BY DEF Init, NoTerminal, ClosedBeforeEnd, FailuresKeepEvidence, CompletedIsJudged
<1> QED BY <1>1, <1>2, <1>3 DEF IInv

(* And every step keeps it.                                                *)
LEMMA NextIInv == IInv /\ [Next]_vars => IInv'
<1> SUFFICES ASSUME IInv, [Next]_vars PROVE IInv'
  OBVIOUS
<1> USE TrialAssumption DEF IInv
<1>1. CASE HarnessCancelled
  <2> USE <1>1 DEF HarnessCancelled, SettleCancelled, TimedOut, Settle,
             harness, closing, clock
  <2>1. TypeOK'
    <3>1. pending' \in BOOLEAN /\ captured' \in BOOLEAN
      BY Zenon DEF TypeOK
    <3> QED BY <3>1 DEF TypeOK, Awaits, Evidence, Phases, NoTerminal
  <2>2. (AtAwait /\ NothingLost /\ Receipt)'
    BY DEF TypeOK, AtAwait, Fresh, NothingLost, Asked, Receipt, NoTerminal
  <2>3. (ClosedBeforeEnd /\ FailuresKeepEvidence /\ CompletedIsJudged)'
    BY DEF TypeOK, AtAwait, Fresh, ClosedBeforeEnd, FailuresKeepEvidence,
           CompletedIsJudged, NoTerminal
  <2> QED BY <2>1, <2>2, <2>3
<1>2. CASE CloseCancelled
  <2> USE <1>2 DEF CloseCancelled, harness, closing, clock
  <2>1. TypeOK'
    <3>1. pending' \in BOOLEAN /\ captured' \in BOOLEAN
      BY Zenon DEF TypeOK
    <3> QED BY <3>1 DEF TypeOK, Awaits, Evidence, Phases, NoTerminal
  <2>2. (AtAwait /\ NothingLost /\ Receipt)'
    BY DEF TypeOK, AtAwait, Fresh, NothingLost, Asked, Receipt, NoTerminal
  <2>3. (ClosedBeforeEnd /\ FailuresKeepEvidence /\ CompletedIsJudged)'
    BY DEF TypeOK, AtAwait, Fresh, ClosedBeforeEnd, FailuresKeepEvidence,
           CompletedIsJudged, NoTerminal
  <2> QED BY <2>1, <2>2, <2>3
<1>3. CASE EvaluationCancelled
  <2> USE <1>3 DEF EvaluationCancelled, SettleCancelled, TimedOut, Settle,
             harness, closing, clock
  <2>1. TypeOK'
    <3>1. pending' \in BOOLEAN /\ captured' \in BOOLEAN
      BY Zenon DEF TypeOK
    <3> QED BY <3>1 DEF TypeOK, Awaits, Evidence, Phases, NoTerminal
  <2>2. (AtAwait /\ NothingLost /\ Receipt)'
    BY DEF TypeOK, AtAwait, Fresh, NothingLost, Asked, Receipt, NoTerminal
  <2>3. (ClosedBeforeEnd /\ FailuresKeepEvidence /\ CompletedIsJudged)'
    BY DEF TypeOK, AtAwait, Fresh, ClosedBeforeEnd, FailuresKeepEvidence,
           CompletedIsJudged, NoTerminal
  <2> QED BY <2>1, <2>2, <2>3
<1>4. CASE CloseRaisesCancellation
  <2> USE <1>4 DEF CloseRaisesCancellation, Closed, Resumes, SettleCancelled, TimedOut, Settle,
             harness, closing, clock
  <2>1. TypeOK'
    BY DEF TypeOK, Awaits, Evidence, Phases, NoTerminal
  <2>2. (AtAwait /\ NothingLost /\ Receipt)'
    BY DEF TypeOK, AtAwait, Fresh, NothingLost, Asked, Receipt, NoTerminal
  <2>3. (ClosedBeforeEnd /\ FailuresKeepEvidence /\ CompletedIsJudged)'
    BY DEF TypeOK, AtAwait, Fresh, ClosedBeforeEnd, FailuresKeepEvidence,
           CompletedIsJudged, NoTerminal
  <2> QED BY <2>1, <2>2, <2>3
<1>5. CASE CloseRaisesError
  <2> USE <1>5 DEF CloseRaisesError, Closed, Resumes, Settle,
             harness, closing, clock
  <2>1. TypeOK'
    BY DEF TypeOK, Awaits, Evidence, Phases, NoTerminal
  <2>2. (AtAwait /\ NothingLost /\ Receipt)'
    BY DEF TypeOK, AtAwait, Fresh, NothingLost, Asked, Receipt, NoTerminal
  <2>3. (ClosedBeforeEnd /\ FailuresKeepEvidence /\ CompletedIsJudged)'
    BY DEF TypeOK, AtAwait, Fresh, ClosedBeforeEnd, FailuresKeepEvidence,
           CompletedIsJudged, NoTerminal
  <2> QED BY <2>1, <2>2, <2>3
<1>6. CASE HarnessReturns
  <2> USE <1>6 DEF HarnessReturns, EvidenceUnrecorded, ArtifactsRefused, ChecksMissing,
           CleanReturn, Closed, Resumes, Settle, Judge,
             harness, closing, clock
  <2>1. TypeOK'
    BY DEF TypeOK, Awaits, Evidence, Phases, NoTerminal
  <2>2. (AtAwait /\ NothingLost /\ Receipt)'
    BY DEF TypeOK, AtAwait, Fresh, NothingLost, Asked, Receipt, NoTerminal
  <2>3. (ClosedBeforeEnd /\ FailuresKeepEvidence /\ CompletedIsJudged)'
    BY DEF TypeOK, AtAwait, Fresh, ClosedBeforeEnd, FailuresKeepEvidence,
           CompletedIsJudged, NoTerminal
  <2> QED BY <2>1, <2>2, <2>3
<1>7. CASE OpenReturns
  <2> USE <1>7 DEF OpenReturns, Resumes, harness, closing, clock
  <2>1. TypeOK'
    BY DEF TypeOK, Awaits, Evidence, Phases, NoTerminal
  <2>2. (AtAwait /\ NothingLost /\ Receipt)'
    BY DEF TypeOK, AtAwait, Fresh, NothingLost, Asked, Receipt, NoTerminal
  <2>3. (ClosedBeforeEnd /\ FailuresKeepEvidence /\ CompletedIsJudged)'
    BY DEF TypeOK, AtAwait, Fresh, ClosedBeforeEnd, FailuresKeepEvidence,
           CompletedIsJudged, NoTerminal
  <2> QED BY <2>1, <2>2, <2>3
<1>8. CASE OpenFails
  <2> USE <1>8 DEF OpenFails, Resumes, Settle, harness, closing, clock
  <2>1. TypeOK'
    BY DEF TypeOK, Awaits, Evidence, Phases, NoTerminal
  <2>2. (AtAwait /\ NothingLost /\ Receipt)'
    BY DEF TypeOK, AtAwait, Fresh, NothingLost, Asked, Receipt, NoTerminal
  <2>3. (ClosedBeforeEnd /\ FailuresKeepEvidence /\ CompletedIsJudged)'
    BY DEF TypeOK, AtAwait, Fresh, ClosedBeforeEnd, FailuresKeepEvidence,
           CompletedIsJudged, NoTerminal
  <2> QED BY <2>1, <2>2, <2>3
<1>9. CASE ActorAccepts
  <2> USE <1>9 DEF ActorAccepts, Resumes, harness, closing, clock
  <2>1. TypeOK'
    BY DEF TypeOK, Awaits, Evidence, Phases, NoTerminal
  <2>2. (AtAwait /\ NothingLost /\ Receipt)'
    BY DEF TypeOK, AtAwait, Fresh, NothingLost, Asked, Receipt, NoTerminal
  <2>3. (ClosedBeforeEnd /\ FailuresKeepEvidence /\ CompletedIsJudged)'
    BY DEF TypeOK, AtAwait, Fresh, ClosedBeforeEnd, FailuresKeepEvidence,
           CompletedIsJudged, NoTerminal
  <2> QED BY <2>1, <2>2, <2>3
<1>10. CASE ActorContinues
  <2> USE <1>10 DEF ActorContinues, Resumes, harness, closing, clock
  <2>1. TypeOK'
    BY DEF TypeOK, Awaits, Evidence, Phases, NoTerminal
  <2>2. (AtAwait /\ NothingLost /\ Receipt)'
    BY DEF TypeOK, AtAwait, Fresh, NothingLost, Asked, Receipt, NoTerminal
  <2>3. (ClosedBeforeEnd /\ FailuresKeepEvidence /\ CompletedIsJudged)'
    BY DEF TypeOK, AtAwait, Fresh, ClosedBeforeEnd, FailuresKeepEvidence,
           CompletedIsJudged, NoTerminal
  <2> QED BY <2>1, <2>2, <2>3
<1>11. CASE ActorFails
  <2> USE <1>11 DEF ActorFails, Resumes, Fail, PartialEvidence, StartClosing,
             harness, closing, clock
  <2>1. TypeOK'
    BY DEF TypeOK, Awaits, Evidence, Phases, NoTerminal
  <2>2. (AtAwait /\ NothingLost /\ Receipt)'
    BY DEF TypeOK, AtAwait, Fresh, NothingLost, Asked, Receipt, NoTerminal
  <2>3. (ClosedBeforeEnd /\ FailuresKeepEvidence /\ CompletedIsJudged)'
    BY DEF TypeOK, AtAwait, Fresh, ClosedBeforeEnd, FailuresKeepEvidence,
           CompletedIsJudged, NoTerminal
  <2> QED BY <2>1, <2>2, <2>3
<1>12. CASE SendReturns
  <2> USE <1>12 DEF SendReturns, Resumes, AnotherTurn, harness, closing, clock
  <2>1. TypeOK'
    BY DEF TypeOK, Awaits, Evidence, Phases, NoTerminal
  <2>2. (AtAwait /\ NothingLost /\ Receipt)'
    BY DEF TypeOK, AtAwait, Fresh, NothingLost, Asked, Receipt, NoTerminal
  <2>3. (ClosedBeforeEnd /\ FailuresKeepEvidence /\ CompletedIsJudged)'
    BY DEF TypeOK, AtAwait, Fresh, ClosedBeforeEnd, FailuresKeepEvidence,
           CompletedIsJudged, NoTerminal
  <2> QED BY <2>1, <2>2, <2>3
<1>13. CASE SendFails
  <2> USE <1>13 DEF SendFails, Resumes, Fail, PartialEvidence, StartClosing,
             harness, closing, clock
  <2>1. TypeOK'
    BY DEF TypeOK, Awaits, Evidence, Phases, NoTerminal
  <2>2. (AtAwait /\ NothingLost /\ Receipt)'
    BY DEF TypeOK, AtAwait, Fresh, NothingLost, Asked, Receipt, NoTerminal
  <2>3. (ClosedBeforeEnd /\ FailuresKeepEvidence /\ CompletedIsJudged)'
    BY DEF TypeOK, AtAwait, Fresh, ClosedBeforeEnd, FailuresKeepEvidence,
           CompletedIsJudged, NoTerminal
  <2> QED BY <2>1, <2>2, <2>3
<1>14. CASE FinishReturns
  <2> USE <1>14 DEF FinishReturns, Resumes, StartClosing,
             harness, closing, clock
  <2>1. TypeOK'
    BY DEF TypeOK, Awaits, Evidence, Phases, NoTerminal
  <2>2. (AtAwait /\ NothingLost /\ Receipt)'
    BY DEF TypeOK, AtAwait, Fresh, NothingLost, Asked, Receipt, NoTerminal
  <2>3. (ClosedBeforeEnd /\ FailuresKeepEvidence /\ CompletedIsJudged)'
    BY DEF TypeOK, AtAwait, Fresh, ClosedBeforeEnd, FailuresKeepEvidence,
           CompletedIsJudged, NoTerminal
  <2> QED BY <2>1, <2>2, <2>3
<1>15. CASE FinishFails
  <2> USE <1>15 DEF FinishFails, Resumes, Fail, PartialEvidence, StartClosing,
             harness, closing, clock
  <2>1. TypeOK'
    BY DEF TypeOK, Awaits, Evidence, Phases, NoTerminal
  <2>2. (AtAwait /\ NothingLost /\ Receipt)'
    BY DEF TypeOK, AtAwait, Fresh, NothingLost, Asked, Receipt, NoTerminal
  <2>3. (ClosedBeforeEnd /\ FailuresKeepEvidence /\ CompletedIsJudged)'
    BY DEF TypeOK, AtAwait, Fresh, ClosedBeforeEnd, FailuresKeepEvidence,
           CompletedIsJudged, NoTerminal
  <2> QED BY <2>1, <2>2, <2>3
<1>16. CASE HarnessBreaks
  <2> USE <1>16 DEF HarnessBreaks, Resumes, StartClosing,
             harness, closing, clock
  <2>1. TypeOK'
    BY DEF TypeOK, Awaits, Evidence, Phases, NoTerminal
  <2>2. (AtAwait /\ NothingLost /\ Receipt)'
    BY DEF TypeOK, AtAwait, Fresh, NothingLost, Asked, Receipt, NoTerminal
  <2>3. (ClosedBeforeEnd /\ FailuresKeepEvidence /\ CompletedIsJudged)'
    BY DEF TypeOK, AtAwait, Fresh, ClosedBeforeEnd, FailuresKeepEvidence,
           CompletedIsJudged, NoTerminal
  <2> QED BY <2>1, <2>2, <2>3
<1>17. CASE CloseReturns
  <2> USE <1>17 DEF CloseReturns, CleanupEnds, harness, closing, clock
  <2>1. TypeOK'
    BY DEF TypeOK, Awaits, Evidence, Phases, NoTerminal
  <2>2. (AtAwait /\ NothingLost /\ Receipt)'
    BY DEF TypeOK, AtAwait, Fresh, NothingLost, Asked, Receipt, NoTerminal
  <2>3. (ClosedBeforeEnd /\ FailuresKeepEvidence /\ CompletedIsJudged)'
    BY DEF TypeOK, AtAwait, Fresh, ClosedBeforeEnd, FailuresKeepEvidence,
           CompletedIsJudged, NoTerminal
  <2> QED BY <2>1, <2>2, <2>3
<1>18. CASE EvaluatorReturns
  <2> USE <1>18 DEF EvaluatorReturns, Resumes, Judge, Settle,
             harness, closing, clock
  <2>1. TypeOK'
    BY DEF TypeOK, Awaits, Evidence, Phases, NoTerminal
  <2>2. (AtAwait /\ NothingLost /\ Receipt)'
    BY DEF TypeOK, AtAwait, Fresh, NothingLost, Asked, Receipt, NoTerminal
  <2>3. (ClosedBeforeEnd /\ FailuresKeepEvidence /\ CompletedIsJudged)'
    BY DEF TypeOK, AtAwait, Fresh, ClosedBeforeEnd, FailuresKeepEvidence,
           CompletedIsJudged, NoTerminal
  <2> QED BY <2>1, <2>2, <2>3
<1>19. CASE EvaluatorFails
  <2> USE <1>19 DEF EvaluatorFails, Resumes, Settle, harness, closing, clock
  <2>1. TypeOK'
    BY DEF TypeOK, Awaits, Evidence, Phases, NoTerminal
  <2>2. (AtAwait /\ NothingLost /\ Receipt)'
    BY DEF TypeOK, AtAwait, Fresh, NothingLost, Asked, Receipt, NoTerminal
  <2>3. (ClosedBeforeEnd /\ FailuresKeepEvidence /\ CompletedIsJudged)'
    BY DEF TypeOK, AtAwait, Fresh, ClosedBeforeEnd, FailuresKeepEvidence,
           CompletedIsJudged, NoTerminal
  <2> QED BY <2>1, <2>2, <2>3
<1>20. CASE Deadline
  <2> USE <1>20 DEF Deadline, Awaits, harness, closing, clock
  <2>1. TypeOK'
    BY DEF TypeOK, Awaits, Evidence, Phases, NoTerminal
  <2>2. (AtAwait /\ NothingLost /\ Receipt)'
    BY DEF TypeOK, AtAwait, Fresh, NothingLost, Asked, Receipt, NoTerminal
  <2>3. (ClosedBeforeEnd /\ FailuresKeepEvidence /\ CompletedIsJudged)'
    BY DEF TypeOK, AtAwait, Fresh, ClosedBeforeEnd, FailuresKeepEvidence,
           CompletedIsJudged, NoTerminal
  <2> QED BY <2>1, <2>2, <2>3
<1>21. CASE CleanupTimesOut
  <2> USE <1>21 DEF CleanupTimesOut, CleanupEnds, harness, closing, clock
  <2>1. TypeOK'
    BY DEF TypeOK, Awaits, Evidence, Phases, NoTerminal
  <2>2. (AtAwait /\ NothingLost /\ Receipt)'
    BY DEF TypeOK, AtAwait, Fresh, NothingLost, Asked, Receipt, NoTerminal
  <2>3. (ClosedBeforeEnd /\ FailuresKeepEvidence /\ CompletedIsJudged)'
    BY DEF TypeOK, AtAwait, Fresh, ClosedBeforeEnd, FailuresKeepEvidence,
           CompletedIsJudged, NoTerminal
  <2> QED BY <2>1, <2>2, <2>3
<1>22. CASE Cancel
  <2> USE <1>22 DEF Cancel, Awaits, harness, closing, clock
  <2>1. TypeOK'
    BY DEF TypeOK, Awaits, Evidence, Phases, NoTerminal
  <2>2. (AtAwait /\ NothingLost /\ Receipt)'
    BY DEF TypeOK, AtAwait, Fresh, NothingLost, Asked, Receipt, NoTerminal
  <2>3. (ClosedBeforeEnd /\ FailuresKeepEvidence /\ CompletedIsJudged)'
    BY DEF TypeOK, AtAwait, Fresh, ClosedBeforeEnd, FailuresKeepEvidence,
           CompletedIsJudged, NoTerminal
  <2> QED BY <2>1, <2>2, <2>3
<1>23. CASE UNCHANGED vars
  BY <1>23
  DEF vars, harness, closing, clock, TypeOK, AtAwait, Fresh, NothingLost, Asked,
      Receipt, ClosedBeforeEnd, FailuresKeepEvidence, CompletedIsJudged
<1> QED
  BY <1>1, <1>2, <1>3, <1>4, <1>5, <1>6, <1>7, <1>8, <1>9, <1>10, <1>11, <1>12,
     <1>13, <1>14, <1>15, <1>16, <1>17, <1>18, <1>19, <1>20, <1>21, <1>22, <1>23
  DEF Next, Loop, External, Stopped

-----------------------------------------------------------------------------
(* The inductive invariant holds throughout.                               *)
THEOREM TrialInvariant == Spec => []IInv
  BY InitIInv, NextIInv, PTL DEF Spec

(* Every trial's state is of its type.                                     *)
THEOREM TypeCorrect == Spec => []TypeOK
<1>1. IInv => TypeOK
  BY DEF IInv
<1> QED BY <1>1, TrialInvariant, PTL

(* No trial ends, and none is judged, before its session is closed.        *)
THEOREM SessionsAreClosed == Spec => []ClosedBeforeEnd
<1>1. IInv => ClosedBeforeEnd
  BY DEF IInv
<1> QED BY <1>1, TrialInvariant, PTL

(* A cancelled trial is interrupted, whatever its deadline does.           *)
THEOREM CancellationWins == Spec => []CancelWins
<1>1. IInv => CancelWins
  BY DEF IInv, Receipt, CancelWins
<1> QED BY <1>1, TrialInvariant, PTL

(* A deadline that fired makes a timeout, and nothing else does.           *)
THEOREM DeadlinesAreFinal == Spec => []DeadlineIsFinal
<1>1. IInv => DeadlineIsFinal
  BY DEF IInv, Receipt, DeadlineIsFinal, TypeOK
<1> QED BY <1>1, TrialInvariant, PTL

(* Failures other than a timeout are receipted with their evidence.        *)
THEOREM EvidenceIsKept == Spec => []FailuresKeepEvidence
<1>1. IInv => FailuresKeepEvidence
  BY DEF IInv
<1> QED BY <1>1, TrialInvariant, PTL

(* A completed trial was closed and judged by every evaluator.             *)
THEOREM CompletionIsJudged == Spec => []CompletedIsJudged
<1>1. IInv => CompletedIsJudged
  BY DEF IInv
<1> QED BY <1>1, TrialInvariant, PTL

-----------------------------------------------------------------------------
(* What `Settles` rests on, short of fairness: a trial that has not ended  *)
(* has a step that needs nobody else, and steps run out.                   *)

(* The timer, a cancellation that is due, the bound of the cleanup, or the *)
(* end of the cleanup lets the trial go on.                                *)
OwnStep ==
    \/ pc \in Awaits /\ (deadline = "armed" \/ pending)
    \/ cleanup = "running"
    \/ Closed

(* However long actor, target, close and evaluators hang, a trial is never *)
(* left waiting for them alone: once the deadline has fired, its one       *)
(* cancellation is due, or on its way out through the cleanup.             *)
THEOREM NeverLeftToOthers == Spec => [](pc # "ended" => OwnStep)
<1>1. IInv => (pc # "ended" => OwnStep)
  <2> SUFFICES ASSUME IInv, pc # "ended", deadline # "armed", ~pending, cleanup # "running"
               PROVE  Closed
    BY DEF OwnStep, IInv, TypeOK
  <2>1. captured \/ primary = "cancelled"
    BY DEF IInv, TypeOK, NothingLost, Asked
  <2>2. pc = "close"
    BY <2>1 DEF IInv, TypeOK, Awaits, AtAwait, Fresh
  <2> QED BY <2>2 DEF Closed, Resumes, IInv, TypeOK, AtAwait
<1> QED BY <1>1, TrialInvariant, PTL

(* The most steps a trial can still take: what its position leaves ...     *)
StepsAtPosition ==
    CASE pc = "ended"    -> 0
      [] pc = "evaluate" -> Evaluators - judged + 1
      [] pc = "close"    -> Evaluators + (IF cleanup = "running" THEN 3 ELSE 2)
      [] pc = "finish"   -> Evaluators + 4
      [] pc = "send"     -> Evaluators + 5 + 2 * (Turns - turn)
      [] pc = "actor"    -> Evaluators + 6 + 2 * (Turns - turn)
      [] pc = "open"     -> Evaluators + 7 + 2 * Turns

(* ... and what interrupts it: a request, and the exception it brings.     *)
Interruptions ==
    2 * (MaxCancels - cancels) + (IF deadline = "armed" THEN 2 ELSE 0)
        + (IF pending THEN 1 ELSE 0)

StepsLeft == StepsAtPosition + Interruptions

LEMMA StepsLeftIsNatural == IInv => StepsAtPosition \in Nat /\ Interruptions \in Nat
<1> SUFFICES ASSUME IInv PROVE StepsAtPosition \in Nat /\ Interruptions \in Nat
  OBVIOUS
<1> USE TrialAssumption DEF IInv, TypeOK, Awaits
<1>1. StepsAtPosition \in Nat
  BY DEF StepsAtPosition
<1>2. Interruptions \in Nat
  BY DEF Interruptions
<1> QED BY <1>1, <1>2

(* Twice what is left of a bound is a number.                              *)
LEMMA TwiceWhatIsLeft ==
    ASSUME NEW n \in Nat, NEW k \in 0..n
    PROVE  2 * (n - k) \in Nat
OBVIOUS

(* Of two counts, one falls and the other does not rise.                   *)
LEMMA SumFalls ==
    ASSUME NEW a \in Nat, NEW b \in Nat, NEW c \in Nat, NEW d \in Nat,
           \/ c < a /\ d = b
           \/ c = a /\ d < b
           \/ c < a /\ d < b
    PROVE  c + d < a + b
OBVIOUS

(* A step is an interruption, the end of one, or progress.                 *)
LEMMA StepsLeftStep == IInv /\ Next => UNCHANGED vars \/ StepsLeft' < StepsLeft
<1> SUFFICES ASSUME IInv, Next, ~UNCHANGED vars PROVE StepsLeft' < StepsLeft
  OBVIOUS
<1>0. /\ StepsAtPosition \in Nat /\ Interruptions \in Nat
      /\ StepsAtPosition' \in Nat /\ Interruptions' \in Nat
  <2>1. IInv'
    BY NextIInv
  <2>2. StepsAtPosition' \in Nat
    BY <2>1, TrialAssumption DEF StepsAtPosition, IInv, TypeOK, Awaits
  <2>3. Interruptions' \in Nat
    <3>1. cancels' \in 0..MaxCancels /\ MaxCancels \in Nat
      BY <2>1, TrialAssumption DEF IInv, TypeOK
    <3>2. 2 * (MaxCancels - cancels') \in Nat
      BY <3>1, TwiceWhatIsLeft, Zenon
    <3>3. (IF deadline' = "armed" THEN 2 ELSE 0) \in Nat
      OBVIOUS
    <3>4. (IF pending' THEN 1 ELSE 0) \in Nat
      <4>1. CASE pending'
        BY <4>1
      <4>2. CASE ~pending'
        BY <4>2
      <4> QED BY <4>1, <4>2
    <3> QED BY <3>2, <3>3, <3>4 DEF Interruptions
  <2> QED BY <2>2, <2>3, StepsLeftIsNatural
<1>1. CASE Deadline \/ Cancel
  <2>1. StepsAtPosition' = StepsAtPosition
    BY <1>1 DEF Deadline, Cancel, harness, closing, StepsAtPosition
  <2>2. Interruptions' < Interruptions
    BY <1>1, TrialAssumption DEF Deadline, Cancel, Interruptions, IInv, TypeOK
  <2> QED BY <1>0, <2>1, <2>2, SumFalls, Zenon DEF StepsLeft
<1>2. CASE CloseCancelled
  <2>1. StepsAtPosition' = StepsAtPosition
    BY <1>2 DEF CloseCancelled, harness, StepsAtPosition
  <2>2. Interruptions' < Interruptions
    BY <1>2, TrialAssumption DEF CloseCancelled, Interruptions, IInv, TypeOK
  <2> QED BY <1>0, <2>1, <2>2, SumFalls, Zenon DEF StepsLeft
<1>3. CASE HarnessCancelled \/ EvaluationCancelled
  <2>1. Interruptions' < Interruptions
    BY <1>3, TrialAssumption DEF HarnessCancelled, EvaluationCancelled, Interruptions, IInv, TypeOK
  <2>2. StepsAtPosition' < StepsAtPosition
    BY <1>3, TrialAssumption
       DEF HarnessCancelled, EvaluationCancelled, SettleCancelled, Settle, StepsAtPosition,
           IInv, TypeOK, AtAwait, Fresh
  <2> QED BY <1>0, <2>1, <2>2, SumFalls, Zenon DEF StepsLeft
<1>4. CASE External \/ CleanupTimesOut \/ CloseRaisesCancellation \/ CloseRaisesError \/ HarnessReturns
  <2>1. Interruptions' = Interruptions
    BY <1>4 DEF External, OpenReturns, OpenFails, ActorAccepts, ActorContinues, ActorFails,
                SendReturns, SendFails, FinishReturns, FinishFails, HarnessBreaks, CloseReturns,
                EvaluatorReturns, EvaluatorFails, Fail, StartClosing, CleanupTimesOut, CleanupEnds,
                CloseRaisesCancellation, CloseRaisesError, HarnessReturns, clock, Interruptions
  <2>2. StepsAtPosition' < StepsAtPosition
    <3> USE TrialAssumption DEF StepsAtPosition, Settle, Resumes
    <3>1. CASE OpenReturns \/ OpenFails
      BY <3>1 DEF OpenReturns, OpenFails
    <3>2. CASE ActorAccepts \/ ActorContinues \/ ActorFails
      BY <3>2 DEF ActorAccepts, ActorContinues, ActorFails, Fail, StartClosing, harness,
                  IInv, TypeOK, Awaits
    <3>3. CASE SendReturns \/ SendFails
      BY <3>3 DEF SendReturns, SendFails, AnotherTurn, Fail, StartClosing, IInv, TypeOK, Awaits
    <3>4. CASE FinishReturns \/ FinishFails \/ HarnessBreaks
      BY <3>4 DEF FinishReturns, FinishFails, HarnessBreaks, Fail, StartClosing,
                  IInv, TypeOK, Awaits
    <3>5. CASE CloseReturns \/ CleanupTimesOut
      <4>1. pc = "close"
        BY <3>5 DEF CloseReturns, CleanupTimesOut, CleanupEnds, IInv, TypeOK, Awaits, AtAwait,
                    Fresh, ClosedBeforeEnd
      <4> QED BY <3>5, <4>1 DEF CloseReturns, CleanupTimesOut, CleanupEnds
    <3>6. CASE CloseRaisesCancellation \/ CloseRaisesError
      BY <3>6 DEF CloseRaisesCancellation, CloseRaisesError, Closed, SettleCancelled
    <3>7. CASE HarnessReturns
      BY <3>7 DEF HarnessReturns, CleanReturn, Closed, EvidenceUnrecorded, ArtifactsRefused,
                  ChecksMissing, Judge, IInv, AtAwait
    <3>8. CASE EvaluatorReturns \/ EvaluatorFails
      BY <3>8 DEF EvaluatorReturns, EvaluatorFails, Judge, IInv, TypeOK, AtAwait
    <3> QED BY <1>4, <3>1, <3>2, <3>3, <3>4, <3>5, <3>6, <3>7, <3>8 DEF External
  <2> QED BY <1>0, <2>1, <2>2, SumFalls, Zenon DEF StepsLeft
<1> QED BY <1>1, <1>2, <1>3, <1>4 DEF Next, Loop, Stopped

(* Each step of a trial, whoever takes it, is one of a number that was     *)
(* fixed at its start: it cannot be interrupted, cleaned up or judged for  *)
(* ever.                                                                   *)
THEOREM StepsRunOut == Spec => [](StepsLeft \in Nat) /\ [][StepsLeft' < StepsLeft]_vars
<1>1. IInv => StepsLeft \in Nat
  BY StepsLeftIsNatural DEF StepsLeft
<1>2. IInv /\ [Next]_vars => [StepsLeft' < StepsLeft]_vars
  BY StepsLeftStep
<1> QED BY <1>1, <1>2, TrialInvariant, PTL DEF Spec
=============================================================================
