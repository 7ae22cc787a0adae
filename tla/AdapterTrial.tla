---------------------------- MODULE AdapterTrial ----------------------------
(***************************************************************************)
(* What the harnesses that drive an external evaluation system share: one  *)
(* trial of one adapter, the resource it creates outside (a Templar run, a *)
(* sandbox, a container) and the state file by which an operator finds it. *)
(* The resource and the calls to it are external.                          *)
(***************************************************************************)
EXTENDS Naturals, Sequences, FiniteSets

CONSTANT
    MaxCancels  \* bound: cancellations delivered to one trial

VARIABLES
    at,       \* what the adapter's coroutine waits for; "over" at its end
    outcome,  \* how it ends; set by the exception that leads to a cleanup
    cancels,  \* CancelledErrors delivered: the trial's budget, the campaign
    remote,   \* the resource: "none", "live" or "gone"
    asked,    \* the request that creates the resource may still take effect
    known,    \* the adapter holds what it needs to release the resource
    file,     \* the state file: "none", or it names the resource, which is
              \* "located", "released" or "unconfirmed"; or "finished"
    unwritten, \* the disk has refused to say what became of the resource
    cause,    \* why it failed, where a native result has to say so
    kept,     \* the failure carries the evidence produced before it
    dialogue, \* numbers of the native messages recorded in the trace, in order
    receipts  \* (role or file, number) of the model calls recorded

imports == <<cause, kept, dialogue, receipts>>
control == <<at, outcome, cancels, imports>>
statefile == <<file, unwritten>>
resource == <<remote, asked, known, statefile>>
trial == <<control, resource>>

TrialTypeOK ==
    /\ outcome \in {"none", "evidence", "failed", "cancelled"}
    /\ cancels \in 0..MaxCancels
    /\ remote \in {"none", "live", "gone"}
    /\ asked \in BOOLEAN
    /\ known \in BOOLEAN
    /\ file \in {"none", "located", "released", "unconfirmed", "finished"}
    /\ unwritten \in BOOLEAN
    /\ kept \in BOOLEAN
    /\ dialogue \in Seq(Nat)

TrialInit ==
    /\ at = "start"
    /\ outcome = "none"
    /\ cancels = 0
    /\ remote = "none"
    /\ asked = FALSE
    /\ known = FALSE
    /\ file = "none"
    /\ unwritten = FALSE
    /\ cause = "none"
    /\ kept = FALSE
    /\ dialogue = <<>>
    /\ receipts = {}

Over == at = "over"

Goes(place, result) ==
    /\ at' = place
    /\ outcome' = result
    /\ UNCHANGED <<cancels, imports>>

Waits(place) == Goes(place, outcome)

(* A cancellation arrives; the adapter goes on at place with this result.  *)
Interrupts(place, result) ==
    /\ cancels < MaxCancels
    /\ cancels' = cancels + 1
    /\ at' = place
    /\ outcome' = result
    /\ UNCHANGED imports

(* HarnessError, with or without partial evidence.                         *)
Fails(reason, evidence) ==
    /\ at' = "over"
    /\ outcome' = "failed"
    /\ cause' = reason
    /\ kept' = evidence
    /\ UNCHANGED cancels

Writes(phase) == file' = phase /\ UNCHANGED unwritten

(* The state file is written with this phase, or the disk refuses it.      *)
Records(phase) == Writes(phase) \/ (unwritten' = TRUE /\ UNCHANGED file)

(* The request takes effect, also long after nobody waits for its answer.  *)
Created ==
    /\ asked
    /\ asked' = FALSE
    /\ remote' = "live"
    /\ UNCHANGED <<control, known, statefile>>

(* The resource ends of itself.                                            *)
Vanishes ==
    /\ remote = "live"
    /\ remote' = "gone"
    /\ UNCHANGED <<control, asked, known, statefile>>
=============================================================================
