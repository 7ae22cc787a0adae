----------------------------- MODULE TemplarRun -----------------------------
(***************************************************************************)
(* adapters/templar.py: stage an artifact, submit a workflow run, follow   *)
(* its events until the run is accepted, fetch the result, and ask for the *)
(* run's cancellation when anything else happens.                          *)
(***************************************************************************)
EXTENDS AdapterTrial

CONSTANT
    MaxEvents  \* bound: events one run emits

VARIABLES
    emitted,  \* events the run has emitted: its view's last_sequence
    status,   \* the run's status
    cursor    \* the last event in templar-events.jsonl

templar == <<emitted, status, cursor>>

TemplarTypeOK ==
    /\ emitted \in 0..MaxEvents
    /\ status \in {"running", "accepted", "failed"}
    /\ cursor \in 0..MaxEvents

TemplarInit ==
    /\ emitted = 0
    /\ status = "running"
    /\ cursor = 0

(* Missing token, unreadable or refused artifact, unwritable state; else   *)
(* the submission is on its way.                                           *)
Stage ==
    /\ at = "start"
    /\ \/ Goes("over", "failed") /\ UNCHANGED asked
       \/ Waits("submit") /\ asked' = TRUE
    /\ UNCHANGED <<remote, known, statefile, templar>>

(* The answer names the run.  Its view may be malformed, or the state file *)
(* unwritable: the run is then released, because its id is known.          *)
Submitted ==
    /\ at = "submit"
    /\ ~asked
    /\ known' = TRUE
    /\ \/ Waits("events") /\ Writes("located")
       \/ Goes("cancel", "failed") /\ UNCHANGED statefile
    /\ UNCHANGED <<remote, asked, templar>>

(* No answer, or none with a run id: a timeout leaves the request on its   *)
(* way, an error or an answer beyond the limit need not.                   *)
SubmissionFails ==
    /\ at = "submit"
    /\ Goes("over", "failed")
    /\ asked' \in {FALSE, asked}
    /\ UNCHANGED <<remote, known, statefile, templar>>

(* GET events?after=cursor: in order, and perhaps not all there are.       *)
ReadEvents ==
    /\ at = "events"
    /\ Waits("view")
    /\ cursor' \in cursor..emitted
    /\ UNCHANGED <<resource, emitted, status>>

(* Mutant of Drained: accepted is taken for complete.                      *)
DrainedAlready == TRUE

Drained == cursor >= emitted

(* GET the run: go on, drain what it emitted, or give up.                  *)
ReadView ==
    /\ at = "view"
    /\ \/ status = "running" /\ Waits("events")
       \/ status = "accepted" /\ ~Drained /\ Waits("events")
       \/ status = "accepted" /\ Drained /\ Waits("result")
       \/ status = "accepted" /\ Goes("cancel", "failed")  \* not applied
       \/ status = "failed" /\ Goes("cancel", "failed")
    /\ UNCHANGED <<resource, templar>>

ReadResult ==
    /\ at = "result"
    /\ Goes("over", "evidence")
    /\ Writes("released")
    /\ UNCHANGED <<remote, asked, known, templar>>

(* A request that fails, an answer that is not what it should be, events   *)
(* out of sequence, a file that cannot be written.                         *)
RequestFails ==
    /\ at \in {"events", "view", "result"}
    /\ Goes("cancel", "failed")
    /\ UNCHANGED <<resource, templar>>

(* _request_cancellation, within its own timeout: confirmed, or not.       *)
Cancelled ==
    /\ at = "cancel"
    /\ Waits("over")
    /\ \/ remote' = "gone" /\ Records("released")
       \/ remote' \in {remote, "gone"} /\ Records("unconfirmed")
    /\ UNCHANGED <<asked, known, templar>>

(* Mutants of TemplarInterrupted: only errors lead to _cancel; polling     *)
(* takes a cancellation for a failed request.                              *)
InterruptedAtOnce ==
    /\ at \in {"start", "submit", "events", "view", "result", "cancel"}
    /\ Interrupts("over", "cancelled")
    /\ UNCHANGED <<resource, templar>>

InterruptionIgnored ==
    /\ \/ at \in {"start", "submit"} /\ Interrupts("over", "cancelled")
       \/ at \in {"events", "view", "result", "cancel"} /\ Interrupts(at, outcome)
    /\ UNCHANGED <<resource, templar>>

(* CancelledError: a run whose id is known is released first, and _cancel  *)
(* swallows what arrives meanwhile.                                        *)
TemplarInterrupted ==
    /\ \/ at \in {"start", "submit", "events", "view", "result"}
          /\ Interrupts(IF known THEN "cancel" ELSE "over", "cancelled")
       \/ at = "cancel" /\ Interrupts(at, outcome)
    /\ UNCHANGED <<resource, templar>>

(* The run at the server.                                                  *)
RunWorks ==
    /\ remote = "live"
    /\ \/ emitted < MaxEvents /\ emitted' = emitted + 1 /\ UNCHANGED <<remote, status>>
       \/ status' \in {"accepted", "failed"} /\ remote' = "gone" /\ UNCHANGED emitted
    /\ UNCHANGED <<control, asked, known, statefile, cursor>>

TemplarSteps ==
    \/ Stage \/ Submitted \/ SubmissionFails \/ ReadEvents \/ ReadView
    \/ ReadResult \/ RequestFails \/ Cancelled

TemplarNext ==
    \/ TemplarSteps
    \/ TemplarInterrupted
    \/ Created /\ UNCHANGED templar
    \/ RunWorks
=============================================================================
