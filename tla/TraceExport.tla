---------------------------- MODULE TraceExport ----------------------------
(***************************************************************************)
(* The export phase of a campaign: `_export_traces` and `_export_trace`    *)
(* (campaign.py).  A producer feeds the closed trials and then one None    *)
(* per worker into a bounded queue; each worker copies the traces it takes *)
(* to the exporters and keeps beside each trial what was delivered, so     *)
(* that a later run of the campaign delivers only the rest.                *)
(*                                                                         *)
(* The tasks of the asyncio.TaskGroup interleave at their awaits only:     *)
(* queue.get, queue.put and exporter.export.  Exporters are external.      *)
(***************************************************************************)
EXTENDS Integers, FiniteSets

CONSTANTS
    N,         \* number of trials with a receipt
    Workers,   \* workers
    Exporters, \* exporters, numbered in the order the caller lists them
    Torn,      \* trials whose events.jsonl cannot be read
    MaxRuns    \* bound: calls of `run` on the directory

Trials == 1..N

ASSUME ExportAssumption ==
    /\ N \in Nat \ {0}
    /\ Workers \in Nat \ {0}
    /\ Exporters \in SUBSET Nat /\ IsFiniteSet(Exporters) /\ 0 \notin Exporters
    /\ Torn \subseteq Trials
    /\ MaxRuns \in Nat \ {0}

VARIABLES
    \* beside each trial, and at the other end
    identity,  \* export_id in trace-exports.json: the run that minted it; 0 is no file
    recorded,  \* `succeeded` in trace-exports.json
    errors,    \* trials with a trace-export-errors.json
    delivered, \* <<trial, exporter, identity>> an exporter has received
    \* the current run
    run,       \* its number
    chosen,    \* its exporters
    phase,     \* where it is
    aborting,  \* the task group has cancelled its tasks
    fed,       \* items put into the queue
    taken,     \* items taken out of it
    worker     \* the worker tasks

disk == <<identity, recorded, errors>>
group == <<run, chosen, phase, aborting>>
vars == <<disk, delivered, group, fed, taken, worker>>

WorkerCount == IF Workers < N THEN Workers ELSE N
WorkerIds == 1..WorkerCount

(* The items in the order they are put: the trials, then the Nones.        *)
Items == N + WorkerCount
QueueSize == 2 * Workers

Steps == {"get", "export", "delivered", "stopping", "errors", "done"}

(* A worker task: its await, and the locals of _export_trace.              *)
Tasks == [step : Steps, trial : 0..N, exporter : Exporters \cup {0},
          succeeded : SUBSET Exporters, failed : BOOLEAN, cancelled : BOOLEAN]

(* A task without a trial.                                                 *)
Free(step, cancelled) ==
    [step |-> step, trial |-> 0, exporter |-> 0, succeeded |-> {},
     failed |-> FALSE, cancelled |-> cancelled]

Idle == Free("get", FALSE)

TypeOK ==
    /\ identity \in [Trials -> 0..MaxRuns]
    /\ recorded \in [Trials -> SUBSET Exporters]
    /\ errors \in SUBSET Trials
    /\ delivered \in SUBSET (Trials \X Exporters \X (1..MaxRuns))
    /\ run \in 1..MaxRuns
    /\ chosen \in SUBSET Exporters
    /\ phase \in {"exporting", "returned", "raised", "crashed"}
    /\ aborting \in BOOLEAN
    /\ fed \in 0..Items
    /\ taken \in 0..fed
    /\ fed - taken <= QueueSize
    /\ worker \in [WorkerIds -> Tasks]

(* A run without exporters has no export phase.                            *)
Begin ==
    /\ chosen' \in (SUBSET Exporters) \ {{}}
    /\ phase' = "exporting"
    /\ aborting' = FALSE
    /\ fed' = 0
    /\ taken' = 0
    /\ worker' = [w \in WorkerIds |-> Idle]

Init ==
    /\ identity = [t \in Trials |-> 0]
    /\ recorded = [t \in Trials |-> {}]
    /\ errors = {}
    /\ delivered = {}
    /\ run = 1
    /\ chosen \in (SUBSET Exporters) \ {{}}
    /\ phase = "exporting"
    /\ aborting = FALSE
    /\ fed = 0
    /\ taken = 0
    /\ worker = [w \in WorkerIds |-> Idle]

-----------------------------------------------------------------------------
(* The producer, the body of the task group.                               *)

(* Mutant: no None for the last worker.                                    *)
SentinelsShort == Items - 1

Sentinels == Items

(* Mutant: the queue takes one item too many.                              *)
RoomOffByOne == taken + QueueSize + 1

Room == taken + QueueSize

(* put() suspends only when the queue is full, and the get() that makes    *)
(* room wakes it: it goes on in the next round of the loop, before any     *)
(* answer, timer or child that the getter waits for afterwards.  A worker  *)
(* that need not wait, for an export that fails at once or a trial that    *)
(* cannot be read, may take another item before that.                      *)
Woken == ~aborting /\ fed < Sentinels /\ fed < Room

Feed ==
    /\ phase = "exporting"
    /\ Woken
    /\ fed' = IF Sentinels < Room THEN Sentinels ELSE Room
    /\ UNCHANGED <<disk, delivered, group, taken, worker>>

(* The tasks that are left when the group aborts are cancelled, once.      *)
Cancelled(workers) ==
    [w \in WorkerIds |-> IF workers[w].step = "done" THEN workers[w]
                         ELSE [workers[w] EXCEPT !.cancelled = TRUE]]

(* The campaign is cancelled while the producer waits to put an item or to *)
(* leave the group.  The workers were ready before it first waited.        *)
Cancel ==
    /\ phase = "exporting" /\ ~aborting
    /\ taken > 0
    /\ aborting' = TRUE
    /\ worker' = Cancelled(worker)
    /\ UNCHANGED <<disk, delivered, run, chosen, phase, fed, taken>>

(* The group is left when its body and every task are over.                *)
Join ==
    /\ phase = "exporting"
    /\ aborting \/ fed = Sentinels
    /\ \A w \in WorkerIds : worker[w].step = "done"
    /\ phase' = IF aborting THEN "raised" ELSE "returned"
    /\ UNCHANGED <<disk, delivered, run, chosen, aborting, fed, taken, worker>>

-----------------------------------------------------------------------------
(* A worker.  Between two awaits no cancellation reaches it.               *)

Runs(w, step) == phase = "exporting" /\ worker[w].step = step /\ ~worker[w].cancelled

Remaining(e, succeeded) == {x \in chosen : x > e /\ x \notin succeeded}

(* Call the next exporter the trial still needs, or write the errors.      *)
Proceed(w, trial, e, succeeded, failed) ==
    LET rest == Remaining(e, succeeded)
        Becomes(step, exporter) ==
            worker' = [worker EXCEPT ![w] =
                [step |-> step, trial |-> trial, exporter |-> exporter,
                 succeeded |-> succeeded, failed |-> failed, cancelled |-> @.cancelled]]
    IN  \/ rest = {} /\ Becomes("errors", 0)
        \/ \E next \in rest : (\A x \in rest : next <= x) /\ Becomes("export", next)

(* Mutant: the identity is not written before the first call.              *)
PersistNothing(t) == UNCHANGED identity

Persist(t) ==
    identity' = [identity EXCEPT ![t] = IF @ = 0 THEN run ELSE @]

(* The trial is taken, its events and its state are read, and the state is *)
(* written back with an identity.                                          *)
TakeTrial(w) ==
    /\ Runs(w, "get")
    /\ taken < fed /\ taken < N
    /\ taken' = taken + 1
    /\ LET t == taken + 1
       IN  \/ /\ t \notin Torn
              /\ Persist(t)
              /\ Proceed(w, t, 0, recorded[t], FALSE)
           \/ /\ t \in Torn
              /\ worker' = [worker EXCEPT ![w] =
                     [Idle EXCEPT !.step = "errors", !.trial = t, !.failed = TRUE]]
              /\ UNCHANGED identity
    /\ UNCHANGED <<recorded, errors, delivered, group, fed>>

TakeNone(w) ==
    /\ Runs(w, "get")
    /\ taken < fed /\ taken >= N
    /\ taken' = taken + 1
    /\ worker' = [worker EXCEPT ![w].step = "done"]
    /\ UNCHANGED <<disk, delivered, group, fed>>

(* The copy reaches the exporter's other end.                              *)
Deliver(w) ==
    /\ Runs(w, "export")
    /\ ~Woken
    /\ worker' = [worker EXCEPT ![w].step = "delivered"]
    /\ delivered' = delivered \cup
           {<<worker[w].trial, worker[w].exporter,
              IF identity[worker[w].trial] = 0 THEN run ELSE identity[worker[w].trial]>>}
    /\ UNCHANGED <<disk, group, fed, taken>>

Record(t, succeeded, e) == [recorded EXCEPT ![t] = succeeded \cup {e}]

(* The exporter returns and its success is written.                        *)
ExportReturns(w) ==
    /\ Runs(w, "delivered")
    /\ LET me == worker[w]
       IN  /\ recorded' = Record(me.trial, me.succeeded, me.exporter)
           /\ Proceed(w, me.trial, me.exporter, me.succeeded \cup {me.exporter}, me.failed)
    /\ UNCHANGED <<identity, errors, delivered, group, fed, taken>>

(* It returns but trace-exports.json is not written: an error like any     *)
(* other, except that the list in memory has the success.                  *)
ExportUnrecorded(w) ==
    /\ Runs(w, "delivered")
    /\ LET me == worker[w]
       IN  Proceed(w, me.trial, me.exporter, me.succeeded \cup {me.exporter}, TRUE)
    /\ UNCHANGED <<disk, delivered, group, fed, taken>>

(* Mutant: a failed call counts as a success in memory.                    *)
NotDeliveredAdded(w) ==
    LET me == worker[w]
    IN  Proceed(w, me.trial, me.exporter, me.succeeded \cup {me.exporter}, TRUE)

NotDelivered(w) ==
    LET me == worker[w] IN Proceed(w, me.trial, me.exporter, me.succeeded, TRUE)

(* The exporter raises, possibly after the copy has arrived.               *)
ExportFails(w) ==
    /\ Runs(w, "export") \/ Runs(w, "delivered")
    /\ NotDelivered(w)
    /\ UNCHANGED <<disk, delivered, group, fed, taken>>

ExportTimesOut(w) ==
    /\ Runs(w, "export") \/ Runs(w, "delivered")
    /\ ~Woken
    /\ NotDelivered(w)
    /\ UNCHANGED <<disk, delivered, group, fed, taken>>

(* The Langfuse child writes more than its limit and is being stopped:     *)
(* collect_process_output waits for that through any cancellation...       *)
ExportOverflows(w) ==
    /\ Runs(w, "export") \/ Runs(w, "delivered")
    /\ ~Woken
    /\ worker' = [worker EXCEPT ![w].step = "stopping"]
    /\ UNCHANGED <<disk, delivered, group, fed, taken>>

(* ...and raises its own error at the end.                                 *)
ExportStopped(w) ==
    /\ Runs(w, "stopping")
    /\ ~Woken
    /\ NotDelivered(w)
    /\ UNCHANGED <<disk, delivered, group, fed, taken>>

(* Mutant: an error of one exporter is forgotten.                          *)
ErrorsForgotten(t, failed) == errors \ {t}

ErrorsFile(t, failed) == IF failed THEN errors \cup {t} ELSE errors \ {t}

WriteErrors(w) ==
    /\ phase = "exporting" /\ worker[w].step = "errors"
    /\ errors' = ErrorsFile(worker[w].trial, worker[w].failed)
    /\ worker' = [worker EXCEPT ![w] = Free("get", @.cancelled)]
    /\ UNCHANGED <<identity, recorded, delivered, group, fed, taken>>

(* A state file or an errors file cannot be written: the exception leaves  *)
(* the worker and aborts the group.                                        *)
WorkerBreaks(w) ==
    /\ \/ Runs(w, "get") /\ taken < fed /\ taken + 1 \in Trials \ Torn /\ taken' = taken + 1
       \/ phase = "exporting" /\ worker[w].step = "errors" /\ UNCHANGED taken
    /\ LET left == [worker EXCEPT ![w] = Free("done", FALSE)]
       IN  worker' = IF aborting THEN left ELSE Cancelled(left)
    /\ aborting' = TRUE
    /\ UNCHANGED <<disk, delivered, run, chosen, phase, fed>>

(* The cancellation arrives at an await of the worker, which it ends,      *)
(* unless a child is being stopped there.                                  *)
CancelArrives(w) ==
    /\ phase = "exporting"
    /\ worker[w].cancelled
    /\ worker[w].step \in {"get", "export", "delivered", "stopping"}
    /\ worker' = [worker EXCEPT ![w] =
           IF @.step = "stopping" THEN [@ EXCEPT !.cancelled = FALSE]
                                  ELSE Free("done", FALSE)]
    /\ UNCHANGED <<disk, delivered, group, fed, taken>>

-----------------------------------------------------------------------------
(* The process.                                                            *)

Crash ==
    /\ phase = "exporting"
    /\ phase' = "crashed"
    /\ UNCHANGED <<disk, delivered, run, chosen, aborting, fed, taken, worker>>

(* The campaign is run again, with these exporters or others.              *)
Resume ==
    /\ phase # "exporting"
    /\ run < MaxRuns
    /\ run' = run + 1
    /\ Begin
    /\ UNCHANGED <<disk, delivered>>

Over == phase # "exporting" /\ run = MaxRuns /\ UNCHANGED vars

(* What the event loop does of itself, and the timers.                     *)
Loop ==
    \/ Feed
    \/ Join
    \/ \E w \in WorkerIds :
           TakeTrial(w) \/ TakeNone(w) \/ WriteErrors(w) \/ CancelArrives(w)

Timers(w) == ExportTimesOut(w) \/ ExportStopped(w)

External(w) ==
    \/ Deliver(w) \/ ExportReturns(w) \/ ExportUnrecorded(w) \/ ExportFails(w)
    \/ ExportOverflows(w) \/ WorkerBreaks(w)

Next ==
    \/ Loop
    \/ \E w \in WorkerIds : Timers(w) \/ External(w)
    \/ Cancel \/ Crash \/ Resume \/ Over

Spec == Init /\ [][Next]_vars

(* The loop runs what is ready, an export is bounded by its timeout, and a *)
(* child that is being stopped is killed after its grace.                  *)
FairSpec == Spec /\ WF_vars(Loop) /\ \A w \in WorkerIds : WF_vars(Timers(w))

-----------------------------------------------------------------------------
(* Properties.                                                             *)

(* An exporter only ever sees one identity of an attempt, through crashes, *)
(* repeated calls and resumed runs: what it receives again is an update.   *)
StableIdentity ==
    \A x, y \in delivered : x[1] = y[1] => x[3] = y[3]

(* trace-exports.json lists nothing an exporter did not receive under the  *)
(* identity in the file.                                                   *)
RecordedIsDelivered ==
    \A t \in Trials : \A e \in recorded[t] : <<t, e, identity[t]>> \in delivered

(* A run that returns has settled every trial: without an errors file      *)
(* beside it, all the run's exporters are recorded.  No trial is dropped   *)
(* between the queue and its workers, and no failure goes unreported.      *)
Accounted ==
    phase = "returned" =>
        \A t \in Trials \ errors : t \notin Torn /\ chosen \subseteq recorded[t]

(* An exporter that is recorded is never called again for that attempt.    *)
NeverRepeated ==
    \A w \in WorkerIds :
        worker[w].step = "export" => worker[w].exporter \notin recorded[worker[w].trial]

(* No run and no crash takes a success off the record, also when the run's *)
(* exporters are others than the last one's.                               *)
RecordGrows == [][\A t \in Trials : recorded[t] \subseteq recorded'[t]]_vars

(* The phase ends though every exporter may hang for ever.                 *)
PhaseEnds == phase = "exporting" ~> phase # "exporting" \/ aborting

(* Not true of this code: a cancelled phase ends as well.  A worker that   *)
(* loses its one cancellation while a child is being stopped goes on with  *)
(* the queue, and when that is empty it waits for a None that nobody puts. *)
CancelEnds == aborting ~> phase # "exporting"
=============================================================================
