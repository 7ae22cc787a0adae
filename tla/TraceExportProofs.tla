------------------------- MODULE TraceExportProofs -------------------------
(***************************************************************************)
(* The safety properties of TraceExport for every number of trials,        *)
(* workers, exporters and runs.                                            *)
(***************************************************************************)
EXTENDS TraceExport, FiniteSetTheorems, TLAPS

(* What a worker holds, and what it knows of the trial's state file: its   *)
(* list of successes is the file's, or ahead of it after a write failed.   *)
Calling(w) == worker[w].step \in {"export", "delivered", "stopping"}
Holds(w) == Calling(w) \/ worker[w].step = "errors"

CallingInv(w) ==
    LET me == worker[w]
    IN  /\ me.trial \notin Torn
        /\ identity[me.trial] # 0
        /\ me.exporter \in chosen \ me.succeeded
        /\ recorded[me.trial] \subseteq me.succeeded
        /\ \A e \in me.succeeded : <<me.trial, e, identity[me.trial]>> \in delivered
        /\ me.step = "delivered" =>
               <<me.trial, me.exporter, identity[me.trial]>> \in delivered
        /\ ~me.failed =>
               /\ me.succeeded = recorded[me.trial]
               /\ \A x \in chosen : x < me.exporter => x \in me.succeeded

WorkerInv(w) ==
    /\ Holds(w) <=> worker[w].trial # 0
    /\ worker[w].trial <= taken
    /\ Calling(w) => CallingInv(w)
    /\ worker[w].step = "errors" /\ ~worker[w].failed =>
           worker[w].trial \notin Torn /\ chosen \subseteq recorded[worker[w].trial]
    /\ worker[w].cancelled => aborting

(* No two workers write beside the same trial.                             *)
OneWriter ==
    \A v, w \in WorkerIds : Holds(w) /\ worker[v].trial = worker[w].trial => v = w

(* What is settled, and what a worker that left in good order has seen.    *)
Settled(t) == t \notin Torn /\ chosen \subseteq recorded[t]

Progress ==
    ~aborting =>
        /\ \A t \in Trials : t <= taken =>
               \/ \E w \in WorkerIds : worker[w].trial = t
               \/ t \in errors \/ Settled(t)
        /\ \A w \in WorkerIds : worker[w].step = "done" => taken >= N

Delivered == \A x \in delivered : x[3] = identity[x[1]]

Returned ==
    phase = "returned" => ~aborting /\ \A w \in WorkerIds : worker[w].step = "done"

IInv ==
    /\ TypeOK
    /\ \A w \in WorkerIds : WorkerInv(w)
    /\ OneWriter
    /\ Progress
    /\ Delivered
    /\ Returned
    /\ RecordedIsDelivered
-----------------------------------------------------------------------------
(* There is a worker.                                                      *)
LEMMA SomeWorker == 1 \in WorkerIds /\ WorkerCount \in Nat /\ Items \in Nat /\ N <= Items
  BY ExportAssumption DEF WorkerIds, WorkerCount, Items

(* Taking from the queue does not overfill it.                             *)
LEMMA ShorterQueue ==
  ASSUME NEW f \in Nat, NEW k \in Nat, NEW l \in Nat, NEW q \in Nat, f - k <= q, k <= l
  PROVE  f - l <= q
  OBVIOUS

LEMMA InitIInv == Init => IInv
<1> SUFFICES ASSUME Init PROVE IInv
  OBVIOUS
<1>1. TypeOK
  <2>1. worker \in [WorkerIds -> Tasks]
    BY ExportAssumption DEF Init, Idle, Free, Steps, Tasks
  <2>2. aborting \in BOOLEAN
    BY Zenon DEF Init
  <2> QED BY <2>1, <2>2, ExportAssumption, SomeWorker DEF Init, TypeOK, QueueSize
<1>2. \A w \in WorkerIds : WorkerInv(w)
  BY DEF Init, WorkerInv, Holds, Calling, Idle, Free
<1>3. OneWriter /\ Delivered /\ Returned /\ RecordedIsDelivered
  BY DEF Init, OneWriter, Holds, Calling, Idle, Free, Delivered, Returned, RecordedIsDelivered
<1>4. Progress
  BY DEF Init, Progress, Idle, Free, Trials
<1> QED BY <1>1, <1>2, <1>3, <1>4 DEF IInv

(* A worker that is only told of a cancellation keeps its invariant, as    *)
(* long as the files beside its trial stay as they are.                    *)
LEMMA OtherWorker ==
  ASSUME IInv, NEW v \in WorkerIds,
         worker'[v] \in {worker[v], [worker[v] EXCEPT !.cancelled = TRUE]},
         worker'[v].cancelled => aborting',
         taken <= taken', taken' \in Nat, chosen' = chosen, delivered \subseteq delivered',
         worker[v].trial \in Trials =>
             /\ identity'[worker[v].trial] = identity[worker[v].trial]
             /\ recorded'[worker[v].trial] = recorded[worker[v].trial]
  PROVE  WorkerInv(v)'
<1>1. /\ worker'[v].step = worker[v].step /\ worker'[v].trial = worker[v].trial
      /\ worker'[v].exporter = worker[v].exporter
      /\ worker'[v].succeeded = worker[v].succeeded
      /\ worker'[v].failed = worker[v].failed
  BY DEF IInv, TypeOK, Tasks
<1>2. WorkerInv(v) /\ worker[v].trial \in 0..N
  BY DEF IInv, TypeOK, Tasks
<1>3. (Holds(v)' <=> Holds(v)) /\ (Calling(v)' <=> Calling(v))
  BY <1>1 DEF Holds, Calling
<1>4. worker[v].trial # 0 => worker[v].trial \in Trials
  BY <1>2, ExportAssumption DEF Trials
<1>5. Calling(v)' => CallingInv(v)'
  BY <1>1, <1>2, <1>3, <1>4 DEF WorkerInv, Holds, CallingInv
<1>6. worker'[v].trial <= taken'
  BY <1>1, <1>2, ExportAssumption DEF WorkerInv, IInv, TypeOK
<1> QED BY <1>1, <1>2, <1>3, <1>4, <1>5, <1>6 DEF WorkerInv, Holds
(* A worker that goes on with a trial that nobody else holds, and that     *)
(* knows of it what its state file says or more, keeps the invariant.      *)
LEMMA ProceedStep ==
  ASSUME IInv, phase = "exporting", NEW w \in WorkerIds, NEW t \in Trials \ Torn,
         NEW e \in Exporters \cup {0}, NEW succeeded \in SUBSET Exporters, NEW failed \in BOOLEAN,
         Proceed(w, t, e, succeeded, failed),
         worker[w].trial \in {0, t},
         \A v \in WorkerIds \ {w} : worker[v].trial # t,
         identity' \in [Trials -> 0..MaxRuns], recorded' \in [Trials -> SUBSET Exporters],
         \A u \in Trials \ {t} : identity'[u] = identity[u] /\ recorded'[u] = recorded[u],
         identity'[t] # 0, identity[t] \in {0, identity'[t]},
         recorded'[t] \subseteq succeeded,
         \A x \in succeeded : <<t, x, identity'[t]>> \in delivered,
         ~failed => succeeded = recorded'[t] /\ \A x \in chosen : x <= e => x \in succeeded,
         taken' \in taken..fed, t <= taken',
         \A u \in Trials : u <= taken' => u <= taken \/ u = t,
         UNCHANGED <<errors, delivered, group, fed>>
  PROVE  IInv'
<1> DEFINE rest == Remaining(e, succeeded)
<1>1. PICK step \in {"errors", "export"}, exporter \in Exporters \cup {0} :
         /\ worker' = [worker EXCEPT ![w] =
                [step |-> step, trial |-> t, exporter |-> exporter, succeeded |-> succeeded,
                 failed |-> failed, cancelled |-> @.cancelled]]
         /\ \/ step = "errors" /\ rest = {}
            \/ step = "export" /\ exporter \in rest /\ \A x \in rest : exporter <= x
  BY DEF Proceed, Remaining, IInv, TypeOK
<1>2. /\ worker'[w] = [step |-> step, trial |-> t, exporter |-> exporter,
                       succeeded |-> succeeded, failed |-> failed,
                       cancelled |-> worker[w].cancelled]
      /\ \A v \in WorkerIds \ {w} : worker'[v] = worker[v]
  BY <1>1 DEF IInv, TypeOK, Tasks
<1>3. t \in Nat \ {0} /\ t \in 0..N /\ N \in Nat
  BY ExportAssumption DEF Trials
<1>4. TypeOK'
  <2>1. worker'[w] \in Tasks
    BY <1>2, <1>3 DEF IInv, TypeOK, Steps, Tasks
  <2>2. worker' \in [WorkerIds -> Tasks]
    BY <1>1, <2>1 DEF IInv, TypeOK, Tasks
  <2>3. fed - taken' <= QueueSize
    <3>1. QueueSize \in Nat
      BY ExportAssumption DEF QueueSize
    <3>2. fed \in Nat /\ taken \in Nat /\ fed - taken <= QueueSize
      BY SomeWorker DEF IInv, TypeOK, Tasks
    <3>3. taken' \in Nat /\ taken <= taken'
      BY <3>2
    <3> QED BY <3>1, <3>2, <3>3, ShorterQueue
  <2> QED BY <2>2, <2>3 DEF IInv, TypeOK, group
<1>5. ASSUME NEW v \in WorkerIds \ {w} PROVE WorkerInv(v)'
  <2>1. taken' \in Nat /\ taken <= taken'
    BY SomeWorker DEF IInv, TypeOK, Tasks
  <2>2. worker[v].cancelled => aborting
    BY DEF IInv, WorkerInv
  <2> QED BY <1>2, <1>5, <2>1, <2>2, OtherWorker DEF group
<1>6. WorkerInv(w)'
  <2>1. Holds(w)' /\ worker'[w].trial = t
    BY <1>2, <1>1 DEF Holds, Calling
  <2>2. worker'[w].cancelled => aborting'
    BY <1>2 DEF IInv, WorkerInv, group
  <2>3. CASE step = "errors"
    <3>1. ~Calling(w)'
      BY <1>2, <2>3 DEF Calling
    <3>2. ~failed => chosen \subseteq recorded'[t]
      <4>1. chosen \subseteq Nat /\ e \in Nat
        BY ExportAssumption DEF IInv, TypeOK, Tasks
      <4>2. \A x \in chosen : x > e => x \in succeeded
        BY <1>1, <2>3 DEF Remaining
      <4> QED BY <4>1, <4>2
    <3> QED BY <1>2, <1>3, <2>1, <2>2, <3>1, <3>2 DEF WorkerInv, group
  <2>4. CASE step = "export"
    <3>1. exporter \in chosen \ succeeded
      BY <1>1, <2>4 DEF Remaining
    <3>2. ~failed => \A x \in chosen : x < exporter => x \in succeeded
      BY <1>1, <2>4, ExportAssumption DEF Remaining, IInv, TypeOK
    <3>3. CallingInv(w)'
      BY <1>2, <2>4, <3>1, <3>2 DEF CallingInv, group
    <3> QED BY <1>2, <1>3, <2>1, <2>2, <2>4, <3>3 DEF WorkerInv, group
  <2> QED BY <1>1, <2>3, <2>4
<1>7. OneWriter'
  <2> SUFFICES ASSUME NEW u \in WorkerIds, NEW v \in WorkerIds,
                      Holds(v)', worker'[u].trial = worker'[v].trial
               PROVE  u = v
    BY DEF OneWriter
  <2>1. CASE u = w \/ v = w
    BY <1>2, <2>1
  <2>2. CASE u # w /\ v # w
    BY <1>2, <2>2 DEF IInv, OneWriter, Holds, Calling
  <2> QED BY <2>1, <2>2
<1>8. Progress'
  <2> SUFFICES ASSUME ~aborting
               PROVE  /\ \A u \in Trials : u <= taken' =>
                             \/ \E v \in WorkerIds : worker'[v].trial = u
                             \/ u \in errors \/ Settled(u)'
                      /\ \A v \in WorkerIds : worker'[v].step = "done" => taken' >= N
    BY DEF Progress, group
  <2>1. ASSUME NEW u \in Trials, u <= taken'
        PROVE  \/ \E v \in WorkerIds : worker'[v].trial = u
               \/ u \in errors \/ Settled(u)'
    <3>1. CASE u = t
      BY <1>2, <3>1
    <3>2. CASE u # t
      <4>1. u <= taken
        BY <2>1, <3>2
      <4>2. u \in Nat \ {0}
        BY ExportAssumption DEF Trials
      <4>3. \/ \E v \in WorkerIds : worker[v].trial = u
            \/ u \in errors \/ Settled(u)
        BY <4>1 DEF IInv, Progress
      <4>4. (\E v \in WorkerIds : worker[v].trial = u) =>
                \E v \in WorkerIds : worker'[v].trial = u
        BY <1>2, <3>2, <4>2
      <4> QED BY <3>2, <4>3, <4>4 DEF Settled, group
    <3> QED BY <3>1, <3>2
  <2>2. ASSUME NEW v \in WorkerIds, worker'[v].step = "done" PROVE taken' >= N
    <3>1. v # w /\ worker[v].step = "done"
      BY <1>1, <1>2, <2>2
    <3>2. taken >= N /\ taken' >= taken /\ taken \in Nat /\ taken' \in Nat
      BY <3>1, SomeWorker DEF IInv, TypeOK, Progress
    <3> QED BY <3>2, <1>3
  <2> QED BY <2>1, <2>2
<1>9. Delivered' /\ RecordedIsDelivered' /\ Returned'
  <2>1. ASSUME NEW x \in delivered PROVE x[3] = identity'[x[1]]
    BY DEF IInv, TypeOK, Delivered
  <2>2. ASSUME NEW u \in Trials, NEW x \in recorded'[u] PROVE <<u, x, identity'[u]>> \in delivered
    BY DEF IInv, RecordedIsDelivered
  <2> QED BY <2>1, <2>2 DEF Delivered, RecordedIsDelivered, Returned, group
<1> QED BY <1>4, <1>5, <1>6, <1>7, <1>8, <1>9 DEF IInv

(* One worker changes without touching a state file; the others are at     *)
(* most told of a cancellation.                                            *)
LEMMA UpdateStep ==
  ASSUME IInv, phase = "exporting", NEW w \in WorkerIds,
         UNCHANGED <<identity, recorded, run, chosen, phase>>,
         TypeOK', taken <= taken', delivered \subseteq delivered',
         \A v \in WorkerIds \ {w} :
             /\ worker'[v] \in {worker[v], [worker[v] EXCEPT !.cancelled = TRUE]}
             /\ worker'[v].cancelled => aborting',
         WorkerInv(w)', Delivered', Progress',
         Holds(w)' => \A v \in WorkerIds \ {w} : worker[v].trial # worker'[w].trial
  PROVE  IInv'
<1>1. ASSUME NEW v \in WorkerIds \ {w} PROVE WorkerInv(v)'
  <2>1. taken' \in Nat
    BY SomeWorker DEF TypeOK
  <2> QED BY <1>1, <2>1, OtherWorker
<1>2. ASSUME NEW v \in WorkerIds \ {w}
      PROVE  worker'[v].trial = worker[v].trial /\ worker'[v].step = worker[v].step
  BY <1>2 DEF IInv, TypeOK, Tasks
<1>3. OneWriter'
  <2> SUFFICES ASSUME NEW u \in WorkerIds, NEW v \in WorkerIds,
                      Holds(v)', worker'[u].trial = worker'[v].trial, u # v
               PROVE  FALSE
    BY DEF OneWriter
  <2>1. CASE v = w
    BY <1>2, <2>1
  <2>2. CASE u = w
    <3>1. Holds(w)' => worker'[w].trial # worker'[v].trial
      BY <1>2, <2>2
    <3>2. worker'[v].trial # 0
      BY <1>1, <2>2 DEF WorkerInv
    <3>3. worker'[w].trial # 0 => Holds(w)'
      BY DEF WorkerInv
    <3> QED BY <2>2, <3>1, <3>2, <3>3
  <2>3. CASE u # w /\ v # w
    BY <1>2, <2>3 DEF IInv, OneWriter, Holds, Calling
  <2> QED BY <2>1, <2>2, <2>3
<1>4. RecordedIsDelivered' /\ Returned'
  BY DEF IInv, RecordedIsDelivered, Returned
<1> QED BY <1>1, <1>3, <1>4 DEF IInv

-----------------------------------------------------------------------------
(* The steps.  Those that call the next exporter, or none.                 *)

LEMMA TakeTrialStep ==
  ASSUME IInv, NEW w \in WorkerIds, TakeTrial(w)
  PROVE  IInv'
<1> DEFINE t == taken + 1
<1>1. /\ taken \in Nat /\ fed \in Nat /\ taken < fed
      /\ t \in Trials /\ taken' = t /\ t \in 0..N
  BY SomeWorker, ExportAssumption DEF IInv, TypeOK, TakeTrial, Trials
<1>2. \A v \in WorkerIds : worker[v].trial # t
  BY <1>1, ExportAssumption DEF IInv, TypeOK, Tasks, WorkerInv
<1>3. worker[w].trial = 0
  BY DEF IInv, WorkerInv, TakeTrial, Runs, Holds, Calling
<1>4. CASE t \notin Torn
  <2>1. Persist(t) /\ Proceed(w, t, 0, recorded[t], FALSE) /\ recorded' = recorded
    BY <1>4 DEF TakeTrial
  <2>2. /\ identity' \in [Trials -> 0..MaxRuns]
        /\ \A u \in Trials \ {t} : identity'[u] = identity[u]
        /\ identity'[t] # 0 /\ identity[t] \in {0, identity'[t]}
    BY <2>1, <1>1, ExportAssumption DEF IInv, TypeOK, Persist
  <2>3. \A x \in recorded[t] : identity[t] # 0
    <3>1. \A x \in recorded[t] : <<t, x, identity[t]>> \in delivered
      BY <1>1 DEF IInv, RecordedIsDelivered
    <3>2. \A y \in delivered : y[3] # 0
      BY ExportAssumption DEF IInv, TypeOK
    <3> QED BY <3>1, <3>2
  <2>4. \A x \in recorded[t] : <<t, x, identity'[t]>> \in delivered
    BY <1>1, <2>2, <2>3 DEF IInv, RecordedIsDelivered
  <2>5. recorded[t] \in SUBSET Exporters
    BY <1>1 DEF IInv, TypeOK
  <2>6. \A x \in chosen : ~(x <= 0)
    BY ExportAssumption DEF IInv, TypeOK
  <2>7. /\ \A u \in Trials : u <= taken' => u <= taken \/ u = t
        /\ taken' \in taken..fed /\ t <= taken'
    BY <1>1, ExportAssumption DEF Trials
  <2>8. \A u \in Trials \ {t} : identity'[u] = identity[u] /\ recorded'[u] = recorded[u]
    BY <2>1, <2>2
  <2>9. phase = "exporting" /\ UNCHANGED <<errors, delivered, group, fed>>
    BY DEF TakeTrial, Runs
  <2>10. recorded' \in [Trials -> SUBSET Exporters]
    BY <2>1 DEF IInv, TypeOK
  <2>11. t \in Trials \ Torn /\ 0 \in Exporters \cup {0} /\ FALSE \in BOOLEAN
    BY <1>1, <1>4
  <2>12. recorded'[t] \subseteq recorded[t] /\ recorded[t] = recorded'[t]
    BY <2>1
  <2>13. /\ worker[w].trial \in {0, t}
         /\ \A v \in WorkerIds \ {w} : worker[v].trial # t
    BY <1>2, <1>3
  <2> HIDE DEF t
  <2> QED BY <1>2, <1>3, <2>1, <2>2, <2>4, <2>5, <2>6, <2>7, <2>8, <2>9, <2>10, <2>11, <2>12, <2>13,
             ProceedStep
<1>5. CASE t \in Torn
  <2>1. worker' = [worker EXCEPT ![w] =
                      [Idle EXCEPT !.step = "errors", !.trial = t, !.failed = TRUE]]
    BY <1>5 DEF TakeTrial
  <2>2. /\ worker'[w] = [Idle EXCEPT !.step = "errors", !.trial = t, !.failed = TRUE]
        /\ \A v \in WorkerIds \ {w} : worker'[v] = worker[v]
    BY <2>1 DEF IInv, TypeOK
  <2>3. UNCHANGED <<identity, recorded, errors, delivered, group, fed>> /\ phase = "exporting"
    BY <1>5 DEF TakeTrial, Runs
  <2>4. worker'[w] \in Tasks
    BY <2>2, <1>1 DEF Idle, Free, Tasks, Steps
  <2>5. TypeOK'
    <3>1. fed - taken' <= QueueSize /\ taken' \in 0..fed
      BY <1>1, SomeWorker, ExportAssumption DEF IInv, TypeOK, QueueSize
    <3> QED BY <3>1, <2>1, <2>3, <2>4 DEF IInv, TypeOK, group
  <2>6. WorkerInv(w)'
    BY <1>1, <2>2 DEF WorkerInv, Holds, Calling, Idle, Free
  <2>7. Progress'
    <3>1. \A u \in Trials : u <= taken' => u <= taken \/ u = t
      BY <1>1, ExportAssumption DEF Trials
    <3>2. \A u \in Trials : (\E v \in WorkerIds : worker[v].trial = u) =>
                               \E v \in WorkerIds : worker'[v].trial = u
      BY <1>3, <2>2, ExportAssumption DEF Trials
    <3>3. \E v \in WorkerIds : worker'[v].trial = t
      BY <2>2 DEF Idle, Free
    <3>4. \A v \in WorkerIds : worker'[v].step = "done" => worker[v].step = "done"
      BY <2>2 DEF Idle, Free
    <3>5. taken >= N => taken' >= N
      BY <1>1, ExportAssumption
    <3> QED BY <2>3, <3>1, <3>2, <3>3, <3>4, <3>5 DEF IInv, Progress, Settled, group
  <2>8. \A v \in WorkerIds \ {w} : worker'[v].cancelled => aborting'
    BY <2>2, <2>3 DEF IInv, WorkerInv, group
  <2>9. worker'[w].trial = t /\ taken <= taken'
    BY <1>1, <2>2 DEF Idle, Free
  <2>10. Delivered'
    BY <2>3 DEF IInv, Delivered
  <2> QED BY <1>2, <2>2, <2>3, <2>5, <2>6, <2>7, <2>8, <2>9, <2>10, UpdateStep DEF group
<1> QED BY <1>4, <1>5

(* The facts about a worker that is calling an exporter.                   *)
LEMMA CallingFacts ==
  ASSUME IInv, NEW w \in WorkerIds, Calling(w)
  PROVE  LET me == worker[w]
         IN  /\ me.trial \in Trials \ Torn /\ me.trial <= taken
             /\ me.exporter \in chosen \ me.succeeded /\ me.exporter \in Exporters
             /\ me.succeeded \in SUBSET Exporters /\ me.failed \in BOOLEAN
             /\ identity[me.trial] # 0
             /\ \A v \in WorkerIds \ {w} : worker[v].trial # me.trial
             /\ CallingInv(w)
<1>1. worker[w] \in Tasks /\ worker[w].trial # 0 /\ CallingInv(w) /\ worker[w].trial <= taken
  BY DEF IInv, TypeOK, WorkerInv, Holds
<1>2. worker[w].trial \in Trials
  BY <1>1, ExportAssumption DEF Tasks, Trials
<1>3. worker[w].exporter \in chosen \ worker[w].succeeded /\ chosen \subseteq Exporters
  BY <1>1 DEF CallingInv, IInv, TypeOK
<1>4. \A v \in WorkerIds \ {w} : worker[v].trial # worker[w].trial
  BY DEF IInv, OneWriter, Holds
<1> QED BY <1>1, <1>2, <1>3, <1>4 DEF CallingInv, Tasks

(* Memory is ahead of the state file by the exporter that returned.        *)
LEMMA ExportReturnsStep ==
  ASSUME IInv, NEW w \in WorkerIds, ExportReturns(w)
  PROVE  IInv'
<1> DEFINE t == worker[w].trial
           e == worker[w].exporter
           all == worker[w].succeeded \cup {e}
<1>1. /\ Calling(w) /\ worker[w].step = "delivered" /\ phase = "exporting"
      /\ recorded' = [recorded EXCEPT ![t] = all]
      /\ Proceed(w, t, e, all, worker[w].failed)
      /\ UNCHANGED <<identity, errors, delivered, group, fed, taken>>
  BY DEF ExportReturns, Runs, Calling, Record
<1>2. /\ t \in Trials \ Torn /\ t <= taken /\ e \in chosen /\ e \in Exporters \cup {0}
      /\ all \in SUBSET Exporters /\ worker[w].failed \in BOOLEAN /\ identity[t] # 0
      /\ \A v \in WorkerIds \ {w} : worker[v].trial # t
  BY <1>1, CallingFacts
<1>3. recorded' \in [Trials -> SUBSET Exporters] /\ recorded'[t] = all
  BY <1>1, <1>2 DEF IInv, TypeOK
<1>4. /\ \A u \in Trials \ {t} : identity'[u] = identity[u] /\ recorded'[u] = recorded[u]
      /\ identity' \in [Trials -> 0..MaxRuns] /\ identity'[t] = identity[t]
  BY <1>1 DEF IInv, TypeOK
<1>5. \A x \in all : <<t, x, identity'[t]>> \in delivered
  BY <1>1, <1>4, CallingFacts DEF CallingInv
<1>6. ~worker[w].failed => \A x \in chosen : x <= e => x \in all
  <2>1. ~worker[w].failed => \A x \in chosen : x < e => x \in worker[w].succeeded
    BY <1>1, CallingFacts DEF CallingInv
  <2>2. chosen \subseteq Nat /\ e \in Nat
    BY <1>2, ExportAssumption DEF IInv, TypeOK
  <2> QED BY <2>1, <2>2
<1>7. taken' \in taken..fed /\ t <= taken' /\ \A u \in Trials : u <= taken' => u <= taken \/ u = t
  BY <1>1, <1>2, SomeWorker DEF IInv, TypeOK
<1>8. worker[w].trial \in {0, t} /\ recorded'[t] \subseteq all /\ identity'[t] # 0
      /\ identity[t] \in {0, identity'[t]} /\ UNCHANGED <<errors, delivered, group, fed>>
  BY <1>1, <1>2, <1>3, <1>4
<1> HIDE DEF t, e, all
<1> QED BY <1>1, <1>2, <1>3, <1>4, <1>5, <1>6, <1>7, <1>8, ProceedStep

(* With `failed` set, memory may be ahead of the file and say less of the  *)
(* exporters that were called.                                             *)
LEMMA FailedCallStep ==
  ASSUME IInv, NEW w \in WorkerIds, Calling(w), phase = "exporting",
         NEW all \in SUBSET Exporters, worker[w].succeeded \subseteq all,
         \A x \in all : <<worker[w].trial, x, identity[worker[w].trial]>> \in delivered,
         Proceed(w, worker[w].trial, worker[w].exporter, all, TRUE),
         UNCHANGED <<disk, delivered, group, fed, taken>>
  PROVE  IInv'
<1> DEFINE t == worker[w].trial
           e == worker[w].exporter
<1>1. /\ t \in Trials \ Torn /\ t <= taken /\ e \in Exporters \cup {0} /\ TRUE \in BOOLEAN
      /\ identity[t] # 0 /\ worker[w].trial \in {0, t}
      /\ \A v \in WorkerIds \ {w} : worker[v].trial # t
  BY CallingFacts
<1>2. /\ identity' \in [Trials -> 0..MaxRuns] /\ recorded' \in [Trials -> SUBSET Exporters]
      /\ \A u \in Trials \ {t} : identity'[u] = identity[u] /\ recorded'[u] = recorded[u]
      /\ identity'[t] = identity[t] /\ UNCHANGED <<errors, delivered, group, fed>>
  BY DEF IInv, TypeOK, disk
<1>3. recorded'[t] \subseteq all
  BY CallingFacts DEF CallingInv, disk
<1>4. taken' \in taken..fed /\ t <= taken' /\ \A u \in Trials : u <= taken' => u <= taken \/ u = t
  BY <1>1, SomeWorker DEF IInv, TypeOK
<1>5. Proceed(w, t, e, all, TRUE) /\ \A x \in all : <<t, x, identity'[t]>> \in delivered
  BY <1>2
<1>6. identity'[t] # 0 /\ identity[t] \in {0, identity'[t]}
  BY <1>1, <1>2
<1> HIDE DEF t, e
<1> QED BY <1>1, <1>2, <1>3, <1>4, <1>5, <1>6, ProceedStep

LEMMA ExportUnrecordedStep ==
  ASSUME IInv, NEW w \in WorkerIds, ExportUnrecorded(w)
  PROVE  IInv'
<1> DEFINE all == worker[w].succeeded \cup {worker[w].exporter}
<1>1. /\ Calling(w) /\ worker[w].step = "delivered" /\ phase = "exporting"
      /\ Proceed(w, worker[w].trial, worker[w].exporter, all, TRUE)
      /\ UNCHANGED <<disk, delivered, group, fed, taken>>
  BY DEF ExportUnrecorded, Runs, Calling
<1>2. /\ all \in SUBSET Exporters /\ worker[w].succeeded \subseteq all
      /\ \A x \in all : <<worker[w].trial, x, identity[worker[w].trial]>> \in delivered
  BY <1>1, CallingFacts DEF CallingInv
<1> HIDE DEF all
<1> QED BY <1>1, <1>2, FailedCallStep

LEMMA NotDeliveredStep ==
  ASSUME IInv, NEW w \in WorkerIds,
         ExportFails(w) \/ ExportTimesOut(w) \/ ExportStopped(w)
  PROVE  IInv'
<1>1. /\ Calling(w) /\ phase = "exporting"
      /\ Proceed(w, worker[w].trial, worker[w].exporter, worker[w].succeeded, TRUE)
      /\ UNCHANGED <<disk, delivered, group, fed, taken>>
  BY DEF ExportFails, ExportTimesOut, ExportStopped, NotDelivered, Runs, Calling
<1>2. /\ worker[w].succeeded \in SUBSET Exporters
      /\ \A x \in worker[w].succeeded :
             <<worker[w].trial, x, identity[worker[w].trial]>> \in delivered
  BY <1>1, CallingFacts DEF CallingInv
<1> QED BY <1>1, <1>2, FailedCallStep

-----------------------------------------------------------------------------
(* The steps of one worker that leave its trial's state file alone.        *)

LEMMA ProgressKept ==
  ASSUME IInv, UNCHANGED <<taken, errors, recorded, chosen, aborting>>,
         \A v \in WorkerIds : /\ worker'[v].trial = worker[v].trial
                              /\ worker'[v].step = "done" => worker[v].step = "done"
  PROVE  Progress'
  BY DEF IInv, Progress, Settled

LEMMA SameTrialStep ==
  ASSUME IInv, NEW w \in WorkerIds, Calling(w), phase = "exporting",
         NEW step \in {"delivered", "stopping"},
         worker' = [worker EXCEPT ![w].step = step],
         delivered \subseteq delivered', Delivered',
         delivered' \in SUBSET (Trials \X Exporters \X (1..MaxRuns)),
         step = "delivered" =>
             <<worker[w].trial, worker[w].exporter, identity[worker[w].trial]>> \in delivered',
         UNCHANGED <<disk, group, fed, taken>>
  PROVE  IInv'
<1>1. /\ worker'[w] = [worker[w] EXCEPT !.step = step]
      /\ \A v \in WorkerIds \ {w} : worker'[v] = worker[v]
  BY DEF IInv, TypeOK
<1>2. worker'[w] \in Tasks
  BY <1>1 DEF IInv, TypeOK, Tasks, Steps
<1>3. TypeOK'
  BY <1>2 DEF IInv, TypeOK, group, disk
<1>4. /\ worker'[w].step = step /\ worker'[w].trial = worker[w].trial
      /\ worker'[w].exporter = worker[w].exporter
      /\ worker'[w].succeeded = worker[w].succeeded
      /\ worker'[w].failed = worker[w].failed /\ worker'[w].cancelled = worker[w].cancelled
  BY <1>1, <1>2 DEF IInv, TypeOK, Tasks
<1>5. WorkerInv(w)'
  <2>1. CallingInv(w)'
    BY <1>4, CallingFacts DEF CallingInv, group, disk
  <2> QED BY <1>4, <2>1 DEF IInv, WorkerInv, Holds, Calling, group
<1>6. Progress'
  BY <1>1, <1>4, ProgressKept DEF group, disk
<1>7. \A v \in WorkerIds \ {w} : worker'[v].cancelled => aborting'
  BY <1>1 DEF IInv, WorkerInv, group
<1>8. \A v \in WorkerIds \ {w} : worker[v].trial # worker'[w].trial
  BY <1>4, CallingFacts
<1>9. taken <= taken' /\ UNCHANGED <<identity, recorded, run, chosen, phase>>
  BY SomeWorker DEF IInv, TypeOK, group, disk
<1> QED BY <1>1, <1>3, <1>5, <1>6, <1>7, <1>8, <1>9, UpdateStep

LEMMA DeliverStep ==
  ASSUME IInv, NEW w \in WorkerIds, Deliver(w)
  PROVE  IInv'
<1> DEFINE x == <<worker[w].trial, worker[w].exporter, identity[worker[w].trial]>>
<1>1. Calling(w) /\ phase = "exporting"
  BY DEF Deliver, Runs, Calling
<1>2. /\ worker' = [worker EXCEPT ![w].step = "delivered"]
      /\ delivered' = delivered \cup {x}
      /\ UNCHANGED <<disk, group, fed, taken>>
  BY <1>1, CallingFacts DEF Deliver
<1>3. x \in Trials \X Exporters \X (1..MaxRuns)
  BY <1>1, CallingFacts, ExportAssumption DEF IInv, TypeOK
<1>4. Delivered'
  BY <1>2 DEF IInv, Delivered, disk
<1>5. delivered' \in SUBSET (Trials \X Exporters \X (1..MaxRuns))
  BY <1>2, <1>3 DEF IInv, TypeOK
<1>6. delivered \subseteq delivered' /\ x \in delivered'
  BY <1>2
<1> QED BY <1>1, <1>2, <1>4, <1>5, <1>6, SameTrialStep

LEMMA ExportOverflowsStep ==
  ASSUME IInv, NEW w \in WorkerIds, ExportOverflows(w)
  PROVE  IInv'
<1>1. /\ Calling(w) /\ phase = "exporting"
      /\ worker' = [worker EXCEPT ![w].step = "stopping"]
      /\ UNCHANGED <<disk, delivered, group, fed, taken>>
  BY DEF ExportOverflows, Runs, Calling
<1>2. /\ delivered' \in SUBSET (Trials \X Exporters \X (1..MaxRuns))
      /\ Delivered' /\ delivered \subseteq delivered'
  BY <1>1 DEF IInv, TypeOK, Delivered, disk
<1> QED BY <1>1, <1>2, SameTrialStep

(* A worker that holds no trial afterwards.                                *)
LEMMA LetGoStep ==
  ASSUME IInv, phase = "exporting", NEW w \in WorkerIds,
         NEW step \in {"get", "done"}, NEW cancelled \in BOOLEAN,
         worker'[w] = Free(step, cancelled),
         cancelled => aborting',
         worker' \in [WorkerIds -> Tasks],
         \A v \in WorkerIds \ {w} :
             /\ worker'[v] \in {worker[v], [worker[v] EXCEPT !.cancelled = TRUE]}
             /\ worker'[v].cancelled => aborting',
         errors' \in SUBSET Trials, taken' \in taken..fed, aborting' \in BOOLEAN, Progress',
         UNCHANGED <<identity, recorded, delivered, run, chosen, phase, fed>>
  PROVE  IInv'
<1>1. worker'[w].step = step /\ worker'[w].trial = 0 /\ worker'[w].cancelled = cancelled
  BY DEF Idle, Free
<1>2. taken' \in 0..fed /\ taken <= taken' /\ taken' \in Nat
  BY SomeWorker DEF IInv, TypeOK
<1>3. fed - taken' <= QueueSize
  <2>1. QueueSize \in Nat
    BY ExportAssumption DEF QueueSize
  <2>2. fed \in Nat /\ taken \in Nat /\ fed - taken <= QueueSize
    BY SomeWorker DEF IInv, TypeOK
  <2> QED BY <1>2, <2>1, <2>2, ShorterQueue
<1>4. TypeOK'
  BY <1>2, <1>3 DEF IInv, TypeOK
<1>5. WorkerInv(w)'
  BY <1>1, <1>2 DEF WorkerInv, Holds, Calling
<1>6. ~Holds(w)'
  BY <1>1 DEF Holds, Calling
<1>7. Delivered'
  BY DEF IInv, Delivered
<1> QED BY <1>2, <1>4, <1>5, <1>6, <1>7, UpdateStep

LEMMA TakeNoneStep ==
  ASSUME IInv, NEW w \in WorkerIds, TakeNone(w)
  PROVE  IInv'
<1>1. /\ phase = "exporting" /\ worker[w].step = "get" /\ ~worker[w].cancelled
      /\ taken < fed /\ taken >= N /\ taken' = taken + 1
      /\ worker' = [worker EXCEPT ![w].step = "done"]
      /\ UNCHANGED <<disk, delivered, group, fed>>
  BY DEF TakeNone, Runs
<1>2. worker[w].trial = 0 /\ worker[w] \in Tasks
  BY <1>1 DEF IInv, TypeOK, WorkerInv, Holds, Calling
<1>3. /\ worker'[w] = [worker[w] EXCEPT !.step = "done"]
      /\ \A v \in WorkerIds \ {w} : worker'[v] = worker[v]
  BY <1>1 DEF IInv, TypeOK
<1>4. worker'[w] \in Tasks /\ worker'[w].step = "done" /\ worker'[w].trial = 0
      /\ worker'[w].cancelled = worker[w].cancelled
  BY <1>2, <1>3 DEF Tasks, Steps
<1>5. taken \in Nat /\ fed \in Nat /\ taken' \in taken..fed
  BY <1>1, SomeWorker DEF IInv, TypeOK
<1>6. TypeOK'
  <2>1. QueueSize \in Nat /\ taken' \in 0..fed
    BY <1>5, ExportAssumption DEF QueueSize
  <2>2. fed - taken' <= QueueSize
    BY <1>1, <1>5, <2>1, ShorterQueue DEF IInv, TypeOK
  <2> QED BY <1>1, <1>4, <2>1, <2>2 DEF IInv, TypeOK, disk, group
<1>7. WorkerInv(w)'
  BY <1>1, <1>4, <1>5, ExportAssumption DEF WorkerInv, Holds, Calling
<1>8. Progress'
  <2>1. taken' >= N
    BY <1>1, <1>5, ExportAssumption
  <2>2. \A u \in Trials : u <= taken
    BY <1>1, <1>5, ExportAssumption DEF Trials
  <2>3. \A v \in WorkerIds : worker'[v].trial = worker[v].trial
    BY <1>2, <1>3, <1>4
  <2> QED BY <1>1, <2>1, <2>2, <2>3 DEF IInv, Progress, Settled, group, disk
<1>9. /\ \A v \in WorkerIds \ {w} : worker'[v].cancelled => aborting'
      /\ ~Holds(w)' /\ Delivered' /\ taken <= taken' /\ delivered \subseteq delivered'
      /\ UNCHANGED <<identity, recorded, run, chosen, phase>>
  BY <1>1, <1>3, <1>4, <1>5 DEF IInv, WorkerInv, Holds, Calling, Delivered, group, disk
<1> QED BY <1>1, <1>3, <1>6, <1>7, <1>8, <1>9, UpdateStep

LEMMA WriteErrorsStep ==
  ASSUME IInv, NEW w \in WorkerIds, WriteErrors(w)
  PROVE  IInv'
<1> DEFINE t == worker[w].trial
<1>1. /\ phase = "exporting" /\ worker[w].step = "errors"
      /\ errors' = IF worker[w].failed THEN errors \cup {t} ELSE errors \ {t}
      /\ worker' = [worker EXCEPT ![w] = Free("get", worker[w].cancelled)]
      /\ UNCHANGED <<identity, recorded, delivered, group, fed, taken>>
  BY DEF WriteErrors, ErrorsFile
<1>2. worker[w] \in Tasks /\ t \in Trials /\ (worker[w].cancelled => aborting)
  <2>1. worker[w] \in Tasks /\ t # 0 /\ (worker[w].cancelled => aborting)
    BY <1>1 DEF IInv, TypeOK, WorkerInv, Holds
  <2> QED BY <2>1, ExportAssumption DEF Tasks, Trials
<1>3. /\ worker'[w] = Free("get", worker[w].cancelled)
      /\ \A v \in WorkerIds \ {w} : worker'[v] = worker[v]
  BY <1>1 DEF IInv, TypeOK
<1>4. worker' \in [WorkerIds -> Tasks] /\ worker[w].cancelled \in BOOLEAN
  <2>1. worker'[w] \in Tasks
    BY <1>2, <1>3, ExportAssumption DEF Free, Tasks, Steps
  <2> QED BY <1>1, <1>2, <2>1 DEF IInv, TypeOK, Tasks
<1>5. Progress'
  <2>1. \/ t \in errors' \/ Settled(t)
    BY <1>1, <1>2 DEF IInv, WorkerInv, Settled
  <2>2. ASSUME NEW u \in Trials, u # t
        PROVE  /\ u \in errors' <=> u \in errors
               /\ (\E v \in WorkerIds : worker[v].trial = u) =>
                      \E v \in WorkerIds : worker'[v].trial = u
    BY <1>1, <1>3, <2>2
  <2>3. \A v \in WorkerIds : worker'[v].step = "done" => worker[v].step = "done"
    BY <1>3 DEF Idle, Free
  <2> QED BY <1>1, <2>1, <2>2, <2>3 DEF IInv, Progress, Settled, group
<1>6. /\ errors' \in SUBSET Trials /\ taken' \in taken..fed
      /\ aborting' \in BOOLEAN /\ UNCHANGED <<run, chosen, phase, aborting>>
  BY <1>1, <1>2, SomeWorker DEF IInv, TypeOK, group
<1>7. \A v \in WorkerIds \ {w} : worker'[v].cancelled => aborting'
  BY <1>3, <1>6 DEF IInv, WorkerInv
<1> HIDE DEF t
<1> QED BY <1>1, <1>2, <1>3, <1>4, <1>5, <1>6, <1>7, LetGoStep

LEMMA CancelArrivesStep ==
  ASSUME IInv, NEW w \in WorkerIds, CancelArrives(w)
  PROVE  IInv'
<1>1. /\ phase = "exporting" /\ worker[w].cancelled /\ aborting
      /\ UNCHANGED <<disk, delivered, group, fed, taken>>
  BY DEF CancelArrives, IInv, WorkerInv
<1>2. aborting' /\ Progress' /\ Delivered' /\ aborting' \in BOOLEAN
  BY <1>1 DEF Progress, Delivered, IInv, TypeOK, group, disk
<1>3. \A v \in WorkerIds \ {w} : worker'[v] = worker[v]
  BY DEF CancelArrives, IInv, TypeOK
<1>4. taken' \in taken..fed /\ taken <= taken' /\ errors' \in SUBSET Trials
  BY <1>1, SomeWorker DEF IInv, TypeOK, disk
<1>5. CASE worker[w].step = "stopping"
  <2>1. Calling(w) /\ worker' = [worker EXCEPT ![w].cancelled = FALSE]
    BY <1>5 DEF CancelArrives, Calling
  <2>2. worker'[w] = [worker[w] EXCEPT !.cancelled = FALSE]
    BY <2>1 DEF IInv, TypeOK
  <2>3. /\ worker'[w].step = worker[w].step /\ worker'[w].trial = worker[w].trial
        /\ worker'[w].exporter = worker[w].exporter
        /\ worker'[w].succeeded = worker[w].succeeded
        /\ worker'[w].failed = worker[w].failed
    BY <2>2 DEF IInv, TypeOK, Tasks
  <2>4. worker'[w] \in Tasks
    BY <2>2 DEF IInv, TypeOK, Tasks
  <2>5. TypeOK'
    BY <1>1, <2>1, <2>4 DEF IInv, TypeOK, group, disk
  <2>6. WorkerInv(w)'
    <3>1. CallingInv(w)'
      BY <1>1, <2>1, <2>3, CallingFacts DEF CallingInv, group, disk
    <3>2. Holds(w)' /\ worker'[w].trial # 0 /\ worker'[w].trial <= taken'
      BY <1>1, <2>1, <2>3 DEF IInv, WorkerInv, Holds, Calling
    <3>3. worker'[w].step # "errors"
      BY <1>5, <2>3
    <3> QED BY <1>2, <3>1, <3>2, <3>3 DEF WorkerInv
  <2>7. \A v \in WorkerIds \ {w} : worker[v].trial # worker'[w].trial
    BY <2>1, <2>3, CallingFacts
  <2> QED BY <1>1, <1>2, <1>3, <1>4, <2>5, <2>6, <2>7, UpdateStep DEF group, disk
<1>6. CASE worker[w].step # "stopping"
  <2>1. worker' = [worker EXCEPT ![w] = Free("done", FALSE)]
    BY <1>6 DEF CancelArrives
  <2>2. worker'[w] = Free("done", FALSE)
    BY <2>1 DEF IInv, TypeOK
  <2>3. worker' \in [WorkerIds -> Tasks]
    <3>1. Free("done", FALSE) \in Tasks
      BY ExportAssumption DEF Free, Tasks, Steps
    <3> QED BY <2>1, <3>1 DEF IInv, TypeOK
  <2>4. FALSE \in BOOLEAN
    OBVIOUS
  <2> QED BY <1>1, <1>2, <1>3, <1>4, <2>2, <2>3, <2>4, LetGoStep DEF group, disk
<1> QED BY <1>5, <1>6

(* Every task that is left is told.                                        *)
LEMMA CancelledTasks ==
  ASSUME NEW tasks \in [WorkerIds -> Tasks]
  PROVE  /\ Cancelled(tasks) \in [WorkerIds -> Tasks]
         /\ \A v \in WorkerIds :
                Cancelled(tasks)[v] \in {tasks[v], [tasks[v] EXCEPT !.cancelled = TRUE]}
         /\ \A v \in WorkerIds : tasks[v].step = "done" => Cancelled(tasks)[v] = tasks[v]
<1>1. \A v \in WorkerIds : [tasks[v] EXCEPT !.cancelled = TRUE] \in Tasks
  BY DEF Tasks
<1> QED BY <1>1 DEF Cancelled

LEMMA WorkerBreaksStep ==
  ASSUME IInv, NEW w \in WorkerIds, WorkerBreaks(w)
  PROVE  IInv'
<1> DEFINE left == [worker EXCEPT ![w] = Free("done", FALSE)]
<1>1. /\ phase = "exporting" /\ aborting' = TRUE
      /\ worker' = IF aborting THEN left ELSE Cancelled(left)
      /\ UNCHANGED <<disk, delivered, run, chosen, phase, fed>>
  BY DEF WorkerBreaks, Runs
<1>2. taken' \in taken..fed
  <2>1. taken \in Nat /\ fed \in Nat /\ taken <= fed
    BY SomeWorker DEF IInv, TypeOK
  <2> QED BY <2>1 DEF WorkerBreaks
<1>3. left \in [WorkerIds -> Tasks] /\ left[w] = Free("done", FALSE) /\ left[w].step = "done"
      /\ \A v \in WorkerIds \ {w} : left[v] = worker[v]
  <2>1. Free("done", FALSE) \in Tasks /\ Free("done", FALSE).step = "done"
    BY ExportAssumption DEF Free, Tasks, Steps
  <2> QED BY <2>1 DEF IInv, TypeOK
<1>4. /\ worker' \in [WorkerIds -> Tasks] /\ worker'[w] = Free("done", FALSE)
      /\ \A v \in WorkerIds \ {w} :
             worker'[v] \in {worker[v], [worker[v] EXCEPT !.cancelled = TRUE]}
  <2> HIDE DEF left
  <2> QED BY <1>1, <1>3, CancelledTasks
<1>5. aborting' \in BOOLEAN /\ Progress' /\ FALSE \in BOOLEAN /\ errors' \in SUBSET Trials
  BY <1>1 DEF Progress, IInv, TypeOK, disk
<1> HIDE DEF left
<1> QED BY <1>1, <1>2, <1>4, <1>5, LetGoStep DEF disk

-----------------------------------------------------------------------------
(* The steps of the group and of the process.                              *)

LEMMA FeedStep ==
  ASSUME IInv, Feed
  PROVE  IInv'
<1>1. /\ fed' \in fed..Items /\ fed' - taken <= QueueSize
      /\ UNCHANGED <<disk, delivered, group, taken, worker>>
  <2>1. fed \in Nat /\ taken \in Nat /\ Items \in Nat /\ QueueSize \in Nat /\ fed <= Items
    BY SomeWorker, ExportAssumption DEF IInv, TypeOK, QueueSize
  <2> QED BY <2>1 DEF Feed, Woken, Sentinels, Room
<1>2. TypeOK'
  BY <1>1, SomeWorker DEF IInv, TypeOK, disk, group
<1>3. \A w \in WorkerIds : WorkerInv(w)'
  BY <1>1 DEF IInv, WorkerInv, CallingInv, Calling, Holds, disk, group
<1> QED
  BY <1>1, <1>2, <1>3
  DEF IInv, OneWriter, Holds, Calling, Progress, Settled, Delivered, Returned,
      RecordedIsDelivered, disk, group

LEMMA CancelStep ==
  ASSUME IInv, Cancel
  PROVE  IInv'
<1>1. /\ phase = "exporting" /\ aborting' = TRUE /\ worker' = Cancelled(worker)
      /\ UNCHANGED <<disk, delivered, run, chosen, phase, fed, taken>>
  BY DEF Cancel
<1>2. PICK w \in WorkerIds : TRUE
  BY SomeWorker
<1>3. /\ worker' \in [WorkerIds -> Tasks]
      /\ \A v \in WorkerIds :
             worker'[v] \in {worker[v], [worker[v] EXCEPT !.cancelled = TRUE]}
  BY <1>1, CancelledTasks DEF IInv, TypeOK
<1>4. TypeOK' /\ taken' \in Nat /\ taken <= taken'
  BY <1>1, <1>3, SomeWorker DEF IInv, TypeOK, disk
<1>5. WorkerInv(w)'
  BY <1>1, <1>3, <1>4, OtherWorker DEF disk
<1>6. Delivered' /\ Progress'
  BY <1>1 DEF IInv, Delivered, Progress, disk
<1>7. worker'[w].trial = worker[w].trial /\ worker'[w].step = worker[w].step
  BY <1>3 DEF IInv, TypeOK, Tasks
<1>8. Holds(w)' => \A v \in WorkerIds \ {w} : worker[v].trial # worker'[w].trial
  BY <1>7 DEF IInv, OneWriter, Holds, Calling
<1> QED BY <1>1, <1>3, <1>4, <1>5, <1>6, <1>8, UpdateStep DEF disk

(* The group is over, by its end or by the end of the process.             *)
LEMMA EndStep ==
  ASSUME IInv, Join \/ Crash
  PROVE  IInv'
<1>1. /\ phase' \in {"returned", "raised", "crashed"}
      /\ phase' = "returned" => ~aborting /\ \A w \in WorkerIds : worker[w].step = "done"
      /\ UNCHANGED <<disk, delivered, run, chosen, aborting, fed, taken, worker>>
  BY DEF Join, Crash
<1>2. TypeOK'
  BY <1>1 DEF IInv, TypeOK, disk
<1>3. \A w \in WorkerIds : WorkerInv(w)'
  BY <1>1 DEF IInv, WorkerInv, CallingInv, Calling, Holds, disk
<1> QED
  BY <1>1, <1>2, <1>3
  DEF IInv, OneWriter, Holds, Calling, Progress, Settled, Delivered, Returned,
      RecordedIsDelivered, disk

LEMMA ResumeStep ==
  ASSUME IInv, Resume
  PROVE  IInv'
<1>1. /\ run' = run + 1 /\ run < MaxRuns /\ chosen' \in SUBSET Exporters
      /\ phase' = "exporting" /\ aborting' = FALSE /\ fed' = 0 /\ taken' = 0
      /\ worker' = [v \in WorkerIds |-> Idle]
      /\ UNCHANGED <<disk, delivered>>
  BY DEF Resume, Begin
<1>2. TypeOK'
  <2>1. Idle \in Tasks
    BY ExportAssumption DEF Idle, Free, Tasks, Steps
  <2>2. fed' - taken' <= QueueSize /\ taken' \in 0..fed' /\ fed' \in 0..Items
    BY <1>1, SomeWorker, ExportAssumption DEF QueueSize
  <2>3. run' \in 1..MaxRuns /\ aborting' \in BOOLEAN
    <3>1. run' \in 1..MaxRuns
      BY <1>1, ExportAssumption DEF IInv, TypeOK
    <3>2. aborting' \in BOOLEAN
      BY <1>1, Zenon
    <3> QED BY <3>1, <3>2
  <2> QED BY <1>1, <2>1, <2>2, <2>3 DEF IInv, TypeOK, disk
<1>3. \A w \in WorkerIds : WorkerInv(w)'
  BY <1>1 DEF WorkerInv, Holds, Calling, Idle, Free
<1>4. OneWriter' /\ Returned'
  BY <1>1 DEF OneWriter, Holds, Calling, Idle, Free, Returned
<1>5. Progress'
  BY <1>1, ExportAssumption DEF Progress, Idle, Free, Trials
<1>6. Delivered' /\ RecordedIsDelivered'
  BY <1>1 DEF IInv, Delivered, RecordedIsDelivered, disk
<1> QED BY <1>2, <1>3, <1>4, <1>5, <1>6 DEF IInv

LEMMA StutterStep ==
  ASSUME IInv, UNCHANGED vars
  PROVE  IInv'
<1>1. TypeOK' /\ \A w \in WorkerIds : WorkerInv(w)'
  BY DEF IInv, TypeOK, WorkerInv, CallingInv, Calling, Holds, vars, disk, group
<1> QED
  BY <1>1
  DEF IInv, OneWriter, Holds, Calling, Progress, Settled, Delivered, Returned,
      RecordedIsDelivered, vars, disk, group

LEMMA NextIInv == IInv /\ [Next]_vars => IInv'
<1> SUFFICES ASSUME IInv, [Next]_vars PROVE IInv'
  OBVIOUS
<1>1. ASSUME NEW w \in WorkerIds, Timers(w) \/ External(w) PROVE IInv'
  BY <1>1, NotDeliveredStep, DeliverStep, ExportReturnsStep, ExportUnrecordedStep,
     ExportOverflowsStep, WorkerBreaksStep
  DEF Timers, External
<1>2. CASE Loop
  BY <1>2, FeedStep, EndStep, TakeTrialStep, TakeNoneStep, WriteErrorsStep, CancelArrivesStep
  DEF Loop
<1> QED
  BY <1>1, <1>2, CancelStep, EndStep, ResumeStep, StutterStep DEF Next, Over

(* The inductive invariant holds throughout.                               *)
THEOREM ExportInvariant == Spec => []IInv
  BY InitIInv, NextIInv, PTL DEF Spec

(* Every variable of the export phase is of its type.                      *)
THEOREM TypeCorrect == Spec => []TypeOK
<1>1. IInv => TypeOK
  BY DEF IInv
<1> QED BY <1>1, ExportInvariant, PTL

(* An attempt keeps the one identity its exporters have seen.              *)
THEOREM IdentityIsStable == Spec => []StableIdentity
<1>1. IInv => StableIdentity
  BY DEF IInv, Delivered, StableIdentity
<1> QED BY <1>1, ExportInvariant, PTL

(* What trace-exports.json lists has been received.                        *)
THEOREM RecordsAreTrue == Spec => []RecordedIsDelivered
<1>1. IInv => RecordedIsDelivered
  BY DEF IInv
<1> QED BY <1>1, ExportInvariant, PTL

(* A run that returns has settled every trial.                             *)
THEOREM ReturnSettlesAll == Spec => []Accounted
<1>1. IInv => Accounted
  <2> SUFFICES ASSUME IInv, phase = "returned", NEW t \in Trials \ errors
               PROVE  Settled(t)
    BY DEF Accounted, Settled
  <2>1. ~aborting /\ \A w \in WorkerIds : worker[w].step = "done"
    BY DEF IInv, Returned
  <2>2. taken >= N /\ t <= taken /\ t # 0
    <3>1. taken >= N /\ taken \in Nat
      BY <2>1, SomeWorker DEF IInv, TypeOK, Progress
    <3> QED BY <3>1, ExportAssumption DEF Trials
  <2>3. \A w \in WorkerIds : worker[w].trial = 0
    BY <2>1 DEF IInv, WorkerInv, Holds, Calling
  <2> QED BY <2>1, <2>2, <2>3 DEF IInv, Progress
<1> QED BY <1>1, ExportInvariant, PTL

(* A recorded exporter is not called again.                                *)
THEOREM CallsAreNotRepeated == Spec => []NeverRepeated
<1>1. IInv => NeverRepeated
  BY DEF IInv, WorkerInv, Calling, CallingInv, NeverRepeated
<1> QED BY <1>1, ExportInvariant, PTL

(* A recorded success stays recorded.                                      *)
THEOREM RecordsGrow == Spec => RecordGrows
<1>1. IInv /\ [Next]_vars => [\A t \in Trials : recorded[t] \subseteq recorded'[t]]_vars
  <2> SUFFICES ASSUME IInv, Next PROVE \A t \in Trials : recorded[t] \subseteq recorded'[t]
    OBVIOUS
  <2>1. ASSUME NEW w \in WorkerIds, ExportReturns(w)
        PROVE  \A t \in Trials : recorded[t] \subseteq recorded'[t]
    <3>1. Calling(w)
      BY <2>1 DEF ExportReturns, Runs, Calling
    <3>2. recorded[worker[w].trial] \subseteq worker[w].succeeded
      BY <3>1, CallingFacts DEF CallingInv
    <3> QED BY <2>1, <3>2 DEF ExportReturns, Record, IInv, TypeOK
  <2>2. CASE \E w \in WorkerIds : Timers(w) \/ External(w)
    <3>1. PICK w \in WorkerIds : Timers(w) \/ External(w)
      BY <2>2
    <3>2. CASE ~ExportReturns(w)
      <4>1. UNCHANGED recorded
        BY <3>1, <3>2
        DEF Timers, External, ExportTimesOut, ExportStopped, Deliver, ExportUnrecorded,
            ExportFails, ExportOverflows, WorkerBreaks, disk
      <4> QED BY <4>1
    <3> QED BY <2>1, <3>2
  <2>3. CASE Loop \/ Cancel \/ Crash \/ Resume \/ Over
    <3>1. UNCHANGED recorded
      BY <2>3
      DEF Loop, Feed, Join, TakeTrial, TakeNone, WriteErrors, CancelArrives, Cancel,
          Crash, Resume, Over, vars, disk
    <3> QED BY <3>1
  <2> QED BY <2>2, <2>3 DEF Next
<1> QED BY <1>1, ExportInvariant, PTL DEF Spec, RecordGrows

-----------------------------------------------------------------------------
(* What `PhaseEnds` rests on, short of fairness: as long as nobody has     *)
(* aborted the group, somebody in it has a step that needs no exporter.    *)

Done == {w \in WorkerIds : worker[w].step = "done"}

(* Each worker that is over has taken one None, and nobody else took one.  *)
OneNoneEach ==
    ~aborting => Cardinality(Done) = IF taken > N THEN taken - N ELSE 0

(* The producer can put, a worker can take, a worker writes its errors     *)
(* file, an export is under its timeout, or the group can be left.         *)
Onward ==
    \/ fed < Sentinels /\ fed < Room
    \/ \E w \in WorkerIds :
           \/ worker[w].step = "get" /\ taken < fed
           \/ worker[w].step \in {"errors", "export", "delivered", "stopping"}
    \/ fed = Sentinels /\ \A w \in WorkerIds : worker[w].step = "done"

LEMMA WorkersAreFinite ==
  ASSUME NEW S \in SUBSET WorkerIds
  PROVE  IsFiniteSet(S) /\ Cardinality(S) \in Nat
<1>1. IsFiniteSet(WorkerIds)
  BY FS_Interval, SomeWorker DEF WorkerIds
<1> QED BY <1>1, FS_Subset, FS_CardinalityType

(* A worker that is not over before and after a step leaves the count.     *)
LEMMA SameDone ==
  ASSUME IInv, NEW w \in WorkerIds, worker[w].step # "done",
         NEW task, task.step # "done", worker' = [worker EXCEPT ![w] = task]
  PROVE  Done' = Done
<1>1. worker'[w] = task /\ \A v \in WorkerIds \ {w} : worker'[v] = worker[v]
  BY DEF IInv, TypeOK
<1> QED BY <1>1 DEF Done

(* Whoever goes on with a trial is not over.                               *)
LEMMA ProceedsUndone ==
  ASSUME IInv, NEW w \in WorkerIds, worker[w].step # "done",
         NEW t, NEW e, NEW succeeded, NEW failed, Proceed(w, t, e, succeeded, failed)
  PROVE  Done' = Done
<1>1. PICK task : task.step # "done" /\ worker' = [worker EXCEPT ![w] = task]
  BY DEF Proceed
<1> QED BY <1>1, SameDone

LEMMA OneNoneEachStep == IInv /\ OneNoneEach /\ [Next]_vars => OneNoneEach'
<1> SUFFICES ASSUME IInv, OneNoneEach, [Next]_vars, ~aborting' PROVE OneNoneEach'
  BY DEF OneNoneEach
<1>0. taken \in Nat /\ N \in Nat \ {0} /\ Done \in SUBSET WorkerIds
  BY SomeWorker, ExportAssumption DEF IInv, TypeOK, Done
<1>1. ASSUME Done' = Done, taken' = taken, aborting' = aborting PROVE OneNoneEach'
  BY <1>1 DEF OneNoneEach
<1>2. ASSUME NEW w \in WorkerIds, TakeTrial(w) PROVE OneNoneEach'
  <2>1. taken < N /\ taken' = taken + 1 /\ aborting' = aborting /\ worker[w].step = "get"
    BY <1>2 DEF TakeTrial, Runs, group
  <2>2. Done' = Done
    <3>1. CASE taken + 1 \notin Torn
      BY <1>2, <2>1, <3>1, ProceedsUndone DEF TakeTrial
    <3>2. CASE taken + 1 \in Torn
      <4> DEFINE task == [Idle EXCEPT !.step = "errors", !.trial = taken + 1, !.failed = TRUE]
      <4>1. task.step # "done" /\ worker' = [worker EXCEPT ![w] = task]
        BY <1>2, <3>2 DEF TakeTrial, Idle, Free
      <4> HIDE DEF task
      <4> QED BY <2>1, <4>1, SameDone
    <3> QED BY <3>1, <3>2
  <2>3. Cardinality(Done) = 0
    BY <1>0, <2>1 DEF OneNoneEach
  <2>4. ~(taken' > N)
    BY <1>0, <2>1
  <2> QED BY <2>2, <2>3, <2>4 DEF OneNoneEach
<1>3. ASSUME NEW w \in WorkerIds, TakeNone(w) PROVE OneNoneEach'
  <2>1. /\ taken >= N /\ taken' = taken + 1 /\ aborting' = aborting
        /\ worker[w].step = "get" /\ worker' = [worker EXCEPT ![w].step = "done"]
    BY <1>3 DEF TakeNone, Runs, group
  <2>2. Done' = Done \cup {w} /\ w \notin Done
    <3>1. /\ worker'[w].step = "done"
          /\ \A v \in WorkerIds \ {w} : worker'[v] = worker[v]
      BY <2>1 DEF IInv, TypeOK, Tasks
    <3> QED BY <2>1, <3>1 DEF Done
  <2>3. Cardinality(Done') = Cardinality(Done) + 1
    BY <1>0, <2>2, WorkersAreFinite, FS_AddElement
  <2>4. Cardinality(Done) = taken - N
    BY <1>0, <2>1 DEF OneNoneEach
  <2>5. Cardinality(Done) + 1 = taken' - N /\ taken' > N
    BY <1>0, <2>1, <2>4
  <2> QED BY <2>3, <2>5 DEF OneNoneEach
<1>4. ASSUME NEW w \in WorkerIds, Timers(w) \/ External(w) PROVE OneNoneEach'
  <2>1. taken' = taken /\ aborting' = aborting /\ worker[w].step \in {"export", "delivered", "stopping"}
    BY <1>4 DEF Timers, External, ExportTimesOut, ExportStopped, Deliver, ExportReturns,
                ExportUnrecorded, ExportFails, ExportOverflows, WorkerBreaks, Runs, group
  <2>2. CASE Deliver(w) \/ ExportOverflows(w)
    <3>1. PICK step \in {"delivered", "stopping"} : worker' = [worker EXCEPT ![w].step = step]
      BY <2>2 DEF Deliver, ExportOverflows
    <3> DEFINE task == [worker[w] EXCEPT !.step = step]
    <3>2. task.step # "done" /\ worker' = [worker EXCEPT ![w] = task]
      BY <3>1 DEF IInv, TypeOK, Tasks
    <3> HIDE DEF task
    <3>3. Done' = Done
      BY <2>1, <3>2, SameDone
    <3> QED BY <1>1, <2>1, <3>3
  <2>3. CASE ExportTimesOut(w) \/ ExportStopped(w) \/ ExportReturns(w) \/ ExportUnrecorded(w)
                 \/ ExportFails(w)
    <3>1. Done' = Done
      BY <2>1, <2>3, ProceedsUndone
         DEF ExportTimesOut, ExportStopped, ExportReturns, ExportUnrecorded, ExportFails,
             NotDelivered
    <3> QED BY <1>1, <2>1, <3>1
  <2>4. ~WorkerBreaks(w)
    BY DEF WorkerBreaks
  <2> QED BY <1>4, <2>2, <2>3, <2>4 DEF Timers, External
<1>5. ASSUME NEW w \in WorkerIds, WriteErrors(w) PROVE OneNoneEach'
  <2>1. /\ taken' = taken /\ aborting' = aborting /\ worker[w].step = "errors"
        /\ worker' = [worker EXCEPT ![w] = Free("get", worker[w].cancelled)]
    BY <1>5 DEF WriteErrors, group
  <2>2. Free("get", worker[w].cancelled).step # "done"
    BY DEF Free
  <2>3. Done' = Done
    BY <2>1, <2>2, SameDone
  <2> QED BY <1>1, <2>1, <2>3
<1>6. ASSUME NEW w \in WorkerIds PROVE ~CancelArrives(w)
  <2>1. worker[w].cancelled => aborting
    BY DEF IInv, WorkerInv
  <2>2. CancelArrives(w) => worker[w].cancelled /\ aborting' = aborting
    BY DEF CancelArrives, group
  <2> QED BY <2>1, <2>2, Zenon
<1>7. CASE Feed \/ Join \/ Crash \/ Over \/ UNCHANGED vars
  <2>1. UNCHANGED <<worker, taken, aborting>>
    BY <1>7 DEF Feed, Join, Crash, Over, vars, group
  <2> QED BY <1>1, <2>1 DEF Done
<1>8. CASE Resume
  <2>1. Done' = {} /\ taken' = 0
    BY <1>8 DEF Resume, Begin, Done, Idle, Free
  <2> QED BY <1>0, <2>1, FS_EmptySet DEF OneNoneEach
<1>9. ~Cancel
  BY DEF Cancel
<1> QED BY <1>2, <1>3, <1>4, <1>5, <1>6, <1>7, <1>8, <1>9 DEF Next, Loop

(* Neither a full queue nor an empty one holds anybody up for ever: until  *)
(* the group is aborted, its producer has room for an item, a worker has   *)
(* an item to take or an export under its timeout, or all are done.  No    *)
(* worker waits for a None that was not put or that another one took.      *)
THEOREM NobodyWaitsInVain == Spec => [](phase = "exporting" /\ ~aborting => Onward)
<1>1. Init => OneNoneEach
  <2> SUFFICES ASSUME Init PROVE OneNoneEach
    OBVIOUS
  <2>1. Done = {} /\ taken = 0 /\ N \in Nat
    BY ExportAssumption DEF Init, Done, Idle, Free
  <2> QED BY <2>1, FS_EmptySet DEF OneNoneEach
<1>2. IInv /\ OneNoneEach => (phase = "exporting" /\ ~aborting => Onward)
  <2> SUFFICES ASSUME IInv, OneNoneEach, ~aborting, ~Onward PROVE FALSE
    OBVIOUS
  <2>1. /\ taken \in Nat /\ fed \in Nat /\ taken <= fed /\ fed <= Items
        /\ N \in Nat \ {0} /\ Workers \in Nat \ {0} /\ WorkerCount \in Nat \ {0}
    BY SomeWorker, ExportAssumption DEF IInv, TypeOK, WorkerCount
  <2>2. \A w \in WorkerIds : worker[w].step \in {"get", "done"}
    BY DEF Onward, IInv, TypeOK, Tasks, Steps
  <2>3. PICK w \in WorkerIds : worker[w].step = "get"
    <3>1. CASE \A w \in WorkerIds : worker[w].step = "done"
      <4>1. Done = WorkerIds /\ Cardinality(WorkerIds) = WorkerCount
        BY <2>1, <3>1, FS_Interval DEF Done, WorkerIds
      <4>2. taken = Items
        BY <2>1, <4>1 DEF OneNoneEach, Items
      <4> QED BY <2>1, <3>1, <4>2 DEF Onward, Sentinels, Items
    <3> QED BY <2>2, <3>1
  <2>4. taken = fed
    BY <2>1, <2>3 DEF Onward
  <2>5. fed = Items
    BY <2>1, <2>4 DEF Onward, Sentinels, Room, QueueSize, Items
  <2>6. Cardinality(Done) = WorkerCount
    BY <2>1, <2>4, <2>5 DEF OneNoneEach, Items
  <2>7. /\ Done \in SUBSET WorkerIds /\ IsFiniteSet(WorkerIds)
        /\ Cardinality(WorkerIds) = WorkerCount /\ w \notin Done
    BY <2>1, <2>3, FS_Interval DEF Done, WorkerIds
  <2>8. Done = WorkerIds
    BY <2>6, <2>7, FS_Subset
  <2> QED BY <2>7, <2>8
<1> QED BY <1>1, <1>2, OneNoneEachStep, ExportInvariant, PTL DEF Spec
=============================================================================
