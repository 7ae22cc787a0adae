-------------------------- MODULE SchedulerProofs --------------------------
(***************************************************************************)
(* Proofs about the scheduler for every number of trials, every pool of    *)
(* resources and every worker limit.  The inductive invariant IInv adds to *)
(* the checked invariants what ties the three views of a trial together:   *)
(* its task's status, the scheduler's `active` set and its result list.    *)
(***************************************************************************)
EXTENDS Scheduler, FiniteSetTheorems, WellFoundedInduction, TLAPS

(* Every task that holds slots is tracked, and nothing pending is.         *)
Tracked == Holders \subseteq active /\ active \cap Pending = {}

(* The scheduler admits and returns only before anything went wrong, and   *)
(* while it runs no tracked task is finished: it has just collected them.  *)
Collected ==
    /\ pc \in {"admit", "wait", "returned"} => cause = "none"
    /\ pc = "admit" => active \subseteq Holders
    /\ \A t \in results : status[t] = "result"
    /\ cause = "none" =>
           \A t \in Trials : status[t] \in Outcomes /\ t \notin active => t \in results

(* What a stopped scheduler leaves behind.                                 *)
Stopping ==
    /\ pc = "returned" => active = {} /\ Pending = {}
    /\ pc = "raised" => Holders = {}

IInv ==
    /\ TypeOK
    /\ Conservation
    /\ Tracked
    /\ Cardinality(active) <= Workers
    /\ Collected
    /\ Stopping

-----------------------------------------------------------------------------
(* No trial, no slots.                                                     *)
LEMMA HeldByNone == ASSUME NEW r PROVE Held({}, r) = {}
  BY DEF Held

(* The slots held by any set of trials are finitely many.                  *)
LEMMA HeldFinite ==
  ASSUME NEW S \in SUBSET Trials, NEW r \in Resources
  PROVE  IsFiniteSet(Held(S, r))
<1>1. IsFiniteSet(Trials) /\ IsFiniteSet(1..Capacity[r])
  BY FS_Interval, SizeAssumption, PoolAssumption DEF Trials, PoolIsValid
<1>2. IsFiniteSet(Trials \X (1..Capacity[r]))
  BY <1>1, FS_Product
<1>3. Held(S, r) \subseteq Trials \X (1..Capacity[r])
  <2> SUFFICES ASSUME NEW t \in S, NEW x \in {t} \X (1..Claim[t][r])
               PROVE  x \in Trials \X (1..Capacity[r])
    BY DEF Held
  <2>1. Claim[t][r] \in Nat /\ Capacity[r] \in Nat /\ Claim[t][r] <= Capacity[r]
    BY PoolAssumption DEF PoolIsValid
  <2> QED BY <2>1
<1> QED BY <1>2, <1>3, FS_Subset

(* One more trial holds exactly its claim more.                            *)
LEMMA HeldAdd ==
  ASSUME NEW S \in SUBSET Trials, NEW r \in Resources,
         NEW t \in Trials, t \notin S
  PROVE  Cardinality(Held(S \cup {t}, r)) = Cardinality(Held(S, r)) + Claim[t][r]
<1>1. PICK c \in Nat : c = Claim[t][r]
  BY PoolAssumption DEF PoolIsValid
<1> DEFINE T == {t} \X (1..c)
           H == Held(S, r)
<1>2. IsFiniteSet(T) /\ Cardinality(T) = c
  <2>1. IsFiniteSet({t}) /\ Cardinality({t}) = 1
    BY FS_Singleton
  <2>2. IsFiniteSet(1..c) /\ Cardinality(1..c) = IF 1 > c THEN 0 ELSE c - 1 + 1
    BY FS_Interval
  <2>3. IsFiniteSet(T) /\ Cardinality(T) = Cardinality({t}) * Cardinality(1..c)
    BY <2>1, <2>2, FS_Product
  <2>4. Cardinality(1..c) = c
    BY <2>2
  <2> QED BY <2>1, <2>3, <2>4
<1>3. Held(S \cup {t}, r) = H \cup T
  BY <1>1 DEF Held
<1>4. H \cap T = {}
  BY DEF Held
<1>5. IsFiniteSet(H) /\ Cardinality(H) \in Nat
  BY HeldFinite, FS_CardinalityType
<1>6. Cardinality(H \cap T) = 0
  BY <1>4, FS_EmptySet
<1>7. Cardinality(H \cup T) = Cardinality(H) + Cardinality(T) - Cardinality(H \cap T)
  BY <1>2, <1>5, FS_Union
<1>8. Cardinality(H \cup T) = Cardinality(H) + c
  <2> HIDE DEF T, H
  <2> QED BY <1>2, <1>5, <1>6, <1>7
<1> QED BY <1>1, <1>3, <1>8

(* Every set of trials is finite.                                          *)
LEMMA TrialsFinite ==
  ASSUME NEW S \in SUBSET Trials
  PROVE  IsFiniteSet(S) /\ Cardinality(S) \in Nat
<1>1. IsFiniteSet(Trials)
  BY FS_Interval, SizeAssumption DEF Trials
<1> QED BY <1>1, FS_Subset, FS_CardinalityType

-----------------------------------------------------------------------------
(* The initial state: nothing is held, everything is pending.              *)
LEMMA InitIInv == Init => IInv
<1> SUFFICES ASSUME Init PROVE IInv
  OBVIOUS
<1>1. Holders = {} /\ active = {} /\ Cardinality(active) = 0
  BY FS_EmptySet DEF Init, Holders
<1>2. TypeOK
  BY PoolAssumption DEF Init, TypeOK, PoolIsValid
<1>3. Conservation
  <2> SUFFICES ASSUME NEW r \in Resources
               PROVE  available[r] + Cardinality(Held(Holders, r)) = Capacity[r]
    BY DEF Conservation
  <2>1. Cardinality(Held(Holders, r)) = 0
    BY <1>1, HeldByNone, FS_EmptySet
  <2>2. available[r] = Capacity[r] /\ Capacity[r] \in Nat
    BY PoolAssumption DEF Init, PoolIsValid
  <2> QED BY <2>1, <2>2
<1>4. Tracked /\ Collected /\ Stopping
  BY <1>1 DEF Init, Tracked, Collected, Stopping, Outcomes
<1>5. Cardinality(active) <= Workers
  BY <1>1, SizeAssumption
<1> QED BY <1>2, <1>3, <1>4, <1>5 DEF IInv

(* Admitting a trial moves its claim from the free to the held slots.      *)
LEMMA AdmitConserves ==
  ASSUME TypeOK, Conservation, NEW t \in Trials, status[t] = "pending", Fits(t),
         status' = [status EXCEPT ![t] = "created"],
         available' = Acquire(t)
  PROVE  Conservation' /\ available' \in [Resources -> Nat]
<1>1. Holders' = Holders \cup {t} /\ t \notin Holders /\ Holders \in SUBSET Trials
  BY DEF Holders, TypeOK
<1>2. ASSUME NEW r \in Resources
      PROVE  /\ available'[r] \in Nat
             /\ available'[r] + Cardinality(Held(Holders', r)) = Capacity[r]
  <2>1. Cardinality(Held(Holders', r)) = Cardinality(Held(Holders, r)) + Claim[t][r]
    BY <1>1, HeldAdd
  <2>2. Cardinality(Held(Holders, r)) \in Nat
    BY <1>1, HeldFinite, FS_CardinalityType
  <2>3. available[r] + Cardinality(Held(Holders, r)) = Capacity[r]
    BY DEF Conservation
  <2>4. available'[r] = available[r] - Claim[t][r]
    BY DEF Acquire
  <2>5. available[r] >= Claim[t][r] /\ available[r] \in Nat /\ Claim[t][r] \in Nat
    BY PoolAssumption DEF Fits, TypeOK, PoolIsValid
  <2> QED BY <2>1, <2>2, <2>3, <2>4, <2>5
<1>3. Conservation'
  BY <1>2 DEF Conservation, Held
<1> QED BY <1>2, <1>3 DEF Acquire

(* A task that ends moves its claim back.                                  *)
LEMMA FinishConserves ==
  ASSUME TypeOK, Conservation, NEW t \in Trials, status[t] = "running",
         NEW outcome \in Outcomes,
         status' = [status EXCEPT ![t] = outcome],
         available' = Release(t)
  PROVE  Conservation' /\ available' \in [Resources -> Nat]
<1>1. /\ Holders = Holders' \cup {t}
      /\ t \notin Holders'
      /\ Holders' \in SUBSET Trials
      /\ Holders \in SUBSET Trials
  BY DEF Holders, TypeOK, Outcomes
<1>2. ASSUME NEW r \in Resources
      PROVE  /\ available'[r] \in Nat
             /\ available'[r] + Cardinality(Held(Holders', r)) = Capacity[r]
  <2>1. Cardinality(Held(Holders, r)) = Cardinality(Held(Holders', r)) + Claim[t][r]
    BY <1>1, HeldAdd
  <2>2. Cardinality(Held(Holders', r)) \in Nat
    BY <1>1, HeldFinite, FS_CardinalityType
  <2>3. available[r] + Cardinality(Held(Holders, r)) = Capacity[r]
    BY DEF Conservation
  <2>4. available'[r] = available[r] + Claim[t][r]
    BY DEF Release
  <2>5. available[r] \in Nat /\ Claim[t][r] \in Nat
    BY PoolAssumption DEF TypeOK, PoolIsValid
  <2> QED BY <2>1, <2>2, <2>3, <2>4, <2>5
<1>3. Conservation'
  BY <1>2 DEF Conservation, Held
<1> QED BY <1>2, <1>3 DEF Release

-----------------------------------------------------------------------------
(* Steps that leave the slots alone keep every slot accounted for.         *)
LEMMA SameHoldersConserve ==
  ASSUME Conservation, Holders' = Holders, UNCHANGED available
  PROVE  Conservation'
  BY DEF Conservation, Held

(* The scheduler's own steps.                                              *)
LEMMA SchedulerStep == IInv /\ (Scheduler \/ CancelScheduler) => IInv'
<1> SUFFICES ASSUME IInv, Scheduler \/ CancelScheduler PROVE IInv'
  OBVIOUS
<1> USE DEF IInv
<1>1. CASE Admit
  <2>1. PICK t \in Feasible :
            /\ status' = [status EXCEPT ![t] = "created"]
            /\ active' = active \cup {t}
            /\ available' = Acquire(t)
    BY <1>1 DEF Admit
  <2>2. t \in Trials /\ status[t] = "pending" /\ Fits(t)
    BY <2>1 DEF Feasible, Pending
  <2>3. Conservation' /\ available' \in [Resources -> Nat]
    BY <2>1, <2>2, AdmitConserves
  <2>4. TypeOK'
    BY <1>1, <2>1, <2>2, <2>3 DEF TypeOK, Admit
  <2>5. Tracked' /\ Collected' /\ Stopping'
    BY <1>1, <2>1, <2>2 DEF Admit, WorkerFree, Tracked, Collected, Stopping, TypeOK,
                            Holders, Pending, Outcomes
  <2>6. Cardinality(active') <= Workers
    <3>1. IsFiniteSet(active) /\ Cardinality(active) \in Nat
      BY TrialsFinite DEF TypeOK
    <3>2. Cardinality(active \cup {t}) =
              IF t \in active THEN Cardinality(active) ELSE Cardinality(active) + 1
      BY <3>1, FS_AddElement
    <3>3. Cardinality(active) < Workers
      BY <1>1 DEF Admit, WorkerFree
    <3> QED BY <2>1, <3>1, <3>2, <3>3, SizeAssumption
  <2> QED BY <2>3, <2>4, <2>5, <2>6
<1>2. CASE Park
  <2>1. Conservation'
    BY <1>2, SameHoldersConserve DEF Park, Holders
  <2>2. TypeOK' /\ Tracked' /\ Collected' /\ Stopping'
    BY <1>2 DEF Park, TypeOK, Tracked, Collected, Stopping, Holders, Pending
  <2> QED BY <1>2, <2>1, <2>2 DEF Park
<1>3. CASE Return
  <2>1. Conservation'
    BY <1>3, SameHoldersConserve DEF Return, Holders
  <2>2. TypeOK' /\ Tracked' /\ Collected' /\ Stopping'
    BY <1>3 DEF Return, TypeOK, Tracked, Collected, Stopping, Holders, Pending
  <2> QED BY <1>3, <2>1, <2>2 DEF Return
<1>4. CASE Wake
  <2>1. Conservation'
    BY <1>4, SameHoldersConserve DEF Wake, Holders
  <2>2. TypeOK'
    BY <1>4 DEF Wake, TypeOK, Raised, Finished, Outcomes
  <2>3. Tracked' /\ Stopping'
    BY <1>4 DEF Wake, Tracked, Stopping, Finished, Holders, Pending, TypeOK, Outcomes
  <2>4. Collected'
    <3>1. pc' = "admit" => active' \subseteq Holders'
      BY <1>4 DEF Wake, TypeOK, Finished, Unstarted, Tracked, Holders, Pending, Outcomes
    <3>2. pc' \in {"admit", "wait", "returned"} => cause' = "none"
      BY <1>4 DEF Wake, Collected
    <3>3. \A t \in results' : status'[t] = "result"
      BY <1>4 DEF Wake, Collected, Raised, Finished
    <3>4. cause' = "none" =>
             \A t \in Trials : status'[t] \in Outcomes /\ t \notin active' => t \in results'
      BY <1>4 DEF Wake, Collected, Raised, Finished, Outcomes, TypeOK
    <3> QED BY <3>1, <3>2, <3>3, <3>4 DEF Collected
  <2>5. Cardinality(active') <= Workers
    <3>1. active' \in SUBSET active /\ IsFiniteSet(active)
      BY <1>4, TrialsFinite DEF Wake, TypeOK
    <3>2. Cardinality(active') <= Cardinality(active)
      BY <3>1, FS_Subset
    <3>3. Cardinality(active') \in Nat /\ Cardinality(active) \in Nat
      BY <2>2, TrialsFinite DEF TypeOK
    <3> QED BY <3>2, <3>3, SizeAssumption
  <2> QED BY <2>1, <2>2, <2>3, <2>4, <2>5
<1>5. CASE Drained
  <2>1. Conservation'
    BY <1>5, SameHoldersConserve DEF Drained, Holders
  <2>2. TypeOK' /\ Tracked' /\ Collected'
    BY <1>5 DEF Drained, TypeOK, Tracked, Collected, Holders, Pending
  <2>3. Stopping'
    BY <1>5 DEF Drained, Stopping, Tracked, Holders, Finished, Outcomes
  <2> QED BY <1>5, <2>1, <2>2, <2>3 DEF Drained
<1>6. CASE CancelScheduler
  <2>1. Conservation'
    BY <1>6, SameHoldersConserve DEF CancelScheduler, Holders
  <2>2. TypeOK' /\ Tracked' /\ Collected' /\ Stopping'
    BY <1>6 DEF CancelScheduler, TypeOK, Tracked, Collected, Stopping, Holders, Pending
  <2> QED BY <1>6, <2>1, <2>2 DEF CancelScheduler
<1> QED BY <1>1, <1>2, <1>3, <1>4, <1>5, <1>6 DEF Scheduler

(* The steps of a trial's task.                                            *)
LEMMA TaskStep == ASSUME NEW t \in Trials PROVE IInv /\ Task(t) => IInv'
<1> SUFFICES ASSUME IInv, Task(t) PROVE IInv'
  OBVIOUS
<1> USE DEF IInv
<1>1. CASE Start(t)
  <2>1. Holders' = Holders
    BY <1>1 DEF Start, Holders, TypeOK
  <2>2. Conservation'
    BY <1>1, <2>1, SameHoldersConserve DEF Start
  <2>3. TypeOK' /\ Tracked' /\ Stopping'
    BY <1>1, <2>1 DEF Start, Suspended, TypeOK, Tracked, Stopping, Holders, Pending
  <2>4. Collected'
    BY <1>1, <2>1 DEF Start, Suspended, Collected, TypeOK, Outcomes
  <2> QED BY <1>1, <2>2, <2>3, <2>4 DEF Start
<1>2. ASSUME NEW outcome \in Outcomes, Finish(t, outcome) PROVE IInv'
  <2>1. Conservation' /\ available' \in [Resources -> Nat]
    BY <1>2, FinishConserves DEF Finish
  <2>2. TypeOK'
    BY <1>2, <2>1 DEF Finish, TypeOK, Outcomes
  <2>3. Tracked' /\ Stopping'
    BY <1>2 DEF Finish, Suspended, TypeOK, Tracked, Stopping, Holders, Pending, Outcomes
  <2>4. Collected'
    BY <1>2 DEF Finish, Suspended, Collected, Tracked, Holders, TypeOK, Outcomes
  <2> QED BY <1>2, <2>1, <2>2, <2>3, <2>4 DEF Finish
<1> QED BY <1>1, <1>2 DEF Task

(* The invariant is inductive.                                             *)
THEOREM SchedulerInvariant == Spec => []IInv
<1>1. IInv /\ [Next]_vars => IInv'
  <2> SUFFICES ASSUME IInv, [Next]_vars PROVE IInv'
    OBVIOUS
  <2>1. CASE UNCHANGED vars
    <3>1. Conservation'
      BY <2>1, SameHoldersConserve DEF vars, Holders, IInv
    <3> QED BY <2>1, <3>1 DEF vars, IInv, TypeOK, Tracked, Collected, Stopping,
                              Holders, Pending
  <2> QED BY <2>1, SchedulerStep, TaskStep DEF Next, Stopped
<1> QED BY InitIInv, <1>1, PTL DEF Spec

-----------------------------------------------------------------------------
(* Every variable keeps its type; no free-slot counter goes negative.      *)
THEOREM TypeCorrect == Spec => []TypeOK
  BY SchedulerInvariant, PTL DEF IInv

(* No path through execute() leaks a slot or returns one twice.            *)
THEOREM CapacityConserved == Spec => []Conservation
  BY SchedulerInvariant, PTL DEF IInv

(* Neither the worker limit nor a resource is ever oversubscribed.         *)
THEOREM NeverOversubscribed == Spec => []NoOversubscription
<1>1. IInv => NoOversubscription
  <2> SUFFICES ASSUME IInv, NEW r \in Resources
               PROVE  Cardinality(Held(Holders, r)) <= Capacity[r]
    BY DEF NoOversubscription, IInv, Tracked
  <2>1. Cardinality(Held(Holders, r)) \in Nat
    BY HeldFinite, FS_CardinalityType DEF Holders
  <2>2. available[r] \in Nat /\ available[r] + Cardinality(Held(Holders, r)) = Capacity[r]
    BY DEF IInv, TypeOK, Conservation
  <2> QED BY <2>1, <2>2
<1> QED BY <1>1, SchedulerInvariant, PTL

(* An idle scheduler has every slot back, so whatever is pending fits: the *)
(* RuntimeError of _run_pending cannot be raised.                          *)
THEOREM SchedulerNeverStuck == Spec => []NeverStuck
<1>1. IInv => NeverStuck
  <2> SUFFICES ASSUME IInv, NoTrialFits PROVE FALSE
    BY DEF NeverStuck
  <2>1. PICK t \in Trials : t \in Pending
    BY DEF NoTrialFits, Pending
  <2>2. Holders = {}
    BY DEF NoTrialFits, IInv, Tracked
  <2>3. ASSUME NEW r \in Resources PROVE available[r] >= Claim[t][r]
    <3>1. Cardinality(Held(Holders, r)) = 0
      BY <2>2, HeldByNone, FS_EmptySet
    <3>2. available[r] + Cardinality(Held(Holders, r)) = Capacity[r]
      BY DEF IInv, Conservation
    <3>3. Claim[t][r] <= Capacity[r] /\ available[r] \in Nat /\ Claim[t][r] \in Nat
      BY PoolAssumption DEF PoolIsValid, IInv, TypeOK
    <3> QED BY <3>1, <3>2, <3>3
  <2>4. t \in Feasible
    BY <2>1, <2>3 DEF Feasible, Fits
  <2> QED BY <2>4 DEF NoTrialFits
<1> QED BY <1>1, SchedulerInvariant, PTL

(* Before anything went wrong, what is neither pending nor tracked has its *)
(* result.                                                                 *)
LEMMA AllCollected ==
  ASSUME IInv, pc \in {"admit", "returned"}, active = {}, Pending = {}
  PROVE  results = Trials /\ \A t \in Trials : status[t] = "result"
<1>1. Holders = {} /\ cause = "none"
  BY DEF IInv, Tracked, Collected
<1>2. \A t \in Trials : status[t] \in Outcomes
  BY <1>1 DEF IInv, TypeOK, Pending, Holders
<1>3. Trials \subseteq results
  BY <1>1, <1>2 DEF IInv, Collected
<1> QED BY <1>3 DEF IInv, TypeOK, Collected

(* A normal return has collected the result of every trial.                *)
THEOREM ReturnsComplete == Spec => []ReturnIsComplete
<1>1. IInv => ReturnIsComplete
  BY AllCollected DEF IInv, Stopping, ReturnIsComplete
<1> QED BY <1>1, SchedulerInvariant, PTL

(* When the scheduler raises, every trial it started has ended.            *)
THEOREM RaisesWithoutOrphans == Spec => []NoOrphans
<1>1. IInv => NoOrphans
  BY DEF IInv, Stopping, NoOrphans
<1> QED BY <1>1, SchedulerInvariant, PTL

(* The scheduler parks only when it has to, and while it is parked either  *)
(* nothing changes that a pending trial could use or a task has finished.  *)
LEMMA ParkedStep == IInv /\ WorkConserving /\ [Next]_vars => WorkConserving'
<1> SUFFICES ASSUME IInv, WorkConserving, [Next]_vars, pc' = "wait", Finished' = {}
             PROVE  Cardinality(active') = Workers \/ ~\E t \in Pending' : Fits(t)'
  BY DEF WorkConserving
<1>1. CASE Park
  <2>1. UNCHANGED <<status, active, available>>
    BY <1>1 DEF Park
  <2>2. CASE Feasible = {}
    BY <2>1, <2>2 DEF Feasible, Pending, Fits
  <2>3. CASE ~WorkerFree
    <3>1. Cardinality(active) \in Nat /\ Cardinality(active) <= Workers
      BY TrialsFinite DEF IInv, TypeOK
    <3> QED BY <2>1, <2>3, <3>1, SizeAssumption DEF WorkerFree
  <2> QED BY <1>1, <2>2, <2>3 DEF Park
<1>2. ASSUME NEW t \in Trials, Start(t)
      PROVE  Cardinality(active') = Workers \/ ~\E s \in Pending' : Fits(s)'
  <2>1. pc = "wait" /\ UNCHANGED <<active, available>>
    BY <1>2 DEF Start
  <2>2. Pending' = Pending /\ Finished' = Finished
    BY <1>2 DEF Start, Pending, Finished, Outcomes, IInv, TypeOK
  <2> QED BY <2>1, <2>2 DEF WorkConserving, Fits
<1>3. ASSUME NEW t \in Trials, NEW outcome \in Outcomes, Finish(t, outcome)
      PROVE  FALSE
  <2>1. t \in active
    BY <1>3 DEF Finish, IInv, Tracked, Holders
  <2>2. t \in Finished'
    BY <1>3, <2>1 DEF Finish, Finished, IInv, TypeOK
  <2> QED BY <2>2
<1>4. CASE UNCHANGED vars
  BY <1>4 DEF vars, WorkConserving, Pending, Fits, Finished
<1>5. ~Admit /\ ~Return /\ ~Wake /\ ~Drained /\ ~CancelScheduler
  BY DEF Admit, Return, Wake, Drained, CancelScheduler
<1> QED BY <1>1, <1>2, <1>3, <1>4, <1>5 DEF Next, Scheduler, Task, Stopped

(* No worker sleeps while a pending trial fits: the oldest feasible trial  *)
(* is run, whichever older ones a full resource holds back.                *)
THEOREM WorksWhilePossible == Spec => []WorkConserving
<1>1. Init => WorkConserving
  BY DEF Init, WorkConserving
<1> QED BY <1>1, ParkedStep, SchedulerInvariant, PTL DEF Spec

-----------------------------------------------------------------------------
(* The scheduler is a call of _run_pending as `run` relies on it.          *)

(* Whoever waits has a task to wait for, and an exception finds no task    *)
(* that has not taken its first step.                                      *)
Waiting ==
    /\ pc = "wait" => active # {}
    /\ pc = "drain" => \A t \in Trials : status[t] # "created"

LEMMA WaitingStep == IInv /\ Waiting /\ [Next]_vars => Waiting'
<1> SUFFICES ASSUME IInv, Waiting, [Next]_vars PROVE Waiting'
  OBVIOUS
<1>0. TypeOK /\ Tracked
  BY DEF IInv
<1>1. CASE Admit
  BY <1>1 DEF Admit, Waiting
<1>2. CASE Park
  BY <1>2 DEF Park, Waiting
<1>3. CASE Wake \/ CancelScheduler
  BY <1>0, <1>3 DEF Wake, CancelScheduler, Waiting, Tracked, Holders, Unstarted
<1>4. CASE Return \/ Drained
  BY <1>4 DEF Return, Drained, Waiting
<1>5. ASSUME NEW t \in Trials, Task(t) PROVE Waiting'
  BY <1>0, <1>5 DEF Task, Start, Finish, Outcomes, Waiting, TypeOK
<1>6. CASE UNCHANGED vars
  BY <1>6 DEF vars, Waiting
<1> QED BY <1>1, <1>2, <1>3, <1>4, <1>5, <1>6 DEF Next, Scheduler, Stopped

TaskView == [t \in Trials |-> TaskOf(t)]

(* A task that changes shows as one task that changes.                     *)
LEMMA ViewOfTask ==
  ASSUME TypeOK, pc # "raised", UNCHANGED pc, NEW t \in Trials, NEW state,
         status' = [status EXCEPT ![t] = state]
  PROVE  TaskView' = [TaskView EXCEPT ![t] = Outward(state)]
<1>1. ASSUME NEW u \in Trials
      PROVE  TaskOf(u)' = IF u = t THEN Outward(state) ELSE TaskOf(u)
  BY DEF TypeOK, TaskOf
<1> QED BY <1>1 DEF TaskView

LEMMA TasksStep ==
  ASSUME IInv, Waiting, [Next]_vars
  PROVE  [Tasks!Next]_<<TaskView, Stage, 0>>
<1>0. TypeOK /\ Tracked
  BY DEF IInv
<1>1. CASE Admit
  <2>1. PICK t \in Trials : status[t] = "pending" /\ status' = [status EXCEPT ![t] = "created"]
    BY <1>1 DEF Admit, Feasible, Pending
  <2>2. TaskView' = [TaskView EXCEPT ![t] = Outward("created")]
    BY <1>0, <1>1, <2>1, ViewOfTask DEF Admit
  <2>3. TaskView[t] = Outward("created")
    BY <1>1, <2>1 DEF Admit, TaskView, TaskOf, Outward
  <2>4. TaskView' = TaskView
    BY <2>2, <2>3 DEF TaskView
  <2> QED BY <1>1, <2>4 DEF Admit, Stage
<1>2. CASE Park
  BY <1>2 DEF Park, TaskView, TaskOf, Stage
<1>3. CASE Return
  <2>1. \A t \in Trials : status[t] = "result"
    BY <1>3, AllCollected DEF Return
  <2>2. \A t \in Trials : TaskView[t] = "result"
    BY <1>3, <2>1 DEF Return, TaskView, TaskOf, Outward
  <2>3. TaskView' = TaskView /\ Stage = "execute" /\ Stage' = "returned"
    BY <1>3 DEF Return, TaskView, TaskOf, Stage
  <2>4. Tasks!Return
    BY <2>2, <2>3 DEF Tasks!Return, TaskView
  <2> QED BY <2>4 DEF Tasks!Next
<1>4. CASE Wake \/ CancelScheduler
  <2>1. TaskView' = TaskView /\ Stage = "execute"
    BY <1>4 DEF Wake, CancelScheduler, TaskView, TaskOf, Stage
  <2>2. CASE pc' = "drain"
    <3>1. \E t \in Trials : status[t] \in Outcomes \cup {"running"}
      BY <1>0, <1>4 DEF Wake, CancelScheduler, Finished, Unstarted, Waiting, TypeOK, Tracked,
                        Pending
    <3>2. PICK t \in Trials : TaskView[t] \in {"running", "result", "raised"}
      BY <1>4, <3>1 DEF Wake, CancelScheduler, TaskView, TaskOf, Outward, Outcomes
    <3>3. Stage' = "drain"
      BY <2>2 DEF Stage
    <3>4. Tasks!Abort
      BY <2>1, <3>2, <3>3 DEF Tasks!Abort, TaskView
    <3> QED BY <3>4 DEF Tasks!Next
  <2>3. CASE pc' = "admit"
    BY <2>1, <2>3 DEF Stage
  <2> QED BY <1>4, <2>2, <2>3 DEF Wake, CancelScheduler
<1>5. CASE Drained
  <2>1. \A t \in Trials : status[t] \notin {"created", "running"}
    BY <1>5, <1>0 DEF Drained, Finished, Tracked, Holders, Outcomes
  <2>2. \A t \in Trials : TaskView[t] # "running"
    BY <1>5, <2>1, <1>0 DEF Drained, TaskView, TaskOf, Outward, TypeOK, Outcomes
  <2>3. TaskView' = [t \in Trials |-> "none"] /\ Stage = "drain" /\ Stage' = "idle"
    BY <1>5 DEF Drained, TaskView, TaskOf, Stage
  <2>4. Tasks!Leave
    BY <2>2, <2>3 DEF Tasks!Leave, Tasks!Over, Tasks!none, TaskView
  <2> QED BY <2>4 DEF Tasks!Next
<1>6. ASSUME NEW t \in Trials, Start(t) PROVE Tasks!Start(t)
  <2>1. pc = "wait" /\ UNCHANGED pc
    BY <1>6 DEF Start, Suspended, Waiting
  <2>2. TaskView' = [TaskView EXCEPT ![t] = "running"]
    <3>1. TaskView' = [TaskView EXCEPT ![t] = Outward("running")]
      BY <1>0, <1>6, <2>1, ViewOfTask DEF Start
    <3> QED BY <3>1 DEF Outward
  <2>3. TaskView[t] = "queued"
    BY <1>6, <2>1 DEF Start, TaskView, TaskOf, Outward
  <2>4. Stage = "execute" /\ Stage' = "execute"
    BY <2>1 DEF Stage
  <2> QED BY <2>2, <2>3, <2>4 DEF Tasks!Start, TaskView
<1>7. ASSUME NEW t \in Trials, NEW outcome \in Outcomes, Finish(t, outcome)
      PROVE  \E o \in {"result", "raised"} : Tasks!End(t, o)
  <2>1. pc # "raised" /\ UNCHANGED pc
    BY <1>7 DEF Finish, Suspended
  <2>2. TaskView' = [TaskView EXCEPT ![t] = Outward(outcome)]
    BY <1>0, <1>7, <2>1, ViewOfTask DEF Finish
  <2>3. Outward(outcome) \in {"result", "raised"}
    BY DEF Outward, Outcomes
  <2>4. TaskView[t] = "running"
    BY <1>7, <2>1 DEF Finish, TaskView, TaskOf, Outward
  <2>5. Stage' = Stage
    BY <2>1 DEF Stage
  <2> QED BY <2>2, <2>3, <2>4, <2>5 DEF Tasks!End, TaskView
<1>8. CASE UNCHANGED vars
  BY <1>8 DEF vars, TaskView, TaskOf, Stage
<1> QED BY <1>1, <1>2, <1>3, <1>4, <1>5, <1>6, <1>7, <1>8
        DEF Next, Scheduler, Task, Stopped, Tasks!Next

(* Whatever finishes, raises or is cancelled, and in which order, the      *)
(* scheduler keeps what `run` relies on: a trial runs at most once, none   *)
(* starts after an error, control comes back complete or with none running.*)
THEOREM SchedulerImplementsTasks == Spec => ImplementsTasks
<1>1. Init => Waiting
  BY DEF Init, Waiting
<1>2. Init => Tasks!Init
  <2> SUFFICES ASSUME Init PROVE Tasks!Init
    OBVIOUS
  <2>1. Stage = "execute" /\ \A t \in Trials : TaskOf(t) = "queued"
    BY DEF Init, Stage, TaskOf, Outward
  <2>2. [t \in Trials |-> TaskOf(t)] \in Tasks!Handed
    BY <2>1 DEF Tasks!Handed
  <2> QED BY <2>1, <2>2 DEF Tasks!Init
<1> QED BY <1>1, <1>2, WaitingStep, TasksStep, SchedulerInvariant, PTL
        DEF Spec, ImplementsTasks, Tasks!Spec, TaskView

-----------------------------------------------------------------------------
(* What `Terminates` rests on, short of fairness: whoever waits has a task *)
(* that goes on or is over, and the steps of a call run out.               *)

(* The scheduler can admit, park, return, collect or leave, or a trial is  *)
(* running whose end will let it.                                          *)
Onward ==
    \/ /\ pc = "admit"
       /\ \/ WorkerFree /\ \E t \in Feasible : \A s \in Feasible : t <= s
          \/ active # {} /\ (~WorkerFree \/ Feasible = {})
          \/ active = {} /\ Pending = {}
    \/ pc = "wait" /\ Finished # {} /\ Unstarted = {}
    \/ pc = "drain" /\ active = Finished
    \/ pc \in {"wait", "drain"} /\ Holders # {}

(* In no order of admissions, results, errors and cancellations does the   *)
(* scheduler wait for tasks that are not there or have all ended already,  *)
(* or idle before a queue of which nothing fits.                           *)
THEOREM NeverWaitsForNothing == Spec => [](pc \notin {"returned", "raised"} => Onward)
<1>1. IInv /\ Waiting /\ NeverStuck => (pc \notin {"returned", "raised"} => Onward)
  <2> SUFFICES ASSUME IInv, Waiting, NeverStuck, pc \notin {"returned", "raised"}
               PROVE  Onward
    OBVIOUS
  <2>1. CASE pc = "admit"
    <3>1. active = {} => WorkerFree
      <4>1. active = {} => Cardinality(active) = 0
        BY FS_EmptySet
      <4> QED BY <4>1, SizeAssumption DEF WorkerFree
    <3>2. Feasible # {} => \E t \in Feasible : \A s \in Feasible : t <= s
      <4>1. Feasible \in SUBSET Nat
        BY SizeAssumption DEF Feasible, Pending, Trials
      <4> DEFINE Older == OpToRel(<, Nat)
      <4>2. \A s, t \in Nat : <<s, t>> \in Older <=> s < t
        BY DEF OpToRel
      <4>3. IsWellFoundedOn(Older, Nat)
        BY NatLessThanWellFounded
      <4> HIDE DEF Older
      <4>4. Feasible # {} => \E t \in Feasible : \A s \in Feasible : <<s, t>> \notin Older
        BY <4>1, <4>3, WFMin
      <4>5. \A s, t \in Feasible : <<s, t>> \notin Older => t <= s
        <5>1. \A s, t \in Nat : ~(s < t) => t <= s
          OBVIOUS
        <5> QED BY <4>1, <4>2, <5>1, Zenon
      <4> QED BY <4>4, <4>5, Zenon
    <3>3. active = {} => Pending = {} \/ Feasible # {}
      BY <2>1 DEF NeverStuck, NoTrialFits
    <3> QED BY <2>1, <3>1, <3>2, <3>3, Zenon DEF Onward
  <2>2. CASE Holders = {} /\ pc # "admit"
    <3>1. active = Finished /\ Unstarted = {} /\ pc \in {"wait", "drain"}
      BY <2>2 DEF IInv, TypeOK, Tracked, Holders, Pending, Finished, Unstarted
    <3> QED BY <3>1 DEF Waiting, Onward
  <2>3. CASE Holders # {} /\ pc # "admit"
    BY <2>3 DEF IInv, TypeOK, Onward
  <2> QED BY <2>1, <2>2, <2>3
<1>2. Init => Waiting
  BY DEF Init, Waiting
<1> QED BY <1>1, <1>2, WaitingStep, SchedulerInvariant, SchedulerNeverStuck, PTL DEF Spec

Created == {t \in Trials : status[t] = "created"}
Running == {t \in Trials : status[t] = "running"}

(* What the place of the scheduler still allows without a task.            *)
Place ==
    CASE pc = "admit" -> 3
      [] pc = "wait"  -> 2
      [] pc = "drain" -> 1
      [] OTHER        -> 0

(* The most steps the call can still take.  A pending trial stands for its *)
(* admission, start and end, and for the round that collects it.           *)
StepsLeft ==
    5 * Cardinality(Pending) + 2 * Cardinality(Created) + Cardinality(Running)
        + 2 * Cardinality(active) + Place

(* One trial joins a set of trials, or leaves it.                          *)
LEMMA OneMore ==
  ASSUME NEW S \in SUBSET Trials, NEW t \in Trials, t \notin S
  PROVE  Cardinality(S \cup {t}) = Cardinality(S) + 1
  BY TrialsFinite, FS_AddElement

LEMMA OneLess ==
  ASSUME NEW S \in SUBSET Trials, NEW t \in S
  PROVE  Cardinality(S \ {t}) = Cardinality(S) - 1
  BY TrialsFinite, FS_RemoveElement

(* Every count is a number, before and after a step.                       *)
LEMMA CountsAreNatural ==
  ASSUME TypeOK
  PROVE  /\ Cardinality(Pending) \in Nat
         /\ Cardinality(Created) \in Nat
         /\ Cardinality(Running) \in Nat
         /\ Cardinality(active) \in Nat
         /\ Place \in Nat
<1>1. /\ Pending \in SUBSET Trials /\ Created \in SUBSET Trials
      /\ Running \in SUBSET Trials /\ active \in SUBSET Trials
  BY DEF TypeOK, Pending, Created, Running
<1> QED BY <1>1, TrialsFinite DEF Place

(* A place lost counts, and a task collected counts for more than a place. *)
LEMMA PlaceFalls ==
  ASSUME NEW n \in Nat, NEW x \in Nat, NEW y \in Nat, y < x
  PROVE  n + y < n + x
  OBVIOUS

LEMMA RoundFalls ==
  ASSUME NEW n \in Nat, NEW a \in Nat, NEW b \in Nat, b < a,
         NEW x \in Nat, NEW y \in Nat, y <= x + 1
  PROVE  n + 2 * b + y < n + 2 * a + x
  OBVIOUS

(* Whichever step is taken, the count falls.                               *)
LEMMA CallStep == IInv /\ Next => UNCHANGED vars \/ StepsLeft' < StepsLeft
<1> SUFFICES ASSUME IInv, Next, ~UNCHANGED vars PROVE StepsLeft' < StepsLeft
  OBVIOUS
<1>0. TypeOK /\ Tracked /\ active \in SUBSET Trials
  BY DEF IInv, TypeOK
<1> DEFINE p == Cardinality(Pending)
           c == Cardinality(Created)
           r == Cardinality(Running)
           a == Cardinality(active)
<1>n. p \in Nat /\ c \in Nat /\ r \in Nat /\ a \in Nat /\ Place \in Nat
  BY <1>0, CountsAreNatural
<1>1. CASE Admit
  <2>1. PICK t \in Trials : /\ status[t] = "pending"
                            /\ status' = [status EXCEPT ![t] = "created"]
                            /\ active' = active \cup {t}
    BY <1>1 DEF Admit, Feasible, Pending
  <2>2. /\ Pending' = Pending \ {t} /\ t \in Pending
        /\ Created' = Created \cup {t} /\ t \notin Created
        /\ Running' = Running
        /\ t \notin active
    BY <1>0, <2>1 DEF TypeOK, Tracked, Pending, Created, Running
  <2>3. p' = p - 1
    BY <2>2, OneLess DEF Pending
  <2>4. c' = c + 1
    BY <2>2, OneMore DEF Created
  <2>5. r' = r
    BY <2>2
  <2>6. a' = a + 1
    BY <1>0, <2>1, <2>2, OneMore
  <2>7. Place' = Place
    BY <1>1 DEF Admit, Place
  <2> HIDE DEF p, c, r, a
  <2>8. 5 * p' + 2 * c' + r' + 2 * a' + Place' < 5 * p + 2 * c + r + 2 * a + Place
    BY <1>n, <2>3, <2>4, <2>5, <2>6, <2>7
  <2> QED BY <2>8 DEF StepsLeft, p, c, r, a
<1>2. CASE Park \/ Return \/ CancelScheduler \/ Drained
  <2>1. p' = p /\ c' = c /\ r' = r /\ a' = a
    BY <1>2 DEF Park, Return, CancelScheduler, Drained, Pending, Created, Running
  <2>2. Place' < Place
    BY <1>2 DEF Park, Return, CancelScheduler, Drained, Place
  <2>3. Place' \in Nat
    BY DEF Place
  <2> HIDE DEF p, c, r, a
  <2>4. 5 * p' + 2 * c' + r' + 2 * a' + Place' < 5 * p + 2 * c + r + 2 * a + Place
    <3>1. 5 * p + 2 * c + r + 2 * a \in Nat
      BY <1>n
    <3> QED BY <1>n, <2>1, <2>2, <2>3, <3>1, PlaceFalls, Zenon
  <2> QED BY <2>4 DEF StepsLeft, p, c, r, a
<1>3. CASE Wake
  <2>1. p' = p /\ c' = c /\ r' = r
    BY <1>3 DEF Wake, Pending, Created, Running
  <2>2. PICK t \in active : active' \subseteq active \ {t}
    BY <1>3 DEF Wake, Finished
  <2>3. a' < a /\ a' \in Nat
    <3>1. Cardinality(active \ {t}) = a - 1 /\ IsFiniteSet(active \ {t})
      BY <1>0, OneLess, TrialsFinite
    <3>2. Cardinality(active') <= Cardinality(active \ {t})
      BY <2>2, <3>1, FS_Subset
    <3>3. Cardinality(active') \in Nat
      BY <1>0, <2>2, TrialsFinite
    <3> QED BY <1>n, <3>1, <3>2, <3>3
  <2>4. Place' <= Place + 1 /\ Place' \in Nat
    BY <1>3 DEF Wake, Place
  <2> HIDE DEF p, c, r, a
  <2>5. 5 * p' + 2 * c' + r' + 2 * a' + Place' < 5 * p + 2 * c + r + 2 * a + Place
    <3>1. 5 * p + 2 * c + r \in Nat
      BY <1>n
    <3> QED BY <1>n, <2>1, <2>3, <2>4, <3>1, RoundFalls, Zenon
  <2> QED BY <2>5 DEF StepsLeft, p, c, r, a
<1>4. ASSUME NEW t \in Trials, Task(t) PROVE StepsLeft' < StepsLeft
  <2>1. a' = a /\ Place' = Place
    BY <1>4 DEF Task, Start, Finish, Place
  <2>2. CASE Start(t)
    <3>1. /\ Pending' = Pending
          /\ Created' = Created \ {t} /\ t \in Created
          /\ Running' = Running \cup {t} /\ t \notin Running
      BY <1>0, <2>2 DEF Start, TypeOK, Pending, Created, Running
    <3>2. p' = p /\ c' = c - 1
      BY <3>1, OneLess DEF Created
    <3>3. r' = r + 1
      BY <3>1, OneMore DEF Running
    <3> HIDE DEF p, c, r, a
    <3>4. 5 * p' + 2 * c' + r' + 2 * a' + Place' < 5 * p + 2 * c + r + 2 * a + Place
      BY <1>n, <2>1, <3>2, <3>3
    <3> QED BY <3>4 DEF StepsLeft, p, c, r, a
  <2>3. CASE \E outcome \in Outcomes : Finish(t, outcome)
    <3>1. /\ Pending' = Pending
          /\ Created' = Created
          /\ Running' = Running \ {t} /\ t \in Running
      BY <1>0, <2>3 DEF Finish, TypeOK, Outcomes, Pending, Created, Running
    <3>2. p' = p /\ c' = c /\ r' = r - 1
      BY <3>1, OneLess DEF Running
    <3> HIDE DEF p, c, r, a
    <3>4. 5 * p' + 2 * c' + r' + 2 * a' + Place' < 5 * p + 2 * c + r + 2 * a + Place
      BY <1>n, <2>1, <3>2
    <3> QED BY <3>4 DEF StepsLeft, p, c, r, a
  <2> QED BY <1>4, <2>2, <2>3 DEF Task
<1> QED BY <1>1, <1>2, <1>3, <1>4 DEF Next, Scheduler, Stopped

(* A call of _run_pending takes at most five steps per trial and three of  *)
(* its own, whatever fails, is cancelled or overtakes what.                *)
THEOREM StepsRunOut ==
    Spec => /\ StepsLeft = 5 * N + 3
            /\ [](StepsLeft \in Nat)
            /\ [][StepsLeft' < StepsLeft]_vars
<1>1. IInv => StepsLeft \in Nat
  <2> SUFFICES ASSUME IInv PROVE StepsLeft \in Nat
    OBVIOUS
  <2>1. /\ Cardinality(Pending) \in Nat /\ Cardinality(Created) \in Nat
        /\ Cardinality(Running) \in Nat /\ Cardinality(active) \in Nat /\ Place \in Nat
    BY CountsAreNatural DEF IInv
  <2> QED BY <2>1 DEF StepsLeft
<1>2. IInv /\ [Next]_vars => [StepsLeft' < StepsLeft]_vars
  BY CallStep
<1>3. Init => StepsLeft = 5 * N + 3
  <2> SUFFICES ASSUME Init PROVE StepsLeft = 5 * N + 3
    OBVIOUS
  <2>1. Pending = 1..N /\ Created = {} /\ Running = {} /\ active = {}
    BY DEF Init, Pending, Created, Running, Trials
  <2>2. Cardinality(1..N) = N /\ Cardinality({}) = 0
    BY FS_Interval, FS_EmptySet, SizeAssumption
  <2>3. Place = 3
    BY DEF Init, Place
  <2>4. 5 * N + 2 * 0 + 0 + 2 * 0 + 3 = 5 * N + 3
    BY SizeAssumption
  <2> QED BY <2>1, <2>2, <2>3, <2>4 DEF StepsLeft
<1> QED BY <1>1, <1>2, <1>3, SchedulerInvariant, PTL DEF Spec
=============================================================================
