----------------------------- MODULE Scheduler -----------------------------
(***************************************************************************)
(* The work-conserving local scheduler of a campaign: `_CapacityPool` and  *)
(* `_run_pending` in campaign.py.  One asyncio task (the scheduler) admits *)
(* the oldest pending trial whose resource claims fit, parks in            *)
(* asyncio.wait, and collects the tasks that finished meanwhile.  A trial  *)
(* that raises, or a cancellation of the scheduler, makes it cancel and    *)
(* await every task it still tracks before the exception leaves.           *)
(*                                                                         *)
(* The event loop is single threaded, so a trial task runs only while the  *)
(* scheduler is suspended (pc is "wait" or "drain").                       *)
(***************************************************************************)
EXTENDS Integers, FiniteSets

CONSTANTS
    N,          \* number of pending trials handed to _run_pending
    Resources,  \* names of the shared resources
    Capacity,   \* slots of each resource
    Claim,      \* slots a trial's variant claims of each resource; 0 is no claim
    Workers     \* limit on concurrently active trials

Trials == 1..N  \* in authored order: a smaller number is older

ASSUME SizeAssumption == N \in Nat /\ Workers \in Nat \ {0}

ASSUME ResourceAssumption == IsFiniteSet(Resources)

(* What _CapacityPool.__init__ validates before the scheduler may start.   *)
PoolIsValid ==
    /\ Capacity \in [Resources -> Nat \ {0}]
    /\ Claim \in [Trials -> [Resources -> Nat]]
    /\ \A t \in Trials : \A r \in Resources : Claim[t][r] <= Capacity[r]

ASSUME PoolAssumption == PoolIsValid

VARIABLES
    status,     \* state of each trial's asyncio task
    active,     \* the tasks the scheduler tracks
    results,    \* the trials whose result was collected
    available,  \* free slots of each resource
    pc,         \* where the scheduler coroutine stands
    cause       \* why the scheduler raised

vars == <<status, active, results, available, pc, cause>>

Outcomes == {"result", "error", "cancelled"}

Pending == {t \in Trials : status[t] = "pending"}
Holders == {t \in Trials : status[t] \in {"created", "running"}}
Finished == {t \in active : status[t] \in Outcomes}

(* Mutant: a cancellation overtakes the tasks that were just created.      *)
UnstartedOvertaken == {}

Unstarted == {t \in active : status[t] = "created"}

TypeOK ==
    /\ status \in [Trials -> {"pending", "created", "running"} \cup Outcomes]
    /\ active \in SUBSET Trials
    /\ results \in SUBSET Trials
    /\ available \in [Resources -> Nat]
    /\ pc \in {"admit", "wait", "drain", "returned", "raised"}
    /\ cause \in {"none", "error", "cancelled"}

Init ==
    /\ status = [t \in Trials |-> "pending"]
    /\ active = {}
    /\ results = {}
    /\ available = Capacity
    /\ pc = "admit"
    /\ cause = "none"

-----------------------------------------------------------------------------
(* Capacity accounting.                                                    *)

Fits(t) == \A r \in Resources : available[r] >= Claim[t][r]

Acquire(t) == [r \in Resources |-> available[r] - Claim[t][r]]

(* Mutant: the finally clause of execute() is forgotten.                   *)
ReleaseNothing(t) == available

Release(t) == [r \in Resources |-> available[r] + Claim[t][r]]

(* Mutant: only the head of the queue is considered.                       *)
FeasibleHead == {t \in Pending : Fits(t) /\ \A s \in Pending : t <= s}

Feasible == {t \in Pending : Fits(t)}

(* Mutant: `<=` for `<`.                                                   *)
WorkerFreeOffByOne == Cardinality(active) <= Workers

WorkerFree == Cardinality(active) < Workers

(* Mutant: a finished task that was cancelled counts as a result.          *)
RaisedErrorsOnly == {t \in Finished : status[t] = "error"}

(* The finished tasks whose task.result() raises.                          *)
Raised == {t \in Finished : status[t] # "result"}

-----------------------------------------------------------------------------
(* The scheduler coroutine.                                                *)

(* The admission loop takes the oldest pending trial that fits.            *)
Admit ==
    /\ pc = "admit"
    /\ WorkerFree
    /\ \E t \in Feasible :
        /\ \A s \in Feasible : t <= s
        /\ status' = [status EXCEPT ![t] = "created"]
        /\ active' = active \cup {t}
        /\ available' = Acquire(t)
    /\ UNCHANGED <<results, pc, cause>>

(* Nothing more can be admitted: suspend in asyncio.wait.                  *)
Park ==
    /\ pc = "admit"
    /\ active # {}
    /\ ~WorkerFree \/ Feasible = {}
    /\ pc' = "wait"
    /\ UNCHANGED <<status, active, results, available, cause>>

(* `while pending or active` is false.                                     *)
Return ==
    /\ pc = "admit"
    /\ active = {}
    /\ Pending = {}
    /\ pc' = "returned"
    /\ UNCHANGED <<status, active, results, available, cause>>

(* The guard of the RuntimeError "no pending trial fits ...".  It is never *)
(* true (NeverStuck), so raising it is not an action.                      *)
NoTrialFits ==
    /\ pc = "admit"
    /\ active = {}
    /\ Pending # {}
    /\ Feasible = {}

(* asyncio.wait returns.  task.result() re-raises what a task raised; the  *)
(* finally block then cancels and gathers the tasks still active.  The     *)
(* partly extended result list is dropped with the exception.              *)
Wake ==
    /\ pc = "wait"
    /\ Finished # {}
    /\ Unstarted = {}
    /\ active' = active \ Finished
    /\ \/ /\ Raised = {}
          /\ results' = results \cup Finished
          /\ pc' = "admit"
          /\ UNCHANGED cause
       \/ \E t \in Raised :
          /\ cause' = status[t]
          /\ pc' = "drain"
          /\ UNCHANGED results
    /\ UNCHANGED <<status, available>>

(* The scheduler's own task is cancelled while it waits.  The assignment   *)
(* to `active` does not happen, so finished tasks stay in it.  The loop's  *)
(* ready queue is FIFO: the tasks created before the wait have taken their *)
(* first step when the cancellation is delivered.                          *)
CancelScheduler ==
    /\ pc = "wait"
    /\ Unstarted = {}
    /\ pc' = "drain"
    /\ cause' = "cancelled"
    /\ UNCHANGED <<status, active, results, available>>

(* Mutant: the cancelled tasks are not awaited.                            *)
DrainedUnawaited ==
    /\ pc = "drain"
    /\ pc' = "raised"
    /\ UNCHANGED <<status, active, results, available, cause>>

(* Mutant: waits for a set that asyncio.wait never empties.                *)
DrainedWhenEmpty ==
    /\ pc = "drain"
    /\ active = {}
    /\ pc' = "raised"
    /\ UNCHANGED <<status, active, results, available, cause>>

(* gather(return_exceptions=True) ends when every task has; cancelling the *)
(* scheduler again does not end it sooner.                                 *)
Drained ==
    /\ pc = "drain"
    /\ active = Finished
    /\ pc' = "raised"
    /\ UNCHANGED <<status, active, results, available, cause>>

-----------------------------------------------------------------------------
(* The trial tasks (`execute`).                                            *)

Suspended == pc \in {"wait", "drain"}

(* The first step of a created task.                                       *)
Start(t) ==
    /\ Suspended
    /\ status[t] = "created"
    /\ status' = [status EXCEPT ![t] = "running"]
    /\ UNCHANGED <<active, results, available, pc, cause>>

(* The task ends; the finally clause gives its slots back on every path.   *)
Finish(t, outcome) ==
    /\ Suspended
    /\ status[t] = "running"
    /\ status' = [status EXCEPT ![t] = outcome]
    /\ available' = Release(t)
    /\ UNCHANGED <<active, results, pc, cause>>

Scheduler == Admit \/ Park \/ Return \/ Wake \/ Drained

Task(t) == Start(t) \/ \E outcome \in Outcomes : Finish(t, outcome)

Stopped == pc \in {"returned", "raised"} /\ UNCHANGED vars

Next == Scheduler \/ CancelScheduler \/ (\E t \in Trials : Task(t)) \/ Stopped

Spec == Init /\ [][Next]_vars

(* The loop runs whatever is ready, and every trial ends: the deadline of  *)
(* `_run_trial` bounds it (module ConversationTrial).                      *)
FairSpec == Spec /\ WF_vars(Scheduler) /\ \A t \in Trials : WF_vars(Task(t))

-----------------------------------------------------------------------------
(* Properties.                                                             *)

(* The slots of resource r that the trials in S hold, one element each.    *)
Held(S, r) == UNION {{t} \X (1..Claim[t][r]) : t \in S}

(* Free and held slots of each resource always add up to its capacity:     *)
(* no path through execute() leaks or returns twice.                       *)
Conservation ==
    \A r \in Resources : available[r] + Cardinality(Held(Holders, r)) = Capacity[r]

(* The tasks holding slots are tracked by the scheduler and within both    *)
(* limits: the worker count and every resource's capacity.                 *)
NoOversubscription ==
    /\ Holders \subseteq active
    /\ Cardinality(active) <= Workers
    /\ \A r \in Resources : Cardinality(Held(Holders, r)) <= Capacity[r]

(* The RuntimeError "no pending trial fits" is unreachable once the pool   *)
(* accepted the claims: an idle scheduler has all capacity back.           *)
NeverStuck == ~NoTrialFits

(* "Run the oldest feasible trials without parking workers on a full       *)
(* resource": while every tracked task is unfinished, the scheduler is not *)
(* asleep on a trial that a free worker could run.                         *)
WorkConserving ==
    pc = "wait" /\ Finished = {} =>
        \/ Cardinality(active) = Workers
        \/ ~\E t \in Pending : Fits(t)

(* A normal return delivers the result of every trial: no trial is lost    *)
(* between the pending list, the active set and the result list, and no    *)
(* task that raised is passed over.                                        *)
ReturnIsComplete ==
    pc = "returned" =>
        /\ results = Trials
        /\ \A t \in Trials : status[t] = "result"

(* When the scheduler raises, no trial is left running behind it: the      *)
(* campaign lock is released only after this point.                        *)
NoOrphans == pc = "raised" => Holders = {}

(* The scheduler as `run` sees it.  A created task has done nothing yet.   *)
Outward(state) ==
    CASE state \in {"pending", "created"} -> "queued"
      [] state \in {"error", "cancelled"} -> "raised"
      [] OTHER                           -> state

TaskOf(t) == IF pc = "raised" THEN "none" ELSE Outward(status[t])

Stage ==
    CASE pc \in {"admit", "wait"} -> "execute"
      [] pc = "raised"           -> "idle"
      [] OTHER                   -> pc

Tasks == INSTANCE TrialTasks
    WITH task <- [t \in Trials |-> TaskOf(t)], stage <- Stage, deaths <- 0

(* The scheduler is one call of _run_pending as `run` relies on it: a      *)
(* trial runs once, none is started after an error or a cancellation, and  *)
(* control comes back with all results or with no trial running.           *)
ImplementsTasks == Tasks!Spec

(* Every call of _run_pending ends, also when it is cancelled while trials *)
(* run or a trial raises.                                                  *)
Terminates == <>(pc \in {"returned", "raised"})
=============================================================================
