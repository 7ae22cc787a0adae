---------------------------- MODULE CampaignRun ----------------------------
(***************************************************************************)
(* `run` in campaign.py over one campaign directory: processes that take   *)
(* the directory's lock, pin the manifest, scan prior receipts, run what   *)
(* is missing, write report.json and export traces; and that are refused,  *)
(* cancelled, fail or crash at any point and are started again.            *)
(*                                                                         *)
(* The directory is durable; everything else dies with its process.  A     *)
(* file is written to a temporary name and renamed (`_write_json`), so a   *)
(* crash leaves it either absent or whole.  Trials of one process run as   *)
(* tasks of one event loop: a task's code up to its first await is not     *)
(* interleaved with its own process, but a crash can cut it anywhere.      *)
(***************************************************************************)
EXTENDS Integers, FiniteSets

CONSTANTS
    Procs,          \* operating-system processes that run the campaign
    N,              \* trials of the campaign (or of the shard)
    Definitions,    \* campaign definitions a process may be started with
    Nobody,         \* the lock is free
    NoManifest,     \* campaign.json does not exist
    MaxAttempts,    \* bound: attempts of one trial
    MaxCrashes      \* bound: process crashes in a behaviour

Trials == 1..N
Attempts == 1..MaxAttempts

ASSUME RunAssumption ==
    /\ N \in Nat
    /\ MaxAttempts \in Nat \ {0}
    /\ MaxCrashes \in Nat
    /\ Nobody \notin Procs
    /\ NoManifest \notin Definitions

Receipts == {"completed", "failed", "interrupted"}

VARIABLES
    lock,       \* holder of the directory's flock
    manifest,   \* campaign.json
    files,      \* each attempt directory: "made" has no started.json yet,
                \*   "started" has no result.json yet, else the receipt's kind
    report,     \* report.json: attempt and kind per trial; attempt 0, no report
    crashes,
    pc,         \* where `run` stands in each process
    defn,       \* the definition each process was started with
    retry,      \* its retry_interrupted flag
    next,       \* the next trial it scans
    plan,       \* the attempt it reuses or executes for each trial
    seen,       \* the kind of the receipt it holds in memory
    task        \* its trial's task

durable == <<lock, manifest, files, report>>
local == <<pc, defn, retry, next, plan, seen, task>>
vars == <<durable, crashes, local>>

TaskStates == {"none", "reused", "queued", "making", "running", "result", "raised"}

TypeOK ==
    /\ lock \in Procs \cup {Nobody}
    /\ manifest \in Definitions \cup {NoManifest}
    /\ files \in [Trials -> [Attempts -> {"absent", "made", "started"} \cup Receipts]]
    /\ report \in [Trials -> [attempt : 0..MaxAttempts, kind : Receipts \cup {"none"}]]
    /\ crashes \in 0..MaxCrashes
    /\ pc \in [Procs -> {"idle", "locked", "scan", "execute", "drain", "report", "export"}]
    /\ defn \in [Procs -> Definitions \cup {NoManifest}]
    /\ retry \in [Procs -> BOOLEAN]
    /\ next \in [Procs -> 1..(N + 1)]
    /\ plan \in [Procs -> [Trials -> 0..MaxAttempts]]
    /\ seen \in [Procs -> [Trials -> Receipts \cup {"none"}]]
    /\ task \in [Procs -> [Trials -> TaskStates]]

Init ==
    /\ lock = Nobody
    /\ manifest = NoManifest
    /\ files = [t \in Trials |-> [a \in Attempts |-> "absent"]]
    /\ report = [t \in Trials |-> [attempt |-> 0, kind |-> "none"]]
    /\ crashes = 0
    /\ pc = [p \in Procs |-> "idle"]
    /\ defn = [p \in Procs |-> NoManifest]
    /\ retry = [p \in Procs |-> FALSE]
    /\ next = [p \in Procs |-> 1]
    /\ plan = [p \in Procs |-> [t \in Trials |-> 0]]
    /\ seen = [p \in Procs |-> [t \in Trials |-> "none"]]
    /\ task = [p \in Procs |-> [t \in Trials |-> "none"]]

-----------------------------------------------------------------------------
(* Mutant: the first attempt directory instead of the last.                *)
LatestIsFirst(t, a) ==
    /\ files[t][a] # "absent"
    /\ \A b \in Attempts : b < a => files[t][b] = "absent"

(* The attempt directory _prior_result takes: the highest number present.  *)
Latest(t, a) ==
    /\ files[t][a] # "absent"
    /\ \A b \in Attempts : b > a => files[t][b] = "absent"

Untried(t) == \A a \in Attempts : files[t][a] = "absent"

(* The process leaves the lock's context: its memory is gone, its flock is *)
(* released.  The same happens when `run` returns, raises, or dies.        *)
Leave(p) ==
    /\ lock' = Nobody
    /\ pc' = [pc EXCEPT ![p] = "idle"]
    /\ defn' = [defn EXCEPT ![p] = NoManifest]
    /\ retry' = [retry EXCEPT ![p] = FALSE]
    /\ next' = [next EXCEPT ![p] = 1]
    /\ plan' = [plan EXCEPT ![p] = [t \in Trials |-> 0]]
    /\ seen' = [seen EXCEPT ![p] = [t \in Trials |-> "none"]]
    /\ task' = [task EXCEPT ![p] = [t \in Trials |-> "none"]]

(* `run` is called and takes the lock.  The lock is tried without blocking *)
(* and nothing was written before it, so a refused call leaves no trace    *)
(* and is not a step.  Retries are limited to the modelled attempts.       *)
Acquire(p, d, r) ==
    /\ pc[p] = "idle"
    /\ lock = Nobody
    /\ r => \A t \in Trials : files[t][MaxAttempts] = "absent"
    /\ lock' = p
    /\ pc' = [pc EXCEPT ![p] = "locked"]
    /\ defn' = [defn EXCEPT ![p] = d]
    /\ retry' = [retry EXCEPT ![p] = r]
    /\ UNCHANGED <<manifest, files, report, crashes, next, plan, seen, task>>

MatchesManifest(p) == manifest \in {NoManifest, defn[p]}

(* The first run pins the definition; a later one must bring the same.     *)
PinManifest(p) ==
    /\ pc[p] = "locked"
    /\ MatchesManifest(p)
    /\ manifest' = defn[p]
    /\ pc' = [pc EXCEPT ![p] = "scan"]
    /\ UNCHANGED <<lock, files, report, crashes, defn, retry, next, plan, seen, task>>

RejectManifest(p) ==
    /\ pc[p] = "locked"
    /\ ~MatchesManifest(p)
    /\ Leave(p)
    /\ UNCHANGED <<manifest, files, report, crashes>>

-----------------------------------------------------------------------------
(* _prior_result, one trial at a time in authored order.                   *)

Scanned(p, t) ==
    /\ pc[p] = "scan"
    /\ next[p] = t
    /\ next' = [next EXCEPT ![p] = t + 1]
    /\ UNCHANGED <<lock, manifest, report, crashes, pc, defn, retry>>

Queue(p, t, a) ==
    /\ plan' = [plan EXCEPT ![p][t] = a]
    /\ task' = [task EXCEPT ![p][t] = "queued"]
    /\ UNCHANGED seen

Reuse(p, t, a, kind) ==
    /\ plan' = [plan EXCEPT ![p][t] = a]
    /\ task' = [task EXCEPT ![p][t] = "reused"]
    /\ seen' = [seen EXCEPT ![p][t] = kind]

(* Mutant: failed trials are retried as well.                              *)
RetriesFailures(p, kind) == retry[p] /\ kind # "completed"

Retries(p, kind) == retry[p] /\ kind = "interrupted"

(* Mutant: the Interrupted receipt is only returned, not written.          *)
LeaveOrphan(t, a) == UNCHANGED files

CloseOrphan(t, a) == files' = [files EXCEPT ![t][a] = "interrupted"]

ScanUntried(p, t) ==
    /\ Scanned(p, t)
    /\ Untried(t)
    /\ Queue(p, t, 1)
    /\ UNCHANGED files

ScanReceipt(p, t, a) ==
    /\ Scanned(p, t)
    /\ Latest(t, a)
    /\ files[t][a] \in Receipts
    /\ IF Retries(p, files[t][a])
       THEN Queue(p, t, a + 1)
       ELSE Reuse(p, t, a, files[t][a])
    /\ UNCHANGED files

(* started.json without result.json: the previous process died, so the     *)
(* scan writes the Interrupted receipt itself.                             *)
ScanOrphan(p, t, a) ==
    /\ Scanned(p, t)
    /\ Latest(t, a)
    /\ files[t][a] = "started"
    /\ CloseOrphan(t, a)
    /\ IF Retries(p, "interrupted") THEN Queue(p, t, a + 1) ELSE Reuse(p, t, a, "interrupted")

(* Neither file: ValueError "incomplete attempt directory".                *)
ScanIncomplete(p, t, a) ==
    /\ pc[p] = "scan"
    /\ next[p] = t
    /\ Latest(t, a)
    /\ files[t][a] = "made"
    /\ Leave(p)
    /\ UNCHANGED <<manifest, files, report, crashes>>

EndScan(p) ==
    /\ pc[p] = "scan"
    /\ next[p] = N + 1
    /\ pc' = [pc EXCEPT ![p] = "execute"]
    /\ UNCHANGED <<durable, crashes, defn, retry, next, plan, seen, task>>

-----------------------------------------------------------------------------
(* The tasks of _run_trial.  Which queued trial starts next is decided by  *)
(* the scheduler (module Scheduler); here any of them may.                 *)

(* No task of p is between mkdir and its first await.                      *)
Settled(p) == \A t \in Trials : task[p][t] # "making"

Running(p) == {t \in Trials : task[p][t] \in {"making", "running"}}

(* attempt-NNNN is created with exist_ok=False.                            *)
MakeAttempt(p, t) ==
    /\ pc[p] = "execute"
    /\ Settled(p)
    /\ task[p][t] = "queued"
    /\ files[t][plan[p][t]] = "absent"
    /\ files' = [files EXCEPT ![t][plan[p][t]] = "made"]
    /\ task' = [task EXCEPT ![p][t] = "making"]
    /\ UNCHANGED <<lock, manifest, report, crashes, pc, defn, retry, next, plan, seen>>

WriteStarted(p, t) ==
    /\ task[p][t] = "making"
    /\ files' = [files EXCEPT ![t][plan[p][t]] = "started"]
    /\ task' = [task EXCEPT ![p][t] = "running"]
    /\ UNCHANGED <<lock, manifest, report, crashes, pc, defn, retry, next, plan, seen>>

(* The trial ends and writes result.json.  Completed and Failed receipts   *)
(* are returned, unless closing the trace fails afterwards; an interrupted *)
(* trial re-raises its cancellation, which came from the draining          *)
(* scheduler or from inside the harness.                                   *)
EndTrial(p, t, kind) ==
    /\ Settled(p)
    /\ task[p][t] = "running"
    /\ files' = [files EXCEPT ![t][plan[p][t]] = kind]
    /\ \/ kind # "interrupted" /\ task' = [task EXCEPT ![p][t] = "result"]
       \/ task' = [task EXCEPT ![p][t] = "raised"]
    /\ seen' = [seen EXCEPT ![p][t] = kind]
    /\ UNCHANGED <<lock, manifest, report, crashes, pc, defn, retry, next, plan>>

(* Writing a file fails: the directory keeps the state it has.             *)
TaskFails(p, t) ==
    /\ task[p][t] \in {"making", "running"}
    /\ task[p][t] = "running" => Settled(p)
    /\ task' = [task EXCEPT ![p][t] = "raised"]
    /\ UNCHANGED <<durable, crashes, pc, defn, retry, next, plan, seen>>

-----------------------------------------------------------------------------
(* The rest of `run`.                                                      *)

(* _run_pending raises: a task raised, or the process was cancelled while  *)
(* it waited for one, which may have ended by the time this arrives.       *)
BeginDrain(p) ==
    /\ pc[p] = "execute"
    /\ Settled(p)
    /\ \E t \in Trials : task[p][t] \in {"running", "raised", "result"}
    /\ pc' = [pc EXCEPT ![p] = "drain"]
    /\ UNCHANGED <<durable, crashes, defn, retry, next, plan, seen, task>>

(* Mutant: the lock is released while cancelled tasks still run.           *)
DrainedUnawaited(p) ==
    /\ pc[p] = "drain"
    /\ lock' = Nobody
    /\ pc' = [pc EXCEPT ![p] = "idle"]
    /\ UNCHANGED <<manifest, files, report, crashes, defn, retry, next, plan, seen, task>>

(* The exception leaves `run` once no task is left.                        *)
Drained(p) ==
    /\ pc[p] = "drain"
    /\ Running(p) = {}
    /\ Leave(p)
    /\ UNCHANGED <<manifest, files, report, crashes>>

(* Mutant: reused results are not counted in.                              *)
DeliveredNow == {"result"}

(* Mutant: a trial whose task raised needs no result.                      *)
DeliveredAny == {"reused", "result", "raised"}

Delivered == {"reused", "result"}

AllDone(p) ==
    /\ pc[p] = "execute"
    /\ \A t \in Trials : task[p][t] \in Delivered
    /\ pc' = [pc EXCEPT ![p] = "report"]
    /\ UNCHANGED <<durable, crashes, defn, retry, next, plan, seen, task>>

WriteReport(p) ==
    /\ pc[p] = "report"
    /\ report' = [t \in Trials |-> [attempt |-> plan[p][t], kind |-> seen[p][t]]]
    /\ pc' = [pc EXCEPT ![p] = "export"]
    /\ UNCHANGED <<lock, manifest, files, crashes, defn, retry, next, plan, seen, task>>

(* Trace export (module TraceExport) changes no receipt; `run` then ends,  *)
(* whether export returned or was cancelled.                               *)
EndExport(p) ==
    /\ pc[p] = "export"
    /\ Leave(p)
    /\ UNCHANGED <<manifest, files, report, crashes>>

Crash(p) ==
    /\ pc[p] # "idle"
    /\ crashes < MaxCrashes
    /\ crashes' = crashes + 1
    /\ Leave(p)
    /\ UNCHANGED <<manifest, files, report>>

Scan(p) ==
    \/ \E t \in Trials :
        \/ ScanUntried(p, t)
        \/ \E a \in Attempts :
            ScanReceipt(p, t, a) \/ ScanOrphan(p, t, a) \/ ScanIncomplete(p, t, a)
    \/ EndScan(p)

Task(p) ==
    \E t \in Trials :
        MakeAttempt(p, t) \/ WriteStarted(p, t) \/ \E kind \in Receipts : EndTrial(p, t, kind)

(* The steps a live process takes of itself.                               *)
Progress(p) ==
    \/ PinManifest(p) \/ RejectManifest(p)
    \/ Scan(p) \/ Task(p)
    \/ Drained(p) \/ AllDone(p) \/ WriteReport(p) \/ EndExport(p)

Next ==
    \E p \in Procs :
        \/ \E d \in Definitions, r \in BOOLEAN : Acquire(p, d, r)
        \/ Progress(p)
        \/ BeginDrain(p)
        \/ \E t \in Trials : TaskFails(p, t)
        \/ Crash(p)

Spec == Init /\ [][Next]_vars

(* A live process keeps running, a raised task is noticed, and somebody    *)
(* keeps re-running the campaign with each definition and no retry flag.   *)
(* Strong fairness, because another run may hold the lock in between.      *)
FairSpec ==
    /\ Spec
    /\ \A p \in Procs :
        /\ WF_vars(Progress(p))
        /\ WF_vars(BeginDrain(p) /\ \E t \in Trials : task[p][t] = "raised")
    /\ \A d \in Definitions : SF_vars(\E p \in Procs : Acquire(p, d, FALSE))

-----------------------------------------------------------------------------
(* Properties.                                                             *)

(* The directory seen as the abstract ledger: a directory without          *)
(* started.json is no attempt yet.                                         *)
Shown(state) ==
    CASE state = "made"    -> "absent"
      [] state = "started" -> "open"
      [] OTHER             -> state

Recorded(t, a) == Shown(files[t][a])

Ledger == INSTANCE TrialLedger
    WITH history <- [t \in Trials |-> [a \in Attempts |-> Recorded(t, a)]]

(* Whatever runs, is refused, cancelled, fails or crashes, every trial's   *)
(* attempts are opened and closed as the abstract ledger says: receipts    *)
(* are immutable, Completed and Failed trials are never replayed, attempt  *)
(* n + 1 exists only above an interrupted attempt n.                       *)
ImplementsLedger == Ledger!Spec

(* The call of _run_pending that is under way in the directory, with both  *)
(* steps of a trial's start seen as one.                                   *)
Calling == lock # Nobody /\ pc[lock] \in {"execute", "drain", "report", "export"}

Outward(state) ==
    CASE state = "reused" -> "none"
      [] state = "making" -> "running"
      [] OTHER            -> state

TaskOf(t) == IF Calling THEN Outward(task[lock][t]) ELSE "none"

Stage ==
    CASE ~Calling                                        -> "idle"
      [] Calling /\ pc[lock] \in {"report", "export"} -> "returned"
      [] Calling /\ pc[lock] \in {"execute", "drain"} -> pc[lock]

Tasks == INSTANCE TrialTasks
    WITH task <- [t \in Trials |-> TaskOf(t)], stage <- Stage, deaths <- crashes

(* What this module lets the tasks of a process do between the scan and    *)
(* the report is what the scheduler promises (Scheduler!ImplementsTasks).  *)
ImplementsTasks == Tasks!Spec

(* Tasks run only in the process that holds the lock, also while a         *)
(* cancelled run drains: two processes never work on the same directory.   *)
SingleFlight ==
    \A p \in Procs :
        /\ pc[p] # "idle" <=> lock = p
        /\ Running(p) # {} => lock = p

(* An attempt directory is created by one mkdir that finds it absent: a    *)
(* queued trial's number is taken by nobody between its scan and its start.*)
FreshDirectory ==
    \A p \in Procs, t \in Trials :
        task[p][t] = "queued" => files[t][plan[p][t]] = "absent"

(* Attempts of different definitions never mix: a trial's files change     *)
(* only in a process whose definition is the pinned one, and the pin       *)
(* never changes.                                                          *)
OneDefinition ==
    [][ /\ manifest # NoManifest => UNCHANGED manifest
        /\ files' # files =>
               \E p \in Procs : lock = p /\ defn[p] = manifest ]_vars

(* A second attempt is made only by a run that asked for retries.          *)
RetryIsExplicit ==
    [][ \A t \in Trials, a \in Attempts :
          a > 1 /\ files[t][a] = "absent" /\ files'[t][a] # "absent" =>
              \E p \in Procs : lock = p /\ retry[p] ]_vars

(* report.json quotes receipts that exist, and lags behind the directory   *)
(* only for trials it calls interrupted: a Completed or Failed entry is    *)
(* final.  merge_reports and read_report rely on it.                       *)
ReportIsFaithful ==
    \A t \in Trials :
        report[t].attempt # 0 =>
            /\ files[t][report[t].attempt] = report[t].kind
            /\ report[t].kind # "interrupted" => Latest(t, report[t].attempt)

(* The results a run is about to report are the directory's latest ones.   *)
ReportIsCurrent ==
    \A p \in Procs :
        pc[p] \in {"report", "export"} =>
            \A t \in Trials :
                /\ Latest(t, plan[p][t])
                /\ files[t][plan[p][t]] = seen[p][t]

(* No attempt directory without started.json is left behind.  This is what *)
(* "Run the same campaign and directory again to resume" needs: the scan   *)
(* refuses such a directory, now and in every later run.                   *)
Resumable ==
    lock = Nobody =>
        \A t \in Trials, a \in Attempts : ~(Latest(t, a) /\ files[t][a] = "made")

(* If no run dies or fails right after mkdir, re-running the campaign      *)
(* ends with a report in spite of crashes, cancellations and failures.     *)
EventuallyReported ==
    []Resumable => <>(\A t \in Trials : report[t].attempt # 0)

(* and every attempt a dead process left open is closed.                   *)
OrphansAreClosed ==
    []Resumable =>
        \A t \in Trials, a \in Attempts :
            files[t][a] = "started" ~> files[t][a] \in Receipts
=============================================================================
