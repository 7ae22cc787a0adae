------------------------- MODULE CampaignRunProofs -------------------------
(***************************************************************************)
(* Proofs about campaign runs for any number of processes, trials,         *)
(* definitions, attempts and crashes.  IInv says what the lock holder's    *)
(* memory knows of the directory; everybody else's memory is empty.        *)
(***************************************************************************)
EXTENDS CampaignRun, WellFoundedInduction, TLAPS

LockInv == \A p \in Procs : pc[p] # "idle" <=> lock = p

(* Attempts are contiguous, and all but the last one are interrupted.      *)
Chain ==
    \A t \in Trials, a, b \in Attempts :
        files[t][a] # "absent" /\ b < a => files[t][b] = "interrupted"

ManifestInv == \A p \in Procs : pc[p] \notin {"idle", "locked"} => manifest = defn[p]

ReportInv ==
    \A t \in Trials :
        report[t].attempt # 0 =>
            /\ report[t].kind \in Receipts
            /\ files[t][report[t].attempt] = report[t].kind
            /\ report[t].kind # "interrupted" =>
                   \A b \in Attempts : b > report[t].attempt => files[t][b] = "absent"

(* How far process p has come with trial t.                                *)
Progressed(p, t) ==
    /\ pc[p] \in {"idle", "locked"} => task[p][t] = "none"
    /\ pc[p] = "scan" => (t >= next[p] => task[p][t] = "none")
    /\ pc[p] \in {"report", "export"} => task[p][t] \in {"reused", "result"}
    /\ task[p][t] \in {"making", "running"} => pc[p] \in {"execute", "drain"}

(* A retrying scan finds room for one more attempt of each trial.          *)
HasRoom(p, t) ==
    pc[p] \in {"locked", "scan"} /\ retry[p] /\ task[p][t] = "none" =>
        files[t][MaxAttempts] = "absent"

(* What p's memory of trial t says about the directory.                    *)
QueuedInv(p, t) ==
    task[p][t] = "queued" =>
        /\ plan[p][t] \in Attempts
        /\ files[t][plan[p][t]] = "absent"
        /\ \A b \in Attempts : b < plan[p][t] => files[t][b] = "interrupted"
        /\ plan[p][t] > 1 => retry[p]

OpenInv(p, t) ==
    /\ task[p][t] = "making" =>
           plan[p][t] \in Attempts /\ files[t][plan[p][t]] = "made"
    /\ task[p][t] = "running" =>
           plan[p][t] \in Attempts /\ files[t][plan[p][t]] = "started"

ClosedInv(p, t) ==
    task[p][t] \in {"reused", "result"} =>
        /\ plan[p][t] \in Attempts
        /\ seen[p][t] \in Receipts
        /\ files[t][plan[p][t]] = seen[p][t]
        /\ \A b \in Attempts : b > plan[p][t] => files[t][b] = "absent"

TrialInv(p, t) ==
    Progressed(p, t) /\ HasRoom(p, t) /\ QueuedInv(p, t) /\ OpenInv(p, t) /\ ClosedInv(p, t)

MemoryInv == \A p \in Procs, t \in Trials : TrialInv(p, t)

IInv == TypeOK /\ LockInv /\ Chain /\ ManifestInv /\ ReportInv /\ MemoryInv

-----------------------------------------------------------------------------
(* A process without the lock knows nothing of any trial.                  *)
LEMMA OthersIdle ==
  ASSUME IInv, NEW p \in Procs, lock = p, NEW q \in Procs, q # p
  PROVE  pc[q] = "idle" /\ \A t \in Trials : task[q][t] = "none"
<1>1. pc[q] = "idle"
  BY DEF IInv, LockInv
<1> QED BY <1>1 DEF IInv, MemoryInv, TrialInv, Progressed

(* Only the holder of the lock has an unfinished task.                     *)
LEMMA WorkerHoldsLock ==
  ASSUME IInv, NEW p \in Procs, NEW t \in Trials, task[p][t] # "none"
  PROVE  lock = p
  BY DEF IInv, MemoryInv, TrialInv, Progressed, LockInv

LEMMA InitIInv == Init => IInv
<1> SUFFICES ASSUME Init PROVE IInv
  OBVIOUS
<1> USE RunAssumption DEF Init
<1>1. TypeOK
  BY DEF TypeOK, TaskStates, Trials
<1>2. LockInv /\ Chain /\ ManifestInv /\ ReportInv
  BY DEF LockInv, Chain, ManifestInv, ReportInv
<1>3. MemoryInv
  BY DEF MemoryInv, TrialInv, Progressed, HasRoom, QueuedInv, OpenInv, ClosedInv, Trials
<1> QED BY <1>1, <1>2, <1>3 DEF IInv

-----------------------------------------------------------------------------
(* Leaving the lock's context, for whatever reason, with the directory as  *)
(* it is.                                                                  *)
LEMMA LeaveStep ==
  ASSUME IInv, NEW p \in Procs, lock = p, Leave(p),
         UNCHANGED <<manifest, files, report>>, crashes' \in 0..MaxCrashes
  PROVE  IInv'
<1> USE DEF Leave
<1>1. TypeOK'
  BY RunAssumption DEF IInv, TypeOK, TaskStates
<1>2. \A q \in Procs : q # p => pc[q] = "idle" /\ \A t \in Trials : task[q][t] = "none"
  BY OthersIdle
<1>3. \A q \in Procs : pc'[q] = "idle" /\ \A t \in Trials : task'[q][t] = "none"
  BY <1>2 DEF IInv, TypeOK
<1>4. LockInv' /\ ManifestInv'
  BY <1>3, RunAssumption DEF LockInv, ManifestInv
<1>5. Chain' /\ ReportInv'
  BY DEF IInv, Chain, ReportInv
<1>6. MemoryInv'
  BY <1>3 DEF MemoryInv, TrialInv, Progressed, HasRoom, QueuedInv, OpenInv, ClosedInv
<1> QED BY <1>1, <1>4, <1>5, <1>6 DEF IInv

(* Taking the lock.                                                        *)
LEMMA AcquireStep ==
  ASSUME IInv, NEW p \in Procs, NEW d \in Definitions, NEW r \in BOOLEAN, Acquire(p, d, r)
  PROVE  IInv'
<1> USE DEF Acquire
<1>1. TypeOK'
  BY DEF IInv, TypeOK
<1>2. \A q \in Procs : pc[q] = "idle" /\ \A t \in Trials : task[q][t] = "none"
  BY RunAssumption DEF IInv, LockInv, MemoryInv, TrialInv, Progressed
<1>3. LockInv' /\ ManifestInv'
  BY <1>2, RunAssumption DEF IInv, TypeOK, LockInv, ManifestInv
<1>4. Chain' /\ ReportInv'
  BY DEF IInv, Chain, ReportInv
<1>5. MemoryInv'
  BY <1>2 DEF IInv, TypeOK, MemoryInv, TrialInv, Progressed, HasRoom, QueuedInv,
              OpenInv, ClosedInv
<1> QED BY <1>1, <1>3, <1>4, <1>5 DEF IInv

(* Pinning the manifest, and the moves of `run` that touch no trial.       *)
LEMMA PinStep ==
  ASSUME IInv, NEW p \in Procs, PinManifest(p)
  PROVE  IInv'
<1> USE DEF PinManifest, MatchesManifest
<1>1. lock = p /\ \A q \in Procs : q # p => pc[q] = "idle"
  BY DEF IInv, LockInv
<1>2. defn[p] \in Definitions \cup {NoManifest}
  BY DEF IInv, TypeOK
<1>3. TypeOK'
  BY <1>2 DEF IInv, TypeOK
<1>4. LockInv' /\ ManifestInv'
  BY <1>1 DEF IInv, TypeOK, LockInv, ManifestInv
<1>5. Chain' /\ ReportInv'
  BY DEF IInv, Chain, ReportInv
<1>6. MemoryInv'
  BY DEF IInv, TypeOK, MemoryInv, TrialInv, Progressed, HasRoom, QueuedInv, OpenInv, ClosedInv
<1> QED BY <1>3, <1>4, <1>5, <1>6 DEF IInv

LEMMA MoveStep ==
  ASSUME IInv, NEW p \in Procs,
         EndScan(p) \/ BeginDrain(p) \/ AllDone(p)
  PROVE  IInv'
<1> USE DEF EndScan, BeginDrain, AllDone, Delivered, durable
<1>1. TypeOK'
  BY DEF IInv, TypeOK
<1>2. LockInv' /\ ManifestInv'
  <2>1. \A q \in Procs : pc'[q] # "idle" <=> pc[q] # "idle"
    BY DEF IInv, TypeOK
  <2>2. \A q \in Procs : pc'[q] \notin {"idle", "locked"} => pc[q] \notin {"idle", "locked"}
    BY DEF IInv, TypeOK
  <2>3. UNCHANGED <<lock, manifest, defn>>
    OBVIOUS
  <2> QED BY <2>1, <2>2, <2>3 DEF IInv, LockInv, ManifestInv
<1>3. Chain' /\ ReportInv'
  BY DEF IInv, Chain, ReportInv
<1>4. MemoryInv'
  BY DEF IInv, TypeOK, MemoryInv, TrialInv, Progressed, HasRoom, QueuedInv, OpenInv, ClosedInv
<1> QED BY <1>1, <1>2, <1>3, <1>4 DEF IInv

(* report.json is written from receipts the run has in memory.             *)
LEMMA WriteReportStep ==
  ASSUME IInv, NEW p \in Procs, WriteReport(p)
  PROVE  IInv'
<1> USE DEF WriteReport
<1>1. TypeOK'
  BY DEF IInv, TypeOK
<1>2. LockInv' /\ ManifestInv' /\ Chain'
  BY DEF IInv, TypeOK, LockInv, ManifestInv, Chain
<1>3. ReportInv'
  <2>1. \A t \in Trials : ClosedInv(p, t) /\ task[p][t] \in {"reused", "result"}
    BY DEF IInv, MemoryInv, TrialInv, Progressed
  <2> QED BY <2>1 DEF IInv, TypeOK, ReportInv, ClosedInv
<1>4. MemoryInv'
  BY DEF IInv, TypeOK, MemoryInv, TrialInv, Progressed, HasRoom, QueuedInv, OpenInv, ClosedInv
<1> QED BY <1>1, <1>2, <1>3, <1>4 DEF IInv

-----------------------------------------------------------------------------
(* The scan of one trial.                                                  *)

(* Scanning moves on by one trial, so what was scanned stays scanned.      *)
LEMMA ScannedFrame ==
  ASSUME IInv, NEW p \in Procs, NEW t \in Trials, Scanned(p, t)
  PROVE  /\ lock = p
         /\ task[p][t] = "none"
         /\ LockInv' /\ ManifestInv'
         /\ next' \in [Procs -> 1..(N + 1)]
         /\ \A q \in Procs : q # p => pc[q] = "idle"
         /\ retry[p] => files[t][MaxAttempts] = "absent"
<1>1. pc[p] = "scan" /\ next[p] = t
  BY DEF Scanned
<1>2. lock = p /\ \A q \in Procs : q # p => pc[q] = "idle"
  BY <1>1 DEF IInv, LockInv
<1>3. task[p][t] = "none"
  BY <1>1 DEF IInv, MemoryInv, TrialInv, Progressed, Trials
<1>4. LockInv' /\ ManifestInv'
  BY DEF Scanned, IInv, LockInv, ManifestInv
<1>5. next' \in [Procs -> 1..(N + 1)]
  BY RunAssumption DEF Scanned, IInv, TypeOK, Trials
<1>6. retry[p] => files[t][MaxAttempts] = "absent"
  BY <1>1, <1>3 DEF IInv, MemoryInv, TrialInv, HasRoom
<1> QED BY <1>2, <1>3, <1>4, <1>5, <1>6

(* What a scan notes about a trial is well typed.                          *)
LEMMA NoteTypes ==
  ASSUME TypeOK, NEW p \in Procs, NEW t \in Trials, NEW a \in Attempts,
         Queue(p, t, a) \/ \E kind \in Receipts : Reuse(p, t, a, kind)
  PROVE  /\ plan' \in [Procs -> [Trials -> 0..MaxAttempts]]
         /\ seen' \in [Procs -> [Trials -> Receipts \cup {"none"}]]
         /\ task' \in [Procs -> [Trials -> TaskStates]]
<1>1. a \in 0..MaxAttempts /\ "queued" \in TaskStates /\ "reused" \in TaskStates
  BY RunAssumption DEF Attempts, TaskStates
<1>2. CASE Queue(p, t, a)
  BY <1>1, <1>2 DEF Queue, TypeOK
<1>3. CASE \E kind \in Receipts : Reuse(p, t, a, kind)
  <2>1. PICK kind \in Receipts : Reuse(p, t, a, kind)
    BY <1>3
  <2>2. plan' \in [Procs -> [Trials -> 0..MaxAttempts]]
    BY <1>1, <2>1 DEF Reuse, TypeOK
  <2>3. seen' \in [Procs -> [Trials -> Receipts \cup {"none"}]]
    BY <2>1 DEF Reuse, TypeOK
  <2>4. task' \in [Procs -> [Trials -> TaskStates]]
    BY <1>1, <2>1 DEF Reuse, TypeOK
  <2> QED BY <2>2, <2>3, <2>4
<1> QED BY <1>2, <1>3

(* Whichever way the scan decides, it decides what the directory says.     *)
LEMMA NotedStep ==
  ASSUME IInv, NEW p \in Procs, NEW t \in Trials, NEW a \in Attempts, Scanned(p, t),
         \/ /\ Queue(p, t, a)
            /\ files'[t][a] = "absent"
            /\ \A b \in Attempts : b < a => files'[t][b] = "interrupted"
            /\ a > 1 => retry[p]
         \/ \E kind \in Receipts :
            /\ Reuse(p, t, a, kind)
            /\ files'[t][a] = kind
            /\ \A b \in Attempts : b > a => files'[t][b] = "absent",
         files' \in [Trials -> [Attempts -> {"absent", "made", "started"} \cup Receipts]],
         \A u \in Trials : u # t => files'[u] = files[u],
         Chain', ReportInv'
  PROVE  IInv'
<1>1. TypeOK'
  <2>1. Queue(p, t, a) \/ \E kind \in Receipts : Reuse(p, t, a, kind)
    OBVIOUS
  <2>2. TypeOK
    BY DEF IInv
  <2>3. /\ plan' \in [Procs -> [Trials -> 0..MaxAttempts]]
        /\ seen' \in [Procs -> [Trials -> Receipts \cup {"none"}]]
        /\ task' \in [Procs -> [Trials -> TaskStates]]
    BY <2>1, <2>2, NoteTypes
  <2>4. next' \in [Procs -> 1..(N + 1)]
    BY ScannedFrame
  <2> QED BY <2>2, <2>3, <2>4 DEF Scanned, TypeOK
<1>2. ASSUME NEW q \in Procs, NEW u \in Trials PROVE TrialInv(q, u)'
  <2>0. pc' = pc /\ retry' = retry /\ pc[p] = "scan" /\ next[p] = t
    BY DEF Scanned
  <2>1. CASE q = p /\ u = t
    <3>1. next'[p] = t + 1 /\ t \in Int
      BY DEF Scanned, IInv, TypeOK, Trials
    <3>2. CASE /\ Queue(p, t, a)
               /\ files'[t][a] = "absent"
               /\ \A b \in Attempts : b < a => files'[t][b] = "interrupted"
               /\ a > 1 => retry[p]
      <4>1. plan'[p][t] = a /\ task'[p][t] = "queued"
        BY <3>2 DEF IInv, TypeOK, Queue
      <4> QED BY <2>0, <2>1, <3>1, <3>2, <4>1
              DEF TrialInv, Progressed, HasRoom, QueuedInv, OpenInv, ClosedInv
    <3>3. ASSUME NEW kind \in Receipts,
                 Reuse(p, t, a, kind),
                 files'[t][a] = kind,
                 \A b \in Attempts : b > a => files'[t][b] = "absent"
          PROVE  TrialInv(p, t)'
      <4>1. plan'[p][t] = a /\ task'[p][t] = "reused" /\ seen'[p][t] = kind
        BY <3>3 DEF IInv, TypeOK, Reuse
      <4> QED BY <2>0, <3>1, <3>3, <4>1
              DEF TrialInv, Progressed, HasRoom, QueuedInv, OpenInv, ClosedInv
    <3> QED BY <2>1, <3>2, <3>3
  <2>2. CASE q = p /\ u # t
    <3>1. TrialInv(p, u)
      BY DEF IInv, MemoryInv
    <3>2. /\ plan'[p][u] = plan[p][u] /\ task'[p][u] = task[p][u]
          /\ seen'[p][u] = seen[p][u] /\ files'[u] = files[u]
      BY <2>2 DEF Queue, Reuse, IInv, TypeOK
    <3>3. next'[p] = t + 1 /\ t \in Int /\ u \in Int
      BY DEF Scanned, IInv, TypeOK, Trials
    <3> QED BY <2>0, <2>2, <3>1, <3>2, <3>3
            DEF TrialInv, Progressed, HasRoom, QueuedInv, OpenInv, ClosedInv
  <2>3. CASE q # p
    <3>1. lock = p
      BY ScannedFrame
    <3>2. pc'[q] = "idle" /\ task'[q][u] = "none"
      BY <2>0, <2>3, <3>1, OthersIdle DEF Queue, Reuse, IInv, TypeOK
    <3> QED BY <3>2 DEF TrialInv, Progressed, HasRoom, QueuedInv, OpenInv, ClosedInv
  <2> QED BY <2>1, <2>2, <2>3
<1> QED BY <1>1, <1>2, ScannedFrame DEF IInv, MemoryInv

(* A trial without attempts is queued as attempt 1.                        *)
LEMMA ScanUntriedStep ==
  ASSUME IInv, NEW p \in Procs, NEW t \in Trials, ScanUntried(p, t)
  PROVE  IInv'
<1>1. Scanned(p, t) /\ Queue(p, t, 1) /\ files' = files /\ report' = report
  BY DEF ScanUntried, Scanned
<1>2. 1 \in Attempts /\ files'[t][1] = "absent"
  BY <1>1, RunAssumption DEF ScanUntried, Untried, Attempts
<1>3. Chain' /\ ReportInv' /\ files' \in [Trials -> [Attempts -> {"absent", "made", "started"} \cup Receipts]]
  BY <1>1 DEF IInv, TypeOK, Chain, ReportInv
<1>4. \A b \in Attempts : ~(b < 1)
  BY DEF Attempts
<1> QED BY <1>1, <1>2, <1>3, <1>4, NotedStep

(* The next attempt number of a retried trial is within bounds and unused. *)
LEMMA NextAttempt ==
  ASSUME IInv, NEW p \in Procs, NEW t \in Trials, NEW a \in Attempts,
         Scanned(p, t), retry[p], Latest(t, a)
  PROVE  /\ a + 1 \in Attempts
         /\ files[t][a + 1] = "absent"
         /\ \A b \in Attempts : b < a + 1 => b = a \/ files[t][b] = "interrupted"
<1>1. files[t][MaxAttempts] = "absent"
  BY ScannedFrame
<1>2. a # MaxAttempts /\ a + 1 \in Attempts
  BY <1>1, RunAssumption DEF Latest, Attempts
<1>3. files[t][a + 1] = "absent"
  BY <1>2 DEF Latest, Attempts
<1>4. ASSUME NEW b \in Attempts, b < a + 1, b # a PROVE files[t][b] = "interrupted"
  <2>1. b < a
    BY <1>4 DEF Attempts
  <2> QED BY <2>1 DEF IInv, Chain, Latest
<1> QED BY <1>2, <1>3, <1>4

(* A prior receipt is reused, unless it is to be retried.                  *)
LEMMA ScanReceiptStep ==
  ASSUME IInv, NEW p \in Procs, NEW t \in Trials, NEW a \in Attempts, ScanReceipt(p, t, a)
  PROVE  IInv'
<1>1. Scanned(p, t) /\ Latest(t, a) /\ files' = files /\ report' = report
  BY DEF ScanReceipt, Scanned
<1>2. Chain' /\ ReportInv' /\ files' \in [Trials -> [Attempts -> {"absent", "made", "started"} \cup Receipts]]
  BY <1>1 DEF IInv, TypeOK, Chain, ReportInv
<1>3. CASE retry[p] /\ files[t][a] = "interrupted"
  <2>1. Queue(p, t, a + 1)
    BY <1>3 DEF ScanReceipt, Retries
  <2>2. /\ a + 1 \in Attempts /\ files'[t][a + 1] = "absent"
        /\ \A b \in Attempts : b < a + 1 => files'[t][b] = "interrupted"
    BY <1>1, <1>3, NextAttempt
  <2> QED BY <1>1, <1>2, <1>3, <2>1, <2>2, NotedStep
<1>4. CASE ~(retry[p] /\ files[t][a] = "interrupted")
  <2>1. files[t][a] \in Receipts /\ Reuse(p, t, a, files[t][a])
    BY <1>4 DEF ScanReceipt, Retries
  <2>2. \A b \in Attempts : b > a => files'[t][b] = "absent"
    BY <1>1 DEF Latest
  <2> QED BY <1>1, <1>2, <2>1, <2>2, NotedStep
<1> QED BY <1>3, <1>4

(* What writing one attempt's file leaves behind.                          *)
Written(t, a, state) ==
    /\ files' \in [Trials -> [Attempts -> {"absent", "made", "started"} \cup Receipts]]
    /\ \A u \in Trials : u # t => files'[u] = files[u]
    /\ files'[t][a] = state
    /\ \A b \in Attempts : b # a => files'[t][b] = files[t][b]
    /\ \A b \in Attempts : b > a => files'[t][b] = "absent"
    /\ Chain' /\ ReportInv'

(* Filling in one attempt's file of a trial whose earlier attempts are all *)
(* interrupted keeps the chain, and no report quotes an unfinished one.    *)
LEMMA FileStep ==
  ASSUME IInv, NEW t \in Trials, NEW a \in Attempts,
         NEW state \in {"made", "started"} \cup Receipts,
         files' = [files EXCEPT ![t][a] = state],
         files[t][a] \notin Receipts,
         \A b \in Attempts : b < a => files[t][b] = "interrupted",
         UNCHANGED report
  PROVE  Written(t, a, state)
<1>1. /\ files' \in [Trials -> [Attempts -> {"absent", "made", "started"} \cup Receipts]]
      /\ \A u \in Trials : u # t => files'[u] = files[u]
      /\ files'[t][a] = state
      /\ \A b \in Attempts : b # a => files'[t][b] = files[t][b]
  BY DEF IInv, TypeOK
<1>2. \A b \in Attempts : b > a => files[t][b] = "absent"
  BY DEF IInv, Chain, Receipts, Attempts
<1>3. \A b \in Attempts : b > a => files'[t][b] = "absent"
  BY <1>1, <1>2 DEF Attempts
<1>4. Chain'
  <2> SUFFICES ASSUME NEW u \in Trials, NEW b \in Attempts, NEW c \in Attempts,
                      files'[u][b] # "absent", c < b
               PROVE  files'[u][c] = "interrupted"
    BY DEF Chain
  <2>1. CASE u # t
    BY <1>1, <2>1 DEF IInv, Chain
  <2>2. CASE u = t
    <3>1. ~(b > a)
      BY <1>3, <2>2
    <3>2. c < a
      BY <3>1 DEF Attempts
    <3> QED BY <1>1, <2>2, <3>2 DEF Attempts
  <2> QED BY <2>1, <2>2
<1>5. ReportInv'
  <2> SUFFICES ASSUME NEW u \in Trials, report[u].attempt # 0
               PROVE  /\ report[u].kind \in Receipts
                      /\ files'[u][report[u].attempt] = report[u].kind
                      /\ report[u].kind # "interrupted" =>
                            \A b \in Attempts :
                                b > report[u].attempt => files'[u][b] = "absent"
    BY DEF ReportInv
  <2>0. report[u].attempt \in Attempts /\ report[u].kind \in Receipts
    BY RunAssumption DEF IInv, TypeOK, ReportInv, Attempts
  <2>1. CASE u # t
    BY <1>1, <2>1 DEF IInv, ReportInv
  <2>2. CASE u = t
    <3>1. files[t][report[t].attempt] = report[t].kind
      BY <2>2 DEF IInv, ReportInv
    <3>2. report[t].attempt # a
      BY <2>0, <2>2, <3>1
    <3>3. report[t].attempt < a
      BY <1>2, <2>0, <2>2, <3>1, <3>2 DEF Receipts, Attempts
    <3>4. report[t].kind = "interrupted"
      BY <2>0, <2>2, <3>1, <3>3
    <3> QED BY <1>1, <2>0, <2>2, <3>1, <3>2, <3>4
  <2> QED BY <2>1, <2>2
<1> QED BY <1>1, <1>3, <1>4, <1>5 DEF Written

(* An orphaned attempt is closed by the scan, then treated like any other  *)
(* interrupted one.                                                        *)
LEMMA ScanOrphanStep ==
  ASSUME IInv, NEW p \in Procs, NEW t \in Trials, NEW a \in Attempts, ScanOrphan(p, t, a)
  PROVE  IInv'
<1>1. /\ Scanned(p, t) /\ Latest(t, a) /\ report' = report
      /\ files[t][a] \notin Receipts
      /\ files' = [files EXCEPT ![t][a] = "interrupted"]
  BY DEF ScanOrphan, CloseOrphan, Scanned, Receipts
<1>2. \A b \in Attempts : b < a => files[t][b] = "interrupted"
  BY <1>1 DEF IInv, Chain, Latest
<1>3. "interrupted" \in {"made", "started"} \cup Receipts /\ "interrupted" \in Receipts
  BY DEF Receipts
<1>4. Written(t, a, "interrupted")
  BY <1>1, <1>2, <1>3, FileStep
<1>5. CASE retry[p]
  <2>1. Queue(p, t, a + 1)
    BY <1>5 DEF ScanOrphan, Retries
  <2>2. /\ a + 1 \in Attempts /\ files[t][a + 1] = "absent"
        /\ \A b \in Attempts : b < a + 1 => b = a \/ files[t][b] = "interrupted"
    BY <1>1, <1>5, NextAttempt
  <2>3. files'[t][a + 1] = "absent"
    BY <1>4, <2>2 DEF Attempts, Written
  <2>4. \A b \in Attempts : b < a + 1 => files'[t][b] = "interrupted"
    BY <1>4, <2>2 DEF Written
  <2> QED BY <1>1, <1>4, <1>5, <2>1, <2>2, <2>3, <2>4, NotedStep DEF Written
<1>6. CASE ~retry[p]
  <2>1. Reuse(p, t, a, "interrupted")
    BY <1>6 DEF ScanOrphan, Retries
  <2> QED BY <1>1, <1>3, <1>4, <2>1, NotedStep DEF Written
<1> QED BY <1>5, <1>6

-----------------------------------------------------------------------------
(* The steps of a trial's task change the file of the attempt it owns.     *)
LEMMA OwnFileStep ==
  ASSUME IInv, NEW p \in Procs, NEW t \in Trials, lock = p,
         plan[p][t] \in Attempts,
         NEW state \in {"made", "started"} \cup Receipts,
         files' = [files EXCEPT ![t][plan[p][t]] = state],
         files[t][plan[p][t]] \notin Receipts,
         \A b \in Attempts : b < plan[p][t] => files[t][b] = "interrupted",
         NEW to \in TaskStates \ {"none"},
         task' = [task EXCEPT ![p][t] = to],
         seen' \in [Procs -> [Trials -> Receipts \cup {"none"}]],
         \A q \in Procs, u \in Trials : ~(q = p /\ u = t) => seen'[q][u] = seen[q][u],
         pc[p] \in {"execute", "drain"},
         UNCHANGED <<lock, manifest, report, crashes, pc, defn, retry, next, plan>>,
         \/ to = "making" /\ state = "made"
         \/ to = "running" /\ state = "started"
         \/ to = "raised"
         \/ to = "result" /\ state \in Receipts /\ seen'[p][t] = state
  PROVE  IInv'
<1>1. Written(t, plan[p][t], state)
  BY FileStep
<1>2. TypeOK'
  BY <1>1 DEF IInv, TypeOK, Written
<1>3. LockInv' /\ ManifestInv'
  BY DEF IInv, LockInv, ManifestInv
<1>4. ASSUME NEW q \in Procs, NEW u \in Trials PROVE TrialInv(q, u)'
  <2>1. CASE q = p /\ u = t
    <3>1. task'[p][t] = to /\ pc'[p] \in {"execute", "drain"} /\ plan'[p][t] = plan[p][t]
      BY DEF IInv, TypeOK
    <3> QED BY <1>1, <2>1, <3>1
            DEF TrialInv, Progressed, HasRoom, QueuedInv, OpenInv, ClosedInv, Written
  <2>2. CASE q = p /\ u # t
    <3>1. TrialInv(p, u)
      BY DEF IInv, MemoryInv
    <3>2. task'[p][u] = task[p][u] /\ seen'[p][u] = seen[p][u] /\ files'[u] = files[u]
      BY <1>1, <2>2 DEF IInv, TypeOK, Written
    <3> QED BY <2>2, <3>1, <3>2
            DEF TrialInv, Progressed, HasRoom, QueuedInv, OpenInv, ClosedInv, Written
  <2>3. CASE q # p
    <3>1. pc'[q] = "idle" /\ task'[q][u] = "none"
      BY <2>3, OthersIdle DEF IInv, TypeOK
    <3> QED BY <3>1 DEF TrialInv, Progressed, HasRoom, QueuedInv, OpenInv, ClosedInv, Written
  <2> QED BY <2>1, <2>2, <2>3
<1> QED BY <1>1, <1>2, <1>3, <1>4 DEF IInv, MemoryInv, Written

(* A task's process executes or drains.                                    *)
LEMMA WorkerState ==
  ASSUME IInv, NEW p \in Procs, NEW t \in Trials, task[p][t] \in {"making", "running"}
  PROVE  /\ lock = p
         /\ pc[p] \in {"execute", "drain"}
         /\ plan[p][t] \in Attempts
         /\ files[t][plan[p][t]] \in {"made", "started"}
         /\ \A b \in Attempts : b < plan[p][t] => files[t][b] = "interrupted"
<1>1. lock = p
  BY WorkerHoldsLock
<1>2. plan[p][t] \in Attempts /\ files[t][plan[p][t]] \in {"made", "started"}
  BY DEF IInv, MemoryInv, TrialInv, OpenInv
<1>3. pc[p] \in {"execute", "drain"}
  BY DEF IInv, MemoryInv, TrialInv, Progressed
<1> QED BY <1>1, <1>2, <1>3 DEF IInv, Chain

LEMMA MakeAttemptStep ==
  ASSUME IInv, NEW p \in Procs, NEW t \in Trials, MakeAttempt(p, t)
  PROVE  IInv'
<1> USE DEF MakeAttempt
<1>1. /\ plan[p][t] \in Attempts
      /\ files[t][plan[p][t]] \notin Receipts
      /\ \A b \in Attempts : b < plan[p][t] => files[t][b] = "interrupted"
  BY DEF IInv, MemoryInv, TrialInv, QueuedInv, Receipts
<1>2. lock = p
  BY WorkerHoldsLock
<1>3. "made" \in {"made", "started"} \cup Receipts /\ "making" \in TaskStates \ {"none"}
  BY DEF TaskStates
<1>4. seen' \in [Procs -> [Trials -> Receipts \cup {"none"}]] /\ seen' = seen
  BY DEF IInv, TypeOK
<1> QED BY <1>1, <1>2, <1>3, <1>4, OwnFileStep

LEMMA WriteStartedStep ==
  ASSUME IInv, NEW p \in Procs, NEW t \in Trials, WriteStarted(p, t)
  PROVE  IInv'
<1> USE DEF WriteStarted
<1>1. /\ lock = p /\ pc[p] \in {"execute", "drain"} /\ plan[p][t] \in Attempts
      /\ files[t][plan[p][t]] \notin Receipts
      /\ \A b \in Attempts : b < plan[p][t] => files[t][b] = "interrupted"
  BY WorkerState DEF Receipts
<1>2. "started" \in {"made", "started"} \cup Receipts /\ "running" \in TaskStates \ {"none"}
  BY DEF TaskStates
<1>3. seen' \in [Procs -> [Trials -> Receipts \cup {"none"}]] /\ seen' = seen
  BY DEF IInv, TypeOK
<1> QED BY <1>1, <1>2, <1>3, OwnFileStep

LEMMA EndTrialStep ==
  ASSUME IInv, NEW p \in Procs, NEW t \in Trials, NEW kind \in Receipts, EndTrial(p, t, kind)
  PROVE  IInv'
<1> USE DEF EndTrial
<1>1. /\ lock = p /\ pc[p] \in {"execute", "drain"} /\ plan[p][t] \in Attempts
      /\ files[t][plan[p][t]] \notin Receipts
      /\ \A b \in Attempts : b < plan[p][t] => files[t][b] = "interrupted"
  BY WorkerState DEF Receipts
<1>2. PICK to \in {"raised", "result"} : task' = [task EXCEPT ![p][t] = to]
  OBVIOUS
<1>3. to \in TaskStates \ {"none"} /\ task' = [task EXCEPT ![p][t] = to]
  BY <1>2 DEF TaskStates
<1>4. /\ seen' \in [Procs -> [Trials -> Receipts \cup {"none"}]]
      /\ seen'[p][t] = kind
      /\ \A q \in Procs, u \in Trials : ~(q = p /\ u = t) => seen'[q][u] = seen[q][u]
  BY DEF IInv, TypeOK
<1>5. kind \in {"made", "started"} \cup Receipts
  OBVIOUS
<1>6. \/ to = "raised"
      \/ to = "result" /\ kind \in Receipts /\ seen'[p][t] = kind
  BY <1>2, <1>4
<1>7. /\ files' = [files EXCEPT ![t][plan[p][t]] = kind]
      /\ UNCHANGED <<lock, manifest, report, crashes, pc, defn, retry, next, plan>>
  OBVIOUS
<1> HIDE DEF EndTrial
<1> QED BY <1>1, <1>3, <1>4, <1>5, <1>6, <1>7, OwnFileStep

(* A failed write changes nothing but the task.                            *)
LEMMA TaskFailsStep ==
  ASSUME IInv, NEW p \in Procs, NEW t \in Trials, TaskFails(p, t)
  PROVE  IInv'
<1> USE DEF TaskFails, durable
<1>1. pc[p] \in {"execute", "drain"}
  BY WorkerState
<1>2. TypeOK'
  BY DEF IInv, TypeOK, TaskStates
<1>3. LockInv' /\ ManifestInv' /\ Chain' /\ ReportInv'
  BY DEF IInv, LockInv, ManifestInv, Chain, ReportInv
<1>4. ASSUME NEW q \in Procs, NEW u \in Trials PROVE TrialInv(q, u)'
  <2>1. TrialInv(q, u)
    BY DEF IInv, MemoryInv
  <2>2. task'[q][u] = IF q = p /\ u = t THEN "raised" ELSE task[q][u]
    BY DEF IInv, TypeOK
  <2> QED BY <1>1, <2>1, <2>2
          DEF TrialInv, Progressed, HasRoom, QueuedInv, OpenInv, ClosedInv
<1> QED BY <1>2, <1>3, <1>4 DEF IInv, MemoryInv

-----------------------------------------------------------------------------
(* The steps that leave the lock's context.                                *)
LEMMA ExitStep ==
  ASSUME IInv, NEW p \in Procs,
         \/ RejectManifest(p) \/ Drained(p) \/ EndExport(p) \/ Crash(p)
         \/ \E t \in Trials, a \in Attempts : ScanIncomplete(p, t, a)
  PROVE  IInv'
<1>1. Leave(p) /\ UNCHANGED <<manifest, files, report>> /\ crashes' \in 0..MaxCrashes
  BY RunAssumption DEF RejectManifest, Drained, EndExport, Crash, ScanIncomplete, IInv, TypeOK
<1>2. pc[p] # "idle"
  BY DEF RejectManifest, Drained, EndExport, Crash, ScanIncomplete
<1>3. lock = p
  BY <1>2 DEF IInv, LockInv
<1> QED BY <1>1, <1>3, LeaveStep

(* The invariant is inductive.                                             *)
THEOREM RunInvariant == Spec => []IInv
<1>1. ASSUME IInv, Next PROVE IInv'
  <2>1. PICK p \in Procs :
            \/ \E d \in Definitions, r \in BOOLEAN : Acquire(p, d, r)
            \/ Progress(p)
            \/ BeginDrain(p)
            \/ \E t \in Trials : TaskFails(p, t)
            \/ Crash(p)
    BY <1>1 DEF Next
  <2>2. CASE Progress(p)
    <3>1. CASE Scan(p)
      BY <1>1, <3>1, ScanUntriedStep, ScanReceiptStep, ScanOrphanStep, ExitStep, MoveStep
         DEF Scan
    <3>2. CASE Task(p)
      BY <1>1, <3>2, MakeAttemptStep, WriteStartedStep, EndTrialStep DEF Task
    <3> QED BY <1>1, <2>2, <3>1, <3>2, PinStep, ExitStep, MoveStep, WriteReportStep
            DEF Progress
  <2> QED BY <1>1, <2>1, <2>2, AcquireStep, MoveStep, TaskFailsStep, ExitStep
<1>2. ASSUME IInv, UNCHANGED vars PROVE IInv'
  BY <1>2 DEF vars, durable, local, IInv, TypeOK, LockInv, Chain, ManifestInv, ReportInv,
     MemoryInv, TrialInv, Progressed, HasRoom, QueuedInv, OpenInv, ClosedInv
<1>3. IInv /\ [Next]_vars => IInv'
  BY <1>1, <1>2
<1> QED BY InitIInv, <1>3, PTL DEF Spec

-----------------------------------------------------------------------------
(* Every variable keeps its type; no attempt number leaves its bound.      *)
THEOREM TypeCorrect == Spec => []TypeOK
  BY RunInvariant, PTL DEF IInv

(* Only the process that holds the lock ever runs a trial.                 *)
THEOREM OneRunner == Spec => []SingleFlight
<1>1. IInv => SingleFlight
  BY WorkerHoldsLock DEF SingleFlight, IInv, LockInv, Running
<1> QED BY <1>1, RunInvariant, PTL

(* mkdir(exist_ok=False) always finds its directory absent.                *)
THEOREM MkdirNeverCollides == Spec => []FreshDirectory
<1>1. IInv => FreshDirectory
  BY DEF IInv, MemoryInv, TrialInv, QueuedInv, FreshDirectory
<1> QED BY <1>1, RunInvariant, PTL

(* report.json quotes existing receipts and is behind only on interrupted  *)
(* trials.                                                                 *)
THEOREM ReportFaithful == Spec => []ReportIsFaithful
<1>1. IInv => ReportIsFaithful
  <2> SUFFICES ASSUME IInv, NEW t \in Trials, report[t].attempt # 0
               PROVE  /\ files[t][report[t].attempt] = report[t].kind
                      /\ report[t].kind # "interrupted" => Latest(t, report[t].attempt)
    BY DEF ReportIsFaithful
  <2>1. /\ report[t].kind \in Receipts
        /\ files[t][report[t].attempt] = report[t].kind
        /\ report[t].kind # "interrupted" =>
               \A b \in Attempts : b > report[t].attempt => files[t][b] = "absent"
    BY DEF IInv, ReportInv
  <2> QED BY <2>1 DEF Latest, Receipts
<1> QED BY <1>1, RunInvariant, PTL

(* What a run reports is what the directory says at that time.             *)
THEOREM ReportCurrent == Spec => []ReportIsCurrent
<1>1. IInv => ReportIsCurrent
  BY DEF IInv, MemoryInv, TrialInv, Progressed, ClosedInv, ReportIsCurrent, Latest, Receipts
<1> QED BY <1>1, RunInvariant, PTL

-----------------------------------------------------------------------------
(* Which steps change the directory, and who takes them.                   *)
LEMMA DurableSteps ==
  ASSUME IInv, Next
  PROVE  \/ UNCHANGED <<files, manifest>>
         \/ \E p \in Procs : PinManifest(p)
         \/ /\ UNCHANGED manifest
            /\ \E p \in Procs, t \in Trials :
                   \/ \E a \in Attempts : ScanOrphan(p, t, a)
                   \/ MakeAttempt(p, t)
                   \/ WriteStarted(p, t)
                   \/ \E kind \in Receipts : EndTrial(p, t, kind)
<1>1. PICK p \in Procs :
          \/ \E d \in Definitions, r \in BOOLEAN : Acquire(p, d, r)
          \/ Progress(p)
          \/ BeginDrain(p)
          \/ \E t \in Trials : TaskFails(p, t)
          \/ Crash(p)
  BY DEF Next
<1>2. CASE \/ \E d \in Definitions, r \in BOOLEAN : Acquire(p, d, r)
           \/ BeginDrain(p)
           \/ \E t \in Trials : TaskFails(p, t)
           \/ Crash(p)
  BY <1>2 DEF Acquire, BeginDrain, TaskFails, Crash, durable
<1>3. CASE Scan(p)
  BY <1>3 DEF Scan, ScanUntried, ScanReceipt, ScanOrphan, ScanIncomplete, Scanned, EndScan, durable
<1>4. CASE Task(p)
  BY <1>4 DEF Task, MakeAttempt, WriteStarted, EndTrial
<1>5. CASE PinManifest(p) \/ RejectManifest(p) \/ Drained(p) \/ AllDone(p)
           \/ WriteReport(p) \/ EndExport(p)
  BY <1>5 DEF RejectManifest, Drained, AllDone, WriteReport, EndExport, durable
<1> QED BY <1>1, <1>2, <1>3, <1>4, <1>5 DEF Progress

(* Each of these steps belongs to the lock holder, whose definition is the *)
(* pinned one; and a new attempt above the first is a retry.               *)
LEMMA WriterSteps ==
  ASSUME IInv, NEW p \in Procs, NEW t \in Trials,
         \/ \E a \in Attempts : ScanOrphan(p, t, a)
         \/ MakeAttempt(p, t)
         \/ WriteStarted(p, t)
         \/ \E kind \in Receipts : EndTrial(p, t, kind)
  PROVE  lock = p /\ defn[p] = manifest
<1>1. CASE \E a \in Attempts : ScanOrphan(p, t, a)
  BY <1>1 DEF ScanOrphan, Scanned, IInv, LockInv, ManifestInv
<1>2. CASE MakeAttempt(p, t)
  BY <1>2 DEF MakeAttempt, IInv, LockInv, ManifestInv
<1>3. CASE WriteStarted(p, t) \/ \E kind \in Receipts : EndTrial(p, t, kind)
  <2>1. lock = p /\ pc[p] \in {"execute", "drain"}
    BY <1>3, WorkerState DEF WriteStarted, EndTrial
  <2> QED BY <2>1 DEF IInv, ManifestInv
<1> QED BY <1>1, <1>2, <1>3

(* Attempts of different definitions never mix in one directory.           *)
THEOREM DefinitionsNeverMix == Spec => OneDefinition
<1>1. IInv /\ [Next]_vars =>
          [ /\ manifest # NoManifest => UNCHANGED manifest
            /\ files' # files => \E p \in Procs : lock = p /\ defn[p] = manifest ]_vars
  <2> SUFFICES ASSUME IInv, Next
               PROVE  /\ manifest # NoManifest => UNCHANGED manifest
                      /\ files' # files => \E p \in Procs : lock = p /\ defn[p] = manifest
    OBVIOUS
  <2>1. CASE \E p \in Procs : PinManifest(p)
    BY <2>1 DEF PinManifest, MatchesManifest
  <2>2. CASE ~\E p \in Procs : PinManifest(p)
    BY <2>2, DurableSteps, WriterSteps
  <2> QED BY <2>1, <2>2
<1> QED BY <1>1, RunInvariant, PTL DEF Spec, OneDefinition

(* Only a run with retry_interrupted makes an attempt above the first.     *)
THEOREM RetriesAreExplicit == Spec => RetryIsExplicit
<1>1. IInv /\ [Next]_vars =>
          [ \A t \in Trials, a \in Attempts :
              a > 1 /\ files[t][a] = "absent" /\ files'[t][a] # "absent" =>
                  \E p \in Procs : lock = p /\ retry[p] ]_vars
  <2> SUFFICES ASSUME IInv, Next, NEW t \in Trials, NEW a \in Attempts,
                      a > 1, files[t][a] = "absent", files'[t][a] # "absent"
               PROVE  \E p \in Procs : lock = p /\ retry[p]
    OBVIOUS
  <2>1. PICK p \in Procs, u \in Trials :
            \/ \E b \in Attempts : ScanOrphan(p, u, b)
            \/ MakeAttempt(p, u)
            \/ WriteStarted(p, u)
            \/ \E kind \in Receipts : EndTrial(p, u, kind)
    BY DurableSteps DEF PinManifest
  <2>2. CASE \E b \in Attempts : ScanOrphan(p, u, b)
    BY <2>2 DEF ScanOrphan, CloseOrphan, IInv, TypeOK
  <2>3. CASE MakeAttempt(p, u)
    <3>1. u = t /\ a = plan[p][t]
      BY <2>3 DEF MakeAttempt, IInv, TypeOK
    <3>2. lock = p /\ retry[p]
      BY <2>3, <3>1, WorkerHoldsLock DEF MakeAttempt, IInv, MemoryInv, TrialInv, QueuedInv
    <3> QED BY <3>2
  <2>4. CASE WriteStarted(p, u) \/ \E kind \in Receipts : EndTrial(p, u, kind)
    <3>1. files[u][plan[p][u]] \in {"made", "started"}
      BY <2>4, WorkerState DEF WriteStarted, EndTrial
    <3>2. \E state : files' = [files EXCEPT ![u][plan[p][u]] = state]
      BY <2>4 DEF WriteStarted, EndTrial
    <3>3. ~(u = t /\ plan[p][u] = a)
      BY <3>1
    <3>4. files'[t][a] = files[t][a]
      BY <3>2, <3>3 DEF IInv, TypeOK
    <3> QED BY <3>4
  <2> QED BY <2>1, <2>2, <2>3, <2>4
<1> QED BY <1>1, RunInvariant, PTL DEF Spec, RetryIsExplicit

-----------------------------------------------------------------------------
(* The directory implements the abstract ledger.                           *)

View == [t \in Trials |-> [a \in Attempts |-> Recorded(t, a)]]

(* Writing one attempt's file shows in the ledger as one record.           *)
LEMMA ViewOfWrite ==
  ASSUME TypeOK, NEW t \in Trials, NEW a \in Attempts, NEW state,
         files' = [files EXCEPT ![t][a] = state]
  PROVE  View' = [View EXCEPT ![t][a] = Shown(state)]
<1>1. ASSUME NEW u \in Trials, NEW b \in Attempts
      PROVE  Recorded(u, b)' = IF u = t /\ b = a THEN Shown(state) ELSE Recorded(u, b)
  <2>1. files'[u][b] = IF u = t /\ b = a THEN state ELSE files[u][b]
    BY DEF TypeOK
  <2> QED BY <2>1 DEF Recorded
<1>2. View' = [u \in Trials |-> [b \in Attempts |->
                   IF u = t /\ b = a THEN Shown(state) ELSE Recorded(u, b)]]
  BY <1>1 DEF View
<1>3. [View EXCEPT ![t][a] = Shown(state)] =
          [u \in Trials |-> [b \in Attempts |->
                   IF u = t /\ b = a THEN Shown(state) ELSE Recorded(u, b)]]
  BY DEF View
<1> QED BY <1>2, <1>3

(* A directory step is a ledger step or leaves the ledger unchanged.       *)
LEMMA LedgerStep ==
  ASSUME IInv, [Next]_vars
  PROVE  [Ledger!Next]_View
<1>1. CASE UNCHANGED files
  BY <1>1 DEF View, Recorded
<1>2. CASE ~UNCHANGED files
  <2>0. Next /\ TypeOK
    BY <1>2 DEF vars, durable, IInv
  <2>1. PICK p \in Procs, t \in Trials :
            \/ \E a \in Attempts : ScanOrphan(p, t, a)
            \/ MakeAttempt(p, t)
            \/ WriteStarted(p, t)
            \/ \E kind \in Receipts : EndTrial(p, t, kind)
    BY <1>2, <2>0, DurableSteps DEF PinManifest
  <2>2. ASSUME NEW a \in Attempts, ScanOrphan(p, t, a) PROVE Ledger!Close(t, a, "interrupted")
    <3>1. files[t][a] = "started" /\ files' = [files EXCEPT ![t][a] = "interrupted"]
      BY <2>2 DEF ScanOrphan, CloseOrphan
    <3>2. View' = [View EXCEPT ![t][a] = "interrupted"]
      <4>1. Shown("interrupted") = "interrupted"
        BY DEF Shown
      <4> QED BY <2>0, <3>1, <4>1, ViewOfWrite
    <3>3. View[t][a] = "open"
      BY <3>1 DEF View, Recorded, Shown
    <3> QED BY <3>2, <3>3 DEF Ledger!Close, Ledger!Record, View
  <2>3. CASE MakeAttempt(p, t)
    <3>1. /\ plan[p][t] \in Attempts /\ files[t][plan[p][t]] = "absent"
          /\ files' = [files EXCEPT ![t][plan[p][t]] = "made"]
      BY <2>3 DEF MakeAttempt, IInv, MemoryInv, TrialInv, QueuedInv
    <3>2. ASSUME NEW u \in Trials, NEW b \in Attempts
          PROVE  Recorded(u, b)' = Recorded(u, b)
      BY <2>0, <3>1 DEF TypeOK, Recorded, Shown
    <3>3. View' = View
      BY <3>2 DEF View
    <3> QED BY <3>3
  <2>4. CASE WriteStarted(p, t)
    <3>1. PICK a \in Attempts :
             /\ a = plan[p][t] /\ files[t][a] = "made"
             /\ files' = [files EXCEPT ![t][a] = "started"]
      BY <2>4 DEF WriteStarted, IInv, MemoryInv, TrialInv, OpenInv
    <3>2. View' = [View EXCEPT ![t][a] = "open"]
      <4>1. Shown("started") = "open"
        BY DEF Shown
      <4> QED BY <2>0, <3>1, <4>1, ViewOfWrite
    <3>3. View[t][a] = "absent"
      BY <3>1 DEF View, Recorded, Shown
    <3>4. a = 1 \/ View[t][a - 1] = "interrupted"
      <4>1. a = 1 \/ (a - 1 \in Attempts /\ a - 1 < a)
        BY RunAssumption DEF Attempts
      <4>2. a = 1 \/ (a - 1 \in Attempts /\ files[t][a - 1] = "interrupted")
        BY <3>1, <4>1 DEF IInv, Chain
      <4> QED BY <4>2 DEF View, Recorded, Shown
    <3>5. Ledger!Begin(t, a)
      BY <3>2, <3>3, <3>4 DEF Ledger!Begin, Ledger!Record, View
    <3> QED BY <3>5 DEF Ledger!Next, Ledger!Attempts, Attempts
  <2>5. ASSUME NEW kind \in Receipts, EndTrial(p, t, kind)
        PROVE  \E a \in Attempts : Ledger!Close(t, a, kind)
    <3>1. PICK a \in Attempts :
             /\ a = plan[p][t] /\ files[t][a] = "started"
             /\ files' = [files EXCEPT ![t][a] = kind]
      BY <2>5 DEF EndTrial, IInv, MemoryInv, TrialInv, OpenInv
    <3>2. View' = [View EXCEPT ![t][a] = kind]
      <4>1. Shown(kind) = kind
        BY DEF Shown, Receipts
      <4> QED BY <2>0, <3>1, <4>1, ViewOfWrite
    <3>3. View[t][a] = "open"
      BY <3>1 DEF View, Recorded, Shown
    <3> QED BY <3>2, <3>3 DEF Ledger!Close, Ledger!Record, View
  <2> QED BY <2>1, <2>2, <2>3, <2>4, <2>5
          DEF Ledger!Next, Ledger!Attempts, Attempts, Ledger!Receipts, Receipts
<1> QED BY <1>1, <1>2

(* Whatever is run, refused, cancelled, crashed and run again, the         *)
(* directory behaves as the abstract ledger: attempts open and close once, *)
(* receipts never change, only interrupted trials are attempted again.     *)
THEOREM DirectoryImplementsLedger == Spec => ImplementsLedger
<1>1. Init => Ledger!Init
  BY DEF Init, Ledger!Init, Recorded, Shown, Ledger!Attempts, Attempts
<1>2. IInv /\ [Next]_vars => [Ledger!Next]_View
  BY LedgerStep
<1> QED BY <1>1, <1>2, RunInvariant, PTL DEF Spec, ImplementsLedger, Ledger!Spec, View

-----------------------------------------------------------------------------
(* The calls of _run_pending.                                              *)

(* Until the scan is over, a trial is unknown, reused or queued.           *)
ScanInv ==
    \A p \in Procs, t \in Trials :
        pc[p] = "scan" => task[p][t] \in {"none", "reused", "queued"}

LEMMA ScanInvStep == IInv /\ ScanInv /\ [Next]_vars => ScanInv'
<1> SUFFICES ASSUME IInv, ScanInv, [Next]_vars PROVE ScanInv'
  OBVIOUS
<1>0. TypeOK
  BY DEF IInv
<1>1. CASE UNCHANGED vars
  BY <1>1 DEF vars, local, ScanInv
<1>2. ASSUME NEW p \in Procs, Leave(p) PROVE ScanInv'
  BY <1>0, <1>2 DEF Leave, ScanInv, TypeOK
<1>3. ASSUME NEW p \in Procs, PinManifest(p) PROVE ScanInv'
  <2>1. \A t \in Trials : task[p][t] = "none"
    BY <1>3 DEF PinManifest, IInv, MemoryInv, TrialInv, Progressed
  <2> QED BY <1>0, <1>3, <2>1 DEF PinManifest, ScanInv, TypeOK
<1>4. ASSUME NEW p \in Procs, UNCHANGED task,
             \E place : place # "scan" /\ pc' = [pc EXCEPT ![p] = place]
      PROVE  ScanInv'
  BY <1>0, <1>4 DEF ScanInv, TypeOK
<1>5. ASSUME NEW p \in Procs, NEW t \in Trials,
             UNCHANGED pc,
             \/ \E state \in {"reused", "queued"} : task' = [task EXCEPT ![p][t] = state]
             \/ pc[p] # "scan" /\ \E state : task' = [task EXCEPT ![p][t] = state]
      PROVE  ScanInv'
  <2>1. PICK state : /\ task' = [task EXCEPT ![p][t] = state]
                     /\ state \in {"reused", "queued"} \/ pc[p] # "scan"
    BY <1>5
  <2>2. ASSUME NEW q \in Procs, NEW u \in Trials
        PROVE  task'[q][u] = IF q = p /\ u = t THEN state ELSE task[q][u]
    BY <1>0, <2>1 DEF TypeOK
  <2> QED BY <1>5, <2>1, <2>2 DEF ScanInv
<1>6. ASSUME NEW p \in Procs, NEW t \in Trials,
             task[p][t] \in {"making", "running"}
      PROVE  pc[p] # "scan"
  BY <1>6 DEF IInv, MemoryInv, TrialInv, Progressed
<1>7. ASSUME NEW p \in Procs, Progress(p) PROVE ScanInv'
  <2>1. CASE RejectManifest(p) \/ Drained(p) \/ EndExport(p)
    BY <1>2, <2>1 DEF RejectManifest, Drained, EndExport
  <2>2. CASE AllDone(p) \/ WriteReport(p) \/ EndScan(p)
    BY <1>4, <2>2 DEF AllDone, WriteReport, EndScan
  <2>3. ASSUME NEW t \in Trials,
               ScanUntried(p, t) \/ \E a \in Attempts : ScanReceipt(p, t, a) \/ ScanOrphan(p, t, a)
        PROVE  ScanInv'
    BY <1>5, <2>3 DEF ScanUntried, ScanReceipt, ScanOrphan, Scanned, Queue, Reuse
  <2>4. ASSUME NEW t \in Trials, NEW a \in Attempts, ScanIncomplete(p, t, a) PROVE ScanInv'
    BY <1>2, <2>4 DEF ScanIncomplete
  <2>5. CASE Task(p)
    <3>1. PICK t \in Trials :
              MakeAttempt(p, t) \/ WriteStarted(p, t) \/ \E kind \in Receipts : EndTrial(p, t, kind)
      BY <2>5 DEF Task
    <3> QED BY <1>5, <1>6, <3>1 DEF MakeAttempt, WriteStarted, EndTrial
  <2> QED BY <1>3, <1>7, <2>1, <2>2, <2>3, <2>4, <2>5 DEF Progress, Scan
<1>8. ASSUME NEW p \in Procs, NEW d \in Definitions, NEW r \in BOOLEAN, Acquire(p, d, r)
      PROVE  ScanInv'
  BY <1>4, <1>8 DEF Acquire
<1>9. ASSUME NEW p \in Procs, NEW t \in Trials, TaskFails(p, t) PROVE ScanInv'
  BY <1>5, <1>6, <1>9 DEF TaskFails
<1>10. ASSUME NEW p \in Procs, BeginDrain(p) \/ Crash(p) PROVE ScanInv'
  BY <1>2, <1>4, <1>10 DEF BeginDrain, Crash
<1> QED BY <1>1, <1>7, <1>8, <1>9, <1>10 DEF Next

TaskView == [t \in Trials |-> TaskOf(t)]

(* Outside a call no trial shows.                                          *)
LEMMA ViewOfNothing ==
  ASSUME ~Calling
  PROVE  TaskView = Tasks!none /\ Stage = "idle"
  BY DEF TaskView, TaskOf, Stage, Tasks!none

(* Within one, a task that changes shows as one task that changes.         *)
LEMMA ViewOfTask ==
  ASSUME TypeOK, Calling, UNCHANGED <<lock, pc>>, lock \in Procs, NEW t \in Trials, NEW state,
         task' = [task EXCEPT ![lock][t] = state]
  PROVE  /\ TaskView' = [TaskView EXCEPT ![t] = Outward(state)]
         /\ TaskView[t] = Outward(task[lock][t])
         /\ Stage' = Stage
<1>1. Calling'
  BY DEF Calling
<1>2. ASSUME NEW u \in Trials
      PROVE  TaskOf(u)' = IF u = t THEN Outward(state) ELSE TaskOf(u)
  BY <1>1 DEF TypeOK, TaskOf
<1> QED BY <1>1, <1>2 DEF TaskView, TaskOf, Stage, Calling

LEMMA TasksStep ==
  ASSUME IInv, ScanInv, [Next]_vars
  PROVE  [Tasks!Next]_<<TaskView, Stage, crashes>>
<1> DEFINE Stays == UNCHANGED <<TaskView, Stage, crashes>>
<1>0. TypeOK
  BY DEF IInv
<1>1. CASE UNCHANGED vars
  BY <1>1 DEF vars, durable, local, TaskView, TaskOf, Stage, Calling
<1>2. ASSUME NEW p \in Procs, pc[p] # "idle" PROVE lock = p /\ lock # Nobody
  BY <1>2, RunAssumption DEF IInv, LockInv
<1>3. ASSUME NEW p \in Procs, NEW t \in Trials, task[p][t] \in {"making", "running"}
      PROVE  lock = p /\ pc[p] \in {"execute", "drain"} /\ Calling
  <2>1. pc[p] \in {"execute", "drain"}
    BY <1>3 DEF IInv, MemoryInv, TrialInv, Progressed
  <2> QED BY <1>2, <2>1 DEF Calling
<1>4. ASSUME NEW p \in Procs, Leave(p) PROVE ~Calling'
  BY <1>4 DEF Leave, Calling
<1>5. ASSUME NEW p \in Procs, NEW d \in Definitions, NEW r \in BOOLEAN, Acquire(p, d, r)
      PROVE  Stays
  <2>1. ~Calling /\ ~Calling'
    BY <1>0, <1>5 DEF Acquire, Calling, TypeOK
  <2>2. TaskView' = Tasks!none /\ Stage' = "idle"
    BY <2>1 DEF TaskView, TaskOf, Stage, Tasks!none
  <2> QED BY <1>5, <2>1, <2>2, ViewOfNothing DEF Acquire
<1>6. ASSUME NEW p \in Procs, Crash(p) PROVE Tasks!Die
  <2>1. TaskView' = Tasks!none /\ Stage' = "idle"
    BY <1>4, <1>6 DEF Crash, TaskView, TaskOf, Stage, Tasks!none
  <2> QED BY <1>6, <2>1 DEF Crash, Tasks!Die, Tasks!Over, TaskView
<1>7. ASSUME NEW p \in Procs, BeginDrain(p) PROVE Tasks!Abort
  <2>1. lock = p /\ pc[p] = "execute" /\ Calling /\ Calling' /\ pc'[p] = "drain"
    BY <1>0, <1>2, <1>7 DEF BeginDrain, Calling, durable, TypeOK
  <2>2. TaskView' = TaskView /\ Stage = "execute" /\ Stage' = "drain"
    BY <1>7, <2>1 DEF BeginDrain, TaskView, TaskOf, Stage, durable
  <2>3. PICK t \in Trials : task[p][t] \in {"running", "raised", "result"}
    BY <1>7 DEF BeginDrain
  <2>4. TaskView[t] \in {"running", "raised", "result"}
    BY <2>1, <2>3 DEF TaskView, TaskOf, Outward
  <2> QED BY <1>7, <2>2, <2>4 DEF BeginDrain, Tasks!Abort, TaskView
<1>8. ASSUME NEW p \in Procs, NEW t \in Trials,
             WriteStarted(p, t) \/ TaskFails(p, t) \/ MakeAttempt(p, t)
                 \/ \E kind \in Receipts : EndTrial(p, t, kind)
      PROVE  Stays \/ Tasks!Start(t) \/ \E outcome \in {"result", "raised"} : Tasks!End(t, outcome)
  <2>1. lock = p /\ pc[p] \in {"execute", "drain"} /\ Calling
    <3>1. CASE MakeAttempt(p, t)
      BY <1>2, <3>1 DEF MakeAttempt, Calling
    <3>2. CASE ~MakeAttempt(p, t)
      BY <1>3, <1>8, <3>2 DEF WriteStarted, TaskFails, EndTrial
    <3> QED BY <3>1, <3>2
  <2>2. UNCHANGED <<lock, pc, crashes>>
    BY <1>8 DEF WriteStarted, TaskFails, MakeAttempt, EndTrial, durable
  <2>3. CASE MakeAttempt(p, t)
    <3>1. /\ TaskView' = [TaskView EXCEPT ![t] = Outward("making")]
          /\ TaskView[t] = Outward("queued")
          /\ Stage' = Stage
      BY <1>0, <2>1, <2>2, <2>3, ViewOfTask DEF MakeAttempt
    <3>2. Stage = "execute"
      BY <2>1, <2>3 DEF MakeAttempt, Stage
    <3>3. Tasks!Start(t)
      BY <2>2, <3>1, <3>2 DEF Tasks!Start, TaskView, Outward
    <3> QED BY <3>3
  <2>4. CASE WriteStarted(p, t)
    <3>1. /\ TaskView' = [TaskView EXCEPT ![t] = Outward("running")]
          /\ TaskView[t] = Outward("making")
          /\ Stage' = Stage
      BY <1>0, <2>1, <2>2, <2>4, ViewOfTask DEF WriteStarted
    <3>2. TaskView' = TaskView
      BY <3>1 DEF TaskView, Outward
    <3> QED BY <2>2, <3>1, <3>2
  <2>5. ASSUME NEW outcome \in {"result", "raised"}, task[p][t] \in {"making", "running"},
               task' = [task EXCEPT ![p][t] = outcome]
        PROVE  Tasks!End(t, outcome)
    <3>1. /\ TaskView' = [TaskView EXCEPT ![t] = Outward(outcome)]
          /\ TaskView[t] = Outward(task[p][t])
          /\ Stage' = Stage
      BY <1>0, <2>1, <2>2, <2>5, ViewOfTask
    <3>2. Outward(outcome) = outcome /\ Outward(task[p][t]) = "running"
      BY <2>5 DEF Outward
    <3> QED BY <2>2, <3>1, <3>2 DEF Tasks!End, TaskView
  <2>6. CASE TaskFails(p, t) \/ \E kind \in Receipts : EndTrial(p, t, kind)
    <3>1. task[p][t] \in {"making", "running"}
      BY <2>6 DEF TaskFails, EndTrial
    <3>2. PICK outcome \in {"result", "raised"} : task' = [task EXCEPT ![p][t] = outcome]
      BY <2>6 DEF TaskFails, EndTrial
    <3> QED BY <2>5, <3>1, <3>2
  <2> QED BY <1>8, <2>3, <2>4, <2>6
<1>9. ASSUME NEW p \in Procs, AllDone(p) PROVE Tasks!Return
  <2>1. lock = p /\ pc[p] = "execute" /\ Calling /\ Calling' /\ pc'[p] = "report"
    BY <1>0, <1>2, <1>9 DEF AllDone, Calling, durable, TypeOK
  <2>2. TaskView' = TaskView /\ Stage = "execute" /\ Stage' = "returned"
    BY <1>9, <2>1 DEF AllDone, TaskView, TaskOf, Stage, durable
  <2>3. \A t \in Trials : TaskView[t] \in {"none", "result"}
    BY <1>9, <2>1 DEF AllDone, Delivered, TaskView, TaskOf, Outward
  <2> QED BY <1>9, <2>2, <2>3 DEF AllDone, Tasks!Return, TaskView
<1>10. ASSUME NEW p \in Procs, WriteReport(p) PROVE Stays
  <2>1. lock = p /\ Calling /\ Calling' /\ pc'[p] = "export"
    BY <1>0, <1>2, <1>10 DEF WriteReport, Calling, TypeOK
  <2> QED BY <1>10, <2>1 DEF WriteReport, TaskView, TaskOf, Stage
<1>11. ASSUME NEW p \in Procs, Drained(p) \/ EndExport(p) PROVE Tasks!Leave
  <2>1. lock = p /\ Calling
    BY <1>2, <1>11 DEF Drained, EndExport, Calling
  <2>2. TaskView' = Tasks!none /\ Stage' = "idle" /\ UNCHANGED crashes
    BY <1>4, <1>11 DEF Drained, EndExport, TaskView, TaskOf, Stage, Tasks!none
  <2>3. CASE EndExport(p)
    BY <2>1, <2>2, <2>3 DEF EndExport, Stage, Tasks!Leave, Tasks!Over, TaskView
  <2>4. CASE Drained(p)
    <3>1. \A t \in Trials : task[p][t] \notin {"making", "running"}
      BY <2>4 DEF Drained, Running
    <3>2. \A t \in Trials : TaskView[t] # "running"
      BY <2>1, <3>1 DEF TaskView, TaskOf, Outward
    <3>3. Stage = "drain"
      BY <2>1, <2>4 DEF Drained, Stage
    <3> QED BY <2>2, <3>2, <3>3 DEF Tasks!Leave, Tasks!Over, TaskView
  <2> QED BY <1>11, <2>3, <2>4
<1>12. ASSUME NEW p \in Procs,
              \/ PinManifest(p) \/ RejectManifest(p)
              \/ \E t \in Trials :
                     ScanUntried(p, t) \/ \E a \in Attempts :
                         ScanReceipt(p, t, a) \/ ScanOrphan(p, t, a) \/ ScanIncomplete(p, t, a)
       PROVE  Stays
  <2>1. pc[p] \in {"locked", "scan"} /\ UNCHANGED crashes
    BY <1>12 DEF PinManifest, RejectManifest, ScanUntried, ScanReceipt, ScanOrphan,
                 ScanIncomplete, Scanned
  <2>2. ~Calling
    BY <1>2, <2>1 DEF Calling
  <2>3. Leave(p) \/ (UNCHANGED lock /\ pc'[p] \in {"locked", "scan"})
    BY <1>0, <1>12, <2>1 DEF PinManifest, RejectManifest, ScanUntried, ScanReceipt, ScanOrphan,
                 ScanIncomplete, Scanned, TypeOK
  <2>4. ~Calling'
    BY <1>2, <1>4, <2>1, <2>3 DEF Calling
  <2>5. TaskView' = Tasks!none /\ Stage' = "idle"
    BY <2>4 DEF TaskView, TaskOf, Stage, Tasks!none
  <2> QED BY <2>1, <2>2, <2>5, ViewOfNothing
<1>13. ASSUME NEW p \in Procs, EndScan(p) PROVE Tasks!Call
  <2>1. lock = p /\ pc[p] = "scan" /\ ~Calling /\ Calling' /\ pc'[p] = "execute"
    BY <1>0, <1>2, <1>13 DEF EndScan, Calling, durable, TypeOK
  <2>2. \A t \in Trials : TaskOf(t)' \in {"none", "queued"}
    BY <1>13, <2>1 DEF EndScan, ScanInv, TaskOf, Outward, durable
  <2>3. TaskView' \in Tasks!Handed
    BY <2>2 DEF TaskView, Tasks!Handed
  <2>4. Stage' = "execute"
    BY <2>1, <1>13 DEF EndScan, Stage, durable
  <2> QED BY <1>13, <2>1, <2>3, <2>4, ViewOfNothing DEF EndScan, Tasks!Call, TaskView
<1>14. ASSUME NEW p \in Procs, Progress(p) PROVE [Tasks!Next]_<<TaskView, Stage, crashes>>
  <2>1. CASE Scan(p)
    BY <1>12, <1>13, <2>1 DEF Scan, Tasks!Next
  <2>2. CASE Task(p)
    BY <1>8, <2>2 DEF Task, Tasks!Next
  <2> QED BY <1>9, <1>10, <1>11, <1>12, <1>14, <2>1, <2>2 DEF Progress, Tasks!Next
<1>15. CASE Next
  <2>1. PICK p \in Procs :
            \/ \E d \in Definitions, r \in BOOLEAN : Acquire(p, d, r)
            \/ Progress(p) \/ BeginDrain(p) \/ Crash(p)
            \/ \E t \in Trials : TaskFails(p, t)
    BY <1>15 DEF Next
  <2> QED BY <1>5, <1>6, <1>7, <1>8, <1>14, <2>1 DEF Tasks!Next
<1> QED BY <1>1, <1>15

(* Whatever processes run, are refused, crash and are started again, the   *)
(* trials of the one that holds the lock do what the scheduler promises.   *)
THEOREM RunsImplementTasks == Spec => ImplementsTasks
<1>1. Init => ScanInv
  BY DEF Init, ScanInv
<1>2. Init => Tasks!Init
  <2> SUFFICES ASSUME Init PROVE Tasks!Init
    OBVIOUS
  <2>1. ~Calling
    BY DEF Init, Calling
  <2> QED BY <2>1, ViewOfNothing DEF Init, Tasks!Init, TaskView
<1> QED BY <1>1, <1>2, ScanInvStep, TasksStep, RunInvariant, PTL
        DEF Spec, ImplementsTasks, Tasks!Spec, TaskView

-----------------------------------------------------------------------------
(* What liveness rests on short of fairness: the run that holds the lock   *)
(* always has a step of its own.                                           *)

(* Every trial the scan has passed was queued or reused.                   *)
NoneForgotten ==
    \A p \in Procs :
        /\ pc[p] \in {"idle", "locked"} => next[p] = 1
        /\ \A t \in Trials :
               \/ pc[p] = "scan" /\ t < next[p]
               \/ pc[p] \in {"execute", "drain", "report", "export"}
               => task[p][t] # "none"

(* Steps after which each trial has a task if it had one before.           *)
LEMMA TasksKept ==
  ASSUME IInv, NoneForgotten, NEW p \in Procs,
         \/ AllDone(p) \/ BeginDrain(p) \/ WriteReport(p)
         \/ \E t \in Trials :
                \/ MakeAttempt(p, t) \/ WriteStarted(p, t) \/ TaskFails(p, t)
                \/ \E kind \in Receipts : EndTrial(p, t, kind)
  PROVE  NoneForgotten'
<1>1. \A q \in Procs, t \in Trials : task[q][t] # "none" => task'[q][t] # "none"
  <2>1. CASE task' = task
    BY <2>1
  <2>2. ASSUME NEW t \in Trials, NEW state,
               task' = [task EXCEPT ![p][t] = state], state # "none"
        PROVE  \A q \in Procs, u \in Trials : task[q][u] # "none" => task'[q][u] # "none"
    BY <2>2 DEF IInv, TypeOK
  <2>3. CASE \E t \in Trials : MakeAttempt(p, t) \/ WriteStarted(p, t) \/ TaskFails(p, t)
    BY <2>2, <2>3 DEF MakeAttempt, WriteStarted, TaskFails
  <2>4. ASSUME NEW t \in Trials, NEW kind \in Receipts, EndTrial(p, t, kind)
        PROVE  \A q \in Procs, u \in Trials : task[q][u] # "none" => task'[q][u] # "none"
    BY <2>2, <2>4 DEF EndTrial
  <2> QED BY <2>1, <2>3, <2>4 DEF AllDone, BeginDrain, WriteReport
<1>2. /\ next' = next
      /\ \A q \in Procs :
             \/ pc'[q] = pc[q]
             \/ /\ pc[q] \in {"execute", "report"}
                /\ pc'[q] \in {"drain", "report", "export"}
  BY DEF AllDone, BeginDrain, WriteReport, MakeAttempt, WriteStarted, TaskFails, EndTrial,
         IInv, TypeOK
<1> QED BY <1>1, <1>2 DEF NoneForgotten

LEMMA ScannedKept ==
  ASSUME IInv, NoneForgotten, NEW p \in Procs, NEW t \in Trials, Scanned(p, t),
         NEW a, Queue(p, t, a) \/ \E kind \in Receipts : Reuse(p, t, a, kind)
  PROVE  NoneForgotten'
<1>1. pc' = pc /\ pc[p] = "scan" /\ next[p] = t /\ t \in Int /\ next'[p] = t + 1
  BY DEF Scanned, IInv, TypeOK, Trials
<1>2. \A q \in Procs : q # p => next'[q] = next[q]
  BY DEF Scanned, IInv, TypeOK
<1>3. task'[p][t] # "none"
  BY DEF Queue, Reuse, IInv, TypeOK
<1>4. \A q \in Procs, u \in Trials : q # p \/ u # t => task'[q][u] = task[q][u]
  BY DEF Queue, Reuse, IInv, TypeOK
<1>5. \A u \in Trials : u < t + 1 => u = t \/ u < t
  BY <1>1 DEF Trials
<1> QED BY <1>1, <1>2, <1>3, <1>4, <1>5 DEF NoneForgotten

LEMMA NoneForgottenStep == IInv /\ NoneForgotten /\ [Next]_vars => NoneForgotten'
<1> SUFFICES ASSUME IInv, NoneForgotten, [Next]_vars PROVE NoneForgotten'
  OBVIOUS
<1>1. CASE UNCHANGED vars
  BY <1>1 DEF vars, durable, local, NoneForgotten
<1>2. ASSUME NEW p \in Procs, Leave(p) PROVE NoneForgotten'
  <2>1. pc'[p] = "idle" /\ next'[p] = 1
    BY <1>2 DEF Leave, IInv, TypeOK
  <2>2. \A q \in Procs : q # p => pc'[q] = pc[q] /\ next'[q] = next[q] /\ task'[q] = task[q]
    BY <1>2 DEF Leave, IInv, TypeOK
  <2> QED BY <2>1, <2>2 DEF NoneForgotten
<1>3. ASSUME NEW p \in Procs, NEW d \in Definitions, NEW r \in BOOLEAN, Acquire(p, d, r)
      PROVE  NoneForgotten'
  <2>1. pc[p] = "idle" /\ pc'[p] = "locked" /\ UNCHANGED <<next, task>>
    BY <1>3 DEF Acquire, IInv, TypeOK
  <2>2. \A q \in Procs : q # p => pc'[q] = pc[q]
    BY <1>3 DEF Acquire, IInv, TypeOK
  <2> QED BY <2>1, <2>2 DEF NoneForgotten
<1>4. ASSUME NEW p \in Procs, PinManifest(p) PROVE NoneForgotten'
  <2>1. pc[p] = "locked" /\ pc'[p] = "scan" /\ UNCHANGED <<next, task>>
    BY <1>4 DEF PinManifest, IInv, TypeOK
  <2>2. \A q \in Procs : q # p => pc'[q] = pc[q]
    BY <1>4 DEF PinManifest, IInv, TypeOK
  <2>3. \A t \in Trials : ~(t < 1)
    BY DEF Trials
  <2> QED BY <2>1, <2>2, <2>3 DEF NoneForgotten
<1>5. ASSUME NEW p \in Procs, EndScan(p) PROVE NoneForgotten'
  <2>1. pc[p] = "scan" /\ next[p] = N + 1 /\ pc'[p] = "execute" /\ UNCHANGED <<next, task>>
    BY <1>5 DEF EndScan, IInv, TypeOK
  <2>2. \A q \in Procs : q # p => pc'[q] = pc[q]
    BY <1>5 DEF EndScan, IInv, TypeOK
  <2>3. \A t \in Trials : t < N + 1
    BY RunAssumption DEF Trials
  <2> QED BY <2>1, <2>2, <2>3 DEF NoneForgotten
<1>6. ASSUME NEW p \in Procs, Scan(p) PROVE NoneForgotten'
  <2>1. ASSUME NEW t \in Trials, ScanUntried(p, t) PROVE NoneForgotten'
    BY <2>1, ScannedKept DEF ScanUntried
  <2>2. ASSUME NEW t \in Trials, NEW a \in Attempts, ScanReceipt(p, t, a) \/ ScanOrphan(p, t, a)
        PROVE  NoneForgotten'
    <3>1. Scanned(p, t)
      BY <2>2 DEF ScanReceipt, ScanOrphan
    <3>2. \/ Queue(p, t, a + 1)
          \/ \E kind \in Receipts : Reuse(p, t, a, kind)
      BY <2>2 DEF ScanReceipt, ScanOrphan, Receipts
    <3> QED BY <3>1, <3>2, ScannedKept
  <2>3. ASSUME NEW t \in Trials, NEW a \in Attempts, ScanIncomplete(p, t, a) PROVE NoneForgotten'
    BY <1>2, <2>3 DEF ScanIncomplete
  <2> QED BY <1>5, <1>6, <2>1, <2>2, <2>3 DEF Scan
<1>7. ASSUME NEW p \in Procs, Progress(p) PROVE NoneForgotten'
  <2>1. CASE Task(p)
    BY <2>1, TasksKept DEF Task
  <2>2. CASE AllDone(p) \/ WriteReport(p)
    BY <2>2, TasksKept
  <2>3. CASE RejectManifest(p) \/ Drained(p) \/ EndExport(p)
    BY <1>2, <2>3 DEF RejectManifest, Drained, EndExport
  <2> QED BY <1>4, <1>6, <1>7, <2>1, <2>2, <2>3 DEF Progress
<1>8. CASE Next
  <2>1. PICK p \in Procs :
            \/ \E d \in Definitions, r \in BOOLEAN : Acquire(p, d, r)
            \/ Progress(p) \/ BeginDrain(p) \/ Crash(p)
            \/ \E t \in Trials : TaskFails(p, t)
    BY <1>8 DEF Next
  <2>2. CASE BeginDrain(p) \/ \E t \in Trials : TaskFails(p, t)
    BY <2>2, TasksKept
  <2>3. CASE Crash(p)
    BY <1>2, <2>3 DEF Crash
  <2> QED BY <1>3, <1>7, <2>1, <2>2, <2>3
<1> QED BY <1>1, <1>8

(* A trial with an attempt has a latest one.                               *)
LEMMA LatestExists ==
  ASSUME NEW t \in Trials, ~Untried(t)
  PROVE  \E a \in Attempts : Latest(t, a)
<1> DEFINE Older == OpToRel(<, Nat)
<1> DEFINE Above == {n \in Nat : MaxAttempts - n \in Attempts /\ files[t][MaxAttempts - n] # "absent"}
<1>1. \A x, y \in Nat : <<x, y>> \in Older <=> x < y
  BY DEF OpToRel
<1>2. IsWellFoundedOn(Older, Nat)
  BY NatLessThanWellFounded
<1>3. PICK a \in Attempts : files[t][a] # "absent"
  BY DEF Untried
<1>4. MaxAttempts - a \in Nat /\ MaxAttempts - (MaxAttempts - a) = a
  BY RunAssumption DEF Attempts
<1>5. MaxAttempts - a \in Above
  BY <1>3, <1>4
<1> HIDE DEF Older
<1>6. PICK n \in Above : \A k \in Above : <<k, n>> \notin Older
  <2>1. Above \in SUBSET Nat /\ Above # {}
    BY <1>5
  <2> QED BY <1>2, <2>1, WFMin
<1>7. \A k \in Above : ~(k < n)
  BY <1>1, <1>6
<1>8. MaxAttempts - n \in Attempts /\ files[t][MaxAttempts - n] # "absent" /\ n \in Nat
  BY <1>6
<1>9. ASSUME NEW b \in Attempts, b > MaxAttempts - n, files[t][b] # "absent" PROVE FALSE
  <2>1. MaxAttempts - b \in Nat /\ MaxAttempts - (MaxAttempts - b) = b /\ MaxAttempts - b < n
    BY <1>8, <1>9, RunAssumption DEF Attempts
  <2>2. MaxAttempts - b \in Above
    BY <1>9, <2>1
  <2> QED BY <1>7, <2>1, <2>2
<1> QED BY <1>8, <1>9 DEF Latest

(* The guards of the steps of a live run.                                  *)
GoesOn(p) ==
    \/ pc[p] \in {"locked", "report", "export"}
    \/ /\ pc[p] = "scan"
       /\ \/ next[p] = N + 1
          \/ /\ next[p] \in Trials
             /\ Untried(next[p]) \/ \E a \in Attempts : Latest(next[p], a)
    \/ \E t \in Trials : task[p][t] = "making"
    \/ Settled(p) /\ \E t \in Trials : task[p][t] = "running"
    \/ pc[p] = "drain" /\ Running(p) = {}
    \/ /\ pc[p] = "execute"
       /\ Settled(p)
       /\ \E t \in Trials :
              \/ task[p][t] = "raised"
              \/ task[p][t] = "queued" /\ files[t][plan[p][t]] = "absent"
    \/ pc[p] = "execute" /\ \A t \in Trials : task[p][t] \in Delivered

(* A run that holds the lock never stands still: the scan finds in every   *)
(* directory a case it knows, each trial it passes is queued or reused,    *)
(* and _run_pending has a task to start or to wait for, an error to raise  *)
(* or all results.  No order of crashes, retries and failures leaves a     *)
(* directory in which a later run waits for ever.  The step may be one     *)
(* that ends the run: a manifest that is not its own is refused, and so    *)
(* is an attempt directory with no file in it (Resumable is about that).   *)
THEOREM RunsGoOn == Spec => [](lock # Nobody => GoesOn(lock))
<1>1. IInv /\ NoneForgotten => (lock # Nobody => GoesOn(lock))
  <2> SUFFICES ASSUME IInv, NoneForgotten, lock # Nobody PROVE GoesOn(lock)
    OBVIOUS
  <2> DEFINE p == lock
  <2>1. p \in Procs /\ pc[p] # "idle"
    BY DEF IInv, TypeOK, LockInv
  <2>2. pc[p] \in {"locked", "scan", "execute", "drain", "report", "export"}
    BY <2>1 DEF IInv, TypeOK
  <2>3. CASE pc[p] = "scan"
    <3>1. next[p] = N + 1 \/ next[p] \in Trials
      BY <2>1, RunAssumption DEF IInv, TypeOK, Trials
    <3> QED BY <2>3, <3>1, LatestExists DEF GoesOn
  <2>4. CASE Running(p) # {}
    BY <2>4 DEF Running, Settled, GoesOn
  <2>5. CASE pc[p] = "execute" /\ Running(p) = {}
    <3>1. Settled(p)
      BY <2>5 DEF Running, Settled
    <3>2. \A t \in Trials : task[p][t] \in {"reused", "queued", "result", "raised"}
      BY <2>1, <2>5 DEF Running, NoneForgotten, IInv, TypeOK, TaskStates
    <3>3. \A t \in Trials : task[p][t] = "queued" => files[t][plan[p][t]] = "absent"
      BY <2>1 DEF IInv, MemoryInv, TrialInv, QueuedInv
    <3> QED BY <2>5, <3>1, <3>2, <3>3 DEF GoesOn, Delivered
  <2> QED BY <2>2, <2>3, <2>4, <2>5 DEF GoesOn
<1>2. Init => NoneForgotten
  BY DEF Init, NoneForgotten
<1> QED BY <1>1, <1>2, NoneForgottenStep, RunInvariant, PTL DEF Spec
=============================================================================
