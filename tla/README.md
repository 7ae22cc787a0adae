# Verification of pydantic-multiturn-evals

TLA+ models of the parts of `pydantic-multiturn-evals` in which several
activities, failures and restarts meet, TLC runs that check them on small
instances, and TLAPS proofs that hold for every size. Paths are relative to the
repository; `campaign.py` and the like are in `src/pydantic_multiturn_evals/`.

## The system

A *campaign* is a set of cases, samples and variants. Every combination is a
*trial*. `campaign.run` executes the trials that have no receipt yet in one
asyncio event loop and keeps everything in one directory, so that the same call
can be repeated after an interruption.

| Component | State | Operations | Interacts with | What is hard |
|---|---|---|---|---|
| **Campaign directory** (`run`, `_prior_result`, `_run_trial`'s files) | lock, `campaign.json`, `attempt-NNNN/{started,result}.json`, `report.json` | take the lock, pin or compare the manifest, scan, run, report | several processes through the file system | crashes between any two writes, repeated runs, retries |
| **Scheduler** (`_CapacityPool`, `_run_pending`) | free slots, pending list, active tasks, results | admit, park, collect, release, cancel and drain | trial tasks of the same loop | a task raises, or the scheduler is cancelled, while others run |
| **Conversation trial** (`ConversationHarness`, `_close_session`, `_run_trial`, `evaluate`) | messages, the exception in flight, the cleanup task, the receipt | open, turns, finish, close, evaluate, settle | actor, target, evaluators, deadline, campaign | cancellation and deadline at every await, also during cleanup |
| **Trace export** (`_export_traces`, `_export_trace`, `LangfuseExporter`) | bounded queue, workers, `trace-exports.json`, `trace-export-errors.json` | feed, take, export, record, report errors | exporters, the Langfuse child process, earlier runs | timeouts racing late answers, crash between delivery and record, cancellation |
| **Process groups** (`harnesses/_process.py`) | four tasks per child, signals | write, read within limits, reap, stop | child processes | swallowed cancellations, pipes that stay open |
| **Command target** (`harnesses/command.py`) | child, turn number, failed flag, stderr task | open, send, finish, close, abort | conversation harness, child | late answers, timeouts, a child that dies |
| **Job and function harnesses** | none | run | process groups | output limits |
| **Templar** | a workflow run on a server, `templar-state.json`, events file | stage, submit, follow events, take the result, cancel | network | a run nobody cancels, events and view that are two requests |
| **AgentEnv** | a sandbox on a server, its request and response files | open, turn, finish, close | network, conversation harness | cancellation around the creation, responses of earlier turns |
| **SWE-bench** | a container at the Docker daemon | solve, verify, look for the container, remove it | child processes, Docker | a container that outlives its evaluator, cancellation during its removal |
| **Harbor** | a job directory with a chain of trajectory files | run the job, check its result, read the chain, import | child process | files that replay each other, a damaged transcript beside a native failure |
| **Tau3** | a worker's result file | run the worker, check its files, import messages | child process | which check fails first and what evidence is left |
| **Providers** (`PydanticActor`, `PydanticTarget`, `PydanticJudge`) | the target's history | decide, reply, judge | model providers | one receipt for each call however it ends |
| **Langfuse** (`LangfuseExporter` in `tracing.py`, `langfuse_worker.py`) | the SDK's queues, the collector | replay an attempt, flush, report by exit status | child process, network | deliveries that the SDK hides, repeated exports |
| **Shards** (`merge_reports`, `_trials`) | none of its own: the roots of a campaign | check closed shards, merge | campaign directories | roots that run, stop and retry while they are merged |
| **Reports** (`compare`, `_exit_code`) | none | pure | shards | pairs that are split between shards |
| **Model, CLI, scripts** | none | one call each | | |

What makes each correct:

* *directory*: one writer at a time; an attempt is opened and closed once;
  completed and failed trials are never replayed; retries are explicit; the
  report is true; definitions never mix; repeated runs end in a report;
* *scheduler*: slots are conserved, limits hold, whatever fits is admitted, a
  return is complete, an exception leaves no task behind, every call ends;
* *trial*: the session is closed before the trial ends, the receipt says what
  happened (cancelled, timed out, failed with its evidence, completed and
  judged), and there is always one;
* *command boundaries*: no process of a child's group survives, a reply answers
  its own request, every call ends;
* *export*: one identity per attempt, no success recorded that was not
  delivered, no trial passed over silently, the phase ends;
* *adapters*: what a trial creates outside is released or reported, a cancelled
  trial does not end as if it had not been, an answer is about what was asked,
  nothing is imported twice or dropped, every model call has one receipt, and
  every trial ends;
* *Langfuse*: a success means that every fact and every score is at the
  collector, each once;
* *shards*: an accepted merge is exactly the campaign, and a comparison in it is
  the comparison in its parts.

`PROJECT.json` lists under `hazards` where each of these could go wrong, at its
line, with the properties that would notice.

## Modules

| Module | Models | Proofs |
|---|---|---|
| `TrialTasks` | what a call of `_run_pending` does with the trials it is handed (abstract) | |
| `Scheduler` | `_CapacityPool`, `_run_pending`; refines `TrialTasks` | `SchedulerProofs` |
| `TrialLedger` | what the directory promises (abstract) | |
| `CampaignRun` | `run`, `_prior_result`, `_ensure_manifest`, `_exclusive_lock`, the files of `_run_trial`; refines `TrialLedger` and `TrialTasks` | `CampaignRunProofs` |
| `ConversationTrial` | one trial between its first await and its receipt | `ConversationTrialProofs` |
| `ChildProcess` | a child's process group and pipes (external), `terminate_process_group` | |
| `CommandSession` | `CommandTarget` and its session; extends `ChildProcess` | |
| `ProcessGroup` | `collect_process_output`, `stop_process_group`; extends `ChildProcess` | |
| `CommandBoundaries` | a child behind either boundary, with the promises of both | `CommandBoundariesProofs` |
| `TraceExport` | `_export_traces`, `_export_trace`, and what they meet in `_process.py` | `TraceExportProofs` |
| `AdapterTrial` | what the adapters share: one trial, its external resource, its state file | |
| `TemplarRun`, `AgentEnvSession`, `SweBenchRun`, `HarborRun`, `Tau3Run`, `ModelCalls`, `LangfuseExport` | one adapter each; extend `AdapterTrial` | |
| `Adapters` | one trial of any adapter, with the promises of all | `AdaptersProofs` (resources, cancellation), `AdaptersRecordProofs` (what is recorded) |
| `Shards` | `merge_reports`, `_read_closed_shard`, the shares of `_trials`, `Report.compare`, `_exit_code` | `ShardsProofs` |

`MC*` modules only add the constants and symmetries of a run.

The modules meet at named points. `CampaignRun` lets any queued trial start
next and any trial end with any receipt: `Scheduler` is the code that decides
the order and what an exception does, `ConversationTrial` the code that decides
the receipt. What the first two owe each other is `TrialTasks`: a call is handed
trials, starts each at most once, starts none once it has begun to drain, returns
only when each has its result and leaves no task behind. `Scheduler` implements
it with its pool and its waits, `CampaignRun` with the tasks of the process that
holds the lock, and both are checked and proved (`ImplementsTasks`). The
comparison corrected `CampaignRun!BeginDrain`: a cancellation can reach `run` when
all the tasks it waits for have ended already. `TraceExport` is the phase that
`CampaignRun` passes in one step (`EndExport`) because it changes no receipt.
`Scheduler`'s fairness, that every
trial ends, is `ConversationTrial`'s property `Settles`; the mutual exclusion
that `TraceExport` assumes, one run at a time, is `CampaignRun`'s
`SingleFlight`. `CommandBoundaries` instantiates `CommandSession` and
`ProcessGroup` over one child and chooses in `Init` which of them runs it. A
session is one of the targets that `ConversationTrial` drives. In the same way
`Adapters` instantiates the seven adapter modules over one trial and chooses in
`Init` which of them it is of; the variables of the others stand still. A trial
of an adapter is what `ConversationTrial` or a function harness awaits, and a
`Langfuse` export is what a worker of `TraceExport` awaits. A root of `Shards` is
a directory of `CampaignRun` without its attempts. `ConversationTrial`
assumes that a target lets a `CancelledError` through; `CommandSession` shows
where this target does not (finding 5).

### How actions correspond to the code

asyncio is single threaded: code between two awaits is not interleaved with
other tasks of its process. An action is therefore the code from one await to
the next, except where a crash or a failed write can cut it: `CampaignRun` has
`MakeAttempt` and `WriteStarted` as two steps of one such stretch, and keeps the
other tasks of the process still meanwhile (`Settled`). `_write_json` writes a
temporary file and renames it, so a file is absent or whole.

*Scheduler.* `pc` is the position of `_run_pending`: `admit` (the inner loop),
`wait` (`asyncio.wait`), `drain` (the `finally` clause), `returned`, `raised`.
`Admit` takes the oldest trial that fits, `Wake` collects all finished tasks and
re-raises what one of them raised, `CancelScheduler` delivers a cancellation at
the wait, and `Start` and `Finish` are the tasks. The loop's ready queue is
FIFO: a cancellation reaches the scheduler only after the tasks created before
its wait have taken their first step, so no task is cancelled before its
`try` (`Unstarted`).

*CampaignRun.* Every process has a `pc` in `run` and its in-memory plan; a
process that returns, raises or dies forgets both and frees the lock (`Leave`).
A refused call (lock held, invalid arguments) writes nothing and is no step.
`ScanUntried`, `ScanReceipt`, `ScanOrphan` and `ScanIncomplete` are the four
outcomes of `_prior_result`. `TaskFails` is a write that fails: the directory
keeps the state it has. `EndTrial` may also raise with its receipt written: the
trace is closed after that. An interrupted receipt in a run that was not
cancelled comes from a harness that raises `CancelledError` itself.

*ConversationTrial.* `pc` is the await at which the task is suspended,
`pending` a `CancelledError` due there. `asyncio.timeout` turns a
`CancelledError` into `TimeoutError` only if the task was not cancelled by
anyone else (`TimedOut`). `primary` and `carried` are the exception in flight
inside the harness and its evidence, `captured` the cancellation that
`_close_session` keeps until the cleanup is over. Everything after the last
await is one step up to the receipt (`Settle`).

*TraceExport.* A worker's record holds its await and `_export_trace`'s locals.
`Deliver` is the moment at which the other end has the copy; the exporter may still
fail or time out after it. The producer waits in `put` only while the queue is full:
the `get` that makes room wakes it, so it has put its item before any answer, timer
or child for which a worker waits (`Woken`). `cancelled` is a cancellation due at
the worker's next await. `stopping` is the time `collect_process_output` waits for a
child that wrote too much, and in which a cancellation is swallowed.

*CommandSession.* `at` is the await at which the running method is suspended:
`exchange` and `exit` under the response timeout, `abort` after it, `shutdown`,
`reap` and `stderr` in `close`. A line in `lines` is the number of the request it
answers; `ReadLine` is all of `_exchange` and `send` after `readline`. asyncio
stops reading a pipe when more than twice the stream's limit waits unread; then
it never sees the pipe's end (`out = "full"`). `Waited` is `Process.wait()`,
which, when it began before the exit was known, returns only after the end of
both pipes. `leader = "exited"` is the time before the loop knows of the exit.

*ProcessGroup.* `reader`, `writer` and `watcher` are the four tasks of
`collect_process_output`. `Fail` is its `except` clause; from then on the shielded
cleanup runs, cancellations are swallowed (`StopCut`), and `Discarded` empties
the pipes.

*Adapters.* `at` is the await of the adapter's coroutine, `outcome` what the
exception in flight (or the result) makes of the trial, `cancels` the
`CancelledError`s delivered so far. `asked`, `remote` and `known` keep apart what
a client and a server may disagree about: a request on its way, the resource, and
the client's knowledge of it. `Created` may happen long after the client has
given up; `file` is the state file by which an operator finds the resource. In
`TemplarRun` every HTTP request is an action that ends at its answer, and
`RunWorks` is the server between two of them. In `SweBenchRun` the cleanup is
`List` and `Remove`, both under one timeout (`CleanupFails`); what they came to is
in a file of its own (`removal`), apart from the state file. In `AgentEnvSession`
`opened` tells a sandbox with a session, which `_close_session` closes, from one
whose `open` failed after it had the id. `HarborRun` chooses
the content of a file when it is read: a segment is an interval of the agent's
conversation with a number of replayed steps before it, so that the imported
dialogue can be compared with the conversation; it is imported step by step
(`imported` and `position` are the indices of the loops of
`_import_recorded_trajectory` and `import_trajectory`). `Tau3Run` runs the adapter's
checks in its order and imports message by message. `ModelCalls` is
`_recorded_run` around every call, with the operation names the receipts get.
`LangfuseExport` is the child worker: `queued` is what the SDK holds, `refused`
what the checked clients noted, `receipts` what the collector has, and `Again` a
later run that found no recorded success.

*Shards.* `manifest` and `report` are the roots' files, `lock` the roots a run
holds. `Begin`, `Finish` and `Stop` are a run as seen from outside; `ReadShard`
is one iteration of the merge's loop, under that root's lock, and `Accepts` is
what `merge_reports` demands of all that it read.

## Runs

| Run | Bounds | States | Shows |
|---|---|---|---|
| `scheduler` | 6 trials, 3 workers, 2 resources with different claims, fairness | 7,773 | limits, work conservation, complete returns, no orphans, the refinement of `TrialTasks`, termination |
| `campaign` | 2 processes, 2 trials, 2 definitions, 3 attempts, 1 crash, fairness | 84,664 | safety, the refinements of `TrialLedger` and `TrialTasks`, repeated runs end in a report and close orphans |
| `campaign_damage` | as `campaign`, 2 attempts | | **violation**, finding 1 |
| `trial` | 2 turns, 2 evaluators, 2 cancellations, fairness | 748 | all trial properties, settling included |
| `trial_evidence` | the same | | **violation**, findings 2 and 3 |
| `export` | 3 trials (two torn), 2 workers, 2 exporters, 2 runs, fairness | 100,038 | safety of the export phase, and that it ends |
| `export_cancel` | 3 trials, 1 worker, fairness | | **violation**, finding 4 |
| `boundaries` | 4 requests, 2 unread lines, strays or none, fairness | 61,083 | groups are killed, replies match, calls end |
| `boundaries_flood` | 2 requests, 1 unread line | | **violation**, finding 5 |
| `adapters` | 2 cancellations, 3 events, 2 turns, 4 steps in 3 files, 3 messages, 2 facts, 2 exports, fairness | 120,971 | resources, cancellation, freshness, imports, receipts, deliveries, termination |
| `harbor_failure` | the same | | **violation**, finding 6 |
| `shards` | 2 cases, 2 variants, 2 roots, 2 definitions, 3 shares, 3 verdicts | 647,464 | reports keep to the pinned share, accepted merges are whole, comparisons agree |

Why the bounds are enough. *Scheduler*: with three workers and six trials whose
claims on two resources differ, a trial overtakes an older one, two tasks finish
in one round, one of several tasks raises, and the queue outlives a full pool.
*Campaign*: two trials let one be finished while the other is open; three
attempts let a retry follow a retry; one crash leaves an orphan that another
process repairs; two processes and definitions are the smallest numbers that
can clash. *Trial*: two turns are a loop that goes round and one that ends; two
evaluators one that returns and one that does not; with two cancellations one is
captured during cleanup and another arrives after it. *Boundaries*: the start
request, two turns and a finish are all kinds of requests and let a reply of one
turn be read by the next; two unread lines put a stale line before a fresh one;
one other member of the group stands for all of them, since a signal reaches the
whole group. *Export*: five queue items exceed the queue of four, a worker takes
more than one trial, and a second run with other exporters finds the first one's
state. *Adapters*: of two cancellations one leads to the cleanup and one arrives
in it; three events let a view be behind the events and ahead of them; in two
turns the response of the first can be there in the second; three files are a
chain with a middle, and the three kinds of steps (told, generated, neither) all
occur; three messages let both participants generate; two exports let the second
find what the first delivered in part. *Shards*: two halves and a foreign third
make a gap, a duplicate and an incompatible share; `NoShard` is left to the
proof for the size of the run, and a merge refuses it at once. `MaxAttempts`,
`MaxCrashes`, `MaxCancels`, `MaxRuns`, `MaxEvents`, `MaxMessages` and
`MaxExports` bound counters that the code leaves open; the proofs hold for every
value of them.

### Fairness

`Scheduler`: the loop runs what is ready (`WF` of the scheduler and of each
task), and each trial ends, which `Settles` justifies.
`CampaignRun`: a live process goes on, a raised task is noticed, and somebody
calls `run` again, without the retry flag, with each definition. The last is
strong fairness because another process may hold the lock in between; it is an
assumption about the operator, not about the code.
`ConversationTrial`: the loop runs what is ready and timers fire. Nothing is
assumed of actors, targets, their `close` and evaluators: each may hang. It is
assumed that each lets a `CancelledError` through, which the event loop cannot
enforce.
`CommandSession`, `ProcessGroup`: the loop and the timers. Nothing is assumed of
the child: it may ignore signals other than SIGKILL, hang and flood its pipes.
`CallsEnd` exempts what the code does not bound: a process that left the group
and holds a pipe, and a full stdout of a session.
`TraceExport`: the loop, the export timeout, and the grace after which a child
being stopped is killed. Exporters may hang.
`Adapters`: the loop runs what is ready, and every wait has an answer or a
timeout, its own or the trial's budget. Templar's polling has no limit but that
budget, so the cancellation it brings (`TemplarInterrupted`) is fair as long as a
trial goes on; no other cancellation is assumed, and none of the servers is
assumed to make progress. `Shards` states no liveness: a merge waits for nobody.

## Proofs

Each proof module states one inductive invariant `IInv`, proves that `Init`
implies it and that every action preserves it, and derives the properties. All
theorems are about `Spec`, without fairness, for every value of the constants
that the modules' `ASSUME`s admit.

* `SchedulerProofs` assumes natural sizes, finitely many resources, and a pool
  that `_CapacityPool.__init__` accepts. `Conservation` alone is not inductive:
  `IInv` adds that exactly the created and running tasks hold slots and are
  tracked, and what `admit`, `wait` and `drain` know. The step lemmas
  `AdmitConserves` and `FinishConserves` count slots as sets of pairs (`Held`),
  so that a release is the removal of a disjoint set. That a trial that was
  admissible once is admissible again when the pool is idle gives `NeverStuck`.
  `WorkConserving` is inductive relative to `IInv` (`ParkedStep`): while the
  scheduler is parked, slots only come back with a task that has finished.
* `CampaignRunProofs`: `IInv` says which process may write, that attempts have
  no gaps and only interrupted attempts have successors, and what a plan knows
  of the files at each position. `DirectoryImplementsLedger` is the refinement:
  under the mapping `Recorded` (a directory without `started.json` is no attempt
  yet) each step is a ledger step or a stutter.
* `ConversationTrialProofs`: `IInv` ties the position to the exception in
  flight, the captured cancellation, the timer and the evidence; the six
  properties follow from what it says of the ended trial.
* `TraceExportProofs`: `IInv` says of every trial where it is (not taken, in
  one worker's hands, or settled), what that worker's locals know of the record
  and of what was delivered, and how many sentinels are left.
* `CommandBoundariesProofs`: `IInv` says that a boundary that only waits for the
  end of its child has killed the group, and that a dead group stays dead; the
  two boundaries are proved apart (`SessionStep`, `JobStep`) and joined in
  `NextIInv`. `RepliesMatch` is inductive by itself.
* `AdaptersProofs`: `IInv` has one conjunct per adapter, and one lemma per
  adapter preserves it; `StepIInv` joins them, because a trial is of one adapter
  throughout. The core of the three resource adapters is that once the resource
  is known, or was there, no request that could create another is on its way,
  and that no state file says "released" before the end. `LangfuseHolds` says
  that, while no delivery has failed, all that was replayed is with the SDK or
  with the collector.
* `AdaptersRecordProofs` is about what an adapter writes down, and independent of
  the former. `RecordsHold` says of Harbor that the files of a chain are distinct
  and join without a gap, that the dialogue is that of the steps reached so far, and
  that there are as many receipts as generated steps among them, each of a step
  reached; of Tau3 that the receipts are those of the imported messages; of the
  providers that every call but the one under way has its receipt, and what tells
  the next call's name from theirs. `DialogueIsExact` and
  `ReceiptsAreExact` follow for conversations and chains of any length.
* *One contract, two implementations.* `SchedulerImplementsTasks` maps the scheduler's
  view of a trial to its state in `TrialTasks` (a task that has not taken its first
  step is still queued there). Besides `IInv` it needs `Waiting`: whoever waits has
  a task to wait for, and an exception finds no task before its first step, so that
  none starts while the call drains. `RunsImplementTasks` maps the process that
  holds the lock, whichever it is: outside `_run_pending`, and when nobody holds the
  lock, the abstract call is idle, so a crash is `Die` and a run that only reuses
  receipts is a call with nothing to do. It needs that until the scan is over a
  trial is unknown, reused or queued (`ScanInv`).
* *What the liveness properties rest on, short of fairness.* A call that never
  ends either takes steps for ever or waits for something that cannot happen; both
  are safety questions. `StepsRunOut` of `SchedulerProofs` and of
  `ConversationTrialProofs` is a natural number that every step lowers.
  `NeverWaitsForNothing` (scheduler), `NeverLeftToOthers` (trial),
  `RunsGoOn` (directory), `NobodyWaitsInVain` (export) and `CallsGoOn` (commands)
  say that, until the end, the program has a step of its own, a timer is armed, or
  the news it waits for is on its way. For a run the step may be the one that
  refuses the directory (finding 1). `NobodyWaitsInVain` is about a group that is
  not aborted (finding 4), and `CallsGoOn` has two exceptions: a descendant outside
  the group that holds a pipe, and a session whose abort or close waits behind a
  full stdout (finding 5). The export's rests on counting: while the
  group is not aborted, each of the workers that are over took exactly one of the
  sentinels (`OneNoneEach`). That the steps are then taken is the fairness above,
  and TLC's.
* `ShardsProofs`: `IInv` is `TypeOK`, `ReportsArePinned`, that a locked root has a
  manifest, and that what a merge loaded is the report of some share. That `count`
  roots with different indices below `count` have all indices is a counting argument
  over finite sets; that a pair belongs to one share is arithmetic; both variants of
  a pair have the same `PairIndex`, which gives `ComparisonsAgree`.

Some theorems state more than the runs do: `Conservation`, `OneDefinition`,
`RetryIsExplicit`, `ReportIsCurrent`, `NeverRepeated`, `RecordGrows`, the types of
`Scheduler`, `CampaignRun` and `CommandBoundaries`, and the theorems of the last
item are proved and no part of a run, which keeps the runs to the questions whose
answers differ.

TLC checked each `IInv` as an invariant before it was proved, or the properties
it implies. Every invariant and action property of a passing run is proved. Only
model-checked are the liveness properties (`Terminates`, `EventuallyReported`,
`OrphansAreClosed`, `Settles`, `PhaseEnds`, `CallsEnd`, `TrialEnds`), because TLAPS
does not reason about `ENABLED` and fairness here.

## Findings

1. **A crash between `mkdir` and `started.json` ends the campaign for good**
   (`campaign_damage`, `Resumable`). `campaign.py:309-310` creates the attempt
   directory first; `_prior_result` (`campaign.py:624-625`) refuses a directory
   with neither file in every later run. README.md:118: "Run the same campaign
   and directory again to resume." `EventuallyReported` and `OrphansAreClosed`
   hold when this never happens.
2. **A deadline during session cleanup discards finished evidence**
   (`trial_evidence`, `EvidenceIsRetained`). The cancellation captured by
   `_close_session` (`conversation.py:202`) replaces the returned evidence or
   the `HarnessError` that carries it. docs/design.md:65: "`Failed` retains a
   phase, actionable error, and any evidence already produced."
3. **An exception of the harness's own discards the conversation** (the same
   run and property; TLC's shortest counterexample). A message the events file
   does not take, or a completion that `Evidence` rejects, leaves
   `ConversationHarness.run` as an ordinary exception and becomes `execute`
   without evidence (`campaign.py:401`). Same line of docs/design.md.
4. **A swallowed cancellation hangs the export phase** (`export_cancel`,
   `CancelEnds`). `_process.py:77-78` drops a `CancelledError` that arrives while
   a child over its output limit is being stopped; the worker goes on with the
   queue and then waits for a `None` that the cancelled producer never put. With
   one worker it takes three trials: the `None` can be missing only if trials were
   waiting before it.
   docs/design.md:158-160: "separate, bounded export phase [...] so timeout or
   cancellation can terminate it."
5. **A target that floods its stdout makes a timed-out request hang**
   (`boundaries_flood`, `RequestsEnd`). `_abort` (`command.py:217`) awaits
   `Process.wait()` outside the response timeout, and that waits for the end of a
   stdout nobody reads. If the abort came from the trial's deadline, nothing
   bounds it. `_process.py:101-102` avoids this for jobs: "Drain without
   retaining output so full pipes cannot block [...] Process.wait() after a
   kill." docs/design.md:92: "Replies are bounded and validated."
6. **A transcript that the facts refuse hides Harbor's own failure**
   (`harbor_failure`, `NativeErrorIsPrimary`). `_import_optional_trajectory` guards
   the reading of the chain only; the import itself (`harbor.py:399`) runs outside
   of that `try`, and a `ValidationError` from it becomes `execute` without
   evidence in place of the recorded exception. docs/adapters.md:106: "Native
   errors remain primary when an auxiliary trajectory is damaged; valid partial
   evidence is retained."

Observations that contradict no document, and are therefore exceptions in the
properties rather than findings:

* A Templar run or an AgentENV sandbox whose creating request is answered after
  the client has given up, or never, is not looked for (`~known` in
  `NothingIsAbandoned`); the same holds for a container that comes into being
  after `docker ps` (`~listed`).
* An AgentENV sandbox whose id is known but cannot be written, or whose creation
  the trace does not take (`agentenv.py:162-172`), is destroyed by nobody before
  its time to live is over: `open` returns no session to close. The state file, if
  there is one, says "created" (`~opened` in `NothingIsAbandoned`). README.md:37,
  "downloads bounded artifacts, then destroys it", describes a session.
* SWE-bench's state file says "finished" when there is evidence, also if the
  removal of the container has failed, which is in `swebench-cleanup.json` only.
* Templar's `_cancel` and SWE-bench's cleanup swallow cancellations that arrive
  meanwhile: Templar then raises the failure it cleans up after, SWE-bench may
  return evidence after a swallowed deadline (`CancellationIsKept`).
* Harbor's timeout, its output limit and several results raise a `HarnessError`
  without evidence; a refusal in Tau3's import (`tau3.py:316`) loses the files
  that every other failure of that adapter keeps.

## Not modelled

Contents of messages, judgments, events and reports (data without control); which
names are duplicate, missing or extra and which artifact is refused, which are
outcomes of `Judge` and `HarnessReturns` (*Evaluation* is therefore "partly");
the validators of the *domain model*, which are choices of the modules that build
its values; the fields of an exported observation; token usage; the numbers
printed beside a comparison; wall-clock durations; the file system beyond the
files named above. *Job and function harnesses* have no state beyond the process
boundary they await. The *command line* parses arguments and calls one function
of the modelled ones. *Scripts, fixtures and examples* are straight-line callers.
`LangfuseExport` assumes that tracing is switched on in the worker (it inherits
`LANGFUSE_TRACING_ENABLED`, `LANGFUSE_SAMPLE_RATE` and `OTEL_SDK_DISABLED`) and that
the SDK's queues do not overflow. `TraceExport` assumes that an exporter that is not
cancelled raises ordinary exceptions, as the repository's does. `Shards` takes from a run what its report says:
a merge reads the last finished run's results. A process that loses its lock
without dying, and file systems without `flock`, are outside the code's own
assumptions.

## Plan

What was planned is built: the campaign directory, the scheduler, the trial, the
export phase, the command boundaries, the adapters, the shards, and a proof
module for every one of them. Left for whoever changes this code next:

1. More contracts like `TrialTasks`: an abstract session that `CommandSession` and
   `AgentEnvSession` implement and on which `ConversationTrial` relies, and a
   ledger of exports that `TraceExport` implements. Numbers that every step lowers,
   as in the two `StepsRunOut`, for one run of `TraceExport` and for the adapters.
2. `Evaluation` with the names of criteria as sets, so that duplicates and
   omissions are computed rather than chosen.
