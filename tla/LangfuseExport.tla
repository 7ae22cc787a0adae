--------------------------- MODULE LangfuseExport ---------------------------
(***************************************************************************)
(* LangfuseExporter.export and langfuse_worker.py: a child process replays *)
(* the facts of one attempt to the Langfuse SDK, whose background threads  *)
(* send observations and scores in batches; the exit status says whether   *)
(* everything arrived.  An export that did not, or whose success nobody    *)
(* wrote down, is made again by a later run (module TraceExport).  The SDK *)
(* and the collector are external.                                         *)
(***************************************************************************)
EXTENDS AdapterTrial

CONSTANTS
    Facts,      \* events in the attempt's events.jsonl
    Criteria,   \* judgments of a completed trial; {} of any other
    MaxExports  \* bound: times the attempt is exported

VARIABLES
    exports,    \* exports begun
    observed,   \* facts the worker has replayed in this export
    queued,     \* items with the SDK
    refused     \* kinds of which a delivery has failed in this export

langfuse == <<exports, observed, queued, refused>>

(* _observation_identity: from the export's id and the fact's sequence     *)
(* number; 0 stands for the trial's own observation.                       *)
Identity(fact) == <<"observation", fact>>

Observations == {Identity(fact) : fact \in 0..Facts}

(* One score for each judgment, and one for the trial.                     *)
Scores == {<<"judgment", criterion>> : criterion \in Criteria} \union {<<"trial", 0>>}

LangfuseTypeOK ==
    /\ exports \in 0..MaxExports
    /\ observed \in 0..Facts
    /\ refused \subseteq {"spans", "scores"}

LangfuseInit ==
    /\ exports = 0
    /\ observed = 0
    /\ queued = {}
    /\ refused = {}

(* A run exports the attempt, unless the worker cannot be started.         *)
Start ==
    /\ at = "start"
    /\ exports < MaxExports
    /\ exports' = exports + 1
    /\ observed' = 0
    /\ refused' = {}
    /\ Waits("work") \/ Goes("over", "failed")
    /\ UNCHANGED <<resource, queued>>

Observe ==
    /\ at = "work"
    /\ observed < Facts
    /\ observed' = observed + 1
    /\ queued' = queued \union {Identity(observed')}
    /\ UNCHANGED <<control, resource, exports, refused>>

(* The scores, the end of the trial's observation, and flush.              *)
Score ==
    /\ at = "work"
    /\ observed = Facts
    /\ queued' = queued \union Scores \union {Identity(0)}
    /\ Waits("flush")
    /\ UNCHANGED <<resource, exports, observed, refused>>

(* An exception in the worker: the open observation ends, the client is    *)
(* shut down, and the status is not 0.                                     *)
WorkerBreaks ==
    /\ at = "work"
    /\ queued' = queued \union {Identity(0)}
    /\ Goes("flush", "failed")
    /\ UNCHANGED <<resource, exports, observed, refused>>

(* A background thread sends a batch of spans or of scores.  The checked   *)
(* clients note that one was not accepted, in full (a 207 names the items  *)
(* that were not); the SDK does not tell.                                  *)
Sends(kind, items) ==
    \E batch \in (SUBSET (queued \intersect items)) \ {{}} :
        /\ queued' = queued \ batch
        /\ \/ receipts' = receipts \union batch /\ UNCHANGED refused
           \/ \E stored \in SUBSET batch :
                 /\ receipts' = receipts \union stored
                 /\ refused' = refused \union {kind}
        /\ UNCHANGED <<at, outcome, cancels, cause, kept, dialogue, resource, exports, observed>>

Deliver == Sends("spans", queued \ Scores) \/ Sends("scores", Scores)

(* Mutant of Delivered: only the spans' exporter is asked.                 *)
SpansDelivered == "spans" \notin refused

Delivered == refused = {}

(* flush and shutdown return when the SDK has nothing left; the exit       *)
(* status.  Unexpected or too much output is a failure all the same.       *)
WorkerEnds ==
    /\ at = "flush"
    /\ queued = {}
    /\ \/ outcome = "none" /\ Delivered /\ Goes("over", "evidence")
       \/ Goes("over", "failed")
    /\ UNCHANGED <<resource, langfuse>>

(* The exporter's timeout or the campaign's cancellation: the worker is    *)
(* killed, a request under way may still arrive.                           *)
LangfuseInterrupted ==
    /\ at \in {"work", "flush"}
    /\ cancels < MaxCancels
    /\ cancels' = cancels + 1
    /\ at' = "over"
    /\ outcome' = "cancelled"
    /\ \E stored \in SUBSET queued : receipts' = receipts \union stored
    /\ queued' = {}
    /\ UNCHANGED <<cause, kept, dialogue, resource, exports, observed, refused>>

(* A later run finds no recorded success, also after a crash that came     *)
(* between the success and its record.                                     *)
Again ==
    /\ at = "over"
    /\ exports < MaxExports
    /\ at' = "start"
    /\ outcome' = "none"
    /\ cancels' = 0
    /\ UNCHANGED <<imports, resource, langfuse>>

LangfuseSteps ==
    \/ Start \/ Observe \/ Score \/ WorkerBreaks \/ Deliver \/ WorkerEnds

LangfuseNext == LangfuseSteps \/ LangfuseInterrupted \/ Again
=============================================================================
