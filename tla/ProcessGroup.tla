--------------------------- MODULE ProcessGroup ---------------------------
(***************************************************************************)
(* One exchange with a short-lived child: collect_process_output and       *)
(* stop_process_group (harnesses/_process.py), as OneShotCommandHarness    *)
(* calls them under its timeout.  Four tasks read stdout and stderr within *)
(* limits, write the request and wait for the leader, whose exit ends the  *)
(* group.  The first error or cancellation stops the child: a first signal,*)
(* a grace, SIGKILL.                                                       *)
(***************************************************************************)
EXTENDS ChildProcess, Sequences

VARIABLES
    pc,      \* where collect_process_output stands
    reader,  \* the tasks that read the pipes
    writer,  \* the task that writes the request has ended
    watcher, \* the task that waits for the leader has ended
    cause,   \* why the exchange failed
    signals, \* the signals sent to the group by stop_process_group
    lost     \* a cancellation was swallowed

exchange == <<pc, reader, writer, watcher, cause, signals, lost>>

Streams == {"out", "err"}
Stopping == {"stopping", "grace", "wait"}

JobTypeOK ==
    /\ pc \in {"collect", "returned", "raised"} \cup Stopping
    /\ reader \in [Streams -> {"reading", "done", "limit", "discarding"}]
    /\ writer \in BOOLEAN
    /\ watcher \in BOOLEAN
    /\ cause \in {"none", "error", "cancelled"}
    /\ signals \in {<<>>, <<"INT">>, <<"TERM">>, <<"INT", "KILL">>, <<"TERM", "KILL">>}
    /\ lost \in BOOLEAN

JobInit ==
    /\ pc = "collect"
    /\ reader = [s \in Streams |-> "reading"]
    /\ writer = FALSE
    /\ watcher = FALSE
    /\ cause = "none"
    /\ signals = <<>>
    /\ lost = FALSE

Pipe(stream) == IF stream = "out" THEN out ELSE err

-----------------------------------------------------------------------------
(* The exchange.                                                           *)

(* gather raises the first exception; the cleanup task takes over.         *)
Fail(why) ==
    /\ pc' = "stopping"
    /\ cause' = why
    /\ UNCHANGED <<writer, watcher, signals, lost>>

ReaderEnds(stream) ==
    /\ pc = "collect"
    /\ reader[stream] = "reading"
    /\ Pipe(stream) = "eof"
    /\ reader' = [reader EXCEPT ![stream] = "done"]
    /\ UNCHANGED <<child, pc, writer, watcher, cause, signals, lost>>

(* There is more than the limit, and nobody reads it for the moment.       *)
ReaderOverflows(stream) ==
    /\ pc = "collect"
    /\ reader[stream] = "reading"
    /\ Pipe(stream) = "open"
    /\ reader' = [reader EXCEPT ![stream] = "limit"]
    /\ Fail("error")
    /\ UNCHANGED <<leader, members, stray>>
    /\ IF stream = "out" THEN out' \in {"open", "full"} /\ UNCHANGED err
                         ELSE err' \in {"open", "full"} /\ UNCHANGED out

(* The request is read, or nobody is left to read it.                      *)
WriterEnds ==
    /\ pc = "collect"
    /\ ~writer
    /\ writer' = TRUE
    /\ UNCHANGED <<child, pc, reader, watcher, cause, signals, lost>>

(* _finish_process_group: the leader has exited, its group must not        *)
(* outlive it.                                                             *)
WatcherEnds ==
    /\ pc = "collect"
    /\ ~watcher
    /\ leader = "reaped"
    /\ watcher' = TRUE
    /\ KillGroup
    /\ UNCHANGED <<pc, reader, writer, cause, signals, lost>>

Returns ==
    /\ pc = "collect"
    /\ writer /\ watcher /\ \A s \in Streams : reader[s] = "done"
    /\ pc' = "returned"
    /\ UNCHANGED <<child, reader, writer, watcher, cause, signals, lost>>

(* The caller's timeout, or a cancellation of the trial.                   *)
CollectCut ==
    /\ pc = "collect"
    /\ Fail("cancelled")
    /\ UNCHANGED <<child, reader>>

-----------------------------------------------------------------------------
(* The stop.  It is shielded: cancellations do not reach it.               *)

StopCut ==
    /\ pc \in Stopping
    /\ ~lost
    /\ lost' = TRUE
    /\ UNCHANGED <<child, pc, reader, writer, watcher, cause, signals>>

(* Mutant: what the limited readers leave in the pipes is not read.        *)
DiscardNothing == UNCHANGED reader

Discard == reader' = [s \in Streams |-> "discarding"]

FirstSignal == IF cause = "cancelled" THEN "INT" ELSE "TERM"

(* The group gets the first signal, unless there is no such group: then    *)
(* the leader has exited, and its status is waited for.                    *)
Signal ==
    /\ pc = "stopping"
    /\ Discard
    /\ \/ /\ leader = "reaped" => members
          /\ signals' = <<FirstSignal>>
          /\ pc' = "grace"
       \/ /\ GroupIsDead
          /\ pc' = IF leader = "reaped" THEN "raised" ELSE "wait"
          /\ UNCHANGED signals
    /\ UNCHANGED <<child, writer, watcher, cause, lost>>

(* The leader has exited, or its grace is over.                            *)
GraceEnds ==
    /\ pc = "grace"
    /\ KillGroup
    /\ signals' = Append(signals, "KILL")
    /\ pc' = IF leader = "reaped" THEN "raised" ELSE "wait"
    /\ UNCHANGED <<reader, writer, watcher, cause, lost>>

WaitEnds ==
    /\ pc = "wait"
    /\ Waited
    /\ pc' = "raised"
    /\ UNCHANGED <<child, reader, writer, watcher, cause, signals, lost>>

(* A discarding reader takes what fills its pipe.                          *)
Discarded ==
    /\ UNCHANGED <<leader, members, stray, exchange>>
    /\ \/ /\ reader["out"] = "discarding" /\ out = "full"
          /\ out' = "open" /\ UNCHANGED err
       \/ /\ reader["err"] = "discarding" /\ err = "full"
          /\ err' = "open" /\ UNCHANGED out

-----------------------------------------------------------------------------
JobLoop ==
    \/ Noticed /\ UNCHANGED exchange
    \/ \E s \in Streams : ReaderEnds(s)
    \/ WatcherEnds \/ Returns \/ Signal \/ WaitEnds \/ Discarded

JobTimers == CollectCut \/ GraceEnds

JobNext ==
    \/ JobLoop \/ JobTimers \/ StopCut \/ WriterEnds
    \/ \E s \in Streams : ReaderOverflows(s)
    \/ Exits /\ UNCHANGED exchange

JobFairness == WF_<<child, exchange>>(JobLoop) /\ WF_<<child, exchange>>(JobTimers)
=============================================================================
