-------------------------- MODULE CommandSession --------------------------
(***************************************************************************)
(* CommandTarget and its session (harnesses/command.py): one JSONL child   *)
(* that answers the requests of a whole conversation.  A request that ends *)
(* with an exception kills the group and makes the session unusable; close *)
(* gives the child a bounded time to leave and kills what is left.         *)
(*                                                                         *)
(* The child may answer late, twice, with noise, or flood its stdout.      *)
(* stderr is read by a task of its own all the time; stdout only while a   *)
(* request waits for a line, and beyond twice the line limit not at all.   *)
(***************************************************************************)
EXTENDS ChildProcess, Integers, Sequences

CONSTANTS
    MaxRequests, \* bound: requests of one session, the start request first
    MaxLines     \* bound: lines in stdout that were not read yet

VARIABLES
    at,       \* the await of the method that runs, or "ready"
    method,   \* the kind of the latest request
    asked,    \* its number
    answered, \* requests the child has answered
    lines,    \* stdout: the number of the request a line answers, 0 for noise
    result,   \* the line the latest method returned, 0 if none
    failed,   \* _failed
    opened,   \* open returned the session
    cut       \* the harness's cleanup timeout has fired

request == <<method, asked, answered, result, failed, opened>>
session == <<at, lines, cut, request>>

Requesting == {"exchange", "exit", "abort"}
Closing == {"shutdown", "reap", "stderr"}

SessionTypeOK ==
    /\ at \in {"ready", "over"} \cup Requesting \cup Closing
    /\ method \in {"start", "turn", "finish"}
    /\ asked \in 1..MaxRequests
    /\ answered \in 0..asked
    /\ lines \in Seq(0..MaxRequests) /\ Len(lines) <= MaxLines
    /\ result \in 0..MaxRequests
    /\ failed \in BOOLEAN
    /\ opened \in BOOLEAN
    /\ cut \in BOOLEAN

(* open has started the child and written the start request.               *)
SessionInit ==
    /\ at = "exchange"
    /\ method = "start"
    /\ asked = 1
    /\ answered = 0
    /\ lines = <<>>
    /\ result = 0
    /\ failed = FALSE
    /\ opened = FALSE
    /\ cut = FALSE

-----------------------------------------------------------------------------
(* The end of a request.                                                   *)

(* Mutant: only a child that still runs is killed.                         *)
TerminateRunning ==
    /\ IF leader = "reaped" THEN UNCHANGED child ELSE KillGroup
    /\ at' = IF leader = "reaped" THEN "stderr" ELSE "reap"

(* The finally clause of close.                                            *)
Terminate ==
    /\ KillGroup
    /\ at' = IF leader = "reaped" THEN "stderr" ELSE "reap"

(* A failed open closes its session; a failed send or finish is over.      *)
Raise ==
    IF method = "start" THEN Terminate
                        ELSE at' = "ready" /\ UNCHANGED child

(* _abort, for every exception of a request.                               *)
Abort ==
    /\ failed' = TRUE
    /\ IF leader = "reaped"
       THEN /\ KillGroup
            /\ at' = IF method = "start" THEN "stderr" ELSE "ready"
       ELSE /\ KillGroup
            /\ at' = "abort"
    /\ UNCHANGED <<method, asked, answered, result, opened, cut>>

AbortEnds ==
    /\ at = "abort"
    /\ Waited
    /\ Raise
    /\ UNCHANGED <<lines, cut, request>>

-----------------------------------------------------------------------------
(* Requests.                                                               *)

(* send or finish is called; the child has exited or the request is sent.  *)
Ask(kind) ==
    /\ at = "ready"
    /\ ~failed
    /\ method # "finish" /\ asked < MaxRequests
    /\ method' = kind
    /\ asked' = asked + 1
    /\ result' = 0
    /\ at' = IF leader = "reaped" THEN "exit" ELSE "exchange"
    /\ UNCHANGED <<child, answered, lines, failed, opened, cut>>

(* `request` accepts a line of the protocol and of the expected type.      *)
TypeMatches(line) ==
    IF method = "turn" THEN line \in 2..asked ELSE line = asked

(* Mutant: the id of a reply is not compared.                              *)
AnyId(line) == TRUE

IdMatches(line) == line = asked

(* The line is the method's result.                                        *)
Succeed(line) ==
    /\ result' = line
    /\ opened' = TRUE
    /\ UNCHANGED <<method, asked, answered, failed, cut>>

(* send or finish rejects the content of a line that `request` accepted:   *)
(* the session stays usable.                                               *)
Reject ==
    /\ method # "start"
    /\ UNCHANGED <<cut, request>>

(* What is read makes room, so that the stream may be read again.          *)
ReadLine ==
    /\ at = "exchange"
    /\ lines # <<>>
    /\ lines' = Tail(lines)
    /\ LET line == Head(lines)
       IN  \/ ~TypeMatches(line) /\ Abort
           \/ /\ TypeMatches(line)
              /\ at' = "ready"
              /\ out' \in IF out = "full" THEN {"full", "open"} ELSE {out}
              /\ UNCHANGED <<leader, members, stray, err>>
              /\ \/ IdMatches(line) /\ Succeed(line)
                 \/ Reject

ReadEnd ==
    /\ at = "exchange"
    /\ lines = <<>> /\ out = "eof"
    /\ at' = "exit"
    /\ UNCHANGED <<child, lines, cut, request>>

(* A line is too long, or the request cannot be written.                   *)
ExchangeFails == at = "exchange" /\ Abort /\ UNCHANGED lines

(* _exit_message has waited for the child and its stderr, or long enough.  *)
ExitMessage == at = "exit" /\ Abort /\ UNCHANGED lines

(* The response timeout, or a cancellation of the trial.                   *)
RequestCut == at \in {"exchange", "exit"} /\ Abort /\ UNCHANGED lines

(* A cancellation ends the wait in _abort.                                 *)
AbortCut ==
    /\ at = "abort"
    /\ Raise
    /\ UNCHANGED <<lines, cut, request>>

-----------------------------------------------------------------------------
(* close.                                                                  *)

Close ==
    /\ at = "ready"
    /\ IF failed \/ leader = "reaped" THEN Terminate
                                      ELSE at' = "shutdown" /\ UNCHANGED child
    /\ UNCHANGED <<lines, cut, request>>

(* The child has left, or its time is over.                                *)
ShutdownEnds ==
    /\ at = "shutdown"
    /\ Terminate
    /\ UNCHANGED <<lines, cut, request>>

ReapEnds ==
    /\ at = "reap"
    /\ Waited
    /\ at' = "stderr"
    /\ UNCHANGED <<child, lines, cut, request>>

StderrEnds ==
    /\ at = "stderr"
    /\ err = "eof"
    /\ at' = "over"
    /\ UNCHANGED <<child, lines, cut, request>>

(* A cancellation ends the await of close.  The awaits of its finally      *)
(* clause still follow the first one.                                      *)
CloseCut ==
    /\ at \in Closing
    /\ IF at = "shutdown" THEN Terminate
                          ELSE at' = "over" /\ UNCHANGED child

(* A session that was opened is closed by the harness, in a task that only *)
(* its cleanup timeout cancels, once.                                      *)
CleanupTimeout ==
    /\ opened /\ ~cut
    /\ CloseCut
    /\ cut' = TRUE
    /\ UNCHANGED <<lines, request>>

(* A failing open is cancelled with its trial.                             *)
OpenCut ==
    /\ ~opened
    /\ CloseCut
    /\ UNCHANGED <<lines, cut, request>>

-----------------------------------------------------------------------------
(* The child.                                                              *)

Writes(line) ==
    /\ out # "eof"
    /\ Len(lines) < MaxLines
    /\ lines' = Append(lines, line)
    /\ UNCHANGED <<child, at, method, asked, result, failed, opened, cut>>

Answers ==
    /\ leader = "running"
    /\ answered < asked
    /\ Writes(answered + 1)
    /\ answered' = answered + 1

(* Noise, or an answer it has given before.                                *)
Chatters ==
    /\ Held
    /\ \E line \in 0..answered : Writes(line)
    /\ UNCHANGED answered

(* More than twice the line limit is waiting: the stream is paused.        *)
Floods ==
    /\ Held
    /\ out = "open"
    /\ out' = "full"
    /\ UNCHANGED <<leader, members, stray, err, session>>

-----------------------------------------------------------------------------
SessionLoop ==
    \/ Noticed /\ UNCHANGED session
    \/ ReadLine \/ ReadEnd \/ AbortEnds \/ ReapEnds \/ StderrEnds

SessionTimers == ExitMessage \/ RequestCut \/ ShutdownEnds \/ CleanupTimeout

SessionNext ==
    \/ SessionLoop \/ SessionTimers
    \/ Ask("turn") \/ Ask("finish") \/ Close
    \/ ExchangeFails \/ AbortCut \/ OpenCut
    \/ Answers \/ Chatters \/ Floods
    \/ Exits /\ UNCHANGED session

(* The loop runs what is ready and timers fire.  Nothing is assumed of the *)
(* child.                                                                  *)
SessionFairness ==
    WF_<<child, session>>(SessionLoop) /\ WF_<<child, session>>(SessionTimers)
=============================================================================
