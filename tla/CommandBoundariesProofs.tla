---------------------- MODULE CommandBoundariesProofs ----------------------
(***************************************************************************)
(* The safety properties of the command boundaries for sessions of any     *)
(* length and any amount of unread output.                                 *)
(***************************************************************************)
EXTENDS CommandBoundaries, SequenceTheorems, TLAPS

(* Once a boundary waits for the end of its child, only SIGKILL can have   *)
(* brought it there, and a dead group stays dead.                          *)
Dead == leader # "running" /\ ~members

SessionKills == boundary = "session" /\ at \in {"reap", "stderr", "over"} => Dead

JobKills ==
    boundary = "job" =>
        /\ watcher \/ pc \in {"wait", "raised"} => Dead
        /\ pc = "returned" => watcher

(* Only one signal precedes SIGKILL.                                       *)
OneSignal == pc = "grace" => signals \in {<<"INT">>, <<"TERM">>}

IInv ==
    /\ TypeOK
    /\ SessionKills
    /\ JobKills
    /\ OneSignal
    /\ RepliesMatch

-----------------------------------------------------------------------------
(* The invariant holds before the first request is read.                   *)
LEMMA InitIInv == Init => IInv
<1> SUFFICES ASSUME Init PROVE IInv
  OBVIOUS
<1> USE DEF Init, Session!ChildInit, Session!SessionInit, Job!JobInit
<1>1. TypeOK
  <2>1. /\ members \in BOOLEAN /\ stray \in BOOLEAN
        /\ failed \in BOOLEAN /\ opened \in BOOLEAN /\ cut \in BOOLEAN
        /\ writer \in BOOLEAN /\ watcher \in BOOLEAN /\ lost \in BOOLEAN
    <3>1. Strays \subseteq BOOLEAN
      BY Zenon, BoundariesAssumption
    <3> QED BY Zenon, <3>1
  <2>2. lines \in Seq(0..MaxRequests) /\ Len(lines) <= MaxLines
    BY BoundariesAssumption
  <2> QED
    BY <2>1, <2>2, BoundariesAssumption
    DEF TypeOK, Session!ChildTypeOK, Session!SessionTypeOK, Session!Requesting,
        Session!Closing, Job!JobTypeOK, Job!Streams, Job!Stopping
<1>2. SessionKills /\ JobKills /\ OneSignal /\ RepliesMatch
  BY DEF SessionKills, JobKills, OneSignal, RepliesMatch
<1> QED BY <1>1, <1>2 DEF IInv

-----------------------------------------------------------------------------
(* What the steps of both boundaries do to the child.                      *)

(* After terminate_process_group the group is dead.                        *)
LEMMA KillGroupKills ==
    ASSUME Session!ChildTypeOK, Session!KillGroup
    PROVE  Session!ChildTypeOK' /\ Dead'
BY DEF Session!ChildTypeOK, Session!KillGroup, Dead

(* Nothing that happens of itself revives it.                              *)
LEMMA DeadStaysDead ==
    ASSUME Session!ChildTypeOK,
           Session!Noticed \/ Session!Exits \/ UNCHANGED child
    PROVE  Session!ChildTypeOK' /\ (Dead => Dead')
<1>1. CASE UNCHANGED child
  BY <1>1 DEF child, Session!ChildTypeOK, Dead
<1>2. CASE Session!Noticed
  BY <1>2 DEF Session!Noticed, Session!ChildTypeOK, Dead
<1>3. CASE Session!Exits
  BY <1>3 DEF Session!Exits, Session!ChildTypeOK, Dead
<1> QED BY <1>1, <1>2, <1>3

-----------------------------------------------------------------------------
(* The steps of a session.                                                 *)

SessionInv ==
    /\ Session!ChildTypeOK
    /\ Session!SessionTypeOK
    /\ SessionKills
    /\ RepliesMatch

(* close goes on with a dead group.                                        *)
LEMMA TerminateKills ==
    ASSUME Session!ChildTypeOK, Session!Terminate
    PROVE  Session!ChildTypeOK' /\ Dead' /\ at' \in {"reap", "stderr"}
<1>1. Session!ChildTypeOK' /\ Dead'
  BY KillGroupKills DEF Session!Terminate
<1>2. at' \in {"reap", "stderr"}
  BY DEF Session!Terminate
<1> QED BY <1>1, <1>2

(* A failed request is over, or goes on in close with a dead group.        *)
LEMMA RaiseEndsOrKills ==
    ASSUME Session!ChildTypeOK, Session!Raise
    PROVE  /\ Session!ChildTypeOK'
           /\ at' = "ready" \/ (at' \in {"reap", "stderr"} /\ Dead')
<1>1. CASE method = "start"
  BY <1>1, TerminateKills DEF Session!Raise
<1>2. CASE method # "start"
  BY <1>2, DeadStaysDead DEF Session!Raise, Session!child, child
<1> QED BY <1>1, <1>2

LEMMA AbortKills ==
    ASSUME Session!ChildTypeOK, Session!Abort
    PROVE  /\ Session!ChildTypeOK'
           /\ Dead'
           /\ at' \in {"abort", "ready", "stderr"}
<1>1. Session!KillGroup
  BY DEF Session!Abort
<1>2. at' \in {"abort", "ready", "stderr"}
  BY DEF Session!Abort
<1> QED BY <1>1, <1>2, KillGroupKills

(* Whatever await of close is cut, the group is dead.                      *)
LEMMA CloseCutKills ==
    ASSUME Session!ChildTypeOK, SessionKills, boundary = "session", Session!CloseCut
    PROVE  /\ Session!ChildTypeOK'
           /\ Dead'
           /\ at' \in {"reap", "stderr", "over"}
<1>1. CASE at = "shutdown"
  BY <1>1, TerminateKills DEF Session!CloseCut
<1>2. CASE at # "shutdown"
  BY <1>2, DeadStaysDead
  DEF Session!CloseCut, Session!Closing, SessionKills, Session!child, child
<1> QED BY <1>1, <1>2

LEMMA SessionStep ==
    ASSUME SessionInv, Session!SessionNext, boundary = "session", boundary' = boundary
    PROVE  SessionInv'
<1> USE BoundariesAssumption
    DEF SessionInv, Session!SessionTypeOK, Session!Requesting, Session!Closing,
        SessionKills, RepliesMatch, Session!request
<1>1. CASE Session!ReadEnd
  BY <1>1, DeadStaysDead DEF Session!ReadEnd, Session!child, child
<1>2. CASE Session!AbortEnds
  BY <1>2, RaiseEndsOrKills DEF Session!AbortEnds
<1>3. CASE Session!AbortCut
  BY <1>3, RaiseEndsOrKills DEF Session!AbortCut
<1>4. CASE Session!ExchangeFails
  BY <1>4, AbortKills DEF Session!ExchangeFails, Session!Abort
<1>5. CASE Session!ExitMessage
  BY <1>5, AbortKills DEF Session!ExitMessage, Session!Abort
<1>6. CASE Session!RequestCut
  BY <1>6, AbortKills DEF Session!RequestCut, Session!Abort
<1>7. CASE Session!ShutdownEnds
  BY <1>7, TerminateKills DEF Session!ShutdownEnds
<1>8. CASE Session!ReapEnds
  BY <1>8, DeadStaysDead DEF Session!ReapEnds, Session!child, child
<1>9. CASE Session!StderrEnds
  BY <1>9, DeadStaysDead DEF Session!StderrEnds, Session!child, child
<1>10. CASE Session!CleanupTimeout
  BY <1>10, CloseCutKills DEF Session!CleanupTimeout
<1>11. CASE Session!OpenCut
  BY <1>11, CloseCutKills DEF Session!OpenCut
<1>12. CASE Session!Close
  BY <1>12, TerminateKills, DeadStaysDead DEF Session!Close, Session!child, child
<1>13. CASE \E kind \in {"turn", "finish"} : Session!Ask(kind)
  BY <1>13, DeadStaysDead DEF Session!Ask, Session!child, child
<1>14. CASE Session!Answers
  BY <1>14, DeadStaysDead DEF Session!Answers, Session!Writes, Session!child, child
<1>15. CASE Session!Chatters
  BY <1>15, DeadStaysDead DEF Session!Chatters, Session!Writes, Session!child, child
<1>16. CASE Session!Floods
  BY <1>16 DEF Session!Floods, Session!session, Session!ChildTypeOK, Dead
<1>17. CASE Session!Noticed /\ UNCHANGED Session!session
  BY <1>17, DeadStaysDead DEF Session!session
<1>18. CASE Session!Exits /\ UNCHANGED Session!session
  BY <1>18, DeadStaysDead DEF Session!session
<1>19. CASE Session!ReadLine
  <2>1. lines' \in Seq(0..MaxRequests) /\ Len(lines') <= MaxLines
    BY <1>19 DEF Session!ReadLine
  <2>2. CASE Session!Abort
    BY <1>19, <2>1, <2>2, AbortKills DEF Session!ReadLine, Session!Abort
  <2>3. CASE ~Session!Abort
    <3>1. Session!ChildTypeOK' /\ at' = "ready"
      BY <1>19, <2>3 DEF Session!ReadLine, Session!ChildTypeOK
    <3>2. CASE Session!Reject
      BY <3>1, <3>2, <2>1 DEF Session!Reject
    <3>3. CASE Session!Succeed(Head(lines)) /\ Session!IdMatches(Head(lines))
      BY <3>1, <3>3, <2>1 DEF Session!Succeed, Session!IdMatches
    <3> QED BY <1>19, <2>3, <3>2, <3>3 DEF Session!ReadLine
  <2> QED BY <2>2, <2>3
<1> QED
  BY <1>1, <1>2, <1>3, <1>4, <1>5, <1>6, <1>7, <1>8, <1>9, <1>10, <1>11,
     <1>12, <1>13, <1>14, <1>15, <1>16, <1>17, <1>18, <1>19
  DEF Session!SessionNext, Session!SessionLoop, Session!SessionTimers

-----------------------------------------------------------------------------
(* The steps of one exchange.                                              *)

JobInv ==
    /\ Session!ChildTypeOK
    /\ Job!JobTypeOK
    /\ JobKills
    /\ OneSignal

(* SIGKILL is the same for both boundaries.                                *)
LEMMA JobKillGroupKills ==
    ASSUME Session!ChildTypeOK, Job!KillGroup
    PROVE  Session!ChildTypeOK' /\ Dead'
BY KillGroupKills DEF Job!KillGroup, Session!KillGroup

LEMMA JobDeadStaysDead ==
    ASSUME Session!ChildTypeOK, Job!Noticed \/ Job!Exits \/ UNCHANGED child
    PROVE  Session!ChildTypeOK' /\ (Dead => Dead')
BY DeadStaysDead
DEF Job!Noticed, Job!Exits, Job!Held, Session!Noticed, Session!Exits, Session!Held

(* SIGKILL after a first signal makes two.                                 *)
LEMMA AppendToOne ==
    ASSUME NEW S, NEW first \in S, NEW last \in S
    PROVE  Append(<<first>>, last) = <<first, last>>
<1>1. <<first>> \in Seq(S) /\ <<first, last>> \in Seq(S)
  OBVIOUS
<1>2. Append(<<first>>, last) \in Seq(S) /\ Len(Append(<<first>>, last)) = 2
  BY <1>1, AppendProperties
<1>3. \A i \in 1..2 : Append(<<first>>, last)[i] = <<first, last>>[i]
  <2>1. Append(<<first>>, last)[1] = first
    BY <1>1, AppendProperties
  <2>2. Append(<<first>>, last)[2] = last
    BY <1>1, AppendProperties
  <2> QED BY <2>1, <2>2
<1> QED BY <1>1, <1>2, <1>3, SeqEqual

LEMMA JobStep ==
    ASSUME JobInv, Job!JobNext, boundary = "job", boundary' = boundary
    PROVE  JobInv'
<1> USE DEF JobInv, Job!JobTypeOK, Job!Streams, Job!Stopping, JobKills, OneSignal
<1>1. CASE \E stream \in Job!Streams : Job!ReaderEnds(stream)
  BY <1>1, JobDeadStaysDead DEF Job!ReaderEnds, Job!child, child
<1>2. CASE \E stream \in Job!Streams : Job!ReaderOverflows(stream)
  BY <1>2 DEF Job!ReaderOverflows, Job!Fail, Session!ChildTypeOK, Dead
<1>3. CASE Job!WriterEnds
  BY <1>3, JobDeadStaysDead DEF Job!WriterEnds, Job!child, child
<1>4. CASE Job!WatcherEnds
  BY <1>4, JobKillGroupKills DEF Job!WatcherEnds
<1>5. CASE Job!Returns
  BY <1>5, JobDeadStaysDead DEF Job!Returns, Job!child, child
<1>6. CASE Job!CollectCut
  BY <1>6, JobDeadStaysDead DEF Job!CollectCut, Job!Fail, Job!child, child
<1>7. CASE Job!StopCut
  BY <1>7, JobDeadStaysDead DEF Job!StopCut, Job!child, child
<1>8. CASE Job!Signal
  BY <1>8, JobDeadStaysDead
  DEF Job!Signal, Job!Discard, Job!FirstSignal, Job!GroupIsDead, Dead, Job!child, child
<1>9. CASE Job!GraceEnds
  <2>1. signals' \in {<<"INT", "KILL">>, <<"TERM", "KILL">>}
    <3>1. /\ Append(<<"INT">>, "KILL") = <<"INT", "KILL">>
          /\ Append(<<"TERM">>, "KILL") = <<"TERM", "KILL">>
      <4> DEFINE names == {"INT", "TERM", "KILL"}
      <4>1. "INT" \in names /\ "TERM" \in names /\ "KILL" \in names
        OBVIOUS
      <4> HIDE DEF names
      <4> QED BY <4>1, AppendToOne, Zenon
    <3>2. pc = "grace" /\ signals' = Append(signals, "KILL")
      BY <1>9 DEF Job!GraceEnds
    <3> QED BY <3>1, <3>2
  <2>2. Session!ChildTypeOK' /\ Dead' /\ pc' \in {"raised", "wait"}
    BY <1>9, JobKillGroupKills DEF Job!GraceEnds
  <2> QED BY <1>9, <2>1, <2>2 DEF Job!GraceEnds
<1>10. CASE Job!WaitEnds
  BY <1>10, JobDeadStaysDead DEF Job!WaitEnds, Job!child, child
<1>11. CASE Job!Discarded
  BY <1>11 DEF Job!Discarded, Job!exchange, Session!ChildTypeOK, Dead
<1>12. CASE Job!Noticed /\ UNCHANGED Job!exchange
  BY <1>12, JobDeadStaysDead DEF Job!exchange
<1>13. CASE Job!Exits /\ UNCHANGED Job!exchange
  BY <1>13, JobDeadStaysDead DEF Job!exchange
<1> QED
  BY <1>1, <1>2, <1>3, <1>4, <1>5, <1>6, <1>7, <1>8, <1>9, <1>10, <1>11, <1>12, <1>13
  DEF Job!JobNext, Job!JobLoop, Job!JobTimers

-----------------------------------------------------------------------------
LEMMA NextIInv == IInv /\ [Next]_vars => IInv'
<1> SUFFICES ASSUME IInv, [Next]_vars PROVE IInv'
  OBVIOUS
<1>1. SessionInv /\ JobInv /\ boundary \in {"session", "job"}
  BY DEF IInv, TypeOK, SessionInv, JobInv
<1>2. CASE RunSession
  <2>1. SessionInv'
    BY <1>1, <1>2, SessionStep DEF RunSession
  <2>2. (Job!JobTypeOK /\ JobKills /\ OneSignal)'
    BY <1>1, <1>2 DEF RunSession, exchange, JobInv, Job!JobTypeOK, JobKills, OneSignal
  <2> QED BY <1>1, <1>2, <2>1, <2>2 DEF RunSession, SessionInv, IInv, TypeOK
<1>3. CASE RunJob
  <2>1. JobInv'
    BY <1>1, <1>3, JobStep DEF RunJob
  <2>2. (Session!SessionTypeOK /\ SessionKills /\ RepliesMatch)'
    BY <1>1, <1>3
    DEF RunJob, session, SessionInv, Session!SessionTypeOK, SessionKills, RepliesMatch
  <2> QED BY <1>1, <1>3, <2>1, <2>2 DEF RunJob, JobInv, IInv, TypeOK
<1>4. CASE UNCHANGED vars
  BY <1>4
  DEF vars, child, session, exchange, IInv, TypeOK, Session!ChildTypeOK,
      Session!SessionTypeOK, Job!JobTypeOK, SessionKills, JobKills, OneSignal,
      RepliesMatch, Dead
<1> QED BY <1>2, <1>3, <1>4 DEF Next, Stopped

(* The inductive invariant of both boundaries.                             *)
THEOREM BoundariesInvariant == Spec => []IInv
<1> QED BY InitIInv, NextIInv, PTL DEF Spec

(* The variables of the child, the session and the exchange keep their     *)
(* types: unread lines and signals stay within their bounds.               *)
THEOREM TypeCorrect == Spec => []TypeOK
<1>1. IInv => TypeOK
  BY DEF IInv
<1> QED BY <1>1, BoundariesInvariant, PTL

(* A session or an exchange that is over has left no process of the        *)
(* child's group behind, however it ended.                                 *)
THEOREM GroupsAreKilled == Spec => []GroupIsKilled
<1>1. IInv => GroupIsKilled
  BY DEF IInv, TypeOK, SessionKills, JobKills, Dead, GroupIsKilled, Over
<1> QED BY <1>1, BoundariesInvariant, PTL

(* open, send and finish return the child's answer to their own request.   *)
THEOREM RepliesAreMatched == Spec => []RepliesMatch
<1>1. IInv => RepliesMatch
  BY DEF IInv
<1> QED BY <1>1, BoundariesInvariant, PTL

-----------------------------------------------------------------------------
(* What `CallsEnd` rests on, short of fairness: whoever waits for the end  *)
(* of a child waits for something that is about to happen.                 *)

(* A session reads stderr all the time and kills before it waits; an       *)
(* exchange that stops its child empties both pipes meanwhile.             *)
WaitsInv ==
    /\ boundary = "session" => err # "full" /\ (at = "abort" => Dead)
    /\ boundary = "job" /\ pc \in {"grace", "wait"} =>
           reader["out"] = "discarding" /\ reader["err"] = "discarding"

(* The event loop has something to learn of the child.                     *)
News == leader = "exited" \/ (~Session!Held /\ (out = "open" \/ err = "open"))

(* A method of the session is under a timeout, or the child is killed and  *)
(* its end is on its way or there.                                         *)
SessionGoesOn ==
    \/ at \in {"exchange", "exit", "shutdown"}
    \/ at \in {"abort", "reap"} /\ (Session!Waited \/ News)
    \/ at = "stderr" /\ (err = "eof" \/ News)

(* The exchange is under its timeout, can signal or kill its child, or is  *)
(* emptying the pipes of one that it has killed.                           *)
JobGoesOn ==
    \/ pc \in {"collect", "stopping", "grace"}
    \/ pc = "wait" /\ \/ Job!Waited \/ News
                      \/ reader["out"] = "discarding" /\ out = "full"
                      \/ reader["err"] = "discarding" /\ err = "full"

(* A call waits for nothing that cannot come, with two exceptions, which   *)
(* the code does not bound: a descendant outside the group that holds a    *)
(* pipe, and a session's abort or close behind a full stdout that nobody   *)
(* reads any more (the wait that refutes RequestsEnd).                     *)
NoWaitIsEndless ==
    ~stray =>
        /\ boundary = "session" /\ at \notin {"ready", "over"} =>
               SessionGoesOn \/ (at \in {"abort", "reap"} /\ out = "full")
        /\ boundary = "job" /\ ~Over => JobGoesOn

LEMMA SessionWaitsStep ==
    ASSUME IInv, WaitsInv, RunSession
    PROVE  WaitsInv'
<1>0. /\ Session!ChildTypeOK /\ SessionKills
      /\ Session!SessionNext /\ boundary = "session" /\ boundary' = "session"
  BY DEF IInv, TypeOK, RunSession
<1>1. err' = err \/ err' = "eof"
  BY <1>0
  DEF Session!SessionNext, Session!SessionLoop, Session!SessionTimers, Session!Noticed,
      Session!Exits, Session!ReadLine, Session!ReadEnd, Session!AbortEnds, Session!ReapEnds,
      Session!StderrEnds, Session!ExitMessage, Session!RequestCut, Session!ShutdownEnds,
      Session!CleanupTimeout, Session!CloseCut, Session!Ask, Session!Close,
      Session!ExchangeFails, Session!AbortCut, Session!OpenCut, Session!Answers,
      Session!Chatters, Session!Floods, Session!Writes, Session!Abort, Session!Raise,
      Session!Terminate, Session!KillGroup, Session!child
<1>2. ASSUME at' = "abort" PROVE Dead'
  <2>1. CASE Session!Abort
    BY <1>0, <2>1, AbortKills
  <2>2. CASE ~Session!Abort
    <3>1. at = "abort" /\ (\/ Session!Noticed \/ Session!Exits \/ UNCHANGED child
                           \/ UNCHANGED <<leader, members>>)
      BY <1>0, <1>2, <2>2
      DEF Session!SessionNext, Session!SessionLoop, Session!SessionTimers,
          Session!ReadLine, Session!ReadEnd, Session!AbortEnds, Session!ReapEnds,
          Session!StderrEnds, Session!ExitMessage, Session!RequestCut, Session!ShutdownEnds,
          Session!CleanupTimeout, Session!CloseCut, Session!Ask, Session!Close,
          Session!ExchangeFails, Session!AbortCut, Session!OpenCut, Session!Answers,
          Session!Chatters, Session!Floods, Session!Writes, Session!Raise,
          Session!Terminate, Session!Closing, Session!child, Session!session, child
    <3>2. Dead
      BY <1>0, <3>1 DEF WaitsInv
    <3> QED BY <1>0, <3>1, <3>2, DeadStaysDead DEF Dead
  <2> QED BY <2>1, <2>2
<1> QED BY <1>0, <1>1, <1>2 DEF WaitsInv

LEMMA JobWaitsStep ==
    ASSUME IInv, WaitsInv, RunJob
    PROVE  WaitsInv'
<1>0. /\ Job!JobTypeOK /\ Job!JobNext /\ boundary = "job" /\ boundary' = "job"
  BY DEF IInv, TypeOK, RunJob
<1>1. ASSUME pc' \in {"grace", "wait"}
      PROVE  reader'["out"] = "discarding" /\ reader'["err"] = "discarding"
  <2>1. CASE Job!Signal
    BY <2>1 DEF Job!Signal, Job!Discard, Job!Streams
  <2>2. CASE ~Job!Signal
    <3>1. pc \in {"grace", "wait"} /\ reader' = reader
      BY <1>0, <1>1, <2>2
      DEF Job!JobNext, Job!JobLoop, Job!JobTimers, Job!ReaderEnds, Job!ReaderOverflows,
          Job!WriterEnds, Job!WatcherEnds, Job!Returns, Job!CollectCut, Job!Fail, Job!StopCut,
          Job!GraceEnds, Job!WaitEnds, Job!Discarded, Job!exchange
    <3> QED BY <1>0, <3>1 DEF WaitsInv
  <2> QED BY <2>1, <2>2
<1> QED BY <1>0, <1>1 DEF WaitsInv

(* A killed child is about to end, to have its status learnt, or to have   *)
(* its pipes emptied and closed.                                           *)
LEMMA DeathIsNews ==
    ASSUME Session!ChildTypeOK, Dead, ~stray
    PROVE  News \/ (leader = "reaped" /\ out # "open" /\ err # "open")
BY DEF Session!ChildTypeOK, Dead, News, Session!Held

(* While no descendant outside the group holds a pipe, neither boundary    *)
(* waits for a child it has not killed, nor for the end of a pipe that     *)
(* nobody reads, except a session whose abort or close finds stdout full.  *)
THEOREM CallsGoOn == Spec => []NoWaitIsEndless
<1>1. Init => WaitsInv
  BY DEF Init, Session!ChildInit, Session!SessionInit, Job!JobInit, WaitsInv
<1>2. IInv /\ WaitsInv /\ [Next]_vars => WaitsInv'
  <2> SUFFICES ASSUME IInv, WaitsInv, [Next]_vars PROVE WaitsInv'
    OBVIOUS
  <2>1. CASE UNCHANGED vars
    BY <2>1 DEF vars, child, session, exchange, WaitsInv, Dead
  <2> QED BY <2>1, SessionWaitsStep, JobWaitsStep DEF Next, Stopped
<1>3. IInv /\ WaitsInv => NoWaitIsEndless
  <2> SUFFICES ASSUME IInv, WaitsInv, ~stray PROVE NoWaitIsEndless
    BY DEF NoWaitIsEndless
  <2>0. Session!ChildTypeOK /\ Session!SessionTypeOK /\ Job!JobTypeOK /\ SessionKills /\ JobKills
    BY DEF IInv, TypeOK
  <2>1. ASSUME boundary = "session", at \notin {"ready", "over"},
               ~(at \in {"abort", "reap"} /\ out = "full")
        PROVE  SessionGoesOn
    <3>1. CASE at \in {"exchange", "exit", "shutdown"}
      BY <3>1 DEF SessionGoesOn
    <3>2. CASE at \in {"abort", "reap", "stderr"}
      <4>1. Dead /\ err # "full"
        BY <2>0, <2>1, <3>2 DEF WaitsInv, SessionKills
      <4>2. News \/ (leader = "reaped" /\ out # "open" /\ err = "eof")
        BY <2>0, <4>1, DeathIsNews DEF Session!ChildTypeOK
      <4>3. out \in {"open", "full", "eof"}
        BY <2>0 DEF Session!ChildTypeOK
      <4> QED BY <2>1, <3>2, <4>2, <4>3 DEF SessionGoesOn, Session!Waited
    <3> QED BY <2>0, <2>1, <3>1, <3>2
            DEF Session!SessionTypeOK, Session!Requesting, Session!Closing
  <2>2. ASSUME boundary = "job", ~Over PROVE JobGoesOn
    <3>1. CASE pc = "wait"
      <4>1. Dead
        BY <2>0, <2>2, <3>1 DEF JobKills
      <4>2. News \/ (leader = "reaped" /\ out # "open" /\ err # "open")
        BY <2>0, <4>1, DeathIsNews
      <4>3. out \in {"open", "full", "eof"} /\ err \in {"open", "full", "eof"}
        BY <2>0 DEF Session!ChildTypeOK
      <4>4. reader["out"] = "discarding" /\ reader["err"] = "discarding"
        BY <2>2, <3>1 DEF WaitsInv
      <4> QED BY <3>1, <4>2, <4>3, <4>4 DEF JobGoesOn, Job!Waited
    <3>2. CASE pc # "wait"
      BY <2>0, <2>2, <3>2 DEF Over, Job!JobTypeOK, Job!Stopping, JobGoesOn
    <3> QED BY <3>1, <3>2
  <2> QED BY <2>1, <2>2 DEF NoWaitIsEndless
<1> QED BY <1>1, <1>2, <1>3, BoundariesInvariant, PTL DEF Spec
=============================================================================
