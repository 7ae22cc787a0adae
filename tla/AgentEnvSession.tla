-------------------------- MODULE AgentEnvSession --------------------------
(***************************************************************************)
(* adapters/agentenv.py under ConversationHarness: one sandbox for a       *)
(* conversation, files and commands for each turn and for the verifier,    *)
(* and one request to destroy it, whose answer the state file records.     *)
(***************************************************************************)
EXTENDS AdapterTrial

CONSTANT
    MaxTurns  \* bound: turns of the conversation

VARIABLES
    turn,      \* the id of the last request
    response,  \* the id in the sandbox's response file
    answered,  \* the id whose response the last send returned
    opened     \* open has returned a session, which close will end

agentenv == <<turn, response, answered, opened>>

AgentEnvTypeOK ==
    /\ turn \in 0..MaxTurns
    /\ response \in 0..MaxTurns
    /\ answered \in 0..MaxTurns
    /\ opened \in BOOLEAN

AgentEnvInit ==
    /\ turn = 0
    /\ response = 0
    /\ answered = 0
    /\ opened = FALSE

(* open: an environment variable is missing, or the sandbox is asked for.  *)
Open ==
    /\ at = "start"
    /\ \/ Goes("over", "failed") /\ UNCHANGED asked
       \/ Waits("open") /\ asked' = TRUE
    /\ UNCHANGED <<remote, known, statefile, agentenv>>

(* The sandbox's id is written at once.  If it cannot be, or the fact not  *)
(* recorded, open has the id and no session exists to release the sandbox. *)
Opened ==
    /\ at = "open"
    /\ ~asked
    /\ known' = TRUE
    /\ \/ Waits("ready") /\ Writes("located") /\ opened' = TRUE
       \/ Goes("over", "failed") /\ Records("located") /\ UNCHANGED opened
    /\ UNCHANGED <<remote, asked, turn, response, answered>>

OpenFails ==
    /\ at = "open"
    /\ Goes("over", "failed")
    /\ asked' \in {FALSE, asked}
    /\ UNCHANGED <<remote, known, statefile, agentenv>>

(* send writes the request file ...                                        *)
Send ==
    /\ at = "ready"
    /\ turn < MaxTurns
    /\ turn' = turn + 1
    /\ Waits("command")
    /\ UNCHANGED <<resource, response, answered, opened>>

(* ... runs the turn command, which may succeed and leave the response of  *)
(* an earlier turn where it is ...                                         *)
Command ==
    /\ at = "command"
    /\ remote = "live"
    /\ response' \in {response, turn}
    /\ Waits("read")
    /\ UNCHANGED <<resource, turn, answered, opened>>

(* ... and takes what the response file holds if it is this turn's.        *)
Read ==
    /\ at = "read"
    /\ remote = "live"
    /\ \/ response = turn /\ answered' = response /\ Waits("ready")
       \/ response # turn /\ Goes("kill", "failed") /\ UNCHANGED answered
    /\ UNCHANGED <<resource, turn, response, opened>>

(* finish: the verifier runs in the sandbox and its artifacts come out.    *)
Finish ==
    /\ at = "ready"
    /\ remote = "live"
    /\ Goes("kill", "evidence")
    /\ UNCHANGED <<resource, agentenv>>

(* A command that fails or floods, a file that is missing or too large, a  *)
(* timeout, a sandbox that has expired.                                    *)
SandboxFails ==
    /\ at \in {"ready", "command", "read"}
    /\ Goes("kill", "failed")
    /\ UNCHANGED <<resource, agentenv>>

(* Mutant of CleanupResult: the failed cleanup hides the cancellation.     *)
CleanupFailure == "failed"

CleanupResult == IF cancels > 0 THEN "cancelled" ELSE "failed"

(* close: destruction is confirmed, or not; unconfirmed too if the file    *)
(* cannot say so.  _close_session then raises what was held back.          *)
Close ==
    /\ at = "kill"
    /\ \/ /\ remote' = "gone"
          /\ \/ Writes("released") /\ Goes("over", IF cancels > 0 THEN "cancelled" ELSE outcome)
             \/ Records("unconfirmed") /\ Goes("over", CleanupResult)
       \/ /\ remote' \in {remote, "gone"}
          /\ Records("unconfirmed")
          /\ Goes("over", CleanupResult)
    /\ UNCHANGED <<asked, known, agentenv>>

AgentEnvInterrupted ==
    /\ \/ at = "open" /\ Interrupts("over", "cancelled")
       \/ at \in {"ready", "command", "read"} /\ Interrupts("kill", "cancelled")
       \/ at = "kill" /\ Interrupts(at, outcome)
    /\ UNCHANGED <<resource, agentenv>>

AgentEnvSteps ==
    \/ Open \/ Opened \/ OpenFails \/ Send \/ Command \/ Read \/ Finish
    \/ SandboxFails \/ Close

(* The time to live the sandbox was created with runs out.                 *)
AgentEnvNext ==
    \/ AgentEnvSteps
    \/ AgentEnvInterrupted
    \/ (Created \/ Vanishes) /\ UNCHANGED agentenv
=============================================================================
