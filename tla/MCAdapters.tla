----------------------------- MODULE MCAdapters -----------------------------
(***************************************************************************)
(* Adapters for TLC: a Harbor conversation with a system prompt, a user's  *)
(* message and two steps of the agent.                                     *)
(***************************************************************************)
EXTENDS Adapters

MCSources == <<"system", "user", "agent", "agent">>
=============================================================================
