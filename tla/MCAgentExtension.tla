-------------------------- MODULE MCAgentExtension --------------------------
(***************************************************************************)
(* AgentExtension for TLC: two sessions, of the same or of both servers.    *)
(***************************************************************************)
EXTENDS AgentExtension
=============================================================================
