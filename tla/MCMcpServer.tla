------------------------------ MODULE MCMcpServer ------------------------------
(***************************************************************************)
(* McpServer for TLC: two sessions; whether a client sends "!agent stop"     *)
(* differs from run to run.                                                 *)
(***************************************************************************)
EXTENDS McpServer
=============================================================================
