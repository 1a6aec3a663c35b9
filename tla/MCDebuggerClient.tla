--------------------------- MODULE MCDebuggerClient ---------------------------
(***************************************************************************)
(* DebuggerClient for TLC: four texts are enough for one before, within and *)
(* after a nested call, and for one from within the forwarding of another.  *)
(***************************************************************************)
EXTENDS DebuggerClient
=============================================================================
