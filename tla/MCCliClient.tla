----------------------------- MODULE MCCliClient -----------------------------
(***************************************************************************)
(* CliClient for TLC: a command and its retry, a break and a shutdown, and a *)
(* pool of two threads, which the two commands fill.                         *)
(***************************************************************************)
EXTENDS CliClient, TLC

MCKind == "a" :> "exec" @@ "a again" :> "exec"
          @@ "break" :> "break" @@ "shutdown" :> "shutdown"
MCCalls == DOMAIN MCKind
MCRetryOf == "a again" :> "a"
=============================================================================
