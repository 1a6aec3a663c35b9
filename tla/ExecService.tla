----------------------------- MODULE ExecService -----------------------------
(***************************************************************************)
(* What a client of the command queue may rely on, whichever server (HTTP   *)
(* or MCP) it talks to: the debugger runs one command at a time, a request  *)
(* at most once, and the answer to a request agrees with what happened to   *)
(* it.  CommandQueue implements this specification, and the session that    *)
(* CliClient takes the server for does.                                     *)
(***************************************************************************)
CONSTANT Requests      \* the commands clients send, each sent once

VARIABLES
  exec,                \* exec[r]: "none", "running" or "done"
  answer               \* answer[r]: what the client of r was told

vars == <<exec, answer>>

Reply(s, p) == [success |-> s, payload |-> p]
NoAnswer    == Reply(FALSE, "nothing")
Replies     == [success : BOOLEAN,
                payload : Requests \cup {"nothing", "stopped", "not running"}]

(***************************************************************************)
(* The answers a request may get, by how far its execution has come.  The   *)
(* text "stopped" with success TRUE is given to a command that was taken    *)
(* off the queue unexecuted, the same text with success FALSE to one that   *)
(* was given up wherever it was.                                            *)
(***************************************************************************)
Allowed(r) ==
  {Reply(FALSE, "stopped")}
    \cup (IF exec[r] = "done" THEN {Reply(TRUE, r)} ELSE {})
    \cup (IF exec[r] = "none"
          THEN {Reply(TRUE, "stopped"), Reply(FALSE, "not running")} ELSE {})

(* A request that was refused or cancelled is never executed afterwards;    *)
(* one that was given up may be.                                            *)
MayStart(r) == answer[r] \in {NoAnswer, Reply(FALSE, "stopped")}

Init ==
  /\ exec = [r \in Requests |-> "none"]
  /\ answer = [r \in Requests |-> NoAnswer]

Start(r) ==
  /\ exec[r] = "none"
  /\ MayStart(r)
  /\ \A q \in Requests : exec[q] # "running"
  /\ exec' = [exec EXCEPT ![r] = "running"]
  /\ UNCHANGED answer

(* Clients that wait are told an answer that agrees with what has happened   *)
(* by then, several at once when the server is stopped.                     *)
Answering ==
  /\ answer' \in [Requests -> Replies]
  /\ \A r \in Requests :
       answer'[r] # answer[r] => answer[r] = NoAnswer /\ answer'[r] \in Allowed(r)'

Finish(r) ==
  /\ exec[r] = "running"
  /\ exec' = [exec EXCEPT ![r] = "done"]
  /\ Answering

Answer == Answering /\ UNCHANGED exec

Next == Answer \/ \E r \in Requests : Start(r) \/ Finish(r)

Spec == Init /\ [][Next]_vars
=============================================================================
