------------------------------ MODULE ServerLife ------------------------------
(***************************************************************************)
(* The life of a server as WinDbg's thread sees it: start() finds neither a  *)
(* command thread nor a stop under way, stop() returns when the server runs  *)
(* no longer, its command thread has ended and nothing listens, and between  *)
(* the two one command at a time is executed.  HttpServer and McpServer      *)
(* implement this specification, and the servers of AgentExtension do not    *)
(* go beyond it.                                                            *)
(***************************************************************************)

VARIABLES
  running,             \* is_running()
  worker,              \* the command thread: "off", "idle" or "busy" with a command
  stopping,            \* WinDbg's thread is in stop()
  listening            \* somebody accepts requests or handles one

vars == <<running, worker, stopping, listening>>

Init == ~running /\ worker = "off" /\ ~stopping /\ ~listening

(* The server may listen before it runs (MCP), from then on (HTTP), or be    *)
(* looked at without its listener.                                          *)
Listen ==
  /\ ~running /\ worker = "off" /\ ~stopping
  /\ listening' = TRUE
  /\ UNCHANGED <<running, worker, stopping>>

Start ==
  /\ ~running /\ worker = "off" /\ ~stopping
  /\ running' = TRUE /\ worker' = "idle"
  /\ listening' \in {listening, TRUE}
  /\ UNCHANGED stopping

Take   == worker = "idle" /\ worker' = "busy" /\ UNCHANGED <<running, stopping, listening>>
Result == worker = "busy" /\ worker' = "idle" /\ UNCHANGED <<running, stopping, listening>>

(* stop() of WinDbg's thread, and what another thread does to the server     *)
AskStop == running' = FALSE /\ stopping' = TRUE /\ UNCHANGED <<worker, listening>>
Clear   == running' = FALSE /\ UNCHANGED <<worker, stopping, listening>>

WorkerEnds == ~running /\ worker = "idle" /\ worker' = "off" /\ UNCHANGED <<running, stopping, listening>>
ListenEnds == ~running /\ listening' = FALSE /\ UNCHANGED <<running, worker, stopping>>

Return ==
  /\ stopping /\ stopping' = FALSE
  /\ ~running /\ worker = "off" /\ ~listening
  /\ UNCHANGED <<running, worker, listening>>

Next ==
  \/ Listen \/ Start \/ Take \/ Result
  \/ AskStop \/ Clear \/ WorkerEnds \/ ListenEnds \/ Return

Spec == Init /\ [][Next]_vars
=============================================================================
