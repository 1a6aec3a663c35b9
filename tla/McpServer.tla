------------------------------ MODULE McpServer ------------------------------
(***************************************************************************)
(* The life of the MCP server around its command queue                      *)
(* (src/mcp_server.cpp).  The queue is that of CommandQueue; what differs   *)
(* from HttpServer is the order of things: the SSE server listens before    *)
(* running_ is set, stop() sweeps the queue before it stops the SSE server, *)
(* and nothing sweeps the queue once the SSE server's handlers are done.    *)
(***************************************************************************)
EXTENDS CommandQueue

CONSTANTS
  StopRequests,        \* the requests whose text is "!agent stop"
  MaxSessions          \* bound: how often the user starts the server

(* The extension thread, and the command thread when a client sends          *)
(* "!agent stop", call stop().                                               *)
ASSUME CallerNames == Stoppers = {"ext", "command"}
ASSUME StopRequestNames == StopRequests \subseteq Requests
ASSUME SessionBound == MaxSessions \in Nat

VARIABLES
  sse,                 \* the SSE server: "off", "listen" or "stopping"
  cmdHandle,           \* command_thread_.joinable()
  xpc,                 \* xpc[t]: where t is in start() or stop()
  sessions             \* how often the server was started

serverVars == <<sse, cmdHandle, xpc, sessions>>
mcpVars    == <<vars, serverVars>>

McpInit ==
  /\ Init
  /\ sse = "off" /\ cmdHandle = FALSE
  /\ xpc = [t \in Stoppers |-> "out"]
  /\ sessions = 0

(* t goes from one place of start() or stop() to another                     *)
Goto(t, from, to) == xpc[t] = from /\ xpc' = [xpc EXCEPT ![t] = to]

-----------------------------------------------------------------------------
(* start(), on the extension thread.  The SSE server either listens when its *)
(* start() returns or nothing has happened.                                  *)

(* Bounds: the user starts the server so often, and not again when a client  *)
(* has stopped it from inside.                                               *)
MayStart ==
  /\ sessions < MaxSessions
  /\ sessions = 0 \/ (xpc["command"] = "out" /\ StopRequests \cap ran = {})

Listen ==
  /\ ~running /\ MayStart
  /\ Goto("ext", "out", "setRunning")
  /\ sse' = "listen"
  /\ sessions' = sessions + 1
  /\ UNCHANGED <<vars, cmdHandle>>

SetRunning ==
  /\ Goto("ext", "setRunning", "spawnCommand")
  /\ running' = TRUE
  /\ UNCHANGED <<queue, handlerVars, commandVars, stopVars, sse, cmdHandle, sessions>>

SpawnCommand ==
  /\ ~cmdHandle
  /\ Goto("ext", "spawnCommand", "out")
  /\ cmdHandle' = TRUE
  /\ cpc' = "test"
  /\ UNCHANGED <<running, queue, handlerVars, cmd, job, ran, stopVars, sse, sessions>>

-----------------------------------------------------------------------------
(* The SSE server runs a tools/call on a thread of its own; when it is being *)
(* stopped it takes no new ones and waits for those it has.                  *)

Call(h, r) == sse = "listen" /\ Enter(h, r) /\ UNCHANGED serverVars
Refused(r) == sse = "listen" /\ Refuse(r) /\ UNCHANGED serverVars

-----------------------------------------------------------------------------
(* stop()                                                                    *)

ClearUnswept(t) ==
  /\ \/ t = "ext"
     \/ t = "command" /\ cpc = "exec" /\ job \in StopRequests
  /\ running
  /\ Goto(t, "out", "stopSse")
  /\ running' = FALSE
  /\ UNCHANGED <<queue, handlerVars, commandVars, stopVars, sse, cmdHandle, sessions>>

ClearWhenAsked(t) ==
  /\ \/ t = "ext"
     \/ t = "command" /\ cpc = "exec" /\ job \in StopRequests
  /\ running
  /\ Goto(t, "out", "sweep")
  /\ BeginStop(t)
  /\ UNCHANGED <<sse, cmdHandle, sessions>>

SweepEnds(t) ==
  /\ Goto(t, "sweep", "stopSse")
  /\ EndSweep(t)
  /\ UNCHANGED <<sse, cmdHandle, sessions>>

AskSse(t) ==
  /\ Goto(t, "stopSse", "inSseStop")
  /\ sse' = IF sse = "listen" THEN "stopping" ELSE sse
  /\ UNCHANGED <<vars, cmdHandle, sessions>>

SseStopped(t) ==
  /\ \A h \in Handlers : ~Live(h)
  /\ Goto(t, "inSseStop", "joinCommand")
  /\ sse' = "off"
  /\ UNCHANGED <<vars, cmdHandle, sessions>>

JoinSkipped(t) ==
  /\ Goto(t, "joinCommand", "out")
  /\ UNCHANGED <<vars, sse, cmdHandle, sessions>>

(* A thread that joins itself gets an exception instead.                     *)
JoinCommand(t) ==
  /\ Goto(t, "joinCommand", CASE ~cmdHandle -> "out"
                              [] cmdHandle /\ t = "command" -> "thrown"
                              [] OTHER -> "inCommandJoin")
  /\ UNCHANGED <<vars, sse, cmdHandle, sessions>>

CommandJoined(t) ==
  /\ cpc = "off"
  /\ Goto(t, "inCommandJoin", "out")
  /\ cmdHandle' = FALSE
  /\ UNCHANGED <<vars, sse, sessions>>

StopCall(t) ==
  SweepEnds(t) \/ AskSse(t) \/ SseStopped(t) \/ JoinCommand(t) \/ CommandJoined(t)

-----------------------------------------------------------------------------
(* "!agent stop" does nothing on a stopped server, and otherwise is over     *)
(* when stop() is.                                                           *)
FinishMcp ==
  /\ job \in StopRequests => xpc["command"] = "thrown" \/ (xpc["command"] = "out" /\ ~running)
  /\ Finish
  /\ xpc' = [xpc EXCEPT !["command"] = "out"]
  /\ UNCHANGED <<sse, cmdHandle, sessions>>

QueueStep ==
  /\ \/ \E h \in Handlers : HandlerStep(h) \/ SpuriousWakeup(h)
     \/ LoopTest \/ PopNothing \/ Pop \/ Begin \/ Complete \/ Notify
     \/ \E t \in Stoppers : Swap(t) \/ SweepOne(t) \/ NotifySwept(t)
  /\ UNCHANGED serverVars

McpNext ==
  \/ Listen \/ SetRunning \/ SpawnCommand
  \/ \E h \in Handlers, r \in Requests : Call(h, r)
  \/ \E r \in Requests : Refused(r)
  \/ \E t \in Stoppers : ClearWhenAsked(t) \/ StopCall(t)
  \/ FinishMcp
  \/ QueueStep

(* Threads that exist run, a start() or stop() that began goes on, and so    *)
(* does the command thread when what it executes is "!agent stop".           *)
McpFairness ==
  /\ \A h \in Handlers : WF_mcpVars(HandlerStep(h) /\ UNCHANGED serverVars)
  /\ WF_mcpVars((CommandStep /\ ~Finish /\ UNCHANGED serverVars) \/ FinishMcp)
  /\ \A t \in Stoppers :
       WF_mcpVars((Swap(t) \/ SweepOne(t) \/ NotifySwept(t)) /\ UNCHANGED serverVars)
  /\ WF_mcpVars(StopCall("ext"))
  /\ WF_mcpVars(StopCall("command") \/ ClearWhenAsked("command"))
  /\ WF_mcpVars(SetRunning \/ SpawnCommand)

McpSafety == McpInit /\ [][McpNext]_mcpVars
McpSpec   == McpSafety /\ McpFairness

-----------------------------------------------------------------------------
(* The types of the queue and of what is around it                           *)
(* (src/mcp_server.hpp:65-81).                                               *)
McpTypeOK ==
  /\ TypeOK
  /\ sse \in {"off", "listen", "stopping"}
  /\ cmdHandle \in BOOLEAN
  /\ xpc \in [Stoppers -> {"out", "setRunning", "spawnCommand", "sweep", "stopSse",
                           "inSseStop", "joinCommand", "inCommandJoin", "thrown"}]
  /\ sessions \in 0 .. MaxSessions

(* The queue as CommandQueue has it: its command thread is there as soon as  *)
(* running_ is set.                                                          *)
Queue == INSTANCE CommandQueue
  WITH cpc <- IF running /\ xpc["ext"] = "spawnCommand" THEN "test" ELSE cpc

(* A call that waits has its command with a thread that will complete it, or *)
(* a notification is still to come, although nothing sweeps the queue once   *)
(* the SSE server's handlers are done and although a session may find a      *)
(* pointer of the one before in it (src/mcp_server.cpp:64-94, 245-285).      *)
WakeupsKept == Queue!NoLostWakeup

(* What WinDbg's thread sees of the server: a start() finds no thread of the *)
(* session before, a stop() leaves none (src/mcp_server.cpp:184-206,         *)
(* 245-257).                                                                *)
Worker ==
  IF running /\ xpc["ext"] = "spawnCommand" THEN "idle"
  ELSE IF cpc = "exec" THEN "busy" ELSE IF cpc = "off" THEN "off" ELSE "idle"
Stopping  == xpc["ext"] \in {"sweep", "stopSse", "inSseStop", "joinCommand", "inCommandJoin"}
Listening == sse # "off"

Life == INSTANCE ServerLife WITH worker <- Worker, stopping <- Stopping, listening <- Listening
LifeSpec == Life!Spec

(* After stop() there is no call left, and a pointer that the first session  *)
(* may have left in the queue belongs to a call that was told the server     *)
(* stopped; there is no command thread either, unless it executed a          *)
(* "!agent stop" itself                                                      *)
(* (src/mcp_server.cpp:245-257).                                             *)
StopLeavesNoCall ==
  ~running /\ sse = "off" /\ (\A t \in Stoppers : xpc[t] = "out") =>
    /\ (cpc = "off" /\ ~cmdHandle) \/ StopRequests \cap ran # {}
    /\ \A h \in Handlers : ~Live(h)
    /\ sessions = 1 => \A h \in Queued : answer[slot[h].req] = Reply(FALSE, "stopped")

(* A client's "!agent stop" waits for the handler that waits for it.         *)
StoppedFromInside == xpc["command"] = "inSseStop"

(* Every stop() returns, unless a client stopped the server from inside      *)
(* (src/mcp_server.cpp:245-257).                                             *)
StopReturns ==
  \/ <>[]StoppedFromInside
  \/ \A t \in Stoppers : xpc[t] = "sweep" ~> xpc[t] = "out"

(* Every tools/call is answered, with the same exception                     *)
(* (src/mcp_server.cpp:64-94).                                               *)
McpCallsReturn == <>[]StoppedFromInside \/ CallsReturn

(* A session starts with an empty queue: a command whose client was told     *)
(* that the server stopped is not the first thing the next session executes  *)
(* (src/mcp_server.cpp:64-94, 245-257).                                      *)
StartsWithEmptyQueue == xpc["ext"] = "setRunning" => queue = <<>>
=============================================================================
