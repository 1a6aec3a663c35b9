------------------------------ MODULE HttpServer ------------------------------
(***************************************************************************)
(* The life of the HTTP server around its command queue                     *)
(* (src/http_server.cpp): the extension thread starts and stops it, a       *)
(* POST /shutdown stops it from a detached thread, a client may even send   *)
(* the command "!agent stop", and stop() joins the server thread and the    *)
(* command thread it finds joinable.  The queue's own actions are those of  *)
(* CommandQueue; here they get the threads that perform them.               *)
(***************************************************************************)
EXTENDS CommandQueue

CONSTANTS
  Shutdowns,           \* detached threads that POST /shutdown creates
  StopRequests,        \* the requests whose text is "!agent stop"
  Endings,             \* the sets of ways a behaviour may have to end a session
  Restarts,            \* those of Endings with which the user starts again
  MaxSessions          \* bound: how often the user starts the server

(* The extension thread, the server thread and the command thread stop the   *)
(* server too.                                                               *)
Callers == {"ext", "command"} \cup Shutdowns

ASSUME StopperNames ==
  /\ Stoppers = Callers \cup {"server"}
  /\ Shutdowns \cap {"ext", "command", "server"} = {}
ASSUME StopRequestNames == StopRequests \subseteq Requests
ASSUME EndingWays ==
  /\ Endings \subseteq SUBSET {"user", "shutdown", "command", "accept error"}
  /\ Restarts \subseteq Endings
ASSUME SessionBound == MaxSessions \in Nat

VARIABLES
  endings,             \* what may end a session in this behaviour
  srv,                 \* where the server thread is
  stopAsked,           \* was impl_->server.stop() called on this server, or too early
  srvHandle,           \* server_thread_.joinable()
  cmdHandle,           \* command_thread_.joinable()
  xpc,                 \* xpc[t]: where t is in start() or stop()
  sessions             \* how often the server was started

serverVars == <<endings, srv, stopAsked, srvHandle, cmdHandle, xpc, sessions>>
httpVars   == <<vars, serverVars>>

HttpInit ==
  /\ Init
  /\ endings \in Endings
  /\ srv = "off" /\ stopAsked = "no"
  /\ srvHandle = FALSE /\ cmdHandle = FALSE
  /\ xpc = [t \in Callers |-> "out"]
  /\ sessions = 0

(* The requests that are "!agent stop" in this behaviour                      *)
StopsServer(r) == r \in StopRequests /\ "command" \in endings

(* t goes from one place of start() or stop() to another                     *)
Goto(t, from, to) == xpc[t] = from /\ xpc' = [xpc EXCEPT ![t] = to]

-----------------------------------------------------------------------------
(* start(), on the extension thread: is_running() is all it looks at.  A     *)
(* std::thread that is assigned to while joinable ends the process, so the   *)
(* two spawning steps do not happen then.                                    *)

Start ==
  /\ ~running /\ sessions < MaxSessions
  /\ sessions = 0 \/ endings \in Restarts
  /\ Goto("ext", "out", "spawnServer")
  /\ running' = TRUE
  /\ stopAsked' = "no"
  /\ sessions' = sessions + 1
  /\ UNCHANGED <<queue, handlerVars, commandVars, stopVars, endings, srv, srvHandle, cmdHandle>>

SpawnServer ==
  /\ ~srvHandle
  /\ Goto("ext", "spawnServer", "spawnCommand")
  /\ srvHandle' = TRUE
  /\ srv' = "spawned"
  /\ UNCHANGED <<vars, endings, stopAsked, cmdHandle, sessions>>

SpawnCommand ==
  /\ ~cmdHandle
  /\ Goto("ext", "spawnCommand", "out")
  /\ cmdHandle' = TRUE
  /\ cpc' = "test"
  /\ UNCHANGED <<running, queue, handlerVars, cmd, job, ran, stopVars,
                 endings, srv, stopAsked, srvHandle, sessions>>

-----------------------------------------------------------------------------
(* The server thread: listen_after_bind hands requests to handler threads,   *)
(* returns when it was stopped and they are done, and then does what stop()  *)
(* does to the queue.  httplib takes the server for running only from here   *)
(* on: a stop() that comes earlier finds nothing to stop.                    *)

Listens ==
  /\ srv = "spawned" /\ srv' = "listen"
  /\ UNCHANGED <<vars, endings, stopAsked, srvHandle, cmdHandle, xpc, sessions>>

Call(h, r)   == srv = "listen" /\ Enter(h, r) /\ UNCHANGED serverVars
Refused(r)   == srv = "listen" /\ Refuse(r) /\ UNCHANGED serverVars

ReturnAtOnce ==
  /\ srv = "listen" /\ (stopAsked = "yes" \/ "accept error" \in endings)
  /\ srv' = "returned"
  /\ UNCHANGED <<vars, endings, stopAsked, srvHandle, cmdHandle, xpc, sessions>>

(* listen_after_bind also gives up by itself when accept() fails.             *)
ListenReturns ==
  /\ srv = "listen" /\ (stopAsked = "yes" \/ "accept error" \in endings)
  /\ \A h \in Handlers : ~Live(h)
  /\ srv' = "returned"
  /\ UNCHANGED <<vars, endings, stopAsked, srvHandle, cmdHandle, xpc, sessions>>

ServerClear ==
  /\ srv = "returned" /\ srv' = "sweep"
  /\ BeginStop("server")
  /\ UNCHANGED <<endings, stopAsked, srvHandle, cmdHandle, xpc, sessions>>

ServerEnds ==
  /\ EndSweep("server") /\ srv' = "ended"
  /\ UNCHANGED <<endings, stopAsked, srvHandle, cmdHandle, xpc, sessions>>

-----------------------------------------------------------------------------
(* stop()                                                                    *)

(* POST /shutdown answers at once; its thread sleeps before it stops.        *)
PostShutdown(t) ==
  /\ srv = "listen" /\ "shutdown" \in endings
  /\ Goto(t, "out", "sleep")
  /\ UNCHANGED <<vars, endings, srv, stopAsked, srvHandle, cmdHandle, sessions>>

AskStopNotServer(t) ==
  /\ \/ t = "ext" /\ "user" \in endings /\ running /\ Goto(t, "out", "clear")
     \/ t \in Shutdowns /\ Goto(t, "sleep", "clear")
  /\ UNCHANGED <<vars, endings, srv, stopAsked, srvHandle, cmdHandle, sessions>>

(* "!agent stop" and the unloading of the extension look at is_running()     *)
(* first; so does "!agent stop" that a client sent, on the command thread.   *)
AskStop(t) ==
  /\ \/ t = "ext" /\ "user" \in endings /\ running /\ Goto(t, "out", "clear")
     \/ t = "command" /\ running /\ cpc = "exec" /\ StopsServer(job)
                      /\ Goto(t, "out", "clear")
     \/ t \in Shutdowns /\ Goto(t, "sleep", "clear")
  /\ stopAsked' = IF srv = "spawned" THEN "lost" ELSE "yes"
  /\ UNCHANGED <<vars, endings, srv, srvHandle, cmdHandle, sessions>>

Clear(t) ==
  /\ Goto(t, "clear", "sweep")
  /\ BeginStop(t)
  /\ UNCHANGED <<endings, srv, stopAsked, srvHandle, cmdHandle, sessions>>

SweepEndsWithoutJoin(t) ==
  /\ Goto(t, "sweep", "joinCommand")
  /\ EndSweep(t)
  /\ UNCHANGED <<endings, srv, stopAsked, srvHandle, cmdHandle, sessions>>

SweepEnds(t) ==
  /\ Goto(t, "sweep", "joinServer")
  /\ EndSweep(t)
  /\ UNCHANGED <<endings, srv, stopAsked, srvHandle, cmdHandle, sessions>>

JoinServer(t) ==
  /\ Goto(t, "joinServer", IF srvHandle THEN "inServerJoin" ELSE "joinCommand")
  /\ UNCHANGED <<vars, endings, srv, stopAsked, srvHandle, cmdHandle, sessions>>

ServerJoined(t) ==
  /\ srv \in {"ended", "off"}
  /\ Goto(t, "inServerJoin", "joinCommand")
  /\ srv' = "off" /\ srvHandle' = FALSE
  /\ UNCHANGED <<vars, endings, stopAsked, cmdHandle, sessions>>

(* A thread that joins itself gets an exception instead.                     *)
JoinCommand(t) ==
  /\ Goto(t, "joinCommand", CASE ~cmdHandle -> "out"
                              [] cmdHandle /\ t = "command" -> "thrown"
                              [] OTHER -> "inCommandJoin")
  /\ UNCHANGED <<vars, endings, srv, stopAsked, srvHandle, cmdHandle, sessions>>

CommandJoined(t) ==
  /\ cpc = "off"
  /\ Goto(t, "inCommandJoin", "out")
  /\ cmdHandle' = FALSE
  /\ UNCHANGED <<vars, endings, srv, stopAsked, srvHandle, sessions>>

StopCall(t) ==
  \/ AskStop(t) /\ t # "ext"
  \/ Clear(t) \/ SweepEnds(t)
  \/ JoinServer(t) \/ ServerJoined(t) \/ JoinCommand(t) \/ CommandJoined(t)

-----------------------------------------------------------------------------
(* "!agent stop" does nothing on a stopped server, and otherwise is over     *)
(* when stop() is.                                                           *)
FinishHttp ==
  /\ StopsServer(job) => xpc["command"] = "thrown" \/ (xpc["command"] = "out" /\ ~running)
  /\ Finish
  /\ xpc' = [xpc EXCEPT !["command"] = "out"]
  /\ UNCHANGED <<endings, srv, stopAsked, srvHandle, cmdHandle, sessions>>

QueueStep ==
  /\ \/ \E h \in Handlers : HandlerStep(h) \/ SpuriousWakeup(h)
     \/ LoopTest \/ PopNothing \/ Pop \/ Begin \/ Complete \/ Notify
     \/ \E t \in Stoppers : Swap(t) \/ SweepOne(t) \/ NotifySwept(t)
  /\ UNCHANGED serverVars

HttpNext ==
  \/ Start \/ SpawnServer \/ SpawnCommand
  \/ \E h \in Handlers, r \in Requests : Call(h, r)
  \/ \E r \in Requests : Refused(r)
  \/ Listens \/ ListenReturns \/ ServerClear \/ ServerEnds
  \/ \E t \in Shutdowns : PostShutdown(t)
  \/ AskStop("ext")
  \/ \E t \in Callers : StopCall(t)
  \/ FinishHttp
  \/ QueueStep

(* Threads that exist run, a stop() that began goes on, and a command that   *)
(* is executed ends, as is assumed of the debugger.  Nobody has to start, to *)
(* stop or to call anything, and no wakeup is spurious by right.             *)
HttpFairness ==
  /\ \A h \in Handlers : WF_httpVars(HandlerStep(h) /\ UNCHANGED serverVars)
  /\ WF_httpVars((CommandStep /\ ~Finish /\ UNCHANGED serverVars) \/ FinishHttp)
  /\ \A t \in Stoppers :
       WF_httpVars((Swap(t) \/ SweepOne(t) \/ NotifySwept(t)) /\ UNCHANGED serverVars)
  /\ \A t \in Callers : WF_httpVars(StopCall(t))
  /\ WF_httpVars(SpawnServer \/ SpawnCommand)
  /\ WF_httpVars(Listens \/ ListenReturns \/ ServerClear \/ ServerEnds)

HttpSafety == HttpInit /\ [][HttpNext]_httpVars
HttpSpec   == HttpSafety /\ HttpFairness

-----------------------------------------------------------------------------
(* The types of the queue and of the threads around it                       *)
(* (src/http_server.hpp:74-90).                                              *)
HttpTypeOK ==
  /\ TypeOK
  /\ endings \in Endings
  /\ srv \in {"off", "spawned", "listen", "returned", "sweep", "ended"}
  /\ stopAsked \in {"no", "lost", "yes"}
  /\ srvHandle \in BOOLEAN /\ cmdHandle \in BOOLEAN
  /\ xpc \in [Callers -> {"out", "spawnServer", "spawnCommand", "sleep", "clear", "sweep",
                          "joinServer", "inServerJoin", "joinCommand", "inCommandJoin", "thrown"}]
  /\ sessions \in 0 .. MaxSessions

(* Around the queue the server does only what CommandQueue assumes; above    *)
(* all, start() finds it quiet again, so that no pointer of an earlier       *)
(* session is left for the frames of the next (src/http_server.cpp:61,       *)
(* 134-137, 200-213).  A command thread that is still to be spawned counts   *)
(* as one that has not looked at running_ yet.                               *)
Queue == INSTANCE CommandQueue
  WITH cpc <- IF xpc["ext"] \in {"spawnServer", "spawnCommand"} THEN "test" ELSE cpc
QueueSpec == Queue!Safety

(* No wakeup is lost in the queue of this server either, although a command  *)
(* may be queued before the thread that is to pop it exists                  *)
(* (src/http_server.cpp:49, 133-137, 204-206, 236).                          *)
WakeupsKept == Queue!NoLostWakeup

(* What WinDbg's thread sees of the server: a start() finds no thread of the *)
(* session before, a stop() leaves none (src/http_server.cpp:61, 133-142,    *)
(* 200-213).  The server thread's own sweep counts as listening, a command   *)
(* thread that is still to be spawned as an idle one.                       *)
Worker ==
  IF xpc["ext"] \in {"spawnServer", "spawnCommand"} THEN "idle"
  ELSE IF cpc = "exec" THEN "busy" ELSE IF cpc = "off" THEN "off" ELSE "idle"
Stopping  == xpc["ext"] \in {"sweep", "joinServer", "inServerJoin", "joinCommand", "inCommandJoin"}
Listening == xpc["ext"] = "spawnServer" \/ srv \in {"spawned", "listen", "returned", "sweep"}

Life == INSTANCE ServerLife WITH worker <- Worker, stopping <- Stopping, listening <- Listening
LifeSpec == Life!Spec

(* When no stop() is under way, a server that does not run has nothing left  *)
(* of it: no command, no call, no thread and no handle                       *)
(* (src/http_server.cpp:133-137, 204-212).  The command thread and its       *)
(* handle may be left if not the user alone stops: a stop() that overtakes   *)
(* the end of start() finds no command thread to join, one on the command    *)
(* thread cannot join it.  Nobody joins anything when listen gave up by      *)
(* itself; what is queued is answered all the same.                          *)
StopLeavesNothing ==
  /\ ~running /\ \A t \in Callers : xpc[t] = "out"
  /\ "accept error" \in endings => srv \in {"off", "ended"}
  =>
  /\ queue = <<>>
  /\ \A h \in Handlers : ~Live(h)
  /\ \A t \in Stoppers : swept[t] = <<>>
  /\ "accept error" \notin endings => srv = "off" /\ ~srvHandle
  /\ endings = {"user"} => cpc = "off" /\ ~cmdHandle

(* Every stop() returns: the joins wait for threads that end                 *)
(* (src/http_server.cpp:200-213), with two exceptions.  The stop() of a      *)
(* client that sent "!agent stop" to be executed waits for the handler that  *)
(* waits for it; and a stop() that came before the server thread listened    *)
(* waits for a server that was never told to stop (line 202 before 134).     *)
StoppedFromInside == xpc["command"] = "inServerJoin"
StopLost == srv = "listen" /\ stopAsked = "lost" /\ \E t \in Callers : xpc[t] = "inServerJoin"
StopReturns ==
  \/ <>[](StoppedFromInside \/ StopLost)
  \/ \A t \in Callers : xpc[t] = "clear" ~> xpc[t] = "out"

(* Every call of queue_and_wait returns, with the first of these exceptions: *)
(* also while a stop() that was lost waits (src/http_server.cpp:49).         *)
HttpCallsReturn == <>[]StoppedFromInside \/ CallsReturn

(* The std::thread objects have one user at a time: start() never assigns to *)
(* one that is joinable, although is_running() is all it and its callers     *)
(* look at, and no two threads join the same one                             *)
(* (src/http_server.cpp:61, 133, 140, 207-212, src/main.cpp:190).            *)
HandlesFree ==
  /\ xpc["ext"] = "spawnServer" => ~srvHandle
  /\ xpc["ext"] = "spawnCommand" => ~cmdHandle
  /\ \A t, u \in Callers : xpc[t] \in {"inServerJoin", "inCommandJoin"} /\ xpc[u] = xpc[t] => t = u
=============================================================================
