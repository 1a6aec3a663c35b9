---------------------------- MODULE AgentExtension ----------------------------
(***************************************************************************)
(* The extension as a whole (src/main.cpp): the state that both servers      *)
(* share, g_agent_state, against the threads that use it.  !agent http and   *)
(* !agent mcp replace it, !agent stop and the unloading of the extension     *)
(* release it, and the callbacks given to a server keep raw pointers into    *)
(* what it was.  Each client created is a generation; a pointer is used       *)
(* rightly while its generation is the one in g_agent_state.                *)
(*                                                                         *)
(* A server is here what ServerLife says, which HttpServer and McpServer     *)
(* implement: stop() clears running_ and returns when the command thread has *)
(* ended.  That it does return is HttpServer's matter and McpServer's: the    *)
(* stop that comes before the server listens, and is lost, is left out here. *)
(* WinDbg's thread runs the user's commands and pumps the engine's events,   *)
(* one or the other (src/main.cpp:216-218, src/windbg_client.cpp:41-44).     *)
(***************************************************************************)
EXTENDS Engine

CONSTANTS
  Orderly,             \* the user starts a server only when none is there, and no
                       \* POST /shutdown is under way when the extension is unloaded
  MaxSessions,         \* bound: how many clients are created
  MaxCommands          \* bound: how many commands are executed

ASSUME OrderlyOrNot == Orderly \in BOOLEAN
ASSUME Bounds == MaxSessions \in Nat /\ MaxCommands \in Nat

Servers == {"http", "mcp"}

VARIABLES
  user,                \* where WinDbg's thread is in agent_impl, "out" if not there
  leaving,             \* the extension is being unloaded
  running,             \* running[s]: is_running()
  listening,           \* the HTTP server's thread, and handlers, are there
  state,               \* the generation in g_agent_state, 0 if it is empty
  made,                \* how many generations there were
  cb,                  \* cb[s]: the generation that exec_cb_ points to
  breakCb,             \* the generation that break_cb_ points to, 0 if not set
  worker,              \* worker[s]: where the command thread is in exec_cb_
  shutdown,            \* the detached thread of a POST /shutdown
  commands             \* how many commands were begun

userVars   == <<user, leaving>>
stateVars  == <<state, made, cb, breakCb>>
serverVars == <<running, listening, worker, shutdown, commands>>
agentVars  == <<engineVars, userVars, stateVars, serverVars>>

AgentInit ==
  /\ EngineInit
  /\ user = "out" /\ leaving = FALSE
  /\ state = 0 /\ made = 0 /\ cb = [s \in Servers |-> 0] /\ breakCb = 0
  /\ running = [s \in Servers |-> FALSE] /\ listening = FALSE
  /\ worker = [s \in Servers |-> "off"]
  /\ shutdown = "none" /\ commands = 0

Set(f, s, v) == [f EXCEPT ![s] = v]

Ended(s)  == worker[s] = "off" /\ (s = "http" => ~listening)
NoServer  == shutdown = "none" /\ \A s \in Servers : ~running[s] /\ Ended(s)
MayChange == Orderly => NoServer

(* The command line takes commands only while the target does not run.       *)
Prompt == user = "out" /\ status # "go"

-----------------------------------------------------------------------------
(* !agent http and !agent mcp: setup_agent_state, start() with make_exec_cb, *)
(* and set_break_callback.  The first two may fail.                          *)

SetupIgnored(s) ==
  /\ Prompt /\ ~running[s] /\ MayChange /\ made < MaxSessions
  /\ user' = s
  /\ \/ state' = made + 1 /\ made' = made + 1
     \/ state' = 0 /\ UNCHANGED made
  /\ UNCHANGED <<engineVars, leaving, cb, breakCb, serverVars>>

Setup(s) ==
  /\ Prompt /\ ~running[s] /\ MayChange /\ made < MaxSessions
  /\ \/ state' = made + 1 /\ made' = made + 1 /\ user' = s
     \/ state' = 0 /\ UNCHANGED <<made, user>>
  /\ UNCHANGED <<engineVars, leaving, cb, breakCb, serverVars>>

StartFails ==
  /\ user \in Servers /\ user' = "out"
  /\ state' = 0
  /\ UNCHANGED <<engineVars, leaving, made, cb, breakCb, serverVars>>

StartServer(s) ==
  /\ user = s /\ worker[s] = "off"
  /\ user' = IF s = "http" THEN "set break" ELSE "out"
  /\ running' = Set(running, s, TRUE) /\ worker' = Set(worker, s, "idle")
  /\ cb' = Set(cb, s, state)
  /\ listening' = (listening \/ s = "http")
  /\ UNCHANGED <<engineVars, leaving, state, made, breakCb, shutdown, commands>>

SetBreakOnce ==
  /\ user = "set break" /\ user' = "out"
  /\ breakCb' = IF breakCb = 0 THEN state ELSE breakCb
  /\ UNCHANGED <<engineVars, leaving, state, made, cb, serverVars>>

SetBreak ==
  /\ user = "set break" /\ user' = "out"
  /\ breakCb' = state
  /\ UNCHANGED <<engineVars, leaving, state, made, cb, serverVars>>

-----------------------------------------------------------------------------
(* !agent stop, and the unloading, which releases the state in any case       *)

Join(s) == IF s = "http" THEN "join http" ELSE "join mcp"

Unload ==
  /\ Prompt /\ (Orderly => shutdown = "none")
  /\ user' = "next" /\ leaving' = TRUE
  /\ UNCHANGED <<engineVars, stateVars, serverVars>>

AskStopUncleared(s) ==
  /\ Prompt \/ user = "next"
  /\ running[s] /\ (s = "mcp" => ~running["http"])
  /\ user' = Join(s)
  /\ UNCHANGED <<engineVars, leaving, stateVars, serverVars>>

AskStop(s) ==
  /\ Prompt \/ user = "next"
  /\ running[s] /\ (s = "mcp" => ~running["http"])
  /\ user' = Join(s)
  /\ running' = Set(running, s, FALSE)
  /\ UNCHANGED <<engineVars, leaving, stateVars, listening, worker, shutdown, commands>>

JoinedEarly(s) ==
  /\ user = Join(s) /\ user' = "next"
  /\ state' = IF leaving THEN state ELSE 0
  /\ UNCHANGED <<engineVars, leaving, made, cb, breakCb, serverVars>>

Joined(s) ==
  /\ user = Join(s) /\ Ended(s)
  /\ user' = "next"
  /\ state' = IF leaving THEN state ELSE 0
  /\ UNCHANGED <<engineVars, leaving, made, cb, breakCb, serverVars>>

StopDone ==
  /\ user = "next" /\ \A s \in Servers : ~running[s]
  /\ user' = IF leaving THEN "unloaded" ELSE "out"
  /\ state' = IF leaving THEN 0 ELSE state
  /\ UNCHANGED <<engineVars, leaving, made, cb, breakCb, serverVars>>

-----------------------------------------------------------------------------
(* The HTTP server's own clients: POST /shutdown and POST /break              *)

PostShutdown ==
  /\ listening /\ shutdown = "none" /\ shutdown' = "asleep"
  /\ Orderly => ~leaving
  /\ UNCHANGED <<engineVars, userVars, stateVars, running, listening, worker, commands>>

ShutdownStops ==
  /\ shutdown = "asleep" /\ shutdown' = "stopping"
  /\ running' = Set(running, "http", FALSE)
  /\ UNCHANGED <<engineVars, userVars, stateVars, listening, worker, commands>>

ShutdownDone ==
  /\ shutdown = "stopping" /\ Ended("http")
  /\ shutdown' = "none"
  /\ UNCHANGED <<engineVars, userVars, stateVars, running, listening, worker, commands>>

(* listen_after_bind returns when the server was stopped and its handlers    *)
(* are done.                                                                 *)
ListenEnds ==
  /\ ~running["http"] /\ listening /\ listening' = FALSE
  /\ UNCHANGED <<engineVars, userVars, stateVars, running, worker, shutdown, commands>>

PostBreak ==
  /\ listening /\ breakCb # 0
  /\ IF breakCb = state THEN SetInterrupt ELSE UNCHANGED engineVars
  /\ UNCHANGED <<userVars, stateVars, serverVars>>

-----------------------------------------------------------------------------
(* The command thread: exec_cb_ echoes the command, executes it, waits for    *)
(* the target, and shows the result.                                          *)

WorkerGoes(s, from, to) ==
  /\ worker[s] = from /\ worker' = Set(worker, s, to)
  /\ UNCHANGED <<userVars, stateVars, running, listening, shutdown>>

Take(s) ==
  /\ WorkerGoes(s, "idle", "echo")
  /\ commands < MaxCommands /\ commands' = commands + 1
  /\ UNCHANGED engineVars

WorkerEnds(s) == ~running[s] /\ WorkerGoes(s, "idle", "off") /\ UNCHANGED <<engineVars, commands>>

Execute(s) ==
  /\ \/ WorkerGoes(s, "echo", "poll") /\ CommandMoves
     \/ WorkerGoes(s, "echo", "result") /\ UNCHANGED engineVars
  /\ UNCHANGED commands

Poll(s)   == status # "go" /\ WorkerGoes(s, "poll", "result") /\ UNCHANGED <<engineVars, commands>>
Result(s) == WorkerGoes(s, "result", "idle") /\ UNCHANGED <<engineVars, commands>>

WorkerStep(s) == WorkerEnds(s) \/ Execute(s) \/ Poll(s) \/ Result(s)

-----------------------------------------------------------------------------
(* Events are pumped while WinDbg's thread is not in a command.              *)
Pump ==
  /\ user \in {"out", "unloaded"}
  /\ TargetStops \/ BreakIn
  /\ UNCHANGED <<userVars, stateVars, serverVars>>

UserGoes == Prompt /\ UserResumes /\ UNCHANGED <<userVars, stateVars, serverVars>>

UserStep     == StartFails \/ SetBreak \/ StopDone \/ \E s \in Servers : StartServer(s) \/ Joined(s)
ShutdownStep == ShutdownStops \/ ShutdownDone

AgentNext ==
  \/ \E s \in Servers : Setup(s) \/ AskStop(s) \/ Take(s) \/ WorkerStep(s)
  \/ UserStep \/ Unload \/ UserGoes
  \/ PostShutdown \/ ShutdownStep \/ ListenEnds \/ PostBreak
  \/ Pump

(* Threads run, and a target that runs stops sooner or later, as long as     *)
(* somebody pumps its events.                                                *)
AgentSafety == AgentInit /\ [][AgentNext]_agentVars
AgentSpec ==
  /\ AgentSafety
  /\ \A s \in Servers : WF_agentVars(WorkerStep(s))
  /\ WF_agentVars(UserStep \/ \E s \in Servers : user = "next" /\ AskStop(s))
  /\ WF_agentVars(ShutdownStep) /\ WF_agentVars(ListenEnds)
  /\ WF_agentVars(Pump)

-----------------------------------------------------------------------------
(* The types of the variables; the state is never older than the callbacks   *)
(* made from it, and a server that runs has no null callback                 *)
(* (src/main.cpp:42-61, 64-99, 219-237).                                     *)
AgentTypeOK ==
  /\ EngineTypeOK
  /\ user \in {"out", "http", "mcp", "set break", "join http", "join mcp", "next", "unloaded"}
  /\ leaving \in BOOLEAN
  /\ state \in {0, made} /\ made \in 0 .. MaxSessions
  /\ breakCb \in 0 .. made
  /\ cb \in [Servers -> 0 .. made] /\ \A s \in Servers : worker[s] # "off" => cb[s] # 0
  /\ running \in [Servers -> BOOLEAN] /\ listening \in BOOLEAN
  /\ worker \in [Servers -> {"off", "idle", "echo", "poll", "result"}]
  /\ shutdown \in {"none", "asleep", "stopping"}
  /\ commands \in 0 .. MaxCommands

(* Both servers keep to the life of a server that HttpServer and McpServer   *)
(* have (src/main.cpp:105-117, 190-237, 320-334).                           *)
Worker(s)   == IF worker[s] \in {"echo", "poll", "result"} THEN "busy" ELSE worker[s]
Stopping(s) == user = Join(s)

HttpLife == INSTANCE ServerLife
  WITH running <- running["http"], worker <- Worker("http"), stopping <- Stopping("http")
McpLife == INSTANCE ServerLife
  WITH running <- running["mcp"], worker <- Worker("mcp"), stopping <- Stopping("mcp"),
       listening <- FALSE
LivesSpec == HttpLife!Spec /\ McpLife!Spec

(* While a command is echoed, executed and shown, the client and the output   *)
(* that the callback points to exist (src/main.cpp:42-54, 66, 88-99, 114-116, *)
(* 325, 332).  It takes a user who starts one server at a time, and neither   *)
(* starts nor unloads while a POST /shutdown is being carried out.           *)
ExecStateLive == \A s \in Servers : worker[s] \in {"echo", "poll", "result"} => cb[s] = state /\ state # 0

(* From set_break_callback on, and as long as a handler may call it, what the *)
(* break callback points to is not released: it is asked for by the handlers *)
(* of its own session, by the end of the session before reset()              *)
(* (src/main.cpp:241-245, 324-325, src/http_server.cpp:118).  It says nothing *)
(* of the time before: that is StateLive.                                     *)
BreakControlOnceSet == listening /\ breakCb # 0 /\ user # "set break" => breakCb = state /\ state # 0

(* Whatever a callback that may be called points to, is there: the client and *)
(* the output of the command thread's, the control of the handlers' ("Owned  *)
(* references are released in reset()", src/main.cpp:42; "/break calls       *)
(* SetInterrupt() directly on the HTTP handler thread", src/main.cpp:239).   *)
(* It does not hold.  A second server is set up beside one that runs; and     *)
(* even of one server at a time, started twice, the handlers listen before   *)
(* the new callback is set (src/main.cpp:230, 242), with the one whose        *)
(* control setup_agent_state has released.                                    *)
StateLive == ExecStateLive /\ (listening /\ breakCb # 0 => breakCb = state /\ state # 0)

(* After the extension was unloaded no command is executed and nothing is    *)
(* held (src/main.cpp:111-117).                                              *)
UnloadedQuiet == user = "unloaded" => state = 0 /\ \A s \in Servers : worker[s] = "off"

(* !agent stop, the unloading and POST /shutdown come to an end, unless the  *)
(* command that stop() waits for waits for the target, whose events nobody   *)
(* pumps while WinDbg's thread is in stop() (src/main.cpp:114-115, 324, 331, *)
(* src/http_server.cpp:110-113, src/windbg_client.cpp:43-55).                *)
UserWaits == user \in {"join http", "join mcp"}
Stuck     == UserWaits /\ status = "go" /\ \E s \in Servers : worker[s] = "poll"
StopEnds ==
  \/ <>[]Stuck
  \/ (UserWaits ~> ~UserWaits) /\ (shutdown = "stopping" ~> shutdown = "none")

(* The same of the user's stop, without the exception.                        *)
UserStopEnds == UserWaits ~> ~UserWaits
=============================================================================
