--------------------------- MODULE HttpServerProofs ---------------------------
(***************************************************************************)
(* The theorems about HttpServer, for any number of handlers, requests,     *)
(* sessions and threads of POST /shutdown.  The types hold of all of them;   *)
(* that a session leaves nothing for the next is a matter of who stops it.  *)
(***************************************************************************)
EXTENDS HttpServer, CommandQueueProofs

CallerPlaces ==
  {"out", "spawnServer", "spawnCommand", "sleep", "clear", "sweep", "joinServer", "inServerJoin",
   "joinCommand", "inCommandJoin", "thrown"}

Spawning == xpc["ext"] \in {"spawnServer", "spawnCommand"}

(* A stopper holds no pointer outside its sweep.                             *)
SweepEmpty == \A t \in Stoppers : spc[t] \in {"out", "swap"} => swept[t] = <<>>

(* Nothing is left of a session, and nobody stops or starts one.             *)
AtRest ==
  /\ Quiet
  /\ srv = "off" /\ ~srvHandle /\ ~cmdHandle
  /\ \A t \in Callers : xpc[t] = "out"
  /\ \A t \in Stoppers : spc[t] = "out"

(* The extension thread alone starts and stops; the server thread sweeps.    *)
OneCaller ==
  /\ \A t \in Callers \ {"ext"} : xpc[t] = "out"
  /\ \A t \in Stoppers \ {"ext", "server"} : spc[t] = "out"
  /\ xpc["ext"] \notin {"sleep", "thrown"}
  /\ spc["ext"] # "out" => xpc["ext"] = "sweep"
  /\ spc["server"] # "out" => srv = "sweep"

(* What there is, by the place of the extension thread.                      *)
Places ==
  /\ xpc["ext"] = "out" /\ ~running => AtRest
  /\ Spawning \/ (xpc["ext"] = "out" /\ running) => running /\ stopAsked = "no"
  /\ xpc["ext"] = "spawnServer" => srv = "off" /\ ~srvHandle /\ ~cmdHandle
  /\ xpc["ext"] = "spawnCommand" => srv \in {"spawned", "listen"} /\ srvHandle /\ ~cmdHandle
  /\ xpc["ext"] = "out" /\ running => srv \in {"spawned", "listen"} /\ srvHandle /\ cmdHandle
  /\ xpc["ext"] \in {"clear", "sweep", "joinServer", "inServerJoin"} =>
       srv # "off" /\ srvHandle /\ cmdHandle
  /\ xpc["ext"] \in {"sweep", "joinServer", "inServerJoin", "joinCommand", "inCommandJoin"} => ~running
  /\ xpc["ext"] \in {"joinCommand", "inCommandJoin"} => srv = "off" /\ ~srvHandle /\ cmdHandle

(* There is a call only while the server listens, and after the server        *)
(* thread's sweep nothing is queued.                                         *)
Drained ==
  LET joined == xpc["ext"] \in {"joinCommand", "inCommandJoin"} IN
  /\ srv # "listen" \/ joined => \A h \in Handlers : ~Live(h)
  /\ srv \in {"sweep", "ended"} => ~running
  /\ srv = "sweep" => spc["server"] # "out"
  /\ srv = "ended" \/ joined \/ (srv = "sweep" /\ spc["server"] # "swap") => queue = <<>>

LifeInv ==
  /\ HttpTypeOK
  /\ SweepEmpty
  /\ Spawning => cpc = "off"
  /\ sessions = 0 => AtRest
  /\ endings = {"user"} => OneCaller /\ Places /\ Drained

-----------------------------------------------------------------------------
(* Apart from start() the server takes the steps of the queue, none of which *)
(* creates a command thread.                                                 *)
QueueMove == [Next]_vars /\ (cpc = "off" => cpc' = "off")

(* Every step is one of these, or a step of start().                         *)
LEMMA QueueMoves ==
  ASSUME [HttpNext]_httpVars
  PROVE  QueueMove \/ Start \/ SpawnCommand
<1>1. ASSUME NEW t \in Callers, StopCall(t) \/ AskStop(t) PROVE QueueMove
  <2>0. t \in Stoppers
    BY StopperNames
  <2>1. CASE Clear(t)
    <3>1. BeginStop(t) /\ UNCHANGED cpc
      BY <2>1 DEF Clear, BeginStop, commandVars
    <3>. QED BY <2>0, <3>1 DEF QueueMove, Next
  <2>2. CASE SweepEnds(t)
    <3>1. EndSweep(t) /\ UNCHANGED cpc
      BY <2>2 DEF SweepEnds, EndSweep, commandVars
    <3>. QED BY <2>0, <3>1 DEF QueueMove, Next, StopStep
  <2>3. CASE AskStop(t) \/ JoinServer(t) \/ ServerJoined(t) \/ JoinCommand(t) \/ CommandJoined(t)
    <3>1. UNCHANGED vars /\ UNCHANGED cpc
      BY <2>3 DEF AskStop, JoinServer, ServerJoined, JoinCommand, CommandJoined, vars, commandVars
    <3>. QED BY <3>1 DEF QueueMove
  <2>. QED BY <1>1, <2>1, <2>2, <2>3 DEF StopCall
<1>2. CASE QueueStep
  <2>1. Next
    BY <1>2 DEF QueueStep, Next, CommandStep, StopStep
  <2>2. cpc = "off" => cpc' = "off"
    BY <1>2 DEF QueueStep, HandlerStep, Push, Check, Leave, SpuriousWakeup, LoopTest, PopNothing,
       Pop, Begin, Complete, Notify, Swap, SweepOne, NotifySwept, commandVars
  <2>. QED BY <2>1, <2>2 DEF QueueMove
<1>3. CASE ServerClear \/ ServerEnds
  <2>1. "server" \in Stoppers
    BY StopperNames
  <2>2. UNCHANGED cpc
    BY <1>3 DEF ServerClear, ServerEnds, BeginStop, EndSweep, commandVars
  <2>. QED BY <1>3, <2>1, <2>2 DEF QueueMove, ServerClear, ServerEnds, Next, StopStep
<1>4. ASSUME NEW h \in Handlers, NEW r \in Requests, Call(h, r) PROVE QueueMove
  <2>1. Enter(h, r) /\ UNCHANGED cpc
    BY <1>4 DEF Call, Enter, commandVars
  <2>. QED BY <2>1 DEF QueueMove, Next
<1>5. ASSUME NEW r \in Requests, Refused(r) PROVE QueueMove
  <2>1. Refuse(r) /\ UNCHANGED cpc
    BY <1>5, Zenon DEF Refused, Refuse, commandVars
  <2>. QED BY <2>1 DEF QueueMove, Next
<1>6. CASE FinishHttp
  <2>1. Finish /\ cpc # "off"
    BY <1>6 DEF FinishHttp, Finish
  <2>. QED BY <2>1 DEF QueueMove, Next, CommandStep
<1>7. ASSUME (\E t \in Shutdowns : PostShutdown(t)) \/ SpawnServer \/ Listens \/ ListenReturns
             \/ UNCHANGED httpVars
      PROVE  QueueMove
  <2>1. UNCHANGED vars /\ UNCHANGED cpc
    BY <1>7 DEF PostShutdown, SpawnServer, Listens, ListenReturns, httpVars, vars, commandVars
  <2>. QED BY <2>1 DEF QueueMove
<1>8. "ext" \in Callers
  BY DEF Callers
<1>. QED BY <1>1, <1>2, <1>3, <1>4, <1>5, <1>6, <1>7, <1>8 DEF HttpNext

(* Nothing is there at first.                                                *)
LEMMA HttpTypeInit == HttpInit => HttpTypeOK
<1>1. HttpInit => TypeOK
  BY TypeInit DEF HttpInit
<1>2. HttpInit => sessions \in 0 .. MaxSessions
  BY SessionBound DEF HttpInit
<1>. QED BY <1>1, <1>2, Zenon DEF HttpInit, HttpTypeOK

(* Every step keeps the types.                                               *)
LEMMA HttpTypeStep == HttpTypeOK /\ [HttpNext]_httpVars => HttpTypeOK'
<1>. SUFFICES ASSUME HttpTypeOK, [HttpNext]_httpVars PROVE HttpTypeOK'
  OBVIOUS
<1>t. TypeOK'
  <2>1. CASE QueueMove
    BY <2>1, TypeStep DEF HttpTypeOK, QueueMove
  <2>2. CASE Start \/ SpawnCommand
    BY <2>2 DEF HttpTypeOK, TypeOK, CmdHeld, Start, SpawnCommand, handlerVars, commandVars, stopVars
  <2>. QED BY <2>1, <2>2, QueueMoves
<1>x. /\ "ext" \in Callers /\ "command" \in Callers /\ Shutdowns \subseteq Callers
  BY DEF Callers
<1>. DEFINE Rest == /\ endings' \in Endings
                    /\ srv' \in {"off", "spawned", "listen", "returned", "sweep", "ended"}
                    /\ stopAsked' \in {"no", "lost", "yes"} /\ srvHandle' \in BOOLEAN /\ cmdHandle' \in BOOLEAN
                    /\ xpc' \in [Callers -> CallerPlaces]
                    /\ sessions' \in 0 .. MaxSessions
<1>. SUFFICES Rest
  BY <1>t DEF HttpTypeOK, CallerPlaces
<1>. USE DEF HttpTypeOK, CallerPlaces
<1>1. CASE Start \/ SpawnServer \/ SpawnCommand
  <2>1. /\ UNCHANGED endings /\ srv' \in {srv, "spawned"} /\ stopAsked' \in {stopAsked, "no"}
        /\ srvHandle' \in {srvHandle, TRUE} /\ cmdHandle' \in {cmdHandle, TRUE}
        /\ \E to \in {"spawnServer", "spawnCommand", "out"} : xpc' = [xpc EXCEPT !["ext"] = to]
    BY <1>1 DEF Start, SpawnServer, SpawnCommand, Goto
  <2>2. sessions' \in 0 .. MaxSessions
    BY <1>1, SessionBound DEF Start, SpawnServer, SpawnCommand
  <2>. QED BY <2>1, <2>2
<1>2. CASE Listens \/ ListenReturns \/ ServerClear \/ ServerEnds
  BY <1>2 DEF Listens, ListenReturns, ServerClear, ServerEnds
<1>3. ASSUME NEW t \in Shutdowns, PostShutdown(t) PROVE Rest
  BY <1>3, <1>x DEF PostShutdown, Goto
<1>4. ASSUME NEW t \in Callers, AskStop(t) PROVE Rest
  <2>1. /\ UNCHANGED <<endings, srv, srvHandle, cmdHandle, sessions>> /\ stopAsked' \in {"lost", "yes"}
        /\ xpc' = [xpc EXCEPT ![t] = "clear"]
    BY <1>4 DEF AskStop, Goto
  <2>. QED BY <2>1
<1>5. ASSUME NEW t \in Callers, StopCall(t) PROVE Rest
  <2>1. /\ UNCHANGED <<endings, sessions>>
        /\ srv' \in {srv, "off"} /\ stopAsked' \in {"no", "lost", "yes"}
        /\ srvHandle' \in BOOLEAN /\ cmdHandle' \in BOOLEAN
        /\ \E to \in {"clear", "sweep", "joinServer", "inServerJoin", "joinCommand",
                      "inCommandJoin", "thrown", "out"} : xpc' = [xpc EXCEPT ![t] = to]
    BY <1>5 DEF StopCall, AskStop, Clear, SweepEnds, JoinServer, ServerJoined, JoinCommand,
       CommandJoined, Goto
  <2>. QED BY <2>1
<1>6. ASSUME NEW h \in Handlers, NEW r \in Requests, Call(h, r) PROVE Rest
  BY <1>6 DEF Call, serverVars
<1>7. ASSUME NEW r \in Requests, Refused(r) PROVE Rest
  BY <1>7 DEF Refused, serverVars
<1>8. CASE QueueStep \/ UNCHANGED httpVars
  BY <1>8 DEF QueueStep, httpVars, serverVars
<1>9. CASE FinishHttp
  BY <1>9, <1>x DEF FinishHttp
<1>. QED BY <1>1, <1>2, <1>3, <1>4, <1>5, <1>6, <1>7, <1>8, <1>9, <1>x DEF HttpNext

(* The types of HttpServer hold in every execution, whoever stops the server *)
(* and however often.                                                        *)
THEOREM HttpTypeCorrect == HttpSafety => []HttpTypeOK
<1>. QED BY HttpTypeInit, HttpTypeStep, PTL DEF HttpSafety

-----------------------------------------------------------------------------
(* The life of a session that the user ends.                                 *)

(* A stopper is out again only with its part of the queue swept.             *)
LEMMA SweepStep ==
  ASSUME HttpTypeOK, SweepEmpty, [HttpNext]_httpVars
  PROVE  SweepEmpty'
<1>t. spc \in [Stoppers -> {"out", "swap", "sweep", "note"}] /\ swept \in [Stoppers -> Seq(Handlers)]
  BY DEF HttpTypeOK, TypeOK
<1>1. ASSUME NEW t \in Stoppers, BeginStop(t) \/ StopStep(t) PROVE SweepEmpty'
  <2>1. \A u \in Stoppers \ {t} : spc'[u] = spc[u] /\ swept'[u] = swept[u]
    BY <1>t, <1>1 DEF BeginStop, StopStep, Swap, SweepOne, NotifySwept, EndSweep
  <2>2. spc'[t] \in {"out", "swap"} => swept'[t] = <<>>
    BY <1>t, <1>1 DEF BeginStop, StopStep, Swap, SweepOne, NotifySwept, EndSweep, SweepEmpty
  <2>. QED BY <2>1, <2>2 DEF SweepEmpty
<1>2. CASE UNCHANGED <<spc, swept>>
  BY <1>2 DEF SweepEmpty
<1>3. ASSUME NEW r \in Requests, Refuse(r) PROVE UNCHANGED <<spc, swept>>
  BY <1>3, Zenon DEF Refuse, stopVars
<1>4. ASSUME NEW h \in Handlers, NEW r \in Requests, Enter(h, r) PROVE UNCHANGED <<spc, swept>>
  BY <1>4 DEF Enter, stopVars
<1>5. ASSUME NEW h \in Handlers, HandlerStep(h) \/ SpuriousWakeup(h) PROVE UNCHANGED <<spc, swept>>
  BY <1>5 DEF HandlerStep, Push, Check, Leave, SpuriousWakeup, stopVars
<1>6. ASSUME CommandStep \/ Open PROVE UNCHANGED <<spc, swept>>
  BY <1>6 DEF CommandStep, LoopTest, PopNothing, Pop, Begin, Finish, Complete, Notify, Open, stopVars
<1>7. ASSUME Start \/ SpawnCommand \/ UNCHANGED vars PROVE UNCHANGED <<spc, swept>>
  BY <1>7 DEF Start, SpawnCommand, stopVars, vars
<1>. QED BY <1>1, <1>2, <1>3, <1>4, <1>5, <1>6, <1>7, QueueMoves DEF QueueMove, Next

(* What may end a session does not change, and sessions are only added.      *)
LEMMA EndingsFixed == ASSUME [HttpNext]_httpVars PROVE UNCHANGED endings
<1>1. \A t \in Callers : AskStop(t) \/ StopCall(t) => UNCHANGED endings
  BY DEF StopCall, AskStop, Clear, SweepEnds, JoinServer, ServerJoined, JoinCommand, CommandJoined
<1>. QED BY <1>1 DEF HttpNext, Start, SpawnServer, SpawnCommand, Call, Refused, Listens, ListenReturns,
         ServerClear, ServerEnds, PostShutdown, FinishHttp, QueueStep, httpVars, serverVars, Callers

(* Every start is counted, and nothing else is.                              *)
LEMMA SessionsGrow ==
  ASSUME HttpTypeOK, [HttpNext]_httpVars
  PROVE  IF Start THEN sessions' # 0 ELSE UNCHANGED sessions
<1>1. \A t \in Callers : AskStop(t) \/ StopCall(t) => UNCHANGED sessions
  BY DEF StopCall, AskStop, Clear, SweepEnds, JoinServer, ServerJoined, JoinCommand, CommandJoined
<1>2. ASSUME Start PROVE sessions' # 0
  BY <1>2, SessionBound DEF Start, HttpTypeOK
<1>. QED BY <1>1, <1>2 DEF HttpNext, SpawnServer, SpawnCommand, Call, Refused, Listens, ListenReturns,
         ServerClear, ServerEnds, PostShutdown, FinishHttp, QueueStep, httpVars, serverVars, Callers

(* From rest the server can only be started.                                 *)
LEMMA RestEnds ==
  ASSUME HttpTypeOK, AtRest, [HttpNext]_httpVars
  PROVE  Start \/ UNCHANGED httpVars
<1>1. /\ ~running /\ cpc = "off" /\ queue = <<>> /\ srv = "off"
      /\ \A h \in Handlers : hpc[h] = "idle"
      /\ \A t \in Callers : xpc[t] = "out"
      /\ \A t \in Stoppers : spc[t] = "out"
      /\ "ext" \in Callers /\ Shutdowns \subseteq Callers /\ "server" \in Stoppers
  BY StopperNames DEF AtRest, Quiet, Live, Callers
<1>2. ~SpawnServer /\ ~SpawnCommand
  BY <1>1 DEF SpawnServer, SpawnCommand, Goto
<1>3. ~Listens /\ ~ListenReturns /\ ~ServerClear /\ ~ServerEnds
  BY <1>1 DEF Listens, ListenReturns, ServerClear, ServerEnds, EndSweep
<1>4. \A h \in Handlers, r \in Requests : ~Call(h, r)
  BY <1>1 DEF Call
<1>5. \A r \in Requests : ~Refused(r)
  BY <1>1 DEF Refused
<1>6. \A t \in Shutdowns : ~PostShutdown(t)
  BY <1>1 DEF PostShutdown
<1>7. \A t \in Callers : ~AskStop(t)
  BY <1>1 DEF AskStop, Goto
<1>8. \A t \in Callers : ~StopCall(t)
  BY <1>1, <1>7 DEF StopCall, Clear, SweepEnds, JoinServer, ServerJoined, JoinCommand,
     CommandJoined, Goto
<1>9. ~FinishHttp
  BY <1>1 DEF FinishHttp, Finish
<1>10. ~QueueStep
  BY <1>1 DEF QueueStep, HandlerStep, Push, Check, Leave, SpuriousWakeup, LoopTest, PopNothing,
     Pop, Begin, Complete, Notify, Swap, SweepOne, NotifySwept
<1>. QED BY <1>1, <1>2, <1>3, <1>4, <1>5, <1>6, <1>7, <1>8, <1>9, <1>10 DEF HttpNext

(* start() is called at rest.                                                *)
LEMMA StartAtRest ==
  ASSUME LifeInv, Start, Restarts \subseteq {{"user"}}
  PROVE  AtRest
<1>1. CASE sessions = 0
  BY <1>1 DEF LifeInv
<1>2. CASE sessions # 0
  <2>1. endings = {"user"} /\ ~running /\ xpc["ext"] = "out"
    BY <1>2 DEF Start, Goto
  <2>. QED BY <2>1 DEF LifeInv, Places
<1>. QED BY <1>1, <1>2

(* Who is in start() was there, or has just called it.                       *)
LEMMA SpawnFrom ==
  ASSUME HttpTypeOK, [HttpNext]_httpVars, Spawning'
  PROVE  Start \/ (Spawning /\ ~SpawnCommand)
<1>x. /\ xpc \in [Callers -> CallerPlaces]
      /\ "ext" \in Callers /\ "command" \in Callers /\ Shutdowns \subseteq Callers
      /\ "ext" \notin Shutdowns
  BY StopperNames DEF HttpTypeOK, Callers, CallerPlaces
<1>1. ~SpawnCommand
  BY <1>x DEF SpawnCommand, Goto, Spawning
<1>2. CASE SpawnServer
  BY <1>2, <1>1 DEF SpawnServer, Goto, Spawning
<1>3. CASE UNCHANGED xpc
  BY <1>1, <1>3 DEF Spawning
<1>4. ASSUME NEW t \in Callers, NEW to \in {"clear", "sweep", "joinServer", "inServerJoin",
             "joinCommand", "inCommandJoin", "thrown", "out", "sleep"},
             xpc' = [xpc EXCEPT ![t] = to]
      PROVE  Spawning
  BY <1>x, <1>4 DEF Spawning
<1>5. ASSUME NEW t \in Callers, AskStop(t) \/ StopCall(t) PROVE Spawning
  <2>1. \E to \in {"clear", "sweep", "joinServer", "inServerJoin", "joinCommand",
                   "inCommandJoin", "thrown", "out"} : xpc' = [xpc EXCEPT ![t] = to]
    BY <1>5 DEF StopCall, AskStop, Clear, SweepEnds, JoinServer, ServerJoined, JoinCommand,
       CommandJoined, Goto
  <2>. QED BY <1>4, <2>1
<1>6. ASSUME NEW t \in Shutdowns, PostShutdown(t) PROVE Spawning
  <2>1. xpc' = [xpc EXCEPT ![t] = "sleep"] /\ t \in Callers
    BY <1>6, <1>x DEF PostShutdown, Goto
  <2>. QED BY <1>4, <2>1
<1>7. CASE FinishHttp
  <2>1. xpc' = [xpc EXCEPT !["command"] = "out"]
    BY <1>7 DEF FinishHttp
  <2>. QED BY <1>1, <1>x, <2>1 DEF Spawning
<1>8. ASSUME \/ Listens \/ ListenReturns \/ ServerClear \/ ServerEnds \/ QueueStep \/ UNCHANGED httpVars
             \/ \E h \in Handlers, r \in Requests : Call(h, r)
             \/ \E r \in Requests : Refused(r)
      PROVE  UNCHANGED xpc
  BY <1>8 DEF Listens, ListenReturns, ServerClear, ServerEnds, QueueStep, httpVars, Call, Refused, serverVars
<1>. QED BY <1>1, <1>2, <1>3, <1>5, <1>6, <1>7, <1>8, <1>x DEF HttpNext

(* No command thread runs before start() has created it.                     *)
LEMMA SpawnStep ==
  ASSUME LifeInv, [HttpNext]_httpVars, Restarts \subseteq {{"user"}}, Spawning'
  PROVE  cpc' = "off"
<1>t. HttpTypeOK /\ (Spawning => cpc = "off")
  BY DEF LifeInv
<1>1. CASE Start
  <2>1. cpc = "off"
    BY <1>1, StartAtRest DEF AtRest, Quiet
  <2>. QED BY <1>1, <2>1 DEF Start, commandVars
<1>2. CASE Spawning /\ ~SpawnCommand /\ ~Start
  BY <1>t, <1>2, QueueMoves DEF QueueMove
<1>. QED BY <1>t, <1>1, <1>2, SpawnFrom

UserInv == OneCaller /\ Places /\ Drained

(* A session that the user ends goes from place to place as UserInv says.    *)
LEMMA UserStep ==
  ASSUME LifeInv, [HttpNext]_httpVars, Restarts \subseteq {{"user"}}, endings = {"user"}
  PROVE  UserInv'
<1>t. /\ xpc \in [Callers -> CallerPlaces]
      /\ spc \in [Stoppers -> {"out", "swap", "sweep", "note"}]
      /\ hpc \in [Handlers -> {"idle", "push", "wait", "blocked", "leave"}]
      /\ "ext" \in Callers /\ "command" \in Callers /\ Shutdowns \subseteq Callers
      /\ "ext" \notin Shutdowns /\ "ext" \in Stoppers /\ "server" \in Stoppers
      /\ Stoppers = Callers \cup {"server"} /\ Callers = {"ext", "command"} \cup Shutdowns
  BY StopperNames DEF LifeInv, HttpTypeOK, TypeOK, Callers, CallerPlaces
<1>h. HttpTypeOK /\ SweepEmpty /\ (Spawning => cpc = "off")
  BY DEF LifeInv
<1>u. OneCaller /\ Places /\ Drained
  BY DEF LifeInv
<1>1. CASE Start
  <2>1. AtRest
    BY <1>1, StartAtRest
  <2>2. /\ UNCHANGED <<queue, hpc, spc, srv, srvHandle, cmdHandle>> /\ running' /\ stopAsked' = "no"
        /\ xpc'["ext"] = "spawnServer" /\ \A t \in Callers \ {"ext"} : xpc'[t] = xpc[t]
    BY <1>1, <1>t DEF Start, Goto, handlerVars, stopVars
  <2>3. \A t \in Stoppers : spc[t] = "out"
    BY <2>1 DEF AtRest
  <2>4. srv = "off" /\ ~srvHandle /\ ~cmdHandle /\ \A h \in Handlers : ~Live(h)
    BY <2>1 DEF AtRest, Quiet
  <2>5. OneCaller'
    BY <1>t, <1>u, <2>2, <2>3 DEF OneCaller
  <2>. QED BY <2>2, <2>3, <2>4, <2>5 DEF UserInv, Places, Drained, Spawning, Live
<1>2. CASE UNCHANGED httpVars
  BY <1>u, <1>2 DEF UserInv, OneCaller, Places, Drained, AtRest, Quiet, Live, Spawning, httpVars,
     serverVars, vars, handlerVars, commandVars, stopVars
<1>. SUFFICES ASSUME ~Start, ~UNCHANGED httpVars PROVE UserInv'
  BY <1>1, <1>2
<1>r. ~AtRest
  BY <1>h, RestEnds
<1>p. xpc["ext"] = "out" => running
  BY <1>u, <1>r DEF Places
<1>3. CASE SpawnServer
  <2>1. /\ UNCHANGED <<queue, hpc, spc, stopAsked, cmdHandle, running>> /\ srv' = "spawned" /\ srvHandle'
        /\ xpc["ext"] = "spawnServer"
        /\ xpc'["ext"] = "spawnCommand" /\ \A t \in Callers \ {"ext"} : xpc'[t] = xpc[t]
    BY <1>3, <1>t DEF SpawnServer, Goto, vars, handlerVars, stopVars
  <2>2. srv = "off"
    BY <1>u, <2>1 DEF Places
  <2>3. OneCaller'
    BY <1>t, <1>u, <2>1, <2>2 DEF OneCaller
  <2>. QED BY <1>u, <2>1, <2>2, <2>3 DEF UserInv, Places, Drained, Spawning, Live
<1>4. CASE SpawnCommand
  <2>1. /\ UNCHANGED <<queue, hpc, spc, stopAsked, srv, srvHandle, running>> /\ cmdHandle'
        /\ xpc["ext"] = "spawnCommand"
        /\ xpc'["ext"] = "out" /\ \A t \in Callers \ {"ext"} : xpc'[t] = xpc[t]
    BY <1>4, <1>t DEF SpawnCommand, Goto, handlerVars, stopVars
  <2>2. OneCaller'
    BY <1>t, <1>u, <2>1 DEF OneCaller
  <2>. QED BY <1>u, <2>1, <2>2 DEF UserInv, Places, Drained, Spawning, Live
<1>5. ASSUME NEW h \in Handlers, NEW r \in Requests, Call(h, r) PROVE UserInv'
  <2>1. UNCHANGED <<running, queue, spc, stopAsked, srv, srvHandle, cmdHandle, xpc>> /\ srv = "listen"
    BY <1>5 DEF Call, Enter, stopVars, serverVars
  <2>. QED BY <1>u, <1>p, <2>1 DEF UserInv, OneCaller, Places, Drained, Spawning
<1>6. ASSUME NEW r \in Requests, Refused(r) PROVE UserInv'
  <2>1. UNCHANGED <<running, queue, hpc, spc, stopAsked, srv, srvHandle, cmdHandle, xpc>>
    <3>1. Refuse(r) => UNCHANGED <<running, queue, hpc, spc>>
      BY Zenon DEF Refuse, stopVars
    <3>. QED BY <1>6, <3>1 DEF Refused, serverVars
  <2>. QED BY <1>u, <1>p, <2>1 DEF UserInv, OneCaller, Places, Drained, Spawning, Live
<1>l. CASE Listens
  <2>1. /\ UNCHANGED <<running, queue, hpc, spc, stopAsked, srvHandle, cmdHandle, xpc>>
        /\ srv = "spawned" /\ srv' = "listen"
    BY <1>l DEF Listens, vars, handlerVars, stopVars
  <2>2. OneCaller'
    BY <1>u, <2>1 DEF OneCaller
  <2>. QED BY <1>u, <1>p, <2>1, <2>2 DEF UserInv, Places, Drained, Spawning, Live
<1>7. CASE ListenReturns
  <2>1. /\ UNCHANGED <<running, queue, hpc, spc, stopAsked, srvHandle, cmdHandle, xpc>>
        /\ srv = "listen" /\ srv' = "returned" /\ stopAsked = "yes" /\ \A h \in Handlers : ~Live(h)
    BY <1>7 DEF ListenReturns, vars, handlerVars, stopVars
  <2>2. OneCaller'
    BY <1>u, <2>1 DEF OneCaller
  <2>. QED BY <1>u, <1>p, <2>1, <2>2 DEF UserInv, Places, Drained, Spawning, Live
<1>8. CASE ServerClear
  <2>1. /\ UNCHANGED <<queue, hpc, stopAsked, srvHandle, cmdHandle, xpc>> /\ ~running'
        /\ srv = "returned" /\ srv' = "sweep"
        /\ spc'["server"] = "swap" /\ \A t \in Stoppers \ {"server"} : spc'[t] = spc[t]
    BY <1>8, <1>t DEF ServerClear, BeginStop, handlerVars
  <2>2. OneCaller'
    BY <1>t, <1>u, <2>1 DEF OneCaller
  <2>. QED BY <1>u, <1>p, <2>1, <2>2 DEF UserInv, Places, Drained, Spawning, Live
<1>9. CASE ServerEnds
  <2>1. /\ UNCHANGED <<running, queue, hpc, stopAsked, srvHandle, cmdHandle, xpc>>
        /\ spc["server"] = "sweep" /\ srv' = "ended"
        /\ spc'["server"] = "out" /\ \A t \in Stoppers \ {"server"} : spc'[t] = spc[t]
    BY <1>9, <1>t DEF ServerEnds, EndSweep, handlerVars
  <2>2. OneCaller' /\ srv = "sweep"
    BY <1>t, <1>u, <2>1 DEF OneCaller
  <2>. QED BY <1>u, <1>p, <2>1, <2>2 DEF UserInv, Places, Drained, Spawning, Live
<1>10. ASSUME NEW t \in Shutdowns, PostShutdown(t) PROVE FALSE
  BY <1>10 DEF PostShutdown
<1>11. CASE AskStop("ext")
  <2>1. /\ UNCHANGED <<running, queue, hpc, spc, srv, srvHandle, cmdHandle>>
        /\ xpc["ext"] = "out" /\ running
        /\ xpc'["ext"] = "clear" /\ \A t \in Callers \ {"ext"} : xpc'[t] = xpc[t]
    BY <1>11, <1>t DEF AskStop, Goto, vars, handlerVars, stopVars
  <2>2. OneCaller'
    BY <1>t, <1>u, <2>1 DEF OneCaller
  <2>. QED BY <1>u, <2>1, <2>2 DEF UserInv, Places, Drained, Spawning, Live
<1>12. ASSUME NEW t \in Callers, StopCall(t) PROVE t = "ext" /\ ~AskStop(t)
  <2>1. ASSUME t # "ext" PROVE FALSE
    <3>1. xpc[t] = "out"
      BY <1>u, <2>1 DEF OneCaller
    <3>. QED BY <1>12, <1>t, <2>1, <3>1
             DEF StopCall, AskStop, StopsServer, Clear, SweepEnds, JoinServer, ServerJoined,
                 JoinCommand, CommandJoined, Goto
  <2>2. ASSUME t = "ext", AskStop(t) PROVE FALSE
    BY <1>12, <1>t, <2>2 DEF StopCall, AskStop, Clear, SweepEnds, JoinServer, ServerJoined,
       JoinCommand, CommandJoined, Goto
  <2>. QED BY <2>1, <2>2
<1>13. CASE Clear("ext")
  <2>1. /\ UNCHANGED <<queue, hpc, srv, stopAsked, srvHandle, cmdHandle>> /\ ~running'
        /\ spc'["ext"] = "swap" /\ \A t \in Stoppers \ {"ext"} : spc'[t] = spc[t]
        /\ xpc["ext"] = "clear"
        /\ xpc'["ext"] = "sweep" /\ \A t \in Callers \ {"ext"} : xpc'[t] = xpc[t]
    BY <1>13, <1>t DEF Clear, BeginStop, Goto, handlerVars
  <2>2. OneCaller'
    BY <1>t, <1>u, <2>1 DEF OneCaller
  <2>. QED BY <1>u, <2>1, <2>2, <1>t DEF UserInv, Places, Drained, Spawning, Live
<1>14. CASE SweepEnds("ext")
  <2>1. /\ UNCHANGED <<running, queue, hpc, srv, stopAsked, srvHandle, cmdHandle>>
        /\ spc'["ext"] = "out" /\ \A t \in Stoppers \ {"ext"} : spc'[t] = spc[t]
        /\ xpc["ext"] = "sweep"
        /\ xpc'["ext"] = "joinServer" /\ \A t \in Callers \ {"ext"} : xpc'[t] = xpc[t]
    BY <1>14, <1>t DEF SweepEnds, EndSweep, Goto, handlerVars
  <2>2. OneCaller'
    BY <1>t, <1>u, <2>1 DEF OneCaller
  <2>. QED BY <1>u, <2>1, <2>2, <1>t DEF UserInv, Places, Drained, Spawning, Live
<1>15. CASE JoinServer("ext")
  <2>1. /\ UNCHANGED <<running, queue, hpc, spc, srv, stopAsked, srvHandle, cmdHandle>>
        /\ xpc["ext"] = "joinServer" /\ xpc'["ext"] = IF srvHandle THEN "inServerJoin" ELSE "joinCommand"
        /\ \A t \in Callers \ {"ext"} : xpc'[t] = xpc[t]
    BY <1>15, <1>t DEF JoinServer, Goto, vars, handlerVars, stopVars
  <2>2. srvHandle
    BY <1>u, <2>1 DEF Places
  <2>3. OneCaller'
    BY <1>t, <1>u, <2>1, <2>2 DEF OneCaller
  <2>. QED BY <1>u, <2>1, <2>2, <2>3 DEF UserInv, Places, Drained, Spawning, Live
<1>16. CASE ServerJoined("ext")
  <2>1. /\ UNCHANGED <<running, queue, hpc, spc, stopAsked, cmdHandle>> /\ srv' = "off" /\ ~srvHandle'
        /\ xpc["ext"] = "inServerJoin" /\ xpc'["ext"] = "joinCommand" /\ srv \in {"ended", "off"}
        /\ \A t \in Callers \ {"ext"} : xpc'[t] = xpc[t]
    BY <1>16, <1>t DEF ServerJoined, Goto, vars, handlerVars, stopVars
  <2>2. srv = "ended" /\ cmdHandle /\ ~running
    BY <1>u, <2>1 DEF Places
  <2>3. OneCaller'
    BY <1>t, <1>u, <2>1, <2>2 DEF OneCaller
  <2>. QED BY <1>u, <2>1, <2>2, <2>3 DEF UserInv, Places, Drained, Spawning, Live
<1>17. CASE JoinCommand("ext")
  <2>1. /\ UNCHANGED <<running, queue, hpc, spc, srv, stopAsked, srvHandle, cmdHandle>>
        /\ xpc["ext"] = "joinCommand"
        /\ cmdHandle => xpc'["ext"] = "inCommandJoin"
        /\ \A t \in Callers \ {"ext"} : xpc'[t] = xpc[t]
    BY <1>17, <1>t DEF JoinCommand, Goto, vars, handlerVars, stopVars
  <2>2. cmdHandle
    BY <1>u, <2>1 DEF Places
  <2>3. OneCaller'
    <3>1. OneCaller
      BY <1>u
    <3>2. \A t \in Callers \ {"ext"} : xpc'[t] = "out"
      BY <2>1, <3>1 DEF OneCaller
    <3>3. xpc'["ext"] = "inCommandJoin" /\ spc' = spc /\ srv' = srv
      BY <2>1, <2>2
    <3>4. spc["ext"] = "out"
      BY <2>1, <3>1 DEF OneCaller
    <3>. QED BY <3>1, <3>2, <3>3, <3>4 DEF OneCaller
  <2>. QED BY <1>u, <2>1, <2>2, <2>3 DEF UserInv, Places, Drained, Spawning, Live
<1>18. CASE CommandJoined("ext")
  <2>1. /\ UNCHANGED <<running, queue, hpc, spc, swept, cpc, srv, stopAsked, srvHandle>> /\ ~cmdHandle'
        /\ xpc["ext"] = "inCommandJoin" /\ xpc'["ext"] = "out" /\ cpc = "off"
        /\ \A t \in Callers \ {"ext"} : xpc'[t] = xpc[t]
    BY <1>18, <1>t DEF CommandJoined, Goto, vars, handlerVars, commandVars, stopVars
  <2>2. ~running /\ srv = "off" /\ ~srvHandle
    BY <1>u, <2>1 DEF Places
  <2>3. queue = <<>> /\ \A h \in Handlers : ~Live(h)
    BY <1>u, <2>1 DEF Drained
  <2>4. OneCaller' /\ \A t \in Stoppers : spc[t] = "out"
    BY <1>t, <1>u, <2>1, <2>2 DEF OneCaller
  <2>5. \A t \in Stoppers : swept[t] = <<>>
    BY <1>h, <2>4 DEF SweepEmpty
  <2>6. \A t \in Callers : xpc'[t] = "out"
    BY <2>1, <2>4 DEF OneCaller
  <2>7. AtRest'
    BY <2>1, <2>2, <2>3, <2>4, <2>5, <2>6 DEF AtRest, Quiet, Live
  <2>. QED BY <1>u, <2>1, <2>2, <2>3, <2>4, <2>7 DEF UserInv, Places, Drained, Spawning, Live
<1>19. CASE FinishHttp
  <2>1. /\ UNCHANGED <<running, queue, hpc, spc, srv, stopAsked, srvHandle, cmdHandle>>
        /\ xpc' = [xpc EXCEPT !["command"] = "out"]
    BY <1>19 DEF FinishHttp, Finish, stopVars
  <2>2. xpc'["ext"] = xpc["ext"] /\ \A t \in Callers \ {"ext"} : xpc'[t] = "out"
    BY <1>t, <1>u, <2>1 DEF OneCaller
  <2>3. OneCaller'
    BY <1>t, <1>u, <2>1, <2>2 DEF OneCaller
  <2>. QED BY <1>u, <1>p, <2>1, <2>2, <2>3 DEF UserInv, Places, Drained, Spawning, Live
<1>20. ASSUME NEW h \in Handlers, HandlerStep(h) \/ SpuriousWakeup(h), UNCHANGED serverVars
       PROVE  UserInv'
  <2>1. UNCHANGED <<running, spc, srv, stopAsked, srvHandle, cmdHandle, xpc>>
    BY <1>20 DEF HandlerStep, Push, Check, Leave, SpuriousWakeup, stopVars, serverVars
  <2>2. Live(h) /\ \A g \in Handlers \ {h} : hpc'[g] = hpc[g]
    BY <1>20, <1>t DEF HandlerStep, Push, Check, Leave, SpuriousWakeup, Live
  <2>. QED BY <1>u, <1>p, <2>1, <2>2 DEF UserInv, OneCaller, Places, Drained, Spawning, Live
<1>21. ASSUME LoopTest \/ PopNothing \/ Pop \/ Begin \/ Complete \/ Notify, UNCHANGED serverVars
       PROVE  UserInv'
  <2>1. UNCHANGED <<running, spc, srv, stopAsked, srvHandle, cmdHandle, xpc>>
    BY <1>21 DEF LoopTest, PopNothing, Pop, Begin, Complete, Notify, stopVars, serverVars
  <2>2. queue = <<>> => queue' = <<>>
    BY <1>21 DEF LoopTest, PopNothing, Pop, Begin, Complete, Notify
  <2>3. \A h \in Handlers : hpc[h] = "idle" => hpc'[h] = "idle"
    BY <1>21, <1>t DEF LoopTest, PopNothing, Pop, Begin, Complete, Notify, Notified, handlerVars
  <2>. QED BY <1>u, <1>p, <2>1, <2>2, <2>3 DEF UserInv, OneCaller, Places, Drained, Spawning, Live
<1>22. ASSUME NEW t \in Stoppers, Swap(t) \/ SweepOne(t) \/ NotifySwept(t), UNCHANGED serverVars
       PROVE  UserInv'
  <2>1. /\ UNCHANGED <<running, srv, stopAsked, srvHandle, cmdHandle, xpc>>
        /\ spc[t] # "out" /\ spc'[t] \notin {"out", "swap"}
        /\ \A u \in Stoppers \ {t} : spc'[u] = spc[u]
    BY <1>22, <1>t DEF Swap, SweepOne, NotifySwept, serverVars
  <2>2. /\ queue = <<>> => queue' = <<>>
        /\ spc[t] = "swap" => queue' = <<>>
    BY <1>22 DEF Swap, SweepOne, NotifySwept
  <2>3. \A h \in Handlers : hpc[h] = "idle" => hpc'[h] = "idle"
    BY <1>22, <1>t DEF Swap, SweepOne, NotifySwept, Notified, handlerVars
  <2>4. OneCaller'
    BY <1>t, <1>u, <2>1 DEF OneCaller
  <2>. QED BY <1>u, <1>p, <1>t, <2>1, <2>2, <2>3, <2>4 DEF UserInv, Places, Drained, Spawning, Live
<1>. QED
  BY <1>3, <1>4, <1>5, <1>6, <1>7, <1>8, <1>9, <1>10, <1>11, <1>12, <1>13, <1>14, <1>15, <1>16,
     <1>17, <1>18, <1>19, <1>20, <1>21, <1>22, <1>l
     DEF HttpNext, StopCall, QueueStep

(* At first the server is at rest.                                           *)
LEMMA LifeInit == HttpInit => LifeInv
<1>. SUFFICES ASSUME HttpInit PROVE LifeInv
  OBVIOUS
<1>1. HttpTypeOK
  BY HttpTypeInit
<1>2. /\ ~running /\ cpc = "off" /\ queue = <<>>
      /\ \A h \in Handlers : hpc[h] = "idle"
      /\ \A t \in Stoppers : swept[t] = <<>> /\ spc[t] = "out"
  BY DEF HttpInit, Init
<1>3. srv = "off" /\ ~srvHandle /\ ~cmdHandle /\ \A t \in Callers : xpc[t] = "out"
  BY DEF HttpInit
<1>4. AtRest
  BY <1>2, <1>3 DEF AtRest, Quiet, Live
<1>5. "ext" \in Callers /\ Stoppers = Callers \cup {"server"}
  BY StopperNames DEF Callers
<1>6. xpc["ext"] = "out"
  BY <1>3, <1>5
<1>7. OneCaller
  BY <1>2, <1>3, <1>5, <1>6 DEF OneCaller
<1>8. Places
  BY <1>2, <1>4, <1>6 DEF Places, Spawning
<1>9. Drained
  BY <1>2, <1>3, <1>6 DEF Drained, Live
<1>. QED BY <1>1, <1>2, <1>4, <1>6, <1>7, <1>8, <1>9 DEF LifeInv, SweepEmpty, Spawning

(* Every step keeps the life of the server in order.                         *)
LEMMA LifeStep ==
  ASSUME Restarts \subseteq {{"user"}}
  PROVE  LifeInv /\ [HttpNext]_httpVars => LifeInv'
<1>. SUFFICES ASSUME LifeInv, [HttpNext]_httpVars PROVE LifeInv'
  OBVIOUS
<1>1. HttpTypeOK' /\ SweepEmpty'
  BY HttpTypeStep, SweepStep DEF LifeInv
<1>2. (Spawning => cpc = "off")'
  BY SpawnStep
<1>3. endings' = endings
  BY EndingsFixed
<1>4. ASSUME endings = {"user"} PROVE (OneCaller /\ Places /\ Drained)'
  BY <1>4, UserStep DEF UserInv
<1>5. ASSUME sessions' = 0 PROVE AtRest'
  <2>1. ~Start /\ sessions = 0
    BY <1>5, SessionsGrow DEF LifeInv
  <2>2. AtRest /\ HttpTypeOK
    BY <2>1 DEF LifeInv
  <2>3. UNCHANGED httpVars
    BY <2>1, <2>2, RestEnds
  <2>. QED BY <2>2, <2>3 DEF AtRest, Quiet, Live, httpVars, serverVars, vars, handlerVars,
           commandVars, stopVars
<1>. QED BY <1>1, <1>2, <1>3, <1>4, <1>5 DEF LifeInv

(* In every state the life of the server is in order, if only a server that  *)
(* the user alone stops is started again.                                    *)
LEMMA LifeHolds ==
  ASSUME Restarts \subseteq {{"user"}}
  PROVE  HttpSafety => []LifeInv
<1>. QED BY LifeInit, LifeStep, PTL DEF HttpSafety

-----------------------------------------------------------------------------
(* The queue of HttpServer behaves as CommandQueue says: Start is Open, and a *)
(* command thread that is still to be created is one that has not looked at  *)
(* running_ yet.                                                             *)

Seen == IF xpc["ext"] \in {"spawnServer", "spawnCommand"} THEN "test" ELSE cpc

(* The steps of handlers and stopping threads, which the command thread does *)
(* not see, are those of the queue.                                          *)
LEMMA OthersMap ==
  ASSUME UNCHANGED Seen
  PROVE  /\ \A r \in Requests : Refuse(r) => Queue!Refuse(r)
         /\ \A h \in Handlers, r \in Requests : Enter(h, r) => Queue!Enter(h, r)
         /\ \A h \in Handlers :
              /\ HandlerStep(h) => Queue!HandlerStep(h)
              /\ SpuriousWakeup(h) => Queue!SpuriousWakeup(h)
         /\ \A t \in Stoppers : BeginStop(t) \/ StopStep(t) => Queue!BeginStop(t) \/ Queue!StopStep(t)
<1>v. /\ UNCHANGED commandVars => UNCHANGED Queue!commandVars
      /\ UNCHANGED stopVars <=> UNCHANGED Queue!stopVars
      /\ UNCHANGED handlerVars <=> UNCHANGED Queue!handlerVars
  BY DEF commandVars, stopVars, handlerVars, Queue!commandVars, Queue!stopVars, Queue!handlerVars, Seen
<1>1. ASSUME NEW r \in Requests, Refuse(r) PROVE Queue!Refuse(r)
  BY <1>1, <1>v, Zenon DEF Refuse, Queue!Refuse, Fresh, Queue!Fresh, Live, Queue!Live, NoAnswer,
     Queue!NoAnswer, Reply, Queue!Reply
<1>2. ASSUME NEW h \in Handlers, NEW r \in Requests, Enter(h, r) PROVE Queue!Enter(h, r)
  BY <1>2, <1>v DEF Enter, Queue!Enter, Fresh, Queue!Fresh, Live, Queue!Live, NoAnswer,
     Queue!NoAnswer, Reply, Queue!Reply
<1>3. ASSUME NEW h \in Handlers, HandlerStep(h) PROVE Queue!HandlerStep(h)
  <2>1. Push(h) => Queue!Push(h)
    BY <1>v DEF Push, Queue!Push
  <2>2. Check(h) => Queue!Check(h)
    BY <1>v DEF Check, Queue!Check
  <2>3. Leave(h) => Queue!Leave(h)
    BY <1>v DEF Leave, Queue!Leave, Reply, Queue!Reply
  <2>. QED BY <1>3, <2>1, <2>2, <2>3 DEF HandlerStep, Queue!HandlerStep
<1>4. ASSUME NEW h \in Handlers, SpuriousWakeup(h) PROVE Queue!SpuriousWakeup(h)
  BY <1>4, <1>v DEF SpuriousWakeup, Queue!SpuriousWakeup
<1>5. ASSUME NEW t \in Stoppers, BeginStop(t) \/ StopStep(t)
      PROVE  Queue!BeginStop(t) \/ Queue!StopStep(t)
  <2>1. BeginStop(t) => Queue!BeginStop(t)
    BY <1>v DEF BeginStop, Queue!BeginStop
  <2>2. Swap(t) => Queue!Swap(t)
    BY <1>v DEF Swap, Queue!Swap
  <2>3. SweepOne(t) => Queue!SweepOne(t)
    BY <1>v, Zenon DEF SweepOne, Queue!SweepOne
  <2>4. NotifySwept(t) => Queue!NotifySwept(t)
    BY <1>v DEF NotifySwept, Queue!NotifySwept, Notified, Queue!Notified
  <2>5. EndSweep(t) => Queue!EndSweep(t)
    BY <1>v DEF EndSweep, Queue!EndSweep
  <2>. QED BY <1>5, <2>1, <2>2, <2>3, <2>4, <2>5 DEF StopStep, Queue!StopStep
<1>. QED BY <1>1, <1>2, <1>3, <1>4, <1>5

(* So are the steps of a command thread that exists.                         *)
LEMMA CommandMaps ==
  ASSUME Seen = cpc, Seen' = cpc'
  PROVE  CommandStep => Queue!CommandStep
<1>v. /\ UNCHANGED stopVars <=> UNCHANGED Queue!stopVars
      /\ UNCHANGED handlerVars <=> UNCHANGED Queue!handlerVars
  BY DEF stopVars, handlerVars, Queue!stopVars, Queue!handlerVars
<1>1. LoopTest => Queue!LoopTest
  BY <1>v DEF LoopTest, Queue!LoopTest, Seen
<1>2. PopNothing => Queue!PopNothing
  BY <1>v DEF PopNothing, Queue!PopNothing, Seen
<1>3. Pop => Queue!Pop
  BY <1>v DEF Pop, Queue!Pop, Seen
<1>4. Begin => Queue!Begin
  BY <1>v DEF Begin, Queue!Begin, Live, Queue!Live, Seen
<1>5. Finish => Queue!Finish
  BY <1>v DEF Finish, Queue!Finish, Seen
<1>6. Complete => Queue!Complete
  BY <1>v DEF Complete, Queue!Complete, Seen
<1>7. Notify => Queue!Notify
  BY <1>v DEF Notify, Queue!Notify, Notified, Queue!Notified, Seen
<1>. QED BY <1>1, <1>2, <1>3, <1>4, <1>5, <1>6, <1>7 DEF CommandStep, Queue!CommandStep

(* From inside start() the extension thread only goes on with it.            *)
LEMMA SpawnGoesOn ==
  ASSUME HttpTypeOK, [HttpNext]_httpVars, Spawning
  PROVE  Spawning' \/ SpawnCommand
<1>x. /\ xpc \in [Callers -> CallerPlaces]
      /\ "ext" \in Callers /\ "command" \in Callers /\ Shutdowns \subseteq Callers
  BY DEF HttpTypeOK, Callers, CallerPlaces
<1>1. ASSUME NEW t \in Callers, AskStop(t) \/ StopCall(t) PROVE Spawning'
  BY <1>x, <1>1 DEF StopCall, AskStop, Clear, SweepEnds, JoinServer, ServerJoined, JoinCommand,
     CommandJoined, Goto, Spawning
<1>2. ASSUME NEW t \in Shutdowns, PostShutdown(t) PROVE Spawning'
  BY <1>x, <1>2 DEF PostShutdown, Goto, Spawning
<1>3. CASE SpawnServer \/ Start
  BY <1>x, <1>3 DEF SpawnServer, Start, Goto, Spawning
<1>4. CASE FinishHttp
  BY <1>x, <1>4 DEF FinishHttp, Spawning
<1>5. CASE \/ Listens \/ ListenReturns \/ ServerClear \/ ServerEnds \/ QueueStep \/ UNCHANGED httpVars
           \/ \E h \in Handlers, r \in Requests : Call(h, r)
           \/ \E r \in Requests : Refused(r)
  BY <1>5 DEF Listens, ListenReturns, ServerClear, ServerEnds, QueueStep, httpVars, Call, Refused,
     serverVars, Spawning
<1>. QED BY <1>x, <1>1, <1>2, <1>3, <1>4, <1>5 DEF HttpNext

(* At first the queue is as CommandQueue has it.                             *)
LEMMA QueueInit == HttpInit => Queue!Init
<1>. SUFFICES ASSUME HttpInit PROVE Queue!Init
  OBVIOUS
<1>1. Seen = "off"
  BY DEF HttpInit, Init, Seen, Callers
<1>. QED BY <1>1, Zenon DEF HttpInit, Init, Queue!Init, NoAnswer, Queue!NoAnswer, Reply,
         Queue!Reply, Seen

(* Every step of the server is a step of the queue or leaves it alone.       *)
LEMMA QueueMaps ==
  ASSUME Restarts \subseteq {{"user"}}
  PROVE  LifeInv /\ [HttpNext]_httpVars => [Queue!Next]_(Queue!vars)
<1>. SUFFICES ASSUME LifeInv, [HttpNext]_httpVars PROVE [Queue!Next]_(Queue!vars)
  OBVIOUS
<1>t. HttpTypeOK /\ (Spawning => cpc = "off")
  BY DEF LifeInv
<1>x. /\ xpc \in [Callers -> CallerPlaces]
      /\ "ext" \in Callers
  BY <1>t DEF HttpTypeOK, Callers, CallerPlaces
<1>1. CASE Start
  <2>1. /\ Seen = "off" /\ Seen' = "test"
    BY <1>1, <1>x, StartAtRest DEF Start, Goto, Seen, AtRest, Quiet
  <2>2. Quiet
    BY <1>1, StartAtRest DEF AtRest
  <2>3. Queue!Quiet
    BY <2>1, <2>2 DEF Quiet, Queue!Quiet, Live, Queue!Live, Seen
  <2>4. Queue!Open
    BY <1>1, <2>1, <2>3 DEF Start, Queue!Open, Seen, handlerVars, commandVars, stopVars,
       Queue!handlerVars, Queue!stopVars
  <2>. QED BY <2>4 DEF Queue!Next
<1>2. CASE SpawnCommand
  <2>1. Seen = "test" /\ Seen' = "test"
    BY <1>2, <1>x DEF SpawnCommand, Goto, Seen
  <2>. QED BY <1>2, <2>1 DEF SpawnCommand, Queue!vars, Seen, handlerVars, stopVars,
           Queue!handlerVars, Queue!commandVars, Queue!stopVars
<1>3. ASSUME ~Start, ~SpawnCommand, QueueMove PROVE [Queue!Next]_(Queue!vars)
  <2>1. Spawning <=> Spawning'
    BY <1>t, <1>3, SpawnFrom, SpawnGoesOn
  <2>2. \/ Spawning /\ Spawning' /\ Seen = "test" /\ Seen' = "test" /\ cpc = "off" /\ cpc' = "off"
        \/ ~Spawning /\ ~Spawning' /\ Seen = cpc /\ Seen' = cpc'
    BY <1>t, <1>3, <2>1 DEF QueueMove, Spawning, Seen
  <2>3. UNCHANGED cpc => UNCHANGED Seen
    BY <2>2
  <2>4. ASSUME UNCHANGED vars PROVE UNCHANGED Queue!vars
    BY <2>3, <2>4 DEF vars, Queue!vars, handlerVars, commandVars, stopVars, Queue!handlerVars,
       Queue!commandVars, Queue!stopVars, Seen
  <2>5. ASSUME CommandStep PROVE Queue!CommandStep
    <3>1. cpc # "off"
      BY <2>5 DEF CommandStep, LoopTest, PopNothing, Pop, Begin, Finish, Complete, Notify
    <3>. QED BY <2>2, <2>5, <3>1, CommandMaps
  <2>6. ASSUME Open PROVE Queue!Open
    <3>1. Seen = cpc /\ Seen' = cpc'
      BY <2>2, <2>6 DEF Open, Quiet
    <3>2. Queue!Quiet
      BY <2>6, <3>1 DEF Open, Quiet, Queue!Quiet, Live, Queue!Live, Seen
    <3>. QED BY <2>6, <3>1, <3>2 DEF Open, Queue!Open, Seen, handlerVars, stopVars,
             Queue!handlerVars, Queue!stopVars
  <2>7. ASSUME NEW r \in Requests, Refuse(r) PROVE Queue!Next
    <3>1. UNCHANGED cpc
      BY <2>7, Zenon DEF Refuse, commandVars
    <3>. QED BY <2>3, <2>7, <3>1, OthersMap DEF Queue!Next
  <2>8. ASSUME NEW h \in Handlers, NEW r \in Requests, Enter(h, r) PROVE Queue!Next
    <3>1. UNCHANGED cpc
      BY <2>8 DEF Enter, commandVars
    <3>. QED BY <2>3, <2>8, <3>1, OthersMap DEF Queue!Next
  <2>9. ASSUME NEW h \in Handlers, HandlerStep(h) \/ SpuriousWakeup(h) PROVE Queue!Next
    <3>1. UNCHANGED cpc
      BY <2>9 DEF HandlerStep, Push, Check, Leave, SpuriousWakeup, commandVars
    <3>. QED BY <2>3, <2>9, <3>1, OthersMap DEF Queue!Next
  <2>10. ASSUME NEW t \in Stoppers, BeginStop(t) \/ StopStep(t) PROVE Queue!Next
    <3>1. UNCHANGED cpc
      BY <2>10 DEF BeginStop, StopStep, Swap, SweepOne, NotifySwept, EndSweep, commandVars
    <3>. QED BY <2>3, <2>10, <3>1, OthersMap DEF Queue!Next
  <2>. QED BY <1>3, <2>4, <2>5, <2>6, <2>7, <2>8, <2>9, <2>10 DEF QueueMove, Next, Queue!Next
<1>. QED BY <1>1, <1>2, <1>3, QueueMoves

(* Around its queue the HTTP server does what CommandQueue assumes, session  *)
(* after session, if only a server that the user alone stops is started      *)
(* again.                                                                    *)
THEOREM HttpImplementsQueue ==
  ASSUME Restarts \subseteq {{"user"}}
  PROVE  HttpSafety => QueueSpec
<1>. QED BY LifeInit, LifeStep, QueueInit, QueueMaps, PTL DEF HttpSafety, QueueSpec, Queue!Safety

-----------------------------------------------------------------------------
(* What is proved of the queue holds in the server.                          *)

(* start() and the creation of the command thread keep what OwnInv and       *)
(* AnswerInv say.                                                            *)
LEMMA StartKeeps ==
  ASSUME LifeInv, Restarts \subseteq {{"user"}}, OwnInv, AnswerInv, [HttpNext]_httpVars,
         Start \/ SpawnCommand
  PROVE  OwnInv' /\ AnswerInv'
<1>1. /\ UNCHANGED <<queue, slot, hpc, answer, cmd, job, ran, swept>>
      /\ cpc = "off" /\ cpc' \in {"off", "test"}
  <2>1. cpc = "off"
    BY StartAtRest DEF LifeInv, AtRest, Quiet, SpawnCommand, Goto, Spawning
  <2>. QED BY <2>1 DEF Start, SpawnCommand, handlerVars, commandVars, stopVars
<1>2. InHand = {} /\ InHand' = {}
  BY <1>1 DEF InHand
<1>3. TypeOK'
  BY HttpTypeStep DEF LifeInv, HttpTypeOK
<1>4. ExclusiveOwnership' /\ \A h \in Handlers : Owned(h)' = Owned(h)
  BY <1>1, <1>2, SameOwners DEF OwnInv
<1>5. \A h \in Handlers : Owned(h) /\ hpc[h] \in {"idle", "leave"} => ~running'
  <2>1. CASE Start
    <3>1. Quiet
      BY <2>1, StartAtRest DEF AtRest
    <3>2. \A h \in Handlers : ~Owned(h)
      BY <1>2, <3>1, EmptyRange DEF Quiet, Owned, Queued, SweptBy
    <3>. QED BY <3>2
  <2>2. CASE SpawnCommand
    BY <2>2 DEF SpawnCommand, OwnInv, FrameInv, StaleAfterStop
  <2>. QED BY <2>1, <2>2
<1>6. FrameInv'
  BY <1>1, <1>4, <1>5 DEF OwnInv, FrameInv, Unqueued, StaleAfterStop, CompletedFree, Live
<1>7. AnswerInv'
  <2>1. \A h \in Handlers : Live(h)' = Live(h) /\ (hpc'[h] = "push" => hpc[h] = "push")
    BY <1>1 DEF Live
  <2>. QED BY <1>1, <1>4, <2>1, SameAnswers
<1>. QED BY <1>3, <1>4, <1>6, <1>7 DEF OwnInv

(* Every step of the server is a step of the service or a stutter of it.     *)
LEMMA HttpServiceStep ==
  ASSUME Restarts \subseteq {{"user"}}
  PROVE  LifeInv /\ OwnInv /\ AnswerInv /\ [HttpNext]_httpVars =>
           OwnInv' /\ AnswerInv' /\ [Service!Next]_(Service!vars)
<1>. SUFFICES ASSUME LifeInv, OwnInv, AnswerInv, [HttpNext]_httpVars
              PROVE  OwnInv' /\ AnswerInv' /\ [Service!Next]_(Service!vars)
  OBVIOUS
<1>1. CASE QueueMove
  BY <1>1, OwnStep, AnswerStep, ServiceStep DEF QueueMove
<1>2. CASE Start \/ SpawnCommand
  <2>1. UNCHANGED <<answer, job, ran>>
    BY <1>2 DEF Start, SpawnCommand, handlerVars, commandVars
  <2>2. UNCHANGED Service!vars
    BY <2>1 DEF Service!vars, Exec
  <2>. QED BY <1>2, <2>2, StartKeeps
<1>. QED BY <1>1, <1>2, QueueMoves

(* A client of the HTTP server may rely on ExecService, session after        *)
(* session: one command at a time, each at most once, and none after it was  *)
(* refused or swept.                                                         *)
THEOREM HttpImplementsService ==
  ASSUME Restarts \subseteq {{"user"}}
  PROVE  HttpSafety => ServiceSpec
<1>1. HttpInit => Init
  BY DEF HttpInit
<1>. QED BY <1>1, LifeInit, LifeStep, OwnInit, AnswerInit, ServiceInit, HttpServiceStep, PTL
         DEF HttpSafety, ServiceSpec, Service!Spec

(* The output that a client of the HTTP server is given is that of its own   *)
(* command, run to its end, session after session.                           *)
THEOREM HttpOwnAnswer ==
  ASSUME Restarts \subseteq {{"user"}}
  PROVE  HttpSafety => []OwnAnswer
<1>1. HttpInit => Init
  BY DEF HttpInit
<1>2. AnswerInv => OwnAnswer
  BY DEF AnswerInv
<1>. QED BY <1>1, <1>2, LifeInit, LifeStep, OwnInit, AnswerInit, HttpServiceStep, PTL
         DEF HttpSafety

(* In the server, too, every queued command has one owner, session after     *)
(* session.                                                                  *)
THEOREM HttpExclusiveOwnership ==
  ASSUME Restarts \subseteq {{"user"}}
  PROVE  HttpSafety => []ExclusiveOwnership
<1>1. HttpInit => Init
  BY DEF HttpInit
<1>2. OwnInv => ExclusiveOwnership
  BY DEF OwnInv
<1>. QED BY <1>1, <1>2, LifeInit, LifeStep, OwnInit, AnswerInit, HttpServiceStep, PTL
         DEF HttpSafety

(* A server that runs has a command thread, or start() is about to create it *)
Served == running => cpc # "off" \/ Spawning

(* Neither start() nor the creation of the command thread leaves anybody     *)
(* unattended who was not.                                                   *)
LEMMA WakeKept ==
  ASSUME LifeInv, WakeInv, Served, Restarts \subseteq {{"user"}}, [HttpNext]_httpVars
  PROVE  WakeInv' /\ Served'
<1>1. CASE Start \/ SpawnCommand
  <2>1. cpc = "off"
    BY <1>1, StartAtRest DEF LifeInv, AtRest, Quiet, SpawnCommand, Goto, Spawning
  <2>2. /\ UNCHANGED <<queue, slot, hpc, swept, spc, note, cmd>>
        /\ running => running'
        /\ cpc' \in {"off", "test"}
    BY <1>1, <2>1 DEF Start, SpawnCommand, handlerVars, commandVars, stopVars
  <2>3. /\ InHand = {} /\ InHand' = {} /\ Queued' = Queued
        /\ \A t \in Stoppers : SweptBy(t)' = SweptBy(t)
    BY <2>1, <2>2 DEF InHand, Queued, SweptBy
  <2>4. WakeInv'
    <3>1. TypeOK'
      BY HttpTypeStep DEF LifeInv, HttpTypeOK
    <3>2. \A h \in Handlers : (Waiting(h) => Waiting(h)') /\ (Attended(h) => Attended(h)')
      BY <2>1, <2>2, <2>3 DEF Waiting, Owned, Attended
    <3>. QED BY <2>2, <3>1, <3>2 DEF WakeInv, StopperInv
  <2>5. Served'
    <3>1. xpc \in [Callers -> CallerPlaces] /\ "ext" \in Callers
      BY DEF LifeInv, HttpTypeOK, CallerPlaces, Callers
    <3>. QED BY <1>1, <3>1 DEF Start, SpawnCommand, Goto, Served, Spawning
  <2>. QED BY <2>4, <2>5
<1>2. CASE QueueMove /\ ~SpawnCommand
  <2>1. WakeInv'
    BY <1>2, WakeStep DEF QueueMove
  <2>2. running' /\ cpc' = "off" => running /\ cpc = "off"
    BY <1>2, ServedKept DEF QueueMove
  <2>3. Spawning => Spawning'
    BY <1>2, SpawnGoesOn DEF LifeInv
  <2>. QED BY <2>1, <2>2, <2>3 DEF Served
<1>. QED BY <1>1, <1>2, QueueMoves

(* No wakeup is lost in the server either: whatever start() and stop() do, a *)
(* handler that is blocked has its command with somebody who will complete   *)
(* it, or its notification is still to come, session after session.          *)
THEOREM HttpNoLostWakeup ==
  ASSUME Restarts \subseteq {{"user"}}
  PROVE  HttpSafety => []WakeupsKept
<1>1. HttpInit => WakeInv /\ Served
  BY WakeInit DEF HttpInit, Init, Served
<1>2. ASSUME LifeInv, WakeInv, Served PROVE WakeupsKept
  <2>1. /\ Queue!Queued = Queued /\ \A t \in Stoppers : Queue!SweptBy(t) = SweptBy(t)
        /\ Queue!InHand = InHand
    <3>1. Queue!Queued = Queued /\ \A t \in Stoppers : Queue!SweptBy(t) = SweptBy(t)
      BY DEF Queue!Queued, Queued, Queue!SweptBy, SweptBy, Range, Queue!Range
    <3>2. Queue!InHand = InHand
      BY <1>2 DEF LifeInv, Spawning, Queue!InHand, InHand
    <3>. QED BY <3>1, <3>2
  <2>2. \A h \in Handlers : hpc[h] = "blocked" => Attended(h)
    BY <1>2 DEF WakeInv
  <2>3. running => Seen # "off"
    BY <1>2 DEF Served, Spawning, Seen
  <2>4. cpc = "notify" => Seen = "notify"
    BY <1>2 DEF LifeInv, Spawning, Seen
  <2>. QED BY <2>1, <2>2, <2>3, <2>4 DEF Attended, WakeupsKept, Queue!NoLostWakeup, Seen
<1>. QED BY <1>1, <1>2, LifeInit, LifeStep, WakeKept, PTL DEF HttpSafety

-----------------------------------------------------------------------------
(* A session that not the user alone may end: a client, POST /shutdown, or   *)
(* listen itself, in any combination.  There is one such session.            *)

Joining   == {"sweep", "joinServer", "inServerJoin"}
Joined    == {"joinCommand", "inCommandJoin", "thrown"}
Returned  == {"returned", "sweep", "ended"}

(* Before start() has created the server thread nobody can call it.          *)
NotYetSpawned ==
  /\ running /\ stopAsked = "no" /\ srv = "off" /\ ~srvHandle /\ queue = <<>>
  /\ \A h \in Handlers : ~Live(h)
  /\ \A t \in Callers \ {"ext"} : xpc[t] = "out"

(* Afterwards whoever stops it finds the server thread, or has it behind.    *)
Spawned ==
  /\ srvHandle <=> srv # "off"
  /\ (\E t \in Callers : xpc[t] \in Joined) => srv = "off"
  /\ ~running => srv \in {"off", "sweep", "ended"} \/ \E t \in Callers : xpc[t] \in Joining
  /\ stopAsked # "no" => srv = "off" \/ \E t \in Callers : xpc[t] \in Joining \cup {"clear"}
  /\ srv \in Returned => stopAsked = "yes" \/ "accept error" \in endings
  /\ srv \in Returned \cup {"off", "spawned"} => \A h \in Handlers : ~Live(h)
  /\ srv \in {"off", "ended"} \/ (srv = "sweep" /\ spc["server"] # "swap") => queue = <<>>

Sweepers ==
  /\ spc["server"] # "out" <=> srv = "sweep"
  /\ \A t \in Callers : spc[t] # "out" => xpc[t] = "sweep"

(* The command thread is in stop() only inside a command that says so.       *)
InsideCommand == xpc["command"] # "out" => cpc = "exec" /\ StopsServer(job)

FirstInv ==
  sessions = 1 =>
    /\ Sweepers /\ InsideCommand
    /\ IF xpc["ext"] = "spawnServer" THEN NotYetSpawned ELSE Spawned

(* A thread that stops the server goes on, and comes past the join of the    *)
(* server thread only when there is none.                                    *)
Onward(t) ==
  /\ xpc'[t] \in Joined => xpc[t] \in Joined \/ srv = "off"
  /\ xpc[t] \in Joining => xpc'[t] \in Joining \/ srv = "off"
  /\ xpc[t] = "clear" => xpc'[t] \in Joining \cup {"clear"}

(* Steps that do not concern the server thread keep what is true of it.      *)
LEMMA SpawnedKept ==
  ASSUME Spawned, UNCHANGED <<running, srv, srvHandle, stopAsked, endings>>,
         \A t \in Callers : Onward(t),
         srv # "listen" =>
           /\ queue = <<>> => queue' = <<>>
           /\ spc["server"] = "swap" => spc'["server"] = "swap" \/ queue' = <<>>
           /\ \A h \in Handlers : Live(h)' => Live(h)
  PROVE  Spawned'
<1>1. (\E t \in Callers : xpc'[t] \in Joined) => srv = "off"
  BY DEF Spawned, Onward
<1>2. ~running => srv \in {"off", "sweep", "ended"} \/ \E t \in Callers : xpc'[t] \in Joining
  BY DEF Spawned, Onward
<1>3. stopAsked # "no" => srv = "off" \/ \E t \in Callers : xpc'[t] \in Joining \cup {"clear"}
  BY DEF Spawned, Onward
<1>4. srv \in Returned \cup {"off", "spawned"} => \A h \in Handlers : ~Live(h)'
  BY DEF Spawned, Returned
<1>5. srv \in {"off", "ended"} \/ (srv = "sweep" /\ spc'["server"] # "swap") => queue' = <<>>
  BY DEF Spawned
<1>. QED BY <1>1, <1>2, <1>3, <1>4, <1>5 DEF Spawned

(* Before the server thread is there, start() goes on and nothing else does. *)
LEMMA OnlySpawns ==
  ASSUME HttpTypeOK, NotYetSpawned, Sweepers, cpc = "off", xpc["ext"] = "spawnServer",
         [HttpNext]_httpVars
  PROVE  SpawnServer \/ UNCHANGED httpVars
<1>1. /\ queue = <<>> /\ srv = "off" /\ running
      /\ \A h \in Handlers : hpc[h] = "idle"
      /\ \A t \in Callers : xpc[t] \in {"out", "spawnServer"} /\ (t # "ext" => xpc[t] = "out")
      /\ "ext" \in Callers /\ Shutdowns \subseteq Callers
  BY DEF NotYetSpawned, Live, Callers
<1>2. \A t \in Stoppers : spc[t] = "out"
  BY <1>1, StopperNames DEF Sweepers
<1>3. ~Start /\ ~SpawnCommand
  BY DEF Start, SpawnCommand, Goto
<1>4. ~Listens /\ ~ListenReturns /\ ~ServerClear
  BY <1>1 DEF Listens, ListenReturns, ServerClear
<1>5. ~ServerEnds
  BY <1>2, StopperNames DEF ServerEnds, EndSweep
<1>6. \A h \in Handlers, r \in Requests : ~Call(h, r)
  BY <1>1 DEF Call
<1>7. \A r \in Requests : ~Refused(r)
  BY <1>1 DEF Refused
<1>8. \A t \in Shutdowns : ~PostShutdown(t)
  BY <1>1 DEF PostShutdown
<1>9. \A t \in Callers : ~AskStop(t)
  BY <1>1, StopperNames DEF AskStop, Goto
<1>10. \A t \in Callers : ~StopCall(t)
  BY <1>1, <1>9 DEF StopCall, Clear, SweepEnds, JoinServer, ServerJoined, JoinCommand,
     CommandJoined, Goto
<1>11. ~FinishHttp
  BY DEF FinishHttp, Finish
<1>12. ~QueueStep
  BY <1>1, <1>2 DEF QueueStep, HandlerStep, Push, Check, Leave, SpuriousWakeup, LoopTest, PopNothing,
     Pop, Begin, Complete, Notify, Swap, SweepOne, NotifySwept
<1>. QED BY <1>1, <1>3, <1>4, <1>5, <1>6, <1>7, <1>8, <1>9, <1>10, <1>11, <1>12 DEF HttpNext

(* A session that anybody may end goes from place to place as FirstInv says. *)
LEMMA FirstStep ==
  ASSUME LifeInv, FirstInv, [HttpNext]_httpVars
  PROVE  FirstInv'
<1>t. /\ xpc \in [Callers -> CallerPlaces]
      /\ spc \in [Stoppers -> {"out", "swap", "sweep", "note"}]
      /\ hpc \in [Handlers -> {"idle", "push", "wait", "blocked", "leave"}]
      /\ "ext" \in Callers /\ "command" \in Callers /\ Shutdowns \subseteq Callers
      /\ "ext" \notin Shutdowns /\ "command" \notin Shutdowns
      /\ "server" \in Stoppers /\ "server" \notin Callers
      /\ Stoppers = Callers \cup {"server"} /\ Callers = {"ext", "command"} \cup Shutdowns
  BY StopperNames DEF LifeInv, HttpTypeOK, TypeOK, Callers, CallerPlaces
<1>h. HttpTypeOK /\ (Spawning => cpc = "off") /\ (sessions = 0 => AtRest)
  BY DEF LifeInv
<1>e. endings' = endings
  BY EndingsFixed
<1>1. CASE Start
  <2>1. ASSUME sessions' = 1 PROVE AtRest
    <3>1. sessions = 0
      BY <1>1, <1>h, <2>1, SessionBound DEF Start, HttpTypeOK
    <3>. QED BY <1>h, <3>1
  <2>2. /\ UNCHANGED <<queue, hpc, spc, srv, srvHandle, cpc, job>> /\ running' /\ stopAsked' = "no"
        /\ xpc'["ext"] = "spawnServer" /\ \A t \in Callers \ {"ext"} : xpc'[t] = xpc[t]
    BY <1>1, <1>t DEF Start, Goto, handlerVars, stopVars, commandVars
  <2>3. ASSUME AtRest PROVE Sweepers' /\ InsideCommand' /\ NotYetSpawned'
    <3>1. /\ queue = <<>> /\ srv = "off" /\ ~srvHandle
          /\ \A t \in Callers : xpc[t] = "out"
          /\ \A t \in Stoppers : spc[t] = "out"
          /\ \A h \in Handlers : ~Live(h)
      BY <2>3 DEF AtRest, Quiet
    <3>2. \A t \in Stoppers : spc[t] = "out"
      BY <2>3 DEF AtRest
    <3>. QED BY <1>t, <2>2, <3>1, <3>2 DEF Sweepers, InsideCommand, NotYetSpawned, Live
  <2>. QED BY <2>1, <2>2, <2>3 DEF FirstInv
<1>. SUFFICES ASSUME ~Start, sessions = 1
              PROVE  /\ Sweepers' /\ InsideCommand'
                     /\ IF xpc'["ext"] = "spawnServer" THEN NotYetSpawned' ELSE Spawned'
  <2>1. ASSUME ~Start PROVE sessions' = sessions
    BY <1>h, <2>1, SessionsGrow
  <2>. QED BY <1>1, <2>1 DEF FirstInv
<1>f. /\ Sweepers /\ InsideCommand
      /\ IF xpc["ext"] = "spawnServer" THEN NotYetSpawned ELSE Spawned
  BY DEF FirstInv
<1>2. CASE UNCHANGED httpVars
  <2>1. UNCHANGED <<running, queue, hpc, spc, cpc, job, endings, srv, stopAsked, srvHandle, xpc>>
    BY <1>2 DEF httpVars, serverVars, vars, handlerVars, commandVars, stopVars
  <2>. QED BY <1>f, <2>1 DEF Sweepers, InsideCommand, NotYetSpawned, Spawned, Live, StopsServer
<1>3. CASE xpc["ext"] = "spawnServer"
  <2>1. cpc = "off"
    BY <1>h, <1>3 DEF Spawning
  <2>2. CASE SpawnServer
    <3>1. /\ UNCHANGED <<running, queue, hpc, spc, cpc, job, stopAsked>> /\ srv' = "spawned" /\ srvHandle'
          /\ xpc'["ext"] = "spawnCommand" /\ \A t \in Callers \ {"ext"} : xpc'[t] = xpc[t]
      BY <1>t, <2>2 DEF SpawnServer, Goto, vars, handlerVars, stopVars, commandVars
    <3>2. NotYetSpawned
      BY <1>f, <1>3
    <3>3. \A t \in Callers : xpc'[t] \in {"out", "spawnCommand"}
      BY <3>1, <3>2 DEF NotYetSpawned
    <3>4. Spawned'
      BY <3>1, <3>2, <3>3 DEF NotYetSpawned, Spawned, Joined, Returned, Live
    <3>5. Sweepers' /\ InsideCommand'
      BY <1>f, <1>t, <1>3, <3>1, <3>2 DEF NotYetSpawned, Sweepers, InsideCommand
    <3>. QED BY <3>1, <3>4, <3>5
  <2>. QED BY <1>h, <1>f, <1>2, <1>3, <2>1, <2>2, OnlySpawns
<1>. DEFINE FirstGoal == Sweepers' /\ InsideCommand' /\ Spawned' /\ xpc'["ext"] # "spawnServer"
<1>. SUFFICES ASSUME xpc["ext"] # "spawnServer" PROVE FirstGoal
  BY <1>3
<1>s. Spawned
  BY <1>f
<1>4. CASE SpawnCommand
  <2>1. /\ UNCHANGED <<running, queue, hpc, spc, srv, srvHandle, stopAsked>>
        /\ xpc["ext"] = "spawnCommand"
        /\ xpc'["ext"] = "out" /\ \A t \in Callers \ {"ext"} : xpc'[t] = xpc[t]
    BY <1>4, <1>t DEF SpawnCommand, Goto, handlerVars, stopVars
  <2>2. xpc["command"] = "out" /\ xpc'["command"] = "out"
    BY <1>f, <1>h, <1>t, <2>1 DEF InsideCommand, Spawning
  <2>3. \A t \in Callers : Onward(t)
    BY <1>t, <2>1 DEF Onward, Joined, Joining
  <2>4. Spawned'
    BY <1>s, <1>e, <2>1, <2>3, SpawnedKept DEF Live
  <2>. QED BY <1>f, <1>t, <2>1, <2>2, <2>4 DEF Sweepers, InsideCommand, FirstGoal
<1>5. ASSUME NEW h \in Handlers, NEW r \in Requests, Call(h, r) PROVE FirstGoal
  <2>1. UNCHANGED <<running, queue, spc, cpc, job, stopAsked, srv, srvHandle, xpc>> /\ srv = "listen"
    BY <1>5 DEF Call, Enter, stopVars, commandVars, serverVars
  <2>2. \A t \in Callers : Onward(t)
    BY <2>1 DEF Onward
  <2>3. Spawned'
    BY <1>s, <1>e, <2>1, <2>2, SpawnedKept
  <2>. QED BY <1>f, <1>e, <2>1, <2>3 DEF Sweepers, InsideCommand, StopsServer, FirstGoal
<1>6. ASSUME NEW r \in Requests, Refused(r) PROVE FirstGoal
  <2>1. UNCHANGED <<running, queue, hpc, spc, cpc, job, stopAsked, srv, srvHandle, xpc>>
    <3>1. Refuse(r) => UNCHANGED <<running, queue, hpc, spc, cpc, job>>
      BY Zenon DEF Refuse, stopVars, commandVars
    <3>. QED BY <1>6, <3>1 DEF Refused, serverVars
  <2>2. \A t \in Callers : Onward(t)
    BY <2>1 DEF Onward
  <2>3. Spawned'
    BY <1>s, <1>e, <2>1, <2>2, SpawnedKept DEF Live
  <2>. QED BY <1>f, <1>e, <2>1, <2>3 DEF Sweepers, InsideCommand, StopsServer, FirstGoal
<1>l. CASE Listens
  <2>1. /\ UNCHANGED <<running, queue, hpc, spc, cpc, job, stopAsked, srvHandle, xpc>>
        /\ srv = "spawned" /\ srv' = "listen"
    BY <1>l DEF Listens, vars, handlerVars, stopVars, commandVars
  <2>2. Spawned'
    BY <1>s, <1>e, <2>1 DEF Spawned, Returned, Joined, Joining, Live
  <2>. QED BY <1>f, <1>e, <2>1, <2>2 DEF Sweepers, InsideCommand, StopsServer, FirstGoal
<1>7. CASE ListenReturns
  <2>1. /\ UNCHANGED <<running, queue, hpc, spc, cpc, job, stopAsked, srvHandle, xpc>>
        /\ srv = "listen" /\ srv' = "returned" /\ \A h \in Handlers : ~Live(h)
        /\ stopAsked = "yes" \/ "accept error" \in endings
    BY <1>7 DEF ListenReturns, vars, handlerVars, stopVars, commandVars
  <2>2. Spawned'
    BY <1>s, <1>e, <2>1 DEF Spawned, Returned, Joined, Joining, Live
  <2>. QED BY <1>f, <1>e, <2>1, <2>2 DEF Sweepers, InsideCommand, StopsServer, FirstGoal
<1>8. CASE ServerClear
  <2>1. /\ UNCHANGED <<queue, hpc, cpc, job, stopAsked, srvHandle, xpc>> /\ ~running'
        /\ srv = "returned" /\ srv' = "sweep"
        /\ spc'["server"] = "swap" /\ \A t \in Callers : spc'[t] = spc[t]
    BY <1>8, <1>t DEF ServerClear, BeginStop, handlerVars, commandVars
  <2>2. Spawned'
    BY <1>s, <1>e, <2>1 DEF Spawned, Returned, Joined, Joining, Live
  <2>. QED BY <1>f, <1>e, <2>1, <2>2 DEF Sweepers, InsideCommand, StopsServer, FirstGoal
<1>9. CASE ServerEnds
  <2>1. /\ UNCHANGED <<running, queue, hpc, cpc, job, stopAsked, srvHandle, xpc>>
        /\ spc["server"] = "sweep" /\ srv' = "ended"
        /\ spc'["server"] = "out" /\ \A t \in Callers : spc'[t] = spc[t]
    BY <1>9, <1>t DEF ServerEnds, EndSweep, handlerVars, commandVars
  <2>2. srv = "sweep"
    BY <1>f, <2>1 DEF Sweepers
  <2>3. Spawned'
    BY <1>s, <1>e, <2>1, <2>2 DEF Spawned, Returned, Joined, Joining, Live
  <2>. QED BY <1>f, <1>e, <2>1, <2>3 DEF Sweepers, InsideCommand, StopsServer, FirstGoal
<1>10. ASSUME NEW t \in Shutdowns, PostShutdown(t) PROVE FirstGoal
  <2>1. /\ UNCHANGED <<running, queue, hpc, spc, cpc, job, stopAsked, srv, srvHandle>>
        /\ xpc[t] = "out" /\ xpc'[t] = "sleep" /\ \A u \in Callers \ {t} : xpc'[u] = xpc[u]
    BY <1>10, <1>t DEF PostShutdown, Goto, vars, handlerVars, stopVars, commandVars
  <2>2. \A u \in Callers : Onward(u)
    BY <2>1 DEF Onward, Joined, Joining
  <2>3. Spawned'
    BY <1>s, <1>e, <2>1, <2>2, SpawnedKept DEF Live
  <2>. QED BY <1>f, <1>e, <1>t, <2>1, <2>3 DEF Sweepers, InsideCommand, StopsServer, FirstGoal
<1>11. ASSUME NEW t \in Callers, AskStop(t) PROVE FirstGoal
  <2>1. /\ UNCHANGED <<running, queue, hpc, spc, cpc, job, srv, srvHandle>>
        /\ stopAsked' = IF srv = "spawned" THEN "lost" ELSE "yes"
        /\ xpc[t] \in {"out", "sleep"} /\ xpc'[t] = "clear" /\ \A u \in Callers \ {t} : xpc'[u] = xpc[u]
        /\ t = "command" => cpc = "exec" /\ StopsServer(job)
    BY <1>11, <1>t DEF AskStop, Goto, vars, handlerVars, stopVars, commandVars
  <2>2. /\ \A u \in Callers : xpc'[u] \in Joined => xpc[u] \in Joined
        /\ \A u \in Callers : xpc[u] \in Joining => xpc'[u] \in Joining
    BY <2>1 DEF Joined, Joining
  <2>3. Spawned'
    BY <1>s, <1>e, <2>1, <2>2 DEF Spawned, Returned, Live
  <2>. QED BY <1>f, <1>e, <1>t, <2>1, <2>3 DEF Sweepers, InsideCommand, StopsServer, FirstGoal
<1>12. ASSUME NEW t \in Callers, Clear(t) PROVE FirstGoal
  <2>1. /\ UNCHANGED <<queue, hpc, cpc, job, srv, srvHandle, stopAsked>> /\ ~running'
        /\ spc'[t] = "swap" /\ \A u \in Stoppers \ {t} : spc'[u] = spc[u]
        /\ xpc[t] = "clear" /\ xpc'[t] = "sweep" /\ \A u \in Callers \ {t} : xpc'[u] = xpc[u]
    BY <1>12, <1>t DEF Clear, BeginStop, Goto, handlerVars, commandVars
  <2>2. /\ \A u \in Callers : xpc'[u] \in Joined => xpc[u] \in Joined
        /\ xpc'[t] \in Joining
    BY <2>1 DEF Joined, Joining
  <2>3. Spawned'
    BY <1>s, <1>e, <1>t, <2>1, <2>2 DEF Spawned, Returned, Live
  <2>. QED BY <1>f, <1>e, <1>t, <2>1, <2>3 DEF Sweepers, InsideCommand, StopsServer, FirstGoal
<1>13. ASSUME NEW t \in Callers, SweepEnds(t) PROVE FirstGoal
  <2>1. /\ UNCHANGED <<running, queue, hpc, cpc, job, srv, srvHandle, stopAsked>>
        /\ spc'[t] = "out" /\ \A u \in Stoppers \ {t} : spc'[u] = spc[u]
        /\ xpc[t] = "sweep" /\ xpc'[t] = "joinServer" /\ \A u \in Callers \ {t} : xpc'[u] = xpc[u]
    BY <1>13, <1>t DEF SweepEnds, EndSweep, Goto, handlerVars, commandVars
  <2>2. \A u \in Callers : Onward(u)
    BY <2>1 DEF Onward, Joined, Joining
  <2>3. Spawned'
    BY <1>s, <1>e, <1>t, <2>1, <2>2, SpawnedKept DEF Live
  <2>. QED BY <1>f, <1>e, <1>t, <2>1, <2>3 DEF Sweepers, InsideCommand, StopsServer, FirstGoal
<1>14. ASSUME NEW t \in Callers, JoinServer(t) \/ JoinCommand(t) \/ CommandJoined(t) PROVE FirstGoal
  <2>1. /\ UNCHANGED <<running, queue, hpc, spc, cpc, job, srv, srvHandle, stopAsked>>
        /\ xpc[t] \in {"joinServer", "joinCommand", "inCommandJoin"}
        /\ xpc'[t] # "spawnServer" /\ \A u \in Callers \ {t} : xpc'[u] = xpc[u]
        /\ xpc[t] = "joinServer" => xpc'[t] = "inServerJoin" \/ (~srvHandle /\ xpc'[t] = "joinCommand")
    BY <1>14, <1>t DEF JoinServer, JoinCommand, CommandJoined, Goto, vars, handlerVars, stopVars, commandVars
  <2>2. srv = "off" \/ (xpc[t] = "joinServer" /\ xpc'[t] = "inServerJoin")
    BY <1>s, <2>1 DEF Spawned, Joined
  <2>3. \A u \in Callers : Onward(u)
    BY <2>1, <2>2 DEF Onward, Joined, Joining
  <2>4. Spawned'
    BY <1>s, <1>e, <1>t, <2>1, <2>3, SpawnedKept DEF Live
  <2>. QED BY <1>f, <1>e, <1>t, <2>1, <2>4 DEF Sweepers, InsideCommand, StopsServer, FirstGoal
<1>15. ASSUME NEW t \in Callers, ServerJoined(t) PROVE FirstGoal
  <2>1. /\ UNCHANGED <<running, queue, hpc, spc, cpc, job, stopAsked>>
        /\ srv \in {"ended", "off"} /\ srv' = "off" /\ ~srvHandle'
        /\ xpc[t] = "inServerJoin" /\ xpc'[t] = "joinCommand" /\ \A u \in Callers \ {t} : xpc'[u] = xpc[u]
    BY <1>15, <1>t DEF ServerJoined, Goto, vars, handlerVars, stopVars, commandVars
  <2>2. Spawned'
    BY <1>s, <1>e, <2>1 DEF Spawned, Returned, Live
  <2>. QED BY <1>f, <1>e, <1>t, <2>1, <2>2 DEF Sweepers, InsideCommand, StopsServer, FirstGoal
<1>16. CASE FinishHttp
  <2>1. /\ UNCHANGED <<running, queue, hpc, spc, srv, srvHandle, stopAsked>>
        /\ xpc'["command"] = "out" /\ \A u \in Callers \ {"command"} : xpc'[u] = xpc[u]
        /\ StopsServer(job) => xpc["command"] \in {"thrown", "out"}
    BY <1>16, <1>t DEF FinishHttp, Finish, stopVars
  <2>2. xpc["command"] \in {"thrown", "out"}
    BY <1>f, <2>1 DEF InsideCommand
  <2>3. \A u \in Callers : Onward(u)
    BY <2>1, <2>2 DEF Onward, Joined, Joining
  <2>4. Spawned'
    BY <1>s, <1>e, <1>t, <2>1, <2>3, SpawnedKept DEF Live
  <2>. QED BY <1>f, <1>e, <1>t, <2>1, <2>2, <2>4 DEF Sweepers, InsideCommand, FirstGoal
<1>17. ASSUME NEW h \in Handlers, HandlerStep(h) \/ SpuriousWakeup(h), UNCHANGED serverVars
       PROVE  FirstGoal
  <2>1. UNCHANGED <<running, spc, cpc, job, srv, stopAsked, srvHandle, xpc>>
    BY <1>17 DEF HandlerStep, Push, Check, Leave, SpuriousWakeup, stopVars, commandVars, serverVars
  <2>2. Live(h)
    BY <1>17 DEF HandlerStep, Push, Check, Leave, SpuriousWakeup, Live
  <2>3. srv = "listen"
    BY <1>h, <1>s, <2>2 DEF Spawned, Returned, HttpTypeOK
  <2>4. \A u \in Callers : Onward(u)
    BY <2>1 DEF Onward
  <2>5. Spawned'
    BY <1>s, <1>e, <1>t, <2>1, <2>3, <2>4, SpawnedKept
  <2>. QED BY <1>f, <1>e, <2>1, <2>5 DEF Sweepers, InsideCommand, StopsServer, FirstGoal
<1>18. ASSUME LoopTest \/ PopNothing \/ Pop \/ Begin \/ Complete \/ Notify, UNCHANGED serverVars
       PROVE  FirstGoal
  <2>1. UNCHANGED <<running, spc, srv, stopAsked, srvHandle, xpc>> /\ cpc # "exec"
    BY <1>18 DEF LoopTest, PopNothing, Pop, Begin, Complete, Notify, stopVars, serverVars
  <2>2. queue = <<>> => queue' = <<>>
    BY <1>18 DEF LoopTest, PopNothing, Pop, Begin, Complete, Notify
  <2>3. \A h \in Handlers : Live(h)' => Live(h)
    BY <1>18, <1>t DEF LoopTest, PopNothing, Pop, Begin, Complete, Notify, Notified, handlerVars, Live
  <2>4. \A u \in Callers : Onward(u)
    BY <2>1 DEF Onward
  <2>5. Spawned'
    BY <1>s, <1>e, <1>t, <2>1, <2>2, <2>3, <2>4, SpawnedKept
  <2>. QED BY <1>f, <1>e, <2>1, <2>5 DEF Sweepers, InsideCommand, FirstGoal
<1>19. ASSUME NEW t \in Stoppers, Swap(t) \/ SweepOne(t) \/ NotifySwept(t), UNCHANGED serverVars
       PROVE  FirstGoal
  <2>1. /\ UNCHANGED <<running, cpc, job, srv, stopAsked, srvHandle, xpc>>
        /\ spc[t] # "out" /\ spc'[t] \notin {"out", "swap"}
        /\ \A u \in Stoppers \ {t} : spc'[u] = spc[u]
    BY <1>19, <1>t DEF Swap, SweepOne, NotifySwept, serverVars, commandVars
  <2>2. /\ queue = <<>> => queue' = <<>>
        /\ spc[t] = "swap" => queue' = <<>>
    BY <1>19 DEF Swap, SweepOne, NotifySwept
  <2>3. \A h \in Handlers : Live(h)' => Live(h)
    BY <1>19, <1>t DEF Swap, SweepOne, NotifySwept, Notified, handlerVars, Live
  <2>4. \A u \in Callers : Onward(u)
    BY <2>1 DEF Onward
  <2>5. Spawned'
    BY <1>s, <1>e, <1>t, <2>1, <2>2, <2>3, <2>4, SpawnedKept
  <2>. QED BY <1>f, <1>e, <1>t, <2>1, <2>5 DEF Sweepers, InsideCommand, StopsServer, FirstGoal
<1>20. ~SpawnServer
  BY DEF SpawnServer, Goto
<1>21. UNCHANGED httpVars => FirstGoal
  BY <1>2 DEF httpVars, serverVars, FirstGoal
<1>. HIDE DEF FirstGoal
<1>22. \A t \in Callers : AskStop(t) \/ StopCall(t) => FirstGoal
  BY <1>11, <1>12, <1>13, <1>14, <1>15 DEF StopCall
<1>23. QueueStep => FirstGoal
  BY <1>17, <1>18, <1>19 DEF QueueStep
<1>. QED
  BY <1>4, <1>5, <1>6, <1>l, <1>7, <1>8, <1>9, <1>10, <1>16, <1>20, <1>21, <1>22, <1>23, <1>t DEF HttpNext

(* In every state of the first session FirstInv holds.                       *)
LEMMA FirstHolds ==
  ASSUME Restarts \subseteq {{"user"}}
  PROVE  HttpSafety => []FirstInv
<1>1. HttpInit => FirstInv
  BY DEF HttpInit, FirstInv
<1>. QED BY <1>1, LifeInit, LifeStep, FirstStep, PTL DEF HttpSafety

(* More than one session there is only where the user alone ends them.       *)
LEMMA OneSession ==
  ASSUME Restarts \subseteq {{"user"}}
  PROVE  HttpSafety => [](endings = {"user"} \/ sessions \in {0, 1})
<1>. DEFINE I == endings = {"user"} \/ sessions \in {0, 1}
<1>1. HttpInit => I
  BY DEF HttpInit
<1>2. ASSUME I, HttpTypeOK, [HttpNext]_httpVars PROVE I'
  <2>1. CASE Start
    BY <1>2, <2>1, EndingsFixed, SessionBound DEF Start
  <2>2. CASE ~Start
    BY <1>2, <2>2, EndingsFixed, SessionsGrow
  <2>. QED BY <2>1, <2>2
<1>. QED BY <1>1, <1>2, HttpTypeInit, HttpTypeStep, PTL DEF HttpSafety

(* When no stop() is under way, nothing is left of a server that does not    *)
(* run, whoever stopped it and however many at once, or although listen gave *)
(* up by itself: no command, no call, no sweep, no server thread.            *)
THEOREM StopLeavesNothingHolds ==
  ASSUME Restarts \subseteq {{"user"}}
  PROVE  HttpSafety => []StopLeavesNothing
<1>1. ASSUME LifeInv, FirstInv, endings = {"user"} \/ sessions \in {0, 1},
             ~running, \A t \in Callers : xpc[t] = "out",
             "accept error" \in endings => srv \in {"off", "ended"}
      PROVE  /\ queue = <<>> /\ \A h \in Handlers : ~Live(h)
             /\ \A t \in Stoppers : swept[t] = <<>>
             /\ "accept error" \notin endings => srv = "off" /\ ~srvHandle
             /\ endings = {"user"} => cpc = "off" /\ ~cmdHandle
  <2>x. "ext" \in Callers /\ xpc["ext"] = "out"
    BY <1>1 DEF Callers
  <2>1. CASE endings = {"user"} \/ sessions = 0
    <3>1. AtRest
      BY <1>1, <2>x, <2>1 DEF LifeInv, Places
    <3>. QED BY <3>1 DEF AtRest, Quiet
  <2>2. CASE endings # {"user"} /\ sessions = 1
    <3>1. Spawned /\ Sweepers
      BY <1>1, <2>x, <2>2 DEF FirstInv
    <3>2. \A t \in Callers : xpc[t] \notin Joining \cup {"clear"}
      BY <1>1 DEF Joining
    <3>3. srv \in {"off", "ended"} /\ ("accept error" \notin endings => srv = "off")
      BY <1>1, <3>1, <3>2 DEF Spawned, Returned
    <3>4. queue = <<>> /\ (\A h \in Handlers : ~Live(h)) /\ (srv = "off" => ~srvHandle)
      BY <3>1, <3>3 DEF Spawned, Returned
    <3>5. \A t \in Stoppers : spc[t] = "out"
      BY <1>1, <3>1, <3>3, StopperNames DEF Sweepers
    <3>6. \A t \in Stoppers : swept[t] = <<>>
      BY <1>1, <3>5 DEF LifeInv, SweepEmpty
    <3>. QED BY <2>2, <3>3, <3>4, <3>6
  <2>. QED BY <1>1, <2>1, <2>2
<1>2. LifeInv /\ FirstInv /\ (endings = {"user"} \/ sessions \in {0, 1}) => StopLeavesNothing
  BY <1>1 DEF StopLeavesNothing
<1>. QED BY <1>2, LifeHolds, FirstHolds, OneSession, PTL

-----------------------------------------------------------------------------
(* What WinDbg's thread sees of the server.                                  *)

(* There is a handle on a thread that is there; in stop() the server runs no *)
(* longer, and past the join of the server thread there is none.             *)
SeenInv ==
  /\ cmdHandle \/ cpc = "off"
  /\ srvHandle <=> srv # "off"
  /\ Stopping => ~running
  /\ xpc["ext"] \in {"joinCommand", "inCommandJoin"} => srv = "off"
  /\ srv \in {"sweep", "ended"} => ~running
  /\ spc["server"] # "out" => srv = "sweep"

(* A step of the queue moves no thread through start() or stop() and neither *)
(* starts nor stops the server; the command thread goes on by itself.        *)
LEMMA QueueStepSeen ==
  ASSUME HttpTypeOK, QueueStep
  PROVE  /\ UNCHANGED <<serverVars, running>>
         /\ \A t \in Stoppers : spc'[t] = "out" <=> spc[t] = "out"
         /\ cpc = "exec" => UNCHANGED <<cpc, job>>
         /\ \/ UNCHANGED cpc
            \/ cpc \notin {"off", "exec"} /\ cpc' \notin {"off", "exec"}
            \/ cpc \notin {"off", "exec"} /\ cpc' = "exec"
            \/ cpc \notin {"off", "exec"} /\ cpc' = "off" /\ ~running
<1>s. spc \in [Stoppers -> {"out", "swap", "sweep", "note"}] /\ "server" \in Stoppers
  BY StopperNames DEF HttpTypeOK, TypeOK
<1>u. UNCHANGED serverVars
  BY DEF QueueStep
<1>1. ASSUME NEW h \in Handlers, HandlerStep(h) \/ SpuriousWakeup(h)
      PROVE  UNCHANGED <<running, cpc, job, spc>>
  BY <1>1 DEF HandlerStep, Push, Check, Leave, SpuriousWakeup, commandVars, stopVars
<1>2. ASSUME NEW t \in Stoppers, Swap(t) \/ SweepOne(t) \/ NotifySwept(t)
      PROVE  UNCHANGED <<running, cpc, job>> /\ \A u \in Stoppers : spc'[u] = "out" <=> spc[u] = "out"
  BY <1>s, <1>2 DEF Swap, SweepOne, NotifySwept, commandVars
<1>3. CASE LoopTest \/ PopNothing \/ Pop \/ Begin \/ Complete \/ Notify
  <2>1. UNCHANGED <<running, spc>>
    BY <1>3 DEF LoopTest, PopNothing, Pop, Begin, Complete, Notify, stopVars
  <2>2. \/ cpc \notin {"off", "exec"} /\ cpc' \notin {"off", "exec"}
        \/ cpc \notin {"off", "exec"} /\ cpc' = "exec"
        \/ cpc \notin {"off", "exec"} /\ cpc' = "off" /\ ~running
    BY <1>3, Zenon DEF LoopTest, PopNothing, Pop, Begin, Complete, Notify
  <2>. QED BY <1>u, <2>1, <2>2
<1>. QED BY <1>u, <1>1, <1>2, <1>3 DEF QueueStep

(* Every step of the server keeps SeenInv, and WinDbg's thread sees a step   *)
(* of ServerLife or none.                                                    *)
LEMMA LifeMaps ==
  ASSUME Restarts \subseteq {{"user"}}, LifeInv, SeenInv, [HttpNext]_httpVars
  PROVE  SeenInv' /\ [Life!Next]_(Life!vars)
<1>t. HttpTypeOK /\ (Spawning => cpc = "off")
  BY DEF LifeInv
<1>x. /\ xpc \in [Callers -> CallerPlaces]
      /\ spc \in [Stoppers -> {"out", "swap", "sweep", "note"}]
      /\ "ext" \in Callers /\ "command" \in Callers /\ Shutdowns \subseteq Callers
      /\ "ext" \notin Shutdowns /\ "server" \in Stoppers /\ "server" \notin Callers
      /\ Callers \subseteq Stoppers
  BY <1>t, StopperNames DEF HttpTypeOK, TypeOK, Callers, CallerPlaces
<1>. USE DEF SeenInv, Stopping
<1>1. CASE Start
  <2>1. AtRest
    BY <1>1, StartAtRest
  <2>2. /\ xpc["ext"] = "out" /\ xpc'["ext"] = "spawnServer"
        /\ ~running /\ running' = TRUE /\ UNCHANGED <<cpc, srv, srvHandle, cmdHandle, spc>>
    BY <1>1, <1>x DEF Start, Goto, commandVars, stopVars
  <2>3. /\ Worker = "off" /\ Worker' = "idle" /\ ~Stopping /\ ~Stopping'
        /\ Listening' = TRUE
    BY <2>1, <2>2 DEF AtRest, Quiet, Worker, Listening
  <2>4. Stopping' = Stopping
    BY <2>2
  <2>5. Life!Start
    BY <2>2, <2>3, <2>4 DEF Life!Start
  <2>6. SeenInv'
    BY <1>x, <2>1, <2>2 DEF AtRest
  <2>. QED BY <2>5, <2>6 DEF Life!Next
<1>2. CASE SpawnServer \/ SpawnCommand
  <2>1. /\ xpc["ext"] \in {"spawnServer", "spawnCommand"} /\ xpc'["ext"] \in {"spawnCommand", "out"}
        /\ xpc["ext"] = "spawnServer" <=> SpawnServer
        /\ xpc'["ext"] = "spawnCommand" <=> SpawnServer
        /\ SpawnServer => srv' = "spawned" /\ srvHandle' /\ ~srvHandle /\ UNCHANGED <<cpc, cmdHandle>>
        /\ SpawnCommand => cpc' = "test" /\ cmdHandle' /\ UNCHANGED <<srv, srvHandle>>
        /\ UNCHANGED <<running, spc>>
    BY <1>2, <1>x DEF SpawnServer, SpawnCommand, Goto, vars, commandVars, stopVars
  <2>2. Worker = "idle" /\ Worker' = "idle"
    BY <1>2, <2>1 DEF Worker
  <2>3. UNCHANGED <<Stopping, Listening>>
    BY <1>2, <2>1 DEF Listening
  <2>4. SeenInv'
    BY <1>2, <2>1
  <2>. QED BY <2>1, <2>2, <2>3, <2>4 DEF Life!vars
<1>3. CASE Listens \/ ListenReturns \/ ServerClear \/ ServerEnds
  <2>1. /\ UNCHANGED <<xpc, cpc, cmdHandle, srvHandle>>
        /\ \/ srv = "spawned" /\ srv' = "listen" /\ UNCHANGED <<running, spc>>
           \/ srv = "listen" /\ srv' = "returned" /\ UNCHANGED <<running, spc>>
           \/ srv = "returned" /\ srv' = "sweep" /\ running' = FALSE
           \/ srv = "sweep" /\ srv' = "ended" /\ UNCHANGED running /\ spc'["server"] = "out"
    <3>0. CASE Listens
      <4>1. srv = "spawned" /\ srv' = "listen" /\ UNCHANGED <<vars, xpc, cmdHandle, srvHandle>>
        BY <3>0, Zenon DEF Listens
      <4>. QED BY <4>1 DEF vars, commandVars, stopVars
    <3>1. CASE ListenReturns
      <4>1. srv = "listen" /\ srv' = "returned" /\ UNCHANGED <<vars, xpc, cmdHandle, srvHandle>>
        BY <3>1, Zenon DEF ListenReturns
      <4>. QED BY <4>1 DEF vars, commandVars, stopVars
    <3>2. CASE ServerClear
      BY <3>2 DEF ServerClear, BeginStop, commandVars
    <3>3. CASE ServerEnds
      <4>1. spc["server"] = "sweep" /\ spc' = [spc EXCEPT !["server"] = "out"]
        BY <3>3 DEF ServerEnds, EndSweep
      <4>2. srv = "sweep" /\ spc'["server"] = "out"
        BY <1>x, <4>1
      <4>. QED BY <3>3, <4>2 DEF ServerEnds, EndSweep, commandVars
    <3>. QED BY <1>3, <3>0, <3>1, <3>2, <3>3
  <2>2. SeenInv' /\ UNCHANGED <<Worker, Stopping>>
    BY <2>1 DEF Worker
  <2>3. CASE srv = "sweep" /\ xpc["ext"] # "spawnServer"
    <3>1. ~running /\ UNCHANGED running /\ Listening' = FALSE
      BY <2>1, <2>3 DEF Listening
    <3>. QED BY <2>2, <3>1 DEF Life!ListenEnds, Life!Next
  <2>4. CASE srv # "sweep" \/ xpc["ext"] = "spawnServer"
    <3>1. UNCHANGED Listening
      BY <2>1, <2>4 DEF Listening
    <3>. QED BY <2>1, <2>2, <3>1 DEF Life!Clear, Life!Next, Life!vars
  <2>. QED BY <2>3, <2>4
<1>4. ASSUME NEW t \in Callers, Clear(t) PROVE SeenInv' /\ Life!Next
  <2>1. /\ running' = FALSE /\ UNCHANGED <<cpc, cmdHandle, srv, srvHandle>>
        /\ xpc'[t] = "sweep" /\ (t # "ext" => xpc'["ext"] = xpc["ext"])
        /\ xpc[t] = "clear" /\ spc'["server"] = spc["server"]
    BY <1>4, <1>x DEF Clear, BeginStop, Goto, commandVars
  <2>2. SeenInv' /\ UNCHANGED <<Worker, Listening>>
    BY <2>1 DEF Worker, Listening
  <2>3. CASE t = "ext"
    <3>1. Stopping' = TRUE
      BY <2>1, <2>3
    <3>. QED BY <2>1, <2>2, <3>1 DEF Life!AskStop, Life!Next
  <2>4. CASE t # "ext"
    <3>1. UNCHANGED Stopping
      BY <2>1, <2>4
    <3>. QED BY <2>1, <2>2, <3>1 DEF Life!Clear, Life!Next
  <2>. QED BY <2>3, <2>4
<1>5. ASSUME NEW t \in Callers, JoinCommand(t) \/ CommandJoined(t)
      PROVE  SeenInv' /\ [Life!Next]_(Life!vars)
  <2>1. /\ UNCHANGED <<running, cpc, srv, srvHandle, spc>>
        /\ xpc[t] \in {"joinCommand", "inCommandJoin"}
        /\ xpc'[t] \in {"out", "thrown", "inCommandJoin"}
        /\ t = "ext" => xpc'[t] \in {"out", "inCommandJoin"}
        /\ xpc'[t] = "out" => cpc = "off" /\ (cmdHandle' \/ cpc' = "off")
        /\ xpc'[t] # "out" => UNCHANGED cmdHandle
        /\ t # "ext" => xpc'["ext"] = xpc["ext"]
    BY <1>5, <1>x DEF JoinCommand, CommandJoined, Goto, vars, commandVars, stopVars
  <2>2. SeenInv' /\ UNCHANGED <<Worker, Listening>>
    BY <2>1 DEF Worker, Listening
  <2>3. CASE t = "ext" /\ xpc'[t] = "out"
    <3>1. Stopping /\ Stopping' = FALSE /\ ~running /\ Worker = "off" /\ ~Listening
      BY <2>1, <2>3 DEF Worker, Listening
    <3>. QED BY <2>1, <2>2, <3>1 DEF Life!Return, Life!Next
  <2>4. CASE t # "ext" \/ xpc'[t] # "out"
    <3>1. UNCHANGED Stopping
      BY <2>1, <2>4
    <3>. QED BY <2>1, <2>2, <3>1 DEF Life!vars
  <2>. QED BY <2>3, <2>4
<1>6. ASSUME NEW t \in Callers, AskStop(t) \/ SweepEnds(t) \/ JoinServer(t) \/ ServerJoined(t)
      PROVE  SeenInv' /\ UNCHANGED Life!vars
  <2>1. /\ UNCHANGED <<running, cpc, cmdHandle>> /\ spc'["server"] = spc["server"]
        /\ t # "ext" => xpc'["ext"] = xpc["ext"]
        /\ \/ UNCHANGED <<srv, srvHandle>>
           \/ srv \in {"ended", "off"} /\ srv' = "off" /\ ~srvHandle' /\ xpc[t] = "inServerJoin"
        /\ \/ xpc[t] \in {"out", "sleep"} /\ xpc'[t] = "clear"
           \/ xpc[t] = "out" /\ xpc'[t] = "clear"
           \/ xpc[t] = "sweep" /\ xpc'[t] = "joinServer"
           \/ xpc[t] = "joinServer" /\ xpc'[t] \in {"inServerJoin", "joinCommand"}
                /\ (xpc'[t] = "joinCommand" => ~srvHandle)
           \/ xpc[t] = "inServerJoin" /\ xpc'[t] = "joinCommand" /\ srv' = "off"
    BY <1>6, <1>x DEF AskStop, SweepEnds, EndSweep, JoinServer, ServerJoined, Goto, vars,
       commandVars, stopVars
  <2>2. SeenInv'
    BY <2>1
  <2>3. UNCHANGED <<Worker, Stopping, Listening>>
    BY <2>1 DEF Worker, Listening
  <2>. QED BY <2>1, <2>2, <2>3 DEF Life!vars
<1>7. CASE FinishHttp
  <2>1. /\ cpc = "exec" /\ cpc' = "complete" /\ ~Spawning
        /\ xpc'["ext"] = xpc["ext"] /\ UNCHANGED <<running, srv, srvHandle, cmdHandle, spc>>
    BY <1>7, <1>t, <1>x DEF FinishHttp, Finish, stopVars
  <2>2. SeenInv' /\ UNCHANGED <<Stopping, Listening>> /\ Worker = "busy" /\ Worker' = "idle"
    BY <2>1 DEF Worker, Listening, Spawning
  <2>. QED BY <2>1, <2>2 DEF Life!Result, Life!Next
<1>8. CASE QueueStep
  <2>1. UNCHANGED <<xpc, srv, srvHandle, cmdHandle, running>>
    BY <1>t, <1>8, QueueStepSeen DEF serverVars
  <2>2. SeenInv'
    BY <1>t, <1>x, <1>8, <2>1, QueueStepSeen
  <2>3. UNCHANGED <<Stopping, Listening>>
    BY <2>1 DEF Listening
  <2>4. CASE UNCHANGED Worker
    BY <2>1, <2>2, <2>3, <2>4 DEF Life!vars
  <2>5. CASE ~UNCHANGED Worker
    <3>1. ~Spawning /\ Worker = "idle"
      BY <1>t, <1>8, <2>1, <2>5, QueueStepSeen DEF Worker, Spawning
    <3>2. Worker' = "busy" \/ (Worker' = "off" /\ ~running)
      BY <1>t, <1>8, <2>1, <2>5, <3>1, QueueStepSeen DEF Worker, Spawning
    <3>. QED BY <2>1, <2>2, <2>3, <3>1, <3>2 DEF Life!Take, Life!WorkerEnds, Life!Next
  <2>. QED BY <2>4, <2>5
<1>9. CASE \/ \E t \in Shutdowns : PostShutdown(t)
           \/ \E h \in Handlers, r \in Requests : Call(h, r)
           \/ \E r \in Requests : Refused(r)
           \/ UNCHANGED httpVars
  <2>1. xpc'["ext"] = xpc["ext"] /\ UNCHANGED <<running, cpc, srv, srvHandle, cmdHandle, spc>>
    <3>1. ASSUME NEW r \in Requests, Refused(r)
          PROVE  UNCHANGED <<running, commandVars, stopVars, serverVars>>
      BY <3>1, Zenon DEF Refused, Refuse
    <3>2. ASSUME NEW h \in Handlers, NEW r \in Requests, Call(h, r)
          PROVE  UNCHANGED <<running, commandVars, stopVars, serverVars>>
      BY <3>2 DEF Call, Enter
    <3>. QED BY <1>9, <1>x, <3>1, <3>2 DEF PostShutdown, Goto, httpVars, vars, serverVars,
             commandVars, stopVars
  <2>2. SeenInv' /\ UNCHANGED Life!vars
    BY <2>1 DEF Life!vars, Worker, Listening
  <2>. QED BY <2>2
<1>. QED BY <1>1, <1>2, <1>3, <1>4, <1>5, <1>6, <1>7, <1>8, <1>9, <1>x DEF HttpNext, StopCall

(* A start() of the HTTP server finds no thread of the session before and no *)
(* stop() under way, a stop() that returns leaves neither a command thread   *)
(* nor a listener, whoever else stops the server meanwhile.                  *)
THEOREM HttpImplementsLife ==
  ASSUME Restarts \subseteq {{"user"}}
  PROVE  HttpSafety => LifeSpec
<1>1. HttpInit => SeenInv /\ Life!Init
  <2>. SUFFICES ASSUME HttpInit PROVE SeenInv /\ Life!Init
    OBVIOUS
  <2>1. /\ ~running /\ cpc = "off" /\ srv = "off" /\ ~srvHandle /\ xpc["ext"] = "out"
        /\ spc["server"] = "out"
    BY StopperNames DEF HttpInit, Init, Callers
  <2>. QED BY <2>1 DEF SeenInv, Stopping, Worker, Listening, Life!Init
<1>2. LifeInv /\ SeenInv /\ [HttpNext]_httpVars => SeenInv' /\ [Life!Next]_(Life!vars)
  BY LifeMaps
<1>. QED BY <1>1, <1>2, LifeInit, LifeStep, PTL DEF HttpSafety, LifeSpec, Life!Spec

-----------------------------------------------------------------------------
(* Nobody waits for ever for somebody who cannot go on.  ENABLED is beyond   *)
(* the prover, so the guards of the steps that fairness is about are spelled *)
(* out.                                                                      *)

InStop == {"clear", "sweep", "joinServer", "inServerJoin"}

HandlerCan(h) == hpc[h] \in {"push", "wait", "leave"}
SweeperCan(t) == spc[t] \in {"swap", "note"} \/ (spc[t] = "sweep" /\ swept[t] # <<>>)
CommandCan ==
  /\ cpc # "off"
  /\ cpc = "exec" /\ StopsServer(job) => xpc["command"] = "thrown" \/ (xpc["command"] = "out" /\ ~running)
ServerCan ==
  \/ srv = "spawned"
  \/ srv = "listen" /\ stopAsked = "yes" /\ \A h \in Handlers : ~Live(h)
  \/ srv = "returned" /\ spc["server"] = "out"
  \/ spc["server"] = "sweep" /\ swept["server"] = <<>>
StopperCan(t) ==
  \/ t = "command" /\ xpc[t] = "out" /\ running /\ cpc = "exec" /\ StopsServer(job)
  \/ t \in Shutdowns /\ xpc[t] = "sleep"
  \/ xpc[t] = "clear" /\ spc[t] = "out"
  \/ xpc[t] = "sweep" /\ spc[t] = "sweep" /\ swept[t] = <<>>
  \/ xpc[t] \in {"joinServer", "joinCommand"}
  \/ xpc[t] = "inServerJoin" /\ srv \in {"ended", "off"}
  \/ xpc[t] = "inCommandJoin" /\ cpc = "off"
StarterCan ==
  \/ xpc["ext"] = "spawnServer" /\ ~srvHandle
  \/ xpc["ext"] = "spawnCommand" /\ ~cmdHandle

SomebodyCan ==
  \/ \E h \in Handlers : HandlerCan(h)
  \/ \E t \in Stoppers : SweeperCan(t)
  \/ CommandCan \/ ServerCan \/ StarterCan
  \/ \E t \in Callers : StopperCan(t)

(* As long as a thread is in start() or stop(), or a call is not answered,   *)
(* somebody can go on, unless a client stops the server from inside, or      *)
(* stop() came before the server listened.                                   *)
NobodyStuck ==
  (\E t \in Callers : xpc[t] # "out") \/ (\E h \in Handlers : Live(h)) =>
    SomebodyCan \/ StoppedFromInside \/ StopLost

(* Who is in stop() has asked the listener to stop, be it too early; who     *)
(* sweeps is at that place; the command thread stops the server only inside  *)
(* a command that says so, and start() finds no thread.                      *)
MoveInv ==
  /\ \A t \in Callers : spc[t] # "out" <=> xpc[t] = "sweep"
  /\ spc["server"] # "out" <=> srv = "sweep"
  /\ srvHandle <=> srv # "off"
  /\ (\E t \in Callers : xpc[t] \in InStop) => stopAsked # "no"
  /\ Spawning => ~cmdHandle
  /\ xpc["ext"] = "spawnServer" => ~srvHandle
  /\ InsideCommand /\ xpc["command"] # "inCommandJoin"
  /\ \A t \in Callers \ {"ext"} : xpc[t] \notin {"spawnServer", "spawnCommand"}
  /\ \A t \in Callers \ {"command"} : xpc[t] # "thrown"
  /\ \A t \in Callers \ Shutdowns : xpc[t] # "sleep"

(* Every step keeps MoveInv.                                                 *)
LEMMA MoveStep ==
  ASSUME Restarts \subseteq {{"user"}}, LifeInv, MoveInv, [HttpNext]_httpVars
  PROVE  MoveInv'
<1>t. HttpTypeOK /\ (Spawning => cpc = "off")
  BY DEF LifeInv
<1>x. /\ xpc \in [Callers -> CallerPlaces]
      /\ spc \in [Stoppers -> {"out", "swap", "sweep", "note"}]
      /\ "ext" \in Callers /\ "command" \in Callers /\ Shutdowns \subseteq Callers
      /\ "ext" \notin Shutdowns /\ "command" \notin Shutdowns
      /\ "server" \in Stoppers /\ "server" \notin Callers /\ Callers \subseteq Stoppers
  BY <1>t, StopperNames DEF HttpTypeOK, TypeOK, Callers, CallerPlaces
<1>e. \A r : StopsServer(r)' = StopsServer(r)
  BY EndingsFixed DEF StopsServer
<1>. USE DEF MoveInv, InStop, Spawning, InsideCommand
<1>1. CASE Start
  <2>1. AtRest
    BY <1>1, StartAtRest
  <2>2. /\ xpc'["ext"] = "spawnServer" /\ \A t \in Callers \ {"ext"} : xpc'[t] = xpc[t]
        /\ UNCHANGED <<srv, srvHandle, cmdHandle, spc>>
    BY <1>1, <1>x DEF Start, Goto, stopVars
  <2>. QED BY <1>x, <2>1, <2>2 DEF AtRest
<1>2. CASE SpawnServer \/ SpawnCommand
  <2>1. /\ xpc["ext"] \in {"spawnServer", "spawnCommand"} /\ xpc'["ext"] \in {"spawnCommand", "out"}
        /\ \A t \in Callers \ {"ext"} : xpc'[t] = xpc[t]
        /\ SpawnServer => srv' = "spawned" /\ srvHandle' /\ ~srvHandle /\ UNCHANGED cmdHandle
        /\ SpawnCommand => xpc'["ext"] = "out" /\ UNCHANGED <<srv, srvHandle>>
        /\ UNCHANGED <<spc, stopAsked>>
    BY <1>2, <1>x DEF SpawnServer, SpawnCommand, Goto, vars, stopVars
  <2>2. xpc["command"] = "out"
    BY <1>t, <2>1
  <2>. QED BY <1>2, <1>x, <2>1, <2>2
<1>3. CASE Listens \/ ListenReturns \/ ServerClear \/ ServerEnds
  <2>1. /\ UNCHANGED <<xpc, cpc, job, cmdHandle, srvHandle, stopAsked>>
        /\ \A t \in Callers : spc'[t] = spc[t]
        /\ \/ srv = "spawned" /\ srv' = "listen" /\ UNCHANGED spc
           \/ srv = "listen" /\ srv' = "returned" /\ UNCHANGED spc
           \/ srv = "returned" /\ srv' = "sweep" /\ spc'["server"] = "swap"
           \/ srv = "sweep" /\ srv' = "ended" /\ spc'["server"] = "out"
    <3>0. CASE Listens
      <4>1. srv = "spawned" /\ srv' = "listen" /\ UNCHANGED <<vars, xpc, cmdHandle, srvHandle, stopAsked>>
        BY <3>0, Zenon DEF Listens
      <4>. QED BY <4>1 DEF vars, commandVars, stopVars
    <3>1. CASE ListenReturns
      <4>1. srv = "listen" /\ srv' = "returned" /\ UNCHANGED <<vars, xpc, cmdHandle, srvHandle, stopAsked>>
        BY <3>1, Zenon DEF ListenReturns
      <4>. QED BY <4>1 DEF vars, commandVars, stopVars
    <3>2. CASE ServerClear
      BY <1>x, <3>2 DEF ServerClear, BeginStop, commandVars
    <3>3. CASE ServerEnds
      <4>1. spc["server"] = "sweep" /\ spc' = [spc EXCEPT !["server"] = "out"]
        BY <3>3 DEF ServerEnds, EndSweep
      <4>2. srv = "sweep" /\ spc'["server"] = "out" /\ \A t \in Callers : spc'[t] = spc[t]
        BY <1>x, <4>1
      <4>. QED BY <3>3, <4>2 DEF ServerEnds, EndSweep, commandVars
    <3>. QED BY <1>3, <3>0, <3>1, <3>2, <3>3
  <2>. QED BY <1>e, <1>x, <2>1
<1>4. ASSUME NEW t \in Callers, AskStop(t) \/ StopCall(t) PROVE MoveInv'
  <2>1. /\ UNCHANGED <<cpc, job>> /\ \A u \in Callers \ {t} : xpc'[u] = xpc[u] /\ spc'[u] = spc[u]
        /\ spc'["server"] = spc["server"]
    BY <1>4, <1>x DEF AskStop, StopCall, Clear, BeginStop, SweepEnds, EndSweep, JoinServer,
       ServerJoined, JoinCommand, CommandJoined, Goto, vars, commandVars, stopVars
  <2>2. CASE AskStop(t)
    <3>1. /\ xpc[t] \in {"out", "sleep"} /\ xpc'[t] = "clear" /\ stopAsked' # "no"
          /\ t = "command" => cpc = "exec" /\ StopsServer(job)
          /\ UNCHANGED <<spc, srv, srvHandle, cmdHandle>>
      BY <2>2, <1>x DEF AskStop, Goto, vars, stopVars
    <3>. QED BY <1>e, <1>x, <2>1, <3>1
  <2>3. CASE Clear(t) \/ SweepEnds(t)
    <3>1. /\ \/ xpc[t] = "clear" /\ xpc'[t] = "sweep" /\ spc'[t] = "swap"
             \/ xpc[t] = "sweep" /\ xpc'[t] = "joinServer" /\ spc'[t] = "out"
          /\ UNCHANGED <<stopAsked, srv, srvHandle, cmdHandle>>
      BY <2>3, <1>x DEF Clear, BeginStop, SweepEnds, EndSweep, Goto
    <3>. QED BY <1>e, <1>x, <2>1, <3>1
  <2>4. CASE JoinServer(t) \/ ServerJoined(t)
    <3>1. /\ xpc[t] \in {"joinServer", "inServerJoin"} /\ xpc'[t] \in {"inServerJoin", "joinCommand"}
          /\ \/ UNCHANGED <<srv, srvHandle>>
             \/ srv \in {"ended", "off"} /\ srv' = "off" /\ ~srvHandle'
          /\ UNCHANGED <<spc, stopAsked, cmdHandle>>
      BY <2>4, <1>x DEF JoinServer, ServerJoined, Goto, vars, stopVars
    <3>. QED BY <1>e, <1>x, <2>1, <3>1
  <2>5. CASE JoinCommand(t) \/ CommandJoined(t)
    <3>1. /\ xpc[t] \in {"joinCommand", "inCommandJoin"}
          /\ xpc'[t] \in {"out", "thrown", "inCommandJoin"}
          /\ xpc'[t] = "thrown" => t = "command"
          /\ xpc'[t] = "inCommandJoin" => t # "command"
          /\ UNCHANGED <<spc, stopAsked, srv, srvHandle>> /\ (cmdHandle' => cmdHandle)
      BY <2>5, <1>x DEF JoinCommand, CommandJoined, Goto, vars, stopVars
    <3>. QED BY <1>e, <1>x, <2>1, <3>1
  <2>. QED BY <1>4, <2>2, <2>3, <2>4, <2>5 DEF StopCall
<1>5. CASE FinishHttp
  <2>1. /\ cpc = "exec" /\ xpc'["command"] = "out" /\ \A t \in Callers \ {"command"} : xpc'[t] = xpc[t]
        /\ xpc["command"] \in {"thrown", "out"}
        /\ UNCHANGED <<spc, stopAsked, srv, srvHandle, cmdHandle>>
    BY <1>5, <1>x DEF FinishHttp, Finish, stopVars
  <2>. QED BY <1>x, <2>1
<1>6. CASE QueueStep
  <2>1. /\ UNCHANGED <<xpc, srv, stopAsked, srvHandle, cmdHandle>>
        /\ \A t \in Stoppers : spc'[t] = "out" <=> spc[t] = "out"
        /\ cpc = "exec" => UNCHANGED <<cpc, job>>
    BY <1>t, <1>6, QueueStepSeen DEF serverVars
  <2>. QED BY <1>e, <1>x, <2>1
<1>7. ASSUME NEW t \in Shutdowns, PostShutdown(t) PROVE MoveInv'
  <2>1. /\ xpc[t] = "out" /\ xpc'[t] = "sleep" /\ \A u \in Callers \ {t} : xpc'[u] = xpc[u]
        /\ UNCHANGED <<vars, srv, stopAsked, srvHandle, cmdHandle>>
    BY <1>7, <1>x, Zenon DEF PostShutdown, Goto
  <2>2. UNCHANGED <<cpc, job, spc>>
    BY <2>1 DEF vars, commandVars, stopVars
  <2>. QED BY <1>e, <1>x, <1>7, <2>1, <2>2
<1>8. CASE \/ \E h \in Handlers, r \in Requests : Call(h, r)
           \/ \E r \in Requests : Refused(r)
           \/ UNCHANGED httpVars
  <2>1. UNCHANGED <<cpc, job, spc, serverVars>>
    <3>1. ASSUME NEW r \in Requests, Refused(r)
          PROVE  UNCHANGED <<commandVars, stopVars, serverVars>>
      BY <3>1, Zenon DEF Refused, Refuse
    <3>2. ASSUME NEW h \in Handlers, NEW r \in Requests, Call(h, r)
          PROVE  UNCHANGED <<commandVars, stopVars, serverVars>>
      BY <3>2 DEF Call, Enter
    <3>. QED BY <1>8, <3>1, <3>2 DEF httpVars, vars, commandVars, stopVars
  <2>. QED BY <1>e, <1>x, <2>1 DEF serverVars
<1>. QED BY <1>1, <1>2, <1>3, <1>4, <1>5, <1>6, <1>7, <1>8, <1>x DEF HttpNext

(* The joins, the sweeps and the waits of the HTTP server cannot wait for    *)
(* each other in a circle, for any number of handlers, of threads that stop  *)
(* the server, and of reasons to stop it: while a stop() or a call is under  *)
(* way somebody can go on.  There are two exceptions, a client that sent     *)
(* "!agent stop" to be executed and a stop() that came before the server     *)
(* thread listened (src/http_server.cpp:49, 134, 200-213).                   *)
THEOREM HttpNobodyStuck ==
  ASSUME Restarts \subseteq {{"user"}}
  PROVE  HttpSafety => []NobodyStuck
<1>1. HttpInit => MoveInv /\ WakeInv /\ Served
  <2>. SUFFICES ASSUME HttpInit PROVE MoveInv /\ WakeInv /\ Served
    OBVIOUS
  <2>1. /\ srv = "off" /\ ~srvHandle /\ ~running /\ "ext" \in Callers /\ "command" \in Callers
        /\ \A t \in Callers : xpc[t] = "out"
        /\ \A t \in Stoppers : spc[t] = "out"
        /\ Callers \subseteq Stoppers /\ "server" \in Stoppers
    BY StopperNames DEF HttpInit, Init, Callers
  <2>2. WakeInv
    BY WakeInit DEF HttpInit
  <2>. QED BY <2>1, <2>2 DEF MoveInv, InStop, Spawning, InsideCommand, Served
<1>2. ASSUME LifeInv, MoveInv, WakeInv, Served,
             (\E t \in Callers : xpc[t] # "out") \/ (\E h \in Handlers : Live(h)),
             ~SomebodyCan, ~StoppedFromInside, ~StopLost
      PROVE  FALSE
  <2>x. /\ xpc \in [Callers -> CallerPlaces]
        /\ spc \in [Stoppers -> {"out", "swap", "sweep", "note"}]
        /\ hpc \in [Handlers -> {"idle", "push", "wait", "blocked", "leave"}]
        /\ srv \in {"off", "spawned", "listen", "returned", "sweep", "ended"}
        /\ stopAsked \in {"no", "lost", "yes"}
        /\ "ext" \in Callers /\ "command" \in Callers
        /\ "server" \in Stoppers /\ Callers \subseteq Stoppers /\ Stoppers = Callers \cup {"server"}
    BY <1>2, StopperNames DEF LifeInv, HttpTypeOK, TypeOK, Callers, CallerPlaces
  <2>1. \A t \in Stoppers : spc[t] = "out" /\ SweptBy(t) = {} /\ note[t] = "nobody"
    <3>1. \A t \in Stoppers : spc[t] = "out" \/ (spc[t] = "sweep" /\ swept[t] = <<>>)
      BY <1>2, <2>x DEF SomebodyCan, SweeperCan
    <3>2. \A t \in Callers : spc[t] = "out"
      BY <1>2, <2>x, <3>1 DEF SomebodyCan, StopperCan, MoveInv
    <3>3. spc["server"] = "out"
      BY <1>2, <2>x, <3>1 DEF SomebodyCan, ServerCan
    <3>. QED BY <1>2, <2>x, <3>2, <3>3, EmptyRange DEF WakeInv, StopperInv, SweptBy
  <2>2. \A t \in Callers : xpc[t] \in {"out", "inServerJoin", "inCommandJoin", "thrown"}
    <3>1. \A t \in Callers : xpc[t] \notin {"clear", "sweep", "joinServer", "joinCommand"}
      BY <1>2, <2>x, <2>1 DEF SomebodyCan, StopperCan, MoveInv
    <3>2. \A t \in Callers : xpc[t] # "sleep"
      BY <1>2, <2>x DEF SomebodyCan, StopperCan, MoveInv
    <3>3. \A t \in Callers : xpc[t] \notin {"spawnServer", "spawnCommand"}
      BY <1>2, <2>x DEF SomebodyCan, StarterCan, MoveInv, Spawning
    <3>. QED BY <2>x, <3>1, <3>2, <3>3 DEF CallerPlaces
  <2>3. cpc = "off"
    <3>. SUFFICES ASSUME cpc # "off" PROVE FALSE
      OBVIOUS
    <3>1. cpc = "exec" /\ StopsServer(job)
      BY <1>2 DEF SomebodyCan, CommandCan
    <3>2. xpc["command"] \in {"out", "thrown"}
      BY <1>2, <2>x, <2>2 DEF MoveInv, StoppedFromInside
    <3>3. xpc["command"] = "out" /\ running
      BY <1>2, <3>1, <3>2 DEF SomebodyCan, CommandCan
    <3>. QED BY <1>2, <2>x, <3>1, <3>3 DEF SomebodyCan, StopperCan
  <2>4. \A t \in Callers : xpc[t] \in {"out", "inServerJoin"}
    <3>1. \A t \in Callers : xpc[t] # "inCommandJoin"
      BY <1>2, <2>3 DEF SomebodyCan, StopperCan
    <3>2. \A t \in Callers : xpc[t] # "thrown"
      BY <1>2, <2>3, <2>x DEF MoveInv, InsideCommand
    <3>. QED BY <2>2, <3>1, <3>2
  <2>5. \A h \in Handlers : ~Live(h)
    <3>1. ~running
      BY <1>2, <2>x, <2>3, <2>4 DEF Served, Spawning
    <3>2. \A h \in Handlers : ~Attended(h)
      <4>1. \A h \in Handlers : h \notin InHand
        BY <2>3, HandlerNames DEF InHand
      <4>2. \A t \in Stoppers : spc[t] # "swap"
        BY <2>1
      <4>. QED BY <2>1, <2>3, <3>1, <4>1, <4>2, HandlerNames DEF Attended
    <3>3. \A h \in Handlers : hpc[h] # "blocked"
      BY <1>2, <3>2 DEF WakeInv
    <3>. QED BY <1>2, <2>x, <3>3 DEF SomebodyCan, HandlerCan, Live
  <2>6. PICK t \in Callers : xpc[t] = "inServerJoin"
    BY <1>2, <2>4, <2>5
  <2>7. srv = "listen" => stopAsked = "yes"
    BY <1>2, <2>6, <2>x DEF MoveInv, InStop, StopLost
  <2>8. srv \notin {"ended", "off"} /\ srv # "sweep"
    BY <1>2, <2>1, <2>6, <2>x DEF SomebodyCan, StopperCan, MoveInv
  <2>9. srv \in {"listen", "returned"}
    BY <1>2, <2>x, <2>8 DEF SomebodyCan, ServerCan
  <2>. QED BY <1>2, <2>1, <2>5, <2>7, <2>9, <2>x DEF SomebodyCan, ServerCan
<1>3. LifeInv /\ MoveInv /\ WakeInv /\ Served => NobodyStuck
  BY <1>2 DEF NobodyStuck
<1>. QED BY <1>1, <1>3, LifeInit, LifeStep, MoveStep, WakeKept, PTL DEF HttpSafety

-----------------------------------------------------------------------------
(* Nobody else uses the thread handles that the user's commands assign to    *)
(* and join.                                                                 *)
THEOREM UserHandlesFree ==
  ASSUME Endings = {{"user"}}
  PROVE  HttpSafety => []HandlesFree
<1>1. Restarts \subseteq {{"user"}}
  BY EndingWays
<1>2. LifeInv => HandlesFree
  <2>. SUFFICES ASSUME LifeInv PROVE HandlesFree
    OBVIOUS
  <2>1. OneCaller /\ Places
    BY DEF LifeInv, HttpTypeOK
  <2>. QED BY <2>1 DEF HandlesFree, OneCaller, Places
<1>. QED BY <1>1, <1>2, LifeHolds, PTL
=============================================================================
