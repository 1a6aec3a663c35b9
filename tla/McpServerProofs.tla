---------------------------- MODULE McpServerProofs ----------------------------
(***************************************************************************)
(* The theorems about McpServer, for any number of handlers and requests.   *)
(* The types, the wakeups and the life of the server hold in any number of   *)
(* sessions.  What a client may rely on is proved of one: the next may find  *)
(* a pointer in the queue.                                                   *)
(***************************************************************************)
EXTENDS McpServer, CommandQueueProofs

CallerPlaces ==
  {"out", "setRunning", "spawnCommand", "sweep", "stopSse", "inSseStop", "joinCommand",
   "inCommandJoin", "thrown"}

(* Apart from two steps of start() the server takes the steps of the queue,  *)
(* none of which creates a command thread.                                   *)
QueueMove == [Next]_vars /\ (cpc = "off" => cpc' = "off")

(* Every step is one of these, or one of the two.                            *)
LEMMA QueueMoves ==
  ASSUME [McpNext]_mcpVars
  PROVE  QueueMove \/ SetRunning \/ SpawnCommand
<1>1. ASSUME NEW t \in Stoppers, ClearWhenAsked(t) \/ StopCall(t) PROVE QueueMove
  <2>1. CASE ClearWhenAsked(t)
    <3>1. BeginStop(t) /\ UNCHANGED cpc
      BY <2>1 DEF ClearWhenAsked, BeginStop, commandVars
    <3>. QED BY <3>1 DEF QueueMove, Next
  <2>2. CASE SweepEnds(t)
    <3>1. EndSweep(t) /\ UNCHANGED cpc
      BY <2>2 DEF SweepEnds, EndSweep, commandVars
    <3>. QED BY <3>1 DEF QueueMove, Next, StopStep
  <2>3. CASE AskSse(t) \/ SseStopped(t) \/ JoinCommand(t) \/ CommandJoined(t)
    <3>1. UNCHANGED vars /\ UNCHANGED cpc
      BY <2>3 DEF AskSse, SseStopped, JoinCommand, CommandJoined, vars, commandVars
    <3>. QED BY <3>1 DEF QueueMove
  <2>. QED BY <1>1, <2>1, <2>2, <2>3 DEF StopCall
<1>2. CASE QueueStep
  <2>1. Next
    BY <1>2 DEF QueueStep, Next, CommandStep, StopStep
  <2>2. cpc = "off" => cpc' = "off"
    BY <1>2 DEF QueueStep, HandlerStep, Push, Check, Leave, SpuriousWakeup, LoopTest, PopNothing,
       Pop, Begin, Complete, Notify, Swap, SweepOne, NotifySwept, commandVars
  <2>. QED BY <2>1, <2>2 DEF QueueMove
<1>3. ASSUME NEW h \in Handlers, NEW r \in Requests, Call(h, r) PROVE QueueMove
  <2>1. Enter(h, r) /\ UNCHANGED cpc
    BY <1>3 DEF Call, Enter, commandVars
  <2>. QED BY <2>1 DEF QueueMove, Next
<1>4. ASSUME NEW r \in Requests, Refused(r) PROVE QueueMove
  <2>1. Refuse(r) /\ UNCHANGED cpc
    BY <1>4, Zenon DEF Refused, Refuse, commandVars
  <2>. QED BY <2>1 DEF QueueMove, Next
<1>5. CASE FinishMcp
  <2>1. Finish /\ cpc # "off"
    BY <1>5 DEF FinishMcp, Finish
  <2>. QED BY <2>1 DEF QueueMove, Next, CommandStep
<1>6. CASE Listen \/ UNCHANGED mcpVars
  <2>1. UNCHANGED vars /\ UNCHANGED cpc
    BY <1>6 DEF Listen, mcpVars, vars, commandVars
  <2>. QED BY <2>1 DEF QueueMove
<1>. QED BY <1>1, <1>2, <1>3, <1>4, <1>5, <1>6 DEF McpNext

(* Nothing is there at first.                                                *)
LEMMA McpTypeInit == McpInit => McpTypeOK
<1>1. McpInit => TypeOK
  BY TypeInit DEF McpInit
<1>2. McpInit => sessions \in 0 .. MaxSessions
  BY SessionBound DEF McpInit
<1>. QED BY <1>1, <1>2, Zenon DEF McpInit, McpTypeOK

(* Every step keeps the types.                                               *)
LEMMA McpTypeStep == McpTypeOK /\ [McpNext]_mcpVars => McpTypeOK'
<1>. SUFFICES ASSUME McpTypeOK, [McpNext]_mcpVars PROVE McpTypeOK'
  OBVIOUS
<1>t. TypeOK'
  <2>1. CASE QueueMove
    BY <2>1, TypeStep DEF McpTypeOK, QueueMove
  <2>2. CASE SetRunning \/ SpawnCommand
    BY <2>2 DEF McpTypeOK, TypeOK, CmdHeld, SetRunning, SpawnCommand, handlerVars, commandVars, stopVars
  <2>. QED BY <2>1, <2>2, QueueMoves
<1>. DEFINE Rest == /\ sse' \in {"off", "listen", "stopping"}
                    /\ cmdHandle' \in BOOLEAN
                    /\ xpc' \in [Stoppers -> CallerPlaces]
                    /\ sessions' \in 0 .. MaxSessions
<1>. SUFFICES Rest
  BY <1>t DEF McpTypeOK, CallerPlaces
<1>. USE DEF McpTypeOK, CallerPlaces
<1>1. CASE Listen \/ SetRunning \/ SpawnCommand
  <2>1. /\ sse' \in {sse, "listen"} /\ cmdHandle' \in {cmdHandle, TRUE}
        /\ \E to \in {"setRunning", "spawnCommand", "out"} : xpc' = [xpc EXCEPT !["ext"] = to]
    BY <1>1 DEF Listen, SetRunning, SpawnCommand, Goto
  <2>2. sessions' \in 0 .. MaxSessions
    BY <1>1, SessionBound DEF Listen, MayStart, SetRunning, SpawnCommand
  <2>. QED BY <2>1, <2>2
<1>2. ASSUME NEW t \in Stoppers, ClearWhenAsked(t) \/ StopCall(t) PROVE Rest
  <2>1. /\ UNCHANGED sessions /\ sse' \in {sse, "stopping", "off"} /\ cmdHandle' \in {cmdHandle, FALSE}
        /\ \E to \in {"sweep", "stopSse", "inSseStop", "joinCommand", "inCommandJoin", "thrown", "out"} :
             xpc' = [xpc EXCEPT ![t] = to]
    BY <1>2 DEF ClearWhenAsked, StopCall, SweepEnds, AskSse, SseStopped, JoinCommand,
       CommandJoined, Goto
  <2>. QED BY <2>1
<1>3. CASE \/ QueueStep \/ UNCHANGED mcpVars
           \/ \E h \in Handlers, r \in Requests : Call(h, r)
           \/ \E r \in Requests : Refused(r)
  BY <1>3 DEF QueueStep, mcpVars, Call, Refused, serverVars
<1>4. CASE FinishMcp
  BY <1>4 DEF FinishMcp
<1>. QED BY <1>1, <1>2, <1>3, <1>4 DEF McpNext

(* The types of McpServer hold in every execution, for any number of         *)
(* handlers, requests and sessions.                                          *)
THEOREM McpTypeCorrect == McpSafety => []McpTypeOK
<1>. QED BY McpTypeInit, McpTypeStep, PTL DEF McpSafety

-----------------------------------------------------------------------------
(* The first session.                                                        *)

(* Nothing has been used: neither the queue nor a thread.                    *)
Unused ==
  /\ Quiet
  /\ \A t \in Stoppers : spc[t] = "out" /\ (t # "ext" => xpc[t] = "out")

LifeInv ==
  /\ McpTypeOK
  /\ sessions = 0 => xpc["ext"] = "out"
  /\ sessions = 0 \/ xpc["ext"] = "setRunning" => Unused
  /\ xpc["ext"] = "spawnCommand" => cpc = "off" /\ running

(* At first nothing has been used.                                           *)
LEMMA LifeInit == McpInit => LifeInv
<1>. SUFFICES ASSUME McpInit PROVE LifeInv
  OBVIOUS
<1>1. McpTypeOK
  BY McpTypeInit
<1>2. "ext" \in Stoppers
  BY CallerNames
<1>3. /\ ~running /\ cpc = "off" /\ queue = <<>>
      /\ \A h \in Handlers : hpc[h] = "idle"
      /\ \A t \in Stoppers : swept[t] = <<>> /\ spc[t] = "out"
  BY DEF McpInit, Init
<1>4. \A t \in Stoppers : xpc[t] = "out"
  BY DEF McpInit
<1>. QED BY <1>1, <1>2, <1>3, <1>4 DEF LifeInv, Unused, Quiet, Live

(* What has not been used is used by start() alone.                          *)
LEMMA UnusedEnds ==
  ASSUME LifeInv, Unused, sessions = 0 \/ xpc["ext"] = "setRunning", [McpNext]_mcpVars
  PROVE  Listen \/ SetRunning \/ (\E r \in Requests : Refused(r)) \/ UNCHANGED mcpVars
<1>1. /\ ~running /\ cpc = "off" /\ queue = <<>>
      /\ \A h \in Handlers : hpc[h] = "idle"
      /\ \A t \in Stoppers : spc[t] = "out" /\ (t # "ext" => xpc[t] = "out")
      /\ "ext" \in Stoppers /\ xpc["ext"] \in {"out", "setRunning"}
  BY CallerNames DEF LifeInv, Unused, Quiet, Live
<1>2. ~SpawnCommand /\ ~FinishMcp
  BY <1>1 DEF SpawnCommand, FinishMcp, Finish, Goto
<1>3. \A h \in Handlers, r \in Requests : ~Call(h, r)
  BY <1>1 DEF Call, Enter
<1>4. \A t \in Stoppers : ~ClearWhenAsked(t) /\ ~StopCall(t)
  BY <1>1 DEF ClearWhenAsked, StopCall, SweepEnds, AskSse, SseStopped, JoinCommand,
     CommandJoined, Goto
<1>5. ~QueueStep
  BY <1>1 DEF QueueStep, HandlerStep, Push, Check, Leave, SpuriousWakeup, LoopTest, PopNothing,
     Pop, Begin, Complete, Notify, Swap, SweepOne, NotifySwept
<1>. QED BY <1>2, <1>3, <1>4, <1>5 DEF McpNext

(* A step of the queue, or a call, ends no session and no command.           *)
LEMMA QueueStepKeeps ==
  ASSUME \/ QueueStep
         \/ \E h \in Handlers, r \in Requests : Call(h, r)
         \/ \E r \in Requests : Refused(r)
  PROVE  UNCHANGED <<running, ran>> /\ (cpc = "exec" => UNCHANGED <<cpc, job>>)
<1>1. CASE QueueStep
  BY <1>1 DEF QueueStep, HandlerStep, Push, Check, Leave, SpuriousWakeup, LoopTest, PopNothing,
     Pop, Begin, Complete, Notify, Swap, SweepOne, NotifySwept, commandVars
<1>2. ASSUME NEW h \in Handlers, NEW r \in Requests, Call(h, r)
      PROVE  UNCHANGED <<running, commandVars>>
  BY <1>2 DEF Call, Enter
<1>3. ASSUME NEW r \in Requests, Refused(r)
      PROVE  UNCHANGED <<running, commandVars>>
  BY <1>3, Zenon DEF Refused, Refuse
<1>. QED BY <1>1, <1>2, <1>3 DEF commandVars

(* Every step keeps the first session in order.                              *)
LEMMA LifeStep ==
  ASSUME MaxSessions = 1
  PROVE  LifeInv /\ [McpNext]_mcpVars => LifeInv'
<1>. SUFFICES ASSUME LifeInv, [McpNext]_mcpVars PROVE LifeInv'
  OBVIOUS
<1>t. McpTypeOK /\ McpTypeOK'
  BY McpTypeStep DEF LifeInv
<1>x. xpc \in [Stoppers -> CallerPlaces] /\ "ext" \in Stoppers /\ "command" \in Stoppers
      /\ sessions \in 0 .. 1
  BY <1>t, CallerNames DEF McpTypeOK, CallerPlaces
<1>1. CASE sessions = 0 \/ xpc["ext"] = "setRunning"
  <2>1. Unused /\ cpc = "off"
    BY <1>1 DEF LifeInv, Unused, Quiet
  <2>2. CASE Listen
    <3>1. /\ UNCHANGED <<vars, cmdHandle>> /\ sessions' = sessions + 1
          /\ xpc'["ext"] = "setRunning" /\ \A t \in Stoppers \ {"ext"} : xpc'[t] = xpc[t]
      BY <1>x, <2>2 DEF Listen, Goto
    <3>2. Unused'
      BY <2>1, <3>1 DEF Unused, Quiet, Live, vars, handlerVars, commandVars, stopVars
    <3>. QED BY <1>t, <1>x, <3>1, <3>2 DEF LifeInv
  <2>3. CASE SetRunning
    <3>1. /\ xpc["ext"] = "setRunning" /\ xpc'["ext"] = "spawnCommand" /\ running'
          /\ UNCHANGED <<cpc, sessions>>
      BY <1>x, <2>3 DEF SetRunning, Goto, commandVars
    <3>. QED BY <1>t, <1>x, <2>1, <3>1 DEF LifeInv
  <2>4. ASSUME NEW r \in Requests, Refused(r) PROVE LifeInv'
    <3>1. UNCHANGED <<running, queue, hpc, commandVars, stopVars, xpc, sessions>>
      BY <2>4, Zenon DEF Refused, Refuse, serverVars
    <3>2. Unused'
      BY <2>1, <3>1 DEF Unused, Quiet, Live, commandVars, stopVars
    <3>. QED BY <1>t, <3>1, <3>2 DEF LifeInv, commandVars
  <2>5. CASE UNCHANGED mcpVars
    <3>1. Unused'
      BY <2>1, <2>5 DEF Unused, Quiet, Live, mcpVars, serverVars, vars, handlerVars, commandVars,
         stopVars
    <3>. QED BY <1>t, <2>5, <3>1 DEF LifeInv, mcpVars, serverVars, vars, commandVars
  <2>. QED BY <1>1, <2>1, <2>2, <2>3, <2>4, <2>5, UnusedEnds
<1>2. CASE sessions # 0 /\ xpc["ext"] # "setRunning"
  <2>1. ~Listen /\ ~SetRunning
    BY <1>2, <1>x DEF Listen, MayStart, SetRunning, Goto
  <2>2. CASE SpawnCommand
    <3>1. xpc'["ext"] = "out" /\ UNCHANGED sessions
      BY <1>x, <2>2 DEF SpawnCommand, Goto
    <3>. QED BY <1>2, <1>t, <3>1 DEF LifeInv
  <2>3. ASSUME NEW t \in Stoppers, ClearWhenAsked(t) \/ StopCall(t)
        PROVE  /\ UNCHANGED sessions
               /\ xpc'["ext"] \in {"setRunning", "spawnCommand"} => xpc'["ext"] = xpc["ext"]
               /\ xpc["ext"] = "spawnCommand" => UNCHANGED running
    <3>1. CASE StopCall(t)
      BY <1>x, <3>1 DEF StopCall, SweepEnds, EndSweep, AskSse, SseStopped, JoinCommand,
         CommandJoined, Goto, vars
    <3>2. CASE ClearWhenAsked(t)
      <4>1. xpc["ext"] # "spawnCommand"
        BY <3>2 DEF ClearWhenAsked, Goto, LifeInv
      <4>. QED BY <1>x, <3>2, <4>1 DEF ClearWhenAsked, Goto
    <3>. QED BY <2>3, <3>1, <3>2
  <2>4. CASE FinishMcp
    <3>1. xpc' = [xpc EXCEPT !["command"] = "out"] /\ UNCHANGED sessions
      BY <2>4 DEF FinishMcp
    <3>2. xpc'["ext"] = xpc["ext"]
      BY <1>x, <3>1
    <3>3. cpc = "exec"
      BY <2>4 DEF FinishMcp, Finish
    <3>. QED BY <1>2, <1>t, <3>1, <3>2, <3>3 DEF LifeInv
  <2>5. ASSUME \/ QueueStep \/ UNCHANGED mcpVars
               \/ \E h \in Handlers, r \in Requests : Call(h, r)
               \/ \E r \in Requests : Refused(r)
        PROVE  UNCHANGED <<running, xpc, sessions>>
    <3>1. UNCHANGED <<xpc, sessions>>
      BY <2>5 DEF QueueStep, mcpVars, Call, Refused, serverVars
    <3>. QED BY <2>5, <3>1, QueueStepKeeps DEF mcpVars, vars
  <2>6. ASSUME QueueMove, UNCHANGED sessions,
               xpc'["ext"] \in {"setRunning", "spawnCommand"} => xpc'["ext"] = xpc["ext"],
               xpc["ext"] = "spawnCommand" => UNCHANGED running
        PROVE  LifeInv'
    BY <1>2, <1>t, <2>6 DEF LifeInv, QueueMove
  <2>7. ASSUME ~SpawnCommand, ~FinishMcp PROVE LifeInv'
    <3>1. QueueMove
      BY <2>1, <2>7, QueueMoves
    <3>2. /\ UNCHANGED sessions
          /\ xpc'["ext"] \in {"setRunning", "spawnCommand"} => xpc'["ext"] = xpc["ext"]
          /\ xpc["ext"] = "spawnCommand" => UNCHANGED running
      BY <2>1, <2>3, <2>5, <2>7 DEF McpNext
    <3>. QED BY <2>6, <3>1, <3>2
  <2>. QED BY <2>2, <2>4, <2>7
<1>. QED BY <1>1, <1>2

(* start() keeps what OwnInv and AnswerInv say.                              *)
LEMMA StartKeeps ==
  ASSUME LifeInv, OwnInv, AnswerInv, [McpNext]_mcpVars, SetRunning \/ SpawnCommand
  PROVE  OwnInv' /\ AnswerInv'
<1>1. /\ UNCHANGED <<queue, slot, hpc, answer, cmd, job, ran, swept>>
      /\ cpc = "off" /\ cpc' \in {"off", "test"}
  <2>1. cpc = "off"
    BY DEF LifeInv, Unused, Quiet, SetRunning, SpawnCommand, Goto
  <2>. QED BY <2>1 DEF SetRunning, SpawnCommand, handlerVars, commandVars, stopVars
<1>2. InHand = {} /\ InHand' = {}
  BY <1>1 DEF InHand
<1>3. TypeOK'
  BY McpTypeStep DEF LifeInv, McpTypeOK
<1>4. ExclusiveOwnership' /\ \A h \in Handlers : Owned(h)' = Owned(h)
  BY <1>1, <1>2, SameOwners DEF OwnInv
<1>5. \A h \in Handlers : Owned(h) /\ hpc[h] \in {"idle", "leave"} => ~running'
  <2>1. CASE SetRunning
    <3>1. Quiet
      BY <2>1 DEF SetRunning, Goto, LifeInv, Unused
    <3>2. \A h \in Handlers : ~Owned(h)
      BY <1>2, <3>1, EmptyRange DEF Quiet, Owned, Queued, SweptBy
    <3>. QED BY <3>2
  <2>2. CASE SpawnCommand
    BY <2>2 DEF SpawnCommand, OwnInv, FrameInv, StaleAfterStop
  <2>. QED BY <2>1, <2>2
<1>6. FrameInv'
  BY <1>1, <1>4, <1>5 DEF OwnInv, FrameInv, Unqueued, StaleAfterStop, CompletedFree, Live
<1>7. AnswerInv'
  <2>1. \A h \in Handlers : Live(h)' = Live(h) /\ (hpc'[h] = "push" => hpc[h] = "push")
    BY <1>1 DEF Live
  <2>. QED BY <1>1, <1>4, <2>1, SameAnswers
<1>. QED BY <1>3, <1>4, <1>6, <1>7 DEF OwnInv

(* Every step of the server is a step of the service or a stutter of it.     *)
LEMMA McpServiceStep ==
  LifeInv /\ OwnInv /\ AnswerInv /\ [McpNext]_mcpVars =>
    OwnInv' /\ AnswerInv' /\ [Service!Next]_(Service!vars)
<1>. SUFFICES ASSUME LifeInv, OwnInv, AnswerInv, [McpNext]_mcpVars
              PROVE  OwnInv' /\ AnswerInv' /\ [Service!Next]_(Service!vars)
  OBVIOUS
<1>1. CASE QueueMove
  BY <1>1, OwnStep, AnswerStep, ServiceStep DEF QueueMove
<1>2. CASE SetRunning \/ SpawnCommand
  <2>1. UNCHANGED <<answer, job, ran>>
    BY <1>2 DEF SetRunning, SpawnCommand, handlerVars, commandVars
  <2>2. UNCHANGED Service!vars
    BY <2>1 DEF Service!vars, Exec
  <2>. QED BY <1>2, <2>2, StartKeeps
<1>. QED BY <1>1, <1>2, QueueMoves

(* A client of the MCP server may rely on ExecService for one session, even  *)
(* if a client stops the server from inside.                                 *)
THEOREM McpImplementsService ==
  ASSUME MaxSessions = 1
  PROVE  McpSafety => ServiceSpec
<1>1. McpInit => Init
  BY DEF McpInit
<1>. QED BY <1>1, LifeInit, LifeStep, OwnInit, AnswerInit, ServiceInit, McpServiceStep, PTL
         DEF McpSafety, ServiceSpec, Service!Spec

(* The output that a client of the MCP server is given is that of its own    *)
(* command, run to its end, for one session.                                 *)
THEOREM McpOwnAnswer ==
  ASSUME MaxSessions = 1
  PROVE  McpSafety => []OwnAnswer
<1>1. McpInit => Init
  BY DEF McpInit
<1>2. AnswerInv => OwnAnswer
  BY DEF AnswerInv
<1>. QED BY <1>1, <1>2, LifeInit, LifeStep, OwnInit, AnswerInit, McpServiceStep, PTL
         DEF McpSafety

(* In the MCP server, too, every queued command has one owner, for one       *)
(* session.                                                                  *)
THEOREM McpExclusiveOwnership ==
  ASSUME MaxSessions = 1
  PROVE  McpSafety => []ExclusiveOwnership
<1>1. McpInit => Init
  BY DEF McpInit
<1>2. OwnInv => ExclusiveOwnership
  BY DEF OwnInv
<1>. QED BY <1>1, <1>2, LifeInit, LifeStep, OwnInit, AnswerInit, McpServiceStep, PTL
         DEF McpSafety

-----------------------------------------------------------------------------
(* The end of the session.                                                   *)

Starting == xpc["ext"] \in {"setRunning", "spawnCommand"}

(* The command thread is in stop() only while it executes "!agent stop", and *)
(* there is a handle on it until it was joined.  Once running_ was cleared   *)
(* somebody is in stop(), until the thread is joined or the client that      *)
(* stopped the server from inside has its command executed.                  *)
EndInv ==
  /\ sse = "off" => \A h \in Handlers : ~Live(h)
  /\ xpc["command"] # "out" => cpc = "exec" /\ job \in StopRequests
  /\ sessions = 0 => ~cmdHandle
  /\ sessions # 0 /\ ~Starting => cmdHandle \/ cpc = "off"
  /\ sessions # 0 /\ ~running =>
       \/ xpc["ext"] # "out" \/ xpc["command"] # "out"
       \/ cpc = "off" /\ ~cmdHandle
       \/ StopRequests \cap ran # {}

(* There is no session at first.                                             *)
LEMMA EndInit == McpInit => EndInv
<1>. SUFFICES ASSUME McpInit PROVE EndInv
  OBVIOUS
<1>1. "command" \in Stoppers
  BY CallerNames
<1>. QED BY <1>1 DEF McpInit, Init, EndInv, Live

(* Every step keeps what is known about the end of the session.              *)
LEMMA EndStep ==
  ASSUME LifeInv, EndInv, [McpNext]_mcpVars
  PROVE  EndInv'
<1>x. /\ xpc \in [Stoppers -> CallerPlaces] /\ "ext" \in Stoppers /\ "command" \in Stoppers
      /\ Stoppers = {"ext", "command"} /\ sessions \in Nat
  BY CallerNames, SessionBound DEF LifeInv, McpTypeOK, CallerPlaces
<1>s. /\ Starting => cpc = "off"
      /\ sessions = 0 => cpc = "off" /\ xpc["ext"] = "out"
  BY DEF Starting, LifeInv, Unused, Quiet
<1>1. CASE Listen
  <2>1. /\ sse' = "listen" /\ xpc'["ext"] = "setRunning" /\ xpc'["command"] = xpc["command"]
        /\ UNCHANGED <<cpc, job, running, ran, cmdHandle>> /\ sessions' # 0
    BY <1>1, <1>x DEF Listen, Goto, vars, commandVars
  <2>. QED BY <2>1 DEF EndInv, Starting
<1>2. CASE SetRunning
  <2>1. /\ running' /\ xpc'["ext"] = "spawnCommand" /\ xpc'["command"] = xpc["command"]
        /\ UNCHANGED <<hpc, cpc, job, sse, cmdHandle, sessions>>
    BY <1>2, <1>x DEF SetRunning, Goto, handlerVars, commandVars
  <2>. QED BY <2>1 DEF EndInv, Starting, Live
<1>3. CASE SpawnCommand
  <2>1. /\ running' /\ cmdHandle' /\ xpc'["command"] = xpc["command"] /\ cpc = "off"
        /\ sessions # 0 /\ UNCHANGED <<hpc, sse, sessions>>
    BY <1>3, <1>x, <1>s DEF SpawnCommand, Goto, handlerVars, LifeInv
  <2>. QED BY <2>1 DEF EndInv, Live
<1>4. ASSUME NEW t \in Stoppers, ClearWhenAsked(t) PROVE EndInv'
  <2>1. /\ UNCHANGED <<hpc, cpc, job, sse, cmdHandle, sessions>> /\ xpc'[t] = "sweep"
        /\ \A u \in Stoppers \ {t} : xpc'[u] = xpc[u]
        /\ xpc[t] = "out" /\ (t = "command" => cpc = "exec" /\ job \in StopRequests)
    BY <1>4, <1>x DEF ClearWhenAsked, BeginStop, Goto, handlerVars, commandVars
  <2>. QED BY <1>x, <2>1 DEF EndInv, Starting, Live
<1>5. ASSUME NEW t \in Stoppers, SweepEnds(t) \/ AskSse(t) \/ SseStopped(t) PROVE EndInv'
  <2>1. /\ UNCHANGED <<running, hpc, cpc, job, ran, cmdHandle, sessions>>
        /\ xpc[t] \in {"sweep", "stopSse", "inSseStop"}
        /\ xpc'[t] \in {"stopSse", "inSseStop", "joinCommand"}
        /\ \A u \in Stoppers \ {t} : xpc'[u] = xpc[u]
        /\ sse' = "off" => sse = "off" \/ \A h \in Handlers : ~Live(h)
    BY <1>5, <1>x DEF SweepEnds, EndSweep, AskSse, SseStopped, Goto, vars, handlerVars, commandVars
  <2>. QED BY <1>x, <2>1 DEF EndInv, Starting, Live
<1>6. ASSUME NEW t \in Stoppers, JoinCommand(t) PROVE EndInv'
  <2>1. /\ UNCHANGED <<running, hpc, cpc, job, ran, sse, cmdHandle, sessions>>
        /\ xpc[t] = "joinCommand"
        /\ xpc'[t] \in {"out", "thrown", "inCommandJoin"} /\ (xpc'[t] = "out" => ~cmdHandle)
        /\ \A u \in Stoppers \ {t} : xpc'[u] = xpc[u]
    BY <1>6, <1>x DEF JoinCommand, Goto, vars, handlerVars, commandVars
  <2>2. ~cmdHandle => cpc = "off"
    BY <1>s DEF EndInv
  <2>. QED BY <1>x, <2>1, <2>2 DEF EndInv, Starting, Live
<1>7. ASSUME NEW t \in Stoppers, CommandJoined(t) PROVE EndInv'
  <2>1. /\ UNCHANGED <<running, hpc, cpc, job, ran, sse, sessions>> /\ ~cmdHandle' /\ cpc = "off"
        /\ xpc[t] = "inCommandJoin" /\ xpc'[t] = "out"
        /\ \A u \in Stoppers \ {t} : xpc'[u] = xpc[u]
    BY <1>7, <1>x DEF CommandJoined, Goto, vars, handlerVars, commandVars
  <2>. QED BY <1>x, <2>1 DEF EndInv, Live
<1>8. CASE FinishMcp
  <2>1. /\ UNCHANGED <<running, hpc, sse, cmdHandle, sessions>> /\ cpc = "exec"
        /\ ran' = ran \cup {job} /\ xpc'["command"] = "out" /\ xpc'["ext"] = xpc["ext"]
    BY <1>8, <1>x DEF FinishMcp, Finish
  <2>2. xpc["command"] # "out" => StopRequests \cap ran' # {}
    BY <2>1 DEF EndInv
  <2>3. StopRequests \cap ran # {} => StopRequests \cap ran' # {}
    BY <2>1
  <2>. QED BY <1>s, <2>1, <2>2, <2>3 DEF EndInv, Starting, Live
<1>9. CASE \/ QueueStep
           \/ \E h \in Handlers, r \in Requests : Call(h, r)
           \/ \E r \in Requests : Refused(r)
  <2>1. UNCHANGED serverVars
    BY <1>9 DEF QueueStep, Call, Refused
  <2>2. UNCHANGED <<running, ran>> /\ (cpc = "exec" => UNCHANGED <<cpc, job>>)
    BY <1>9, QueueStepKeeps
  <2>3. cpc = "off" => cpc' = "off"
    <3>1. QueueMove \/ SetRunning \/ SpawnCommand
      BY QueueMoves
    <3>2. ~SetRunning /\ ~SpawnCommand
      BY <1>x, <2>1 DEF SetRunning, SpawnCommand, Goto, serverVars
    <3>. QED BY <3>1, <3>2 DEF QueueMove
  <2>4. sse = "off" /\ (\A h \in Handlers : ~Live(h)) => \A h \in Handlers : ~Live(h)'
    <3>1. CASE QueueStep
      BY <3>1 DEF QueueStep, HandlerStep, Push, Check, Leave, SpuriousWakeup, LoopTest, PopNothing,
         Pop, Begin, Complete, Notify, Notified, Swap, SweepOne, NotifySwept, handlerVars, Live
    <3>2. sse = "off" => \A h \in Handlers, r \in Requests : ~Call(h, r)
      BY DEF Call
    <3>3. ASSUME NEW r \in Requests, Refused(r) PROVE UNCHANGED hpc
      BY <3>3, Zenon DEF Refused, Refuse
    <3>. QED BY <1>9, <3>1, <3>2, <3>3 DEF Live
  <2>. QED BY <2>1, <2>2, <2>3, <2>4 DEF EndInv, Starting, serverVars
<1>10. CASE UNCHANGED mcpVars
  BY <1>10 DEF EndInv, Starting, Live, mcpVars, serverVars, vars, handlerVars, commandVars
<1>. QED BY <1>1, <1>2, <1>3, <1>4, <1>5, <1>6, <1>7, <1>8, <1>9, <1>10 DEF McpNext, StopCall

(* When nobody is in stop() after it, there is no call and no command thread *)
(* left, and what may be left in the queue was answered, within one session. *)
THEOREM StopLeavesNoCallHolds ==
  ASSUME MaxSessions = 1
  PROVE  McpSafety => []StopLeavesNoCall
<1>1. McpInit => Init
  BY DEF McpInit
<1>2. LifeInv /\ EndInv /\ OwnInv /\ AnswerInv => StopLeavesNoCall
  <2>. SUFFICES ASSUME LifeInv, EndInv, OwnInv, AnswerInv,
                       ~running, sse = "off", \A t \in Stoppers : xpc[t] = "out"
                PROVE  /\ (cpc = "off" /\ ~cmdHandle) \/ StopRequests \cap ran # {}
                       /\ \A h \in Handlers : ~Live(h)
                       /\ \A h \in Queued : answer[slot[h].req] = Reply(FALSE, "stopped")
    BY DEF StopLeavesNoCall
  <2>1. xpc["ext"] = "out" /\ xpc["command"] = "out"
    BY CallerNames
  <2>2. (cpc = "off" /\ ~cmdHandle) \/ StopRequests \cap ran # {}
    BY <2>1 DEF EndInv, LifeInv, Unused, Quiet
  <2>3. \A h \in Handlers : ~Live(h)
    BY DEF EndInv
  <2>4. \A h \in Queued : h \in Handlers
    BY DEF OwnInv, TypeOK, Queued, Range
  <2>5. \A h \in Queued : answer[slot[h].req] = Reply(FALSE, "stopped")
    BY <2>3, <2>4 DEF AnswerInv, RequestInv, Unanswered, Held, Owned
  <2>. QED BY <2>2, <2>3, <2>5
<1>. QED BY <1>1, <1>2, LifeInit, LifeStep, EndInit, EndStep, OwnInit, AnswerInit, McpServiceStep, PTL
         DEF McpSafety
-----------------------------------------------------------------------------
(* What WinDbg's thread sees of the server, session after session            *)

(* No client has stopped the server.                                         *)
NotInside == xpc["command"] = "out" /\ StopRequests \cap ran = {}

Stops == {"sweep", "stopSse", "inSseStop", "joinCommand", "inCommandJoin"}

(* There is a handle on a command thread that is there; in stop() the server *)
(* runs no longer, and past the stop of the SSE server nobody listens.  A    *)
(* start() finds no command thread, because only a stop() on the command     *)
(* thread leaves one.                                                       *)
SeenInv ==
  /\ cmdHandle \/ cpc = "off"
  /\ \A t \in Stoppers : xpc[t] \in Stops => ~running
  /\ xpc["ext"] \in {"joinCommand", "inCommandJoin"} => sse = "off"
  /\ sessions = 0 => xpc["ext"] = "out" /\ ~running /\ cpc = "off"
  /\ sessions = 0 \/ Starting => cpc = "off" /\ xpc["command"] = "out"
  /\ xpc["ext"] = "setRunning" => ~running
  /\ xpc["ext"] = "spawnCommand" => running
  /\ xpc["command"] # "out" => cpc = "exec" /\ job \in StopRequests
  /\ NotInside /\ xpc["ext"] = "out" /\ ~running => cpc = "off"

(* At first nobody is there.                                                 *)
LEMMA SeenInit == McpInit => SeenInv /\ Life!Init
<1>. SUFFICES ASSUME McpInit PROVE SeenInv /\ Life!Init
  OBVIOUS
<1>1. /\ ~running /\ cpc = "off" /\ sse = "off" /\ ~cmdHandle
      /\ \A t \in Stoppers : xpc[t] = "out"
      /\ "ext" \in Stoppers /\ "command" \in Stoppers
  BY CallerNames DEF McpInit, Init
<1>. QED BY <1>1 DEF SeenInv, Stops, Starting, Stopping, Worker, Listening, Life!Init

(* A step of the queue, or a call, moves no thread through start() or stop()  *)
(* and leaves the server running or stopped; the command thread goes on by   *)
(* itself.                                                                  *)
LEMMA QueueStepSeen ==
  ASSUME \/ QueueStep
         \/ \E h \in Handlers, r \in Requests : Call(h, r)
         \/ \E r \in Requests : Refused(r)
         \/ UNCHANGED mcpVars
  PROVE  /\ UNCHANGED <<serverVars, running>>
         /\ \/ UNCHANGED cpc
            \/ cpc \notin {"off", "exec"} /\ cpc' \notin {"off", "exec"}
            \/ cpc \notin {"off", "exec"} /\ cpc' = "exec"
            \/ cpc \notin {"off", "exec"} /\ cpc' = "off" /\ ~running
<1>u. UNCHANGED serverVars
  BY DEF QueueStep, Call, Refused, mcpVars
<1>1. CASE \/ \E h \in Handlers, r \in Requests : Call(h, r)
           \/ \E r \in Requests : Refused(r)
           \/ UNCHANGED mcpVars
  <2>1. ASSUME NEW r \in Requests, Refused(r) PROVE UNCHANGED <<running, cpc>>
    BY <2>1, Zenon DEF Refused, Refuse, commandVars
  <2>2. ASSUME NEW h \in Handlers, NEW r \in Requests, Call(h, r) PROVE UNCHANGED <<running, cpc>>
    BY <2>2 DEF Call, Enter, commandVars
  <2>. QED BY <1>u, <1>1, <2>1, <2>2 DEF mcpVars, vars, commandVars
<1>2. ASSUME NEW h \in Handlers, HandlerStep(h) \/ SpuriousWakeup(h)
      PROVE  UNCHANGED <<running, cpc>>
  BY <1>2 DEF HandlerStep, Push, Check, Leave, SpuriousWakeup, commandVars
<1>3. ASSUME NEW t \in Stoppers, Swap(t) \/ SweepOne(t) \/ NotifySwept(t)
      PROVE  UNCHANGED <<running, cpc>>
  BY <1>3 DEF Swap, SweepOne, NotifySwept, commandVars
<1>4. CASE LoopTest \/ PopNothing \/ Pop \/ Begin \/ Complete \/ Notify
  <2>1. UNCHANGED running
    BY <1>4 DEF LoopTest, PopNothing, Pop, Begin, Complete, Notify
  <2>2. \/ cpc \notin {"off", "exec"} /\ cpc' \notin {"off", "exec"}
        \/ cpc \notin {"off", "exec"} /\ cpc' = "exec"
        \/ cpc \notin {"off", "exec"} /\ cpc' = "off" /\ ~running
    BY <1>4, Zenon DEF LoopTest, PopNothing, Pop, Begin, Complete, Notify
  <2>. QED BY <1>u, <2>1, <2>2
<1>. QED BY <1>u, <1>1, <1>2, <1>3, <1>4 DEF QueueStep

(* Every step of the server keeps SeenInv, and WinDbg's thread sees a step   *)
(* of ServerLife or none.                                                    *)
LEMMA LifeMaps ==
  ASSUME McpTypeOK, SeenInv, [McpNext]_mcpVars
  PROVE  SeenInv' /\ [Life!Next]_(Life!vars)
<1>x. /\ xpc \in [Stoppers -> CallerPlaces] /\ sessions \in Nat /\ cmdHandle \in BOOLEAN
      /\ "ext" \in Stoppers /\ "command" \in Stoppers /\ Stoppers = {"ext", "command"}
  BY CallerNames, SessionBound DEF McpTypeOK, CallerPlaces
<1>. USE DEF SeenInv, Stops, Starting, Stopping, NotInside
<1>1. CASE Listen
  <2>1. sessions = 0 \/ NotInside
    BY <1>1, <1>x DEF Listen, MayStart
  <2>2. /\ xpc["ext"] = "out" /\ xpc'["ext"] = "setRunning" /\ xpc'["command"] = xpc["command"]
        /\ ~running /\ sse' = "listen" /\ UNCHANGED <<running, cpc, cmdHandle>> /\ sessions' # 0
    BY <1>1, <1>x DEF Listen, Goto, vars, commandVars
  <2>3. cpc = "off" /\ xpc["command"] = "out"
    BY <2>1, <2>2
  <2>4. SeenInv'
    BY <1>x, <2>2, <2>3
  <2>5. ~Stopping /\ UNCHANGED Stopping /\ Worker = "off" /\ UNCHANGED Worker /\ Listening' = TRUE
    BY <2>2, <2>3 DEF Worker, Listening
  <2>. QED BY <2>2, <2>4, <2>5 DEF Life!Listen, Life!Next
<1>2. CASE SetRunning
  <2>1. /\ xpc["ext"] = "setRunning" /\ xpc'["ext"] = "spawnCommand" /\ xpc'["command"] = xpc["command"]
        /\ running' = TRUE /\ UNCHANGED <<cpc, sse, cmdHandle, sessions>>
    BY <1>2, <1>x DEF SetRunning, Goto, commandVars
  <2>2. SeenInv'
    BY <1>x, <2>1
  <2>3. /\ ~running /\ ~Stopping /\ UNCHANGED <<Stopping, Listening>>
        /\ Worker = "off" /\ Worker' = "idle"
    BY <2>1 DEF Worker, Listening
  <2>. QED BY <2>1, <2>2, <2>3 DEF Life!Start, Life!Next
<1>3. CASE SpawnCommand
  <2>1. /\ xpc["ext"] = "spawnCommand" /\ xpc'["ext"] = "out" /\ xpc'["command"] = xpc["command"]
        /\ cpc' = "test" /\ cmdHandle' /\ UNCHANGED <<running, sse, sessions>>
    BY <1>3, <1>x DEF SpawnCommand, Goto
  <2>2. SeenInv'
    BY <1>x, <2>1
  <2>3. UNCHANGED <<Worker, Stopping, Listening>>
    BY <2>1 DEF Worker, Listening
  <2>. QED BY <2>1, <2>2, <2>3 DEF Life!vars
<1>4. ASSUME NEW t \in Stoppers, ClearWhenAsked(t) PROVE SeenInv' /\ Life!Next
  <2>1. /\ xpc[t] = "out" /\ xpc'[t] = "sweep" /\ \A u \in Stoppers \ {t} : xpc'[u] = xpc[u]
        /\ running /\ running' = FALSE /\ UNCHANGED <<cpc, job, ran, sse, cmdHandle, sessions>>
        /\ t = "command" => cpc = "exec" /\ job \in StopRequests
    BY <1>4, <1>x DEF ClearWhenAsked, BeginStop, Goto, commandVars
  <2>2. SeenInv' /\ ~Starting /\ ~Starting'
    BY <1>x, <2>1
  <2>3. UNCHANGED <<Worker, Listening>>
    BY <2>1, <2>2 DEF Worker, Listening
  <2>4. CASE t = "ext"
    <3>1. Stopping' = TRUE
      BY <2>1, <2>4
    <3>. QED BY <2>1, <2>2, <2>3, <3>1 DEF Life!AskStop, Life!Next
  <2>5. CASE t # "ext"
    <3>1. UNCHANGED Stopping
      BY <1>x, <2>1, <2>5
    <3>. QED BY <2>1, <2>2, <2>3, <3>1 DEF Life!Clear, Life!Next
  <2>. QED BY <2>4, <2>5
<1>5. ASSUME NEW t \in Stoppers, SweepEnds(t) \/ AskSse(t) \/ SseStopped(t)
      PROVE  SeenInv' /\ [Life!Next]_(Life!vars)
  <2>1. /\ UNCHANGED <<running, cpc, job, ran, cmdHandle, sessions>>
        /\ \A u \in Stoppers \ {t} : xpc'[u] = xpc[u]
        /\ \/ xpc[t] = "sweep" /\ xpc'[t] = "stopSse" /\ UNCHANGED sse
           \/ xpc[t] = "stopSse" /\ xpc'[t] = "inSseStop" /\ (sse' = "off" <=> sse = "off")
           \/ xpc[t] = "inSseStop" /\ xpc'[t] = "joinCommand" /\ sse' = "off"
    BY <1>5, <1>x DEF SweepEnds, EndSweep, AskSse, SseStopped, Goto, vars, commandVars
  <2>2. SeenInv' /\ ~running
    BY <1>x, <2>1
  <2>3. UNCHANGED <<Worker, Stopping>>
    BY <1>x, <2>1, <2>2 DEF Worker
  <2>4. CASE UNCHANGED Listening
    BY <2>1, <2>2, <2>3, <2>4 DEF Life!vars
  <2>5. CASE ~UNCHANGED Listening
    <3>1. Listening' = FALSE
      BY <2>1, <2>5 DEF Listening
    <3>. QED BY <2>1, <2>2, <2>3, <3>1 DEF Life!ListenEnds, Life!Next
  <2>. QED BY <2>4, <2>5
<1>6. ASSUME NEW t \in Stoppers, JoinCommand(t) \/ CommandJoined(t)
      PROVE  SeenInv' /\ [Life!Next]_(Life!vars)
  <2>1. /\ UNCHANGED <<running, cpc, job, ran, sse, sessions>>
        /\ \A u \in Stoppers \ {t} : xpc'[u] = xpc[u]
        /\ xpc[t] \in {"joinCommand", "inCommandJoin"}
        /\ xpc'[t] \in {"out", "thrown", "inCommandJoin"}
        /\ t = "ext" => xpc'[t] \in {"out", "inCommandJoin"}
        /\ xpc'[t] = "out" => cpc = "off"
        /\ xpc'[t] # "out" => UNCHANGED cmdHandle
    BY <1>6, <1>x DEF JoinCommand, CommandJoined, Goto, vars, commandVars
  <2>2. SeenInv' /\ ~running
    BY <1>x, <2>1
  <2>3. UNCHANGED <<Worker, Listening>>
    BY <1>x, <2>1, <2>2 DEF Worker, Listening
  <2>4. CASE t = "ext" /\ xpc'[t] = "out"
    <3>1. Stopping /\ Stopping' = FALSE /\ Worker = "off" /\ ~Listening
      BY <2>1, <2>2, <2>4 DEF Worker, Listening
    <3>. QED BY <2>1, <2>2, <2>3, <3>1 DEF Life!Return, Life!Next
  <2>5. CASE t # "ext" \/ xpc'[t] # "out"
    <3>1. UNCHANGED Stopping
      BY <1>x, <2>1, <2>5
    <3>. QED BY <2>1, <2>2, <2>3, <3>1 DEF Life!vars
  <2>. QED BY <2>4, <2>5
<1>7. CASE FinishMcp
  <2>1. /\ cpc = "exec" /\ cpc' = "complete" /\ UNCHANGED <<running, sse, cmdHandle, sessions>>
        /\ ran' = ran \cup {job}
        /\ xpc'["ext"] = xpc["ext"] /\ xpc'["command"] = "out"
    BY <1>7, <1>x DEF FinishMcp, Finish
  <2>2. SeenInv' /\ ~Starting
    BY <1>x, <2>1
  <2>3. UNCHANGED <<Stopping, Listening>> /\ Worker = "busy" /\ Worker' = "idle"
    BY <2>1, <2>2 DEF Worker, Listening
  <2>. QED BY <2>1, <2>2, <2>3 DEF Life!Result, Life!Next
<1>8. CASE \/ QueueStep
           \/ \E h \in Handlers, r \in Requests : Call(h, r)
           \/ \E r \in Requests : Refused(r)
           \/ UNCHANGED mcpVars
  <2>1. /\ UNCHANGED <<sse, cmdHandle, xpc, sessions, running>>
        /\ \/ UNCHANGED cpc
           \/ cpc \notin {"off", "exec"} /\ cpc' \notin {"off", "exec"}
           \/ cpc \notin {"off", "exec"} /\ cpc' = "exec"
           \/ cpc \notin {"off", "exec"} /\ cpc' = "off" /\ ~running
    BY <1>8, QueueStepSeen DEF serverVars
  <2>e. UNCHANGED ran /\ (cpc = "exec" => UNCHANGED <<cpc, job>>)
    BY <1>8, QueueStepKeeps DEF mcpVars, vars, commandVars
  <2>2. SeenInv' /\ UNCHANGED <<Stopping, Listening>>
    BY <2>1, <2>e DEF Listening
  <2>3. CASE UNCHANGED Worker
    BY <2>1, <2>2, <2>3 DEF Life!vars
  <2>4. CASE ~UNCHANGED Worker
    <3>1. Worker = "idle" /\ (Worker' = "busy" \/ (Worker' = "off" /\ ~running))
      BY <2>1, <2>4 DEF Worker
    <3>. QED BY <2>1, <2>2, <3>1 DEF Life!Take, Life!WorkerEnds, Life!Next
  <2>. QED BY <2>3, <2>4
<1>. QED BY <1>1, <1>2, <1>3, <1>4, <1>5, <1>6, <1>7, <1>8 DEF McpNext, StopCall

(* A start() of the MCP server finds no command thread of the session before *)
(* and no stop() under way, a stop() that returns leaves neither a command   *)
(* thread nor a listener: in every session, if no client sends "!agent stop" *)
(* to be executed, and in the first one if clients do.                       *)
THEOREM McpImplementsLife == McpSafety => LifeSpec
<1>1. McpTypeOK /\ SeenInv /\ [McpNext]_mcpVars => SeenInv' /\ [Life!Next]_(Life!vars)
  BY LifeMaps
<1>. QED BY <1>1, SeenInit, McpTypeInit, McpTypeStep, PTL DEF McpSafety, LifeSpec, Life!Spec
-----------------------------------------------------------------------------
(* From inside start() the extension thread only goes on with it.            *)
LEMMA SpawnGoesOn ==
  ASSUME McpTypeOK, [McpNext]_mcpVars, ~SpawnCommand, xpc["ext"] = "spawnCommand", cpc = "off"
  PROVE  xpc'["ext"] = "spawnCommand"
<1>x. /\ xpc \in [Stoppers -> CallerPlaces] /\ "ext" \in Stoppers /\ "command" \in Stoppers
  BY CallerNames DEF McpTypeOK, CallerPlaces
<1>1. ASSUME NEW t \in Stoppers, ClearWhenAsked(t) \/ StopCall(t) PROVE xpc'["ext"] = xpc["ext"]
  BY <1>x, <1>1 DEF StopCall, ClearWhenAsked, SweepEnds, AskSse, SseStopped, JoinCommand,
     CommandJoined, Goto
<1>2. ~Listen /\ ~SetRunning /\ ~FinishMcp
  BY <1>x DEF Listen, SetRunning, Goto, FinishMcp, Finish
<1>3. ASSUME \/ QueueStep \/ UNCHANGED mcpVars
             \/ \E h \in Handlers, r \in Requests : Call(h, r)
             \/ \E r \in Requests : Refused(r)
      PROVE  UNCHANGED xpc
  BY <1>3 DEF QueueStep, mcpVars, Call, Refused, serverVars
<1>. QED BY <1>1, <1>2, <1>3 DEF McpNext

(* What the queue sees of the command thread                                 *)
Seen == IF running /\ xpc["ext"] = "spawnCommand" THEN "test" ELSE cpc

(* A server that runs has a command thread, or start() is about to create it *)
Served == running => cpc # "off" \/ xpc["ext"] = "spawnCommand"

(* Neither start() nor the creation of the command thread leaves anybody     *)
(* unattended who was not.                                                   *)
LEMMA WakeKept ==
  ASSUME McpTypeOK, SeenInv, WakeInv, Served, [McpNext]_mcpVars
  PROVE  WakeInv' /\ Served'
<1>x. xpc \in [Stoppers -> CallerPlaces] /\ "ext" \in Stoppers
  BY CallerNames DEF McpTypeOK, CallerPlaces
<1>1. CASE SetRunning \/ SpawnCommand
  <2>1. cpc = "off"
    BY <1>1 DEF SeenInv, Starting, SetRunning, SpawnCommand, Goto
  <2>2. /\ UNCHANGED <<queue, slot, hpc, swept, spc, note, cmd>>
        /\ running => running'
        /\ cpc' \in {"off", "test"}
    BY <1>1, <2>1 DEF SetRunning, SpawnCommand, handlerVars, commandVars, stopVars
  <2>3. /\ InHand = {} /\ InHand' = {} /\ Queued' = Queued
        /\ \A t \in Stoppers : SweptBy(t)' = SweptBy(t)
    BY <2>1, <2>2 DEF InHand, Queued, SweptBy
  <2>4. WakeInv'
    <3>1. TypeOK'
      BY McpTypeStep DEF McpTypeOK
    <3>2. \A h \in Handlers : (Waiting(h) => Waiting(h)') /\ (Attended(h) => Attended(h)')
      BY <2>1, <2>2, <2>3 DEF Waiting, Owned, Attended
    <3>. QED BY <2>2, <3>1, <3>2 DEF WakeInv, StopperInv
  <2>5. Served'
    BY <1>1, <1>x DEF SetRunning, SpawnCommand, Goto, Served
  <2>. QED BY <2>4, <2>5
<1>2. CASE QueueMove /\ ~SpawnCommand
  <2>1. WakeInv'
    BY <1>2, WakeStep DEF QueueMove
  <2>2. running' /\ cpc' = "off" => running /\ cpc = "off"
    BY <1>2, ServedKept DEF QueueMove
  <2>3. running /\ cpc = "off" /\ xpc["ext"] = "spawnCommand" => xpc'["ext"] = "spawnCommand"
    BY <1>2, SpawnGoesOn
  <2>. QED BY <2>1, <2>2, <2>3 DEF Served
<1>. QED BY <1>1, <1>2, QueueMoves

(* No wakeup is lost in the MCP server either, although nothing sweeps the   *)
(* queue after its handlers: a handler that is blocked has its command with  *)
(* somebody who will complete it, or its notification is still to come.      *)
THEOREM McpNoLostWakeup == McpSafety => []WakeupsKept
<1>1. McpInit => WakeInv /\ Served
  BY WakeInit DEF McpInit, Init, Served
<1>2. ASSUME SeenInv, WakeInv, Served PROVE WakeupsKept
  <2>1. /\ Queue!Queued = Queued /\ \A t \in Stoppers : Queue!SweptBy(t) = SweptBy(t)
        /\ Queue!InHand = InHand
    <3>1. Queue!Queued = Queued /\ \A t \in Stoppers : Queue!SweptBy(t) = SweptBy(t)
      BY DEF Queue!Queued, Queued, Queue!SweptBy, SweptBy, Range, Queue!Range
    <3>2. Queue!InHand = InHand
      BY <1>2 DEF SeenInv, Starting, Queue!InHand, InHand
    <3>. QED BY <3>1, <3>2
  <2>2. \A h \in Handlers : hpc[h] = "blocked" => Attended(h)
    BY <1>2 DEF WakeInv
  <2>3. running => Seen # "off"
    BY <1>2 DEF Served, Seen
  <2>4. cpc = "notify" => Seen = "notify"
    BY <1>2 DEF SeenInv, Starting, Seen
  <2>. QED BY <2>1, <2>2, <2>3, <2>4 DEF Attended, WakeupsKept, Queue!NoLostWakeup, Seen
<1>3. McpTypeOK /\ SeenInv /\ [McpNext]_mcpVars => SeenInv'
  BY LifeMaps
<1>. QED BY <1>1, <1>2, <1>3, SeenInit, McpTypeInit, McpTypeStep, WakeKept, PTL DEF McpSafety

-----------------------------------------------------------------------------
(* Nobody waits for ever for somebody who cannot go on.  ENABLED is beyond   *)
(* the prover, so the guards of the steps that fairness is about are spelled *)
(* out.                                                                      *)

HandlerCan(h) == hpc[h] \in {"push", "wait", "leave"}
SweeperCan(t) == spc[t] \in {"swap", "note"} \/ (spc[t] = "sweep" /\ swept[t] # <<>>)
CommandCan ==
  /\ cpc # "off"
  /\ cpc = "exec" /\ job \in StopRequests =>
       xpc["command"] = "thrown" \/ (xpc["command"] = "out" /\ ~running)
StopperCan(t) ==
  \/ t = "command" /\ xpc[t] = "out" /\ running /\ cpc = "exec" /\ job \in StopRequests
  \/ xpc[t] = "sweep" /\ spc[t] = "sweep" /\ swept[t] = <<>>
  \/ xpc[t] \in {"stopSse", "joinCommand"}
  \/ xpc[t] = "inSseStop" /\ \A h \in Handlers : ~Live(h)
  \/ xpc[t] = "inCommandJoin" /\ cpc = "off"
StarterCan == xpc["ext"] = "setRunning" \/ (xpc["ext"] = "spawnCommand" /\ ~cmdHandle)

SomebodyCan ==
  \/ \E h \in Handlers : HandlerCan(h)
  \/ \E t \in Stoppers : SweeperCan(t) \/ StopperCan(t)
  \/ CommandCan \/ StarterCan

(* As long as a thread is in start() or stop(), or a call is not answered,   *)
(* somebody can go on, unless a client stops the server from inside.         *)
NobodyStuck ==
  (\E t \in Stoppers : xpc[t] # "out") \/ (\E h \in Handlers : Live(h)) =>
    SomebodyCan \/ StoppedFromInside

(* Who sweeps is at that place; the command thread stops the server only     *)
(* inside a command that says so; start() finds no command thread.           *)
MoveInv ==
  /\ \A t \in Stoppers : spc[t] # "out" <=> xpc[t] = "sweep"
  /\ xpc["command"] # "out" => cpc = "exec" /\ job \in StopRequests
  /\ xpc["command"] \notin {"setRunning", "spawnCommand", "inCommandJoin"}
  /\ xpc["ext"] # "thrown"
  /\ sessions = 0 \/ Starting => ~cmdHandle
  /\ NotInside /\ xpc["ext"] = "out" /\ ~running => ~cmdHandle

(* Every step keeps MoveInv.                                                 *)
LEMMA MoveStep ==
  ASSUME McpTypeOK, SeenInv, MoveInv, [McpNext]_mcpVars
  PROVE  MoveInv'
<1>x. /\ xpc \in [Stoppers -> CallerPlaces] /\ sessions \in Nat /\ cmdHandle \in BOOLEAN
      /\ spc \in [Stoppers -> {"out", "swap", "sweep", "note"}]
      /\ "ext" \in Stoppers /\ "command" \in Stoppers /\ Stoppers = {"ext", "command"}
  BY CallerNames, SessionBound DEF McpTypeOK, TypeOK, CallerPlaces
<1>. USE DEF MoveInv, SeenInv, Starting, NotInside
<1>1. CASE Listen
  <2>1. sessions = 0 \/ NotInside
    BY <1>1, <1>x DEF Listen, MayStart
  <2>2. /\ xpc["ext"] = "out" /\ xpc'["ext"] = "setRunning" /\ xpc'["command"] = xpc["command"]
        /\ ~running /\ UNCHANGED <<running, cpc, job, spc, cmdHandle>> /\ sessions' # 0
    BY <1>1, <1>x DEF Listen, Goto, vars, commandVars, stopVars
  <2>3. ~cmdHandle /\ xpc["command"] = "out"
    BY <2>1, <2>2
  <2>. QED BY <1>x, <2>2, <2>3
<1>2. CASE SetRunning \/ SpawnCommand
  <2>1. /\ xpc["ext"] \in {"setRunning", "spawnCommand"} /\ xpc'["ext"] \in {"spawnCommand", "out"}
        /\ xpc'["command"] = xpc["command"] /\ UNCHANGED <<spc, sessions>>
        /\ SetRunning => xpc'["ext"] = "spawnCommand" /\ UNCHANGED cmdHandle
        /\ SpawnCommand => xpc["ext"] = "spawnCommand" /\ xpc'["ext"] = "out" /\ UNCHANGED running
    BY <1>2, <1>x DEF SetRunning, SpawnCommand, Goto, stopVars
  <2>2. xpc["command"] = "out" /\ sessions # 0
    BY <2>1
  <2>. QED BY <1>2, <1>x, <2>1, <2>2
<1>3. ASSUME NEW t \in Stoppers, ClearWhenAsked(t) PROVE MoveInv'
  <2>1. /\ xpc[t] = "out" /\ xpc'[t] = "sweep" /\ \A u \in Stoppers \ {t} : xpc'[u] = xpc[u]
        /\ spc'[t] = "swap" /\ \A u \in Stoppers \ {t} : spc'[u] = spc[u]
        /\ running /\ running' = FALSE /\ UNCHANGED <<cpc, job, ran, cmdHandle, sessions>>
        /\ t = "command" => cpc = "exec" /\ job \in StopRequests
    BY <1>3, <1>x DEF ClearWhenAsked, BeginStop, Goto, commandVars
  <2>2. sessions # 0
    BY <2>1
  <2>. QED BY <1>x, <2>1, <2>2
<1>4. ASSUME NEW t \in Stoppers, SweepEnds(t) \/ AskSse(t) \/ SseStopped(t) PROVE MoveInv'
  <2>1. /\ UNCHANGED <<running, cpc, job, ran, cmdHandle, sessions>>
        /\ \A u \in Stoppers \ {t} : xpc'[u] = xpc[u] /\ spc'[u] = spc[u]
        /\ \/ xpc[t] = "sweep" /\ xpc'[t] = "stopSse" /\ spc'[t] = "out"
           \/ xpc[t] = "stopSse" /\ xpc'[t] = "inSseStop" /\ UNCHANGED spc
           \/ xpc[t] = "inSseStop" /\ xpc'[t] = "joinCommand" /\ UNCHANGED spc
    BY <1>4, <1>x DEF SweepEnds, EndSweep, AskSse, SseStopped, Goto, vars, commandVars, stopVars
  <2>. QED BY <1>x, <2>1
<1>5. ASSUME NEW t \in Stoppers, JoinCommand(t) \/ CommandJoined(t) PROVE MoveInv'
  <2>1. /\ UNCHANGED <<running, cpc, job, ran, spc, sessions>>
        /\ \A u \in Stoppers \ {t} : xpc'[u] = xpc[u]
        /\ xpc[t] \in {"joinCommand", "inCommandJoin"}
        /\ xpc'[t] \in {"out", "thrown", "inCommandJoin"}
        /\ t = "ext" => xpc'[t] \in {"out", "inCommandJoin"}
        /\ t = "command" => xpc'[t] # "inCommandJoin"
        /\ xpc'[t] = "out" => ~cmdHandle'
        /\ cmdHandle' => cmdHandle
    BY <1>5, <1>x DEF JoinCommand, CommandJoined, Goto, vars, commandVars, stopVars
  <2>. QED BY <1>x, <2>1
<1>6. CASE FinishMcp
  <2>1. /\ cpc = "exec" /\ UNCHANGED <<running, spc, cmdHandle, sessions>>
        /\ ran' = ran \cup {job}
        /\ xpc'["ext"] = xpc["ext"] /\ xpc'["command"] = "out"
        /\ xpc["command"] \in {"out", "thrown"}
    BY <1>6, <1>x DEF FinishMcp, Finish, stopVars
  <2>. QED BY <1>x, <2>1
<1>7. CASE \/ QueueStep
           \/ \E h \in Handlers, r \in Requests : Call(h, r)
           \/ \E r \in Requests : Refused(r)
           \/ UNCHANGED mcpVars
  <2>1. UNCHANGED <<cmdHandle, xpc, sessions, running>>
    BY <1>7, QueueStepSeen DEF serverVars
  <2>2. UNCHANGED ran /\ (cpc = "exec" => UNCHANGED <<cpc, job>>)
    BY <1>7, QueueStepKeeps DEF mcpVars, vars, commandVars
  <2>3. \A t \in Stoppers : spc'[t] = "out" <=> spc[t] = "out"
    <3>1. ASSUME NEW u \in Stoppers, Swap(u) \/ SweepOne(u) \/ NotifySwept(u)
          PROVE  spc[u] # "out" /\ spc'[u] # "out" /\ \A t \in Stoppers \ {u} : spc'[t] = spc[t]
      BY <1>x, <3>1 DEF Swap, SweepOne, NotifySwept
    <3>2. CASE \/ \E h \in Handlers : HandlerStep(h) \/ SpuriousWakeup(h)
               \/ LoopTest \/ PopNothing \/ Pop \/ Begin \/ Complete \/ Notify
      BY <3>2 DEF HandlerStep, Push, Check, Leave, SpuriousWakeup, LoopTest, PopNothing, Pop,
         Begin, Complete, Notify, stopVars
    <3>3. ASSUME NEW h \in Handlers, NEW r \in Requests, Call(h, r) PROVE UNCHANGED spc
      BY <3>3 DEF Call, Enter, stopVars
    <3>4. ASSUME NEW r \in Requests, Refused(r) PROVE UNCHANGED stopVars
      BY <3>4, Zenon DEF Refused, Refuse
    <3>. QED BY <1>7, <3>1, <3>2, <3>3, <3>4 DEF QueueStep, mcpVars, vars, stopVars
  <2>. QED BY <1>x, <2>1, <2>2, <2>3
<1>. QED BY <1>1, <1>2, <1>3, <1>4, <1>5, <1>6, <1>7 DEF McpNext, StopCall

(* The sweep, the wait for the SSE server's handlers and the join of the MCP *)
(* server cannot wait for each other in a circle, for any number of          *)
(* handlers: while a stop() or a call is under way somebody can go on.  The  *)
(* one exception is the stop() of a client that sent "!agent stop" to be     *)
(* executed (src/mcp_server.cpp:64-94, 245-257).                             *)
THEOREM McpNobodyStuck == McpSafety => []NobodyStuck
<1>1. McpInit => MoveInv /\ WakeInv /\ Served
  <2>. SUFFICES ASSUME McpInit PROVE MoveInv /\ WakeInv /\ Served
    OBVIOUS
  <2>1. /\ ~running /\ ~cmdHandle /\ "ext" \in Stoppers /\ "command" \in Stoppers
        /\ \A t \in Stoppers : xpc[t] = "out" /\ spc[t] = "out"
    BY CallerNames DEF McpInit, Init
  <2>2. WakeInv
    BY WakeInit DEF McpInit
  <2>. QED BY <2>1, <2>2 DEF MoveInv, Served, Starting
<1>2. ASSUME McpTypeOK, SeenInv, MoveInv, WakeInv, Served,
             (\E t \in Stoppers : xpc[t] # "out") \/ (\E h \in Handlers : Live(h)),
             ~SomebodyCan, ~StoppedFromInside
      PROVE  FALSE
  <2>x. /\ xpc \in [Stoppers -> CallerPlaces]
        /\ spc \in [Stoppers -> {"out", "swap", "sweep", "note"}]
        /\ hpc \in [Handlers -> {"idle", "push", "wait", "blocked", "leave"}]
        /\ "ext" \in Stoppers /\ "command" \in Stoppers /\ Stoppers = {"ext", "command"}
    BY <1>2, CallerNames DEF McpTypeOK, TypeOK, CallerPlaces
  <2>1. \A t \in Stoppers : spc[t] = "out" /\ SweptBy(t) = {} /\ note[t] = "nobody"
    <3>1. \A t \in Stoppers : spc[t] = "out" \/ (spc[t] = "sweep" /\ swept[t] = <<>>)
      BY <1>2, <2>x DEF SomebodyCan, SweeperCan
    <3>2. \A t \in Stoppers : spc[t] = "out"
      BY <1>2, <2>x, <3>1 DEF SomebodyCan, StopperCan, MoveInv
    <3>. QED BY <1>2, <3>2, EmptyRange DEF WakeInv, StopperInv, SweptBy
  <2>2. /\ xpc["ext"] \in {"out", "inSseStop", "inCommandJoin"}
        /\ xpc["command"] \in {"out", "thrown"}
    <3>1. \A t \in Stoppers : xpc[t] \notin {"sweep", "stopSse", "joinCommand"}
      BY <1>2, <2>x, <2>1 DEF SomebodyCan, StopperCan, MoveInv
    <3>2. xpc["ext"] \notin {"setRunning", "spawnCommand", "thrown"}
      BY <1>2 DEF SomebodyCan, StarterCan, MoveInv, Starting
    <3>3. xpc["command"] \notin {"setRunning", "spawnCommand", "inCommandJoin", "inSseStop"}
      BY <1>2 DEF MoveInv, StoppedFromInside
    <3>. QED BY <2>x, <3>1, <3>2, <3>3 DEF CallerPlaces
  <2>3. cpc = "off"
    <3>. SUFFICES ASSUME cpc # "off" PROVE FALSE
      OBVIOUS
    <3>1. cpc = "exec" /\ job \in StopRequests /\ xpc["command"] = "out" /\ running
      BY <1>2, <2>2 DEF SomebodyCan, CommandCan
    <3>. QED BY <1>2, <2>x, <3>1 DEF SomebodyCan, StopperCan
  <2>4. xpc["command"] = "out" /\ xpc["ext"] \in {"out", "inSseStop"}
    BY <1>2, <2>x, <2>2, <2>3 DEF SomebodyCan, StopperCan, MoveInv
  <2>5. \A h \in Handlers : ~Live(h)
    <3>1. ~running
      BY <1>2, <2>3, <2>4 DEF Served
    <3>2. \A h \in Handlers : ~Attended(h)
      <4>1. \A h \in Handlers : h \notin InHand
        BY <2>3, HandlerNames DEF InHand
      <4>2. \A t \in Stoppers : spc[t] # "swap"
        BY <2>1
      <4>. QED BY <2>1, <2>3, <3>1, <4>1, <4>2, HandlerNames DEF Attended
    <3>3. \A h \in Handlers : hpc[h] # "blocked"
      BY <1>2, <3>2 DEF WakeInv
    <3>. QED BY <1>2, <2>x, <3>3 DEF SomebodyCan, HandlerCan, Live
  <2>6. xpc["ext"] = "inSseStop"
    BY <1>2, <2>x, <2>4, <2>5
  <2>. QED BY <1>2, <2>x, <2>5, <2>6 DEF SomebodyCan, StopperCan
<1>3. McpTypeOK /\ SeenInv /\ MoveInv /\ WakeInv /\ Served => NobodyStuck
  BY <1>2 DEF NobodyStuck
<1>4. McpTypeOK /\ SeenInv /\ [McpNext]_mcpVars => SeenInv'
  BY LifeMaps
<1>. QED BY <1>1, <1>3, <1>4, SeenInit, McpTypeInit, McpTypeStep, MoveStep, WakeKept, PTL
         DEF McpSafety
=============================================================================
