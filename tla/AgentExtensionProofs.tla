------------------------ MODULE AgentExtensionProofs ------------------------
(***************************************************************************)
(* The theorems about AgentExtension, for any number of sessions, commands   *)
(* and resumes.  The types hold of every user; that nothing is used which    *)
(* was released takes one who is orderly.                                   *)
(***************************************************************************)
EXTENDS AgentExtension, TLAPS

(* Something of s is there.                                                  *)
Alive(s) == running[s] \/ ~Ended(s)

(* Between the setup and the end of start() there is a state.                *)
Started == user \in Servers => state # 0

(* At most one server is there, none while one is being set up, and no other *)
(* than the one that the user waits for.                                     *)
Alone ==
  /\ \A s, t \in Servers : Alive(s) /\ Alive(t) => s = t
  /\ user \in Servers => NoServer
  /\ \A s, t \in Servers : user = Join(s) /\ Alive(t) => s = t

(* What is left of a server that was stopped, somebody waits for.            *)
Awaited ==
  \A s \in Servers : ~running[s] /\ ~Ended(s) =>
    user = Join(s) \/ (s = "http" /\ shutdown = "stopping")

(* What is there uses the state that is there.                               *)
Current ==
  /\ \A s \in Servers : ~Ended(s) => state # 0
  /\ \A s \in Servers : worker[s] # "off" => cb[s] = state
  /\ listening /\ user # "set break" => breakCb = state

(* Nobody stops the server behind the back of the unloading.                 *)
Leaving ==
  /\ leaving => shutdown = "none"
  /\ user = "unloaded" => leaving /\ state = 0 /\ \A s \in Servers : ~Alive(s)

OrderInv == Alone /\ Awaited /\ Current /\ Leaving

-----------------------------------------------------------------------------
(* At first there is neither a server nor a state.                           *)
LEMMA TypeInit == AgentInit => AgentTypeOK /\ Started
<1>. SUFFICES ASSUME AgentInit PROVE AgentTypeOK /\ Started
  OBVIOUS
<1>1. EngineTypeOK
  <2>1. status \in {"break", "go", "gone"} /\ interrupt \in BOOLEAN
    BY Zenon DEF AgentInit, EngineInit
  <2>2. resumes \in 0 .. MaxResumes
    BY ResumeBound DEF AgentInit, EngineInit
  <2>. QED BY <2>1, <2>2, Zenon DEF EngineTypeOK
<1>2. made \in 0 .. MaxSessions /\ breakCb \in 0 .. made /\ commands \in 0 .. MaxCommands
  BY Bounds DEF AgentInit
<1>3. cb \in [Servers -> 0 .. made] /\ \A s \in Servers : worker[s] = "off"
  BY Bounds DEF AgentInit
<1>4. /\ user = "out" /\ state \in {0, made} /\ leaving \in BOOLEAN /\ listening \in BOOLEAN
      /\ running \in [Servers -> BOOLEAN]
      /\ worker \in [Servers -> {"off", "idle", "echo", "poll", "result"}]
      /\ shutdown \in {"none", "asleep", "stopping"}
  BY Zenon DEF AgentInit
<1>. QED BY <1>1, <1>2, <1>3, <1>4 DEF AgentTypeOK, Started, Servers

(* The numbers of generations and commands, as numbers.                      *)
LEMMA Numbers ==
  ASSUME AgentTypeOK
  PROVE  /\ MaxSessions \in Nat /\ MaxCommands \in Nat /\ MaxResumes \in Nat
         /\ made \in Nat /\ made <= MaxSessions /\ state \in {0, made}
         /\ breakCb \in Nat /\ breakCb <= made
         /\ commands \in Nat /\ commands <= MaxCommands
         /\ resumes \in Nat /\ resumes <= MaxResumes
         /\ \A s \in Servers : cb[s] \in Nat /\ cb[s] <= made
<1>1. /\ made \in 0 .. MaxSessions /\ breakCb \in 0 .. made /\ commands \in 0 .. MaxCommands
      /\ resumes \in 0 .. MaxResumes /\ state \in {0, made}
      /\ cb \in [Servers -> 0 .. made]
  BY Zenon DEF AgentTypeOK, EngineTypeOK
<1>2. made \in Nat /\ made <= MaxSessions
  BY <1>1, Bounds
<1>3. \A s \in Servers : cb[s] \in Nat /\ cb[s] <= made
  BY <1>1, <1>2
<1>. QED BY <1>1, <1>2, <1>3, Bounds, ResumeBound

(* Every step keeps the types, and a command that starts a server has a state. *)
LEMMA TypeStep ==
  AgentTypeOK /\ Started /\ [AgentNext]_agentVars => AgentTypeOK' /\ Started'
<1>inv. SUFFICES ASSUME AgentTypeOK, Started, [AgentNext]_agentVars
                    PROVE  AgentTypeOK' /\ Started'
  OBVIOUS
<1>num. /\ MaxSessions \in Nat /\ MaxCommands \in Nat /\ MaxResumes \in Nat
        /\ made \in Nat /\ made <= MaxSessions /\ state \in {0, made}
        /\ breakCb \in Nat /\ breakCb <= made
        /\ commands \in Nat /\ commands <= MaxCommands
        /\ resumes \in Nat /\ resumes <= MaxResumes
        /\ \A s \in Servers : cb[s] \in Nat /\ cb[s] <= made
  BY <1>inv, Numbers
<1>. USE DEF AgentTypeOK, Started, EngineTypeOK, Servers, Set
<1>0. CASE UNCHANGED agentVars
  BY <1>inv, <1>0 DEF agentVars, engineVars, userVars, stateVars, serverVars
<1>1. ASSUME NEW s \in Servers, Setup(s) PROVE AgentTypeOK' /\ Started'
  <2>1. /\ made' \in 0 .. MaxSessions /\ made <= made' /\ state' \in {0, made'}
        /\ user' \in {s, user} /\ (user' \in Servers => state' # 0)
    BY <1>inv, <1>1, Numbers DEF Setup, Prompt
  <2>2. UNCHANGED <<engineVars, leaving, cb, breakCb, serverVars>>
    BY <1>1 DEF Setup
  <2>3. breakCb' \in 0 .. made'
    BY <1>num, <2>1, <2>2
  <2>4. cb' \in [Servers -> 0 .. made']
    <3>1. 0 .. made \subseteq 0 .. made'
      BY <1>num, <2>1
    <3>2. cb' = cb /\ cb \in [Servers -> 0 .. made]
      BY <1>inv, <2>2
    <3>. QED BY <3>1, <3>2
  <2>. QED BY <1>inv, <2>1, <2>2, <2>3, <2>4 DEF engineVars, serverVars
<1>2. CASE StartFails
  BY <1>inv, <1>2 DEF StartFails, engineVars, serverVars
<1>3. ASSUME NEW s \in Servers, StartServer(s) PROVE AgentTypeOK' /\ Started'
  <2>1. /\ running' \in [Servers -> BOOLEAN] /\ listening' \in BOOLEAN
        /\ worker' \in [Servers -> {"off", "idle", "echo", "poll", "result"}]
        /\ user' \in {"set break", "out"}
    BY <1>inv, <1>3, Zenon DEF StartServer
  <2>2. UNCHANGED <<engineVars, leaving, state, made, breakCb, shutdown, commands>>
    BY <1>3 DEF StartServer
  <2>3. state # 0 /\ cb \in [Servers -> 0 .. made]
    BY <1>inv, <1>3 DEF StartServer
  <2>4. cb' \in [Servers -> 0 .. made]
    <3>1. state \in 0 .. made
      BY <1>num
    <3>. QED BY <3>1, <1>3, <2>3, Zenon DEF StartServer
  <2>5. \A t \in Servers : worker'[t] # "off" => cb'[t] # 0
    BY <1>inv, <1>3, <2>3 DEF StartServer
  <2>. QED BY <2>5, <1>inv, <2>1, <2>2, <2>4 DEF engineVars
<1>4. CASE SetBreak
  <2>1. state \in 0 .. made
    BY <1>num
  <2>. QED BY <1>inv, <1>4, <2>1 DEF SetBreak, engineVars, serverVars
<1>5. CASE Unload
  BY <1>inv, <1>5 DEF Unload, engineVars, serverVars, stateVars
<1>6. ASSUME NEW s \in Servers, AskStop(s) PROVE AgentTypeOK' /\ Started'
  BY <1>inv, <1>6 DEF AskStop, Join, engineVars, stateVars
<1>7. ASSUME NEW s \in Servers, Joined(s) PROVE AgentTypeOK' /\ Started'
  BY <1>inv, <1>7 DEF Joined, engineVars, serverVars
<1>8. CASE StopDone
  BY <1>inv, <1>8 DEF StopDone, engineVars, serverVars
<1>9. CASE PostShutdown
  BY <1>inv, <1>9 DEF PostShutdown, engineVars, userVars, stateVars
<1>10. CASE ShutdownStops
  BY <1>inv, <1>10 DEF ShutdownStops, engineVars, userVars, stateVars
<1>11. CASE ShutdownDone
  BY <1>inv, <1>11 DEF ShutdownDone, engineVars, userVars, stateVars
<1>12. CASE ListenEnds
  BY <1>inv, <1>12 DEF ListenEnds, engineVars, userVars, stateVars
<1>13. CASE PostBreak
  BY <1>inv, <1>13 DEF PostBreak, SetInterrupt, engineVars, userVars, stateVars, serverVars
<1>14. ASSUME NEW s \in Servers, Take(s) PROVE AgentTypeOK' /\ Started'
  <2>1. commands' \in 0 .. MaxCommands
    BY <1>num, <1>14 DEF Take
  <2>2. /\ worker' = [worker EXCEPT ![s] = "echo"] /\ worker[s] = "idle"
        /\ UNCHANGED <<engineVars, userVars, stateVars, running, listening, shutdown>>
    BY <1>14 DEF Take, WorkerGoes
  <2>3. \A t \in Servers : worker'[t] # "off" => cb'[t] # 0
    BY <1>inv, <2>2 DEF stateVars
  <2>. QED BY <1>inv, <2>1, <2>2, <2>3 DEF engineVars, userVars, stateVars
<1>15. ASSUME NEW s \in Servers, WorkerStep(s) PROVE AgentTypeOK' /\ Started'
  <2>1. PICK p \in {"off", "idle", "poll", "result"} :
          /\ worker' = [worker EXCEPT ![s] = p] /\ worker[s] # "off"
          /\ UNCHANGED <<userVars, stateVars, running, listening, shutdown, commands>>
    BY <1>15 DEF WorkerStep, WorkerEnds, Execute, Poll, Result, WorkerGoes
  <2>2. EngineTypeOK'
    BY <1>inv, <1>15 DEF WorkerStep, WorkerEnds, Execute, Poll, Result, CommandMoves, engineVars
  <2>3. \A t \in Servers : worker'[t] # "off" => cb'[t] # 0
    BY <1>inv, <2>1 DEF stateVars
  <2>. QED BY <1>inv, <2>1, <2>2, <2>3 DEF userVars, stateVars
<1>16. CASE Pump
  BY <1>inv, <1>16 DEF Pump, TargetStops, BreakIn, userVars, stateVars, serverVars
<1>17. CASE UserGoes
  <2>1. resumes' \in 0 .. MaxResumes
    BY <1>num, <1>17 DEF UserGoes, UserResumes
  <2>. QED BY <1>inv, <1>17, <2>1 DEF UserGoes, UserResumes, userVars, stateVars, serverVars
<1>. QED
  BY <1>inv, <1>0, <1>1, <1>2, <1>3, <1>4, <1>5, <1>6, <1>7, <1>8, <1>9, <1>10, <1>11, <1>12,
     <1>13, <1>14, <1>15, <1>16, <1>17 DEF AgentNext, UserStep, ShutdownStep

-----------------------------------------------------------------------------
(* At first nothing is there that could use a state.                         *)
LEMMA OrderInit == AgentInit => OrderInv
BY DEF AgentInit, OrderInv, Alone, Awaited, Current, Leaving, Alive, Ended, NoServer, Servers

(* No step of an orderly user breaks the order of starts and stops.          *)
LEMMA OrderStep ==
  ASSUME Orderly, AgentTypeOK, Started, OrderInv, [AgentNext]_agentVars
  PROVE  OrderInv'
<1>. USE DEF OrderInv, Alone, Awaited, Current, Leaving, Alive, Ended, NoServer, Servers, Set, Join
<1>0. CASE UNCHANGED agentVars
  BY <1>0 DEF agentVars, userVars, stateVars, serverVars
<1>1. ASSUME NEW s \in Servers, Setup(s) PROVE OrderInv'
  BY <1>1 DEF AgentTypeOK, Started, Setup, Prompt, MayChange, NoServer, serverVars
<1>2. CASE StartFails
  BY <1>2 DEF AgentTypeOK, Started, StartFails, NoServer, serverVars
<1>3. ASSUME NEW s \in Servers, StartServer(s) PROVE OrderInv'
  BY <1>3 DEF AgentTypeOK, Started, StartServer, NoServer
<1>4. CASE SetBreak
  BY <1>4 DEF AgentTypeOK, Started, SetBreak, serverVars
<1>5. CASE Unload
  BY <1>5 DEF AgentTypeOK, Started, Unload, Prompt, stateVars, serverVars
<1>6. ASSUME NEW s \in Servers, AskStop(s) PROVE OrderInv'
  BY <1>6 DEF AgentTypeOK, Started, AskStop, Prompt, Join, stateVars
<1>7. ASSUME NEW s \in Servers, Joined(s) PROVE OrderInv'
  BY <1>7 DEF AgentTypeOK, Started, Joined, Join, serverVars
<1>8. CASE StopDone
  BY <1>8 DEF AgentTypeOK, Started, StopDone, serverVars
<1>9. CASE PostShutdown
  BY <1>9 DEF AgentTypeOK, Started, PostShutdown, userVars, stateVars
<1>10. CASE ShutdownStops
  BY <1>10 DEF AgentTypeOK, Started, ShutdownStops, userVars, stateVars
<1>11. CASE ShutdownDone
  BY <1>11 DEF AgentTypeOK, Started, ShutdownDone, userVars, stateVars
<1>12. CASE ListenEnds
  BY <1>12 DEF AgentTypeOK, Started, ListenEnds, userVars, stateVars
<1>13. CASE PostBreak
  BY <1>13 DEF AgentTypeOK, Started, PostBreak, userVars, stateVars, serverVars
<1>14. ASSUME NEW s \in Servers, Take(s) PROVE OrderInv'
  BY <1>14 DEF AgentTypeOK, Started, Take, WorkerGoes, userVars, stateVars
<1>15. ASSUME NEW s \in Servers, WorkerStep(s) PROVE OrderInv'
  <2>1. PICK p \in {"off", "idle", "poll", "result"} :
          /\ worker' = [worker EXCEPT ![s] = p] /\ worker[s] # "off"
          /\ UNCHANGED <<userVars, stateVars, running, listening, shutdown>>
    BY <1>15 DEF WorkerStep, WorkerEnds, Execute, Poll, Result, WorkerGoes
  <2>. QED BY <2>1 DEF AgentTypeOK, userVars, stateVars
<1>16. CASE Pump
  BY <1>16 DEF AgentTypeOK, Started, Pump, userVars, stateVars, serverVars
<1>17. CASE UserGoes
  BY <1>17 DEF AgentTypeOK, Started, UserGoes, userVars, stateVars, serverVars
<1>. QED
  BY <1>0, <1>1, <1>2, <1>3, <1>4, <1>5, <1>6, <1>7, <1>8, <1>9, <1>10, <1>11, <1>12,
     <1>13, <1>14, <1>15, <1>16, <1>17 DEF AgentNext, UserStep, ShutdownStep

-----------------------------------------------------------------------------
(* The variables keep their types, the state is not older than the callbacks *)
(* made from it, and no server runs on a null callback, whoever the user is.  *)
THEOREM AgentTypeCorrect == AgentSafety => []AgentTypeOK
BY TypeInit, TypeStep, PTL DEF AgentSafety

(* With an orderly user, the invariant.                                       *)
LEMMA OrderHolds ==
  ASSUME Orderly
  PROVE  AgentSafety => [](AgentTypeOK /\ OrderInv)
<1>1. AgentInit => AgentTypeOK /\ Started /\ OrderInv
  BY TypeInit, OrderInit
<1>2. AgentTypeOK /\ Started /\ OrderInv /\ [AgentNext]_agentVars
        => AgentTypeOK' /\ Started' /\ OrderInv'
  BY TypeStep, OrderStep
<1>. QED BY <1>1, <1>2, PTL DEF AgentSafety

(* A command is echoed, executed and shown with the client and the output    *)
(* that its callback was made with, while they exist: no start, stop,        *)
(* shutdown or unloading of an orderly user releases them meanwhile.         *)
THEOREM ExecStateLiveHolds ==
  ASSUME Orderly
  PROVE  AgentSafety => []ExecStateLive
<1>1. AgentTypeOK /\ OrderInv => ExecStateLive
  BY DEF OrderInv, Current, Ended, ExecStateLive
<1>. QED BY <1>1, OrderHolds, PTL

(* From set_break_callback on, what the break callback points to is not       *)
(* released while a handler may call it.  (Before it, it is: StateLive.)      *)
THEOREM BreakControlOnceSetHolds ==
  ASSUME Orderly
  PROVE  AgentSafety => []BreakControlOnceSet
<1>1. AgentTypeOK /\ OrderInv => BreakControlOnceSet
  BY DEF OrderInv, Current, Ended, BreakControlOnceSet, Servers
<1>. QED BY <1>1, OrderHolds, PTL

(* After the unloading no thread executes anything and nothing is held.      *)
THEOREM UnloadedQuietHolds ==
  ASSUME Orderly
  PROVE  AgentSafety => []UnloadedQuiet
<1>1. AgentTypeOK /\ OrderInv => UnloadedQuiet
  BY DEF OrderInv, Leaving, Alive, Ended, UnloadedQuiet
<1>. QED BY <1>1, OrderHolds, PTL
-----------------------------------------------------------------------------
(* The two servers as ServerLife has them.                                   *)

(* A server that the user starts, or waits for, does not run.                *)
SeenInv ==
  /\ user \in Servers => ~running[user]
  /\ \A s \in Servers : Stopping(s) => ~running[s]

LifeStep == [HttpLife!Next]_(HttpLife!vars) /\ [McpLife!Next]_(McpLife!vars)

(* A step that is neither a server's nor a user's who stops one is unseen.   *)
LEMMA Unseen ==
  ASSUME UNCHANGED <<running, worker, listening>>,
         \A s \in Servers : Stopping(s)' = Stopping(s)
  PROVE  LifeStep
<1>1. \A s \in Servers : Worker(s)' = Worker(s)
  BY DEF Worker
<1>. QED BY <1>1 DEF LifeStep, HttpLife!vars, McpLife!vars, Servers

(* A step of one server that is a step of ServerLife, for both of them.      *)
LEMMA LivesMap ==
  ASSUME AgentTypeOK, SeenInv, [AgentNext]_agentVars
  PROVE  SeenInv' /\ LifeStep
<1>t. /\ running \in [Servers -> BOOLEAN] /\ listening \in BOOLEAN
      /\ worker \in [Servers -> {"off", "idle", "echo", "poll", "result"}]
      /\ Servers = {"http", "mcp"} /\ "http" \in Servers /\ "mcp" \in Servers
  BY DEF AgentTypeOK, Servers
<1>j. \A s, t \in Servers : Join(s) \notin {"out", "next", "unloaded", "set break", "http", "mcp"}
                            /\ (Join(s) = Join(t) => s = t)
  BY DEF Join, Servers
<1>1. ASSUME UNCHANGED <<running, worker, listening>>,
             \A s \in Servers : user' # Join(s) /\ user # Join(s),
             user' \in Servers => ~running[user']
      PROVE  SeenInv' /\ LifeStep
  BY <1>1, Unseen DEF SeenInv, Stopping, Join
<1>2. ASSUME NEW s \in Servers, Setup(s) PROVE SeenInv' /\ LifeStep
  BY <1>1, <1>2, <1>j, <1>t DEF Setup, Prompt, serverVars
<1>3. CASE StartFails \/ SetBreak \/ Unload \/ StopDone
  BY <1>1, <1>3, <1>j, <1>t DEF StartFails, SetBreak, Unload, StopDone, Prompt, serverVars
<1>4. CASE PostShutdown \/ ShutdownDone \/ PostBreak \/ Pump \/ UserGoes \/ UNCHANGED agentVars
  <2>1. UNCHANGED <<user, running, worker, listening>>
    BY <1>4 DEF PostShutdown, ShutdownDone, PostBreak, Pump, UserGoes, agentVars, userVars, serverVars
  <2>. QED BY <2>1, Unseen DEF SeenInv, Stopping
<1>5. ASSUME NEW s \in Servers, StartServer(s) PROVE SeenInv' /\ LifeStep
  <2>1. /\ user = s /\ user' \in {"set break", "out"} /\ ~running[s]
        /\ running' = [running EXCEPT ![s] = TRUE] /\ worker' = [worker EXCEPT ![s] = "idle"]
        /\ worker[s] = "off" /\ listening' = (listening \/ s = "http")
    BY <1>5, <1>t DEF StartServer, Set, SeenInv
  <2>2. \A t \in Servers : ~Stopping(t) /\ ~Stopping(t)'
    BY <2>1, <1>j, <1>t DEF Stopping, Join
  <2>3. SeenInv' /\ \A t \in Servers : Stopping(t)' = Stopping(t)
    BY <2>1, <1>j, <1>t DEF SeenInv, Stopping, Join
  <2>4. Worker(s) = "off" /\ Worker(s)' = "idle" /\ \A t \in Servers \ {s} : Worker(t)' = Worker(t)
    BY <2>1, <1>t DEF Worker
  <2>5. CASE s = "http"
    <3>1. HttpLife!Start
      BY <2>1, <2>2, <2>3, <2>4, <2>5, <1>t DEF HttpLife!Start
    <3>2. UNCHANGED McpLife!vars
      BY <2>1, <2>3, <2>4, <2>5, <1>t DEF McpLife!vars
    <3>. QED BY <2>3, <3>1, <3>2 DEF LifeStep, HttpLife!Next
  <2>6. CASE s = "mcp"
    <3>1. McpLife!Start
      BY <2>1, <2>2, <2>3, <2>4, <2>6, <1>t DEF McpLife!Start
    <3>2. UNCHANGED HttpLife!vars
      BY <2>1, <2>3, <2>4, <2>6, <1>t DEF HttpLife!vars
    <3>. QED BY <2>3, <3>1, <3>2 DEF LifeStep, McpLife!Next
  <2>. QED BY <2>5, <2>6, <1>t
<1>6. ASSUME NEW s \in Servers, AskStop(s) PROVE SeenInv' /\ LifeStep
  <2>1. /\ user \in {"out", "next"} /\ user' = Join(s)
        /\ running' = [running EXCEPT ![s] = FALSE] /\ UNCHANGED <<worker, listening>>
    BY <1>6 DEF AskStop, Prompt, Set
  <2>2. Stopping(s)' = TRUE /\ \A t \in Servers \ {s} : Stopping(t)' = Stopping(t)
    BY <2>1, <1>j, <1>t DEF Stopping, Join
  <2>3. SeenInv' /\ \A t \in Servers : Worker(t)' = Worker(t)
    BY <2>1, <1>j, <1>t DEF SeenInv, Stopping, Join, Worker
  <2>4. CASE s = "http"
    BY <2>1, <2>2, <2>3, <2>4, <1>t DEF LifeStep, HttpLife!AskStop, HttpLife!Next, McpLife!vars
  <2>5. CASE s = "mcp"
    BY <2>1, <2>2, <2>3, <2>5, <1>t DEF LifeStep, McpLife!AskStop, McpLife!Next, HttpLife!vars
  <2>. QED BY <2>4, <2>5, <1>t
<1>7. ASSUME NEW s \in Servers, Joined(s) PROVE SeenInv' /\ LifeStep
  <2>1. /\ user = Join(s) /\ user' = "next" /\ UNCHANGED <<running, worker, listening>>
        /\ ~running[s] /\ worker[s] = "off" /\ (s = "http" => ~listening)
    BY <1>7 DEF Joined, Ended, SeenInv, Stopping, serverVars
  <2>2. /\ Stopping(s) /\ Stopping(s)' = FALSE
        /\ \A t \in Servers \ {s} : Stopping(t)' = Stopping(t)
    BY <2>1, <1>j, <1>t DEF Stopping, Join
  <2>3. SeenInv' /\ Worker(s) = "off" /\ \A t \in Servers : Worker(t)' = Worker(t)
    BY <2>1, <1>j, <1>t DEF SeenInv, Stopping, Join, Worker
  <2>4. CASE s = "http"
    BY <2>1, <2>2, <2>3, <2>4, <1>t DEF LifeStep, HttpLife!Return, HttpLife!Next, McpLife!vars
  <2>5. CASE s = "mcp"
    BY <2>1, <2>2, <2>3, <2>5, <1>t DEF LifeStep, McpLife!Return, McpLife!Next, HttpLife!vars
  <2>. QED BY <2>4, <2>5, <1>t
<1>8. CASE ShutdownStops \/ ListenEnds
  <2>1. /\ UNCHANGED <<user, worker>>
        /\ \/ running' = [running EXCEPT !["http"] = FALSE] /\ UNCHANGED listening
           \/ UNCHANGED running /\ ~running["http"] /\ listening' = FALSE
    BY <1>8 DEF ShutdownStops, ListenEnds, Set, userVars
  <2>2. SeenInv' /\ \A t \in Servers : Worker(t)' = Worker(t) /\ Stopping(t)' = Stopping(t)
    BY <2>1, <1>t DEF SeenInv, Worker, Stopping
  <2>3. HttpLife!Clear \/ HttpLife!ListenEnds
    BY <2>1, <2>2, <1>t DEF HttpLife!Clear, HttpLife!ListenEnds
  <2>4. UNCHANGED McpLife!vars
    BY <2>1, <2>2, <1>t DEF McpLife!vars
  <2>. QED BY <2>2, <2>3, <2>4 DEF LifeStep, HttpLife!Next
<1>9. ASSUME NEW s \in Servers, Take(s) \/ WorkerStep(s) PROVE SeenInv' /\ LifeStep
  <2>1. /\ UNCHANGED <<user, running, listening>>
        /\ \A t \in Servers \ {s} : worker'[t] = worker[t]
        /\ \/ worker[s] = "idle" /\ worker'[s] = "echo"
           \/ worker[s] = "idle" /\ worker'[s] = "off" /\ ~running[s]
           \/ worker[s] = "echo" /\ worker'[s] \in {"poll", "result"}
           \/ worker[s] = "poll" /\ worker'[s] = "result"
           \/ worker[s] = "result" /\ worker'[s] = "idle"
    BY <1>9, <1>t DEF Take, WorkerStep, WorkerEnds, Execute, Poll, Result, WorkerGoes, Set, userVars
  <2>2. SeenInv' /\ \A t \in Servers : Stopping(t)' = Stopping(t)
    BY <2>1, <1>t DEF SeenInv, Stopping
  <2>3. /\ \A t \in Servers \ {s} : Worker(t)' = Worker(t)
        /\ \/ Worker(s)' = Worker(s)
           \/ Worker(s) = "idle" /\ Worker(s)' = "busy"
           \/ Worker(s) = "busy" /\ Worker(s)' = "idle"
           \/ Worker(s) = "idle" /\ Worker(s)' = "off" /\ ~running[s]
    BY <2>1, <1>t DEF Worker
  <2>4. CASE s = "http"
    BY <2>1, <2>2, <2>3, <2>4, <1>t
       DEF LifeStep, HttpLife!Take, HttpLife!Result, HttpLife!WorkerEnds, HttpLife!Next,
           HttpLife!vars, McpLife!vars
  <2>5. CASE s = "mcp"
    BY <2>1, <2>2, <2>3, <2>5, <1>t
       DEF LifeStep, McpLife!Take, McpLife!Result, McpLife!WorkerEnds, McpLife!Next,
           McpLife!vars, HttpLife!vars
  <2>. QED BY <2>4, <2>5, <1>t
<1>. QED
  BY <1>2, <1>3, <1>4, <1>5, <1>6, <1>7, <1>8, <1>9 DEF AgentNext, UserStep, ShutdownStep

(* The servers of the extension do what HttpServer and McpServer are proved  *)
(* to do: what is proved of the agent's state rests on no other behaviour of *)
(* theirs, whoever the user is.                                              *)
THEOREM AgentServersLive == AgentSafety => LivesSpec
<1>1. AgentInit => SeenInv /\ HttpLife!Init /\ McpLife!Init
  BY DEF AgentInit, SeenInv, Servers, Stopping, Join, Worker, HttpLife!Init, McpLife!Init
<1>2. AgentTypeOK /\ SeenInv /\ [AgentNext]_agentVars
        => SeenInv' /\ [HttpLife!Next]_(HttpLife!vars) /\ [McpLife!Next]_(McpLife!vars)
  BY LivesMap DEF LifeStep
<1>. QED BY <1>1, <1>2, TypeInit, TypeStep, PTL
         DEF AgentSafety, LivesSpec, HttpLife!Spec, McpLife!Spec
=============================================================================
