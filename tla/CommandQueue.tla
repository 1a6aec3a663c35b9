----------------------------- MODULE CommandQueue -----------------------------
(***************************************************************************)
(* The cross-thread command queue that HttpServer and MCPServer share, line *)
(* for line (src/http_server.cpp, src/mcp_server.cpp): handler threads push *)
(* a pointer to a command in their own stack frame and block on a condition *)
(* variable in the same frame; one command thread pops and executes; any    *)
(* thread that stops the server sweeps what is left.                        *)
(*                                                                         *)
(* A pointer to a command is the handler whose frame holds it, so the frame *)
(* of a handler's next call is the same place: a pointer that outlives its  *)
(* call dangles while the handler is idle and aliases its next command.     *)
(* The mutexes are never held across a blocking call, so a critical section *)
(* is one step; queue_cv_ is not state, because its wait is timed.          *)
(***************************************************************************)
EXTENDS Naturals, Sequences, Functions

CONSTANTS
  Handlers,            \* worker threads that call queue_and_wait
  Requests,            \* the commands clients send, each sent once
  Stoppers             \* threads that run the tail of stop()

ASSUME RequestNames ==
  Requests \cap {"nothing", "garbage", "stopped", "not running"} = {}
ASSUME HandlerNames == "nobody" \notin Handlers

VARIABLES
  running,             \* running_
  queue,               \* pending_commands_
  slot,                \* slot[h]: the PendingCommand in the frame of h
  hpc,                 \* where each handler is in queue_and_wait
  answer,              \* answer[r]: the QueueResult returned for r
  cpc,                 \* where the command thread is in run_command_loop
  cmd,                 \* the pointer it popped
  job,                 \* the text exec_cb_ was called with
  ran,                 \* history: the texts whose execution has ended
  spc,                 \* where each stopper is
  swept,               \* swept[t]: its local queue in complete_pending_commands
  note                 \* note[t]: the command it has yet to notify

handlerVars == <<slot, hpc, answer>>
commandVars == <<cpc, cmd, job, ran>>
stopVars    == <<spc, swept, note>>
vars == <<running, queue, handlerVars, commandVars, stopVars>>

Pointers == Handlers \cup {"nobody"}
Commands == [req : Requests \cup {"nothing"},
             result : Requests \cup {"nothing", "garbage", "stopped"},
             completed : BOOLEAN]

Reply(s, p) == [success |-> s, payload |-> p]
NoAnswer    == Reply(FALSE, "nothing")
Replies     == [success : BOOLEAN,
                payload : Requests \cup {"nothing", "garbage", "stopped", "not running"}]

Live(h) == hpc[h] # "idle"
Fresh(r) == answer[r] = NoAnswer /\ \A h \in Handlers : Live(h) => slot[h].req # r

(* notify_one on the condition variable of h's frame                        *)
Notified(h) == IF h \in Handlers /\ hpc[h] = "blocked"
               THEN [hpc EXCEPT ![h] = "wait"] ELSE hpc

Init ==
  /\ running = FALSE
  /\ queue = <<>>
  /\ slot = [h \in Handlers |-> [req |-> "nothing", result |-> "nothing", completed |-> FALSE]]
  /\ hpc = [h \in Handlers |-> "idle"]
  /\ answer = [r \in Requests |-> NoAnswer]
  /\ cpc = "off" /\ cmd = "nobody" /\ job = "nothing" /\ ran = {}
  /\ spc = [t \in Stoppers |-> "out"]
  /\ swept = [t \in Stoppers |-> <<>>]
  /\ note = [t \in Stoppers |-> "nobody"]

-----------------------------------------------------------------------------
(* start().  Quiet is what the server around the queue has to establish      *)
(* before it starts again; HttpServer is checked to do so.                   *)

Quiet ==
  /\ ~running /\ cpc = "off" /\ queue = <<>>
  /\ \A h \in Handlers : ~Live(h)
  /\ \A t \in Stoppers : swept[t] = <<>>

Open ==
  /\ Quiet
  /\ running' = TRUE
  /\ cpc' = "test"
  /\ UNCHANGED <<queue, handlerVars, cmd, job, ran, stopVars>>

-----------------------------------------------------------------------------
(* queue_and_wait, on a handler thread                                       *)

Refuse(r) ==
  /\ ~running /\ Fresh(r)
  /\ answer' = [answer EXCEPT ![r] = Reply(FALSE, "not running")]
  /\ UNCHANGED <<running, queue, slot, hpc, commandVars, stopVars>>

EnterUnreset(h, r) ==
  /\ running /\ hpc[h] = "idle" /\ Fresh(r)
  /\ slot' = [slot EXCEPT ![h].req = r]
  /\ hpc' = [hpc EXCEPT ![h] = "push"]
  /\ UNCHANGED <<running, queue, answer, commandVars, stopVars>>

Enter(h, r) ==
  /\ running /\ hpc[h] = "idle" /\ Fresh(r)
  /\ slot' = [slot EXCEPT ![h] = [req |-> r, result |-> "nothing", completed |-> FALSE]]
  /\ hpc' = [hpc EXCEPT ![h] = "push"]
  /\ UNCHANGED <<running, queue, answer, commandVars, stopVars>>

Push(h) ==
  /\ hpc[h] = "push"
  /\ queue' = Append(queue, h)
  /\ hpc' = [hpc EXCEPT ![h] = "wait"]
  /\ UNCHANGED <<running, slot, answer, commandVars, stopVars>>

(* The wait's predicate, evaluated with done_mutex held: return or block.    *)
CheckFlagOnly(h) ==
  /\ hpc[h] = "wait"
  /\ hpc' = [hpc EXCEPT ![h] = IF slot[h].completed THEN "leave" ELSE "blocked"]
  /\ UNCHANGED <<running, queue, slot, answer, commandVars, stopVars>>

Check(h) ==
  /\ hpc[h] = "wait"
  /\ hpc' = [hpc EXCEPT ![h] = IF slot[h].completed \/ ~running THEN "leave" ELSE "blocked"]
  /\ UNCHANGED <<running, queue, slot, answer, commandVars, stopVars>>

SpuriousWakeup(h) ==
  /\ hpc[h] = "blocked"
  /\ hpc' = [hpc EXCEPT ![h] = "wait"]
  /\ UNCHANGED <<running, queue, slot, answer, commandVars, stopVars>>

(* The second look at completed, without the mutex, decides the answer; then *)
(* the frame is gone.                                                        *)
Leave(h) ==
  /\ hpc[h] = "leave"
  /\ answer' = [answer EXCEPT ![slot[h].req] =
                  IF slot[h].completed THEN Reply(TRUE, slot[h].result)
                                       ELSE Reply(FALSE, "stopped")]
  /\ hpc' = [hpc EXCEPT ![h] = "idle"]
  /\ UNCHANGED <<running, queue, slot, commandVars, stopVars>>

-----------------------------------------------------------------------------
(* run_command_loop, on the command thread                                   *)

LoopForever ==
  /\ cpc = "test"
  /\ cpc' = "pop"
  /\ UNCHANGED <<running, queue, handlerVars, cmd, job, ran, stopVars>>

LoopTest ==
  /\ cpc = "test"
  /\ cpc' = IF running THEN "pop" ELSE "off"
  /\ UNCHANGED <<running, queue, handlerVars, cmd, job, ran, stopVars>>

PopNull ==
  /\ cpc = "pop" /\ queue = <<>>
  /\ cpc' = "run"
  /\ UNCHANGED <<running, queue, handlerVars, cmd, job, ran, stopVars>>

PopNothing ==
  /\ cpc = "pop" /\ queue = <<>>
  /\ cpc' = "test"
  /\ UNCHANGED <<running, queue, handlerVars, cmd, job, ran, stopVars>>

PeekOnly ==
  /\ cpc = "pop" /\ queue # <<>>
  /\ cmd' = Head(queue)
  /\ cpc' = "run"
  /\ UNCHANGED <<running, queue, handlerVars, job, ran, stopVars>>

Pop ==
  /\ cpc = "pop" /\ queue # <<>>
  /\ cmd' = Head(queue)
  /\ queue' = Tail(queue)
  /\ cpc' = "run"
  /\ UNCHANGED <<running, handlerVars, job, ran, stopVars>>

(* exec_cb_(cmd->input): the text of a dead frame may have been overwritten. *)
Begin ==
  /\ cpc = "run"
  /\ \/ job' = slot[cmd].req
     \/ ~Live(cmd) /\ job' = "garbage"
  /\ cpc' = "exec"
  /\ UNCHANGED <<running, queue, handlerVars, cmd, ran, stopVars>>

(* The output, or the text of what exec_cb_ threw, is stored in the command. *)
Finish ==
  /\ cpc = "exec"
  /\ slot' = [slot EXCEPT ![cmd].result = job]
  /\ ran' = ran \cup {job}
  /\ job' = "nothing"
  /\ cpc' = "complete"
  /\ UNCHANGED <<running, queue, hpc, answer, cmd, stopVars>>

Complete ==
  /\ cpc = "complete"
  /\ slot' = [slot EXCEPT ![cmd].completed = TRUE]
  /\ cpc' = "notify"
  /\ UNCHANGED <<running, queue, hpc, answer, cmd, job, ran, stopVars>>

NotifyNobody ==
  /\ cpc = "notify"
  /\ cmd' = "nobody"
  /\ cpc' = "test"
  /\ UNCHANGED <<running, queue, handlerVars, job, ran, stopVars>>

Notify ==
  /\ cpc = "notify"
  /\ hpc' = Notified(cmd)
  /\ cmd' = "nobody"
  /\ cpc' = "test"
  /\ UNCHANGED <<running, queue, slot, answer, job, ran, stopVars>>

CommandStep == LoopTest \/ PopNothing \/ Pop \/ Begin \/ Finish \/ Complete \/ Notify

-----------------------------------------------------------------------------
(* running_ = false; complete_pending_commands(...), on whatever thread stops *)

BeginStop(t) ==
  /\ spc[t] = "out"
  /\ running' = FALSE
  /\ spc' = [spc EXCEPT ![t] = "swap"]
  /\ UNCHANGED <<queue, handlerVars, commandVars, swept, note>>

SwapCopy(t) ==
  /\ spc[t] = "swap"
  /\ swept' = [swept EXCEPT ![t] = queue]
  /\ spc' = [spc EXCEPT ![t] = "sweep"]
  /\ UNCHANGED <<running, queue, handlerVars, commandVars, note>>

Swap(t) ==
  /\ spc[t] = "swap"
  /\ swept' = [swept EXCEPT ![t] = queue]
  /\ queue' = <<>>
  /\ spc' = [spc EXCEPT ![t] = "sweep"]
  /\ UNCHANGED <<running, handlerVars, commandVars, note>>

SweepOne(t) ==
  /\ spc[t] = "sweep" /\ swept[t] # <<>>
  /\ LET h == Head(swept[t]) IN
     /\ slot' = IF slot[h].completed THEN slot
                ELSE [slot EXCEPT ![h].result = "stopped", ![h].completed = TRUE]
     /\ note' = [note EXCEPT ![t] = h]
  /\ swept' = [swept EXCEPT ![t] = Tail(@)]
  /\ spc' = [spc EXCEPT ![t] = "note"]
  /\ UNCHANGED <<running, queue, hpc, answer, commandVars>>

NotifySwept(t) ==
  /\ spc[t] = "note"
  /\ hpc' = Notified(note[t])
  /\ note' = [note EXCEPT ![t] = "nobody"]
  /\ spc' = [spc EXCEPT ![t] = "sweep"]
  /\ UNCHANGED <<running, queue, slot, answer, commandVars, swept>>

EndSweep(t) ==
  /\ spc[t] = "sweep" /\ swept[t] = <<>>
  /\ spc' = [spc EXCEPT ![t] = "out"]
  /\ UNCHANGED <<running, queue, handlerVars, commandVars, swept, note>>

StopStep(t) == Swap(t) \/ SweepOne(t) \/ NotifySwept(t) \/ EndSweep(t)

-----------------------------------------------------------------------------
HandlerStep(h) == Push(h) \/ Check(h) \/ Leave(h)

Next ==
  \/ Open
  \/ \E r \in Requests : Refuse(r)
  \/ \E h \in Handlers, r \in Requests : Enter(h, r)
  \/ \E h \in Handlers : HandlerStep(h) \/ SpuriousWakeup(h)
  \/ CommandStep
  \/ \E t \in Stoppers : BeginStop(t) \/ StopStep(t)

Safety == Init /\ [][Next]_vars

-----------------------------------------------------------------------------
(* The command thread's pointer is null only between two commands.           *)
CmdHeld == cpc \in {"run", "exec", "complete", "notify"} => cmd \in Handlers

(* The types of the variables (src/http_server.hpp:18-29, 74-83), and that   *)
(* the loop uses no null pointer (src/http_server.cpp:173).                  *)
TypeOK ==
  /\ CmdHeld
  /\ running \in BOOLEAN
  /\ queue \in Seq(Handlers)
  /\ slot \in [Handlers -> Commands]
  /\ hpc \in [Handlers -> {"idle", "push", "wait", "blocked", "leave"}]
  /\ answer \in [Requests -> Replies]
  /\ cpc \in {"off", "test", "pop", "run", "exec", "complete", "notify"}
  /\ cmd \in Pointers
  /\ job \in Requests \cup {"nothing", "garbage"}
  /\ ran \subseteq Requests \cup {"nothing", "garbage"}
  /\ spc \in [Stoppers -> {"out", "swap", "sweep", "note"}]
  /\ swept \in [Stoppers -> Seq(Handlers)]
  /\ note \in [Stoppers -> Pointers]

(* Who still has to complete a command: the queue, the command thread up to  *)
(* Complete, or a stopper's local queue.                                     *)
Queued == Range(queue)
InHand == IF cpc \in {"run", "exec", "complete"} THEN {cmd} ELSE {}
SweptBy(t) == Range(swept[t])

(* A command has one owner: it is never in the queue twice, nor queued while *)
(* it executes, nor completed by a stopper that shares it with anyone        *)
(* (src/http_server.cpp:167, 219).                                           *)
ExclusiveOwnership ==
  /\ IsInjective(queue)
  /\ Queued \cap InHand = {}
  /\ \A t \in Stoppers :
       /\ IsInjective(swept[t])
       /\ SweptBy(t) \cap (Queued \cup InHand) = {}
       /\ \A u \in Stoppers \ {t} : SweptBy(t) \cap SweptBy(u) = {}

(* No wakeup is lost, although clearing running_ never signals done_cv: a    *)
(* blocked handler's command is with somebody who will complete it, or is    *)
(* completed and its notification is still to come                           *)
(* (src/http_server.cpp:49, 185, 204-206, 236).                              *)
NoLostWakeup ==
  \A h \in Handlers : hpc[h] = "blocked" =>
    \/ /\ h \in Queued
       /\ (running /\ cpc # "off") \/ (\E t \in Stoppers : spc[t] = "swap")
    \/ h \in InHand
    \/ \E t \in Stoppers : h \in SweptBy(t)
    \/ /\ slot[h].completed
       /\ (cpc = "notify" /\ cmd = h) \/ (\E t \in Stoppers : note[t] = h)

(* What a client is told of its command is so, and stays so: output is that  *)
(* of this command, run to its end; a command that was refused or swept has  *)
(* not begun and never will; only of one that was given up nothing is said   *)
(* (src/http_server.cpp:34, 52-56, 231).                                     *)
OwnAnswer ==
  \A r \in Requests :
    \/ answer[r] \in {NoAnswer, Reply(FALSE, "stopped")}
    \/ answer[r] = Reply(TRUE, r) /\ r \in ran
    \/ /\ answer[r] \in {Reply(TRUE, "stopped"), Reply(FALSE, "not running")}
       /\ r \notin ran /\ r # job

(* The queue keeps the promise of ExecService: one command at a time, each   *)
(* at most once, and a command that was refused or swept never runs.         *)
Exec == [r \in Requests |->
           IF job = r THEN "running" ELSE IF r \in ran THEN "done" ELSE "none"]
Service == INSTANCE ExecService WITH exec <- Exec
ServiceSpec == Service!Spec

(* Every call of queue_and_wait returns (src/http_server.cpp:49).            *)
CallsReturn == \A h \in Handlers : Live(h) ~> ~Live(h)

(* A command that somebody still holds a pointer to is in a frame that       *)
(* exists: its mutex and condition variable can be used                      *)
(* (src/http_server.cpp:180-185, 225-236).                                   *)
HeldCommandsLive ==
  /\ cpc \in {"run", "exec", "complete", "notify"} => Live(cmd)
  /\ \A t \in Stoppers : \A h \in SweptBy(t) \cup ({note[t]} \ {"nobody"}) : Live(h)
=============================================================================
