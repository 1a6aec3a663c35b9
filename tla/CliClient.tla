------------------------------ MODULE CliClient ------------------------------
(***************************************************************************)
(* The command-line client (src/cli/main.cpp) against the HTTP server        *)
(* (src/http_server.cpp).  Every call occupies a thread of the server's pool *)
(* until it is answered: exec waits there for its command, while status,     *)
(* shutdown and break (which other clients send) are answered at once.  The  *)
(* client gives up a call after its read timeout, which the server does not  *)
(* notice; its user may then call again.                                     *)
(*                                                                         *)
(* One session of the server, seen more coarsely than in CommandQueue and    *)
(* HttpServer: commands are executed one at a time, stop() clears running_   *)
(* and answers those that wait in one step, and the command that is executed *)
(* may go on.                                                                *)
(***************************************************************************)
EXTENDS Naturals, Sequences, FiniteSets, Functions

CONSTANTS
  Calls,               \* HTTP calls
  Kind,                \* Kind[c]: "exec", "status", "shutdown" or "break"
  RetryOf,             \* RetryOf[c], for some calls c: the call that c tries again
  PoolSize             \* threads of the server's pool

ASSUME CallNames ==
  Calls \cap {"nothing", "ok", "stopped", "not running", "error", "no callback", "nobody"} = {}
ASSUME Kinds     == Kind \in [Calls -> {"exec", "status", "shutdown", "break"}]
ASSUME Retries   == /\ DOMAIN RetryOf \subseteq Calls /\ RetryOf \in [DOMAIN RetryOf -> Calls]
                    /\ \A c \in DOMAIN RetryOf : Kind[RetryOf[c]] = Kind[c]
ASSUME SomePool  == PoolSize \in Nat \ {0}

VARIABLES
  cli,                 \* cli[c]: what the caller of c sees
  tasks,               \* calls that were connected and wait for a thread of the pool
  pool,                \* calls that occupy one
  pending,             \* pending_commands_, in whatever order their threads pushed them
  current,             \* the call whose command is executed
  begun, done,         \* history: whose commands were begun, were executed
  response,            \* response[c]: what the server wrote
  asleep,              \* the thread that POST /shutdown created has not stopped the server
  running              \* running_

cliVars == <<cli, tasks, pool, pending, current, begun, done, response, asleep, running>>

Reply(s, p) == [success |-> s, payload |-> p]
NoResponse  == Reply(FALSE, "nothing")

CliInit ==
  /\ cli = [c \in Calls |-> "idle"]
  /\ tasks = <<>> /\ pool = {} /\ pending = {} /\ current = "nobody"
  /\ begun = {} /\ done = {}
  /\ response = [c \in Calls |-> NoResponse]
  /\ asleep = FALSE /\ running = TRUE

Respond(c, r) == response' = [response EXCEPT ![c] = r]
Tell(c, what) == cli' = [cli EXCEPT ![c] = what]

-----------------------------------------------------------------------------
(* The client: one call, told apart by how it ends                            *)

Failures == {"connection failed", "request failed"}

Send(c) ==
  /\ cli[c] = "idle"
  /\ c \in DOMAIN RetryOf => cli[RetryOf[c]] \in Failures
  /\ IF running THEN Tell(c, "waiting") /\ tasks' = Append(tasks, c)
                ELSE Tell(c, "connection failed") /\ UNCHANGED tasks
  /\ UNCHANGED <<pool, pending, current, begun, done, response, asleep, running>>

ReadTimeout(c) ==
  /\ cli[c] = "waiting" /\ Tell(c, "connection failed")
  /\ UNCHANGED <<tasks, pool, pending, current, begun, done, response, asleep, running>>

DeliverUnchecked(c) ==
  /\ cli[c] = "waiting" /\ response[c] # NoResponse
  /\ Tell(c, "printed")
  /\ UNCHANGED <<tasks, pool, pending, current, begun, done, response, asleep, running>>

(* Only exec looks at the status of the response.                            *)
Deliver(c) ==
  /\ cli[c] = "waiting" /\ response[c] # NoResponse
  /\ Tell(c, IF Kind[c] = "exec" /\ ~response[c].success THEN "request failed" ELSE "printed")
  /\ UNCHANGED <<tasks, pool, pending, current, begun, done, response, asleep, running>>

-----------------------------------------------------------------------------
(* The server: a thread of the pool takes the next call                       *)

PoolFull == Cardinality(pool) = PoolSize

Accept ==
  /\ tasks # <<>> /\ ~PoolFull
  /\ tasks' = Tail(tasks)
  /\ UNCHANGED <<cli, current, begun, done, running>>

(* A request without a command, or that is not JSON, is not queued.          *)
AcceptExec ==
  /\ Accept
  /\ LET c == Head(tasks) IN
     /\ Kind[c] = "exec"
     /\ \/ /\ running
           /\ pool' = pool \cup {c} /\ pending' = pending \cup {c}
           /\ UNCHANGED response
        \/ ~running /\ Respond(c, Reply(FALSE, "not running")) /\ UNCHANGED <<pool, pending>>
        \/ Respond(c, Reply(FALSE, "error")) /\ UNCHANGED <<pool, pending>>
  /\ UNCHANGED asleep

(* Only break may find that it cannot be done.                               *)
Answers(c) ==
  {Reply(TRUE, "ok")} \cup IF Kind[c] = "break" THEN {Reply(FALSE, "no callback")} ELSE {}

AcceptInTurn ==
  /\ Accept /\ current = "nobody" /\ pending = {}
  /\ LET c == Head(tasks) IN
     /\ Kind[c] # "exec"
     /\ asleep' = (asleep \/ Kind[c] = "shutdown")
     /\ \E r \in Answers(c) : Respond(c, r)
  /\ UNCHANGED <<pool, pending>>

AcceptOther ==
  /\ Accept
  /\ LET c == Head(tasks) IN
     /\ Kind[c] # "exec"
     /\ asleep' = (asleep \/ Kind[c] = "shutdown")
     /\ \E r \in Answers(c) : Respond(c, r)
  /\ UNCHANGED <<pool, pending>>

(* A server that was stopped closes a connection it has not looked at.        *)
Drop ==
  /\ tasks # <<>> /\ ~running
  /\ tasks' = Tail(tasks)
  /\ cli' = [cli EXCEPT ![Head(tasks)] = IF @ = "waiting" THEN "connection failed" ELSE @]
  /\ UNCHANGED <<pool, pending, current, begun, done, response, asleep, running>>

(* The command thread                                                        *)
Execute ==
  /\ current = "nobody" /\ running
  /\ \E c \in pending :
       current' = c /\ pending' = pending \ {c} /\ begun' = begun \cup {c}
  /\ UNCHANGED <<cli, tasks, pool, done, response, asleep, running>>

(* Its output is the answer, or status 500 if that cannot be written as JSON *)
(* (dump() throws where it is not UTF-8).                                    *)
Finish ==
  /\ current # "nobody" /\ current' = "nobody"
  /\ done' = done \cup {current} /\ pool' = pool \ {current}
  /\ IF current \in pool
     THEN \E r \in {Reply(TRUE, current), Reply(FALSE, "error")} : Respond(current, r)
     ELSE UNCHANGED response
  /\ UNCHANGED <<cli, tasks, pending, begun, asleep, running>>

-----------------------------------------------------------------------------
(* stop(), on the thread of POST /shutdown: what other threads do between    *)
(* its steps is CommandQueue's                                               *)
StopWithoutSweep ==
  /\ asleep /\ asleep' = FALSE /\ running' = FALSE
  /\ UNCHANGED <<cli, tasks, pool, pending, current, begun, done, response>>

(* A handler that is notified finds its command completed; one that looks    *)
(* earlier finds running_ false.                                             *)
Stop ==
  /\ asleep /\ asleep' = FALSE /\ running' = FALSE
  /\ \E early \in SUBSET pending :
       response' = [c \in Calls |->
         IF c \in pending THEN Reply(c \notin early, "stopped") ELSE response[c]]
  /\ pool' = pool \ pending /\ pending' = {}
  /\ UNCHANGED <<cli, tasks, current, begun, done>>

HandlerTimesOut ==
  /\ \E c \in pool : pool' = pool \ {c} /\ Respond(c, Reply(FALSE, "stopped"))
  /\ UNCHANGED <<cli, tasks, pending, current, begun, done, asleep, running>>

(* So may the handler whose command is executed, if it wakes up by itself.   *)
HandlerLeaves ==
  /\ ~running /\ current \in pool
  /\ pool' = pool \ {current} /\ Respond(current, Reply(FALSE, "stopped"))
  /\ UNCHANGED <<cli, tasks, pending, current, begun, done, asleep, running>>

-----------------------------------------------------------------------------
ServerStep == AcceptExec \/ AcceptOther \/ Drop

CliNext ==
  \/ \E c \in Calls : Send(c) \/ ReadTimeout(c) \/ Deliver(c)
  \/ ServerStep \/ Execute \/ Finish \/ Stop \/ HandlerLeaves

(* The pool, the command thread and the thread of POST /shutdown run.  A     *)
(* command need not end.                                                     *)
CliSpec ==
  /\ CliInit /\ [][CliNext]_cliVars
  /\ WF_cliVars(ServerStep) /\ WF_cliVars(Execute) /\ WF_cliVars(Stop)

-----------------------------------------------------------------------------
Execs == {c \in Calls : Kind[c] = "exec"}

(* The types of the variables; the threads of the pool wait for commands     *)
(* that are queued or executed, and every command that is queued has one     *)
(* (src/http_server.cpp:28-57, src/cli/main.cpp:38-72).                      *)
CliTypeOK ==
  /\ cli \in [Calls -> {"idle", "waiting", "printed"} \cup Failures]
  /\ tasks \in Seq(Calls) /\ Cardinality(pool) <= PoolSize
  /\ pending \subseteq pool /\ pool \subseteq pending \cup {current}
  /\ current \in begun \cup {"nobody"} /\ done = begun \ {current}
  /\ begun \subseteq Execs
  /\ asleep \in BOOLEAN /\ running \in BOOLEAN

(* What "exec" prints with exit code 0 is the output of its own command, or  *)
(* says that the server stopped, and then the command was not executed and   *)
(* will not be (src/cli/main.cpp:45-56, 115-116, src/http_server.cpp:52-56). *)
PrintedTrue ==
  \A c \in Calls : cli[c] = "printed" /\ Kind[c] = "exec" =>
    \/ response[c] = Reply(TRUE, c) /\ c \in done
    \/ response[c] = Reply(TRUE, "stopped") /\ c \notin begun

(* In one session, a command is executed by two calls only if the first was  *)
(* given up by its client, or its output could not be written and it got     *)
(* status 500: one that was refused or swept with status 503 may be tried    *)
(* again, and is not executed twice                                          *)
(* (src/cli/main.cpp:41, 46-54, src/http_server.cpp:27-57, 88-98, 164-172).  *)
RetrySafe ==
  \A c \in DOMAIN RetryOf \cap begun :
    RetryOf[c] \in begun => \/ cli[RetryOf[c]] = "connection failed"
                           \/ response[RetryOf[c]] = Reply(FALSE, "error")

(* A break (or a status, or a shutdown) that was posted is handled even if   *)
(* the command that is executed never ends, unless it and the commands       *)
(* behind it hold every thread of the pool (src/http_server.cpp:116-128).    *)
BreakGetsThrough ==
  \/ <>[]PoolFull
  \/ \A c \in Calls : Kind[c] # "exec" /\ c \in Range(tasks) ~> c \notin Range(tasks)

(* When "HTTP server stopped." was printed, the server will have stopped,    *)
(* every call will have ended that does not wait for the command that is     *)
(* executed, and no other command is executed                                *)
(* (src/cli/main.cpp:125-127, src/http_server.cpp:106-114, 200-213).         *)
ShutdownStops ==
  \A c \in Calls : Kind[c] = "shutdown" /\ cli[c] = "printed"
                   ~> ~running /\ tasks = <<>> /\ pool \subseteq {current}
=============================================================================
