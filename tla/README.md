# A TLA+ verification of windbg-agent

windbg-agent is a WinDbg extension that lets programs outside the debugger run
debugger commands, over HTTP (`!agent http`) or MCP (`!agent mcp`). What is hard
about it is not the commands but the threads around them: HTTP workers queue
pointers to commands in their own stack frames, one command thread executes
them on an engine that runs on its own, up to four kinds of thread may stop the
server at any moment, and both servers share one agent state. It can also trace a
target to an address (`!agent trace`), against a clock, an interrupt and that
engine. This directory models these parts in TLA+, model-checks them with TLC on
small instances, and proves their main safety properties with TLAPS for
instances of any size.

## Inventory

| Component | Source | State | Operations | Hard behaviour |
|---|---|---|---|---|
| Command queue | `http_server.cpp:27-57, 153-189, 215-238`; `mcp_server.cpp:64-94, 201-237, 259-282` | `running_`, `pending_commands_`, a `PendingCommand` in each handler's frame | `queue_and_wait`, `run_command_loop`, `complete_pending_commands` | frames that die while someone holds a pointer; two condition variables; concurrent sweeps |
| HTTP server | `http_server.cpp:59-213` | two threads and their handles, `impl_`, `exec_cb_`, `break_cb_` | `start`, `stop`, `/exec`, `/status`, `/shutdown`, `/break` | `stop()` on several threads; a stop that overtakes a start; restart; `listen` that gives up |
| MCP server | `mcp_server.cpp:96-257` | one thread and its handle, the SSE server | `start`, `stop`, the `dbg_exec` tool | one sweep, before the handlers are done |
| Extension | `main.cpp` | `g_agent_state`, both servers | `!agent http, mcp, stop, trace`; unload | one agent state for two servers; raw pointers captured in callbacks; joins on the thread that pumps events |
| Debugger client | `windbg_client.cpp` | COM pointers | `ExecuteCommand`, `ExecuteCommandSilent`, queries | polls the status of an engine that runs on its own; nested calls |
| Output capture | `output_capture.cpp` | captured text, original callbacks, nesting depth per thread | `Install`, `Uninstall`, `GetAndClear`, `Output` | callbacks from within callbacks; captures on top of captures |
| Trace | `dbg_trace.cpp` | step count, stop reason, log | user-mode loop, JavaScript loop, script, `resolveCallTarget` | step limit, time limit and end address that race; the encodings of a call |
| CLI | `cli/main.cpp` | none | `exec`, `status`, `shutdown` | a read timeout against a command that goes on; a pool of threads that can fill up |
| DML output, settings, information texts | `dml_output.cpp`, `settings.cpp`, `format_*`, clipboard | none that steers anything | formatting, files | none |

How they interact: the CLI connects to a thread of the HTTP server's pool. That
worker (or an MCP tool call) enters `queue_and_wait`, pushes a pointer and waits;
the command thread pops it and calls `exec_cb_`, which is
`WinDbgClient::ExecuteCommand` on the client in `g_agent_state`; that installs an
`OutputCapture`, executes, and polls until the target has stopped. The
extension thread, which is WinDbg's own and pumps the engine's events, starts and
stops the servers; `/shutdown` stops from a detached thread; `/break` interrupts
through a callback; the server thread sweeps after `listen_after_bind` has
returned; and a client may send `!agent stop` or `!agent trace` itself, which
then runs on the command thread.

What makes the components correct:

* queue: every call returns; what a client is told agrees with what happened;
  a command is executed at most once and held by one thread at a time;
* servers: every `stop()` returns and leaves no thread, no command and no call
  behind; a thread is joined once; a start finds nothing of an earlier session;
* extension: no callback uses an agent state that was reset; stops end;
* debugger client and output capture: a reply is the command's output, of a
  command that is over; every text is captured and forwarded once;
* trace: the log is what happened, the reported stop reason is the real one;
* CLI: what is printed is so; a command that was refused can be tried again.

`PROJECT.json` lists every hazard of the code at its line, with the properties
that cover it or the reason why none does.

## Modules

| Module | What it is |
|---|---|
| `ExecService` | The promise to a client: one command at a time, each at most once, and which answers go with which state of its execution. |
| `ServerLife` | The promise to WinDbg's thread: what a `start()` finds, what a `stop()` leaves, and what other threads may do to the server in between. |
| `CommandQueue` | The queue both servers contain, statement by statement. Implements `ExecService`, as the two servers do. |
| `HttpServer` | Extends `CommandQueue` with the threads that perform its actions in the HTTP server: start, listen, the stops and their joins. Implements `ServerLife`. |
| `McpServer` | The same for the MCP server. |
| `Engine` | The debug engine as far as the extension depends on it: whether the target runs, and a requested break. |
| `OutputCapture` | Stacked captures and nested calls of `Output`, one engine thread. |
| `DebuggerClient` | `ExecuteCommand` and `ExecuteCommandSilent`: composes `Engine` and `OutputCapture`. |
| `AgentExtension` | `main.cpp`: both servers, `g_agent_state`, the callbacks, WinDbg's thread and the unloading, on `Engine`. Its servers keep to `ServerLife`. |
| `CliClient` | The CLI and the pool of handler threads in front of one session of the HTTP server, in coarser steps than `HttpServer`. |
| `CallDecoder` | `resolveCallTarget`, and the encodings it has to decode. |
| `TraceLoop` | The three loops of `!agent trace`, on `CallDecoder`. |
| `CommandQueueProofs`, `HttpServerProofs`, `McpServerProofs`, `AgentExtensionProofs`, `DebuggerClientProofs`, `CliClientProofs`, `CallDecoderProofs`, `TraceLoopProofs` | The theorems about the modules they are named after. |
| `MC*` | The instances for TLC. |

The two servers contain the same queue code, word for word but for the names;
`CommandQueue` cites `http_server.cpp`, and `McpServer` maps the actions it takes
over to their lines in `mcp_server.cpp`.

The levels. `CommandQueue` is the finest. `HttpServer` and `McpServer` contain it
and add who takes its steps. `AgentExtension` and `CliClient` do not contain a server but an
abbreviation of one. Two abstract specifications say what can be relied on: `ExecService`,
which `CommandQueue` and both servers implement, what a command's client may, and `ServerLife`,
which both servers and `AgentExtension` implement, what WinDbg's thread may. All of these are
theorems. The server of `CliClient` is coarser than `CommandQueue`, and nothing ties the two but
their reading: it executes pending commands in any order, although the queue is first in, first
out, and its `Stop` clears `running_` and answers whoever waits in one step, so that a
command the loop takes between the clear and the sweep is not in it. `DebuggerClient` is the
inside of `CommandQueue`'s `Begin` and `Finish`, and of `AgentExtension`'s `Execute` and `Poll`.

```
              ExecService                        ServerLife
            /      |                             /     |     \
   CommandQueue    |                            /      |   AgentExtension (twice)
            \      |                           /       |
             +-- HttpServer, McpServer --------+-------+
```

### How the state corresponds to the code

**Pointers and frames.** A `PendingCommand*` is modelled as the handler thread
whose frame holds it. A handler's next call builds its command in the same
place, so a pointer that outlives its call dangles while the handler is idle and
aliases its next command. Reading or writing through a dead pointer is undefined
behaviour; the model lets it go on in the ways the build can: the memory still
holds the old command, or the text has been overwritten (`"garbage"` in
`Begin`), or the process ends, which adds no further state. A write to a frame
that is not in use changes nothing that anybody reads, as `Enter` initialises
every field. `HeldCommandsLive` says that none of this happens, and is refuted.

**Critical sections and waits.** No mutex is held across a blocking call, so a
critical section is one step. The handler's wait is three places: `wait` (about
to evaluate the predicate, with the mutex), `blocked` (in the wait set) and
`leave` (predicate true). Setting `completed` and notifying are two steps, and
`running_` is read inside the predicate although nobody who changes it holds
that mutex. `queue_cv_` is no state: its wait ends after 100 ms at the latest and
the loop re-reads everything. The command loop's places are `test`, `pop`, `run`,
`exec`, `complete`, `notify`.

**Execution.** In `CommandQueue`, `Begin` and `Finish` stand for the call of
`exec_cb_`, whose output is identified with the command's text; a thrown exception
becomes the output and takes the same path.

**Stops.** `BeginStop` clears `running_`; `Swap`, `SweepOne`, `NotifySwept` and
`EndSweep` are `complete_pending_commands`. In `HttpServer` and `McpServer` the
rest of `start()` and `stop()` is the program counter `xpc` of each thread that may
be in them; `joinable()` and `join()` are separate steps, as in the code. A join by
the thread itself throws in the standard library (`"thrown"`), and the exception
ends in the `catch` around `exec_cb_`. Two concurrent joins of one thread, and the
assignment to a joinable `std::thread`, are undefined or end the process; the model
goes on as if both joins returned, has no successor for the assignment, and
`HandlesFree` says that neither happens. A swept command is answered with
`success: true` and a text of the server; `ExecService` and `PrintedTrue` state
what such an answer means: the command was not executed and will not be.

`Endings` says in which ways a behaviour of `HttpServer` may end a session: by the
user, a POST /shutdown, a client's `!agent stop`, or an accept error that makes
`listen_after_bind` return by itself. One of these sets is chosen at the beginning,
so that a single run covers all of them without the undefined ones.

`stopAsked` is what has become of the call of `impl_->server.stop()` in line 202. The server
thread is `"spawned"` before it listens; a stop that comes then is `"lost"`, since the HTTP
library takes a server for running only once `listen_after_bind` has begun, and the server
listens afterwards all the same. Handlers leave as `running_` is false, but the join in line
208 waits for good (`StopLost`), unless another `stop()` comes while the server listens.

**Agent state.** Each client that `setup_agent_state` creates is a generation. A
callback holds the generation it captured, `state` is the one in `g_agent_state`, and
a pointer is good while the two agree. WinDbg's thread is in one command of the user
(`user`) or pumps events, never both. `Orderly` is a user who starts a server only
when none is there and does not unload while a `POST /shutdown` is under way. Its servers
stop when they are told to: the stop that `HttpServer` can lose is left out, as in `ServerLife`
the return of a `stop()` may take any time. A callback that is not set is generation 0;
`break_cb_` keeps its generation from one session to the next, since nothing but
`set_break_callback` assigns to it.

**Engine, client and capture.** The engine is external: `Execute` has changed the
status by the time it returns, callbacks are serialised, and a target is
stopped, resumed by the user or gone whatever the extension does. A text is its
number. What is output between `GetAndClear` and `Uninstall` belongs to no reply.
The state with which `Output` recognises a nested call is the thread's, not the
object's: the lower of two captures therefore takes itself for a nested call and
hands nothing on, which is right because the callbacks below it are the server
client's, which has none. A text that the client's own callbacks output from within
`Output` is captured, and added to the buffer that the outermost call has already handed on; line 120
clears it, so that it is never forwarded. The comments say the opposite, that nested output is
accumulated and flushed once at the outermost call (`output_capture.cpp:85, 108, 115`).
The model does what the code does, and `ForwardedOnce` makes no statement about these texts.

**CLI.** A call is in one of `tasks` (connected, not looked at), `pool` (a thread
waits with it) or neither. The read timeout is not noticed by the server. Once
stopped, the HTTP library closes the connections it has not looked at (`Drop`). An
answer is one of the statuses of `http_server.cpp:77-128`: the result, 503, or `"error"` for the
400 and 500 of `POST /exec`. Status 500 may come after the command was executed, when
its output cannot be written as JSON (line 93). The
size of the pool is the library's default, and a constant here.

**Decoder and trace.** `code[k]` is a byte, except that a displacement of four bytes
is one number; addresses are numbers modulo `WordSize`, and `shl64`, `add64` and the
sign extensions are arithmetic modulo it. Instructions are given by what they do
(`Target`) and by how they are encoded (`Code`), independently of the decoder;
`"other"` stands for everything that is not a call the decoder handles. In
`TraceLoop`, `mode` is the loop and `place` the test or call the user-mode
loop is about to make. In user mode `Execute` records a step (`pending`) or rejects
it, and the target moves only during `WaitForEvent`, which may end with the event,
with its own time limit (`S_FALSE`), or with a failure. In kernel mode the loop is `"away"`
in `gu`, `p` or `t` until the target stops, which it need not. The JavaScript loop looks at
the result of none of them (`dbg_trace.cpp:605, 619, 623`), so that a step that was rejected
leaves the target where it is and is logged and counted again (`JsBack` may leave `ip` as it is); the script is
called by its own step, so that a rejected one ends it without a word (`Breaks`). What
`resolveCallTarget` cannot read is taken for no call (`Skips`). Where the target goes is
open. The clock is the fact that the limit has passed (`late`); `path` is the history the log is
compared with: where the target was when it was resumed, in the JavaScript loop when it was told to
step.

**Libraries.** The HTTP library is httplib v0.15.3 (`CMakeLists.txt:36`), which is not under
`src/`. Of it the model assumes that `stop()` does nothing before `listen_after_bind` has begun,
and that this returns only once it was stopped or has failed, with its workers done. Of
fastmcpp's `SseServerWrapper` it assumes that it listens when its `start()` has returned, and that
its `stop()` waits for the calls it has and accepts no new ones.

## Runs

| Run | Result | What it shows |
|---|---|---|
| `http` | holds | The queue within the HTTP server, under every kind of ending: exclusive ownership, no lost wakeup, own answers, the refinement of `ExecService`; stops return and leave nothing, calls return, and `start()` finds the queue as `CommandQueue` assumes (`QueueSpec`). Two stops need not return: one from inside, and one that came before the server listened. |
| `mcp` | holds | Two MCP sessions: the second start finds no thread and no call of the first, no wakeup is lost, stops and calls return unless a client stops the server from inside. |
| `agent` | holds | With an orderly user: no command is executed with a client that was released, no break is requested with a control that was, once the session has set its callback; the unloading leaves nothing, and stops end unless the command they wait for waits for the target. |
| `client` | holds | A reply is the command's output, in a stable state; the client's own callbacks are given every outermost text once; a break ends the wait. |
| `cli` | holds | What `exec` prints is so, a command is executed by a call and its retry only if the call was given up or got status 500, and breaks and shutdowns get through beside a command that never ends. |
| `trace` | holds | Limits, log (with the decoded calls) and reported reason of all three loops, except that "Max steps" may stand for the time limit; the trace ends, unless a kernel-mode step never comes back. |
| `queue_dangling` | violated | `notify_one` through a pointer to a frame that is gone, without any stop. |
| `http_handles` | violated | Two threads join the same thread, or a start assigns to a joinable one. |
| `mcp_stale` | violated | A pointer left in the queue for the next session. |
| `agent_state` | violated | What a callback points to is released while it may be called. |
| `agent_stop` | violated | `!agent stop` waits for a command that waits for events which nobody pumps. |
| `trace_reason` | violated | The time limit is reported as the step limit. |

`StateLive`, which `agent_state` refutes, fails in two ways. Starting a second server beside one
that runs releases what the callbacks of the first point to: this is the shortest
trace, and the one TLC shows. With `Orderly = TRUE` in the same run TLC shows the other: `!agent http`, `!agent stop`,
`!agent http`, and a `POST /break` after the second `start()` has begun to listen (`main.cpp:230`) and
before `set_break_callback` (242) calls the callback of the first session. That window is why
`BreakControlOnceSet` speaks only of the time from `set_break_callback` on.

The violated properties are what the code's own texts say; each is a finding in
`PROJECT.json` with the lines it disagrees with. All of them are short: the
trace of TLC is the scenario. One more disagreement, that of `output_capture.cpp:120` with the
comments above it, is noted with its hazard and above, and has no run.

Every property of a passing run has a mutant: a plausible bug in a mapped
definition (a wait that does not look at `running_`, a sweep that copies the
queue instead of swapping it, a setup whose failure is ignored, a capture that is
not cleared, a handler that gives up in the middle, a wait that does not count, ...) with which TLC finds the property violated. The mutated definitions
stand before the ones they replace (`CheckFlagOnly` before `Check`).

### Bounds

| Run | Instance | States |
|---|---|---|
| `http` | 2 handlers, 2 requests, 1 shutdown; 2 sessions for the user, 1 for the other endings | 136,969 |
| `mcp` | 2 handlers, 2 requests of which one is `!agent stop`, 2 sessions | 41,287 |
| `agent` | 2 sessions, 2 commands, the user resumes the target once | 7,077 |
| `client` | 4 texts, the user resumes the target once | 75,612 |
| `cli` | 1 command and its retry, a break, a shutdown; 2 threads in the pool | 17,610 |
| `trace` | 4 addresses, a limit of 3 steps, a call of every form at one of them | 118,887 |

* `http`: two handlers can be queued and executed at once, the second request can come
  into the frame of the first while an old pointer to it is still held, and a stopper
  and the server thread sweep concurrently. Each request is sent once, which is what
  distinguishes answers. A second session is what shows that the first left nothing. It is
  only for a user who stops the server: with the other endings a restart runs into what
  `http_handles` shows, and a run shows nothing beyond undefined behaviour.
* `mcp`: the second session starts with whatever the first one left in the queue, so the
  server does not keep to `CommandQueue` (`QueueSpec`; see `mcp_stale`), and what is checked
  is what holds nevertheless. Once a client's `!agent stop` was executed, the server is not started
  again (`MayStart`).
* `agent`: the second session is of the same or of the other server. A second command
  meets the state the first was executed with.
* `client`: one text before, within and after a nested command, and one from within
  the forwarding of another.
* `cli`: the command and its retry fill the pool, so that the break and the shutdown have to wait.
* `trace`: the end, a function to skip, an ordinary instruction and a call: enough for a
  step that is rejected, one that is carried out, and the test at the limit. The
  words are 10 bits and the long displacements 9, so that both wrap around.
* The violated runs are the smallest instances in which the scenario exists.
* `MaxSessions`, `MaxCommands`, `MaxResumes` and `MaxTexts` bound how often something
  external happens. `MaxSteps` is the program's own.

No run checks for deadlock, because every one of these systems really stops: nobody has to
start a stopped server again, to send a call or to trace. That nobody waits forever for somebody else is
the subject of the liveness properties, and of `NobodyStuck`.

### Fairness

Weak fairness of each thread that exists: a handler's own steps, the command
thread, a sweep or `stop()` that has begun, the rest of a `start()`, the server
thread. It is the scheduler's fairness of one process. Nobody has to send a
command or to start or stop a server, and a spurious wakeup is never required,
so no property is saved by one.

* `HttpServer`, `McpServer`: `Finish` is among the fair steps, so a debugger command in
  flight ends. `StopReturns`, `HttpCallsReturn` and `McpCallsReturn` have an exception,
  spelled out as `<>[]StoppedFromInside`: a client sent `!agent stop`, and the command
  thread waits for the handler that waits for it. The HTTP server's `StopReturns` has a second
  one, `StopLost`: httplib v0.15.3 does nothing in `stop()` before `listen` has set its own
  flag, so a stop that comes between the `return` of `start()` and that moment is lost, `listen` goes on and the
  join waits for it. Becoming a listener (`Listens`) is a fair step of the server thread; to return from `listen`
  is one only after a stop that was not lost.
* `AgentExtension`: a target that runs stops sooner or later *as long as somebody pumps
  its events* (`Pump`), which WinDbg's thread does when it is in no command. `StopEnds` has the
  exception `<>[]Stuck`, and `UserStopEnds` without it is what `agent_stop` refutes.
* `DebuggerClient`: the client's thread, the return of an `Output`, and the break that was
  requested. No target stops by itself by right.
* `CliClient`: pool, command thread and the thread of `/shutdown`. A command need not end:
  `BreakGetsThrough` and `ShutdownStops` do without.
* `TraceLoop`: the loop itself, with its tests, its steps and the time limit of its wait.
  Neither an event nor a failure nor an interrupt has to come, so in user mode `TraceEnds` says that
  the limits are enough. Of the target nothing is assumed in a step of the kernel-mode loops
  either (`JsBack`, `ScriptBack` are not fair). They have no time limit, so `TraceEnds` excepts a
  loop that stays `away` in a step.

## Proofs

Each theorem holds for every value of the constants, that is for any number of
handlers, requests, stopping threads, sessions, calls, texts, and so on. The
assumptions are the named ones of the modules: that names of threads and marker texts are
different from each other, that bounds are natural numbers, that a retry is of the same
kind as what it retries, and that the pool has a thread. Premises beyond these stand in
the theorem and are given here. The inductive invariants were checked by TLC on the
instances above before they were proved.

**`CommandQueueProofs`**: `TypeCorrect`, `ExclusiveOwnershipHolds`, `NoLostWakeupHolds`,
`OwnAnswerHolds`, and `QueueImplementsService`, the refinement (all of `Safety`).
`ExclusiveOwnership` is not inductive: `Push` would break it if the
handler's pointer were still owned by someone. `OwnInv` adds `FrameInv`:

* `Unqueued`: a handler that is about to push is owned by nobody;
* `StaleAfterStop`: a pointer is owned although its handler has left or is
  leaving only when the server has stopped, and so, by the guard of `Enter`, no
  new call can be built on it before `Open` finds the queue `Quiet`;
* `CompletedFree`: a live command that is completed has no owner.

The answers need, in `AnswerInv`, that two frames that are live or owned hold different
requests, that a request in a frame has no answer yet and is not executed while it is
queued, what a completed frame's result may be, and that a request that was not
sent is nowhere. The refinement maps `Begin` to `Start`, `Finish` to
`Finish`, `Refuse` and `Leave` to `Answer`, and every other step to a stutter.
`NoLostWakeup` follows from `WakeInv`: whoever waits uncompleted is owned, whoever is
blocked is attended by somebody who will complete or notify it, and a stopper holds nothing
before its swap (`StopperInv`). That a server that runs has a command thread is apart
(`ServedKept`), because in the servers that is true one step later: `start()` sets `running_` first.

**`HttpServerProofs`**: `HttpTypeCorrect` has no premise. `UserHandlesFree` has
`Endings = {{"user"}}`. All others have `Restarts \subseteq {{"user"}}`: only a server that nobody
but the user stops is started again, while a session may end in every way. That premises are
needed is what `http_handles` shows.

* `HttpImplementsQueue` (`QueueSpec`), and from it and the theorems above `HttpImplementsService`,
  `HttpOwnAnswer` and `HttpExclusiveOwnership`. The argument is `LifeInv`: apart from
  `start()` the server takes steps of the queue (`QueueMoves`), and while the user alone stops
  it, one thread is in `start()` or `stop()` (`OneCaller`), its place tells which threads and handles
  there are (`Places`), and from the return of `listen` on there is no call, from the server
  thread's sweep on no command (`Drained`); so that a stopped server is `AtRest`, which is the
  guard of `Open` (`Quiet`) that `CommandQueue` assumes.
* `StopLeavesNothingHolds`, for every ending. For the user's it is `AtRest`. A session that clients, an
  accept error or several threads at once end is the only one, and `FirstInv` is about it: the
  threads that stop it are many and anywhere, but a thread is past the join of the server thread only
  when that has gone (`Spawned`), and that goes only with its handlers done and the queue swept; so
  it does not matter who came first. Of the command thread nothing is claimed there, because a
  `stop()` that overtakes the end of `start()` finds none to join.
* `HttpNoLostWakeup`: `WakeInv` through `start()`, with `Served`: the command thread is there, or
  `start()` is about to create it.
* `HttpImplementsLife`, the refinement of `ServerLife`. `SeenInv` is what the mapping needs: a thread
  that is there has a handle, and past a join there is none.
* `HttpNobodyStuck`: while anybody is in `start()` or `stop()`, or a call has no answer, somebody can go
  on, unless `StoppedFromInside` or `StopLost`. It does not assume that a stop is heard: that `listen`
  may return counts only when it was, and a stop lost before the server listened is the second exception. With a circle of waits there would be a state where nobody can. The
  proof excludes them in the order of the waits: no sweep waits (so all are over); the command
  thread waits only inside the command that stops the server; so no handler waits, since `WakeInv` would
  name who attends it; so the server thread does not, so `stop()` does not. `MoveInv` ties the
  places of a thread to each other. The guards of the fair steps are written out in
  `SomebodyCan`, because the prover has no `ENABLED`; that each implies the `ENABLED` of its step was
  checked by TLC on the instance of `http`. Together with that every wait is for a step under
  fairness this is the core of `StopReturns` and `HttpCallsReturn`, for any number of threads.

**`McpServerProofs`**: `McpTypeCorrect`, `McpImplementsLife` (`LifeSpec`), `McpNoLostWakeup`
(`WakeupsKept`) and `McpNobodyStuck` have no premise. They hold in every session, although a pointer may be
left in the queue from the one before, which disturbs none of them; the one thing left out
is the restart that `MayStart` leaves out. `McpImplementsService`, `McpOwnAnswer`,
`McpExclusiveOwnership` and `StopLeavesNoCallHolds` have `MaxSessions = 1` and allow a client's `!agent stop`:
that the queue is one of `CommandQueue`'s is false with a second session (`mcp_stale`).
`LifeInv` says that before the first start nothing has been used, `EndInv` that once `running_` was
cleared somebody is in `stop()` until the thread is joined or the client that stopped the server from
inside has its command executed. The arguments are those of the HTTP server, with the SSE server's
wait for its handlers in the place of the server thread.

**`AgentExtensionProofs`**: `AgentTypeCorrect` holds of any user; `ExecStateLiveHolds`,
`BreakControlOnceSetHolds` and `UnloadedQuietHolds` assume `Orderly`; the second says nothing of the
time before `set_break_callback`, when the callback may still be that of the session before
(`agent_state`). `OrderInv`: at most one
server is there, and none while one is being set up (`Alone`); what is left of a stopped server
somebody waits for (`Awaited`); what is there uses the state that is there (`Current`); and
nobody stops the server behind the back of the unloading (`Leaving`). `AgentServersLive` is the
refinement of `ServerLife` by each of the two servers, for any user: what `AgentExtension` makes of a server is
within what `HttpServer` and `McpServer` implement. Its invariant is short (`SeenInv`: a server that
is being started, or waited for, does not run), since each action is one of the abstract ones.

**`DebuggerClientProofs`**: `ClientTypeCorrect`, `ReplyIsOutputHolds`, `ForwardedOnceHolds`,
`StableReturnHolds`. `ClientInv`: every call has its capture and calls nest only at their
beginning on a client without callbacks (`Nested`); a capture that was not collected holds all
that was said since it was installed, and the per-thread buffer is empty between two outermost
calls of `Output` (`Captured`). Without the latter the lower of two captures would get texts twice. `Passed`: what was given to
the client's own callbacks are the outermost texts as they came. Texts are numbered as they
are output, so that is each once and in order.

**`CliClientProofs`**: `CliTypeCorrect`, `PrintedTrueHolds`, `RetrySafeHolds`. `CliInv`: a
thread of the pool waits for every queued command and for no other than those and the one
that is executed (`Waited`); a call is in one place, once (`OnePlace`); a call has no
response while it waits, success means its own output or that the command will not run, and a
failure that the server was stopped or that the answer could not be written, status 500 (`Answered`);
and a retry that the server has seen was sent after the client gave up the first call or got
its status 500 (`Retried`).

**`CallDecoderProofs`**: `DecoderRight`: for every register file, memory and word size, every
instruction of the listed forms, with every register, scale, displacement and prefix, at every
address, is decoded to what it calls. Its lemmas take apart the bytes (`ModRM`, SIB, REX) and
the modular arithmetic. It is what TLC checks on the sampled calls of `trace` through
`LogFaithful`.

**`TraceLoopProofs`**: `TraceTypeCorrect`, `NeverPastEndHolds`, `ReasonTrueHolds`, and
`LogFaithfulHolds`, for all three loops. `LogFaithful` compares the log with where the target was
when it was resumed, and in the JavaScript loop with where it was when it was *told* to step: that
loop ignores what `t`, `p` and `gu` answer, so a step that is rejected is logged again at the same address.
`ReasonTrue` takes "Max steps" of the user-mode loop for what it is, the limit or the end of
the time; that the message says the former is the finding of `trace_reason`. `TraceInv` adds which loop is at which
place (`Placed`), that the target was resumed at most once per step, and once less between the
log entry and the wait or the return of the script (`Counted`), that a log entry is ahead of the path exactly
there, or for good once the time is over (`Logged`: this is why a wait that timed
out cannot log a step twice), and that the address was tested after it was last
set (`EndTested`). The JavaScript loop's log leaves out what is skipped; `TakenFrom` says so by
where each entry comes from, with a witness that grows with the log, and not by a filter over the
path, about which one would have to reason by induction. `TraceComesNearer` is a measure,
`6 * (MaxSteps - steps)` and the rank of the place, that every step of the loops lowers and
nothing raises, neither an event nor the return from a kernel-mode step: the core of `TraceEnds`.

### Only model-checked

* Everything that is liveness: `StopReturns`, the calls' return, `StopEnds`, `BreakEnds`,
  `BreakGetsThrough`, `ShutdownStops`, `TraceEnds`. The prover does not reason about
  fairness and `ENABLED`. Of `StopReturns`, `HttpCallsReturn`, `McpCallsReturn` and `TraceEnds`
  the part that is safety is proved (`HttpNobodyStuck`, `McpNobodyStuck`, `TraceComesNearer`).
* Every other property of a passing run is a theorem. `LivesSpec`, `HttpServer`'s `LifeSpec` and
  the `ServiceSpec` of the MCP server are the other way round: they are proved, after TLC found them to hold of
  the instances above, and no run is spent on them. `CommandQueue`'s `TypeOK` and `NoLostWakeup` are
  in the runs as parts of `HttpTypeOK`, `McpTypeOK` and `WakeupsKept`.
* That `DebuggerClient` is the inside of `Begin` and `Finish` is by construction, not a theorem.

## Not modelled

* DML output, settings, the information and help texts, the clipboard: formatting and file
  I/O that steers nothing. The parsing of `!agent trace`'s options and of the CLI's arguments,
  the texts of the log and the search for its directory, for the same reason.
* The queries of the debugger client (target, state, process): they read the engine and
  format a text.
* How the trace reads registers, and the breakpoint at its start address beyond that its
  `g` may not be carried out yet when the loop begins. A negative step limit: the three
  loops disagree on it and no text says what it means.
* `KdTraceCallbacks`, which nobody installs; `interrupt_check_`, which the program never sets;
  `wait()` of both servers, which nobody calls; a failing bind or port search, which leaves no
  state (`AgentExtension` has the failing start). `/status` changes nothing (`CliClient` has it as a
  call that is answered at once).
* The detached thread of a `/shutdown` that outlives the module it was loaded from: what is left
  then is up to the system.

## What could follow

The premises of the server theorems that are about restarts: what a client may still rely on in a
session that follows one which a client ended, and in one of the MCP server with a pointer left in its queue.
