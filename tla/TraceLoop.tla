------------------------------ MODULE TraceLoop ------------------------------
(***************************************************************************)
(* !agent trace (src/dbg_trace.cpp): step the target until it reaches an    *)
(* address, and log the registers at every step.  There are three loops: in *)
(* user mode one in C++, against a clock and an interrupt; in kernel mode   *)
(* one in JavaScript and, with more_verbose, a script that calls itself.    *)
(*                                                                         *)
(* The engine is external.  In user mode Execute only records what to do,   *)
(* or rejects it, and the target moves during WaitForEvent; in kernel mode  *)
(* a step is over when the engine comes back from it, which it need not,    *)
(* and a rejected one leaves the target where it was.  Where the target     *)
(* goes is open.                                                            *)
(***************************************************************************)
EXTENDS CallDecoder, Sequences

CONSTANTS
  Addresses,           \* where the instruction pointer may be
  End,                 \* end_ip
  Programs,            \* at: which instruction is where; skips: skip_addrs;
                       \* opaque: where code, or what it refers to, is unreadable
  MaxSteps,            \* params.max_steps
  Modes                \* the loops considered: "user", "js", "script"

ASSUME EndAddress == End \in Addresses /\ Addresses \subseteq Word
ASSUME SomePrograms ==
  Programs \subseteq [at : [Addresses -> Instructions], skips : SUBSET Word,
                opaque : SUBSET Addresses]
ASSUME SomeSteps == MaxSteps \in Nat
ASSUME KnownModes == Modes \subseteq {"user", "js", "script"}

VARIABLES
  program,             \* what is traced, without what
  mode,                \* which loop it is
  place,               \* where Trace() is
  steps,               \* step_count, i, or what was taken off $t0
  ip,                  \* the target's instruction pointer
  pending,             \* the engine has a command that it will carry out
  late,                \* the time limit has passed
  pressed,             \* the user asked for an interrupt
  log,                 \* where the target was in the steps of the log file
  path,                \* history: where the target was each time it was resumed,
                       \* in the JavaScript loop each time it was told to step
  reason               \* what the trace reports

given == <<program, mode>>
vars  == <<given, place, steps, ip, pending, late, pressed, log, path, reason>>

TraceInit ==
  /\ program \in Programs
  /\ mode \in Modes /\ (mode # "js" => program.skips = {})
  /\ ip \in Addresses
  /\ place = "begin" /\ steps = 0
  /\ pending = FALSE /\ late = FALSE /\ pressed = FALSE
  /\ log = <<>> /\ path = <<>>
  /\ reason = "none"

Stop(r) == place' = "done" /\ reason' = r
Go(from, to) == place = from /\ place' = to /\ UNCHANGED reason

-----------------------------------------------------------------------------
(* Before the loop: a parameter, the log or the script may be unusable; a    *)
(* start address is reached by a breakpoint and a "g".                       *)

Refuse ==
  /\ place = "begin"
  /\ Stop("error")
  /\ UNCHANGED <<given, steps, ip, pending, late, pressed, log, path>>

Begin ==
  /\ Go("begin", IF mode = "user" THEN "head" ELSE mode)
  /\ \/ UNCHANGED <<ip, pending>>
     \/ mode = "user" /\ pending' = TRUE /\ UNCHANGED ip
     \/ mode # "user" /\ ip' \in Addresses /\ UNCHANGED pending
  /\ UNCHANGED <<given, steps, late, pressed, log, path>>

-----------------------------------------------------------------------------
(* The user-mode loop                                                        *)

OutOfSteps ==
  /\ place = "head" /\ steps = MaxSteps
  /\ Stop("max steps")
  /\ UNCHANGED <<given, steps, ip, pending, late, pressed, log, path>>

TestClock ==
  /\ place = "head" /\ steps < MaxSteps
  /\ IF late THEN Stop("timeout") ELSE Go("head", "interrupt")
  /\ UNCHANGED <<given, steps, ip, pending, late, pressed, log, path>>

(* GetInterrupt takes the request with it.                                   *)
TestInterrupt ==
  /\ place = "interrupt"
  /\ IF pressed THEN Stop("interrupted") ELSE Go("interrupt", "read")
  /\ pressed' = FALSE
  /\ UNCHANGED <<given, steps, ip, pending, late, log, path>>

CannotRead ==
  /\ place = "read"
  /\ Stop("no ip")
  /\ UNCHANGED <<given, steps, ip, pending, late, pressed, log, path>>

Reached ==
  /\ place = "read" /\ ip = End
  /\ Stop("reached")
  /\ UNCHANGED <<given, steps, ip, pending, late, pressed, log, path>>

StepBeyond ==
  /\ Go("read", "limit")
  /\ steps' = steps + 1
  /\ log' = Append(log, ip)
  /\ pending' \in {pending, TRUE}
  /\ UNCHANGED <<given, ip, late, pressed, path>>

(* Log, then "t" or "gu", whose failure nobody looks at.                     *)
Step ==
  /\ Go("read", "limit") /\ ip # End
  /\ steps' = steps + 1
  /\ log' = Append(log, ip)
  /\ pending' \in {pending, TRUE}
  /\ UNCHANGED <<given, ip, late, pressed, path>>

(* When no time remains the loop is left without a reason, which is reported *)
(* as the step limit.                                                        *)
TestRemaining ==
  /\ IF late THEN place = "limit" /\ Stop("max steps") ELSE Go("limit", "wait")
  /\ UNCHANGED <<given, steps, ip, pending, late, pressed, log, path>>

(* WaitForEvent: the target ran and stopped, ...                             *)
WaitEvent ==
  /\ Go("wait", "head")
  /\ pending /\ pending' = FALSE
  /\ ip' \in Addresses
  /\ path' = Append(path, ip)
  /\ UNCHANGED <<given, steps, late, pressed, log>>

WaitForever == place = "wait" /\ UNCHANGED vars

(* ... or the remaining time is over (S_FALSE, which is no failure), ...     *)
WaitTimesOut ==
  /\ Go("wait", "head")
  /\ late' = TRUE
  /\ UNCHANGED <<given, steps, ip, pending, pressed, log, path>>

WaitGoesOn ==
  /\ Go("wait", "head")
  /\ UNCHANGED <<given, steps, ip, pending, late, pressed, log, path>>

(* ... or it fails.                                                          *)
WaitFails ==
  /\ place = "wait"
  /\ Stop("wait failed")
  /\ UNCHANGED <<given, steps, ip, pending, late, pressed, log, path>>

-----------------------------------------------------------------------------
(* The kernel-mode loops.  Both wait for the target within gu, p or t, and    *)
(* count the step beforehand.                                                *)

AskStep ==
  /\ place' = "away"
  /\ steps' = steps + 1
  /\ UNCHANGED <<given, ip, pending, late, pressed, reason>>

(* JavaScript: neither a skipped function nor a call of one is logged; an    *)
(* instruction that cannot be decoded is taken for no call.                  *)
Skips(a) ==
  \/ a \in program.skips
  \/ a \notin program.opaque /\ ResolveCallTarget(Code(program.at[a]), a) \in program.skips

JsStep ==
  /\ place = "js" /\ steps < MaxSteps /\ ip # End
  /\ AskStep
  /\ path' = Append(path, ip)
  /\ log' = IF Skips(ip) THEN log ELSE Append(log, ip)

(* Nobody looks at what became of the step.                                  *)
JsBack ==
  /\ mode = "js" /\ Go("away", "js")
  /\ ip' \in Addresses
  /\ UNCHANGED <<given, steps, pending, late, pressed, log, path>>

JsStops ==
  /\ place = "js"
  /\ \/ steps < MaxSteps /\ ip = End /\ Stop("reached")
     \/ steps = MaxSteps /\ Stop("max steps")
  /\ UNCHANGED <<given, steps, ip, pending, late, pressed, log, path>>

ScriptStepUncounted ==
  /\ place = "script" /\ ip # End
  /\ AskStep
  /\ log' = Append(log, ip)
  /\ UNCHANGED path

(* The script: log, look at the address, then at the counter.                *)
ScriptStep ==
  /\ place = "script" /\ ip # End /\ steps < MaxSteps
  /\ AskStep
  /\ log' = Append(log, ip)
  /\ UNCHANGED path

ScriptBack ==
  /\ mode = "script" /\ Go("away", "script")
  /\ path' = Append(path, ip)
  /\ ip' \in Addresses
  /\ UNCHANGED <<given, steps, pending, late, pressed, log>>

(* The script calls itself by its step, so that a rejected one is its end;   *)
(* the JavaScript loop ends when something throws that it does not catch, as *)
(* the reading of a register.  Neither says so.                              *)
Breaks ==
  /\ place = "js" \/ place = "away"
  /\ Stop("none")
  /\ UNCHANGED <<given, steps, ip, pending, late, pressed, log, path>>

ScriptCountsFirst ==
  /\ place = "script"
  /\ log' = Append(log, ip)
  /\ IF steps = MaxSteps THEN Stop("max steps") ELSE ip = End /\ Stop("reached")
  /\ UNCHANGED <<given, steps, ip, pending, late, pressed, path>>

ScriptStops ==
  /\ place = "script"
  /\ log' = Append(log, ip)
  /\ IF ip = End THEN Stop("reached") ELSE steps = MaxSteps /\ Stop("max steps")
  /\ UNCHANGED <<given, steps, ip, pending, late, pressed, path>>

-----------------------------------------------------------------------------
(* Meanwhile time passes and the user presses Ctrl+Break, at which only the   *)
(* user-mode loop looks.                                                     *)
TimePasses ==
  /\ mode = "user" /\ place \notin {"begin", "done"} /\ ~late /\ late' = TRUE
  /\ UNCHANGED <<given, place, steps, ip, pending, pressed, log, path, reason>>

Press ==
  /\ mode = "user" /\ place # "done" /\ ~pressed /\ pressed' = TRUE
  /\ UNCHANGED <<given, place, steps, ip, pending, late, log, path, reason>>

Loop ==
  \/ Begin \/ OutOfSteps \/ TestClock \/ TestInterrupt \/ Reached \/ Step \/ TestRemaining
  \/ WaitTimesOut \/ JsStep \/ JsStops \/ ScriptStep \/ ScriptStops

TraceNext ==
  \/ Loop
  \/ Refuse \/ CannotRead \/ WaitEvent \/ WaitFails \/ JsBack \/ ScriptBack \/ Breaks
  \/ TimePasses \/ Press

TraceSafety == TraceInit /\ [][TraceNext]_vars

(* The loop runs.  No event need ever come: WaitForEvent's own limit counts, *)
(* and nothing is assumed of the target in a kernel-mode step.               *)
TraceSpec == TraceSafety /\ WF_vars(Loop)

-----------------------------------------------------------------------------
(* The types of the variables; above all, no loop counts beyond its limit    *)
(* (src/dbg_trace.cpp:588, 819, 962).                                        *)
TypeOK ==
  /\ program \in Programs /\ mode \in Modes
  /\ place \in {"begin", "head", "interrupt", "read", "limit", "wait", "js", "script", "away",
               "done"}
  /\ steps \in 0 .. MaxSteps
  /\ ip \in Addresses
  /\ pending \in BOOLEAN /\ late \in BOOLEAN /\ pressed \in BOOLEAN
  /\ log \in Seq(Addresses) /\ path \in Seq(Addresses)
  /\ reason \in {"none", "error", "max steps", "timeout", "interrupted", "no ip",
                 "reached", "wait failed"}

(* The JavaScript loop leaves out what is skipped: functions, and the        *)
(* instructions that call them, in whichever way they do and so far as they  *)
(* can be read.                                                              *)
Shown(a) ==
  /\ a \notin program.skips
  /\ a \notin program.opaque => Target(program.at[a], a) \notin program.skips

(* at[j] is where in path the j-th entry of the log comes from.              *)
TakenFrom(at) ==
  /\ at \in [1 .. Len(log) -> 1 .. Len(path)]
  /\ \A j, k \in 1 .. Len(log) : j < k => at[j] < at[k]
  /\ \A j \in 1 .. Len(log) : log[j] = path[at[j]]
  /\ \A i \in 1 .. Len(path) : Shown(path[i]) <=> \E j \in 1 .. Len(log) : at[j] = i

(* The log of the user-mode loop and of the script shows where the target    *)
(* was each time it was resumed, in order and nothing twice, whatever the    *)
(* engine rejected and whichever wait ended how; the last entry may be one   *)
(* that was not resumed.  That of the JavaScript loop shows where the target *)
(* was each time it was told to step, without what is skipped: a step that   *)
(* is rejected is told, and logged, again                                    *)
(* (src/dbg_trace.cpp:471-486, 603-623, 836-860, 960-964).                   *)
LogFaithful ==
  \/ mode = "js" /\ \E at \in [1 .. Len(log) -> 1 .. Len(path)] : TakenFrom(at)
  \/ mode # "js" /\ log \in {path, Append(path, ip)}

(* The target is not told to step where the trace should end, nor more often *)
(* than the step limit says (src/dbg_trace.cpp:593, 819, 833, 961).          *)
NeverPastEnd ==
  /\ Len(path) <= MaxSteps
  /\ \A i \in 1 .. Len(path) : path[i] # End

(* "Max steps (N) reached" is reported after N steps                         *)
(* (src/dbg_trace.cpp:627, 864, 964).  It is not: when no time remains after *)
(* a step, the user-mode loop is left without a reason, and says the same.   *)
MaxStepsTrue == reason = "max steps" => steps = MaxSteps

(* What is reported is so but for that message of the user-mode loop, which  *)
(* is given when the limit was reached or the time is over: the end address  *)
(* was reached, the time is over; and a kernel-mode loop reports the limit   *)
(* when it has taken as many steps, the script only short of the end address *)
(* (src/dbg_trace.cpp:593, 627, 823-834, 852, 863, 961-964).                 *)
ReasonTrue ==
  /\ reason = "reached" => ip = End
  /\ reason = "timeout" => late
  /\ MaxStepsTrue \/ (mode = "user" /\ late)
  /\ reason = "max steps" /\ mode = "script" => ip # End

(* The trace ends: in user mode even if the target never stops again, in     *)
(* kernel mode unless it waits in a step for a target that does not stop:    *)
(* there is no time limit there (src/dbg_trace.cpp:588-631, 819-861, 963).   *)
TraceEnds == <>(place = "done") \/ <>[](mode # "user" /\ place = "away")
=============================================================================
