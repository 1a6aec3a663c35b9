---------------------------- MODULE DebuggerClient ----------------------------
(***************************************************************************)
(* WinDbgClient::ExecuteCommand and ExecuteCommandSilent                    *)
(* (src/windbg_client.cpp) on one debug client, against an engine whose     *)
(* target runs, stops and writes on its own.  The servers execute a command *)
(* on a client of theirs, which has no output callbacks, and poll until the *)
(* target has stopped; the command may be "!agent trace", which executes    *)
(* others silently within the first.  Typed in WinDbg, the trace does so on *)
(* the user's client, which has callbacks.                                  *)
(***************************************************************************)
EXTENDS Engine, OutputCapture

VARIABLES
  calls,               \* where each call in progress is, the innermost last
  failed,              \* FAILED(hr) of the call that is collecting
  reply,               \* what the last call returned
  due,                 \* history: what was output during that call
  unsure               \* history: since the poll the user resumed the target,
                       \* or the poll ended because the status could not be read

clientVars == <<engineVars, captureVars, calls, failed, reply, due, unsure>>

NoReply == [kind |-> "none", text |-> <<>>]

ClientInit ==
  /\ EngineInit /\ CaptureInit
  /\ calls = <<>> /\ failed = FALSE
  /\ reply = NoReply /\ due = <<>> /\ unsure = FALSE

Silent  == original \/ Len(calls) = 2
At(p)   == calls # <<>> /\ calls[Len(calls)] = p
GoOn(p) == calls' = [calls EXCEPT ![Len(calls)] = p]

-----------------------------------------------------------------------------
Begin ==
  /\ calls = <<>> \/ (At("execute") /\ ~original /\ Len(calls) < 2)
  /\ Install
  /\ calls' = Append(calls, "execute")
  /\ failed' = FALSE
  /\ UNCHANGED <<engineVars, reply, due, unsure>>

ExecuteFails ==
  /\ At("execute") /\ GoOn("collect")
  /\ failed' = TRUE
  /\ UNCHANGED <<engineVars, captureVars, reply, due, unsure>>

Execute ==
  /\ At("execute") /\ GoOn(IF Silent THEN "collect" ELSE "poll")
  /\ CommandMoves
  /\ UNCHANGED <<captureVars, failed, reply, due, unsure>>

(* The poll ends when it sees the target stopped, or cannot ask.             *)
AlwaysSettled == TRUE
OnlyGone      == status = "gone"
Settled       == status # "go"

Poll ==
  /\ At("poll") /\ GoOn("collect")
  /\ Settled /\ unsure' = FALSE
  /\ UNCHANGED <<engineVars, captureVars, failed, reply, due>>

StatusFails ==
  /\ At("poll") /\ GoOn("collect")
  /\ unsure' = TRUE
  /\ UNCHANGED <<engineVars, captureVars, failed, reply, due>>

Collect ==
  /\ At("collect") /\ GoOn("uninstall")
  /\ reply' = IF failed /\ ~Silent THEN [kind |-> "error", text |-> <<>>]
              ELSE IF captures[Top] = <<>> /\ ~Silent THEN [kind |-> "no output", text |-> <<>>]
              ELSE [kind |-> "output", text |-> captures[Top]]
  /\ due' = said[Top]
  /\ GetAndClear
  /\ UNCHANGED <<engineVars, failed, unsure>>

Return ==
  /\ At("uninstall")
  /\ Uninstall
  /\ calls' = SubSeq(calls, 1, Len(calls) - 1)
  /\ failed' = FALSE
  /\ UNCHANGED <<engineVars, reply, due, unsure>>

ClientStep == ExecuteFails \/ Execute \/ Poll \/ Collect \/ Return

-----------------------------------------------------------------------------
(* Meanwhile                                                                 *)
EngineMoves ==
  /\ \/ (TargetStops \/ BreakIn \/ SetInterrupt) /\ UNCHANGED unsure
     \/ UserResumes /\ unsure' = TRUE
  /\ UNCHANGED <<captureVars, calls, failed, reply, due>>

EngineWrites ==
  /\ OutputStep
  /\ UNCHANGED <<engineVars, calls, failed, reply, due, unsure>>

ClientNext == Begin \/ ClientStep \/ StatusFails \/ EngineMoves \/ EngineWrites

(* The command thread runs, a command given to Execute returns, an Output    *)
(* returns, and the engine carries out a requested break.  No target stops   *)
(* by itself by right.                                                       *)
ClientSpec ==
  /\ ClientInit /\ [][ClientNext]_clientVars
  /\ WF_clientVars(ClientStep)
  /\ WF_clientVars(OutputReturns /\ UNCHANGED <<engineVars, calls, failed, reply, due, unsure>>)
  /\ WF_clientVars(BreakIn /\ UNCHANGED <<captureVars, calls, failed, reply, due, unsure>>)

-----------------------------------------------------------------------------
(* The types of the variables; every call in progress has a capture of its   *)
(* own installed (src/windbg_client.cpp:35-36, 59).                          *)
ClientTypeOK ==
  /\ EngineTypeOK
  /\ calls \in Seq({"execute", "poll", "collect", "uninstall"})
  /\ Len(captures) = Len(calls) /\ Len(said) = Len(calls)
  /\ depth \in 0 .. 1 /\ texts \in 0 .. MaxTexts
  /\ (depth = 0 => buffer = <<>>)
  /\ failed \in BOOLEAN /\ unsure \in BOOLEAN
  /\ reply.kind \in {"none", "output", "no output", "error"}

(* A reply is what was output between the beginning of the command and its   *)
(* end, all of it, once and in order, also by the commands it executed and   *)
(* while the target ran (src/windbg_client.cpp:33-36, 58-70,                 *)
(* src/output_capture.cpp:83-113).                                           *)
ReplyIsOutput ==
  /\ reply.kind = "output" => reply.text = due
  /\ reply.kind = "no output" => due = <<>>

(* The callbacks of the client are given every outermost text, none twice    *)
(* and all in the order they were output in, as if no capture were installed *)
(* (src/output_capture.cpp:99-124).  It leaves open what becomes of a text    *)
(* output from within an Output: the comments say that it is accumulated and *)
(* flushed by the outermost call (lines 85, 108, 115), but what comes during  *)
(* the flush of line 118 is cleared at line 120, and is not passed on.        *)
ForwardedOnce ==
  original =>
    /\ \A i, j \in DOMAIN given : i < j => given[i] < given[j]
    /\ \A i \in DOMAIN outermost : \E j \in DOMAIN given : given[j] = outermost[i]

(* Callers receive a stable state: unless the status could not be read or    *)
(* somebody else resumed the target, it has stopped when the reply is        *)
(* collected and returned (src/windbg_client.cpp:41-56).                     *)
StableReturn ==
  ~failed /\ ~Silent /\ (At("collect") \/ At("uninstall")) => status # "go" \/ unsure

(* A break that is requested while a command waits for the target ends the   *)
(* wait, once the user has stopped resuming the target between two polls     *)
(* (src/windbg_client.cpp:48-55, src/main.cpp:239-245).                      *)
BreakEnds == At("poll") /\ interrupt /\ resumes = MaxResumes ~> ~At("poll")
=============================================================================
