-------------------------------- MODULE Engine --------------------------------
(***************************************************************************)
(* The debug engine as the extension uses it (external): whether the target *)
(* runs, and a request to break in.  The engine pumps events on WinDbg's own *)
(* thread, so the target stops, ends or is resumed by the user whatever the *)
(* extension does; GetExecutionStatus returns status, SetInterrupt sets     *)
(* interrupt, and Execute has changed status by the time it returns.        *)
(***************************************************************************)
EXTENDS Naturals

CONSTANT MaxResumes    \* bound: how often the user resumes the target

ASSUME ResumeBound == MaxResumes \in Nat

VARIABLES
  status,              \* DEBUG_STATUS_BREAK, _GO or _NO_DEBUGGEE (or _OUT_OF_SYNC)
  interrupt,           \* a break was requested and not carried out yet
  resumes              \* how often the user resumed the target

engineVars == <<status, interrupt, resumes>>

EngineInit == status \in {"break", "go"} /\ interrupt = FALSE /\ resumes = 0

TargetStops ==
  /\ status = "go" /\ status' \in {"break", "gone"}
  /\ UNCHANGED <<interrupt, resumes>>

BreakIn ==
  /\ status = "go" /\ interrupt
  /\ status' = "break" /\ interrupt' = FALSE
  /\ UNCHANGED resumes

UserResumes ==
  /\ status = "break" /\ resumes < MaxResumes
  /\ status' = "go"
  /\ resumes' = resumes + 1
  /\ UNCHANGED interrupt

SetInterrupt ==
  /\ interrupt' = TRUE
  /\ UNCHANGED <<status, resumes>>

(* What a command that is executed does to the target: at most resume it      *)
CommandMoves ==
  /\ status' \in {status} \cup (IF status = "break" THEN {"go"} ELSE {})
  /\ UNCHANGED <<interrupt, resumes>>

EngineTypeOK ==
  status \in {"break", "go", "gone"} /\ interrupt \in BOOLEAN /\ resumes \in 0 .. MaxResumes
=============================================================================
