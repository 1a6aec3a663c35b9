--------------------------- MODULE TraceLoopProofs ---------------------------
(***************************************************************************)
(* The theorems about TraceLoop, for any addresses, any programs and any    *)
(* step limit.  What the JavaScript loop leaves out is what the decoder     *)
(* finds, so that DecoderRight is needed.                                   *)
(***************************************************************************)
EXTENDS TraceLoop, CallDecoderProofs

(* Which loop is at which place.                                             *)
Placed ==
  /\ place \in {"head", "interrupt", "read", "limit", "wait"} => mode = "user"
  /\ place \in {"js", "script"} => mode = place
  /\ place = "away" => mode \in {"js", "script"}
  /\ place # "done" => reason = "none"
  /\ place = "begin" => log = path

(* The target is resumed at most once per step; between the log entry and    *)
(* the wait, and before the script comes back, once less.                    *)
Counted ==
  /\ Len(path) <= steps
  /\ place \in {"interrupt", "read"} => steps < MaxSteps
  /\ place \in {"limit", "wait"} => Len(path) < steps
  /\ place = "away" /\ mode = "script" => Len(path) < steps

(* A log entry is ahead of the path from the step to the event, and for good *)
(* only if the time is over, so that the loop reads no address twice.        *)
Ahead == log = Append(path, ip)
Logged ==
  /\ place = "head" => log = path \/ (late /\ Ahead)
  /\ place \in {"interrupt", "read", "script"} => log = path
  /\ place \in {"limit", "wait"} => Ahead
  /\ place = "away" /\ mode = "script" => Ahead
  /\ mode # "js" => log = path \/ Ahead

(* Nothing is resumed at End: the address was tested after it was last set.  *)
EndTested ==
  /\ \A i \in 1 .. Len(path) : path[i] # End
  /\ place \in {"limit", "wait"} => ip # End
  /\ place = "away" /\ mode = "script" => ip # End

TraceInv == TypeOK /\ Placed /\ Counted /\ Logged /\ EndTested /\ ReasonTrue

-----------------------------------------------------------------------------
(* Appending an address that is not End to a path without End.               *)
LEMMA AppendPath ==
  ASSUME path \in Seq(Addresses), NEW a \in Addresses, a # End,
         \A i \in 1 .. Len(path) : path[i] # End
  PROVE  /\ Append(path, a) \in Seq(Addresses)
         /\ Len(Append(path, a)) = Len(path) + 1
         /\ \A i \in 1 .. Len(Append(path, a)) : Append(path, a)[i] # End
<1>1. /\ Append(path, a) \in Seq(Addresses)
      /\ Len(Append(path, a)) = Len(path) + 1
  OBVIOUS
<1>2. ASSUME NEW i \in 1 .. Len(Append(path, a))
      PROVE  Append(path, a)[i] # End
  <2>1. CASE i = Len(path) + 1
    BY <2>1
  <2>2. CASE i # Len(path) + 1
    <3>1. i \in 1 .. Len(path)
      BY <1>1, <2>2
    <3>2. Append(path, a)[i] = path[i]
      BY <3>1
    <3>. QED BY <3>1, <3>2
  <2>. QED BY <2>1, <2>2
<1>. QED BY <1>1, <1>2

(* What the type invariant says of the numbers and the sequences.            *)
LEMMA Typed ==
  ASSUME TypeOK
  PROVE  /\ steps \in Nat /\ steps <= MaxSteps
         /\ log \in Seq(Addresses) /\ path \in Seq(Addresses) /\ ip \in Addresses
         /\ Len(path) \in Nat
         /\ Append(log, ip) \in Seq(Addresses)
<1>1. /\ steps \in 0 .. MaxSteps
      /\ log \in Seq(Addresses) /\ path \in Seq(Addresses) /\ ip \in Addresses
  BY Zenon DEF TypeOK
<1>2. steps \in Nat /\ steps <= MaxSteps
  BY <1>1, SomeSteps
<1>3. Len(path) \in Nat /\ Append(log, ip) \in Seq(Addresses)
  BY <1>1
<1>. QED BY <1>1, <1>2, <1>3

(* One step more, below the limit.                                           *)
LEMMA OneMore ==
  ASSUME NEW n \in Nat, NEW m \in Nat, NEW l \in Nat, n < m, l <= n
  PROVE  n + 1 \in 0 .. m /\ l + 1 <= n + 1 /\ l < n + 1
OBVIOUS

(* One entry more, below the number of steps.                                *)
LEMMA OneLess ==
  ASSUME NEW n \in Nat, NEW l \in Nat, l < n
  PROVE  l + 1 <= n
OBVIOUS

(* The invariant holds before anything has happened.                         *)
LEMMA TraceInvInit == TraceInit => TraceInv
<1>. SUFFICES ASSUME TraceInit PROVE TraceInv
  OBVIOUS
<1>1. path \in Seq(Addresses) /\ log \in Seq(Addresses) /\ Len(path) = 0
  BY DEF TraceInit
<1>2. EndTested
  BY <1>1 DEF TraceInit, EndTested
<1>3. TypeOK
  <2>1. steps \in 0 .. MaxSteps
    BY SomeSteps DEF TraceInit
  <2>2. pending \in BOOLEAN /\ late \in BOOLEAN /\ pressed \in BOOLEAN
    BY DEF TraceInit
  <2>3. program \in Programs /\ mode \in Modes /\ ip \in Addresses
    BY DEF TraceInit
  <2>4. place = "begin" /\ reason = "none"
    BY DEF TraceInit
  <2>. QED BY <1>1, <2>1, <2>2, <2>3, <2>4 DEF TypeOK
<1>4. Placed /\ Counted /\ Logged /\ ReasonTrue
  BY <1>1, SomeSteps, KnownModes DEF TraceInit, Placed, Counted, Logged, Ahead, ReasonTrue, MaxStepsTrue
<1>. QED BY <1>2, <1>3, <1>4 DEF TraceInv

(* Every step keeps the invariant.                                           *)
LEMMA TraceInvStep == TraceInv /\ [TraceNext]_vars => TraceInv'
<1>. SUFFICES ASSUME TraceInv, [TraceNext]_vars PROVE TraceInv'
  OBVIOUS
<1>. USE EndAddress, SomeSteps, KnownModes
<1>. USE DEF TraceInv, Placed, Counted, Logged, Ahead, EndTested, ReasonTrue, MaxStepsTrue, Stop, Go, given
<1>1. CASE Refuse
  BY <1>1 DEF Refuse, TypeOK
<1>2. CASE Begin
  BY <1>2 DEF Begin, TypeOK
<1>3. CASE OutOfSteps
  BY <1>3 DEF OutOfSteps, TypeOK
<1>4. CASE TestClock
  BY <1>4 DEF TestClock, TypeOK
<1>5. CASE TestInterrupt
  BY <1>5 DEF TestInterrupt, TypeOK
<1>6. CASE CannotRead
  BY <1>6 DEF CannotRead, TypeOK
<1>7. CASE Reached
  BY <1>7 DEF Reached, TypeOK
<1>8. CASE Step
  <2>1. log' \in Seq(Addresses)
    BY <1>8 DEF Step, TypeOK
  <2>2. steps' \in 0 .. MaxSteps /\ Len(path') < steps'
    BY <1>8 DEF Step, TypeOK
  <2>3. TypeOK'
    BY <1>8, <2>1, <2>2 DEF Step, TypeOK
  <2>4. EndTested' /\ Logged' /\ Placed' /\ ReasonTrue'
    BY <1>8 DEF Step
  <2>5. Counted'
    BY <1>8, <2>2 DEF Step, TypeOK
  <2>. QED BY <2>3, <2>4, <2>5
<1>9. CASE TestRemaining
  BY <1>9 DEF TestRemaining, TypeOK
<1>10. CASE WaitEvent
  <2>1. path' \in Seq(Addresses) /\ Len(path') = Len(path) + 1
    BY <1>10, AppendPath DEF WaitEvent, TypeOK
  <2>2. \A i \in 1 .. Len(path') : path'[i] # End
    BY <1>10, AppendPath DEF WaitEvent, TypeOK
  <2>3. log' = path'
    BY <1>10 DEF WaitEvent
  <2>4. TypeOK'
    BY <1>10, <2>1 DEF WaitEvent, TypeOK
  <2>5. Placed' /\ Logged' /\ ReasonTrue'
    BY <1>10, <2>3 DEF WaitEvent
  <2>6. Counted'
    BY <1>10, <2>1 DEF WaitEvent, TypeOK
  <2>7. EndTested'
    BY <1>10, <2>2 DEF WaitEvent
  <2>. QED BY <2>4, <2>5, <2>6, <2>7
<1>11. CASE WaitTimesOut
  BY <1>11 DEF WaitTimesOut, TypeOK
<1>12. CASE WaitFails
  BY <1>12 DEF WaitFails, TypeOK
<1>13. ASSUME JsStep PROVE TraceInv'
  <2>0. steps \in Nat /\ Len(path) \in Nat /\ Len(path) <= steps
    BY Typed
  <2>1. /\ path' \in Seq(Addresses) /\ Len(path') = Len(path) + 1
        /\ steps' = steps + 1 /\ steps < MaxSteps
    BY <1>13, AppendPath DEF JsStep, AskStep, TypeOK
  <2>2. \A i \in 1 .. Len(path') : path'[i] # End
    BY <1>13, AppendPath DEF JsStep, TypeOK
  <2>3. log' \in Seq(Addresses)
    <3>1. log' \in {log, Append(log, ip)}
      BY <1>13 DEF JsStep
    <3>. QED BY <3>1, Typed
  <2>4. /\ mode = "js" /\ place' = "away"
        /\ UNCHANGED <<program, mode, ip, pending, late, pressed, reason>>
    BY <1>13 DEF JsStep, AskStep
  <2>5. TypeOK'
    <3>1. steps' \in 0 .. MaxSteps
      BY <2>1, <2>0, OneMore
    <3>. QED BY <2>1, <2>3, <2>4, <3>1 DEF TypeOK
  <2>6. Len(path') <= steps'
    BY <2>1, <2>0, OneMore
  <2>7. reason = "none"
    BY <1>13 DEF JsStep
  <2>. QED BY <2>2, <2>4, <2>5, <2>6, <2>7
<1>19. ASSUME ScriptStep PROVE TraceInv'
  <2>0. steps \in Nat /\ Len(path) \in Nat /\ Len(path) <= steps
    BY Typed
  <2>1. /\ UNCHANGED path /\ steps' = steps + 1 /\ steps < MaxSteps /\ ip # End
        /\ log' = Append(log, ip) /\ log' \in Seq(Addresses)
    BY <1>19, Typed DEF ScriptStep, AskStep
  <2>2. /\ mode = "script" /\ place' = "away" /\ reason = "none" /\ log = path
        /\ UNCHANGED <<program, mode, ip, pending, late, pressed, reason>>
    BY <1>19 DEF ScriptStep, AskStep
  <2>3. steps' \in 0 .. MaxSteps /\ Len(path') < steps'
    <3>1. steps + 1 \in 0 .. MaxSteps /\ Len(path) < steps + 1
      BY <2>0, <2>1, OneMore
    <3>. QED BY <2>1, <3>1, Zenon
  <2>4. TypeOK'
    BY <2>1, <2>2, <2>3 DEF TypeOK
  <2>5. Counted'
    BY <2>0, <2>1, <2>2, <2>3
  <2>. QED BY <2>1, <2>2, <2>4, <2>5
<1>20. CASE JsBack \/ Breaks
  <2>1. TypeOK'
    BY <1>20 DEF JsBack, Breaks, TypeOK
  <2>. QED BY <1>20, <2>1 DEF JsBack, Breaks
<1>21. CASE ScriptBack
  <2>0. steps \in Nat /\ Len(path) \in Nat /\ Len(path) < steps
    BY <1>21, Typed DEF ScriptBack
  <2>1. path' \in Seq(Addresses) /\ Len(path') = Len(path) + 1
    BY <1>21, AppendPath DEF ScriptBack, TypeOK
  <2>2. \A i \in 1 .. Len(path') : path'[i] # End
    BY <1>21, AppendPath DEF ScriptBack, TypeOK
  <2>3. log' = path' /\ steps' = steps /\ place' = "script" /\ mode' = mode /\ mode = "script"
    BY <1>21 DEF ScriptBack
  <2>4. TypeOK'
    BY <1>21, <2>1 DEF ScriptBack, TypeOK
  <2>5. Counted'
    <3>1. Len(path) + 1 <= steps
      BY <2>0, OneLess
    <3>2. Len(path') <= steps'
      BY <2>1, <2>3, <3>1, Zenon
    <3>. QED BY <2>3, <3>2
  <2>6. Placed' /\ Logged' /\ ReasonTrue'
    BY <1>21, <2>3 DEF ScriptBack
  <2>. QED BY <2>2, <2>3, <2>4, <2>5, <2>6
<1>14. CASE JsStops
  BY <1>14 DEF JsStops, TypeOK
<1>15. CASE ScriptStops
  <2>1. log' \in Seq(Addresses)
    <3>1. log' = Append(log, ip)
      BY <1>15 DEF ScriptStops
    <3>. QED BY <3>1, Typed
  <2>2. TypeOK'
    BY <1>15, <2>1 DEF ScriptStops, TypeOK
  <2>3. Placed' /\ Logged' /\ ReasonTrue' /\ Counted' /\ EndTested'
    BY <1>15 DEF ScriptStops
  <2>. QED BY <2>2, <2>3
<1>16. CASE TimePasses
  BY <1>16 DEF TimePasses, TypeOK
<1>17. CASE Press
  BY <1>17 DEF Press, TypeOK
<1>18. CASE UNCHANGED vars
  <2>1. TypeOK'
    BY <1>18 DEF vars, TypeOK
  <2>2. Placed' /\ Logged' /\ ReasonTrue' /\ Counted' /\ EndTested'
    BY <1>18 DEF vars
  <2>. QED BY <2>1, <2>2
<1>. QED
  BY <1>1, <1>2, <1>3, <1>4, <1>5, <1>6, <1>7, <1>8, <1>9, <1>10, <1>11, <1>12, <1>13,
     <1>14, <1>15, <1>16, <1>17, <1>18, <1>19, <1>20, <1>21 DEF TraceNext, Loop

(* The invariant holds of every behaviour.                                   *)
LEMMA TraceInvHolds == TraceSafety => []TraceInv
BY TraceInvInit, TraceInvStep, PTL DEF TraceSafety

-----------------------------------------------------------------------------
(* The log of the JavaScript loop is the part of the path that is shown.     *)
Sieved == mode = "js" => LogFaithful

(* What appending does to a sequence.                                        *)
LEMMA Appended ==
  ASSUME NEW S, NEW s \in Seq(S), NEW e \in S
  PROVE  /\ Len(Append(s, e)) = Len(s) + 1 /\ Append(s, e)[Len(s) + 1] = e
         /\ \A i \in 1 .. Len(s) : Append(s, e)[i] = s[i]
         /\ Len(s) \in Nat
OBVIOUS

(* The step of the JavaScript loop looks whether the address is shown: what  *)
(* the decoder makes of the code there is the call's target.                 *)
LEMMA JsLooks ==
  ASSUME TypeOK
  PROVE  Shown(ip) <=> ~Skips(ip)
<1>1. ip \in Word /\ program.at[ip] \in Instructions
  BY EndAddress, SomePrograms DEF TypeOK
<1>2. ResolveCallTarget(Code(program.at[ip]), ip) = Target(program.at[ip], ip)
  BY <1>1, DecoderRight
<1>. QED BY <1>2 DEF Shown, Skips

(* An address that is not shown makes the path longer and not the log.       *)
LEMMA SieveDrops ==
  ASSUME TypeOK, NEW at, TakenFrom(at), ~Shown(ip), program' = program,
         path' = Append(path, ip), log' = log
  PROVE  TakenFrom(at)'
<1>1. /\ Len(path') = Len(path) + 1 /\ path'[Len(path) + 1] = ip
      /\ \A i \in 1 .. Len(path) : path'[i] = path[i]
      /\ Len(path) \in Nat /\ Len(log) \in Nat
  BY Typed, Appended
<1>2. at \in [1 .. Len(log) -> 1 .. Len(path)]
  BY DEF TakenFrom
<1>3. \A j \in 1 .. Len(log) : at[j] \in 1 .. Len(path) /\ at[j] \in 1 .. Len(path) + 1
                                /\ at[j] # Len(path) + 1
  BY <1>1, <1>2
<1>4. at \in [1 .. Len(log') -> 1 .. Len(path')]
  BY <1>1, <1>2, <1>3
<1>5. \A j, k \in 1 .. Len(log') : j < k => at[j] < at[k]
  BY DEF TakenFrom
<1>6. \A j \in 1 .. Len(log') : log'[j] = path'[at[j]]
  BY <1>1, <1>3 DEF TakenFrom
<1>7. ASSUME NEW i \in 1 .. Len(path')
      PROVE  Shown(path[i])' <=> \E j \in 1 .. Len(log') : at[j] = i
  <2>1. Shown(path[i])' <=> Shown(path'[i])
    BY DEF Shown
  <2>2. CASE i = Len(path) + 1
    BY <1>1, <1>3, <2>1, <2>2
  <2>3. CASE i # Len(path) + 1
    <3>1. i \in 1 .. Len(path)
      BY <1>1, <2>3
    <3>2. path'[i] = path[i]
      BY <1>1, <3>1
    <3>. QED BY <2>1, <3>1, <3>2 DEF TakenFrom
  <2>. QED BY <2>2, <2>3
<1>. QED BY <1>4, <1>5, <1>6, <1>7 DEF TakenFrom

(* An address that is shown makes both longer.                               *)
LEMMA SieveKeeps ==
  ASSUME TypeOK, NEW at, TakenFrom(at), Shown(ip), program' = program,
         path' = Append(path, ip), log' = Append(log, ip)
  PROVE  \E b : TakenFrom(b)'
<1>. DEFINE m == Len(log)
            n == Len(path)
<1>0. PICK b : b = [j \in 1 .. m + 1 |-> IF j = m + 1 THEN n + 1 ELSE at[j]]
  OBVIOUS
<1>1. /\ Len(path') = n + 1 /\ path'[n + 1] = ip /\ \A i \in 1 .. n : path'[i] = path[i]
      /\ Len(log') = m + 1 /\ log'[m + 1] = ip /\ \A j \in 1 .. m : log'[j] = log[j]
      /\ n \in Nat /\ m \in Nat
  BY Typed, Appended
<1>2. /\ \A j \in 1 .. m : at[j] \in 1 .. n /\ log[j] = path[at[j]]
      /\ \A j, k \in 1 .. m : j < k => at[j] < at[k]
      /\ \A i \in 1 .. n : Shown(path[i]) <=> \E j \in 1 .. m : at[j] = i
  BY DEF TakenFrom
<1>3. /\ DOMAIN b = 1 .. m + 1
      /\ b[m + 1] = n + 1
      /\ \A j \in 1 .. m : b[j] = at[j] /\ j \in 1 .. m + 1
      /\ \A j \in 1 .. m + 1 : j = m + 1 \/ j \in 1 .. m
  BY <1>0, <1>1
<1>4. b \in [1 .. m + 1 -> 1 .. n + 1]
  BY <1>0, <1>1, <1>2
<1>5. ASSUME NEW j \in 1 .. m + 1, NEW k \in 1 .. m + 1, j < k
      PROVE  b[j] < b[k]
  <2>1. j \in 1 .. m
    BY <1>1, <1>5
  <2>2. b[j] = at[j] /\ at[j] \in 1 .. n
    BY <1>2, <1>3, <2>1
  <2>3. CASE k = m + 1
    BY <1>1, <1>3, <2>2, <2>3
  <2>4. CASE k \in 1 .. m
    BY <1>2, <1>3, <1>5, <2>1, <2>4
  <2>. QED BY <1>3, <2>3, <2>4
<1>6. ASSUME NEW j \in 1 .. m + 1
      PROVE  log'[j] = path'[b[j]]
  <2>1. CASE j = m + 1
    BY <1>1, <1>3, <2>1
  <2>2. CASE j \in 1 .. m
    BY <1>1, <1>2, <1>3, <2>2
  <2>. QED BY <1>3, <2>1, <2>2
<1>7. ASSUME NEW i \in 1 .. n + 1
      PROVE  Shown(path[i])' <=> \E j \in 1 .. m + 1 : b[j] = i
  <2>1. Shown(path[i])' <=> Shown(path'[i])
    BY DEF Shown
  <2>2. CASE i = n + 1
    <3>1. m + 1 \in 1 .. m + 1
      BY <1>1
    <3>. QED BY <1>1, <1>3, <2>1, <2>2, <3>1
  <2>3. CASE i # n + 1
    <3>1. i \in 1 .. n
      BY <1>1, <2>3
    <3>2. (\E j \in 1 .. m + 1 : b[j] = i) <=> \E j \in 1 .. m : at[j] = i
      BY <1>3, <2>3
    <3>3. path'[i] = path[i]
      BY <1>1, <3>1
    <3>. QED BY <1>2, <2>1, <3>1, <3>2, <3>3
  <2>. QED BY <2>2, <2>3
<1>8. /\ b \in [1 .. Len(log') -> 1 .. Len(path')]
      /\ \A j, k \in 1 .. Len(log') : j < k => b[j] < b[k]
      /\ \A j \in 1 .. Len(log') : log'[j] = path'[b[j]]
      /\ \A i \in 1 .. Len(path') : Shown(path[i])' <=> \E j \in 1 .. Len(log') : b[j] = i
  BY <1>1, <1>4, <1>5, <1>6, <1>7
<1>9. TakenFrom(b)'
  BY <1>8 DEF TakenFrom
<1>. QED BY <1>9

(* Whatever the JavaScript loop steps over, its log stays the part that is   *)
(* shown.                                                                    *)
LEMMA SieveStep ==
  ASSUME TypeOK, Sieved, JsStep
  PROVE  Sieved'
<1>. SUFFICES ASSUME mode = "js" PROVE LogFaithful'
  BY DEF Sieved, JsStep, AskStep, given
<1>1. /\ mode' = "js" /\ program' = program /\ path' = Append(path, ip)
      /\ log' = IF Shown(ip) THEN Append(log, ip) ELSE log
  BY JsLooks DEF JsStep, AskStep, given
<1>2. PICK at : TakenFrom(at)
  BY DEF Sieved, LogFaithful
<1>3. \E b : TakenFrom(b)'
  BY <1>1, <1>2, SieveDrops, SieveKeeps
<1>. QED BY <1>1, <1>3 DEF LogFaithful, TakenFrom

(* No other step of that loop touches the log or the path.                   *)
LEMMA SievedHolds == TraceSafety => []Sieved
<1>1. TraceInit => Sieved
  <2>. SUFFICES ASSUME TraceInit, mode = "js" PROVE LogFaithful
    BY DEF Sieved
  <2>1. log = <<>> /\ path = <<>> /\ 1 .. Len(log) = {} /\ 1 .. Len(path) = {}
    BY DEF TraceInit
  <2>2. TakenFrom(<<>>)
    BY <2>1 DEF TakenFrom
  <2>. QED BY <2>2 DEF LogFaithful, TakenFrom
<1>2. TraceInv /\ Sieved /\ [TraceNext]_vars => Sieved'
  <2>. SUFFICES ASSUME TraceInv, Sieved, [TraceNext]_vars PROVE Sieved'
    OBVIOUS
  <2>1. CASE JsStep
    BY <2>1, SieveStep DEF TraceInv
  <2>2. CASE ~JsStep
    <3>0. place \in {"read", "wait", "script"} => mode # "js"
      BY DEF TraceInv, Placed
    <3>1. mode' = mode /\ (mode = "js" => UNCHANGED <<program, log, path>>)
      <4>1. CASE Step \/ WaitEvent \/ ScriptStep \/ ScriptStops \/ ScriptBack
        BY <3>0, <4>1 DEF Step, WaitEvent, ScriptStep, ScriptStops, ScriptBack, AskStep, Go, given
      <4>2. CASE Refuse \/ Begin \/ OutOfSteps \/ TestClock \/ TestInterrupt \/ CannotRead
        BY <4>2 DEF Refuse, Begin, OutOfSteps, TestClock, TestInterrupt, CannotRead, given
      <4>3. CASE Reached \/ TestRemaining \/ WaitTimesOut \/ WaitFails \/ JsStops \/ TimePasses \/ Press
        BY <4>3 DEF Reached, TestRemaining, WaitTimesOut, WaitFails, JsStops, TimePasses, Press, given
      <4>4. CASE UNCHANGED vars
        BY <4>4 DEF vars, given
      <4>5. CASE JsBack \/ Breaks
        BY <4>5 DEF JsBack, Breaks, given
      <4>. QED BY <2>2, <4>1, <4>2, <4>3, <4>4, <4>5 DEF TraceNext, Loop
    <3>2. ASSUME UNCHANGED <<program, log, path>>, NEW at PROVE TakenFrom(at)' <=> TakenFrom(at)
      <4>1. \A a : Shown(a)' <=> Shown(a)
        BY <3>2 DEF Shown
      <4>2. ASSUME NEW i \in 1 .. Len(path) PROVE Shown(path[i])' <=> Shown(path[i])
        BY <3>2, <4>1 DEF Shown
      <4>. QED BY <3>2, <4>2 DEF TakenFrom
    <3>. QED BY <3>1, <3>2 DEF Sieved, LogFaithful
  <2>. QED BY <2>1, <2>2
<1>. QED BY <1>1, <1>2, TraceInvHolds, PTL DEF TraceSafety

-----------------------------------------------------------------------------
(* No loop counts beyond its limit, whatever that is.                        *)
THEOREM TraceTypeCorrect == TraceSafety => []TypeOK
<1>1. TraceInv => TypeOK
  BY DEF TraceInv
<1>. QED BY <1>1, TraceInvHolds, PTL

(* The target is not told to step at the end address, nor too often.         *)
THEOREM NeverPastEndHolds == TraceSafety => []NeverPastEnd
<1>1. TraceInv => NeverPastEnd
  <2>. SUFFICES ASSUME TraceInv PROVE NeverPastEnd
    OBVIOUS
  <2>1. Len(path) \in Nat /\ steps \in Nat /\ steps <= MaxSteps
    BY Typed DEF TraceInv
  <2>2. Len(path) <= MaxSteps
    BY <2>1, SomeSteps DEF TraceInv, Counted
  <2>. QED BY <2>2 DEF TraceInv, EndTested, NeverPastEnd
<1>. QED BY <1>1, TraceInvHolds, PTL

(* "Reached" and "timeout" are reported only when it is so, and the step      *)
(* limit of the kernel-mode loops too; in user mode it is reported when it   *)
(* was reached or when the time is over.                                     *)
THEOREM ReasonTrueHolds == TraceSafety => []ReasonTrue
<1>1. TraceInv => ReasonTrue
  BY DEF TraceInv
<1>. QED BY <1>1, TraceInvHolds, PTL

(* The log of the user-mode loop and of the script shows where the target    *)
(* was each time it was resumed, whatever the engine rejected; that of the   *)
(* JavaScript loop shows where the target was each time it was told to step, *)
(* without what is skipped and without the calls of it, in whichever of the  *)
(* forms they are encoded.                                                   *)
THEOREM LogFaithfulHolds == TraceSafety => []LogFaithful
<1>1. TraceInv /\ Sieved => LogFaithful
  BY DEF TraceInv, Logged, Ahead, Sieved, LogFaithful
<1>. QED BY <1>1, TraceInvHolds, SievedHolds, PTL

-----------------------------------------------------------------------------
(* The bounds under TraceEnds.  How many steps of the loops are left at most: *)
(* five for each that the limit allows, and those of the round that is on.   *)
Rank(p) == CASE p = "limit"     -> 6
             [] p \in {"wait", "begin"} -> 5
             [] p = "head"      -> 4
             [] p = "interrupt" -> 3
             [] p \in {"read", "away"} -> 2
             [] p \in {"js", "script"} -> 1
             [] p = "done"      -> 0
Left == 6 * (MaxSteps - steps) + Rank(place)

LEMMA Ranks ==
  /\ Rank("limit") = 6 /\ Rank("wait") = 5 /\ Rank("begin") = 5 /\ Rank("head") = 4
  /\ Rank("interrupt") = 3 /\ Rank("read") = 2 /\ Rank("away") = 2
  /\ Rank("js") = 1 /\ Rank("script") = 1
  /\ Rank("done") = 0
BY DEF Rank

(* A smaller rank, or a step more that is counted.                           *)
LEMMA Fewer ==
  ASSUME NEW m \in Nat, NEW n \in 0 .. m, NEW r \in 0 .. 6, NEW k \in 0 .. 6
  PROVE  /\ 6 * (m - n) + r \in Nat
         /\ k < r => 6 * (m - n) + k < 6 * (m - n) + r
         /\ k < r + 6 => 6 * (m - (n + 1)) + k < 6 * (m - n) + r
OBVIOUS

(* The trace comes nearer to its end with every step that TraceSpec wants    *)
(* fairness of, and no event, clock, interrupt or failure takes it back, nor *)
(* the return from a kernel-mode step: at most 6 * MaxSteps + 5 steps of the *)
(* loops are made (src/dbg_trace.cpp:588-631, 819-861, 960-964).             *)
Nearer == [][/\ Left \in Nat /\ Left' <= Left
             /\ Loop => Left' < Left]_vars

(* No trace goes on forever if its loop runs: Nearer holds.                  *)
THEOREM TraceComesNearer == TraceSafety => Nearer
<1>1. /\ TraceInv => steps \in 0 .. MaxSteps /\ Rank(place) \in 0 .. 6
      /\ TraceInv' => steps' \in 0 .. MaxSteps /\ Rank(place') \in 0 .. 6
  <2>. DEFINE P == {"begin", "head", "interrupt", "read", "limit", "wait", "js", "script",
                 "away", "done"}
  <2>1. \A p \in P : Rank(p) \in 0 .. 6
    BY Ranks
  <2>2. /\ TraceInv => steps \in 0 .. MaxSteps /\ place \in P
        /\ TraceInv' => steps' \in 0 .. MaxSteps /\ place' \in P
    BY Zenon DEF TraceInv, TypeOK
  <2>. QED BY <2>1, <2>2
<1>2. TraceInv /\ TraceInv' /\ TraceNext => Left \in Nat /\ Left' <= Left /\ (Loop => Left' < Left)
  <2>. SUFFICES ASSUME TraceInv, TraceInv', TraceNext
                PROVE  Left \in Nat /\ Left' <= Left /\ (Loop => Left' < Left)
    OBVIOUS
  <2>1. /\ steps \in 0 .. MaxSteps /\ Rank(place) \in 0 .. 6
        /\ steps' \in 0 .. MaxSteps /\ Rank(place') \in 0 .. 6
    BY <1>1
  <2>2. ASSUME Loop \/ Refuse \/ CannotRead \/ WaitEvent \/ WaitFails \/ JsBack \/ ScriptBack \/ Breaks
        PROVE  \/ steps' = steps /\ Rank(place') < Rank(place)
               \/ steps' = steps + 1 /\ Rank(place') < Rank(place) + 6
    <3>1. CASE Begin
      <4>1. mode \in {"user", "js", "script"}
        BY KnownModes DEF TraceInv, TypeOK
      <4>. QED BY <3>1, <4>1, Ranks DEF Begin, Go, given
    <3>2. CASE Refuse \/ CannotRead \/ Reached \/ OutOfSteps \/ WaitFails \/ JsStops \/ ScriptStops
      <4>1. /\ place' = "done" /\ steps' = steps
            /\ place \in {"begin", "read", "head", "wait", "js", "script"}
        BY <3>2, Zenon DEF Refuse, CannotRead, Reached, OutOfSteps, WaitFails, JsStops, ScriptStops, Stop
      <4>. QED BY <4>1, Ranks
    <3>3. CASE TestClock \/ TestInterrupt \/ TestRemaining \/ WaitEvent \/ WaitTimesOut
      <4>1. /\ steps' = steps
            /\ \/ place = "head" /\ place' \in {"interrupt", "done"}
               \/ place = "interrupt" /\ place' \in {"read", "done"}
               \/ place = "limit" /\ place' \in {"wait", "done"}
               \/ place = "wait" /\ place' = "head"
        BY <3>3, Zenon DEF TestClock, TestInterrupt, TestRemaining, WaitEvent, WaitTimesOut, Stop, Go
      <4>. QED BY <4>1, Ranks
    <3>4. CASE Step
      BY <3>4, Ranks DEF Step, Go
    <3>5. CASE JsStep \/ ScriptStep
      <4>1. place \in {"js", "script"} /\ place' = "away" /\ steps' = steps + 1
        BY <3>5 DEF JsStep, ScriptStep, AskStep
      <4>. QED BY <4>1, Ranks
    <3>6. CASE JsBack \/ ScriptBack \/ Breaks
      <4>1. /\ steps' = steps
            /\ \/ place = "away" /\ place' \in {"js", "script", "done"}
               \/ place = "js" /\ place' = "done"
        BY <3>6, Zenon DEF JsBack, ScriptBack, Breaks, Stop, Go
      <4>. QED BY <4>1, Ranks
    <3>. QED BY <2>2, <3>1, <3>2, <3>3, <3>4, <3>5, <3>6 DEF Loop
  <2>3. TimePasses \/ Press => steps' = steps /\ place' = place
    BY DEF TimePasses, Press
  <2>4. Left \in Nat /\ Left' \in Nat
    BY <2>1, Fewer, SomeSteps DEF Left
  <2>5. Loop \/ Refuse \/ CannotRead \/ WaitEvent \/ WaitFails \/ JsBack \/ ScriptBack \/ Breaks =>
          Left' < Left
    BY <2>1, <2>2, Fewer, SomeSteps DEF Left
  <2>6. TimePasses \/ Press => Left' = Left
    BY <2>3 DEF Left
  <2>. QED BY <2>4, <2>5, <2>6 DEF TraceNext
<1>. QED BY <1>2, TraceInvHolds, PTL DEF TraceSafety, Nearer
=============================================================================
