-------------------------- MODULE CommandQueueProofs --------------------------
(***************************************************************************)
(* Proofs about CommandQueue, for any number of handlers, requests and      *)
(* stopping threads.                                                        *)
(***************************************************************************)
EXTENDS CommandQueue, TLAPS

-----------------------------------------------------------------------------
(* Sequences of pointers.                                                    *)

(* The empty queue holds nothing.                                            *)
LEMMA EmptyRange == Range(<<>>) = {} /\ IsInjective(<<>>)
BY DEF Range, IsInjective

(* Pushing a pointer that is not in the queue keeps the queue free of        *)
(* duplicates.                                                               *)
LEMMA AppendRange ==
  ASSUME NEW S, NEW s \in Seq(S), NEW e \in S
  PROVE  /\ Append(s, e) \in Seq(S)
         /\ Range(Append(s, e)) = Range(s) \cup {e}
         /\ IsInjective(s) /\ e \notin Range(s) => IsInjective(Append(s, e))
<1>1. Append(s, e) \in Seq(S)
  OBVIOUS
<1>a. /\ Len(s) \in Nat
      /\ DOMAIN s = 1 .. Len(s)
      /\ DOMAIN Append(s, e) = 1 .. (Len(s) + 1)
      /\ Append(s, e)[Len(s) + 1] = e
  OBVIOUS
<1>b. \A i \in 1 .. Len(s) : Append(s, e)[i] = s[i]
  OBVIOUS
<1>2. Range(Append(s, e)) = Range(s) \cup {e}
  <2>1. ASSUME NEW x \in Range(Append(s, e))
        PROVE  x \in Range(s) \cup {e}
    <3>1. PICK i \in 1 .. (Len(s) + 1) : x = Append(s, e)[i]
      BY <1>a, <2>1 DEF Range
    <3>2. i \in 1 .. Len(s) \/ i = Len(s) + 1
      BY <1>a, <3>1
    <3>. QED BY <1>a, <1>b, <3>1, <3>2 DEF Range
  <2>2. Range(s) \subseteq Range(Append(s, e))
    <3>1. ASSUME NEW x \in Range(s)
          PROVE  x \in Range(Append(s, e))
      <4>1. PICK i \in 1 .. Len(s) : x = s[i]
        BY <1>a, <3>1 DEF Range
      <4>2. i \in DOMAIN Append(s, e) /\ x = Append(s, e)[i]
        BY <1>a, <1>b, <4>1
      <4>. QED BY <4>2 DEF Range
    <3>. QED BY <3>1
  <2>3. e \in Range(Append(s, e))
    <3>1. Len(s) + 1 \in DOMAIN Append(s, e)
      BY <1>a
    <3>. QED BY <1>a, <3>1 DEF Range
  <2>. QED BY <2>1, <2>2, <2>3
<1>3. ASSUME IsInjective(s), e \notin Range(s)
      PROVE  IsInjective(Append(s, e))
  <2>1. \A i \in 1 .. Len(s) : s[i] # e
    BY <1>a, <1>3 DEF Range
  <2>2. \A i, j \in 1 .. Len(s) : s[i] = s[j] => i = j
    BY <1>a, <1>3 DEF IsInjective
  <2>3. ASSUME NEW i \in 1 .. (Len(s) + 1), NEW j \in 1 .. (Len(s) + 1),
               Append(s, e)[i] = Append(s, e)[j]
        PROVE  i = j
    <3>1. /\ i \in 1 .. Len(s) \/ i = Len(s) + 1
          /\ j \in 1 .. Len(s) \/ j = Len(s) + 1
      BY <1>a
    <3>. QED BY <1>a, <1>b, <2>1, <2>2, <2>3, <3>1
  <2>. QED BY <1>a, <2>3 DEF IsInjective
<1>. QED BY <1>1, <1>2, <1>3

(* Popping the head of a queue without duplicates removes that pointer.      *)
LEMMA TailRange ==
  ASSUME NEW S, NEW s \in Seq(S), s # <<>>
  PROVE  /\ Head(s) \in S
         /\ Tail(s) \in Seq(S)
         /\ Head(s) \in Range(s)
         /\ Range(Tail(s)) \subseteq Range(s)
         /\ IsInjective(s) => IsInjective(Tail(s)) /\ Head(s) \notin Range(Tail(s))
<1>1. /\ Head(s) \in S
      /\ Tail(s) \in Seq(S)
      /\ Head(s) = s[1]
      /\ 1 \in DOMAIN s
  OBVIOUS
<1>2. \A i \in DOMAIN Tail(s) : i + 1 \in DOMAIN s /\ Tail(s)[i] = s[i + 1] /\ i \in Nat \ {0}
  OBVIOUS
<1>3. Head(s) \in Range(s) /\ Range(Tail(s)) \subseteq Range(s)
  BY <1>1, <1>2 DEF Range
<1>4. ASSUME IsInjective(s)
      PROVE  IsInjective(Tail(s)) /\ Head(s) \notin Range(Tail(s))
  <2>1. \A i, j \in DOMAIN Tail(s) : Tail(s)[i] = Tail(s)[j] => i = j
    BY <1>2, <1>4 DEF IsInjective
  <2>2. \A i \in DOMAIN Tail(s) : Tail(s)[i] # s[1]
    BY <1>1, <1>2, <1>4 DEF IsInjective
  <2>. QED BY <1>1, <2>1, <2>2 DEF IsInjective, Range
<1>. QED BY <1>1, <1>3, <1>4

-----------------------------------------------------------------------------
(* Type correctness.  TypeOK is inductive as it stands: CmdHeld is the       *)
(* conjunct that gives slot[cmd] its type.                                   *)

(* The initial values have their types.                                      *)
LEMMA TypeInit == Init => TypeOK
<1>. SUFFICES ASSUME Init PROVE TypeOK
  OBVIOUS
<1>1. \A S : <<>> \in Seq(S)
  OBVIOUS
<1>. QED BY <1>1 DEF Init, TypeOK, CmdHeld, Commands, Pointers, Replies, NoAnswer, Reply

(* Every step keeps the types.                                               *)
LEMMA TypeStep == TypeOK /\ [Next]_vars => TypeOK'
<1>. SUFFICES ASSUME TypeOK, [Next]_vars PROVE TypeOK'
  OBVIOUS
<1>. USE DEF TypeOK, CmdHeld
<1>1. CASE Open
  BY <1>1 DEF Open, handlerVars, stopVars
<1>2. ASSUME NEW r \in Requests, Refuse(r) PROVE TypeOK'
  BY <1>2 DEF Refuse, commandVars, stopVars, Replies, Reply
<1>3. ASSUME NEW h \in Handlers, NEW r \in Requests, Enter(h, r) PROVE TypeOK'
  BY <1>3 DEF Enter, commandVars, stopVars, Commands
<1>4. ASSUME NEW h \in Handlers, Push(h) PROVE TypeOK'
  BY <1>4, AppendRange DEF Push, commandVars, stopVars
<1>5. ASSUME NEW h \in Handlers, Check(h) PROVE TypeOK'
  BY <1>5 DEF Check, commandVars, stopVars
<1>6. ASSUME NEW h \in Handlers, SpuriousWakeup(h) PROVE TypeOK'
  BY <1>6 DEF SpuriousWakeup, commandVars, stopVars
<1>7. ASSUME NEW h \in Handlers, Leave(h) PROVE TypeOK'
  BY <1>7 DEF Leave, commandVars, stopVars, Commands, Replies, Reply
<1>8. CASE LoopTest
  BY <1>8 DEF LoopTest, handlerVars, stopVars
<1>9. CASE PopNothing
  BY <1>9 DEF PopNothing, handlerVars, stopVars
<1>10. CASE Pop
  BY <1>10, TailRange DEF Pop, handlerVars, stopVars, Pointers
<1>11. CASE Begin
  BY <1>11 DEF Begin, handlerVars, stopVars, Commands
<1>12. CASE Finish
  BY <1>12 DEF Finish, stopVars, Commands
<1>13. CASE Complete
  BY <1>13 DEF Complete, stopVars, Commands
<1>14. CASE Notify
  BY <1>14 DEF Notify, Notified, stopVars, Pointers
<1>15. ASSUME NEW t \in Stoppers, BeginStop(t) PROVE TypeOK'
  BY <1>15 DEF BeginStop, handlerVars, commandVars
<1>16. ASSUME NEW t \in Stoppers, Swap(t) PROVE TypeOK'
  BY <1>16 DEF Swap, handlerVars, commandVars
<1>17. ASSUME NEW t \in Stoppers, SweepOne(t) PROVE TypeOK'
  <2>1. /\ Head(swept[t]) \in Handlers
        /\ Tail(swept[t]) \in Seq(Handlers)
    BY <1>17, TailRange DEF SweepOne
  <2>2. slot' \in [Handlers -> Commands]
    <3>. DEFINE h == Head(swept[t])
                c == [slot EXCEPT ![h].result = "stopped", ![h].completed = TRUE]
    <3>1. slot[h] \in Commands /\ h \in Handlers
      BY <2>1
    <3>2. [slot[h] EXCEPT !.result = "stopped", !.completed = TRUE] \in Commands
      BY <3>1 DEF Commands
    <3>3. c = [slot EXCEPT ![h] = [slot[h] EXCEPT !.result = "stopped", !.completed = TRUE]]
      BY <3>1
    <3>4. c \in [Handlers -> Commands]
      BY <3>1, <3>2, <3>3
    <3>. QED BY <1>17, <3>4 DEF SweepOne
  <2>3. swept' \in [Stoppers -> Seq(Handlers)]
    BY <1>17, <2>1 DEF SweepOne
  <2>. QED BY <1>17, <2>1, <2>2, <2>3 DEF SweepOne, commandVars, Pointers
<1>18. ASSUME NEW t \in Stoppers, NotifySwept(t) PROVE TypeOK'
  BY <1>18 DEF NotifySwept, Notified, commandVars, Pointers
<1>19. ASSUME NEW t \in Stoppers, EndSweep(t) PROVE TypeOK'
  BY <1>19 DEF EndSweep, handlerVars, commandVars
<1>20. CASE UNCHANGED vars
  BY <1>20 DEF vars, handlerVars, commandVars, stopVars
<1>. QED
  BY <1>1, <1>2, <1>3, <1>4, <1>5, <1>6, <1>7, <1>8, <1>9, <1>10, <1>11, <1>12, <1>13,
     <1>14, <1>15, <1>16, <1>17, <1>18, <1>19, <1>20
     DEF Next, HandlerStep, CommandStep, StopStep

(* The types of CommandQueue hold in every state of every execution, for all *)
(* sets of handlers, requests and stopping threads.                          *)
THEOREM TypeCorrect == Safety => []TypeOK
<1>. QED BY TypeInit, TypeStep, PTL DEF Safety

-----------------------------------------------------------------------------
(* Ownership.  ExclusiveOwnership is not inductive alone: that Push adds a   *)
(* pointer nobody has needs what follows about the frames.                   *)

Owned(h) == h \in Queued \/ h \in InHand \/ \E t \in Stoppers : h \in SweptBy(t)

(* A command that is not queued yet is unowned and not completed; a pointer  *)
(* outlives its call only after running_ was cleared; whoever completes a    *)
(* command gives it up.                                                      *)
Unqueued(h)       == hpc[h] = "push" => ~Owned(h) /\ ~slot[h].completed
StaleAfterStop(h) == Owned(h) /\ hpc[h] \in {"idle", "leave"} => ~running
CompletedFree(h)  == Live(h) /\ slot[h].completed => ~Owned(h)

FrameInv == \A h \in Handlers : Unqueued(h) /\ StaleAfterStop(h) /\ CompletedFree(h)
OwnInv   == TypeOK /\ ExclusiveOwnership /\ FrameInv

(* At first nothing is owned.                                                *)
LEMMA OwnInit == Init => OwnInv
<1>. SUFFICES ASSUME Init PROVE OwnInv
  OBVIOUS
<1>1. TypeOK
  BY TypeInit
<1>2. Queued = {} /\ InHand = {} /\ \A t \in Stoppers : SweptBy(t) = {}
  BY EmptyRange DEF Init, Queued, InHand, SweptBy
<1>3. IsInjective(queue) /\ \A t \in Stoppers : IsInjective(swept[t])
  BY EmptyRange DEF Init
<1>4. ExclusiveOwnership
  BY <1>2, <1>3 DEF ExclusiveOwnership
<1>5. \A h \in Handlers : ~Owned(h)
  BY <1>2 DEF Owned
<1>6. FrameInv
  BY <1>5 DEF Init, FrameInv, Unqueued, StaleAfterStop, CompletedFree
<1>. QED BY <1>1, <1>4, <1>6 DEF OwnInv

(* A step that moves no pointer keeps ExclusiveOwnership and Owned.          *)
LEMMA SameOwners ==
  ASSUME UNCHANGED <<queue, swept>>, InHand' = InHand
  PROVE  /\ ExclusiveOwnership => ExclusiveOwnership'
         /\ \A h \in Handlers : Owned(h)' = Owned(h)
<1>1. Queued' = Queued /\ \A t \in Stoppers : SweptBy(t)' = SweptBy(t)
  BY DEF Queued, SweptBy
<1>. QED BY <1>1 DEF ExclusiveOwnership, Owned

(* Every step keeps the ownership invariant.                                 *)
LEMMA OwnStep == OwnInv /\ [Next]_vars => OwnInv'
<1>. SUFFICES ASSUME OwnInv, [Next]_vars PROVE OwnInv'
  OBVIOUS
<1>t. TypeOK'
  BY TypeStep DEF OwnInv
<1>o. TypeOK /\ CmdHeld /\ ExclusiveOwnership /\ FrameInv
  BY DEF OwnInv, TypeOK
<1>. SUFFICES ExclusiveOwnership' /\ FrameInv'
  BY <1>t DEF OwnInv
<1>1. CASE Open
  <2>1. /\ UNCHANGED <<queue, swept, slot, hpc>>
        /\ InHand' = InHand
    BY <1>1 DEF Open, Quiet, InHand, handlerVars, stopVars
  <2>2. \A h \in Handlers : ~Owned(h)
    BY <1>1, EmptyRange DEF Open, Quiet, Owned, Queued, InHand, SweptBy
  <2>. QED BY <1>o, <2>1, <2>2, SameOwners
           DEF FrameInv, Unqueued, StaleAfterStop, CompletedFree
<1>2. ASSUME NEW r \in Requests, Refuse(r) PROVE ExclusiveOwnership' /\ FrameInv'
  <2>1. UNCHANGED <<queue, swept, slot, hpc, running>> /\ InHand' = InHand
    BY <1>2 DEF Refuse, commandVars, stopVars, InHand
  <2>. QED BY <1>o, <2>1, SameOwners
           DEF FrameInv, Unqueued, StaleAfterStop, CompletedFree, Live
<1>3. ASSUME NEW h \in Handlers, NEW r \in Requests, Enter(h, r)
      PROVE  ExclusiveOwnership' /\ FrameInv'
  <2>1. UNCHANGED <<queue, swept, running>> /\ InHand' = InHand
    BY <1>3 DEF Enter, commandVars, stopVars, InHand
  <2>2. ~Owned(h)
    BY <1>o, <1>3 DEF Enter, FrameInv, StaleAfterStop
  <2>3. \A g \in Handlers \ {h} : slot'[g] = slot[g] /\ hpc'[g] = hpc[g]
    BY <1>o, <1>3 DEF Enter, TypeOK
  <2>4. hpc'[h] = "push" /\ ~slot'[h].completed
    BY <1>o, <1>3 DEF Enter, TypeOK
  <2>. QED BY <1>o, <2>1, <2>2, <2>3, <2>4, SameOwners
           DEF FrameInv, Unqueued, StaleAfterStop, CompletedFree, Live
<1>4. ASSUME NEW h \in Handlers, Push(h) PROVE ExclusiveOwnership' /\ FrameInv'
  <2>1. UNCHANGED <<swept, slot, running>> /\ InHand' = InHand
    BY <1>4 DEF Push, commandVars, stopVars, InHand
  <2>2. ~Owned(h) /\ ~slot[h].completed
    BY <1>o, <1>4 DEF Push, FrameInv, Unqueued
  <2>3. Queued' = Queued \cup {h} /\ (IsInjective(queue) => IsInjective(queue'))
    BY <1>o, <1>4, <2>2, AppendRange DEF Push, TypeOK, Queued, Owned
  <2>4. \A t \in Stoppers : SweptBy(t)' = SweptBy(t)
    BY <2>1 DEF SweptBy
  <2>5. ExclusiveOwnership'
    BY <1>o, <2>1, <2>2, <2>3, <2>4 DEF ExclusiveOwnership, Owned
  <2>6. hpc'[h] = "wait" /\ \A g \in Handlers \ {h} : hpc'[g] = hpc[g]
    BY <1>o, <1>4 DEF Push, TypeOK
  <2>7. \A g \in Handlers \ {h} : Owned(g)' = Owned(g)
    BY <2>1, <2>3, <2>4 DEF Owned
  <2>8. FrameInv'
    BY <1>o, <2>1, <2>2, <2>6, <2>7 DEF FrameInv, Unqueued, StaleAfterStop, CompletedFree, Live
  <2>. QED BY <2>5, <2>8
<1>5. ASSUME NEW h \in Handlers, Check(h) PROVE ExclusiveOwnership' /\ FrameInv'
  <2>1. UNCHANGED <<queue, swept, slot, running>> /\ InHand' = InHand
    BY <1>5 DEF Check, commandVars, stopVars, InHand
  <2>2. /\ \A g \in Handlers \ {h} : hpc'[g] = hpc[g]
        /\ hpc'[h] \in {"leave", "blocked"} /\ Live(h)
        /\ hpc'[h] = "leave" => slot[h].completed \/ ~running
    BY <1>o, <1>5 DEF Check, TypeOK, Live
  <2>. QED BY <1>o, <2>1, <2>2, SameOwners
           DEF FrameInv, Unqueued, StaleAfterStop, CompletedFree, Live
<1>6. ASSUME NEW h \in Handlers, SpuriousWakeup(h) PROVE ExclusiveOwnership' /\ FrameInv'
  <2>1. UNCHANGED <<queue, swept, slot, running>> /\ InHand' = InHand
    BY <1>6 DEF SpuriousWakeup, commandVars, stopVars, InHand
  <2>2. /\ \A g \in Handlers \ {h} : hpc'[g] = hpc[g]
        /\ hpc'[h] = "wait" /\ Live(h)
    BY <1>o, <1>6 DEF SpuriousWakeup, TypeOK, Live
  <2>. QED BY <1>o, <2>1, <2>2, SameOwners
           DEF FrameInv, Unqueued, StaleAfterStop, CompletedFree, Live
<1>7. ASSUME NEW h \in Handlers, Leave(h) PROVE ExclusiveOwnership' /\ FrameInv'
  <2>1. UNCHANGED <<queue, swept, slot, running>> /\ InHand' = InHand
    BY <1>7 DEF Leave, commandVars, stopVars, InHand
  <2>2. /\ \A g \in Handlers \ {h} : hpc'[g] = hpc[g]
        /\ hpc'[h] = "idle" /\ hpc[h] = "leave"
    BY <1>o, <1>7 DEF Leave, TypeOK
  <2>. QED BY <1>o, <2>1, <2>2, SameOwners
           DEF FrameInv, Unqueued, StaleAfterStop, CompletedFree, Live
<1>8. ASSUME LoopTest \/ PopNothing \/ Begin PROVE ExclusiveOwnership' /\ FrameInv'
  <2>1. UNCHANGED <<queue, swept, slot, hpc, running>> /\ InHand' = InHand
    BY <1>8 DEF LoopTest, PopNothing, Begin, handlerVars, stopVars, InHand
  <2>. QED BY <1>o, <2>1, SameOwners
           DEF FrameInv, Unqueued, StaleAfterStop, CompletedFree, Live
<1>9. CASE Pop
  <2>1. UNCHANGED <<swept, slot, hpc, running>> /\ InHand = {} /\ InHand' = {Head(queue)}
    BY <1>9 DEF Pop, handlerVars, stopVars, InHand
  <2>2. /\ Head(queue) \in Queued /\ Queued' \subseteq Queued
        /\ IsInjective(queue') /\ Head(queue) \notin Queued'
    BY <1>o, <1>9, TailRange DEF Pop, TypeOK, Queued, ExclusiveOwnership
  <2>3. \A t \in Stoppers : SweptBy(t)' = SweptBy(t)
    BY <2>1 DEF SweptBy
  <2>4. ExclusiveOwnership'
    BY <1>o, <2>1, <2>2, <2>3 DEF ExclusiveOwnership
  <2>5. \A g \in Handlers : Owned(g)' => Owned(g)
    BY <2>1, <2>2, <2>3 DEF Owned
  <2>. QED BY <1>o, <2>1, <2>4, <2>5
           DEF FrameInv, Unqueued, StaleAfterStop, CompletedFree, Live
<1>10. CASE Finish
  <2>1. UNCHANGED <<queue, swept, hpc, running>> /\ InHand' = InHand
    BY <1>10 DEF Finish, stopVars, InHand
  <2>2. \A g \in Handlers : slot'[g].completed = slot[g].completed
    BY <1>o, <1>10 DEF Finish, TypeOK, Commands
  <2>. QED BY <1>o, <2>1, <2>2, SameOwners
           DEF FrameInv, Unqueued, StaleAfterStop, CompletedFree, Live
<1>11. CASE Complete
  <2>0. PICK c \in Handlers : c = cmd
    BY <1>o, <1>11 DEF Complete, CmdHeld
  <2>1. UNCHANGED <<queue, swept, hpc, running>> /\ InHand = {c} /\ InHand' = {}
    BY <1>11, <2>0 DEF Complete, stopVars, InHand
  <2>2. \A g \in Handlers \ {c} : slot'[g] = slot[g]
    BY <1>o, <1>11, <2>0 DEF Complete, TypeOK
  <2>3. Queued' = Queued /\ \A t \in Stoppers : SweptBy(t)' = SweptBy(t)
    BY <2>1 DEF Queued, SweptBy
  <2>4. ExclusiveOwnership'
    BY <1>o, <2>1, <2>3 DEF ExclusiveOwnership
  <2>5. Owned(c) /\ ~Owned(c)'
    <3>1. c \notin Queued /\ \A t \in Stoppers : c \notin SweptBy(t)
      BY <1>o, <2>1 DEF ExclusiveOwnership
    <3>. QED BY <2>1, <2>3, <3>1 DEF Owned
  <2>6. \A g \in Handlers : Owned(g)' => Owned(g)
    BY <2>1, <2>3 DEF Owned
  <2>7. ASSUME NEW g \in Handlers PROVE (Unqueued(g) /\ StaleAfterStop(g) /\ CompletedFree(g))'
    <3>1. Unqueued(g) /\ StaleAfterStop(g) /\ CompletedFree(g)
      BY <1>o DEF FrameInv
    <3>2. CASE g = c
      BY <2>1, <2>5, <3>1, <3>2 DEF Unqueued, StaleAfterStop, CompletedFree, Live
    <3>3. CASE g # c
      BY <2>1, <2>2, <2>6, <3>1, <3>3 DEF Unqueued, StaleAfterStop, CompletedFree, Live
    <3>. QED BY <3>2, <3>3
  <2>. QED BY <2>4, <2>7 DEF FrameInv
<1>12. CASE Notify
  <2>1. UNCHANGED <<queue, swept, slot, running>> /\ InHand' = InHand
    BY <1>12 DEF Notify, stopVars, InHand
  <2>2. \A g \in Handlers : hpc'[g] = hpc[g] \/ (hpc[g] = "blocked" /\ hpc'[g] = "wait")
    BY <1>o, <1>12 DEF Notify, Notified, TypeOK
  <2>. QED BY <1>o, <2>1, <2>2, SameOwners
           DEF FrameInv, Unqueued, StaleAfterStop, CompletedFree, Live
<1>13. ASSUME NEW t \in Stoppers, BeginStop(t) PROVE ExclusiveOwnership' /\ FrameInv'
  <2>1. UNCHANGED <<queue, swept, slot, hpc>> /\ InHand' = InHand /\ ~running'
    BY <1>13 DEF BeginStop, handlerVars, commandVars, InHand
  <2>. QED BY <1>o, <2>1, SameOwners
           DEF FrameInv, Unqueued, StaleAfterStop, CompletedFree, Live
<1>14. ASSUME NEW t \in Stoppers, Swap(t) PROVE ExclusiveOwnership' /\ FrameInv'
  <2>1. UNCHANGED <<slot, hpc, running>> /\ InHand' = InHand
    BY <1>14 DEF Swap, handlerVars, commandVars, InHand
  <2>2. /\ Queued' = {} /\ IsInjective(queue')
        /\ SweptBy(t)' = Queued /\ swept'[t] = queue
        /\ \A u \in Stoppers \ {t} : swept'[u] = swept[u] /\ SweptBy(u)' = SweptBy(u)
    BY <1>o, <1>14, EmptyRange DEF Swap, TypeOK, Queued, SweptBy
  <2>3. ExclusiveOwnership'
    BY <1>o, <2>1, <2>2 DEF ExclusiveOwnership
  <2>4. \A g \in Handlers : Owned(g)' => Owned(g)
    BY <2>1, <2>2 DEF Owned
  <2>. QED BY <1>o, <2>1, <2>3, <2>4
           DEF FrameInv, Unqueued, StaleAfterStop, CompletedFree, Live
<1>15. ASSUME NEW t \in Stoppers, SweepOne(t) PROVE ExclusiveOwnership' /\ FrameInv'
  <2>0. PICK h \in Handlers : h = Head(swept[t])
    BY <1>o, <1>15, TailRange DEF SweepOne, TypeOK
  <2>1. UNCHANGED <<queue, hpc, running>> /\ InHand' = InHand /\ Queued' = Queued
    BY <1>15 DEF SweepOne, commandVars, InHand, Queued
  <2>2. /\ h \in SweptBy(t)
        /\ SweptBy(t)' \subseteq SweptBy(t) /\ h \notin SweptBy(t)'
        /\ IsInjective(swept'[t])
    BY <1>o, <1>15, <2>0, TailRange DEF SweepOne, TypeOK, SweptBy, ExclusiveOwnership
  <2>3. \A u \in Stoppers \ {t} : swept'[u] = swept[u] /\ SweptBy(u)' = SweptBy(u)
    BY <1>o, <1>15 DEF SweepOne, TypeOK, SweptBy
  <2>4. ExclusiveOwnership'
    BY <1>o, <2>1, <2>2, <2>3 DEF ExclusiveOwnership
  <2>5. Owned(h) /\ ~Owned(h)'
    <3>1. h \notin Queued /\ h \notin InHand /\ \A u \in Stoppers \ {t} : h \notin SweptBy(u)
      BY <1>o, <2>2 DEF ExclusiveOwnership
    <3>. QED BY <2>1, <2>2, <2>3, <3>1 DEF Owned
  <2>6. \A g \in Handlers : Owned(g)' => Owned(g)
    BY <2>1, <2>2, <2>3 DEF Owned
  <2>7. \A g \in Handlers \ {h} : slot'[g] = slot[g]
    BY <1>o, <1>15, <2>0 DEF SweepOne, TypeOK
  <2>8. ASSUME NEW g \in Handlers PROVE (Unqueued(g) /\ StaleAfterStop(g) /\ CompletedFree(g))'
    <3>1. Unqueued(g) /\ StaleAfterStop(g) /\ CompletedFree(g)
      BY <1>o DEF FrameInv
    <3>2. CASE g = h
      BY <2>1, <2>5, <3>1, <3>2 DEF Unqueued, StaleAfterStop, CompletedFree, Live
    <3>3. CASE g # h
      BY <2>1, <2>6, <2>7, <3>1, <3>3 DEF Unqueued, StaleAfterStop, CompletedFree, Live
    <3>. QED BY <3>2, <3>3
  <2>. QED BY <2>4, <2>8 DEF FrameInv
<1>16. ASSUME NEW t \in Stoppers, NotifySwept(t) PROVE ExclusiveOwnership' /\ FrameInv'
  <2>1. UNCHANGED <<queue, swept, slot, running>> /\ InHand' = InHand
    BY <1>16 DEF NotifySwept, commandVars, InHand
  <2>2. \A g \in Handlers : hpc'[g] = hpc[g] \/ (hpc[g] = "blocked" /\ hpc'[g] = "wait")
    BY <1>o, <1>16 DEF NotifySwept, Notified, TypeOK
  <2>. QED BY <1>o, <2>1, <2>2, SameOwners
           DEF FrameInv, Unqueued, StaleAfterStop, CompletedFree, Live
<1>17. ASSUME NEW t \in Stoppers, EndSweep(t) PROVE ExclusiveOwnership' /\ FrameInv'
  <2>1. UNCHANGED <<queue, swept, slot, hpc, running>> /\ InHand' = InHand
    BY <1>17 DEF EndSweep, handlerVars, commandVars, InHand
  <2>. QED BY <1>o, <2>1, SameOwners
           DEF FrameInv, Unqueued, StaleAfterStop, CompletedFree, Live
<1>18. CASE UNCHANGED vars
  <2>1. UNCHANGED <<queue, swept, slot, hpc, running>> /\ InHand' = InHand
    BY <1>18 DEF vars, handlerVars, commandVars, stopVars, InHand
  <2>. QED BY <1>o, <2>1, SameOwners
           DEF FrameInv, Unqueued, StaleAfterStop, CompletedFree, Live
<1>. QED
  BY <1>1, <1>2, <1>3, <1>4, <1>5, <1>6, <1>7, <1>8, <1>9, <1>10, <1>11, <1>12, <1>13,
     <1>14, <1>15, <1>16, <1>17, <1>18
     DEF Next, HandlerStep, CommandStep, StopStep

(* A pointer to a command has at most one owner, for any number of handler   *)
(* threads, commands, sessions and threads that stop the server.             *)
THEOREM ExclusiveOwnershipHolds == Safety => []ExclusiveOwnership
<1>1. OwnInv => ExclusiveOwnership
  BY DEF OwnInv
<1>. QED BY <1>1, OwnInit, OwnStep, PTL DEF Safety

-----------------------------------------------------------------------------
(* Answers.  The invariant ties every frame to its request: who holds one    *)
(* holds the only one, and where the command is tells whether it has run.    *)

Held(h)   == Live(h) \/ Owned(h)
NotRun(h) == slot[h].req \notin ran /\ slot[h].req # job

(* The request of a frame is unanswered while the call lasts; a pointer left *)
(* behind belongs to a request that was given up.                            *)
Unanswered(h) ==
  Held(h) => /\ slot[h].req \in Requests
             /\ answer[slot[h].req] = IF Live(h) THEN NoAnswer ELSE Reply(FALSE, "stopped")

(* Nobody has run a command that waits for an owner, or whose owner has not  *)
(* begun to execute it.                                                      *)
Unexecuted(h) ==
  hpc[h] = "push" \/ (Owned(h) /\ ~(cpc \in {"exec", "complete"} /\ h = cmd)) => NotRun(h)

(* A completed command was swept, and never runs, or has its own output.     *)
Outcome(h) ==
  Live(h) /\ slot[h].completed =>
    \/ slot[h].result = "stopped" /\ NotRun(h)
    \/ slot[h].result = slot[h].req /\ slot[h].req \in ran

Distinct ==
  \A g, h \in Handlers : g # h /\ Held(g) /\ Held(h) => slot[g].req # slot[h].req

JobInv ==
  /\ job = "nothing" <=> cpc # "exec"
  /\ job \in Requests => job \notin ran
  /\ cpc = "exec" => job = slot[cmd].req \/ (job = "garbage" /\ ~Live(cmd))
  /\ cpc = "complete" /\ Live(cmd) => slot[cmd].result = slot[cmd].req /\ slot[cmd].req \in ran

FreshInv == \A r \in Requests : Fresh(r) => r \notin ran /\ r # job

RequestInv == \A h \in Handlers : Unanswered(h) /\ Unexecuted(h) /\ Outcome(h)
AnswerInv  == RequestInv /\ Distinct /\ JobInv /\ FreshInv /\ OwnAnswer

(* At first there is no request, job or frame.                               *)
LEMMA AnswerInit == Init => AnswerInv
<1>. SUFFICES ASSUME Init PROVE AnswerInv
  OBVIOUS
<1>1. \A h \in Handlers : ~Live(h) /\ hpc[h] # "push"
  BY DEF Init, Live
<1>2. \A h \in Handlers : ~Owned(h)
  BY EmptyRange DEF Init, Owned, Queued, InHand, SweptBy
<1>3. RequestInv /\ Distinct
  BY <1>1, <1>2 DEF RequestInv, Unanswered, Unexecuted, Outcome, Distinct, Held
<1>4. JobInv /\ FreshInv
  BY RequestNames DEF Init, JobInv, FreshInv
<1>5. OwnAnswer
  BY DEF Init, OwnAnswer
<1>. QED BY <1>3, <1>4, <1>5 DEF AnswerInv

(* Nobody gets hold of a command except by Push.                             *)
LEMMA OwnersShrink ==
  ASSUME OwnInv, [Next]_vars
  PROVE  \A h \in Handlers : Owned(h)' => Owned(h) \/ hpc[h] = "push"
<1>o. TypeOK
  BY DEF OwnInv, TypeOK
<1>1. CASE UNCHANGED <<queue, swept>> /\ InHand' \subseteq InHand
  <2>1. Queued' = Queued /\ \A t \in Stoppers : SweptBy(t)' = SweptBy(t)
    BY <1>1 DEF Queued, SweptBy
  <2>. QED BY <1>1, <2>1 DEF Owned
<1>2. ASSUME NEW h \in Handlers, Push(h)
      PROVE  \A g \in Handlers : Owned(g)' => Owned(g) \/ hpc[g] = "push"
  <2>1. UNCHANGED swept /\ InHand' = InHand /\ hpc[h] = "push"
    BY <1>2 DEF Push, commandVars, stopVars, InHand
  <2>2. Queued' = Queued \cup {h} /\ \A t \in Stoppers : SweptBy(t)' = SweptBy(t)
    BY <1>o, <1>2, <2>1, AppendRange DEF Push, TypeOK, Queued, SweptBy
  <2>. QED BY <2>1, <2>2 DEF Owned
<1>3. CASE Pop
  <2>1. UNCHANGED swept /\ InHand' = {Head(queue)}
    BY <1>3 DEF Pop, stopVars, InHand
  <2>2. Head(queue) \in Queued /\ Queued' \subseteq Queued /\ \A t \in Stoppers : SweptBy(t)' = SweptBy(t)
    BY <1>o, <1>3, <2>1, TailRange DEF Pop, TypeOK, Queued, SweptBy
  <2>. QED BY <2>1, <2>2 DEF Owned
<1>4. ASSUME NEW t \in Stoppers, Swap(t)
      PROVE  \A g \in Handlers : Owned(g)' => Owned(g) \/ hpc[g] = "push"
  <2>1. InHand' = InHand
    BY <1>4 DEF Swap, commandVars, InHand
  <2>2. /\ Queued' = {} /\ SweptBy(t)' = Queued
        /\ \A u \in Stoppers \ {t} : SweptBy(u)' = SweptBy(u)
    BY <1>o, <1>4, EmptyRange DEF Swap, TypeOK, Queued, SweptBy
  <2>. QED BY <2>1, <2>2 DEF Owned
<1>5. ASSUME NEW t \in Stoppers, SweepOne(t)
      PROVE  \A g \in Handlers : Owned(g)' => Owned(g) \/ hpc[g] = "push"
  <2>1. InHand' = InHand /\ Queued' = Queued
    BY <1>5 DEF SweepOne, commandVars, InHand, Queued
  <2>2. /\ SweptBy(t)' \subseteq SweptBy(t)
        /\ \A u \in Stoppers \ {t} : SweptBy(u)' = SweptBy(u)
    BY <1>o, <1>5, TailRange DEF SweepOne, TypeOK, SweptBy
  <2>. QED BY <2>1, <2>2 DEF Owned
<1>6. CASE \/ Open \/ (CommandStep /\ ~Pop)
           \/ \E r \in Requests : Refuse(r)
           \/ \E h \in Handlers, r \in Requests : Enter(h, r)
           \/ \E h \in Handlers : Check(h) \/ Leave(h) \/ SpuriousWakeup(h)
           \/ \E t \in Stoppers : BeginStop(t) \/ NotifySwept(t) \/ EndSweep(t)
           \/ UNCHANGED vars
  <2>1. UNCHANGED <<queue, swept>>
    BY <1>6 DEF Open, CommandStep, LoopTest, PopNothing, Begin, Finish, Complete, Notify,
       Refuse, Enter, Check, Leave, SpuriousWakeup, BeginStop, NotifySwept, EndSweep,
       handlerVars, commandVars, stopVars, vars
  <2>2. InHand' \subseteq InHand
    BY <1>6 DEF Open, CommandStep, LoopTest, PopNothing, Begin, Finish, Complete, Notify,
       Refuse, Enter, Check, Leave, SpuriousWakeup, BeginStop, NotifySwept, EndSweep,
       handlerVars, commandVars, stopVars, vars, InHand
  <2>. QED BY <1>1, <2>1, <2>2
<1>. QED BY <1>2, <1>3, <1>4, <1>5, <1>6 DEF Next, HandlerStep, CommandStep, StopStep

(* A step that neither stores nor answers anything, and neither begins nor   *)
(* ends a call or an execution, keeps the answers' invariant.                *)
LEMMA SameAnswers ==
  ASSUME OwnInv, AnswerInv,
         \A h \in Handlers : Owned(h)' => Owned(h) \/ hpc[h] = "push",
         UNCHANGED <<slot, answer, job, ran>>,
         \A h \in Handlers : Live(h)' = Live(h) /\ (hpc'[h] = "push" => hpc[h] = "push"),
         \/ UNCHANGED <<cpc, cmd>>
         \/ cpc \notin {"exec", "complete"} /\ cpc' \notin {"exec", "complete"}
  PROVE  AnswerInv'
<1>1. TypeOK /\ CmdHeld
  BY DEF OwnInv, TypeOK
<1>2. \A h \in Handlers : Held(h)' => Held(h)
  BY DEF Held, Live
<1>3. RequestInv'
  <2>1. ASSUME NEW h \in Handlers PROVE (Unanswered(h) /\ Unexecuted(h) /\ Outcome(h))'
    <3>1. Unanswered(h) /\ Unexecuted(h) /\ Outcome(h)
      BY DEF AnswerInv, RequestInv
    <3>2. NotRun(h)' = NotRun(h)
      BY DEF NotRun
    <3>3. Unanswered(h)'
      BY <1>2, <3>1 DEF Unanswered
    <3>4. Unexecuted(h)'
      BY <3>1, <3>2 DEF Unexecuted
    <3>5. Outcome(h)'
      BY <3>1, <3>2 DEF Outcome
    <3>. QED BY <3>3, <3>4, <3>5
  <2>. QED BY <2>1 DEF RequestInv
<1>4. Distinct'
  BY <1>2 DEF AnswerInv, Distinct
<1>5. JobInv'
  <2>1. CASE UNCHANGED <<cpc, cmd>>
    BY <1>1, <2>1 DEF AnswerInv, JobInv, CmdHeld
  <2>2. CASE cpc \notin {"exec", "complete"} /\ cpc' \notin {"exec", "complete"}
    BY <2>2 DEF AnswerInv, JobInv
  <2>. QED BY <2>1, <2>2
<1>6. FreshInv' /\ OwnAnswer'
  BY DEF AnswerInv, FreshInv, Fresh, OwnAnswer
<1>. QED BY <1>3, <1>4, <1>5, <1>6 DEF AnswerInv

(* A request that was not sent is in no frame that anybody can reach.        *)
LEMMA FreshNotHeld ==
  ASSUME RequestInv, NEW r \in Requests, Fresh(r), NEW h \in Handlers, Held(h)
  PROVE  slot[h].req # r
<1>1. CASE Live(h)
  BY <1>1 DEF Fresh
<1>2. CASE ~Live(h)
  <2>1. answer[slot[h].req] = Reply(FALSE, "stopped")
    BY <1>2 DEF RequestInv, Unanswered
  <2>2. Reply(FALSE, "stopped") # NoAnswer
    BY DEF Reply, NoAnswer
  <2>. QED BY <2>1, <2>2 DEF Fresh
<1>. QED BY <1>1, <1>2

(* Every step keeps the answers' invariant.                                  *)
LEMMA AnswerStep == OwnInv /\ AnswerInv /\ [Next]_vars => AnswerInv'
<1>. SUFFICES ASSUME OwnInv, AnswerInv, [Next]_vars PROVE AnswerInv'
  OBVIOUS
<1>n. OwnInv'
  BY OwnStep
<1>o. TypeOK /\ CmdHeld /\ ExclusiveOwnership /\ FrameInv
  BY DEF OwnInv, TypeOK
<1>a. RequestInv /\ Distinct /\ JobInv /\ FreshInv /\ OwnAnswer
  BY DEF AnswerInv
<1>s. \A h \in Handlers : Owned(h)' => Owned(h) \/ hpc[h] = "push"
  BY OwnersShrink
<1>1. ASSUME NEW r \in Requests, Refuse(r) PROVE AnswerInv'
  <2>1. /\ UNCHANGED <<slot, hpc, cpc, cmd, job, ran>>
        /\ Fresh(r) /\ answer'[r] = Reply(FALSE, "not running") /\ answer'[r] # NoAnswer
        /\ \A q \in Requests \ {r} : answer'[q] = answer[q]
    BY <1>o, <1>1 DEF Refuse, commandVars, TypeOK, Reply, NoAnswer
  <2>2. \A h \in Handlers : Held(h)' => Held(h)
    BY <1>s, <2>1 DEF Held, Live
  <2>3. \A h \in Handlers : Held(h) => slot[h].req # r
    BY <1>a, <2>1, FreshNotHeld
  <2>4. ASSUME NEW h \in Handlers PROVE (Unanswered(h) /\ Unexecuted(h) /\ Outcome(h))'
    <3>1. Unanswered(h) /\ Unexecuted(h) /\ Outcome(h)
      BY <1>a DEF RequestInv
    <3>2. Unanswered(h)'
      BY <2>1, <2>2, <2>3, <3>1 DEF Unanswered, Live
    <3>3. Unexecuted(h)' /\ Outcome(h)'
      BY <1>s, <2>1, <3>1 DEF Unexecuted, Outcome, NotRun, Live
    <3>. QED BY <3>2, <3>3
  <2>5. Distinct' /\ JobInv'
    BY <1>a, <2>1, <2>2 DEF Distinct, JobInv, Live
  <2>6. FreshInv'
    BY <1>a, <2>1 DEF FreshInv, Fresh, Live
  <2>7. OwnAnswer'
    <3>1. r \notin ran /\ r # job
      BY <1>a, <2>1 DEF FreshInv
    <3>2. job' = job /\ ran' = ran
      BY <2>1
    <3>. QED BY <1>a, <2>1, <3>1, <3>2, Zenon DEF OwnAnswer
  <2>. QED BY <2>4, <2>5, <2>6, <2>7 DEF AnswerInv, RequestInv
<1>2. ASSUME NEW h \in Handlers, NEW r \in Requests, Enter(h, r) PROVE AnswerInv'
  <2>1. /\ UNCHANGED <<answer, cpc, cmd, job, ran, running>>
        /\ running /\ hpc[h] = "idle" /\ Fresh(r)
        /\ hpc'[h] = "push" /\ slot'[h].req = r /\ ~slot'[h].completed
        /\ \A g \in Handlers \ {h} : slot'[g] = slot[g] /\ hpc'[g] = hpc[g]
    BY <1>o, <1>2 DEF Enter, commandVars, TypeOK
  <2>2. ~Owned(h) /\ ~Owned(h)'
    BY <1>o, <1>s, <2>1 DEF FrameInv, StaleAfterStop
  <2>3. cpc \in {"run", "exec", "complete"} => cmd # h
    BY <2>2 DEF Owned, InHand
  <2>4. r \notin ran /\ r # job
    BY <1>a, <2>1 DEF FreshInv
  <2>5. ASSUME NEW g \in Handlers \ {h} PROVE (Unanswered(g) /\ Unexecuted(g) /\ Outcome(g))'
    <3>1. Unanswered(g) /\ Unexecuted(g) /\ Outcome(g)
      BY <1>a DEF RequestInv
    <3>2. slot'[g] = slot[g] /\ hpc'[g] = hpc[g] /\ (Owned(g)' => Owned(g) \/ hpc[g] = "push")
      BY <1>s, <2>1
    <3>3. (Held(g)' => Held(g)) /\ NotRun(g)' = NotRun(g) /\ Live(g)' = Live(g)
      BY <2>1, <3>2 DEF Held, NotRun, Live
    <3>. QED BY <2>1, <3>1, <3>2, <3>3 DEF Unanswered, Unexecuted, Outcome
  <2>6. (Unanswered(h) /\ Unexecuted(h) /\ Outcome(h))'
    BY <2>1, <2>2, <2>4 DEF Unanswered, Unexecuted, Outcome, NotRun, Fresh, Live
  <2>7. \A g \in Handlers \ {h} : Held(g)' => Held(g) /\ slot[g].req # r
    <3>1. \A g \in Handlers \ {h} : Held(g)' => Held(g)
      BY <1>s, <2>1 DEF Held, Live
    <3>2. \A g \in Handlers : Held(g) => slot[g].req # r
      BY <1>a, <2>1, FreshNotHeld
    <3>. QED BY <3>1, <3>2
  <2>8. Distinct'
    BY <1>a, <2>1, <2>7 DEF Distinct
  <2>9. JobInv'
    BY <1>o, <1>a, <2>1, <2>3 DEF JobInv, CmdHeld, Live
  <2>10. FreshInv'
    BY <1>a, <2>1 DEF FreshInv, Fresh, Live
  <2>11. OwnAnswer'
    BY <1>a, <2>1 DEF OwnAnswer
  <2>. QED BY <2>5, <2>6, <2>8, <2>9, <2>10, <2>11 DEF AnswerInv, RequestInv
<1>3. ASSUME NEW h \in Handlers, Leave(h) PROVE AnswerInv'
  <2>. DEFINE r == slot[h].req
  <2>1. /\ UNCHANGED <<slot, cpc, cmd, job, ran>>
        /\ hpc[h] = "leave" /\ hpc'[h] = "idle" /\ Live(h) /\ ~Live(h)'
        /\ \A g \in Handlers \ {h} : hpc'[g] = hpc[g]
    BY <1>o, <1>3 DEF Leave, commandVars, TypeOK, Live
  <2>2. PICK q \in Requests : q = r
    BY <1>a, <2>1 DEF RequestInv, Unanswered, Held
  <2>3. /\ answer'[q] = IF slot[h].completed THEN Reply(TRUE, slot[h].result)
                                             ELSE Reply(FALSE, "stopped")
        /\ \A p \in Requests \ {q} : answer'[p] = answer[p]
    BY <1>o, <1>3, <2>2 DEF Leave, TypeOK
  <2>4. answer'[q] # NoAnswer
    BY <2>3 DEF NoAnswer, Reply
  <2>5. \A g \in Handlers : Held(g)' => Held(g)
    BY <1>s, <2>1 DEF Held, Live
  <2>6. \A g \in Handlers \ {h} : Held(g) => slot[g].req # q
    BY <1>a, <2>1, <2>2 DEF Distinct, Held
  <2>7. ASSUME NEW g \in Handlers PROVE (Unanswered(g) /\ Unexecuted(g) /\ Outcome(g))'
    <3>1. Unanswered(g) /\ Unexecuted(g) /\ Outcome(g)
      BY <1>a DEF RequestInv
    <3>2. NotRun(g)' = NotRun(g) /\ (Owned(g)' => Owned(g) \/ hpc[g] = "push")
      BY <1>s, <2>1 DEF NotRun
    <3>3. CASE g = h
      <4>1. Owned(h)' => Owned(h)
        BY <2>1, <3>2, <3>3
      <4>2. Owned(h) => ~slot[h].completed
        BY <1>o, <2>1 DEF FrameInv, CompletedFree
      <4>3. Unanswered(h)'
        BY <2>1, <2>2, <2>3, <4>1, <4>2 DEF Unanswered, Held
      <4>4. Unexecuted(h)' /\ Outcome(h)'
        BY <2>1, <3>1, <3>2, <3>3, <4>1 DEF Unexecuted, Outcome
      <4>. QED BY <3>3, <4>3, <4>4
    <3>4. CASE g # h
      <4>1. hpc'[g] = hpc[g] /\ Live(g)' = Live(g)
        BY <2>1, <3>4 DEF Live
      <4>2. Unanswered(g)'
        BY <2>1, <2>3, <2>5, <2>6, <3>1, <3>4, <4>1 DEF Unanswered
      <4>3. Unexecuted(g)' /\ Outcome(g)'
        BY <2>1, <3>1, <3>2, <4>1 DEF Unexecuted, Outcome
      <4>. QED BY <4>2, <4>3
    <3>. QED BY <3>3, <3>4
  <2>8. Distinct'
    BY <1>a, <2>1, <2>5 DEF Distinct
  <2>9. JobInv'
    <3>1. ASSUME cpc \in {"exec", "complete"} PROVE Live(cmd)' = (cmd # h /\ Live(cmd))
      BY <1>o, <2>1, <3>1 DEF Live, CmdHeld
    <3>. QED BY <1>a, <2>1, <3>1 DEF JobInv
  <2>10. FreshInv'
    <3>1. ASSUME NEW p \in Requests, Fresh(p)' PROVE Fresh(p)
      BY <2>1, <2>2, <2>3, <2>4, <3>1 DEF Fresh, Live
    <3>. QED BY <1>a, <2>1, <3>1 DEF FreshInv
  <2>11. OwnAnswer'
    <3>1. ASSUME slot[h].completed
          PROVE  \/ slot[h].result = "stopped" /\ q \notin ran /\ q # job
                 \/ slot[h].result = q /\ q \in ran
      BY <1>a, <2>1, <2>2, <3>1 DEF RequestInv, Outcome, NotRun
    <3>2. \/ answer'[q] = Reply(TRUE, q) /\ q \in ran
          \/ answer'[q] = Reply(TRUE, "stopped") /\ q \notin ran /\ q # job
          \/ answer'[q] = Reply(FALSE, "stopped")
      BY <2>3, <3>1
    <3>3. job' = job /\ ran' = ran
      BY <2>1
    <3>. QED BY <1>a, <2>3, <3>2, <3>3, Zenon DEF OwnAnswer
  <2>. QED BY <2>7, <2>8, <2>9, <2>10, <2>11 DEF AnswerInv, RequestInv
<1>4. CASE Begin
  <2>0. PICK c \in Handlers : c = cmd
    BY <1>o, <1>4 DEF Begin, CmdHeld
  <2>1. /\ UNCHANGED <<slot, hpc, answer, cmd, ran>>
        /\ cpc = "run" /\ cpc' = "exec"
        /\ job' = slot[c].req \/ (job' = "garbage" /\ ~Live(c))
        /\ job = "nothing"
    BY <1>a, <1>4, <2>0 DEF Begin, handlerVars, JobInv
  <2>2. Owned(c)
    BY <2>0, <2>1 DEF Owned, InHand
  <2>3. /\ slot[c].req \in Requests /\ slot[c].req \notin ran
        /\ ~Fresh(slot[c].req)
    BY <1>a, <2>0, <2>1, <2>2, FreshNotHeld DEF RequestInv, Unanswered, Unexecuted, NotRun, Held
  <2>4. \A g \in Handlers : Held(g)' => Held(g)
    BY <1>s, <2>1 DEF Held, Live
  <2>5. \A g \in Handlers \ {c} : Held(g) => slot[g].req # slot[c].req
    BY <1>a, <2>2 DEF Distinct, Held
  <2>6. \A q \in Requests : q # "garbage"
    BY RequestNames
  <2>7. ASSUME NEW g \in Handlers PROVE (Unanswered(g) /\ Unexecuted(g) /\ Outcome(g))'
    <3>1. Unanswered(g) /\ Unexecuted(g) /\ Outcome(g)
      BY <1>a DEF RequestInv
    <3>2. Unanswered(g)'
      BY <2>1, <2>4, <3>1 DEF Unanswered, Live
    <3>3. CASE g = c
      <4>1. ~slot[g].completed \/ ~Live(g)
        BY <1>o, <2>2, <3>3 DEF FrameInv, CompletedFree
      <4>2. hpc[g] # "push"
        BY <1>o, <2>2, <3>3 DEF FrameInv, Unqueued
      <4>. QED BY <2>0, <2>1, <3>2, <3>3, <4>1, <4>2 DEF Unexecuted, Outcome, Live
    <3>4. CASE g # c
      <4>1. Held(g) /\ NotRun(g) => NotRun(g)'
        BY <2>1, <2>5, <2>6, <3>1, <3>4 DEF NotRun, Unanswered
      <4>2. Unexecuted(g)'
        <5>1. ASSUME hpc[g] = "push" \/ Owned(g)' PROVE NotRun(g)'
          <6>1. Held(g)
            BY <2>4, <5>1 DEF Held, Live
          <6>2. NotRun(g)
            BY <1>s, <2>1, <3>1, <5>1 DEF Unexecuted
          <6>. QED BY <4>1, <6>1, <6>2
        <5>. QED BY <2>1, <5>1 DEF Unexecuted
      <4>3. Outcome(g)'
        BY <2>1, <3>1, <4>1 DEF Outcome, Live, Held
      <4>. QED BY <3>2, <4>2, <4>3
    <3>. QED BY <3>3, <3>4
  <2>8. Distinct'
    BY <1>a, <2>1, <2>4 DEF Distinct
  <2>9. JobInv'
    BY <2>0, <2>1, <2>3, <2>6, RequestNames DEF JobInv, Live
  <2>10. FreshInv'
    BY <1>a, <2>1, <2>3, <2>6 DEF FreshInv, Fresh, Live
  <2>11. OwnAnswer'
    <3>1. answer[slot[c].req] \in {NoAnswer, Reply(FALSE, "stopped")}
      BY <1>a, <2>2 DEF RequestInv, Unanswered, Held
    <3>2. \A q \in Requests : q # slot[c].req => q # job'
      BY <2>1, <2>6
    <3>. QED BY <1>a, <2>1, <3>1, <3>2, Zenon DEF OwnAnswer
  <2>. QED BY <2>7, <2>8, <2>9, <2>10, <2>11 DEF AnswerInv, RequestInv
<1>5. CASE Finish
  <2>0. PICK c \in Handlers : c = cmd
    BY <1>o, <1>5 DEF Finish, CmdHeld
  <2>1. /\ UNCHANGED <<hpc, answer, cmd>>
        /\ cpc = "exec" /\ cpc' = "complete" /\ job' = "nothing" /\ ran' = ran \cup {job}
        /\ slot'[c] = [slot[c] EXCEPT !.result = job]
        /\ \A g \in Handlers \ {c} : slot'[g] = slot[g]
    BY <1>o, <1>5, <2>0 DEF Finish, TypeOK
  <2>2. /\ slot[c].req = slot'[c].req /\ slot[c].completed = slot'[c].completed
        /\ slot'[c].result = job
    BY <1>o, <2>1 DEF TypeOK, Commands
  <2>3. Owned(c) /\ (job = slot[c].req \/ (job = "garbage" /\ ~Live(c)))
    BY <1>a, <2>0, <2>1 DEF Owned, InHand, JobInv
  <2>4. slot[c].req \in Requests /\ ~Fresh(slot[c].req)
    BY <1>a, <2>3, FreshNotHeld DEF RequestInv, Unanswered, Held
  <2>5. \A g \in Handlers : (Held(g)' => Held(g)) /\ slot'[g].req = slot[g].req
    BY <1>s, <2>1, <2>2 DEF Held, Live
  <2>6. \A g \in Handlers \ {c} : Held(g) => slot[g].req # job
    BY <1>a, <2>3, RequestNames DEF Distinct, Held, RequestInv, Unanswered
  <2>7. ASSUME NEW g \in Handlers PROVE (Unanswered(g) /\ Unexecuted(g) /\ Outcome(g))'
    <3>1. Unanswered(g) /\ Unexecuted(g) /\ Outcome(g)
      BY <1>a DEF RequestInv
    <3>2. Unanswered(g)'
      BY <2>1, <2>5, <3>1 DEF Unanswered, Live
    <3>3. CASE g = c
      <4>1. ~slot[g].completed \/ ~Live(g)
        BY <1>o, <2>3, <3>3 DEF FrameInv, CompletedFree
      <4>2. hpc[g] # "push"
        BY <1>o, <2>3, <3>3 DEF FrameInv, Unqueued
      <4>. QED BY <2>0, <2>1, <2>2, <3>2, <3>3, <4>1, <4>2 DEF Unexecuted, Outcome, Live
    <3>4. CASE g # c
      <4>1. Held(g) /\ NotRun(g) => NotRun(g)'
        <5>1. ASSUME Held(g) PROVE slot[g].req \in Requests /\ slot[g].req # "nothing"
          BY <3>1, <5>1, RequestNames DEF Unanswered
        <5>. QED BY <2>1, <2>6, <3>4, <5>1 DEF NotRun
      <4>2. Unexecuted(g)'
        <5>1. ASSUME hpc[g] = "push" \/ Owned(g)' PROVE NotRun(g)'
          <6>1. Held(g)
            BY <2>5, <5>1 DEF Held, Live
          <6>2. NotRun(g)
            BY <1>s, <2>0, <2>1, <3>1, <3>4, <5>1 DEF Unexecuted
          <6>. QED BY <4>1, <6>1, <6>2
        <5>. QED BY <2>1, <5>1 DEF Unexecuted
      <4>3. Outcome(g)'
        BY <2>1, <3>1, <3>4, <4>1 DEF Outcome, Live, Held
      <4>. QED BY <3>2, <4>2, <4>3
    <3>. QED BY <3>3, <3>4
  <2>8. Distinct'
    BY <1>a, <2>5 DEF Distinct
  <2>9. JobInv'
    BY <2>0, <2>1, <2>2, <2>3, RequestNames DEF JobInv, Live
  <2>10. FreshInv'
    <3>1. ASSUME NEW p \in Requests, Fresh(p)' PROVE Fresh(p) /\ p # "nothing"
      BY <2>1, <2>5, <3>1, RequestNames DEF Fresh, Live
    <3>. QED BY <1>a, <2>1, <3>1 DEF FreshInv
  <2>11. OwnAnswer'
    <3>1. \A q \in Requests : q # job /\ q \notin ran => q # job' /\ q \notin ran'
      BY <2>1, RequestNames
    <3>2. ran \subseteq ran'
      BY <2>1
    <3>. QED BY <1>a, <2>1, <3>1, <3>2, Zenon DEF OwnAnswer
  <2>. QED BY <2>7, <2>8, <2>9, <2>10, <2>11 DEF AnswerInv, RequestInv
<1>6. CASE Complete
  <2>0. PICK c \in Handlers : c = cmd
    BY <1>o, <1>6 DEF Complete, CmdHeld
  <2>1. /\ UNCHANGED <<hpc, answer, cmd, job, ran>>
        /\ cpc = "complete" /\ cpc' = "notify"
        /\ slot'[c] = [slot[c] EXCEPT !.completed = TRUE]
        /\ \A g \in Handlers \ {c} : slot'[g] = slot[g]
    BY <1>o, <1>6, <2>0 DEF Complete, TypeOK
  <2>2. slot[c].req = slot'[c].req /\ slot[c].result = slot'[c].result
    BY <1>o, <2>1 DEF TypeOK, Commands
  <2>3. Live(c) => slot[c].result = slot[c].req /\ slot[c].req \in ran
    BY <1>a, <2>0, <2>1 DEF JobInv
  <2>4. Owned(c)
    BY <2>0, <2>1 DEF Owned, InHand
  <2>5. \A g \in Handlers : (Held(g)' => Held(g)) /\ slot'[g].req = slot[g].req
    BY <1>s, <2>1, <2>2 DEF Held, Live
  <2>6. ~Owned(c)'
    <3>1. c \notin Queued /\ \A t \in Stoppers : c \notin SweptBy(t)
      BY <1>o, <2>0, <2>1 DEF ExclusiveOwnership, InHand
    <3>2. InHand' = {} /\ Queued' = Queued /\ \A t \in Stoppers : SweptBy(t)' = SweptBy(t)
      BY <1>6 DEF Complete, stopVars, InHand, Queued, SweptBy
    <3>. QED BY <3>1, <3>2 DEF Owned
  <2>7. ASSUME NEW g \in Handlers PROVE (Unanswered(g) /\ Unexecuted(g) /\ Outcome(g))'
    <3>1. Unanswered(g) /\ Unexecuted(g) /\ Outcome(g)
      BY <1>a DEF RequestInv
    <3>2. Unanswered(g)' /\ NotRun(g)' = NotRun(g)
      BY <2>1, <2>5, <3>1 DEF Unanswered, Live, NotRun
    <3>3. CASE g = c
      <4>1. hpc[g] # "push"
        BY <1>o, <2>4, <3>3 DEF FrameInv, Unqueued
      <4>. QED BY <2>1, <2>2, <2>3, <2>6, <3>2, <3>3, <4>1 DEF Unexecuted, Outcome, Live
    <3>4. CASE g # c
      BY <1>s, <2>0, <2>1, <3>1, <3>2, <3>4 DEF Unexecuted, Outcome, Live
    <3>. QED BY <3>3, <3>4
  <2>8. Distinct'
    BY <1>a, <2>5 DEF Distinct
  <2>9. JobInv'
    BY <1>a, <2>1 DEF JobInv
  <2>10. FreshInv' /\ OwnAnswer'
    BY <1>a, <2>1, <2>5 DEF FreshInv, Fresh, OwnAnswer, Live
  <2>. QED BY <2>7, <2>8, <2>9, <2>10 DEF AnswerInv, RequestInv
<1>7. ASSUME NEW t \in Stoppers, SweepOne(t) PROVE AnswerInv'
  <2>0. PICK c \in Handlers : c = Head(swept[t])
    BY <1>o, <1>7, TailRange DEF SweepOne, TypeOK
  <2>1. UNCHANGED <<hpc, answer, cpc, cmd, job, ran>>
    BY <1>7 DEF SweepOne, commandVars
  <2>s. slot' = IF slot[c].completed THEN slot
                ELSE [slot EXCEPT ![c].result = "stopped", ![c].completed = TRUE]
    BY <1>7, <2>0 DEF SweepOne
  <2>2. \A g \in Handlers \ {c} : slot'[g] = slot[g]
    BY <1>o, <2>s DEF TypeOK
  <2>3. /\ slot'[c].req = slot[c].req
        /\ slot'[c] = slot[c] \/ slot'[c].result = "stopped"
    BY <1>o, <2>s DEF TypeOK, Commands
  <2>4. c \in SweptBy(t)
    BY <1>o, <1>7, <2>0, TailRange DEF SweepOne, TypeOK, SweptBy
  <2>5. Owned(c) /\ c \notin InHand
    BY <1>o, <2>4 DEF Owned, ExclusiveOwnership
  <2>6. NotRun(c)
    BY <1>a, <2>5 DEF RequestInv, Unexecuted, InHand
  <2>7. \A g \in Handlers : (Held(g)' => Held(g)) /\ slot'[g].req = slot[g].req
    BY <1>s, <2>1, <2>2, <2>3 DEF Held, Live
  <2>8. ASSUME NEW g \in Handlers PROVE (Unanswered(g) /\ Unexecuted(g) /\ Outcome(g))'
    <3>1. Unanswered(g) /\ Unexecuted(g) /\ Outcome(g)
      BY <1>a DEF RequestInv
    <3>2. Unanswered(g)' /\ NotRun(g)' = NotRun(g)
      BY <2>1, <2>7, <3>1 DEF Unanswered, Live, NotRun
    <3>3. Unexecuted(g)'
      BY <1>s, <2>1, <3>1, <3>2 DEF Unexecuted
    <3>4. Outcome(g)'
      <4>1. CASE g = c
        BY <2>1, <2>3, <2>6, <3>1, <3>2, <4>1 DEF Outcome, Live
      <4>2. CASE g # c
        BY <2>1, <2>2, <3>1, <3>2, <4>2 DEF Outcome, Live
      <4>. QED BY <4>1, <4>2
    <3>. QED BY <3>2, <3>3, <3>4
  <2>9. Distinct'
    BY <1>a, <2>7 DEF Distinct
  <2>10. JobInv'
    <3>1. cpc \in {"exec", "complete"} => cmd # c /\ slot'[cmd] = slot[cmd]
      BY <1>o, <2>2, <2>5 DEF InHand, CmdHeld
    <3>. QED BY <1>a, <2>1, <3>1 DEF JobInv, Live
  <2>11. FreshInv' /\ OwnAnswer'
    BY <1>a, <2>1, <2>7 DEF FreshInv, Fresh, OwnAnswer, Live
  <2>. QED BY <2>8, <2>9, <2>10, <2>11 DEF AnswerInv, RequestInv
<1>8. CASE \/ \E h \in Handlers : Push(h) \/ Check(h) \/ SpuriousWakeup(h)
           \/ \E t \in Stoppers : BeginStop(t) \/ Swap(t) \/ NotifySwept(t) \/ EndSweep(t)
           \/ UNCHANGED vars
  <2>1. UNCHANGED <<slot, answer, job, ran, cpc, cmd>>
    BY <1>8 DEF Push, Check, SpuriousWakeup, BeginStop, Swap, NotifySwept, EndSweep,
       handlerVars, commandVars, stopVars, vars
  <2>2. \A h \in Handlers : Live(h)' = Live(h) /\ (hpc'[h] = "push" => hpc[h] = "push")
    <3>1. CASE UNCHANGED hpc
      BY <3>1 DEF Live
    <3>2. ASSUME NEW h \in Handlers, Push(h) \/ Check(h) \/ SpuriousWakeup(h)
          PROVE  /\ hpc[h] # "idle" /\ hpc'[h] \notin {"idle", "push"}
                 /\ \A g \in Handlers \ {h} : hpc'[g] = hpc[g]
      BY <1>o, <3>2 DEF Push, Check, SpuriousWakeup, TypeOK
    <3>3. ASSUME NEW t \in Stoppers, NotifySwept(t)
          PROVE  \A g \in Handlers : hpc'[g] = hpc[g] \/ (hpc[g] = "blocked" /\ hpc'[g] = "wait")
      BY <1>o, <3>3 DEF NotifySwept, Notified, TypeOK
    <3>. QED BY <1>8, <3>1, <3>2, <3>3 DEF BeginStop, Swap, EndSweep, handlerVars, vars, Live
  <2>. QED BY <1>s, <2>1, <2>2, SameAnswers
<1>9. CASE Open \/ LoopTest \/ PopNothing \/ Pop \/ Notify
  <2>1. /\ UNCHANGED <<slot, answer, job, ran>>
        /\ cpc \notin {"exec", "complete"} /\ cpc' \notin {"exec", "complete"}
    BY <1>9 DEF Open, Quiet, LoopTest, PopNothing, Pop, Notify, handlerVars
  <2>2. \A h \in Handlers : Live(h)' = Live(h) /\ (hpc'[h] = "push" => hpc[h] = "push")
    BY <1>o, <1>9 DEF Open, LoopTest, PopNothing, Pop, Notify, Notified, TypeOK, handlerVars, Live
  <2>. QED BY <1>s, <2>1, <2>2, SameAnswers
<1>. QED
  BY <1>1, <1>2, <1>3, <1>4, <1>5, <1>6, <1>7, <1>8, <1>9
     DEF Next, HandlerStep, CommandStep, StopStep

(* The output a client is given is that of its own command, run to its end.  *)
THEOREM OwnAnswerHolds == Safety => []OwnAnswer
<1>1. AnswerInv => OwnAnswer
  BY DEF AnswerInv
<1>. QED BY <1>1, OwnInit, OwnStep, AnswerInit, AnswerStep, PTL DEF Safety

-----------------------------------------------------------------------------
(* Wakeups.  Whoever may block still has somebody to complete its command;   *)
(* what a stopper has and whom it notifies depends on where it is.           *)

(* Popping the head leaves the other pointers.                               *)
LEMMA HeadTailRange ==
  ASSUME NEW S, NEW s \in Seq(S), s # <<>>
  PROVE  Range(s) \subseteq {Head(s)} \cup Range(Tail(s))
<1>1. Head(s) = s[1] /\ Tail(s) \in Seq(S) /\ Len(Tail(s)) = Len(s) - 1 /\ Len(s) \in Nat
  OBVIOUS
<1>2. ASSUME NEW i \in DOMAIN s, i # 1 PROVE i - 1 \in DOMAIN Tail(s) /\ Tail(s)[i - 1] = s[i]
  BY <1>1, <1>2
<1>3. ASSUME NEW x \in Range(s), x # Head(s) PROVE x \in Range(Tail(s))
  <2>1. PICK i \in DOMAIN s : x = s[i]
    BY DEF Range
  <2>2. i - 1 \in DOMAIN Tail(s) /\ Tail(s)[i - 1] = x
    BY <1>1, <1>2, <1>3, <2>1
  <2>. QED BY <2>2 DEF Range
<1>. QED BY <1>3

(* Somebody will complete the command of h, or has and will notify h; of a   *)
(* server that runs the command thread may still have to be created.         *)
Attended(h) ==
  \/ /\ h \in Queued
     /\ running \/ (\E t \in Stoppers : spc[t] = "swap")
  \/ h \in InHand
  \/ \E t \in Stoppers : h \in SweptBy(t)
  \/ /\ slot[h].completed
     /\ (cpc = "notify" /\ cmd = h) \/ (\E t \in Stoppers : note[t] = h)

Waiting(h) == hpc[h] \in {"wait", "blocked"} /\ ~slot[h].completed => Owned(h)

(* A stopper has nothing before its swap, and notifies right after a sweep.  *)
StopperInv ==
  \A t \in Stoppers : /\ spc[t] \in {"out", "swap"} => swept[t] = <<>>
                      /\ note[t] # "nobody" => spc[t] = "note"

WakeInv ==
  /\ TypeOK
  /\ StopperInv
  /\ \A h \in Handlers : Waiting(h) /\ (hpc[h] = "blocked" => Attended(h))

(* At first nobody waits.                                                    *)
LEMMA WakeInit == Init => WakeInv
<1>. SUFFICES ASSUME Init PROVE WakeInv
  OBVIOUS
<1>1. TypeOK
  BY TypeInit
<1>. QED BY <1>1 DEF Init, WakeInv, StopperInv, Waiting

(* No step loses a wakeup.                                                   *)
LEMMA WakeStep == WakeInv /\ [Next]_vars => WakeInv'
<1>. SUFFICES ASSUME WakeInv, [Next]_vars PROVE WakeInv'
  OBVIOUS
<1>t. TypeOK /\ CmdHeld /\ TypeOK'
  BY TypeStep DEF WakeInv, TypeOK
<1>w. /\ StopperInv
      /\ \A h \in Handlers : Waiting(h) /\ (hpc[h] = "blocked" => Attended(h))
  BY DEF WakeInv
<1>. DEFINE Kept == /\ StopperInv'
                    /\ \A h \in Handlers : (Waiting(h) /\ (hpc[h] = "blocked" => Attended(h)))'
<1>. SUFFICES Kept
  BY <1>t DEF WakeInv
<1>1. CASE Open
  <2>1. /\ UNCHANGED <<hpc, spc, swept, note>> /\ cpc' = "test"
        /\ \A h \in Handlers : hpc[h] = "idle"
    BY <1>1 DEF Open, Quiet, Live, handlerVars, stopVars
  <2>. QED BY <1>w, <2>1 DEF StopperInv, Waiting
<1>2. ASSUME NEW h \in Handlers,
             (\E r \in Requests : Enter(h, r)) \/ Push(h) \/ Check(h) \/ SpuriousWakeup(h) \/ Leave(h)
      PROVE  Kept
  <2>1. UNCHANGED <<swept, running, cpc, cmd, spc, note>>
    BY <1>2 DEF Enter, Push, Check, SpuriousWakeup, Leave, commandVars, stopVars
  <2>2. /\ \A g \in Handlers \ {h} : slot'[g] = slot[g] /\ hpc'[g] = hpc[g]
    <3>1. CASE UNCHANGED slot
      BY <1>t, <1>2, <3>1 DEF Enter, Push, Check, SpuriousWakeup, Leave, TypeOK
    <3>2. ASSUME NEW r \in Requests, Enter(h, r)
          PROVE  \A g \in Handlers \ {h} : slot'[g] = slot[g] /\ hpc'[g] = hpc[g]
      BY <1>t, <3>2 DEF Enter, TypeOK
    <3>. QED BY <1>2, <3>1, <3>2 DEF Push, Check, SpuriousWakeup, Leave
  <2>3. Queued \subseteq Queued' /\ (Push(h) => h \in Queued')
    <3>1. CASE Push(h)
      BY <1>t, <3>1, AppendRange DEF Push, TypeOK, Queued
    <3>2. CASE ~Push(h)
      BY <1>2, <3>2 DEF Enter, Check, SpuriousWakeup, Leave, Queued
    <3>. QED BY <3>1, <3>2
  <2>4. InHand' = InHand /\ \A t \in Stoppers : SweptBy(t)' = SweptBy(t)
    BY <2>1 DEF InHand, SweptBy
  <2>5. \A g \in Handlers : Owned(g) => Owned(g)'
    BY <2>3, <2>4 DEF Owned
  <2>6. \A g \in Handlers \ {h} : Attended(g) => Attended(g)'
    BY <2>1, <2>2, <2>3, <2>4 DEF Attended
  <2>7. StopperInv'
    BY <1>w, <2>1 DEF StopperInv
  <2>8. Waiting(h)'
    <3>1. CASE Push(h)
      BY <2>3, <3>1 DEF Waiting, Owned
    <3>2. CASE Check(h) \/ SpuriousWakeup(h)
      BY <1>w, <2>5, <3>2 DEF Check, SpuriousWakeup, Waiting
    <3>3. CASE Leave(h) \/ \E r \in Requests : Enter(h, r)
      BY <1>t, <3>3 DEF Enter, Leave, TypeOK, Waiting
    <3>. QED BY <1>2, <3>1, <3>2, <3>3
  <2>9. ASSUME hpc'[h] = "blocked" PROVE Attended(h)'
    <3>1. Check(h) /\ running /\ ~slot[h].completed
      BY <1>t, <1>2, <2>9 DEF Enter, Push, Check, SpuriousWakeup, Leave, TypeOK
    <3>2. Owned(h)'
      BY <1>w, <2>5, <3>1 DEF Check, Waiting
    <3>. QED BY <1>w, <2>1, <3>1, <3>2 DEF Owned, Attended
  <2>. QED BY <1>w, <2>1, <2>2, <2>5, <2>6, <2>7, <2>8, <2>9 DEF Waiting
<1>3. CASE Begin \/ PopNothing \/ LoopTest
  <2>1. UNCHANGED <<queue, swept, slot, hpc, running, cmd, spc, note>>
    BY <1>3 DEF Begin, PopNothing, LoopTest, handlerVars, stopVars
  <2>2. /\ cpc \in {"run", "exec", "complete"} <=> cpc' \in {"run", "exec", "complete"}
        /\ cpc # "notify"
    BY <1>w, <1>3 DEF Begin, PopNothing, LoopTest
  <2>3. InHand' = InHand /\ Queued' = Queued /\ \A t \in Stoppers : SweptBy(t)' = SweptBy(t)
    BY <2>1, <2>2 DEF InHand, Queued, SweptBy
  <2>. QED BY <1>w, <2>1, <2>2, <2>3 DEF StopperInv, Waiting, Owned, Attended
<1>4. CASE Pop
  <2>1. UNCHANGED <<swept, slot, hpc, running, spc, note>> /\ cpc = "pop" /\ cpc' = "run"
    BY <1>4 DEF Pop, handlerVars, stopVars
  <2>2. Queued \subseteq InHand' \cup Queued' /\ InHand = {}
    BY <1>t, <1>4, HeadTailRange DEF Pop, TypeOK, Queued, InHand
  <2>3. \A t \in Stoppers : SweptBy(t)' = SweptBy(t)
    BY <2>1 DEF SweptBy
  <2>. QED BY <1>w, <2>1, <2>2, <2>3 DEF StopperInv, Waiting, Owned, Attended
<1>5. CASE Finish
  <2>1. /\ UNCHANGED <<queue, swept, hpc, running, spc, note, cmd>>
        /\ cpc = "exec" /\ cpc' = "complete"
    BY <1>5 DEF Finish, stopVars
  <2>2. \A h \in Handlers : slot'[h].completed = slot[h].completed
    BY <1>t, <1>5 DEF Finish, TypeOK, Commands
  <2>3. InHand' = InHand /\ Queued' = Queued /\ \A t \in Stoppers : SweptBy(t)' = SweptBy(t)
    BY <2>1 DEF InHand, Queued, SweptBy
  <2>. QED BY <1>w, <2>1, <2>2, <2>3 DEF StopperInv, Waiting, Owned, Attended
<1>6. CASE Complete
  <2>1. /\ UNCHANGED <<queue, swept, hpc, running, spc, note, cmd>>
        /\ cpc = "complete" /\ cpc' = "notify"
    BY <1>6 DEF Complete, stopVars
  <2>2. /\ \A h \in Handlers \ {cmd} : slot'[h] = slot[h]
        /\ cmd \in Handlers /\ slot'[cmd].completed
    BY <1>t, <1>6 DEF Complete, CmdHeld, TypeOK, Commands
  <2>3. InHand = {cmd} /\ Queued' = Queued /\ \A t \in Stoppers : SweptBy(t)' = SweptBy(t)
    BY <2>1 DEF InHand, Queued, SweptBy
  <2>4. ASSUME NEW h \in Handlers
        PROVE  (Waiting(h) /\ (hpc[h] = "blocked" => Attended(h)))'
    <3>1. CASE h = cmd
      BY <2>1, <2>2, <3>1 DEF Waiting, Attended
    <3>2. CASE h # cmd
      BY <1>w, <2>1, <2>2, <2>3, <3>2 DEF Waiting, Owned, Attended
    <3>. QED BY <3>1, <3>2
  <2>. QED BY <1>w, <2>1, <2>4 DEF StopperInv
<1>7. CASE Notify
  <2>1. /\ UNCHANGED <<queue, swept, slot, running, spc, note>>
        /\ cpc = "notify" /\ cpc' = "test"
    BY <1>7 DEF Notify, stopVars
  <2>2. \A h \in Handlers : \/ hpc'[h] = hpc[h] /\ (h = cmd => hpc[h] # "blocked")
                            \/ hpc[h] = "blocked" /\ hpc'[h] = "wait"
    BY <1>t, <1>7 DEF Notify, Notified, TypeOK
  <2>3. InHand = {} /\ InHand' = {} /\ Queued' = Queued /\ \A t \in Stoppers : SweptBy(t)' = SweptBy(t)
    BY <2>1 DEF InHand, Queued, SweptBy
  <2>. QED BY <1>w, <2>1, <2>2, <2>3 DEF StopperInv, Waiting, Owned, Attended
<1>8. ASSUME NEW t \in Stoppers, BeginStop(t) PROVE Kept
  <2>1. /\ UNCHANGED <<queue, swept, slot, hpc, cpc, cmd, note>> /\ ~running'
        /\ spc[t] = "out" /\ spc'[t] = "swap" /\ \A u \in Stoppers \ {t} : spc'[u] = spc[u]
    BY <1>t, <1>8 DEF BeginStop, handlerVars, commandVars, TypeOK
  <2>2. InHand' = InHand /\ Queued' = Queued /\ \A u \in Stoppers : SweptBy(u)' = SweptBy(u)
    BY <2>1 DEF InHand, Queued, SweptBy
  <2>. QED BY <1>w, <2>1, <2>2 DEF StopperInv, Waiting, Owned, Attended
<1>9. ASSUME NEW t \in Stoppers, Swap(t) PROVE Kept
  <2>1. /\ UNCHANGED <<running, slot, hpc, cpc, cmd, note>>
        /\ spc[t] = "swap" /\ spc'[t] = "sweep" /\ \A u \in Stoppers \ {t} : spc'[u] = spc[u]
        /\ swept'[t] = queue /\ \A u \in Stoppers \ {t} : swept'[u] = swept[u]
    BY <1>t, <1>9 DEF Swap, handlerVars, commandVars, TypeOK
  <2>2. /\ InHand' = InHand /\ Queued = SweptBy(t)' /\ SweptBy(t) = {}
        /\ \A u \in Stoppers \ {t} : SweptBy(u)' = SweptBy(u)
    BY <1>w, <2>1, EmptyRange DEF StopperInv, InHand, Queued, SweptBy
  <2>3. StopperInv'
    BY <1>w, <2>1 DEF StopperInv
  <2>4. \A h \in Handlers : (Owned(h) => Owned(h)') /\ (Attended(h) => Attended(h)')
    BY <2>1, <2>2 DEF Owned, Attended
  <2>. QED BY <1>w, <2>1, <2>3, <2>4 DEF Waiting
<1>10. ASSUME NEW t \in Stoppers, SweepOne(t) PROVE Kept
  <2>0. PICK c \in Handlers : c = Head(swept[t])
    BY <1>t, <1>10, TailRange DEF SweepOne, TypeOK
  <2>1. /\ UNCHANGED <<queue, running, hpc, cpc, cmd>>
        /\ spc[t] = "sweep" /\ spc'[t] = "note" /\ \A u \in Stoppers \ {t} : spc'[u] = spc[u]
        /\ swept'[t] = Tail(swept[t]) /\ \A u \in Stoppers \ {t} : swept'[u] = swept[u]
        /\ note'[t] = c /\ \A u \in Stoppers \ {t} : note'[u] = note[u]
    BY <1>t, <1>10, <2>0 DEF SweepOne, commandVars, TypeOK
  <2>s. slot' = IF slot[c].completed THEN slot
                ELSE [slot EXCEPT ![c].result = "stopped", ![c].completed = TRUE]
    BY <1>10, <2>0 DEF SweepOne
  <2>2. slot'[c].completed /\ \A h \in Handlers \ {c} : slot'[h] = slot[h]
    BY <1>t, <2>s DEF TypeOK, Commands
  <2>3. /\ InHand' = InHand /\ Queued' = Queued
        /\ SweptBy(t) \subseteq {c} \cup SweptBy(t)'
        /\ \A u \in Stoppers \ {t} : SweptBy(u)' = SweptBy(u)
    BY <1>t, <1>10, <2>0, <2>1, HeadTailRange DEF SweepOne, TypeOK, InHand, Queued, SweptBy
  <2>4. StopperInv'
    BY <1>w, <2>1 DEF StopperInv
  <2>5. ASSUME NEW h \in Handlers
        PROVE  (Waiting(h) /\ (hpc[h] = "blocked" => Attended(h)))'
    <3>1. CASE h = c
      BY <2>1, <2>2, <3>1 DEF Waiting, Attended
    <3>2. CASE h # c
      <4>1. note[t] # h
        BY <1>t, <1>w, <2>1, HandlerNames DEF StopperInv
      <4>2. (Owned(h) => Owned(h)') /\ (Attended(h) => Attended(h)')
        BY <2>1, <2>2, <2>3, <3>2, <4>1 DEF Owned, Attended
      <4>. QED BY <1>w, <2>1, <2>2, <3>2, <4>2 DEF Waiting
    <3>. QED BY <3>1, <3>2
  <2>. QED BY <1>w, <2>1, <2>4, <2>5
<1>11. ASSUME NEW t \in Stoppers, NotifySwept(t) PROVE Kept
  <2>1. /\ UNCHANGED <<queue, swept, slot, running, cpc, cmd>>
        /\ spc[t] = "note" /\ spc'[t] = "sweep" /\ \A u \in Stoppers \ {t} : spc'[u] = spc[u]
        /\ note'[t] = "nobody" /\ \A u \in Stoppers \ {t} : note'[u] = note[u]
    BY <1>t, <1>11 DEF NotifySwept, commandVars, TypeOK
  <2>2. \A h \in Handlers : \/ hpc'[h] = hpc[h] /\ (h = note[t] => hpc[h] # "blocked")
                            \/ hpc[h] = "blocked" /\ hpc'[h] = "wait"
    BY <1>t, <1>11 DEF NotifySwept, Notified, TypeOK
  <2>3. InHand' = InHand /\ Queued' = Queued /\ \A u \in Stoppers : SweptBy(u)' = SweptBy(u)
    BY <2>1 DEF InHand, Queued, SweptBy
  <2>4. StopperInv'
    BY <1>w, <2>1 DEF StopperInv
  <2>5. \A h \in Handlers : /\ Owned(h) => Owned(h)'
                            /\ Attended(h) /\ hpc'[h] = "blocked" => Attended(h)'
    BY <2>1, <2>2, <2>3 DEF Owned, Attended
  <2>. QED BY <1>w, <2>1, <2>2, <2>4, <2>5 DEF Waiting
<1>12. ASSUME NEW t \in Stoppers, EndSweep(t) PROVE Kept
  <2>1. /\ UNCHANGED <<queue, swept, slot, hpc, running, cpc, cmd, note>> /\ swept[t] = <<>>
        /\ spc[t] = "sweep" /\ spc'[t] = "out" /\ \A u \in Stoppers \ {t} : spc'[u] = spc[u]
    BY <1>t, <1>12 DEF EndSweep, handlerVars, commandVars, TypeOK
  <2>2. InHand' = InHand /\ Queued' = Queued /\ \A u \in Stoppers : SweptBy(u)' = SweptBy(u)
    BY <2>1 DEF InHand, Queued, SweptBy
  <2>. QED BY <1>w, <2>1, <2>2 DEF StopperInv, Waiting, Owned, Attended
<1>13. CASE UNCHANGED vars \/ \E r \in Requests : Refuse(r)
  <2>1. UNCHANGED <<queue, swept, slot, hpc, running, cpc, cmd, spc, note>>
    <3>1. CASE UNCHANGED vars
      BY <3>1 DEF handlerVars, commandVars, stopVars, vars
    <3>2. ASSUME NEW r \in Requests, Refuse(r)
          PROVE  UNCHANGED <<queue, swept, slot, hpc, running, cpc, cmd, spc, note>>
      BY <3>2, Zenon DEF Refuse, commandVars, stopVars
    <3>. QED BY <1>13, <3>1, <3>2
  <2>2. InHand' = InHand /\ Queued' = Queued /\ \A t \in Stoppers : SweptBy(t)' = SweptBy(t)
    BY <2>1 DEF InHand, Queued, SweptBy
  <2>. QED BY <1>w, <2>1, <2>2 DEF StopperInv, Waiting, Owned, Attended
<1>. QED
  BY <1>1, <1>2, <1>3, <1>4, <1>5, <1>6, <1>7, <1>8, <1>9, <1>10, <1>11, <1>12, <1>13
     DEF Next, HandlerStep, CommandStep, StopStep

(* The command thread does not end while the server runs, nor is the server   *)
(* started without one.                                                      *)
LEMMA ServedKept ==
  ASSUME [Next]_vars, running', cpc' = "off"
  PROVE  running /\ cpc = "off"
<1>1. CASE UNCHANGED <<running, cpc>>
  BY <1>1
<1>2. ASSUME NEW r \in Requests, Refuse(r) PROVE UNCHANGED <<running, cpc>>
  BY <1>2, Zenon DEF Refuse, commandVars
<1>. QED BY <1>1, <1>2 DEF Next, Open, Enter, HandlerStep, Push, Check, Leave, SpuriousWakeup,
         CommandStep, LoopTest, PopNothing, Pop, Begin, Finish, Complete, Notify,
         BeginStop, StopStep, Swap, SweepOne, NotifySwept, EndSweep, vars, commandVars

(* A blocked handler's command is with somebody who will complete it, or its *)
(* notification is still to come, for any number of handlers and stops.      *)
THEOREM NoLostWakeupHolds == Safety => []NoLostWakeup
<1>. DEFINE Served == running => cpc # "off"
<1>1. WakeInv /\ Served => NoLostWakeup
  BY DEF WakeInv, NoLostWakeup, Attended
<1>2. Init => Served
  BY DEF Init
<1>3. ASSUME Served, [Next]_vars PROVE Served'
  BY <1>3, ServedKept
<1>. QED BY <1>1, <1>2, <1>3, WakeInit, WakeStep, PTL DEF Safety

-----------------------------------------------------------------------------
(* CommandQueue implements ExecService: Begin is Start, Finish is Finish,    *)
(* Refuse and Leave are Answer, and every other step is a stutter.           *)

(* At first no request has been executed or answered.                        *)
LEMMA ServiceInit == Init => Service!Init
<1>1. ASSUME Init PROVE Exec = [r \in Requests |-> "none"]
  BY <1>1, RequestNames DEF Init, Exec
<1>. QED BY <1>1 DEF Init, Service!Init, Service!NoAnswer, Service!Reply, NoAnswer, Reply

(* Every step is a step of the service or leaves what the client sees alone. *)
LEMMA ServiceStep ==
  OwnInv /\ AnswerInv /\ [Next]_vars => [Service!Next]_(Service!vars)
<1>. SUFFICES ASSUME OwnInv, AnswerInv, [Next]_vars
              PROVE  Service!Next \/ UNCHANGED <<Exec, answer>>
  BY DEF Service!vars
<1>o. TypeOK /\ CmdHeld /\ ExclusiveOwnership /\ FrameInv
  BY DEF OwnInv, TypeOK
<1>a. RequestInv /\ Distinct /\ JobInv /\ FreshInv /\ OwnAnswer
  BY DEF AnswerInv
<1>e. \A r \in Requests :
        /\ Exec[r] = IF job = r THEN "running" ELSE IF r \in ran THEN "done" ELSE "none"
        /\ r # "nothing" /\ r # "garbage"
  BY RequestNames DEF Exec
<1>p. /\ \A r \in Requests : Reply(TRUE, r) \in Service!Replies
      /\ NoAnswer \in Service!Replies /\ Reply(FALSE, "stopped") \in Service!Replies
      /\ Reply(TRUE, "stopped") \in Service!Replies /\ Reply(FALSE, "not running") \in Service!Replies
  BY ZenonT(30) DEF Service!Replies, Reply, NoAnswer
<1>r. answer \in [Requests -> Service!Replies]
  <2>1. \A r \in Requests : answer[r] \in Service!Replies
    BY <1>a, <1>p, Zenon DEF OwnAnswer
  <2>. QED BY <1>o, <2>1 DEF TypeOK
<1>w. ASSUME NEW r \in Requests, NEW a \in Service!Allowed(r), UNCHANGED Exec,
             answer[r] = NoAnswer, answer' = [answer EXCEPT ![r] = a]
      PROVE  Service!Answer
  <2>1. a \in Service!Replies
    BY <1>p, Zenon DEF Service!Allowed, Service!Reply, Reply
  <2>2. Service!Allowed(r)' = Service!Allowed(r)
    BY <1>w DEF Service!Allowed
  <2>. QED BY <1>r, <1>w, <2>1, <2>2 DEF Service!Answer, Service!Answering, Service!NoAnswer,
              Service!Reply, NoAnswer, Reply
<1>1. ASSUME NEW r \in Requests, Refuse(r) PROVE Service!Answer
  <2>1. /\ UNCHANGED Exec
        /\ answer[r] = NoAnswer
        /\ answer' = [answer EXCEPT ![r] = Reply(FALSE, "not running")]
    BY <1>1 DEF Refuse, commandVars, Exec, Fresh
  <2>2. Exec[r] = "none"
    BY <1>a, <1>e, <1>1 DEF Refuse, FreshInv
  <2>3. Reply(FALSE, "not running") \in Service!Allowed(r)
    BY <2>2, Zenon DEF Service!Allowed, Service!Reply, Reply
  <2>. QED BY <1>w, <2>1, <2>3
<1>2. ASSUME NEW h \in Handlers, Leave(h) PROVE Service!Answer
  <2>1. Live(h) /\ UNCHANGED Exec
    BY <1>2 DEF Leave, commandVars, Exec, Live
  <2>2. PICK r \in Requests : r = slot[h].req /\ answer[r] = NoAnswer
    BY <1>a, <2>1 DEF RequestInv, Unanswered, Held
  <2>3. PICK a : /\ answer' = [answer EXCEPT ![r] = a]
                 /\ a = IF slot[h].completed THEN Reply(TRUE, slot[h].result)
                                            ELSE Reply(FALSE, "stopped")
    BY <1>2, <2>2 DEF Leave
  <2>4. a \in Service!Allowed(r)
    <3>1. CASE ~slot[h].completed
      BY <2>3, <3>1 DEF Service!Allowed, Service!Reply, Reply
    <3>2. CASE slot[h].completed /\ slot[h].result = "stopped" /\ NotRun(h)
      <4>1. Exec[r] = "none"
        BY <1>e, <2>2, <3>2 DEF NotRun
      <4>. QED BY <2>3, <3>2, <4>1 DEF Service!Allowed, Service!Reply, Reply
    <3>3. CASE slot[h].completed /\ slot[h].result = r /\ r \in ran
      <4>1. Exec[r] = "done"
        BY <1>a, <1>e, <3>3 DEF JobInv
      <4>. QED BY <2>3, <3>3, <4>1 DEF Service!Allowed, Service!Reply, Reply
    <3>. QED BY <1>a, <2>1, <2>2, <3>1, <3>2, <3>3 DEF RequestInv, Outcome
  <2>. QED BY <1>w, <2>1, <2>2, <2>3, <2>4
<1>3. ASSUME Begin PROVE Service!Next \/ UNCHANGED <<Exec, answer>>
  <2>1. /\ UNCHANGED <<answer, ran>> /\ cpc = "run" /\ job = "nothing"
        /\ job' = slot[cmd].req \/ job' = "garbage"
        /\ cmd \in Handlers /\ Owned(cmd)
    BY <1>o, <1>a, <1>3 DEF Begin, handlerVars, JobInv, CmdHeld, Owned, InHand
  <2>2. CASE job' = "garbage"
    <3>1. Exec' = Exec
      BY <1>e, <2>1, <2>2 DEF Exec
    <3>. QED BY <2>1, <3>1
  <2>3. CASE job' = slot[cmd].req
    <3>1. PICK r \in Requests : r = slot[cmd].req /\ answer[r] \in {NoAnswer, Reply(FALSE, "stopped")}
      BY <1>a, <2>1 DEF RequestInv, Unanswered, Held
    <3>2. r \notin ran
      BY <1>a, <2>1, <3>1 DEF RequestInv, Unexecuted, NotRun
    <3>3. Exec[r] = "none" /\ \A q \in Requests : Exec[q] # "running"
      BY <1>e, <2>1, <3>2
    <3>4. Exec' = [Exec EXCEPT ![r] = "running"]
      BY <1>e, <2>1, <2>3, <3>1 DEF Exec
    <3>5. Service!Start(r)
      BY <2>1, <3>1, <3>3, <3>4 DEF Service!Start, Service!MayStart, Service!NoAnswer,
         Service!Reply, NoAnswer, Reply
    <3>. QED BY <3>5 DEF Service!Next
  <2>. QED BY <2>1, <2>2, <2>3
<1>4. ASSUME Finish PROVE Service!Next \/ UNCHANGED <<Exec, answer>>
  <2>1. /\ UNCHANGED answer /\ job' = "nothing" /\ ran' = ran \cup {job}
        /\ cpc = "exec" /\ job # "nothing"
    BY <1>a, <1>4 DEF Finish, JobInv
  <2>2. CASE job \in Requests
    <3>1. Exec[job] = "running" /\ Exec' = [Exec EXCEPT ![job] = "done"]
      BY <1>e, <2>1, <2>2 DEF Exec
    <3>. QED BY <1>r, <2>1, <2>2, <3>1 DEF Service!Finish, Service!Answering, Service!Next
  <2>3. CASE job \notin Requests
    <3>1. Exec' = Exec
      BY <1>e, <2>1, <2>3 DEF Exec
    <3>. QED BY <2>1, <3>1
  <2>. QED BY <2>2, <2>3
<1>5. CASE UNCHANGED <<answer, job, ran>>
  BY <1>5 DEF Exec
<1>6. ASSUME NEW h \in Handlers, NEW r \in Requests, Enter(h, r) PROVE UNCHANGED <<answer, job, ran>>
  BY <1>6 DEF Enter, commandVars
<1>7. ASSUME NEW h \in Handlers, Push(h) \/ Check(h) \/ SpuriousWakeup(h)
      PROVE  UNCHANGED <<answer, job, ran>>
  BY <1>7 DEF Push, Check, SpuriousWakeup, commandVars
<1>8. ASSUME Open \/ LoopTest \/ PopNothing \/ Pop \/ Complete \/ Notify
      PROVE  UNCHANGED <<answer, job, ran>>
  BY <1>8 DEF Open, LoopTest, PopNothing, Pop, Complete, Notify, handlerVars
<1>9. ASSUME NEW t \in Stoppers, BeginStop(t) \/ StopStep(t) PROVE UNCHANGED <<answer, job, ran>>
  BY <1>9 DEF BeginStop, StopStep, Swap, SweepOne, NotifySwept, EndSweep, handlerVars, commandVars
<1>10. ASSUME UNCHANGED vars PROVE UNCHANGED <<answer, job, ran>>
  BY <1>10 DEF vars, handlerVars, commandVars
<1>. QED
  BY <1>1, <1>2, <1>3, <1>4, <1>5, <1>6, <1>7, <1>8, <1>9, <1>10
     DEF Next, HandlerStep, CommandStep, Service!Next

(* The queue keeps the promise of ExecService: commands run one at a time,   *)
(* each at most once, and a command that was refused or swept never runs.    *)
THEOREM QueueImplementsService == Safety => ServiceSpec
<1>. QED BY OwnInit, OwnStep, AnswerInit, AnswerStep, ServiceInit, ServiceStep, PTL
         DEF Safety, ServiceSpec, Service!Spec
=============================================================================
