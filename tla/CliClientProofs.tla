---------------------------- MODULE CliClientProofs ----------------------------
(***************************************************************************)
(* The theorems about CliClient, for any number of calls and retries, of any *)
(* kind, and any size of the pool.                                          *)
(***************************************************************************)
EXTENDS CliClient, SequenceTheorems, FiniteSetTheorems, TLAPS

Responses == [success : BOOLEAN,
              payload : Calls \cup {"nothing", "ok", "stopped", "not running", "error",
                                    "no callback"}]

Types ==
  /\ cli \in [Calls -> {"idle", "waiting", "printed"} \cup Failures]
  /\ tasks \in Seq(Calls) /\ pending \subseteq Calls
  /\ pool \subseteq Calls /\ IsFiniteSet(pool) /\ Cardinality(pool) <= PoolSize
  /\ current \in Calls \cup {"nobody"}
  /\ begun \subseteq Execs /\ done = begun \ {current}
  /\ response \in [Calls -> Responses]
  /\ asleep \in BOOLEAN /\ running \in BOOLEAN

(* A thread of the pool waits for every command that is queued, and for no   *)
(* other than those and the one that is executed.                            *)
Waited ==
  /\ pending \subseteq pool /\ pool \subseteq pending \cup {current}
  /\ pending \subseteq Execs
  /\ current \in begun \cup {"nobody"}
  /\ ~running => pending = {}

(* A call that was sent is in one place, once.                               *)
OnePlace ==
  /\ IsInjective(tasks)
  /\ Range(tasks) \cap (pool \cup begun) = {}
  /\ pending \cap begun = {}
  /\ \A c \in Range(tasks) \cup pool \cup begun : cli[c] # "idle"

(* A call has no response while it waits; a response that reports success is *)
(* the call's own, or its command will not run; a request fails because the  *)
(* server was stopped or the output could not be written.                    *)
Wrong       == Reply(FALSE, "error")
Waiting(c)  == c \in Range(tasks) \cup pool \/ cli[c] = "idle" => response[c] = NoResponse
Success(c)  == Kind[c] = "exec" /\ response[c].success =>
                 \/ response[c] = Reply(TRUE, c) /\ c \in done
                 \/ response[c] = Reply(TRUE, "stopped") /\ c \notin begun
Printed(c)  == Kind[c] = "exec" /\ cli[c] = "printed" => response[c].success
Failure(c)  == /\ Kind[c] = "exec" /\ response[c] # NoResponse /\ ~response[c].success
                    => ~running \/ response[c] = Wrong
               /\ cli[c] = "request failed" => ~running \/ response[c] = Wrong
Answered == \A c \in Calls : Waiting(c) /\ Success(c) /\ Printed(c) /\ Failure(c)

(* A retry that the server has seen was sent after the client gave up the    *)
(* call that it tries again, or after that call got status 500.              *)
GivenUp(c) == c \in Range(tasks) \cup pool \cup begun =>
                \/ cli[RetryOf[c]] = "connection failed"
                \/ response[RetryOf[c]] = Wrong
Retried == \A c \in DOMAIN RetryOf : GivenUp(c)

CliInv == Types /\ Waited /\ OnePlace /\ Answered /\ Retried

-----------------------------------------------------------------------------
(* Sequences without duplicates                                              *)

(* The elements of a sequence, by their places.                              *)
LEMMA RangeOf ==
  ASSUME NEW S, NEW s \in Seq(S)
  PROVE  /\ Range(s) \subseteq S /\ Len(s) \in Nat
         /\ \A x : x \in Range(s) <=> \E i \in 1 .. Len(s) : s[i] = x
         /\ IsInjective(s) <=> \A i, j \in 1 .. Len(s) : s[i] = s[j] => i = j
<1>1. DOMAIN s = 1 .. Len(s) /\ Len(s) \in Nat
  BY LenProperties
<1>2. \A i \in 1 .. Len(s) : s[i] \in S
  BY ElementOfSeq
<1>. QED BY <1>1, <1>2 DEF Range, IsInjective

(* An element comes behind those there are.                                  *)
LEMMA AppendKeeps ==
  ASSUME NEW S, NEW s \in Seq(S), NEW e \in S
  PROVE  /\ Append(s, e) \in Seq(S)
         /\ Range(Append(s, e)) = Range(s) \cup {e}
         /\ IsInjective(s) /\ e \notin Range(s) => IsInjective(Append(s, e))
<1>. DEFINE t == Append(s, e)
<1>1. /\ t \in Seq(S) /\ Len(t) = Len(s) + 1 /\ Len(s) \in Nat
      /\ \A i \in 1 .. Len(s) : t[i] = s[i]
      /\ t[Len(s) + 1] = e
  BY AppendProperties, LenProperties
<1>. HIDE DEF t
<1>2. /\ \A x : x \in Range(s) <=> \E i \in 1 .. Len(s) : s[i] = x
      /\ \A x : x \in Range(t) <=> \E i \in 1 .. Len(t) : t[i] = x
      /\ IsInjective(s) <=> \A i, j \in 1 .. Len(s) : s[i] = s[j] => i = j
      /\ IsInjective(t) <=> \A i, j \in 1 .. Len(t) : t[i] = t[j] => i = j
  BY <1>1, RangeOf
<1>3. Range(t) = Range(s) \cup {e}
  <2>1. \A x : x \in Range(t) <=> x \in Range(s) \/ x = e
    BY <1>1, <1>2
  <2>. QED BY <2>1
<1>4. ASSUME IsInjective(s), e \notin Range(s) PROVE IsInjective(t)
  BY <1>1, <1>2, <1>4
<1>. QED BY <1>1, <1>3, <1>4 DEF t

(* The head goes.                                                            *)
LEMMA TailKeeps ==
  ASSUME NEW S, NEW s \in Seq(S), s # <<>>
  PROVE  /\ Head(s) \in S /\ Tail(s) \in Seq(S)
         /\ Range(s) = {Head(s)} \cup Range(Tail(s))
         /\ IsInjective(s) => IsInjective(Tail(s)) /\ Head(s) \notin Range(Tail(s))
<1>. DEFINE t == Tail(s)
<1>1. /\ t \in Seq(S) /\ Len(t) = Len(s) - 1 /\ Len(s) \in Nat \ {0} /\ Len(t) \in Nat
      /\ \A i \in 1 .. Len(t) : t[i] = s[i + 1]
      /\ Head(s) = s[1] /\ Head(s) \in S
  <2>1. Len(s) \in Nat \ {0} /\ Head(s) = s[1]
    BY EmptySeq
  <2>2. t \in Seq(S) /\ Len(t) = Len(s) - 1 /\ Head(s) \in S
        /\ \A i \in 1 .. Len(t) : t[i] = s[i + 1]
    BY HeadTailProperties
  <2>. QED BY <2>1, <2>2, LenProperties
<1>. HIDE DEF t
<1>2. /\ \A x : x \in Range(s) <=> \E i \in 1 .. Len(s) : s[i] = x
      /\ \A x : x \in Range(t) <=> \E i \in 1 .. Len(t) : t[i] = x
      /\ IsInjective(s) <=> \A i, j \in 1 .. Len(s) : s[i] = s[j] => i = j
      /\ IsInjective(t) <=> \A i, j \in 1 .. Len(t) : t[i] = t[j] => i = j
  BY <1>1, RangeOf
<1>3. Range(s) = {Head(s)} \cup Range(t)
  <2>1. ASSUME NEW x \in Range(s), x # Head(s) PROVE x \in Range(t)
    <3>1. PICK i \in 1 .. Len(s) : s[i] = x
      BY <1>2
    <3>2. i - 1 \in 1 .. Len(t) /\ t[i - 1] = x
      BY <1>1, <2>1, <3>1
    <3>. QED BY <1>2, <3>2
  <2>2. ASSUME NEW x \in Range(t) PROVE x \in Range(s)
    <3>1. PICK i \in 1 .. Len(t) : t[i] = x
      BY <1>2
    <3>2. i + 1 \in 1 .. Len(s) /\ s[i + 1] = x
      BY <1>1, <3>1
    <3>. QED BY <1>2, <3>2
  <2>3. Head(s) \in Range(s)
    BY <1>1, <1>2
  <2>. QED BY <2>1, <2>2, <2>3
<1>4. ASSUME IsInjective(s) PROVE IsInjective(t) /\ Head(s) \notin Range(t)
  <2>1. \A i, j \in 1 .. Len(s) : s[i] = s[j] => i = j
    BY <1>2, <1>4
  <2>2. \A i, j \in 1 .. Len(t) : t[i] = t[j] => i = j
    BY <1>1, <2>1
  <2>3. \A i \in 1 .. Len(t) : t[i] # Head(s)
    BY <1>1, <2>1
  <2>. QED BY <1>2, <2>2, <2>3
<1>. QED BY <1>1, <1>3, <1>4 DEF t

-----------------------------------------------------------------------------
(* The initial state                                                         *)
LEMMA CliStart == CliInit => CliInv
<1>. SUFFICES ASSUME CliInit PROVE CliInv
  OBVIOUS
<1>1. /\ \A c \in Calls : cli[c] = "idle" /\ response[c] = NoResponse
      /\ cli \in [Calls -> {"idle"}] /\ response \in [Calls -> Responses]
      /\ tasks = <<>> /\ pending = {} /\ pool = {} /\ begun = {} /\ done = {}
      /\ current = "nobody" /\ asleep = FALSE /\ running = TRUE
  BY DEF CliInit, NoResponse, Reply, Responses
<1>2. IsFiniteSet(pool) /\ Cardinality(pool) <= PoolSize
  BY <1>1, FS_EmptySet, SomePool
<1>3. <<>> \in Seq(Calls) /\ Range(<<>>) = {} /\ IsInjective(<<>>)
  <2>1. <<>> \in Seq(Calls) /\ Len(<<>>) = 0 /\ DOMAIN <<>> = {}
    BY EmptySeq
  <2>. QED BY <2>1 DEF Range, IsInjective
<1>4. Types
  BY <1>1, <1>2, <1>3 DEF Types
<1>5. Waited /\ OnePlace
  BY <1>1, <1>3 DEF Waited, OnePlace
<1>6. Answered
  <2>1. ~NoResponse.success
    BY DEF NoResponse, Reply
  <2>. QED BY <1>1, <2>1 DEF Answered, Waiting, Success, Printed, Failure
<1>7. Retried
  BY <1>1, <1>3 DEF Retried, GivenUp
<1>. QED BY <1>4, <1>5, <1>6, <1>7 DEF CliInv

(* The answer 500 is an answer, and reports no success.                      *)
LEMMA WrongIs == Wrong \in Responses /\ ~Wrong.success /\ Wrong # NoResponse
BY Zenon DEF Wrong, NoResponse, Reply, Responses

(* A call that was given up stays so, one that was answered keeps its        *)
(* answer, and a retry that the server has seen was seen before.             *)
LEMMA RetriedKeeps ==
  ASSUME CliInv,
         \A d \in Calls : cli[d] = "connection failed" => cli'[d] = "connection failed",
         \A d \in Calls : response[d] # NoResponse => response'[d] = response[d],
         Range(tasks') \cup pool' \cup begun' \subseteq Range(tasks) \cup pool \cup begun
  PROVE  Retried'
<1>. SUFFICES ASSUME NEW c \in DOMAIN RetryOf,
                     c \in Range(tasks') \cup pool' \cup begun'
              PROVE  \/ cli'[RetryOf[c]] = "connection failed"
                     \/ response'[RetryOf[c]] = Wrong
  BY DEF Retried, GivenUp, Wrong, Reply
<1>1. RetryOf[c] \in Calls
  BY Retries
<1>2. cli[RetryOf[c]] = "connection failed" \/ response[RetryOf[c]] = Wrong
  BY DEF CliInv, Retried, GivenUp
<1>. QED BY <1>1, <1>2, WrongIs

(* One call is answered, with what it may be told.                           *)
LEMMA RespondKeeps ==
  ASSUME CliInv, NEW c \in Calls, NEW r \in Responses,
         response[c] = NoResponse, cli[c] # "idle",
         response' = [response EXCEPT ![c] = r],
         \/ Kind[c] # "exec"
         \/ r = Reply(TRUE, c) /\ c \in done'
         \/ ~r.success /\ (~running \/ r = Wrong),
         c \notin Range(tasks') \cup pool',
         Range(tasks') \cup pool' \subseteq Range(tasks) \cup pool,
         done \subseteq done', UNCHANGED <<cli, begun, running>>
  PROVE  /\ response' \in [Calls -> Responses] /\ Answered' /\ Retried'
<1>1. /\ response' \in [Calls -> Responses]
      /\ response'[c] = r /\ \A d \in Calls \ {c} : response'[d] = response[d]
  BY DEF CliInv, Types
<1>2. ASSUME NEW d \in Calls, d # c PROVE Waiting(d)' /\ Success(d)' /\ Printed(d)' /\ Failure(d)'
  BY <1>1, <1>2 DEF CliInv, Answered, Waiting, Success, Printed, Failure, Wrong, Reply
<1>3. Waiting(c)'
  BY DEF Waiting
<1>4. ~NoResponse.success /\ Reply(TRUE, c).success
  BY DEF NoResponse, Reply
<1>5. /\ cli[c] = "request failed" => ~running
      /\ Kind[c] = "exec" => cli[c] # "printed"
  BY <1>4, WrongIs DEF CliInv, Answered, Failure, Printed
<1>6. Success(c)'
  BY <1>1 DEF Success
<1>7. Printed(c)'
  BY <1>1, <1>5 DEF Printed
<1>8. Failure(c)'
  <2>1. Kind[c] = "exec" => r.success \/ ~running \/ r = Wrong
    BY <1>4
  <2>2. Wrong' = Wrong
    BY DEF Wrong, Reply
  <2>. QED BY <1>1, <1>5, <2>1, <2>2 DEF Failure
<1>9. Answered'
  BY <1>2, <1>3, <1>6, <1>7, <1>8 DEF Answered
<1>10. Retried'
  <2>1. \A d \in Calls : response[d] # NoResponse => response'[d] = response[d]
    BY <1>1
  <2>2. /\ \A d \in Calls : cli[d] = "connection failed" => cli'[d] = "connection failed"
        /\ Range(tasks') \cup pool' \cup begun' \subseteq Range(tasks) \cup pool \cup begun
    OBVIOUS
  <2>. QED BY <2>1, <2>2, RetriedKeeps
<1>. QED BY <1>1, <1>9, <1>10

(* Threads of the pool that leave it free their places.                      *)
LEMMA PoolShrinks ==
  ASSUME CliInv, pool' \subseteq pool
  PROVE  IsFiniteSet(pool') /\ Cardinality(pool') <= PoolSize /\ pool' \subseteq Calls
<1>1. IsFiniteSet(pool) /\ Cardinality(pool) <= PoolSize /\ pool \subseteq Calls
  BY DEF CliInv, Types
<1>2. IsFiniteSet(pool') /\ Cardinality(pool') <= Cardinality(pool)
  BY <1>1, FS_Subset
<1>3. Cardinality(pool) \in Nat /\ Cardinality(pool') \in Nat /\ PoolSize \in Nat
  BY <1>1, <1>2, FS_CardinalityType, SomePool
<1>. QED BY <1>1, <1>2, <1>3

(* What a caller sees changes, of a call that waits or finds no server.      *)
LEMMA TellKeeps ==
  ASSUME CliInv, NEW c \in Calls, NEW what \in {"printed"} \cup Failures, Tell(c, what),
         cli[c] = "waiting" \/ (cli[c] = "idle" /\ ~running /\ what = "connection failed"),
         what = "printed" /\ Kind[c] = "exec" => response[c].success,
         what = "request failed" => ~running \/ response[c] = Wrong,
         UNCHANGED <<tasks, pool, pending, current, begun, done, response, asleep, running>>
  PROVE  CliInv'
<1>. USE DEF CliInv
<1>1. /\ cli' \in [Calls -> {"idle", "waiting", "printed"} \cup Failures]
      /\ cli'[c] = what /\ \A d \in Calls \ {c} : cli'[d] = cli[d]
  BY DEF Types, Tell
<1>2. what # "idle"
  BY DEF Failures
<1>3. Types' /\ Waited'
  BY <1>1 DEF Types, Waited
<1>4. OnePlace'
  <2>1. Range(tasks) \cup pool \cup begun \subseteq Calls
    BY RangeOf DEF Types, Execs
  <2>. QED BY <1>1, <1>2, <2>1 DEF OnePlace
<1>5. Answered'
  BY <1>1, <1>2 DEF Answered, Waiting, Success, Printed, Failure, Wrong, Reply
<1>6. Retried'
  <2>1. \A d \in Calls : cli[d] = "connection failed" => cli'[d] = "connection failed"
    BY <1>1
  <2>. QED BY <2>1, RetriedKeeps
<1>. QED BY <1>3, <1>4, <1>5, <1>6

(* A call is sent; a retry after what it tries again has failed.             *)
LEMMA SendKeeps == ASSUME CliInv, NEW c \in Calls, Send(c) PROVE CliInv'
<1>. USE DEF CliInv
<1>1. CASE ~running
  BY <1>1, TellKeeps DEF Send, Failures
<1>2. CASE running
  <2>1. /\ cli[c] = "idle" /\ (c \in DOMAIN RetryOf => cli[RetryOf[c]] \in Failures)
        /\ Tell(c, "waiting") /\ tasks' = Append(tasks, c)
        /\ UNCHANGED <<pool, pending, current, begun, done, response, asleep, running>>
    BY <1>2 DEF Send
  <2>2. /\ cli' \in [Calls -> {"idle", "waiting", "printed"} \cup Failures]
        /\ cli'[c] = "waiting" /\ \A d \in Calls \ {c} : cli'[d] = cli[d]
    BY <2>1 DEF Types, Tell
  <2>3. c \notin Range(tasks) /\ c \notin pool /\ c \notin begun /\ c \notin pending
    BY <2>1 DEF OnePlace, Waited
  <2>4. tasks' \in Seq(Calls) /\ Range(tasks') = Range(tasks) \cup {c} /\ IsInjective(tasks')
    BY <2>1, <2>3, AppendKeeps DEF Types, OnePlace
  <2>5. Types' /\ Waited'
    BY <2>1, <2>2, <2>4 DEF Types, Waited
  <2>6. OnePlace'
    <3>1. Range(tasks) \cup pool \cup begun \subseteq Calls
      BY RangeOf DEF Types, Execs
    <3>. QED BY <2>1, <2>2, <2>3, <2>4, <3>1 DEF OnePlace
  <2>7. Answered'
    BY <2>1, <2>2, <2>4 DEF Answered, Waiting, Success, Printed, Failure, Wrong, Reply
  <2>8. Retried'
    <3>1. ASSUME NEW d \in DOMAIN RetryOf PROVE GivenUp(d)'
      <4>1. RetryOf[d] \in Calls /\ d \in Calls /\ GivenUp(d) /\ Wrong' = Wrong
        BY Retries DEF Retried, Wrong, Reply
      <4>2. CASE d = c
        <5>1. \/ cli[RetryOf[d]] = "connection failed"
              \/ response[RetryOf[d]] = Wrong
          BY <1>2, <2>1, <4>1, <4>2 DEF Answered, Failure, Failures
        <5>2. cli[RetryOf[d]] # "idle"
          BY <2>1, <4>2 DEF Failures
        <5>. QED BY <2>1, <2>2, <4>1, <5>1, <5>2 DEF GivenUp
      <4>3. CASE d # c
        <5>1. cli[RetryOf[d]] = "connection failed" => cli'[RetryOf[d]] = "connection failed"
          BY <2>1, <2>2, <4>1
        <5>. QED BY <2>1, <2>4, <4>1, <4>3, <5>1 DEF GivenUp
      <4>. QED BY <4>2, <4>3
    <3>. QED BY <3>1 DEF Retried
  <2>. QED BY <2>5, <2>6, <2>7, <2>8
<1>. QED BY <1>1, <1>2

(* The response is delivered, or the client gives up.                        *)
LEMMA DeliverKeeps ==
  ASSUME CliInv, NEW c \in Calls, ReadTimeout(c) \/ Deliver(c)
  PROVE  CliInv'
<1>. USE DEF CliInv
<1>1. CASE ReadTimeout(c)
  BY <1>1, TellKeeps DEF ReadTimeout, Failures
<1>2. CASE Deliver(c)
  <2>. DEFINE what == IF Kind[c] = "exec" /\ ~response[c].success THEN "request failed" ELSE "printed"
  <2>1. /\ cli[c] = "waiting" /\ response[c] # NoResponse /\ Tell(c, what)
        /\ UNCHANGED <<tasks, pool, pending, current, begun, done, response, asleep, running>>
    BY <1>2 DEF Deliver
  <2>2. what \in {"printed"} \cup Failures
    BY DEF Failures
  <2>3. what = "printed" /\ Kind[c] = "exec" => response[c].success
    OBVIOUS
  <2>4. what = "request failed" => ~running \/ response[c] = Wrong
    BY <2>1 DEF Answered, Failure
  <2>. HIDE DEF what
  <2>. QED BY <2>1, <2>2, <2>3, <2>4, TellKeeps
<1>. QED BY <1>1, <1>2

(* The call that is accepted has been in one place, and has no response.     *)
LEMMA AcceptFacts ==
  ASSUME CliInv, tasks # <<>>, tasks' = Tail(tasks)
  PROVE  LET c == Head(tasks) IN
         /\ c \in Calls /\ tasks' \in Seq(Calls)
         /\ Range(tasks) = {c} \cup Range(tasks')
         /\ IsInjective(tasks') /\ c \notin Range(tasks')
         /\ c \notin pool /\ c \notin begun /\ c \notin pending
         /\ response[c] = NoResponse /\ cli[c] # "idle"
<1>. DEFINE c == Head(tasks)
<1>1. /\ c \in Calls /\ tasks' \in Seq(Calls)
      /\ Range(tasks) = {c} \cup Range(tasks')
      /\ IsInjective(tasks') /\ c \notin Range(tasks')
  BY TailKeeps DEF CliInv, Types, OnePlace
<1>. HIDE DEF c
<1>2. c \notin pool /\ c \notin begun /\ c \notin pending /\ cli[c] # "idle"
  BY <1>1 DEF CliInv, OnePlace, Waited
<1>3. response[c] = NoResponse
  BY <1>1 DEF CliInv, Answered, Waiting
<1>. QED BY <1>1, <1>2, <1>3 DEF c

(* A call that is answered at once: another than exec, or one that comes     *)
(* after the server was stopped or is no command.                            *)
LEMMA AnswerKeeps ==
  ASSUME CliInv, tasks # <<>>, tasks' = Tail(tasks), NEW r,
         \/ Kind[Head(tasks)] # "exec" /\ r \in Answers(Head(tasks))
         \/ Kind[Head(tasks)] = "exec" /\ ~running /\ r = Reply(FALSE, "not running")
         \/ Kind[Head(tasks)] = "exec" /\ r = Wrong,
         Respond(Head(tasks), r), asleep' \in BOOLEAN,
         UNCHANGED <<cli, pool, pending, current, begun, done, running>>
  PROVE  CliInv'
<1>. USE DEF CliInv
<1>. DEFINE c == Head(tasks)
<1>1. /\ c \in Calls /\ tasks' \in Seq(Calls)
      /\ Range(tasks) = {c} \cup Range(tasks')
      /\ IsInjective(tasks') /\ c \notin Range(tasks')
      /\ c \notin pool /\ c \notin begun /\ c \notin pending
      /\ response[c] = NoResponse /\ cli[c] # "idle"
  BY AcceptFacts
<1>2. /\ response' = [response EXCEPT ![c] = r]
      /\ r \in Responses
      /\ Kind[c] # "exec" \/ (~r.success /\ (~running \/ r = Wrong))
  <2>1. /\ Reply(TRUE, "ok") \in Responses /\ Reply(FALSE, "no callback") \in Responses
        /\ Reply(FALSE, "not running") \in Responses
        /\ ~Reply(FALSE, "not running").success
    BY Zenon DEF Reply, Responses
  <2>2. Answers(c) \subseteq Responses
    BY <2>1, Zenon DEF Answers
  <2>. HIDE DEF c
  <2>3. /\ \/ Kind[c] # "exec" /\ r \in Answers(c)
           \/ Kind[c] = "exec" /\ ~running /\ r = Reply(FALSE, "not running")
           \/ Kind[c] = "exec" /\ r = Wrong
        /\ response' = [response EXCEPT ![c] = r]
    BY Zenon DEF c, Respond
  <2>. QED BY <2>1, <2>2, <2>3, WrongIs, Zenon
<1>. HIDE DEF c
<1>3. response' \in [Calls -> Responses] /\ Answered' /\ Retried'
  BY <1>1, <1>2, RespondKeeps
<1>4. Types'
  BY <1>1, <1>3 DEF Types
<1>5. Waited' /\ OnePlace'
  BY <1>1 DEF Waited, OnePlace
<1>. QED BY <1>3, <1>4, <1>5

(* A command is queued.                                                      *)
LEMMA QueueKeeps ==
  ASSUME CliInv, tasks # <<>>, tasks' = Tail(tasks), Kind[Head(tasks)] = "exec", running,
         ~PoolFull, pool' = pool \cup {Head(tasks)}, pending' = pending \cup {Head(tasks)},
         UNCHANGED <<cli, current, begun, done, response, asleep, running>>
  PROVE  CliInv'
<1>. USE DEF CliInv
<1>. DEFINE c == Head(tasks)
<1>1. /\ c \in Calls /\ tasks' \in Seq(Calls)
      /\ Range(tasks) = {c} \cup Range(tasks')
      /\ IsInjective(tasks') /\ c \notin Range(tasks')
      /\ c \notin pool /\ c \notin begun /\ c \notin pending
      /\ response[c] = NoResponse /\ cli[c] # "idle"
  BY AcceptFacts
<1>2. IsFiniteSet(pool') /\ Cardinality(pool') <= PoolSize
  <2>1. IsFiniteSet(pool) /\ Cardinality(pool) <= PoolSize /\ Cardinality(pool) # PoolSize
    BY DEF Types, PoolFull
  <2>2. Cardinality(pool) \in Nat /\ PoolSize \in Nat
    BY <2>1, FS_CardinalityType, SomePool
  <2>3. /\ IsFiniteSet(pool \cup {c})
        /\ \/ Cardinality(pool \cup {c}) = Cardinality(pool)
           \/ Cardinality(pool \cup {c}) = Cardinality(pool) + 1
    BY <2>1, FS_AddElement
  <2>4. pool' = pool \cup {c}
    OBVIOUS
  <2>. QED BY <2>1, <2>2, <2>3, <2>4
<1>3. pool' = pool \cup {c} /\ pending' = pending \cup {c} /\ Kind[c] = "exec"
  OBVIOUS
<1>. HIDE DEF c
<1>4. Types'
  BY <1>1, <1>2, <1>3 DEF Types
<1>5. Waited'
  BY <1>1, <1>3 DEF Waited, Execs
<1>6. OnePlace'
  BY <1>1, <1>3 DEF OnePlace
<1>7. Answered'
  BY <1>1, <1>3 DEF Answered, Waiting, Success, Printed, Failure, Wrong, Reply
<1>8. Retried'
  BY <1>1, <1>3, RetriedKeeps
<1>. QED BY <1>4, <1>5, <1>6, <1>7, <1>8

(* A thread of the pool takes the next call.                                 *)
LEMMA AcceptKeeps == CliInv /\ (AcceptExec \/ AcceptOther) => CliInv'
<1>1. ASSUME CliInv, AcceptExec PROVE CliInv'
  <2>1. /\ tasks # <<>> /\ ~PoolFull /\ tasks' = Tail(tasks) /\ Kind[Head(tasks)] = "exec"
        /\ UNCHANGED <<cli, current, begun, done, running, asleep>>
    BY <1>1 DEF AcceptExec, Accept
  <2>2. \/ running /\ pool' = pool \cup {Head(tasks)} /\ pending' = pending \cup {Head(tasks)}
           /\ UNCHANGED response
        \/ ~running /\ Respond(Head(tasks), Reply(FALSE, "not running")) /\ UNCHANGED <<pool, pending>>
        \/ Respond(Head(tasks), Wrong) /\ UNCHANGED <<pool, pending>>
    BY <1>1, Zenon DEF AcceptExec, Wrong
  <2>3. asleep' \in BOOLEAN
    BY <1>1, <2>1 DEF CliInv, Types
  <2>4. CASE running /\ pool' = pool \cup {Head(tasks)} /\ pending' = pending \cup {Head(tasks)}
             /\ UNCHANGED response
    BY <1>1, <2>1, <2>4, QueueKeeps
  <2>5. CASE ~running /\ Respond(Head(tasks), Reply(FALSE, "not running")) /\ UNCHANGED <<pool, pending>>
    BY <1>1, <2>1, <2>3, <2>5, AnswerKeeps, Zenon
  <2>6. CASE Respond(Head(tasks), Wrong) /\ UNCHANGED <<pool, pending>>
    BY <1>1, <2>1, <2>3, <2>6, AnswerKeeps, Zenon
  <2>. QED BY <2>2, <2>4, <2>5, <2>6
<1>2. ASSUME CliInv, AcceptOther PROVE CliInv'
  <2>1. /\ tasks # <<>> /\ tasks' = Tail(tasks) /\ Kind[Head(tasks)] # "exec"
        /\ \E r \in Answers(Head(tasks)) : Respond(Head(tasks), r)
        /\ UNCHANGED <<cli, current, begun, done, running, pool, pending>>
    BY <1>2 DEF AcceptOther, Accept
  <2>2. asleep' \in BOOLEAN
    BY <1>2 DEF AcceptOther, CliInv, Types
  <2>. QED BY <1>2, <2>1, <2>2, AnswerKeeps
<1>. QED BY <1>1, <1>2

(* A call that is dropped found the server stopped.                          *)
LEMMA DropKeeps == CliInv /\ Drop => CliInv'
<1>. SUFFICES ASSUME CliInv, Drop PROVE CliInv'
  OBVIOUS
<1>. USE DEF CliInv
<1>. DEFINE c == Head(tasks)
<1>1. /\ tasks # <<>> /\ ~running /\ tasks' = Tail(tasks)
      /\ cli' = [cli EXCEPT ![c] = IF @ = "waiting" THEN "connection failed" ELSE @]
      /\ UNCHANGED <<pool, pending, current, begun, done, response, asleep, running>>
  BY DEF Drop
<1>2. /\ c \in Calls /\ tasks' \in Seq(Calls)
      /\ Range(tasks) = {c} \cup Range(tasks')
      /\ IsInjective(tasks') /\ c \notin Range(tasks') /\ cli[c] # "idle"
  BY <1>1, AcceptFacts
<1>. HIDE DEF c
<1>3. /\ cli' \in [Calls -> {"idle", "waiting", "printed"} \cup Failures]
      /\ \A d \in Calls : cli'[d] = cli[d] \/ (cli[d] = "waiting" /\ cli'[d] = "connection failed")
  BY <1>1, <1>2 DEF Types, Failures
<1>4. Types' /\ Waited'
  BY <1>1, <1>2, <1>3 DEF Types, Waited
<1>5. OnePlace'
  <2>1. Range(tasks) \cup pool \cup begun \subseteq Calls
    BY RangeOf DEF Types, Execs
  <2>. QED BY <1>1, <1>2, <1>3, <2>1 DEF OnePlace
<1>6. Answered'
  BY <1>1, <1>2, <1>3 DEF Answered, Waiting, Success, Printed, Failure, Wrong, Reply
<1>7. Retried'
  <2>1. \A d \in Calls : cli[d] = "connection failed" => cli'[d] = "connection failed"
    BY <1>3
  <2>. QED BY <1>1, <1>2, <2>1, RetriedKeeps
<1>. QED BY <1>4, <1>5, <1>6, <1>7

-----------------------------------------------------------------------------
(* The command thread takes a command.                                       *)
LEMMA ExecuteKeeps == CliInv /\ Execute => CliInv'
<1>. SUFFICES ASSUME CliInv, Execute PROVE CliInv'
  OBVIOUS
<1>. USE DEF CliInv
<1>1. PICK c \in pending : current' = c /\ pending' = pending \ {c} /\ begun' = begun \cup {c}
  BY DEF Execute
<1>2. current = "nobody" /\ running /\ UNCHANGED <<cli, tasks, pool, done, response, asleep, running>>
  BY DEF Execute
<1>3. /\ c \in Calls /\ c \in pool /\ c \notin begun /\ Kind[c] = "exec"
      /\ c # "nobody" /\ "nobody" \notin Calls
  BY CallNames DEF Types, Waited, OnePlace, Execs
<1>4. done = begun
  BY <1>2, <1>3 DEF Types, Execs
<1>5. Types'
  BY <1>1, <1>2, <1>3, <1>4 DEF Types, Execs
<1>6. Waited'
  BY <1>1, <1>2, <1>3 DEF Waited, Types
<1>7. OnePlace'
  BY <1>1, <1>2, <1>3 DEF OnePlace
<1>8. Answered'
  <2>1. ~response[c].success
    BY <1>3 DEF Answered, Waiting, NoResponse, Reply
  <2>. QED BY <1>1, <1>2, <2>1 DEF Answered, Waiting, Success, Printed, Failure, Wrong, Reply
<1>9. Retried'
  BY <1>1, <1>2, <1>3, RetriedKeeps
<1>. QED BY <1>5, <1>6, <1>7, <1>8, <1>9

(* The command that is executed comes to its end.                            *)
LEMMA FinishKeeps == CliInv /\ Finish => CliInv'
<1>. SUFFICES ASSUME CliInv, Finish PROVE CliInv'
  OBVIOUS
<1>. USE DEF CliInv
<1>1. /\ current # "nobody" /\ current' = "nobody"
      /\ done' = done \cup {current} /\ pool' = pool \ {current}
      /\ UNCHANGED <<cli, tasks, pending, begun, asleep, running>>
  BY DEF Finish
<1>2. /\ current \in Calls /\ current \in begun /\ Kind[current] = "exec"
      /\ current \notin Range(tasks) /\ current \notin pending /\ cli[current] # "idle"
      /\ done' = begun /\ "nobody" \notin Calls
  BY <1>1, CallNames DEF Types, Waited, OnePlace, Execs
<1>3. response' \in [Calls -> Responses] /\ Answered' /\ Retried'
  <2>1. CASE current \in pool
    <3>1. PICK r \in {Reply(TRUE, current), Wrong} : response' = [response EXCEPT ![current] = r]
      BY <2>1, Zenon DEF Finish, Respond, Wrong
    <3>2. Reply(TRUE, current) \in Responses /\ response[current] = NoResponse
      BY <1>2, <2>1 DEF Reply, Responses, Answered, Waiting
    <3>3. r \in Responses /\ (r = Reply(TRUE, current) \/ (~r.success /\ r = Wrong))
      BY <3>2, WrongIs
    <3>4. current \in done'
      BY <1>2
    <3>. QED BY <1>1, <1>2, <3>1, <3>2, <3>3, <3>4, RespondKeeps
  <2>2. CASE current \notin pool
    <3>1. UNCHANGED response
      BY <2>2 DEF Finish
    <3>2. Answered'
      BY <1>1, <1>2, <3>1 DEF Answered, Waiting, Success, Printed, Failure, Wrong, Reply
    <3>3. Retried'
      BY <1>1, <3>1, RetriedKeeps
    <3>. QED BY <3>1, <3>2, <3>3 DEF Types
  <2>. QED BY <2>1, <2>2
<1>4. Types'
  BY <1>1, <1>2, <1>3, PoolShrinks DEF Types, Execs
<1>5. Waited' /\ OnePlace'
  BY <1>1, <1>2 DEF Waited, OnePlace
<1>. QED BY <1>3, <1>4, <1>5

(* stop() answers the commands that are queued, and they will not run.       *)
LEMMA StopKeeps == CliInv /\ Stop => CliInv'
<1>. SUFFICES ASSUME CliInv, Stop PROVE CliInv'
  OBVIOUS
<1>. USE DEF CliInv
<1>0. PICK early \in SUBSET pending :
        response' = [c \in Calls |->
          IF c \in pending THEN Reply(c \notin early, "stopped") ELSE response[c]]
  BY DEF Stop
<1>1. /\ asleep' = FALSE /\ running' = FALSE
      /\ pool' = pool \ pending /\ pending' = {}
      /\ UNCHANGED <<cli, tasks, current, begun, done>>
  BY DEF Stop
<1>2. \A c \in pending : /\ response'[c] \in {Reply(TRUE, "stopped"), Reply(FALSE, "stopped")}
                         /\ c \in Calls /\ c \in pool /\ c \notin begun /\ c \notin Range(tasks)
                         /\ response[c] = NoResponse
                         /\ ~response[c].success /\ Kind[c] = "exec" /\ cli[c] # "idle"
  <2>1. ASSUME NEW c \in pending
        PROVE  /\ c \in Calls /\ c \in pool /\ c \notin begun /\ c \notin Range(tasks)
               /\ response[c] = NoResponse /\ Kind[c] = "exec" /\ cli[c] # "idle"
    BY DEF Types, Waited, OnePlace, Execs, Answered, Waiting
  <2>2. ~NoResponse.success
    BY DEF NoResponse, Reply
  <2>3. ASSUME NEW c \in pending
        PROVE  response'[c] \in {Reply(TRUE, "stopped"), Reply(FALSE, "stopped")}
    <3>1. CASE c \in early
      BY <1>0, <2>1, <3>1
    <3>2. CASE c \notin early
      BY <1>0, <2>1, <3>2
    <3>. QED BY <3>1, <3>2
  <2>. QED BY <2>1, <2>2, <2>3
<1>3. \A c \in Calls : c \notin pending => response'[c] = response[c]
  BY <1>0
<1>4. response' \in [Calls -> Responses]
  <2>1. Reply(TRUE, "stopped") \in Responses /\ Reply(FALSE, "stopped") \in Responses
    BY DEF Reply, Responses
  <2>2. \A c \in Calls : response'[c] \in Responses
    BY <1>2, <1>3, <2>1 DEF Types
  <2>. QED BY <1>0, <2>2
<1>5. Types'
  BY <1>1, <1>4, PoolShrinks DEF Types
<1>6. Waited' /\ OnePlace'
  BY <1>1 DEF Waited, OnePlace
<1>7. Answered'
  <2>1. Reply(TRUE, "stopped").success /\ ~Reply(FALSE, "stopped").success
    BY DEF Reply
  <2>2. ASSUME NEW c \in pending PROVE Waiting(c)' /\ Success(c)' /\ Printed(c)' /\ Failure(c)'
    <3>1. Printed(c)
      BY <1>2 DEF Answered
    <3>. QED BY <1>1, <1>2, <2>1, <3>1 DEF Waiting, Success, Printed, Failure
  <2>3. ASSUME NEW c \in Calls, c \notin pending
        PROVE  Waiting(c)' /\ Success(c)' /\ Printed(c)' /\ Failure(c)'
    BY <1>1, <1>3, <2>3 DEF Answered, Waiting, Success, Printed, Failure
  <2>. QED BY <2>2, <2>3 DEF Answered
<1>8. Retried'
  <2>1. \A c \in Calls : response[c] # NoResponse => response'[c] = response[c]
    BY <1>2, <1>3
  <2>. QED BY <1>1, <2>1, RetriedKeeps
<1>. QED BY <1>5, <1>6, <1>7, <1>8

(* The handler of the command that is executed leaves, after a stop.         *)
LEMMA LeaveKeeps == CliInv /\ HandlerLeaves => CliInv'
<1>. SUFFICES ASSUME CliInv, HandlerLeaves PROVE CliInv'
  OBVIOUS
<1>. USE DEF CliInv
<1>1. /\ ~running /\ current \in pool /\ pool' = pool \ {current}
      /\ response' = [response EXCEPT ![current] = Reply(FALSE, "stopped")]
      /\ UNCHANGED <<cli, tasks, pending, current, begun, done, asleep, running>>
  BY Zenon DEF HandlerLeaves, Respond
<1>2. /\ current \in Calls /\ pending = {}
      /\ current \notin Range(tasks) /\ cli[current] # "idle" /\ response[current] = NoResponse
  <2>1. current \in Calls /\ current \in begun
    BY <1>1, CallNames DEF Types, Waited
  <2>. QED BY <1>1, <2>1 DEF OnePlace, Waited, Answered, Waiting
<1>3. Reply(FALSE, "stopped") \in Responses /\ ~Reply(FALSE, "stopped").success
  BY DEF Reply, Responses
<1>4. response' \in [Calls -> Responses] /\ Answered' /\ Retried'
  BY <1>1, <1>2, <1>3, RespondKeeps
<1>5. Types'
  BY <1>1, <1>4, PoolShrinks DEF Types
<1>6. Waited' /\ OnePlace'
  BY <1>1, <1>2 DEF Waited, OnePlace
<1>. QED BY <1>4, <1>5, <1>6

-----------------------------------------------------------------------------
(* Every step keeps the invariant.                                           *)
LEMMA CliKeeps == CliInv /\ [CliNext]_cliVars => CliInv'
<1>1. ASSUME CliInv, UNCHANGED cliVars PROVE CliInv'
  BY <1>1
  DEF cliVars, CliInv, Types, Waited, OnePlace, Answered, Waiting, Success, Printed, Failure,
      Retried, GivenUp
<1>2. ASSUME CliInv, CliNext PROVE CliInv'
  BY <1>2, SendKeeps, DeliverKeeps, AcceptKeeps, DropKeeps, ExecuteKeeps, FinishKeeps, StopKeeps,
     LeaveKeeps
  DEF CliNext, ServerStep
<1>. QED BY <1>1, <1>2

(* The invariant holds in every reachable state.                             *)
LEMMA CliInvariant == CliSpec => []CliInv
BY CliStart, CliKeeps, PTL DEF CliSpec

(* The variables have their types, and the pool's threads wait for the       *)
(* commands that are queued or executed, for any calls and any pool.         *)
THEOREM CliTypeCorrect == CliSpec => []CliTypeOK
<1>1. CliInv => CliTypeOK
  BY DEF CliInv, Types, Waited, CliTypeOK
<1>. QED BY <1>1, CliInvariant, PTL

(* What "exec" prints with exit code 0 is the output of its own command, or  *)
(* says truly that the command will not run, for any calls and any pool.     *)
THEOREM PrintedTrueHolds == CliSpec => []PrintedTrue
<1>1. CliInv => PrintedTrue
  BY DEF CliInv, Answered, Success, Printed, PrintedTrue
<1>. QED BY <1>1, CliInvariant, PTL

(* A command is executed by two calls of a session only if the first was     *)
(* given up or got status 500, for any calls and chains of retries.          *)
THEOREM RetrySafeHolds == CliSpec => []RetrySafe
<1>1. CliInv => RetrySafe
  BY DEF CliInv, Retried, GivenUp, RetrySafe, Wrong
<1>. QED BY <1>1, CliInvariant, PTL
=============================================================================
