------------------------- MODULE DebuggerClientProofs -------------------------
(***************************************************************************)
(* The theorems about DebuggerClient and OutputCapture, for any number of   *)
(* texts that are output and however often the user resumes the target.     *)
(***************************************************************************)
EXTENDS DebuggerClient, SequenceTheorems, TLAPS

Places == {"execute", "poll", "collect", "uninstall"}
Kinds  == {"none", "output", "no output", "error"}
Text   == Seq(Nat)

Types ==
  /\ EngineTypeOK
  /\ calls \in Seq(Places)
  /\ captures \in Seq(Text) /\ said \in Seq(Text)
  /\ buffer \in Text /\ outermost \in Text /\ given \in Text /\ due \in Text
  /\ depth \in 0 .. 1 /\ texts \in 0 .. MaxTexts
  /\ original \in BOOLEAN /\ failed \in BOOLEAN /\ unsure \in BOOLEAN
  /\ reply \in [kind : Kinds, text : Text]

(* Every call has its capture.  A call executes another at its beginning     *)
(* only, and not on the client that has callbacks of its own.                *)
Nested ==
  /\ Len(captures) = Len(calls) /\ Len(said) = Len(calls)
  /\ Len(calls) <= 2
  /\ Len(calls) = 2 => calls[1] = "execute" /\ ~original

(* A capture that was not collected yet holds all that was said since it was *)
(* installed.  That holds also of the lower one of two only because nothing  *)
(* is left in the buffer between two outermost calls of Output.              *)
Captured ==
  /\ depth = 0 => buffer = <<>>
  /\ \A i \in 1 .. Len(calls) : calls[i] # "uninstall" => captures[i] = said[i]

(* The callbacks of the client are given the outermost texts as they come;    *)
(* texts are numbered as they are output.                                    *)
Passed ==
  /\ original => given = outermost
  /\ \A i \in 1 .. Len(outermost) : outermost[i] <= texts
  /\ \A i, j \in 1 .. Len(outermost) : i < j => outermost[i] < outermost[j]

ClientInv == Types /\ Nested /\ Captured /\ Passed /\ ReplyIsOutput /\ StableReturn

-----------------------------------------------------------------------------
(* GoOn moves the innermost call, and no other.                              *)
LEMMA GoOnFacts ==
  ASSUME Types, NEW p \in Places, calls # <<>>, GoOn(p)
  PROVE  /\ calls' \in Seq(Places) /\ Len(calls') = Len(calls) /\ calls' # <<>>
         /\ Len(calls) \in 1 .. Len(calls)
         /\ \A i \in 1 .. Len(calls) : calls'[i] = IF i = Len(calls) THEN p ELSE calls[i]
<1>1. Len(calls) \in Nat \ {0} /\ calls \in Seq(Places)
  BY EmptySeq, LenProperties DEF Types
<1>2. /\ [calls EXCEPT ![Len(calls)] = p] \in Seq(Places)
      /\ Len([calls EXCEPT ![Len(calls)] = p]) = Len(calls)
      /\ \A i \in 1 .. Len(calls) :
           [calls EXCEPT ![Len(calls)] = p][i] = IF i = Len(calls) THEN p ELSE calls[i]
  <2>1. Len(calls) \in 1 .. Len(calls)
    BY <1>1
  <2>. QED BY <1>1, <2>1, ExceptSeq
<1>3. calls' = [calls EXCEPT ![Len(calls)] = p]
  BY DEF GoOn
<1>. QED BY <1>1, <1>2, <1>3

(* A new call has an empty capture of its own.                               *)
LEMMA InstallFacts ==
  ASSUME Types, Nested, Begin
  PROVE  /\ calls' \in Seq(Places) /\ captures' \in Seq(Text) /\ said' \in Seq(Text)
         /\ Len(calls') = Len(calls) + 1
         /\ Len(captures') = Len(calls') /\ Len(said') = Len(calls')
         /\ calls'[Len(calls')] = "execute"
         /\ captures'[Len(calls')] = said'[Len(calls')]
         /\ \A i \in 1 .. Len(calls) :
              calls'[i] = calls[i] /\ captures'[i] = captures[i] /\ said'[i] = said[i]
<1>1. calls \in Seq(Places) /\ captures \in Seq(Text) /\ said \in Seq(Text)
      /\ "execute" \in Places /\ <<>> \in Text /\ Len(captures) = Len(calls)
      /\ Len(said) = Len(calls) /\ Len(calls) \in Nat
  BY LenProperties DEF Types, Nested, Places, Text
<1>2. calls' = Append(calls, "execute") /\ captures' = Append(captures, <<>>)
      /\ said' = Append(said, <<>>)
  BY DEF Begin, Install
<1>. QED BY <1>1, <1>2, AppendProperties

(* A text is said to every capture, and each that takes it adds it.          *)
LEMMA SayFacts ==
  ASSUME Types, Nested, Say
  PROVE  /\ texts' \in 0 .. MaxTexts /\ texts + 1 \in Nat
         /\ said' \in Seq(Text) /\ Len(said') = Len(said)
         /\ \A i \in 1 .. Len(said) : said'[i] = Append(said[i], texts + 1)
<1>1. said \in Seq(Text) /\ DOMAIN said = 1 .. Len(said) /\ Len(said) \in Nat
      /\ texts \in 0 .. MaxTexts /\ MaxTexts \in Nat
  BY LenProperties, TextBound DEF Types
<1>2. said' = [i \in 1 .. Len(said) |-> Append(said[i], texts + 1)]
  BY <1>1 DEF Say
<1>3. \A i \in 1 .. Len(said) : Append(said[i], texts + 1) \in Text
  <2>1. ASSUME NEW i \in 1 .. Len(said) PROVE Append(said[i], texts + 1) \in Text
    <3>1. said[i] \in Seq(Nat) /\ texts + 1 \in Nat
      BY <1>1, ElementOfSeq DEF Text
    <3>. QED BY <3>1, AppendProperties DEF Text
  <2>. QED BY <2>1
<1>4. said' \in [1 .. Len(said) -> Text]
  BY <1>2, <1>3
<1>5. said' \in Seq(Text) /\ Len(said') = Len(said)
  BY <1>1, <1>4
<1>6. texts' \in 0 .. MaxTexts /\ texts + 1 \in Nat
  BY <1>1 DEF Say
<1>. QED BY <1>2, <1>5, <1>6

(* Every capture takes what the outermost Output was given: the upper one    *)
(* because it is called, the lower one because it is passed the buffer,      *)
(* which holds nothing else.                                                 *)
LEMMA OutputFacts ==
  ASSUME ClientInv, Output
  PROVE  /\ captures' \in Seq(Text) /\ Len(captures') = Len(captures)
         /\ \A i \in 1 .. Len(captures) : captures'[i] = Append(captures[i], texts + 1)
         /\ buffer' \in Text
         /\ original => given' = Append(given, texts + 1)
         /\ ~original => given' = given
<1>. DEFINE t == texts + 1
<1>1. /\ captures \in Seq(Text) /\ DOMAIN captures = 1 .. Len(captures)
      /\ Len(captures) \in 1 .. 2 /\ t \in Nat /\ buffer = <<>>
      /\ original => Len(captures) = 1
  <2>1. captures \in Seq(Text) /\ captures # <<>> /\ Say /\ depth = 0
        /\ Len(captures) = Len(calls) /\ Len(calls) <= 2
        /\ (Len(calls) = 2 => ~original)
    BY DEF ClientInv, Types, Nested, Output
  <2>2. Len(captures) \in Nat \ {0} /\ DOMAIN captures = 1 .. Len(captures)
    BY <2>1, EmptySeq, LenProperties
  <2>3. t \in Nat
    BY <2>1, SayFacts DEF ClientInv
  <2>4. buffer = <<>>
    BY <2>1 DEF ClientInv, Captured
  <2>. QED BY <2>1, <2>2, <2>3, <2>4
<1>2. Append(buffer, t) = <<t>>
  BY <1>1
<1>. HIDE DEF t
<1>3. \A i \in 1 .. Len(captures) : captures[i] \o Share(i, <<t>>) = Append(captures[i], t)
  <2>1. ASSUME NEW i \in 1 .. Len(captures)
        PROVE  captures[i] \o Share(i, <<t>>) = Append(captures[i], t)
    <3>1. Share(i, <<t>>) = <<t>>
      BY <1>1 DEF Share, Top, t
    <3>2. captures[i] \in Seq(Nat)
      BY <1>1, ElementOfSeq DEF Text
    <3>. QED BY <3>1, <3>2, <1>1, AppendIsConcat
  <2>. QED BY <2>1
<1>4. captures' = [i \in 1 .. Len(captures) |-> captures[i] \o Share(i, <<t>>)]
  BY <1>1, <1>2 DEF Output, t
<1>5. \A i \in 1 .. Len(captures) : Append(captures[i], t) \in Text
  <2>1. ASSUME NEW i \in 1 .. Len(captures) PROVE Append(captures[i], t) \in Text
    <3>1. captures[i] \in Seq(Nat)
      BY <1>1, ElementOfSeq DEF Text
    <3>. QED BY <3>1, <1>1, AppendProperties DEF Text
  <2>. QED BY <2>1
<1>6. captures' \in [1 .. Len(captures) -> Text]
  BY <1>3, <1>4, <1>5
<1>7. captures' \in Seq(Text) /\ Len(captures') = Len(captures)
  BY <1>1, <1>6
<1>8. buffer' \in Text
  <2>1. <<t>> \in Seq(Nat) /\ (<<t>> \o <<t>>) \in Seq(Nat)
    BY <1>1, ConcatProperties
  <2>. QED BY <2>1, <1>1, <1>2 DEF Output, Text, t
<1>9. (original => given' = Append(given, t)) /\ (~original => given' = given)
  <2>1. given \o <<t>> = Append(given, t)
    BY <1>1, AppendIsConcat DEF ClientInv, Types, Text
  <2>. QED BY <2>1, <1>1, <1>2 DEF Output, Top, t
<1>. QED BY <1>3, <1>4, <1>7, <1>8, <1>9 DEF t

(* A text from within Output goes to the one capture there is.               *)
LEMMA NestedOutputFacts ==
  ASSUME ClientInv, NestedOutput
  PROVE  /\ captures' \in Seq(Text) /\ Len(captures') = Len(captures)
         /\ \A i \in 1 .. Len(captures) : captures'[i] = Append(captures[i], texts + 1)
         /\ buffer' \in Text
<1>1. captures \in Seq(Text) /\ Len(captures) = 1 /\ 1 \in 1 .. Len(captures)
      /\ texts + 1 \in Nat /\ buffer \in Seq(Nat)
  BY SayFacts DEF ClientInv, Types, NestedOutput, Top, Text
<1>2. captures[1] \in Seq(Nat)
  BY <1>1, ElementOfSeq DEF Text
<1>3. Append(captures[1], texts + 1) \in Text /\ Append(buffer, texts + 1) \in Text
  BY <1>1, <1>2, AppendProperties DEF Text
<1>. DEFINE e == Append(captures[1], texts + 1)
<1>4. captures' = [captures EXCEPT ![1] = e]
  BY <1>1 DEF NestedOutput, Top
<1>5. e \in Text
  BY <1>3
<1>. HIDE DEF e
<1>6. /\ captures' \in Seq(Text) /\ Len(captures') = Len(captures)
      /\ \A j \in 1 .. Len(captures) : captures'[j] = IF j = 1 THEN e ELSE captures[j]
  <2>1. /\ [captures EXCEPT ![1] = e] \in Seq(Text)
        /\ Len([captures EXCEPT ![1] = e]) = Len(captures)
        /\ \A j \in 1 .. Len(captures) :
             [captures EXCEPT ![1] = e][j] = IF j = 1 THEN e ELSE captures[j]
    <3>1. captures \in Seq(Text) /\ 1 \in 1 .. Len(captures)
      BY <1>1
    <3>. QED BY <1>5, <3>1, ExceptSeq
  <2>. QED BY <1>4, <2>1
<1>. QED BY <1>1, <1>3, <1>6 DEF NestedOutput, e

(* The innermost call and its capture go together.                           *)
LEMMA ReturnFacts ==
  ASSUME Types, Nested, Return
  PROVE  /\ calls' \in Seq(Places) /\ captures' \in Seq(Text) /\ said' \in Seq(Text)
         /\ Len(calls) \in 1 .. 2
         /\ Len(calls') = Len(calls) - 1
         /\ Len(captures') = Len(calls') /\ Len(said') = Len(calls')
         /\ \A i \in 1 .. Len(calls') :
              calls'[i] = calls[i] /\ captures'[i] = captures[i] /\ said'[i] = said[i]
<1>1. /\ calls \in Seq(Places) /\ captures \in Seq(Text) /\ said \in Seq(Text)
      /\ Len(captures) = Len(calls) /\ Len(said) = Len(calls) /\ Len(calls) \in 1 .. 2
  <2>1. calls \in Seq(Places) /\ calls # <<>>
    BY DEF Types, Return, At
  <2>2. Len(calls) \in Nat \ {0}
    BY <2>1, EmptySeq
  <2>. QED BY <2>1, <2>2 DEF Types, Nested
<1>. DEFINE n == Len(calls) - 1
<1>2. n \in 0 .. 1 /\ \A i \in 1 .. n : i \in 1 .. Len(calls)
  BY <1>1
<1>3. \A i \in 1 .. n : calls[i] \in Places /\ captures[i] \in Text /\ said[i] \in Text
  BY <1>1, <1>2, ElementOfSeq
<1>4. calls' = SubSeq(calls, 1, n) /\ captures' = SubSeq(captures, 1, n)
      /\ said' = SubSeq(said, 1, n)
  BY <1>1 DEF Return, Uninstall, Top
<1>. HIDE DEF n
<1>5. /\ SubSeq(calls, 1, n) \in Seq(Places) /\ Len(SubSeq(calls, 1, n)) = n
      /\ \A i \in 1 .. n : SubSeq(calls, 1, n)[i] = calls[i]
  <2>1. n \in Int /\ 1 \in Int /\ \A i \in 1 .. n - 1 + 1 : 1 + i - 1 = i
    BY <1>2
  <2>. QED BY <2>1, <1>2, <1>3, SubSeqProperties
<1>6. /\ SubSeq(captures, 1, n) \in Seq(Text) /\ Len(SubSeq(captures, 1, n)) = n
      /\ \A i \in 1 .. n : SubSeq(captures, 1, n)[i] = captures[i]
  BY <1>2, <1>3, SubSeqProperties
<1>7. /\ SubSeq(said, 1, n) \in Seq(Text) /\ Len(SubSeq(said, 1, n)) = n
      /\ \A i \in 1 .. n : SubSeq(said, 1, n)[i] = said[i]
  BY <1>2, <1>3, SubSeqProperties
<1>. QED BY <1>1, <1>4, <1>5, <1>6, <1>7 DEF n

-----------------------------------------------------------------------------
(* The initial states                                                        *)
LEMMA ClientStart == ClientInit => ClientInv
<1>. SUFFICES ASSUME ClientInit PROVE ClientInv
  OBVIOUS
<1>1. calls = <<>> /\ captures = <<>> /\ said = <<>> /\ buffer = <<>> /\ outermost = <<>>
      /\ given = <<>> /\ due = <<>> /\ depth = 0 /\ texts = 0 /\ original \in BOOLEAN
      /\ failed = FALSE /\ unsure = FALSE /\ reply = [kind |-> "none", text |-> <<>>]
  BY DEF ClientInit, CaptureInit, NoReply
<1>2. EngineTypeOK
  <2>1. resumes \in 0 .. MaxResumes
    BY ResumeBound DEF ClientInit, EngineInit
  <2>. QED BY <2>1 DEF ClientInit, EngineInit, EngineTypeOK
<1>3. \A S : <<>> \in Seq(S)
  BY EmptySeq
<1>4. Types
  <2>1. texts \in 0 .. MaxTexts /\ depth \in 0 .. 1
    BY <1>1, TextBound
  <2>2. failed \in BOOLEAN /\ unsure \in BOOLEAN
    BY <1>1
  <2>. QED BY <1>1, <1>2, <1>3, <2>1, <2>2 DEF Types, Text, Kinds
<1>. QED BY <1>1, <1>4
  DEF ClientInv, Nested, Captured, Passed, ReplyIsOutput, StableReturn, At

(* A call begins: nothing was said since, and nobody waits for it yet.       *)
LEMMA BeginKeeps == ClientInv /\ Begin => ClientInv'
<1>. SUFFICES ASSUME ClientInv, Begin PROVE ClientInv'
  OBVIOUS
<1>. USE DEF ClientInv
<1>1. UNCHANGED <<engineVars, callbackVars, reply, due, unsure>> /\ failed' = FALSE
  BY DEF Begin, Install
<1>2. Types'
  BY <1>1, InstallFacts DEF Types, EngineTypeOK, engineVars, callbackVars
<1>3. Len(calls) \in 0 .. 2 /\ (calls = <<>> => Len(calls) = 0)
  BY LenProperties DEF Types, Nested
<1>4. Nested'
  <2>1. Len(calls) <= 1
    BY <1>3 DEF Begin
  <2>2. Len(calls) = 1 => calls[1] = "execute" /\ ~original
    BY <1>3 DEF Begin, At
  <2>3. original' = original
    BY <1>1 DEF callbackVars
  <2>4. /\ Len(captures') = Len(calls') /\ Len(said') = Len(calls')
        /\ Len(calls') = Len(calls) + 1
    BY InstallFacts
  <2>5. Len(calls') <= 2
    BY <1>3, <2>1, <2>4
  <2>6. ASSUME Len(calls') = 2 PROVE calls'[1] = "execute" /\ ~original'
    <3>1. Len(calls) = 1
      BY <1>3, <2>4, <2>6
    <3>2. calls'[1] = calls[1]
      BY <3>1, InstallFacts
    <3>. QED BY <2>2, <2>3, <3>1, <3>2
  <2>. QED BY <2>4, <2>5, <2>6 DEF Nested
<1>5. Captured'
  BY <1>1, <1>3, InstallFacts DEF Captured, Nested, callbackVars
<1>6. Passed' /\ ReplyIsOutput'
  BY <1>1 DEF Passed, ReplyIsOutput, callbackVars
<1>7. StableReturn'
  BY InstallFacts DEF StableReturn, At
<1>. QED BY <1>2, <1>4, <1>5, <1>6, <1>7

(* A step of the innermost call that touches no capture.  What is left to    *)
(* show of such a step is StableReturn.                                      *)
LEMMA GoOnKeeps ==
  ASSUME ClientInv, NEW p \in {"poll", "collect"}, GoOn(p), calls # <<>>,
         ~At("uninstall"), At("execute") \/ (At("poll") /\ p = "collect"),
         EngineTypeOK', failed' \in BOOLEAN, unsure' \in BOOLEAN,
         UNCHANGED <<captureVars, reply, due>>
  PROVE  Types' /\ Nested' /\ Captured' /\ Passed' /\ ReplyIsOutput'
<1>. USE DEF ClientInv
<1>1. p \in Places
  BY DEF Places
<1>2. UNCHANGED <<captures, said, original, depth, buffer, texts, outermost, given, reply, due>>
  BY DEF captureVars, callbackVars
<1>3. Types'
  BY <1>1, <1>2, GoOnFacts DEF Types
<1>4. Nested'
  BY <1>1, <1>2, GoOnFacts DEF Nested
<1>5. Captured'
  BY <1>1, <1>2, GoOnFacts DEF Captured, At
<1>6. Passed' /\ ReplyIsOutput'
  BY <1>2 DEF Passed, ReplyIsOutput
<1>. QED BY <1>3, <1>4, <1>5, <1>6

(* The call of Execute: a call that does not poll is silent.                 *)
LEMMA ExecuteKeeps == ClientInv /\ (ExecuteFails \/ Execute) => ClientInv'
<1>. USE DEF ClientInv
<1>1. ASSUME ClientInv, ExecuteFails PROVE ClientInv'
  <2>1. At("execute") /\ GoOn("collect") /\ failed' = TRUE /\ calls # <<>> /\ ~At("uninstall")
        /\ UNCHANGED <<engineVars, captureVars, reply, due, unsure>>
    BY <1>1 DEF ExecuteFails, At
  <2>2. EngineTypeOK' /\ unsure' \in BOOLEAN
    BY <1>1, <2>1 DEF EngineTypeOK, engineVars, Types
  <2>3. Types' /\ Nested' /\ Captured' /\ Passed' /\ ReplyIsOutput'
    BY <1>1, <2>1, <2>2, GoOnKeeps
  <2>. QED BY <2>1, <2>3 DEF StableReturn
<1>2. ASSUME ClientInv, Execute PROVE ClientInv'
  <2>. DEFINE p == IF Silent THEN "collect" ELSE "poll"
  <2>1. At("execute") /\ GoOn(p) /\ calls # <<>> /\ ~At("uninstall") /\ p \in {"poll", "collect"}
        /\ UNCHANGED <<captureVars, failed, reply, due, unsure>> /\ CommandMoves
    BY <1>2 DEF Execute, At
  <2>2. EngineTypeOK' /\ unsure' \in BOOLEAN /\ failed' \in BOOLEAN
    BY <1>2, <2>1 DEF EngineTypeOK, Types, CommandMoves
  <2>3. Types' /\ Nested' /\ Captured' /\ Passed' /\ ReplyIsOutput'
    <3>. HIDE DEF p
    <3>. QED BY <1>2, <2>1, <2>2, GoOnKeeps
  <2>4. /\ calls' # <<>> /\ Len(calls') = Len(calls) /\ calls'[Len(calls')] = p
        /\ Silent' = Silent
    <3>1. p \in Places
      BY DEF Places
    <3>2. original' = original
      BY <2>1 DEF captureVars, callbackVars
    <3>. QED BY <1>2, <2>1, <3>1, <3>2, GoOnFacts DEF Silent
  <2>5. StableReturn'
    BY <2>4 DEF StableReturn, At
  <2>. QED BY <2>3, <2>5
<1>. QED BY <1>1, <1>2

(* The poll ends: the status is not "go", or it could not be read.           *)
LEMMA PollKeeps == ClientInv /\ (Poll \/ StatusFails) => ClientInv'
<1>. SUFFICES ASSUME ClientInv, Poll \/ StatusFails PROVE ClientInv'
  OBVIOUS
<1>. USE DEF ClientInv
<1>1. At("poll") /\ GoOn("collect") /\ calls # <<>> /\ ~At("uninstall")
      /\ UNCHANGED <<engineVars, captureVars, failed, reply, due>>
      /\ unsure' \in BOOLEAN /\ (status # "go" \/ unsure')
  BY DEF Poll, StatusFails, At, Settled
<1>2. EngineTypeOK' /\ failed' \in BOOLEAN
  BY <1>1 DEF EngineTypeOK, engineVars, Types
<1>3. Types' /\ Nested' /\ Captured' /\ Passed' /\ ReplyIsOutput'
  BY <1>1, <1>2, GoOnKeeps
<1>4. StableReturn'
  BY <1>1 DEF StableReturn, engineVars
<1>. QED BY <1>3, <1>4

(* The reply is the text of the capture, which is what was said.             *)
LEMMA CollectKeeps == ClientInv /\ Collect => ClientInv'
<1>. SUFFICES ASSUME ClientInv, Collect PROVE ClientInv'
  OBVIOUS
<1>. USE DEF ClientInv
<1>. DEFINE n == Len(calls)
<1>1. At("collect") /\ GoOn("uninstall") /\ calls # <<>> /\ "uninstall" \in Places
      /\ UNCHANGED <<engineVars, failed, unsure, callbackVars, said>>
      /\ captures' = [captures EXCEPT ![n] = <<>>]
      /\ due' = said[n] /\ Top = n
  BY DEF Collect, At, Places, GetAndClear, Top, Nested
<1>2. /\ calls' \in Seq(Places) /\ Len(calls') = n /\ calls' # <<>> /\ n \in 1 .. n
      /\ \A i \in 1 .. n : calls'[i] = IF i = n THEN "uninstall" ELSE calls[i]
  BY <1>1, GoOnFacts
<1>3. captures[n] = said[n] /\ captures[n] \in Text /\ said[n] \in Text
  <2>1. captures[n] = said[n]
    BY <1>1, <1>2 DEF Captured, At
  <2>2. captures[n] \in Text
    BY <1>2, ElementOfSeq DEF Types, Nested
  <2>. QED BY <2>1, <2>2
<1>4. /\ captures' \in Seq(Text) /\ Len(captures') = Len(captures)
      /\ \A i \in 1 .. n : captures'[i] = IF i = n THEN <<>> ELSE captures[i]
  <2>1. <<>> \in Text
    BY EmptySeq DEF Text
  <2>. QED BY <1>1, <1>2, <2>1, ExceptSeq DEF Types, Nested
<1>5. reply' \in [kind : Kinds, text : Text] /\ ReplyIsOutput'
  <2>1. <<>> \in Text
    BY EmptySeq DEF Text
  <2>2. \/ reply' = [kind |-> "error", text |-> <<>>]
        \/ reply' = [kind |-> "no output", text |-> <<>>] /\ captures[n] = <<>>
        \/ reply' = [kind |-> "output", text |-> captures[n]]
    BY <1>1 DEF Collect
  <2>3. CASE reply' = [kind |-> "error", text |-> <<>>]
    BY <2>1, <2>3 DEF Kinds, ReplyIsOutput
  <2>4. CASE reply' = [kind |-> "no output", text |-> <<>>] /\ captures[n] = <<>>
    <3>1. due' = <<>>
      BY <1>1, <1>3, <2>4
    <3>. QED BY <2>1, <2>4, <3>1 DEF Kinds, ReplyIsOutput
  <2>5. CASE reply' = [kind |-> "output", text |-> captures[n]]
    <3>1. due' = captures[n] /\ captures[n] \in Text
      BY <1>1, <1>3
    <3>. HIDE DEF n
    <3>. QED BY <2>5, <3>1 DEF Kinds, ReplyIsOutput
  <2>. QED BY <2>2, <2>3, <2>4, <2>5
<1>6. Types'
  BY <1>1, <1>2, <1>3, <1>4, <1>5 DEF Types, EngineTypeOK, engineVars, callbackVars
<1>7. Nested'
  BY <1>1, <1>2, <1>4 DEF Nested, At, callbackVars
<1>8. Captured'
  BY <1>1, <1>2, <1>4 DEF Captured, callbackVars
<1>9. Passed'
  BY <1>1 DEF Passed, callbackVars
<1>10. StableReturn'
  BY <1>1, <1>2 DEF StableReturn, Silent, At, engineVars, callbackVars
<1>. QED BY <1>5, <1>6, <1>7, <1>8, <1>9, <1>10

(* A call that returns leaves the one that executed it at "execute".         *)
LEMMA ReturnKeeps == ClientInv /\ Return => ClientInv'
<1>. SUFFICES ASSUME ClientInv, Return PROVE ClientInv'
  OBVIOUS
<1>. USE DEF ClientInv
<1>1. UNCHANGED <<engineVars, callbackVars, reply, due, unsure>> /\ failed' = FALSE
  BY DEF Return, Uninstall
<1>2. Types'
  BY <1>1, ReturnFacts DEF Types, EngineTypeOK, engineVars, callbackVars
<1>3. Nested'
  BY <1>1, ReturnFacts DEF Nested, callbackVars
<1>4. Captured'
  BY <1>1, ReturnFacts DEF Captured, callbackVars
<1>5. Passed' /\ ReplyIsOutput'
  BY <1>1 DEF Passed, ReplyIsOutput, callbackVars
<1>6. StableReturn'
  <2>1. Len(calls') = 0 \/ (Len(calls') = 1 /\ calls'[1] = "execute")
    <3>1. /\ Len(calls) \in 1 .. 2 /\ Len(calls') = Len(calls) - 1
          /\ \A i \in 1 .. Len(calls') : calls'[i] = calls[i]
      BY ReturnFacts
    <3>2. Len(calls) = 2 => calls[1] = "execute"
      BY DEF Nested
    <3>. QED BY <3>1, <3>2
  <2>2. Len(calls') = 0 => calls' = <<>>
    BY ReturnFacts, EmptySeq
  <2>. QED BY <2>1, <2>2 DEF StableReturn, At
<1>. QED BY <1>2, <1>3, <1>4, <1>5, <1>6

(* The engine moves on its own; only the user's resuming undoes a stop, and  *)
(* that is what unsure records.                                              *)
LEMMA EngineKeeps == ClientInv /\ EngineMoves => ClientInv'
<1>. SUFFICES ASSUME ClientInv, EngineMoves PROVE ClientInv'
  OBVIOUS
<1>. USE DEF ClientInv
<1>1. UNCHANGED <<captureVars, calls, failed, reply, due>> /\ unsure' \in {unsure, TRUE}
      /\ (status' = "go" /\ status # "go" => unsure') /\ (unsure => unsure')
  BY DEF EngineMoves, TargetStops, BreakIn, SetInterrupt, UserResumes, Types
<1>2. EngineTypeOK'
  <2>1. resumes' \in 0 .. MaxResumes
    BY ResumeBound
    DEF EngineMoves, TargetStops, BreakIn, SetInterrupt, UserResumes, Types, EngineTypeOK
  <2>2. interrupt' \in BOOLEAN /\ status' \in {"break", "go", "gone"}
    BY DEF EngineMoves, TargetStops, BreakIn, SetInterrupt, UserResumes, Types, EngineTypeOK
  <2>. QED BY <2>1, <2>2 DEF EngineTypeOK
<1>3. Types'
  BY <1>1, <1>2 DEF Types, captureVars, callbackVars
<1>4. Nested' /\ Captured' /\ Passed' /\ ReplyIsOutput'
  BY <1>1 DEF Nested, Captured, Passed, ReplyIsOutput, captureVars, callbackVars
<1>5. StableReturn'
  BY <1>1 DEF StableReturn, Silent, At, captureVars, callbackVars
<1>. QED BY <1>3, <1>4, <1>5

(* A text that every capture takes keeps all of them.                        *)
LEMMA SaidKeeps ==
  ASSUME ClientInv, Say,
         captures' \in Seq(Text), Len(captures') = Len(captures),
         \A i \in 1 .. Len(captures) : captures'[i] = Append(captures[i], texts + 1),
         buffer' \in Text, depth' = 1, outermost' \in Text, given' \in Text,
         UNCHANGED <<engineVars, calls, failed, reply, due, unsure, original>>
  PROVE  Types' /\ Nested' /\ Captured' /\ ReplyIsOutput' /\ StableReturn'
<1>. USE DEF ClientInv
<1>1. Types'
  BY SayFacts DEF Types, EngineTypeOK, engineVars
<1>2. Nested'
  BY SayFacts DEF Nested
<1>3. Captured'
  <2>1. ASSUME NEW i \in 1 .. Len(calls'), calls'[i] # "uninstall"
        PROVE  captures'[i] = said'[i]
    <3>1. i \in 1 .. Len(calls) /\ calls[i] # "uninstall"
      BY <2>1
    <3>2. captures[i] = said[i] /\ i \in 1 .. Len(captures) /\ i \in 1 .. Len(said)
      BY <3>1 DEF Captured, Nested
    <3>. QED BY <3>2, SayFacts
  <2>. QED BY <2>1 DEF Captured
<1>4. ReplyIsOutput' /\ StableReturn'
  BY DEF ReplyIsOutput, StableReturn, Silent, At, engineVars
<1>. QED BY <1>1, <1>2, <1>3, <1>4

(* The engine outputs a text, or the client's callbacks do, or return.       *)
LEMMA WriteKeeps == ClientInv /\ EngineWrites => ClientInv'
<1>. USE DEF ClientInv
<1>. SUFFICES ASSUME ClientInv, EngineWrites PROVE ClientInv'
  OBVIOUS
<1>1. UNCHANGED <<engineVars, calls, failed, reply, due, unsure>>
  BY DEF EngineWrites
<1>2. CASE Output
  <2>1. Say /\ depth' = 1 /\ outermost' = Append(outermost, texts + 1) /\ original' = original
    BY <1>2 DEF Output
  <2>2. texts + 1 \in Nat /\ outermost \in Text /\ given \in Text
    BY <2>1, SayFacts DEF Types
  <2>3. outermost' \in Text /\ given' \in Text
    <3>1. Append(outermost, texts + 1) \in Text /\ Append(given, texts + 1) \in Text
      BY <2>2, AppendProperties DEF Text
    <3>2. original \in BOOLEAN
      BY DEF Types
    <3>. QED BY <1>2, <2>1, <2>2, <3>1, <3>2, OutputFacts
  <2>4. Types' /\ Nested' /\ Captured' /\ ReplyIsOutput' /\ StableReturn'
    BY <1>1, <1>2, <2>1, <2>3, OutputFacts, SaidKeeps
  <2>5. Passed'
    <3>1. original' => given' = outermost'
      BY <1>2, <2>1, OutputFacts DEF Passed
    <3>2. /\ Len(outermost) \in Nat /\ Len(outermost') = Len(outermost) + 1
          /\ outermost'[Len(outermost) + 1] = texts + 1
          /\ \A i \in 1 .. Len(outermost) : outermost'[i] = outermost[i]
      BY <2>1, <2>2, AppendProperties, LenProperties DEF Text
    <3>3. texts' = texts + 1
      BY <2>1 DEF Say
    <3>4. \A i \in 1 .. Len(outermost) : outermost[i] \in Nat /\ outermost[i] <= texts
      BY <2>2, ElementOfSeq DEF Text, Passed
    <3>5. \A i \in 1 .. Len(outermost') : outermost'[i] <= texts'
      BY <2>2, <3>2, <3>3, <3>4 DEF Types
    <3>6. \A i, j \in 1 .. Len(outermost') : i < j => outermost'[i] < outermost'[j]
      <4>1. SUFFICES ASSUME NEW i \in 1 .. Len(outermost'), NEW j \in 1 .. Len(outermost'), i < j
                     PROVE  outermost'[i] < outermost'[j]
        OBVIOUS
      <4>2. i \in 1 .. Len(outermost) /\ texts \in Nat
        BY <3>2, <4>1, TextBound DEF Types
      <4>3. CASE j = Len(outermost) + 1
        BY <3>2, <3>4, <4>2, <4>3
      <4>4. CASE j \in 1 .. Len(outermost)
        <5>1. outermost[i] < outermost[j]
          BY <4>1, <4>2, <4>4 DEF Passed
        <5>. QED BY <3>2, <4>2, <4>4, <5>1
      <4>. QED BY <3>2, <4>1, <4>3, <4>4
    <3>. QED BY <3>1, <3>5, <3>6 DEF Passed
  <2>. QED BY <2>4, <2>5
<1>3. CASE NestedOutput
  <2>1. Say /\ depth' = 1 /\ UNCHANGED <<original, outermost, given>>
        /\ outermost' \in Text /\ given' \in Text
    BY <1>3 DEF NestedOutput, Types
  <2>2. Types' /\ Nested' /\ Captured' /\ ReplyIsOutput' /\ StableReturn'
    BY <1>1, <1>3, <2>1, NestedOutputFacts, SaidKeeps
  <2>3. Passed'
    <3>1. /\ texts' = texts + 1 /\ texts \in Nat
          /\ \A i \in 1 .. Len(outermost) : outermost[i] \in Nat
      BY <2>1, ElementOfSeq, TextBound DEF Say, Types, Text
    <3>. QED BY <2>1, <3>1 DEF Passed
  <2>. QED BY <2>2, <2>3
<1>4. CASE OutputReturns
  <2>1. <<>> \in Text
    BY EmptySeq DEF Text
  <2>2. /\ UNCHANGED <<original, captures, texts, said, outermost, given>>
        /\ depth' = 0 /\ buffer' = <<>>
    BY <1>4 DEF OutputReturns
  <2>3. Types'
    BY <1>1, <2>1, <2>2 DEF Types, EngineTypeOK, engineVars
  <2>4. Nested' /\ Captured' /\ Passed' /\ ReplyIsOutput' /\ StableReturn'
    BY <1>1, <2>2 DEF Nested, Captured, Passed, ReplyIsOutput, StableReturn, Silent, At,
      engineVars
  <2>. QED BY <2>3, <2>4
<1>. QED BY <1>2, <1>3, <1>4 DEF EngineWrites, OutputStep

-----------------------------------------------------------------------------
(* Every step keeps the invariant.                                           *)
LEMMA ClientKeeps == ClientInv /\ [ClientNext]_clientVars => ClientInv'
<1>1. ASSUME ClientInv, UNCHANGED clientVars PROVE ClientInv'
  BY <1>1
  DEF ClientInv, Types, EngineTypeOK, Nested, Captured, Passed, ReplyIsOutput, StableReturn,
      Silent, At, clientVars, engineVars, captureVars, callbackVars
<1>2. ASSUME ClientInv, ClientNext PROVE ClientInv'
  BY <1>2, BeginKeeps, ExecuteKeeps, PollKeeps, CollectKeeps, ReturnKeeps, EngineKeeps, WriteKeeps
  DEF ClientNext, ClientStep
<1>. QED BY <1>1, <1>2

(* The invariant holds in every reachable state.                            *)
LEMMA ClientInvariant == ClientSpec => []ClientInv
BY ClientStart, ClientKeeps, PTL DEF ClientSpec

(* The variables have their types, and every call in progress has a capture  *)
(* of its own, for any number of texts and resumes.                          *)
THEOREM ClientTypeCorrect == ClientSpec => []ClientTypeOK
<1>1. ClientInv => ClientTypeOK
  BY DEF ClientInv, Types, Nested, Captured, ClientTypeOK, Places, Kinds
<1>. QED BY <1>1, ClientInvariant, PTL

(* A reply is what was output between the beginning of the command and its   *)
(* end, for any number of texts, also of a command that executed others.     *)
THEOREM ReplyIsOutputHolds == ClientSpec => []ReplyIsOutput
<1>1. ClientInv => ReplyIsOutput
  BY DEF ClientInv
<1>. QED BY <1>1, ClientInvariant, PTL

(* The callbacks of the client are given every outermost text, none twice    *)
(* and all in order, for any number of texts.                                *)
THEOREM ForwardedOnceHolds == ClientSpec => []ForwardedOnce
<1>1. ASSUME ClientInv PROVE ForwardedOnce
  <2>1. /\ given \in Seq(Nat) /\ outermost \in Seq(Nat)
        /\ DOMAIN given = 1 .. Len(given) /\ DOMAIN outermost = 1 .. Len(outermost)
    BY <1>1, LenProperties DEF ClientInv, Types, Text
  <2>. QED BY <1>1, <2>1 DEF ClientInv, Passed, ForwardedOnce
<1>. QED BY <1>1, ClientInvariant, PTL

(* A reply is collected in a stable state, however the target runs and stops *)
(* on its own.                                                               *)
THEOREM StableReturnHolds == ClientSpec => []StableReturn
<1>1. ClientInv => StableReturn
  BY DEF ClientInv
<1>. QED BY <1>1, ClientInvariant, PTL
=============================================================================
