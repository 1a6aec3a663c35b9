----------------------------- MODULE OutputCapture -----------------------------
(***************************************************************************)
(* OutputCapture (src/output_capture.cpp): objects that take the place of   *)
(* the output callbacks of one debug client, collect what is output, and    *)
(* pass it on to the callbacks they found.  A command that is executed may  *)
(* itself execute commands, so captures are stacked; the state with which   *)
(* Output recognises a nested call is the thread's, not the object's, and   *)
(* serves all of them.                                                      *)
(*                                                                         *)
(* The engine (external) calls Output under the lock under which it changes *)
(* callbacks, so that an Output is never in flight when a capture comes or  *)
(* goes.  A text is its number.                                             *)
(***************************************************************************)
EXTENDS Naturals, Sequences

CONSTANT MaxTexts      \* bound: how many texts are output

ASSUME TextBound == MaxTexts \in Nat

VARIABLES
  original,            \* whether the client has output callbacks of its own
  captures,            \* captured_output_ of each capture installed, newest last
  depth,               \* state.depth
  buffer,              \* state.buffer
  texts,               \* the number of texts output so far
  said,                \* history: what was output since each capture was installed
  outermost,           \* history: what was output not from within an Output
  given                \* history: what the client's own callbacks were given

callbackVars == <<original, depth, buffer, texts, outermost, given>>
captureVars  == <<callbackVars, captures, said>>

Top == Len(captures)

CaptureInit ==
  /\ original \in BOOLEAN
  /\ captures = <<>> /\ depth = 0 /\ buffer = <<>>
  /\ texts = 0 /\ said = <<>> /\ outermost = <<>> /\ given = <<>>

Install ==
  /\ depth = 0
  /\ captures' = Append(captures, <<>>)
  /\ said' = Append(said, <<>>)
  /\ UNCHANGED callbackVars

Uninstall ==
  /\ depth = 0
  /\ captures' = SubSeq(captures, 1, Top - 1)
  /\ said' = SubSeq(said, 1, Top - 1)
  /\ UNCHANGED callbackVars

GetAndClear ==
  /\ captures' = [captures EXCEPT ![Top] = <<>>]
  /\ UNCHANGED <<callbackVars, said>>

(* The next text is output: every capture installed should get it.           *)
Say ==
  /\ texts < MaxTexts /\ texts' = texts + 1
  /\ said' = [i \in DOMAIN said |-> Append(said[i], texts + 1)]

(* The outermost Output appends to the buffer and hands it as it is then to  *)
(* the callbacks it replaced.  If that is another capture, its Output takes  *)
(* itself for a nested call: it appends as well, and hands nothing on.       *)
ShareTop(i, flushed) == IF i = Top THEN <<texts + 1>> ELSE <<>>

Share(i, flushed) == CASE i = Top     -> <<texts + 1>>
                       [] i = Top - 1 -> flushed
                       [] OTHER       -> <<>>

Output ==
  /\ captures # <<>> /\ depth = 0 /\ Say
  /\ LET flushed == Append(buffer, texts + 1) IN
     /\ captures' = [i \in DOMAIN captures |-> captures[i] \o Share(i, flushed)]
     /\ buffer' = IF Top = 1 THEN flushed ELSE flushed \o flushed
     /\ given' = IF Top = 1 /\ original THEN given \o flushed ELSE given
  /\ depth' = 1
  /\ outermost' = Append(outermost, texts + 1)
  /\ UNCHANGED original

(* The client's own callbacks output something from within their Output: it   *)
(* is added to the buffer, which the call that flushes has already read.      *)
NestedOutput ==
  /\ Top = 1 /\ original /\ depth = 1 /\ Say
  /\ captures' = [captures EXCEPT ![Top] = Append(@, texts + 1)]
  /\ buffer' = Append(buffer, texts + 1)
  /\ UNCHANGED <<original, depth, outermost, given>>

OutputReturnsUncleared ==
  /\ depth = 1 /\ depth' = 0
  /\ UNCHANGED <<original, captures, buffer, texts, said, outermost, given>>

OutputReturns ==
  /\ depth = 1 /\ depth' = 0
  /\ buffer' = <<>>
  /\ UNCHANGED <<original, captures, texts, said, outermost, given>>

OutputStep == Output \/ NestedOutput \/ OutputReturns
=============================================================================
