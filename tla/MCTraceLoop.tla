----------------------------- MODULE MCTraceLoop -----------------------------
(***************************************************************************)
(* TraceLoop for TLC: the end, a function to skip, an ordinary instruction,  *)
(* a call of every form at address 3, and one that cannot be read.  The      *)
(* numbers are small, and no two registers or words of memory are alike.     *)
(***************************************************************************)
EXTENDS TraceLoop

MCReg == [r \in 0 .. 15 |-> (r * 173 + 11) % WordSize]
MCMem == [a \in Word |-> (a * 5 + 3) % WordSize]
MCAddresses == 1 .. 4

Insn(f, r, x, s, d, p) ==
  [form |-> f, reg |-> r, index |-> x, scale |-> s[1], sib |-> s[2],
   disp |-> d[1], width |-> d[2], prefix |-> p]
Other == Insn("other", 0, None, <<0, FALSE>>, <<0, 0>>, None)

Samples ==
  {Insn(f, 0, None, <<0, FALSE>>, d, p) : f \in {"direct", "relative"},
      d \in {<<-1, 32>>, <<255, 32>>}, p \in {None, 8}}
  \cup {Insn(f, r, None, <<0, s>>, d, p) : f \in {"register", "memory"}, r \in {None, 1, 4, 5, 12, 13},
           s \in BOOLEAN, d \in {<<0, 0>>, <<-1, 8>>, <<-256, 32>>}, p \in {None, 0}}
  \cup {Insn("memory", r, x, <<s, TRUE>>, d, None) : r \in {None, 1, 5, 12}, x \in {2, 5, 12},
           s \in 0 .. 3, d \in {<<0, 0>>, <<127, 8>>, <<255, 32>>}}

Calls == Samples \cap Instructions
AtThree(i) == [a \in MCAddresses |-> IF a = 3 THEN i ELSE Other]
Direct     == Insn("direct", 0, None, <<0, FALSE>>, <<0, 32>>, None)
Prog(i, skips, opaque) == [at |-> AtThree(i), skips |-> skips, opaque |-> opaque]
MCPrograms ==
  {Prog(i, {Target(i, 3)}, {}) : i \in Calls} \cup {Prog(Direct, a, {}) : a \in {{}, {2}, {2, 8}}}
  \cup {Prog(Direct, {2, 8}, {3})}
=============================================================================
