----------------------------- MODULE CallDecoder -----------------------------
(***************************************************************************)
(* resolveCallTarget of the JavaScript trace loop (src/dbg_trace.cpp:487-    *)
(* 582): which address the x86-64 instruction at rip calls, if it is a call  *)
(* of one of the forms that its comment lists.  The instructions themselves, *)
(* how they are encoded and what they call, are external.                   *)
(*                                                                         *)
(* code[k] is what is read at rip + k: a byte or, where a displacement of    *)
(* four bytes begins, that number.  Addresses are numbers modulo WordSize.   *)
(***************************************************************************)
EXTENDS Integers

CONSTANTS
  WordSize,            \* addresses and registers: 2^64
  LongSize,            \* displacements of four bytes: 2^32
  Reg,                 \* the register file
  Mem                  \* what is read from memory

Word == 0 .. WordSize - 1

ASSUME Sizes ==
  /\ WordSize \in Nat /\ LongSize \in Nat /\ LongSize % 2 = 0
  /\ 256 <= LongSize /\ LongSize <= WordSize
ASSUME Machine == Reg \in [0 .. 15 -> Word] /\ Mem \in [Word -> Word]

None == -1             \* null; no register

-----------------------------------------------------------------------------
(* The decoder                                                               *)

Add(a, b)  == (a + b) % WordSize
RexB(rex)  == rex % 2
RexX(rex)  == (rex \div 2) % 2
SignExt(v, size) == IF v < size \div 2 THEN v ELSE (WordSize - size) + v

(* shl64 doubles as often as it is told.                                     *)
Twice(v)       == Add(v, v)
Scaled(v, bits) == CASE bits = 0 -> v
                     [] bits = 1 -> Twice(v)
                     [] bits = 2 -> Twice(Twice(v))
                     [] bits = 3 -> Twice(Twice(Twice(v)))

Disp(code, k, mod) == CASE mod = 1 -> SignExt(code[k], 256)
                        [] mod = 2 -> SignExt(code[k], LongSize)
                        [] OTHER   -> 0

(* A memory operand, by its fields; k is where the ModRM byte's operands are *)
SibPointer(code, k, mod, rexX, rexB) ==
  LET base  == code[k] % 8
      index == (code[k] \div 8) % 8
      start == IF mod = 0 /\ base = 5 THEN SignExt(code[k + 1], LongSize) ELSE Reg[base + 8 * rexB]
      added == IF index = 4 /\ rexX = 0 THEN 0 ELSE Scaled(Reg[index + 8 * rexX], code[k] \div 64)
  IN Add(Add(start, added), Disp(code, k + 1, mod))

Pointer(code, rip, k, mod, rm, rex) ==
  CASE rm = 4             -> SibPointer(code, k, mod, RexX(rex), RexB(rex))
    [] rm = 5 /\ mod = 0  -> Add(Add(rip, IF rex # 0 THEN 7 ELSE 6), SignExt(code[k], LongSize))
    [] OTHER              -> Add(Reg[rm + 8 * RexB(rex)], Disp(code, k, mod))

ResolveCallTarget(code, rip) ==
  LET rex == IF code[0] \in 64 .. 79 THEN code[0] ELSE 0
      pos == IF rex # 0 THEN 1 ELSE 0
      mod == code[pos + 1] \div 64
      rm  == code[pos + 1] % 8
  IN CASE code[pos] = 232 ->
            Add(Add(rip, pos + 5), SignExt(code[pos + 1], LongSize))
       [] code[pos] = 255 /\ (code[pos + 1] \div 8) % 8 = 2 ->
            IF mod = 3 THEN Reg[rm + 8 * RexB(rex)]
                       ELSE Mem[Pointer(code, rip, pos + 2, mod, rm, rex)]
       [] OTHER -> None

-----------------------------------------------------------------------------
(* Instructions.  A call is direct, or through a register, or through a      *)
(* pointer in memory, which is found relative to the next instruction or at  *)
(* reg + 2^scale * index + disp.  prefix and sib say that the instruction    *)
(* has a REX prefix (with the bits W and R of it) or a SIB byte even if it    *)
(* needs none, width how many bits disp has.                                 *)

Displacements(width) == CASE width = 0 -> {0}
                          [] width = 8 -> -128 .. 127
                          [] OTHER     -> (-(LongSize \div 2)) .. (LongSize \div 2) - 1

NeedsSib(i) == i.sib \/ i.index # None \/ i.reg = None \/ i.reg % 8 = 4

Instructions ==
  {i \in [form   : {"direct", "register", "relative", "memory", "other"},
          reg    : {None} \cup 0 .. 15, index : {None} \cup (0 .. 15 \ {4}), scale : 0 .. 3,
          disp   : Int, width : {0, 8, 32}, sib : BOOLEAN, prefix : {None, 0, 4, 8, 12}] :
     /\ i.disp \in Displacements(i.width)
     /\ i.form \in {"direct", "relative"} => i.width = 32
     /\ i.form \in {"register", "memory"} /\ i.reg = None => i.form = "memory" /\ i.width = 32
     /\ i.form = "memory" /\ i.width = 0 => i.reg % 8 # 5}

(* What they call                                                            *)

Prefixed(i)    == i.prefix # None \/ (i.form \in {"register", "memory"} /\ (i.reg > 7 \/ i.index > 7))
NextIp(i, rip) == rip + (IF Prefixed(i) THEN 1 ELSE 0) + (IF i.form = "direct" THEN 5 ELSE 6)
Value(r)       == IF r = None THEN 0 ELSE Reg[r]
Scale(i)       == <<1, 2, 4, 8>>[i.scale + 1]

Target(i, rip) ==
  CASE i.form = "direct"   -> (NextIp(i, rip) + i.disp) % WordSize
    [] i.form = "relative" -> Mem[(NextIp(i, rip) + i.disp) % WordSize]
    [] i.form = "register" -> Reg[i.reg]
    [] i.form = "memory"   -> Mem[(Value(i.reg) + Value(i.index) * Scale(i) + i.disp) % WordSize]
    [] i.form = "other"    -> None

(* How they are encoded                                                      *)

Unsigned(d, size) == IF d >= 0 THEN d ELSE size + d
Low(r)  == r % 8
High(r) == IF r > 7 THEN 1 ELSE 0

RexByte(i) == 64 + (IF i.prefix = None THEN 0 ELSE i.prefix)
              + (IF i.form \in {"register", "memory"} THEN 2 * High(i.index) + High(i.reg) ELSE 0)

ModRM(i) ==
  CASE i.form = "register" -> 64 * 3 + 16 + Low(i.reg)
    [] i.form = "relative" -> 16 + 5
    [] OTHER -> 64 * (IF i.reg = None \/ i.width = 0 THEN 0 ELSE IF i.width = 8 THEN 1 ELSE 2)
                + 16 + (IF NeedsSib(i) THEN 4 ELSE Low(i.reg))
SibByte(i) == 64 * i.scale + 8 * (IF i.index = None THEN 4 ELSE Low(i.index))
              + (IF i.reg = None THEN 5 ELSE Low(i.reg))
DispCell(i) == Unsigned(i.disp, IF i.width = 8 THEN 256 ELSE LongSize)

Opcode(i) == CASE i.form = "other" -> 144 [] i.form = "direct" -> 232 [] OTHER -> 255

Cell(i, k) == CASE k = 0 -> Opcode(i)
                [] k = 1 -> IF i.form = "direct" THEN DispCell(i) ELSE ModRM(i)
                [] k = 2 /\ i.form = "memory" /\ NeedsSib(i) -> SibByte(i)
                [] OTHER -> DispCell(i)

Code(i) == [k \in 0 .. 4 |-> IF ~Prefixed(i) THEN Cell(i, k)
                              ELSE IF k = 0 THEN RexByte(i) ELSE Cell(i, k - 1)]
=============================================================================
