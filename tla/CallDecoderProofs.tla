-------------------------- MODULE CallDecoderProofs --------------------------
(***************************************************************************)
(* The decoder finds what every call of the forms it handles calls, whatever *)
(* the registers, the memory, the displacement and the place: decoding is    *)
(* what encoding was, field by field, and the additions modulo WordSize,     *)
(* one after the other, are the addition of all.                            *)
(***************************************************************************)
EXTENDS CallDecoder, TLAPS

(* Arithmetic modulo WordSize                                                *)
LEMMA WordSizeNat == WordSize \in Nat /\ WordSize >= 256
BY Sizes

(* Division with remainder by WordSize                                       *)
LEMMA DivMod ==
  ASSUME NEW a \in Int
  PROVE  /\ a \div WordSize \in Int /\ a % WordSize \in Word
         /\ a = (WordSize * (a \div WordSize)) + (a % WordSize)
BY WordSizeNat DEF Word

(* A remainder in Word is the remainder.                                     *)
LEMMA ModUnique ==
  ASSUME NEW a \in Int, NEW q \in Int, NEW r \in Word, a = (WordSize * q) + r
  PROVE  a % WordSize = r
BY WordSizeNat DEF Word

(* A sum may be reduced before its last summand is added.                    *)
LEMMA ModAdd ==
  ASSUME NEW a \in Int, NEW b \in Int
  PROVE  ((a % WordSize) + b) % WordSize = (a + b) % WordSize
<1>. DEFINE q == a \div WordSize
            c == (a % WordSize) + b
            p == c \div WordSize
<1>1. q \in Int /\ a % WordSize \in Int /\ a = (WordSize * q) + (a % WordSize)
  BY DivMod, WordSizeNat DEF Word
<1>2. c \in Int
  BY <1>1
<1>3. p \in Int /\ c % WordSize \in Word /\ c = (WordSize * p) + (c % WordSize)
  BY <1>2, DivMod
<1>4. a + b = (WordSize * (q + p)) + (c % WordSize)
  <2>. HIDE DEF q, p
  <2>1. c % WordSize \in Int
    BY <1>3, WordSizeNat DEF Word
  <2>2. a + b = (WordSize * q) + c
    <3>1. WordSize * q \in Int
      BY <1>1, WordSizeNat
    <3>. QED BY <3>1, <1>1
  <2>3. WordSize * (q + p) = (WordSize * q) + (WordSize * p)
    BY <1>1, <1>3, WordSizeNat
  <2>. QED BY <2>1, <2>2, <2>3, <1>1, <1>2, <1>3, WordSizeNat
<1>5. q + p \in Int /\ a + b \in Int
  BY <1>1, <1>3
<1>. HIDE DEF q, p, c
<1>6. (a + b) % WordSize = c % WordSize
  BY <1>3, <1>4, <1>5, ModUnique
<1>. QED BY <1>6 DEF c

(* WordSize is 0.                                                            *)
LEMMA ModTurn ==
  ASSUME NEW a \in Int
  PROVE  (a + WordSize) % WordSize = a % WordSize
<1>1. a + WordSize = (WordSize * ((a \div WordSize) + 1)) + (a % WordSize)
  BY WordSizeNat, DivMod
<1>2. (a \div WordSize) + 1 \in Int /\ a % WordSize \in Word /\ a + WordSize \in Int
  BY DivMod, WordSizeNat
<1>. QED BY <1>1, <1>2, ModUnique

(* A word is its own remainder.                                              *)
LEMMA ModSmall == \A a \in Word : a % WordSize = a
BY WordSizeNat DEF Word

(* Adding a sign-extended displacement adds the displacement.                *)
LEMMA SignExtension ==
  ASSUME NEW x \in Int, NEW size \in {256, LongSize},
         NEW d \in (-(size \div 2)) .. (size \div 2) - 1
  PROVE  /\ SignExt(Unsigned(d, size), size) \in Int
         /\ Add(x, SignExt(Unsigned(d, size), size)) = (x + d) % WordSize
<1>1. size \in Nat /\ size % 2 = 0 /\ size <= WordSize /\ d \in Int
  BY Sizes
<1>2. CASE d >= 0
  BY <1>1, <1>2, WordSizeNat DEF SignExt, Unsigned, Add
<1>3. CASE d < 0
  <2>1. SignExt(Unsigned(d, size), size) = WordSize + d
    BY <1>1, <1>3, WordSizeNat DEF SignExt, Unsigned
  <2>2. x + (WordSize + d) = (x + d) + WordSize
    BY <1>1, WordSizeNat
  <2>3. WordSize + d \in Int /\ x + d \in Int
    BY <1>1, WordSizeNat
  <2>4. ((x + d) + WordSize) % WordSize = (x + d) % WordSize
    BY <2>3, ModTurn
  <2>. QED BY <2>1, <2>2, <2>3, <2>4 DEF Add
<1>. QED BY <1>1, <1>2, <1>3

(* Doubling as often as the scale says multiplies by the scale.              *)
LEMMA Doubling ==
  ASSUME NEW a \in Int
  PROVE  Twice(a % WordSize) = (2 * a) % WordSize
<1>1. a % WordSize \in Int
  BY DivMod, WordSizeNat DEF Word
<1>2. ((a % WordSize) + (a % WordSize)) % WordSize = (a + (a % WordSize)) % WordSize
  BY <1>1, ModAdd
<1>3. ((a % WordSize) + a) % WordSize = (a + a) % WordSize
  BY ModAdd
<1>. QED BY <1>1, <1>2, <1>3 DEF Twice, Add

(* Adding an index to itself as often as its scale says multiplies it.       *)
LEMMA Scaling ==
  ASSUME NEW v \in Word, NEW s \in 0 .. 3
  PROVE  Scaled(v, s) = (v * <<1, 2, 4, 8>>[s + 1]) % WordSize
<1>1. v \in Int /\ v % WordSize = v
  BY WordSizeNat, ModSmall DEF Word
<1>2. Twice(v) = (2 * v) % WordSize
  BY <1>1, Doubling
<1>3. Twice(Twice(v)) = (4 * v) % WordSize
  BY <1>1, <1>2, Doubling
<1>4. Twice(Twice(Twice(v))) = (8 * v) % WordSize
  BY <1>1, <1>3, Doubling
<1>. QED BY <1>1, <1>2, <1>3, <1>4 DEF Scaled

-----------------------------------------------------------------------------
(* The prefix is found, and its bits extend the registers.                   *)
LEMMA Prefix ==
  ASSUME NEW i \in Instructions
  PROVE  LET code == Code(i)
             rex  == IF code[0] \in 64 .. 79 THEN code[0] ELSE 0
             pos  == IF rex # 0 THEN 1 ELSE 0
         IN /\ pos = (IF Prefixed(i) THEN 1 ELSE 0) /\ (rex # 0 <=> Prefixed(i))
            /\ \A k \in 0 .. 3 : code[pos + k] = Cell(i, k)
            /\ i.form \in {"register", "memory"} =>
                 RexB(rex) = High(i.reg) /\ RexX(rex) = High(i.index)
<1>1. i.prefix \in {None, 0, 4, 8, 12} /\ i.reg \in {None} \cup 0 .. 15
      /\ i.index \in {None} \cup 0 .. 15
  BY DEF Instructions
<1>2. High(i.reg) \in 0 .. 1 /\ High(i.index) \in 0 .. 1
  BY DEF High
<1>3. Cell(i, 0) \in {144, 232, 255}
  BY DEF Cell, Opcode
<1>4. CASE Prefixed(i)
  <2>1. Code(i)[0] = RexByte(i) /\ \A k \in 0 .. 3 : Code(i)[1 + k] = Cell(i, k)
    BY <1>4 DEF Code
  <2>2. RexByte(i) \in 64 .. 79
    BY <1>1, <1>2 DEF RexByte, None
  <2>3. i.form \in {"register", "memory"} =>
          RexB(RexByte(i)) = High(i.reg) /\ RexX(RexByte(i)) = High(i.index)
    BY <1>1, <1>2 DEF RexByte, None, RexB, RexX
  <2>. QED BY <1>4, <2>1, <2>2, <2>3
<1>5. CASE ~Prefixed(i)
  <2>1. \A k \in 0 .. 3 : Code(i)[k] = Cell(i, k)
    BY <1>5 DEF Code
  <2>2. Code(i)[0] \notin 64 .. 79
    BY <2>1, <1>3
  <2>3. i.form \in {"register", "memory"} => High(i.reg) = 0 /\ High(i.index) = 0
    BY <1>5 DEF Prefixed, High
  <2>. QED BY <1>5, <2>1, <2>2, <2>3 DEF RexB, RexX
<1>. QED BY <1>4, <1>5

(* What is read of the two bytes behind the opcode                            *)
LEMMA Fields ==
  ASSUME NEW i \in Instructions, i.form \in {"register", "relative", "memory"}
  PROVE  /\ (ModRM(i) \div 8) % 8 = 2
         /\ i.form = "register" => ModRM(i) \div 64 = 3 /\ ModRM(i) % 8 = Low(i.reg)
         /\ i.form = "relative" => ModRM(i) \div 64 = 0 /\ ModRM(i) % 8 = 5
         /\ i.form = "memory" =>
              /\ ModRM(i) \div 64 = (IF i.reg = None \/ i.width = 0 THEN 0
                                      ELSE IF i.width = 8 THEN 1 ELSE 2)
              /\ ModRM(i) % 8 = (IF NeedsSib(i) THEN 4 ELSE Low(i.reg))
              /\ SibByte(i) \div 64 = i.scale
              /\ (SibByte(i) \div 8) % 8 = (IF i.index = None THEN 4 ELSE Low(i.index))
              /\ SibByte(i) % 8 = (IF i.reg = None THEN 5 ELSE Low(i.reg))
<1>1. i.reg \in {None} \cup 0 .. 15 /\ i.index \in {None} \cup 0 .. 15 /\ i.scale \in 0 .. 3
  BY DEF Instructions
<1>2. \A m \in 0 .. 3, o \in 0 .. 7, r \in 0 .. 7 :
        /\ (64 * m + 8 * o + r) \div 64 = m
        /\ ((64 * m + 8 * o + r) \div 8) % 8 = o
        /\ (64 * m + 8 * o + r) % 8 = r
  OBVIOUS
<1>3. /\ i.reg = None \/ Low(i.reg) \in 0 .. 7
      /\ i.index = None \/ Low(i.index) \in 0 .. 7
  BY <1>1 DEF Low
<1>4. i.reg = None => i.form # "register" /\ (i.form = "memory" => NeedsSib(i))
  BY DEF Instructions, NeedsSib
<1>5. CASE i.form = "register"
  BY <1>2, <1>3, <1>4, <1>5 DEF ModRM
<1>6. CASE i.form = "relative"
  BY <1>2, <1>6 DEF ModRM
<1>7. CASE i.form = "memory"
  <2>. DEFINE m == IF i.reg = None \/ i.width = 0 THEN 0 ELSE IF i.width = 8 THEN 1 ELSE 2
              r == IF NeedsSib(i) THEN 4 ELSE Low(i.reg)
              x == IF i.index = None THEN 4 ELSE Low(i.index)
              b == IF i.reg = None THEN 5 ELSE Low(i.reg)
  <2>1. m \in 0 .. 3 /\ r \in 0 .. 7 /\ x \in 0 .. 7 /\ b \in 0 .. 7
    BY <1>3, <1>4, <1>7
  <2>2. ModRM(i) = 64 * m + 8 * 2 + r /\ SibByte(i) = 64 * i.scale + 8 * x + b
    BY <1>7 DEF ModRM, SibByte
  <2>. HIDE DEF m, r, x, b
  <2>3. ModRM(i) \div 64 = m /\ (ModRM(i) \div 8) % 8 = 2 /\ ModRM(i) % 8 = r
    BY <1>2, <2>1, <2>2
  <2>4. SibByte(i) \div 64 = i.scale /\ (SibByte(i) \div 8) % 8 = x /\ SibByte(i) % 8 = b
    <3>1. ASSUME NEW s \in 0 .. 3
          PROVE  LET v == 64 * s + 8 * x + b
                 IN v \div 64 = s /\ (v \div 8) % 8 = x /\ v % 8 = b
      BY <1>2, <2>1
    <3>2. i.scale \in 0 .. 3
      BY <1>1
    <3>. QED BY <3>1, <3>2, <2>2
  <2>. QED BY <1>7, <2>3, <2>4 DEF m, r, x, b
<1>. QED BY <1>5, <1>6, <1>7

(* The displacement of an instruction is added.                              *)
LEMMA Displacement ==
  ASSUME NEW i \in Instructions, NEW x \in Int
  PROVE  /\ i.disp \in Int
         /\ i.width = 32 => /\ SignExt(DispCell(i), LongSize) \in Int
                            /\ Add(x, SignExt(DispCell(i), LongSize)) = (x + i.disp) % WordSize
         /\ i.width = 8 => Add(x, SignExt(DispCell(i), 256)) = (x + i.disp) % WordSize
         /\ i.width = 0 => i.disp = 0
<1>1. i.disp \in Displacements(i.width) /\ i.disp \in Int
  BY DEF Instructions
<1>2. CASE i.width = 32
  <2>1. i.disp \in (-(LongSize \div 2)) .. (LongSize \div 2) - 1
    BY <1>1, <1>2 DEF Displacements
  <2>2. DispCell(i) = Unsigned(i.disp, LongSize)
    BY <1>2 DEF DispCell
  <2>3. /\ SignExt(Unsigned(i.disp, LongSize), LongSize) \in Int
        /\ Add(x, SignExt(Unsigned(i.disp, LongSize), LongSize)) = (x + i.disp) % WordSize
    BY <2>1, SignExtension
  <2>. QED BY <1>1, <1>2, <2>2, <2>3
<1>3. CASE i.width = 8
  <2>1. i.disp \in (-(256 \div 2)) .. (256 \div 2) - 1
    BY <1>1, <1>3 DEF Displacements
  <2>2. DispCell(i) = Unsigned(i.disp, 256)
    BY <1>3 DEF DispCell
  <2>3. Add(x, SignExt(Unsigned(i.disp, 256), 256)) = (x + i.disp) % WordSize
    BY <2>1, SignExtension
  <2>. QED BY <1>1, <1>3, <2>2, <2>3
<1>4. CASE i.width \notin {8, 32}
  <2>1. i.width = 0
    BY <1>4 DEF Instructions
  <2>. QED BY <1>1, <2>1 DEF Displacements
<1>. QED BY <1>2, <1>3, <1>4

(* Adding one after the other is adding all.                                 *)
LEMMA AddTwice ==
  ASSUME NEW a \in Int, NEW b \in Int, NEW c \in Int
  PROVE  Add(a, b) \in Int /\ (Add(a, b) + c) % WordSize = (a + b + c) % WordSize
<1>1. a + b \in Int
  OBVIOUS
<1>2. (((a + b) % WordSize) + c) % WordSize = ((a + b) + c) % WordSize
  BY <1>1, ModAdd
<1>3. (a + b) % WordSize \in Int
  BY <1>1, DivMod, WordSizeNat DEF Word
<1>. QED BY <1>2, <1>3 DEF Add

(* The pointer of a memory operand, with a SIB byte or without, is found.    *)
LEMMA RegisterNumber ==
  ASSUME NEW r \in 0 .. 15
  PROVE  Low(r) + 8 * High(r) = r /\ Value(r) = Reg[r] /\ Reg[r] \in Word /\ Reg[r] \in Int
<1>1. Reg[r] \in Word
  BY Machine
<1>2. Reg[r] \in Int
  BY <1>1, WordSizeNat DEF Word
<1>. QED BY <1>1, <1>2 DEF Low, High, Value, None

(* The pointer of an operand that is encoded with a SIB byte                 *)
LEMMA SibOperand ==
  ASSUME NEW i \in Instructions, i.form = "memory", NeedsSib(i),
         NEW code, NEW k, code[k] = SibByte(i), code[k + 1] = DispCell(i),
         NEW mod, mod = (IF i.reg = None \/ i.width = 0 THEN 0 ELSE IF i.width = 8 THEN 1 ELSE 2)
  PROVE  SibPointer(code, k, mod, High(i.index), High(i.reg))
           = (Value(i.reg) + Value(i.index) * Scale(i) + i.disp) % WordSize
<1>. DEFINE base  == code[k] % 8
            index == (code[k] \div 8) % 8
            start == IF mod = 0 /\ base = 5 THEN SignExt(code[k + 1], LongSize)
                                            ELSE Reg[base + 8 * High(i.reg)]
            added == IF index = 4 /\ High(i.index) = 0 THEN 0
                     ELSE Scaled(Reg[index + 8 * High(i.index)], code[k] \div 64)
            product == Value(i.index) * Scale(i)
<1>1. SibPointer(code, k, mod, High(i.index), High(i.reg))
        = Add(Add(start, added), Disp(code, k + 1, mod))
  BY DEF SibPointer
<1>2. /\ i.reg \in {None} \cup 0 .. 15 /\ i.index \in {None} \cup (0 .. 15 \ {4})
      /\ i.scale \in 0 .. 3 /\ i.disp \in Int /\ i.width \in {0, 8, 32}
      /\ i.reg = None => i.width = 32
      /\ i.width = 0 /\ i.reg # None => i.reg % 8 # 5
  BY DEF Instructions, None
<1>3. /\ code[k] \div 64 = i.scale
      /\ index = (IF i.index = None THEN 4 ELSE Low(i.index))
      /\ base = (IF i.reg = None THEN 5 ELSE Low(i.reg))
  BY Fields
<1>4. product \in Int /\ added = product % WordSize
  <2>1. CASE i.index = None
    <3>1. High(i.index) = 0 /\ Value(i.index) = 0
      BY <2>1 DEF High, None, Value
    <3>2. Scale(i) \in Int
      BY <1>2 DEF Scale
    <3>. QED BY <1>3, <2>1, <3>1, <3>2, WordSizeNat
  <2>2. CASE i.index # None
    <3>1. i.index \in 0 .. 15 /\ i.index # 4
      BY <1>2, <2>2
    <3>2. ~(Low(i.index) = 4 /\ High(i.index) = 0)
      BY <3>1 DEF Low, High
    <3>3. added = Scaled(Reg[i.index], i.scale)
      BY <1>3, <2>2, <3>1, <3>2, RegisterNumber
    <3>4. Scaled(Reg[i.index], i.scale) = (Reg[i.index] * Scale(i)) % WordSize
      BY <1>2, <3>1, RegisterNumber, Scaling DEF Scale
    <3>5. Scale(i) \in Int
      BY <1>2 DEF Scale
    <3>. QED BY <3>1, <3>3, <3>4, <3>5, RegisterNumber
  <2>. QED BY <2>1, <2>2
<1>5. added \in Int
  BY <1>4, DivMod, WordSizeNat DEF Word
<1>6. ASSUME NEW x \in Int PROVE Add(x, added) = (x + product) % WordSize /\ Add(x, added) \in Int
  <2>. HIDE DEF product, added
  <2>1. ((product % WordSize) + x) % WordSize = (product + x) % WordSize
    BY <1>4, ModAdd
  <2>2. x + added \in Int
    BY <1>5
  <2>3. (x + added) % WordSize \in Int
    BY <2>2, DivMod, WordSizeNat DEF Word
  <2>4. x + added = (product % WordSize) + x /\ product + x = x + product
    BY <1>4, <1>5
  <2>. QED BY <2>1, <2>3, <2>4 DEF Add
<1>. HIDE DEF product, added
<1>7. CASE i.reg = None
  <2>1. start = SignExt(DispCell(i), LongSize) /\ Disp(code, k + 1, mod) = 0 /\ Value(i.reg) = 0
    BY <1>3, <1>7 DEF Disp, Value
  <2>2. start \in Int /\ Add(product, start) = (product + i.disp) % WordSize
    <3>1. Add(product, SignExt(DispCell(i), LongSize)) = (product + i.disp) % WordSize
      BY <1>2, <1>4, <1>7, Displacement
    <3>2. SignExt(DispCell(i), LongSize) \in Int
      BY <1>2, <1>4, <1>7, Displacement
    <3>. QED BY <2>1, <3>1, <3>2
  <2>. HIDE DEF start
  <2>3. Add(start, added) = (product + i.disp) % WordSize
    <3>1. start + product = product + start
      BY <2>2, <1>4
    <3>. QED BY <1>6, <2>2, <3>1 DEF Add
  <2>4. Add(Add(start, added), 0) = (product + i.disp) % WordSize
    <3>1. product + i.disp \in Int
      BY <1>2, <1>4
    <3>2. (((product + i.disp) % WordSize) + 0) % WordSize = (product + i.disp + 0) % WordSize
      BY <3>1, ModAdd
    <3>. QED BY <2>3, <3>1, <3>2 DEF Add
  <2>5. 0 + product + i.disp = product + i.disp
    BY <1>2, <1>4
  <2>. QED BY <1>1, <2>1, <2>4, <2>5 DEF product
<1>8. CASE i.reg # None
  <2>1. i.reg \in 0 .. 15
    BY <1>2, <1>8
  <2>2. start = Reg[i.reg] /\ start \in Int /\ Value(i.reg) = start
    <3>1. ~(mod = 0 /\ base = 5)
      BY <1>2, <1>3, <1>8 DEF Low
    <3>. QED BY <1>3, <1>8, <2>1, <3>1, RegisterNumber
  <2>. HIDE DEF start, base, index
  <2>3. Add(start, added) = (start + product) % WordSize /\ Add(start, added) \in Int
    BY <1>6, <2>2
  <2>4. Add(Add(start, added), Disp(code, k + 1, mod)) = (Add(start, added) + i.disp) % WordSize
    <3>1. CASE i.width = 0
      BY <1>8, <2>3, <3>1, Displacement DEF Disp, Add
    <3>2. CASE i.width = 8
      BY <1>8, <2>3, <3>2, Displacement DEF Disp
    <3>3. CASE i.width = 32
      BY <1>8, <2>3, <3>3, Displacement DEF Disp
    <3>. QED BY <1>2, <3>1, <3>2, <3>3
  <2>5. (((start + product) % WordSize) + i.disp) % WordSize = (start + product + i.disp) % WordSize
    <3>1. start + product \in Int /\ i.disp \in Int
      BY <1>2, <1>4, <2>2
    <3>. QED BY <3>1, ModAdd
  <2>. QED BY <1>1, <2>2, <2>3, <2>4, <2>5 DEF product
<1>. QED BY <1>7, <1>8

(* The pointer of an operand that is encoded without one                     *)
LEMMA PlainOperand ==
  ASSUME NEW i \in Instructions, i.form = "memory", ~NeedsSib(i),
         NEW code, NEW k, code[k] = DispCell(i),
         NEW mod, mod = (IF i.width = 0 THEN 0 ELSE IF i.width = 8 THEN 1 ELSE 2)
  PROVE  Add(Reg[Low(i.reg) + 8 * High(i.reg)], Disp(code, k, mod))
           = (Value(i.reg) + Value(i.index) * Scale(i) + i.disp) % WordSize
<1>1. /\ i.reg \in 0 .. 15 /\ i.index = None /\ i.scale \in 0 .. 3
      /\ i.width \in {0, 8, 32} /\ i.disp \in Int
  BY DEF Instructions, NeedsSib
<1>2. Low(i.reg) + 8 * High(i.reg) = i.reg /\ Value(i.reg) = Reg[i.reg] /\ Reg[i.reg] \in Int
  BY <1>1, RegisterNumber
<1>3. Value(i.index) * Scale(i) = 0
  <2>1. Scale(i) \in Int
    BY <1>1 DEF Scale
  <2>. QED BY <1>1, <2>1 DEF Value
<1>4. Add(Reg[i.reg], Disp(code, k, mod)) = (Reg[i.reg] + i.disp) % WordSize
  <2>1. CASE i.width = 0
    BY <1>2, <2>1, Displacement DEF Disp, Add
  <2>2. CASE i.width = 8
    BY <1>2, <2>2, Displacement DEF Disp
  <2>3. CASE i.width = 32
    BY <1>2, <2>3, Displacement DEF Disp
  <2>. QED BY <1>1, <2>1, <2>2, <2>3
<1>5. Reg[i.reg] + 0 + i.disp = Reg[i.reg] + i.disp
  BY <1>1, <1>2
<1>. QED BY <1>2, <1>3, <1>4, <1>5

-----------------------------------------------------------------------------
(* The decoder returns what the instruction calls, for every call of the     *)
(* forms that its comment lists (src/dbg_trace.cpp:471-486), and null for an *)
(* instruction that is none.                                                 *)
THEOREM DecoderRight ==
  \A i \in Instructions, rip \in Word : ResolveCallTarget(Code(i), rip) = Target(i, rip)
<1>. TAKE i \in Instructions, rip \in Word
<1>. DEFINE code == Code(i)
            rex  == IF code[0] \in 64 .. 79 THEN code[0] ELSE 0
            pos  == IF rex # 0 THEN 1 ELSE 0
            mod  == code[pos + 1] \div 64
            rm   == code[pos + 1] % 8
<1>1. /\ pos = (IF Prefixed(i) THEN 1 ELSE 0) /\ (rex # 0 <=> Prefixed(i))
      /\ \A k \in 0 .. 3 : code[pos + k] = Cell(i, k)
      /\ i.form \in {"register", "memory"} =>
           RexB(rex) = High(i.reg) /\ RexX(rex) = High(i.index)
  BY Prefix
<1>2. ResolveCallTarget(code, rip) =
        CASE code[pos] = 232 -> Add(Add(rip, pos + 5), SignExt(code[pos + 1], LongSize))
          [] code[pos] = 255 /\ (code[pos + 1] \div 8) % 8 = 2 ->
               IF mod = 3 THEN Reg[rm + 8 * RexB(rex)]
                          ELSE Mem[Pointer(code, rip, pos + 2, mod, rm, rex)]
          [] OTHER -> None
  BY DEF ResolveCallTarget
<1>3. /\ rip \in Int /\ pos \in 0 .. 1 /\ i.disp \in Int
      /\ i.form \in {"direct", "register", "relative", "memory", "other"}
      /\ i.form \in {"direct", "relative"} => i.width = 32
  BY WordSizeNat DEF Word, Instructions
<1>4. code[pos] = Opcode(i) /\ code[pos + 1] = Cell(i, 1) /\ code[pos + 2] = Cell(i, 2)
      /\ code[pos + 3] = Cell(i, 3)
  <2>1. code[pos + 0] = Cell(i, 0) /\ pos + 0 = pos
    BY <1>1, <1>3
  <2>2. Cell(i, 0) = Opcode(i)
    BY DEF Cell
  <2>. QED BY <1>1, <2>1, <2>2
<1>. HIDE DEF code, rex, pos, mod, rm
<1>5. CASE i.form = "other"
  BY <1>2, <1>4, <1>5 DEF Opcode, Target, code
<1>6. CASE i.form = "direct"
  <2>1. code[pos] = 232 /\ code[pos + 1] = DispCell(i)
    BY <1>4, <1>6 DEF Opcode, Cell
  <2>2. /\ Add(rip, pos + 5) \in Int
        /\ (Add(rip, pos + 5) + i.disp) % WordSize = (rip + (pos + 5) + i.disp) % WordSize
    <3>1. ASSUME NEW n \in Int
          PROVE  Add(rip, n) \in Int /\ (Add(rip, n) + i.disp) % WordSize = (rip + n + i.disp) % WordSize
      BY <1>3, AddTwice
    <3>2. pos + 5 \in Int
      BY <1>3
    <3>. QED BY <3>1, <3>2
  <2>3. Add(Add(rip, pos + 5), SignExt(DispCell(i), LongSize)) = (Add(rip, pos + 5) + i.disp) % WordSize
    BY <1>3, <1>6, <2>2, Displacement
  <2>4. NextIp(i, rip) = rip + (pos + 5)
    BY <1>1, <1>3, <1>6 DEF NextIp
  <2>. QED BY <1>2, <1>6, <2>1, <2>2, <2>3, <2>4 DEF Target, code
<1>7. ASSUME i.form \in {"register", "relative", "memory"}
      PROVE  /\ code[pos + 1] = ModRM(i)
             /\ ResolveCallTarget(code, rip) =
                  IF mod = 3 THEN Reg[rm + 8 * RexB(rex)]
                             ELSE Mem[Pointer(code, rip, pos + 2, mod, rm, rex)]
  <2>1. code[pos] = 255 /\ code[pos + 1] = ModRM(i)
    BY <1>4, <1>7 DEF Opcode, Cell
  <2>2. (code[pos + 1] \div 8) % 8 = 2
    BY <1>7, <2>1, Fields
  <2>. QED BY <1>2, <2>1, <2>2
<1>8. CASE i.form = "register"
  <2>1. mod = 3 /\ rm = Low(i.reg)
    BY <1>7, <1>8, Fields DEF mod, rm
  <2>2. i.reg \in 0 .. 15
    BY <1>8 DEF Instructions
  <2>3. Low(i.reg) + 8 * High(i.reg) = i.reg
    BY <2>2, RegisterNumber
  <2>. QED BY <1>1, <1>7, <1>8, <2>1, <2>3 DEF Target, code
<1>9. CASE i.form = "relative"
  <2>1. mod = 0 /\ rm = 5 /\ code[pos + 2] = DispCell(i)
    BY <1>4, <1>7, <1>9, Fields DEF mod, rm, Cell
  <2>2. Pointer(code, rip, pos + 2, mod, rm, rex)
          = Add(Add(rip, IF rex # 0 THEN 7 ELSE 6), SignExt(DispCell(i), LongSize))
    BY <2>1 DEF Pointer
  <2>3. NextIp(i, rip) = rip + (IF rex # 0 THEN 7 ELSE 6)
    BY <1>1, <1>3, <1>9 DEF NextIp
  <2>4. ASSUME NEW n \in Int
        PROVE  Add(Add(rip, n), SignExt(DispCell(i), LongSize)) = (rip + n + i.disp) % WordSize
    <3>1. Add(rip, n) \in Int /\ (Add(rip, n) + i.disp) % WordSize = (rip + n + i.disp) % WordSize
      BY <1>3, AddTwice
    <3>. QED BY <1>3, <1>9, <3>1, Displacement
  <2>5. Pointer(code, rip, pos + 2, mod, rm, rex) = (NextIp(i, rip) + i.disp) % WordSize
    BY <2>2, <2>3, <2>4
  <2>. QED BY <1>7, <1>9, <2>1, <2>5 DEF Target, code
<1>10. CASE i.form = "memory"
  <2>1. /\ mod = (IF i.reg = None \/ i.width = 0 THEN 0 ELSE IF i.width = 8 THEN 1 ELSE 2)
        /\ rm = (IF NeedsSib(i) THEN 4 ELSE Low(i.reg))
    BY <1>7, <1>10, Fields DEF mod, rm
  <2>2. mod # 3
    BY <2>1
  <2>3. Pointer(code, rip, pos + 2, mod, rm, rex)
          = (Value(i.reg) + Value(i.index) * Scale(i) + i.disp) % WordSize
    <3>1. CASE NeedsSib(i)
      <4>1. code[pos + 2] = SibByte(i) /\ code[(pos + 2) + 1] = DispCell(i)
        <5>1. (pos + 2) + 1 = pos + 3
          BY <1>3
        <5>. QED BY <1>4, <1>10, <3>1, <5>1 DEF Cell
      <4>2. Pointer(code, rip, pos + 2, mod, rm, rex)
              = SibPointer(code, pos + 2, mod, RexX(rex), RexB(rex))
        BY <2>1, <3>1 DEF Pointer
      <4>3. RexX(rex) = High(i.index) /\ RexB(rex) = High(i.reg)
        BY <1>1, <1>10
      <4>4. SibPointer(code, pos + 2, mod, High(i.index), High(i.reg))
              = (Value(i.reg) + Value(i.index) * Scale(i) + i.disp) % WordSize
        BY <1>10, <2>1, <3>1, <4>1, SibOperand
      <4>. QED BY <4>2, <4>3, <4>4
    <3>2. CASE ~NeedsSib(i)
      <4>1. i.reg \in 0 .. 15 /\ i.reg % 8 # 4 /\ (i.width = 0 => i.reg % 8 # 5)
        BY <1>10, <3>2 DEF NeedsSib, Instructions
      <4>2. code[pos + 2] = DispCell(i)
        BY <1>4, <1>10, <3>2 DEF Cell
      <4>3. rm = Low(i.reg) /\ rm # 4 /\ ~(rm = 5 /\ mod = 0)
            /\ mod = (IF i.width = 0 THEN 0 ELSE IF i.width = 8 THEN 1 ELSE 2)
        BY <2>1, <3>2, <4>1 DEF Low, None
      <4>4. Pointer(code, rip, pos + 2, mod, rm, rex)
              = Add(Reg[Low(i.reg) + 8 * High(i.reg)], Disp(code, pos + 2, mod))
        BY <1>1, <1>10, <4>3 DEF Pointer
      <4>. QED BY <1>10, <3>2, <4>2, <4>3, <4>4, PlainOperand
    <3>. QED BY <3>1, <3>2
  <2>. QED BY <1>7, <1>10, <2>2, <2>3 DEF Target, code
<1>. QED BY <1>3, <1>5, <1>6, <1>8, <1>9, <1>10 DEF code
=============================================================================
