---------------------------- MODULE Cpu8080_proof ----------------------------
(***************************************************************************)
(* The CPU, for every program in the ROM, every number of clock edges per   *)
(* cycle, and interrupts and restarts at any edge.                          *)
(*                                                                          *)
(* First its types: what the data path computes stays in the widths of its  *)
(* registers, each action is given by the registers it sets (Only) and how  *)
(* its step ends (NextStep, OneStep, LastStep, JumpStep), and from there no *)
(* register, port or memory leaves its width.                               *)
(*                                                                          *)
(* Then the write enable of its memory, which is short: where the CPU is    *)
(* while the enable is up (Writing) says how many bytes are still to come;  *)
(* each step that writes is shown to stay there or to drop the enable, and  *)
(* no other step can be taken meanwhile.                                    *)
(*                                                                          *)
(* Last the refinement of Isa8080: at every edge the CPU, its memories and  *)
(* what they were asked for are what the instruction has made so far of the *)
(* state it began with, which is arch (CycleInv), and a request that is due *)
(* was not taken yet (RequestInv).  Each step of an opcode leads to the     *)
(* next place of its execution, or its end is the one step of Isa8080.      *)
(***************************************************************************)
EXTENDS Cpu8080, TLAPS

USE DEF memVars, intVars, cpuHistory, cpuVars

----------------------------------------------------------------------------
(* What the data path returns. *)

\* Addresses, by their bounds.
LEMMA UpTo == ASSUME NEW n \in Int, NEW x \in Int PROVE x \in 0..n <=> 0 <= x /\ x <= n
  OBVIOUS

LEMMA InAddr == ASSUME NEW x \in Int, 0 <= x, x <= 65535 PROVE x \in Addr
  <1>1. PICK n \in Int : n = 65535
    OBVIOUS
  <1>2. Addr = 0..n
    BY <1>1 DEF Addr
  <1>3. x <= n
    BY <1>1
  <1> QED  BY <1>2, <1>3, UpTo

LEMMA OfAddr == ASSUME NEW x \in Addr PROVE x \in Int /\ 0 <= x /\ x <= 65535
  <1>1. PICK n \in Int : n = 65535
    OBVIOUS
  <1>2. x \in 0..n
    BY <1>1 DEF Addr
  <1>3. x \in Int /\ 0 <= x /\ x <= n
    BY <1>2
  <1> QED  BY <1>1, <1>3

LEMMA ModAddr == \A x \in Int : x % 65536 \in Addr
  <1>1. \A x \in Int : x % 65536 \in Int /\ 0 <= x % 65536 /\ x % 65536 <= 65535
    OBVIOUS
  <1> QED  BY <1>1, InAddr

LEMMA BitType == \A b : Bit(b) \in {0, 1}
  BY DEF Bit

LEMMA BitOfType == ASSUME NEW x \in Nat, NEW w \in Nat \ {0} PROVE BitOf(x, w) \in {0, 1}
  BY DEF BitOf

LEMMA ValueType == \A ones : Value(ones) \in Byte
  <1> SUFFICES ASSUME NEW ones PROVE Value(ones) \in Byte
    OBVIOUS
  <1> DEFINE v(w) == IF w \in ones THEN w ELSE 0
  <1>1. \A w \in Nat : v(w) \in {0, w}
    OBVIOUS
  <1>2. Value(ones) = v(1) + v(2) + v(4) + v(8) + v(16) + v(32) + v(64) + v(128)
    BY DEF Value
  <1> HIDE DEF v
  <1> QED  BY <1>1, <1>2 DEF Byte

LEMMA LogicType == \A x, y : And(x, y) \in Byte /\ Xor(x, y) \in Byte /\ Or(x, y) \in Byte
  BY ValueType DEF And, Xor, Or

LEMMA EvenOnesType == \A x : EvenOnes(x) \in {0, 1}
  BY BitType DEF EvenOnes

LEMMA SZPType == ASSUME NEW f \in Flags, NEW x \in Byte PROVE SZP(f, x) \in Flags
  <1>1. x \div 128 \in {0, 1}
    BY DEF Byte
  <1> QED  BY <1>1, BitType, EvenOnesType, ZenonT(60) DEF SZP, Flags

LEMMA ArithType ==
    ASSUME NEW op \in Byte, NEW a \in Byte, NEW x \in Byte, NEW c \in {0, 1}
    PROVE  Arith(op, a, x, c).val \in Byte /\ Arith(op, a, x, c).carry \in {0, 1}
  <1>1. /\ (a + x) % 256 \in Byte /\ (a + x + c) % 256 \in Byte
        /\ (a - x - c) % 256 \in Byte /\ (a - x) % 256 \in Byte
        /\ (a + x) \div 256 \in {0, 1} /\ (a + x + c) \div 256 \in {0, 1}
    BY DEF Byte
  <1> QED  BY <1>1, LogicType, BitType DEF Arith

LEMMA SteppedType == ASSUME NEW op \in Byte, NEW x \in Byte PROVE Stepped(op, x) \in Byte
  BY DEF Stepped, Byte

LEMMA Halves == \A w \in Addr : w \div 256 \in Byte /\ w % 256 \in Byte
  <1> SUFFICES ASSUME NEW w \in Addr PROVE w \div 256 \in Byte /\ w % 256 \in Byte
    OBVIOUS
  <1>0. w \in Int /\ 0 <= w /\ w <= 65535
    BY OfAddr
  <1>1. w % 256 \in Byte
    BY <1>0 DEF Byte
  <1>2. 0 <= w \div 256 /\ w \div 256 <= 255 /\ w \div 256 \in Int
    BY <1>0
  <1> QED  BY <1>1, <1>2, SMTT(30) DEF Byte

LEMMA Joined == \A hi, lo \in Byte : hi * 256 + lo \in Addr
  <1>1. \A hi, lo \in Byte : hi * 256 + lo \in Int /\ 0 <= hi * 256 + lo /\ hi * 256 + lo <= 65535
    BY DEF Byte
  <1> QED  BY <1>1, InAddr

LEMMA WordType == ASSUME NEW r \in [Registers -> Byte], NEW p \in Registers \X Registers
                  PROVE  Word(r, p) \in Addr
  <1>1. r[p[1]] \in Byte /\ r[p[2]] \in Byte
    OBVIOUS
  <1> QED  BY <1>1, Joined DEF Word

LEMMA WithWordType ==
    ASSUME NEW r \in [Registers -> Byte], NEW p, NEW w \in Addr
    PROVE  WithWord(r, p, w) \in [Registers -> Byte]
  <1>1. w \div 256 \in Byte /\ w % 256 \in Byte
    BY Halves
  <1> QED  BY <1>1 DEF WithWord

LEMMA PairType ==
    /\ \A op \in {\h03, \h13, \h23, \h0B, \h1B, \h2B, \h09, \h19, \h29, \h02, \h12, \h0A, \h1A,
                  \h01, \h11, \h21, \hC5, \hD5, \hE5, \hC1, \hD1, \hE1} :
           Pair(op) \in {<<"B", "C">>, <<"D", "E">>, <<"H", "L">>}
  BY DEF Pair

LEMMA DstType ==
    \A op \in MOV_R \cup EARLY_INR \cup INR \cup DCR \cup MVI \cup FROM_M : Dst(op) \in Registers
  BY DEF Dst, Registers, MOV_R, EARLY_INR, INR, DCR, MVI, FROM_M

LEMMA SrcType ==
    \A op \in MOV_R \cup LOGIC \cup (EARLY \ EARLY_INR) \cup MOV_M : Src(op) \in Registers
  BY DEF Src, Registers, MOV_R, LOGIC, EARLY, EARLY_INR, MOV_M

LEMMA PackedType == ASSUME NEW f \in Flags PROVE Packed(f) \in Byte
  BY DEF Packed, Flags, Byte

LEMMA UnpackedType == ASSUME NEW x \in Byte PROVE Unpacked(x) \in Flags
  BY BitOfType DEF Unpacked, Flags, Byte


\* The results of the opcodes.
LEMMA AccumulateType ==
    ASSUME NEW op \in Byte, NEW r \in [Registers -> Byte], NEW f \in Flags, NEW x \in Byte
    PROVE  /\ Accumulate(op, r, f, x).reg \in [Registers -> Byte]
           /\ Accumulate(op, r, f, x).flag \in Flags
  <1> DEFINE e == Arith(op, r["A"], x, f.carry)
             h == [f EXCEPT !.carry = e.carry]
             g == SZP(h, e.val)
  <1>0. r["A"] \in Byte /\ f.carry \in {0, 1}
    BY DEF Registers, Flags
  <1>1. e.val \in Byte /\ e.carry \in {0, 1}
    BY <1>0, ArithType
  <1> HIDE DEF e
  <1>2. h \in Flags
    BY <1>1 DEF Flags
  <1> HIDE DEF h
  <1>3. g \in Flags
    BY <1>1, <1>2, SZPType
  <1> HIDE DEF g
  <1>4. [g EXCEPT !.ac = 0] \in Flags
    BY <1>3 DEF Flags
  <1>5. [r EXCEPT !["A"] = e.val] \in [Registers -> Byte]
    BY <1>1
  <1>6. Accumulate(op, r, f, x).reg \in {r, [r EXCEPT !["A"] = e.val]}
    BY DEF Accumulate, e
  <1>7. Accumulate(op, r, f, x).flag \in {g, [g EXCEPT !.ac = 0]}
    BY DEF Accumulate, e, h, g
  <1> QED  BY <1>3, <1>4, <1>5, <1>6, <1>7

LEMMA DaaType ==
    ASSUME NEW r \in [Registers -> Byte], NEW f \in Flags
    PROVE  Daa(r, f).reg \in [Registers -> Byte] /\ Daa(r, f).flag \in Flags
  <1> DEFINE a == r["A"]
             low == a % 16 > 9 \/ f.ac = 1
             b == IF low THEN (a + 6) % 256 ELSE a
             high == b \div 16 > 9 \/ f.carry = 1
             d == IF high THEN (b + 96) % 256 ELSE b
             g == SZP(f, d)
             lo == Bit(low /\ a % 16 >= 9)
             hi == Bit(high /\ b \div 16 >= 9)
  <1>1. a \in Byte
    BY DEF Registers
  <1> HIDE DEF a, low
  <1>2. b \in Byte
    BY <1>1 DEF Byte
  <1> HIDE DEF b, high
  <1>3. d \in Byte
    BY <1>2 DEF Byte
  <1> HIDE DEF d
  <1>4. g \in Flags /\ lo \in {0, 1} /\ hi \in {0, 1}
    BY <1>3, SZPType, BitType
  <1> HIDE DEF g, lo, hi
  <1>5. [g EXCEPT !.ac = lo, !.carry = hi] \in Flags
    BY <1>4 DEF Flags
  <1>6. [r EXCEPT !["A"] = d] \in [Registers -> Byte]
    BY <1>3
  <1>7. /\ Daa(r, f).reg = [r EXCEPT !["A"] = d]
        /\ Daa(r, f).flag = [g EXCEPT !.ac = lo, !.carry = hi]
    BY DEF Daa, a, low, b, high, d, g, lo, hi
  <1> QED  BY <1>5, <1>6, <1>7

LEMMA RotateType ==
    ASSUME NEW op \in {\h07, \h0F, \h1F}, NEW r \in [Registers -> Byte], NEW f \in Flags
    PROVE  Rotate(op, r, f).reg \in [Registers -> Byte] /\ Rotate(op, r, f).flag \in Flags
  <1> DEFINE a == r["A"]
             out == IF op = \h07 THEN a \div 128 ELSE a % 2
             b == CASE op = \h07 -> ((2 * a) % 256) + out
                    [] op = \h0F -> a \div 2 + 128 * out
                    [] op = \h1F -> a \div 2 + 128 * f.carry
  <1>1. a \in Byte /\ f.carry \in {0, 1}
    BY DEF Registers, Flags
  <1> HIDE DEF a
  <1>2. a \div 128 \in {0, 1} /\ a % 2 \in {0, 1} /\ a \div 2 \in 0..127
    BY <1>1 DEF Byte
  <1>3. out \in {0, 1}
    BY <1>2
  <1>4. ((2 * a) % 256) + a \div 128 \in Byte
    BY <1>1 DEF Byte
  <1>5. b \in Byte
    <2>1. CASE op = \h07
      BY <1>4, <2>1
    <2>2. CASE op = \h0F
      <3> HIDE DEF out
      <3> QED  BY <1>2, <1>3, <2>2 DEF Byte
    <2>3. CASE op = \h1F
      BY <1>1, <1>2, <2>3 DEF Byte
    <2> QED  BY <2>1, <2>2, <2>3
  <1> HIDE DEF out, b
  <1>6. [f EXCEPT !.carry = out] \in Flags /\ [r EXCEPT !["A"] = b] \in [Registers -> Byte]
    BY <1>3, <1>5 DEF Flags
  <1>7. /\ Rotate(op, r, f).reg = [r EXCEPT !["A"] = b]
        /\ Rotate(op, r, f).flag = [f EXCEPT !.carry = out]
    BY DEF Rotate, a, out, b
  <1> QED  BY <1>6, <1>7


\* What Plain returns, arm by arm.
LEMMA PlainArms ==
    ASSUME NEW op, NEW r, NEW f
    PROVE  LET w == Word(r, Pair(op))
               sum == HL(r) + w
           IN  /\ op \in {\h00, \hFB} => Plain(op, r, f) = [reg |-> r, flag |-> f]
               /\ op \in MOV_R => Plain(op, r, f) = [reg |-> [r EXCEPT ![Dst(op)] = r[Src(op)]], flag |-> f]
               /\ op \in INX => Plain(op, r, f) = [reg |-> WithWord(r, Pair(op), (w + 1) % 65536), flag |-> f]
               /\ op \in DCX => Plain(op, r, f) = [reg |-> WithWord(r, Pair(op), (w - 1) % 65536), flag |-> f]
               /\ op \in DAD => Plain(op, r, f) = [reg |-> WithWord(r, <<"H", "L">>, sum % 65536),
                                                   flag |-> [f EXCEPT !.carry = sum \div 65536]]
               /\ op \in LOGIC => Plain(op, r, f) = Accumulate(op, r, f, r[Src(op)])
               /\ op \in {\h07, \h0F, \h1F} => Plain(op, r, f) = Rotate(op, r, f)
               /\ op = \h27 => Plain(op, r, f) = Daa(r, f)
               /\ op = \h2F => Plain(op, r, f) = [reg |-> [r EXCEPT !["A"] = 255 - @], flag |-> f]
               /\ op = \h37 => Plain(op, r, f) = [reg |-> r, flag |-> [f EXCEPT !.carry = 1]]
               /\ op = \hEB => Plain(op, r, f) = [reg |-> [r EXCEPT !["D"] = r["H"], !["E"] = r["L"],
                                                               !["H"] = r["D"], !["L"] = r["E"]], flag |-> f]
  <1> DEFINE w == Word(r, Pair(op))
             sum == HL(r) + w
             v1 == [reg |-> r, flag |-> f]
             v2 == [reg |-> [r EXCEPT ![Dst(op)] = r[Src(op)]], flag |-> f]
             v3 == [reg |-> WithWord(r, Pair(op), (w + 1) % 65536), flag |-> f]
             v4 == [reg |-> WithWord(r, Pair(op), (w - 1) % 65536), flag |-> f]
             v5 == [reg |-> WithWord(r, <<"H", "L">>, sum % 65536),
                    flag |-> [f EXCEPT !.carry = sum \div 65536]]
             v6 == Accumulate(op, r, f, r[Src(op)])
             v7 == Rotate(op, r, f)
             v8 == Daa(r, f)
             v9 == [reg |-> [r EXCEPT !["A"] = 255 - @], flag |-> f]
             v10 == [reg |-> r, flag |-> [f EXCEPT !.carry = 1]]
             v11 == [reg |-> [r EXCEPT !["D"] = r["H"], !["E"] = r["L"],
                                       !["H"] = r["D"], !["L"] = r["E"]], flag |-> f]
  <1>1. Plain(op, r, f) = CASE op \in {\h00, \hFB} -> v1
                            [] op \in MOV_R -> v2
                            [] op \in INX -> v3
                            [] op \in DCX -> v4
                            [] op \in DAD -> v5
                            [] op \in LOGIC -> v6
                            [] op \in {\h07, \h0F, \h1F} -> v7
                            [] op = \h27 -> v8
                            [] op = \h2F -> v9
                            [] op = \h37 -> v10
                            [] op = \hEB -> v11
    BY DEF Plain
  <1> HIDE DEF v1, v2, v3, v4, v5, v6, v7, v8, v9, v10, v11
  <1>2. /\ op \in {\h00, \hFB} => Plain(op, r, f) = v1
        /\ op \in MOV_R => Plain(op, r, f) = v2
        /\ op \in INX => Plain(op, r, f) = v3
        /\ op \in DCX => Plain(op, r, f) = v4
        /\ op \in DAD => Plain(op, r, f) = v5
        /\ op \in LOGIC => Plain(op, r, f) = v6
        /\ op \in {\h07, \h0F, \h1F} => Plain(op, r, f) = v7
        /\ op = \h27 => Plain(op, r, f) = v8
        /\ op = \h2F => Plain(op, r, f) = v9
        /\ op = \h37 => Plain(op, r, f) = v10
        /\ op = \hEB => Plain(op, r, f) = v11
    BY <1>1 DEF MOV_R, INX, DCX, DAD, LOGIC
  <1> QED  BY <1>2 DEF v1, v2, v3, v4, v5, v6, v7, v8, v9, v10, v11

LEMMA SumType ==
    ASSUME NEW v \in Addr, NEW w \in Addr
    PROVE  /\ (w + 1) % 65536 \in Addr /\ (w - 1) % 65536 \in Addr
           /\ (v + w) % 65536 \in Addr /\ (v + w) \div 65536 \in {0, 1}
  <1>0. v \in Int /\ 0 <= v /\ v <= 65535 /\ w \in Int /\ 0 <= w /\ w <= 65535
    BY OfAddr
  <1>2. w + 1 \in Int /\ w - 1 \in Int /\ v + w \in Int
    BY <1>0
  <1>3. (v + w) \div 65536 \in {0, 1}
    BY <1>0
  <1> QED  BY <1>2, <1>3, ModAddr

LEMMA PlainType ==
    ASSUME NEW op \in PLAIN, NEW r \in [Registers -> Byte], NEW f \in Flags
    PROVE  Plain(op, r, f).reg \in [Registers -> Byte] /\ Plain(op, r, f).flag \in Flags
  <1> DEFINE w == Word(r, Pair(op))
             sum == HL(r) + w
  <1>0. op \in Byte
    BY DEF PLAIN, MOV_R, INX, DCX, DAD, LOGIC, Byte
  <1>2. CASE op \in {\h00, \hFB}
    <2>1. Plain(op, r, f) = [reg |-> r, flag |-> f]
      BY <1>2, PlainArms
    <2> QED  BY <2>1
  <1>3. CASE op \in MOV_R
    <2> DEFINE x == [r EXCEPT ![Dst(op)] = r[Src(op)]]
    <2>1. x \in [Registers -> Byte]
      BY <1>3, SrcType
    <2>2. Plain(op, r, f) = [reg |-> x, flag |-> f]
      BY <1>3, PlainArms
    <2> HIDE DEF x
    <2> QED  BY <2>1, <2>2
  <1>4. CASE op \in INX \cup DCX \cup DAD
    <2>1. Pair(op) \in Registers \X Registers
      BY <1>4, PairType DEF INX, DCX, DAD, Registers
    <2>2. w \in Addr /\ HL(r) \in Addr
      <3>1. <<"H", "L">> \in Registers \X Registers
        BY DEF Registers
      <3> QED  BY <2>1, <3>1, WordType DEF HL
    <2> HIDE DEF w
    <2>3. /\ (w + 1) % 65536 \in Addr /\ (w - 1) % 65536 \in Addr
          /\ sum % 65536 \in Addr /\ sum \div 65536 \in {0, 1}
      BY <2>2, SumType
    <2> HIDE DEF sum
    <2>4. [f EXCEPT !.carry = sum \div 65536] \in Flags
      BY <2>3 DEF Flags
    <2>5. CASE op \in INX
      <3>1. Plain(op, r, f) = [reg |-> WithWord(r, Pair(op), (w + 1) % 65536), flag |-> f]
        BY <2>5, PlainArms DEF w
      <3> QED  BY <2>3, <3>1, WithWordType
    <2>6. CASE op \in DCX
      <3>1. Plain(op, r, f) = [reg |-> WithWord(r, Pair(op), (w - 1) % 65536), flag |-> f]
        BY <2>6, PlainArms DEF w
      <3> QED  BY <2>3, <3>1, WithWordType
    <2>7. CASE op \in DAD
      <3> DEFINE g == [f EXCEPT !.carry = sum \div 65536]
      <3>1. Plain(op, r, f) = [reg |-> WithWord(r, <<"H", "L">>, sum % 65536), flag |-> g]
        BY <2>7, PlainArms DEF w, sum
      <3> HIDE DEF g
      <3> QED  BY <2>3, <2>4, <3>1, WithWordType DEF g
    <2> QED  BY <1>4, <2>5, <2>6, <2>7
  <1>5. CASE op \in LOGIC
    <2>1. Plain(op, r, f) = Accumulate(op, r, f, r[Src(op)])
      BY <1>5, PlainArms
    <2>2. r[Src(op)] \in Byte
      BY <1>5, SrcType
    <2> QED  BY <1>0, <2>1, <2>2, AccumulateType
  <1>6. CASE op \in {\h07, \h0F, \h1F}
    <2>1. Plain(op, r, f) = Rotate(op, r, f)
      BY <1>6, PlainArms
    <2> QED  BY <1>6, <2>1, RotateType
  <1>7. CASE op = \h27
    <2>1. Plain(op, r, f) = Daa(r, f)
      BY <1>7, PlainArms
    <2> QED  BY <2>1, DaaType
  <1>8. CASE op = \h2F
    <2> DEFINE x == [r EXCEPT !["A"] = 255 - @]
    <2>1. Plain(op, r, f) = [reg |-> x, flag |-> f]
      BY <1>8, PlainArms
    <2>2. r["A"] \in Byte
      BY DEF Registers
    <2>3. 255 - r["A"] \in Byte
      BY <2>2 DEF Byte
    <2>4. x \in [Registers -> Byte]
      BY <2>3
    <2> HIDE DEF x
    <2> QED  BY <2>1, <2>4
  <1>9. CASE op = \h37
    <2> DEFINE g == [f EXCEPT !.carry = 1]
    <2>1. Plain(op, r, f) = [reg |-> r, flag |-> g]
      BY <1>9, PlainArms
    <2>2. g \in Flags
      BY DEF Flags
    <2> HIDE DEF g
    <2> QED  BY <2>1, <2>2
  <1>10. CASE op = \hEB
    <2> DEFINE x == [r EXCEPT !["D"] = r["H"], !["E"] = r["L"], !["H"] = r["D"], !["L"] = r["E"]]
    <2>1. Plain(op, r, f) = [reg |-> x, flag |-> f]
      BY <1>10, PlainArms
    <2>2. x \in [Registers -> Byte]
      BY DEF Registers
    <2> HIDE DEF x
    <2> QED  BY <2>1, <2>2
  <1> QED  BY <1>2, <1>3, <1>4, <1>5, <1>6, <1>7, <1>8, <1>9, <1>10 DEF PLAIN

LEMMA EarlyType ==
    ASSUME NEW op \in EARLY, NEW r \in [Registers -> Byte], NEW f \in Flags
    PROVE  /\ Early(op, r, f).reg \in [Registers -> Byte]
           /\ Early(op, r, f).carry \in {0, 1} /\ Early(op, r, f).tmp \in Byte
  <1>0. op \in Byte /\ f.carry \in {0, 1} /\ r["A"] \in Byte
    BY DEF EARLY, EARLY_INR, Byte, Flags, Registers
  <1> DEFINE y == (r[Dst(op)] + 1) % 256
             s == [reg |-> [r EXCEPT ![Dst(op)] = y], carry |-> f.carry, tmp |-> y]
             e == Arith(op, r["A"], r[Src(op)], f.carry)
             x == IF Row(op) = 7 THEN r ELSE [r EXCEPT !["A"] = e.val]
             t == [reg |-> x, carry |-> e.carry, tmp |-> e.val]
  <1>a. Early(op, r, f) = IF op \in EARLY_INR THEN s ELSE t
    BY DEF Early
  <1>1. CASE op \in EARLY_INR
    <2>1. r[Dst(op)] \in Byte
      BY <1>1, DstType
    <2>2. y \in Byte
      BY <2>1 DEF Byte
    <2>3. Early(op, r, f) = s
      <3> HIDE DEF s, t
      <3> QED  BY <1>1, <1>a
    <2> HIDE DEF y
    <2>4. [r EXCEPT ![Dst(op)] = y] \in [Registers -> Byte]
      BY <2>2
    <2>5. s.reg = [r EXCEPT ![Dst(op)] = y] /\ s.carry = f.carry /\ s.tmp = y
      OBVIOUS
    <2> HIDE DEF s
    <2> QED  BY <1>0, <2>2, <2>3, <2>4, <2>5
  <1>2. CASE op \notin EARLY_INR
    <2>1. r[Src(op)] \in Byte
      BY <1>2, SrcType
    <2>2. e.val \in Byte /\ e.carry \in {0, 1}
      BY <1>0, <2>1, ArithType
    <2>3. Early(op, r, f) = t
      <3> HIDE DEF s, t
      <3> QED  BY <1>2, <1>a
    <2> HIDE DEF e
    <2>4. x \in [Registers -> Byte]
      BY <2>2
    <2> HIDE DEF x
    <2> QED  BY <2>2, <2>3, <2>4
  <1> QED  BY <1>1, <1>2

LEMMA PortType ==
    ASSUME NEW n \in {1, 2, 3}, NEW k, NEW shift \in Addr, NEW offset \in 0..7
    PROVE  Port(n, k, shift, offset) \in Byte
  <1> DEFINE Key(b, weight) == IF b \in k THEN weight ELSE 0
             m == <<256, 128, 64, 32, 16, 8, 4, 2>>[offset + 1]
  <1>1. \A b, x \in Nat : Key(b, x) \in {0, x}
    OBVIOUS
  <1>2. m \in Nat \ {0}
    OBVIOUS
  <1>3. Port(n, k, shift, offset)
          = <<Key(6, 64) + Key(4, 32) + Key(5, 16) + 8 + Key(15, 4) + Key(13, 1),
              Key(14, 4), (shift \div m) % 256>>[n]
    BY DEF Port
  <1> HIDE DEF Key, m
  <1>4. /\ Key(6, 64) + Key(4, 32) + Key(5, 16) + 8 + Key(15, 4) + Key(13, 1) \in Byte
        /\ Key(14, 4) \in Byte
    BY <1>1, SMTT(30) DEF Byte
  <1>5. (shift \div m) % 256 \in Byte
    <2>1. shift \div m \in Int
      BY <1>2 DEF Addr
    <2> QED  BY <2>1 DEF Byte
  <1> QED  BY <1>3, <1>4, <1>5


----------------------------------------------------------------------------
(* The registers, by name. *)

\* Every register of the clocked block and what its bits can hold.
Width ==
    [state |-> 0..5, func |-> 0..7, op |-> Byte, b2 |-> Byte, b3 |-> Byte, pc |-> Addr, sp |-> Addr,
     reg |-> [Registers -> Byte], flag |-> Flags, tmp |-> Byte, tmp2 |-> Addr, set_flags |-> BOOLEAN,
     cycles_remain |-> 0..(4 * CYCLE_MULTIPLICATOR - 4), opcode_unk |-> BOOLEAN, can_debug |-> BOOLEAN,
     int_enabled |-> BOOLEAN, int_op |-> BOOLEAN, int_rst_prev |-> 0..31, shift |-> Addr, offset |-> 0..7,
     sound1 |-> Byte, sound2 |-> Byte]
Fields ==
    {"state", "func", "op", "b2", "b3", "pc", "sp", "reg", "flag", "tmp", "tmp2", "set_flags",
     "cycles_remain", "opcode_unk", "can_debug", "int_enabled", "int_op", "int_rst_prev", "shift",
     "offset", "sound1", "sound2"}

RegsType == DOMAIN cpu = Fields /\ \A f \in Fields : cpu[f] \in Width[f]
BusType == /\ DOMAIN port = {"wren", "addr", "data", "raddr"}
           /\ port.wren \in BOOLEAN /\ port.addr \in BusAddr /\ port.data \in Byte /\ port.raddr \in RomAddr
MemType == /\ q \in Byte /\ rom_rdata \in Byte /\ rom \in Programs
           /\ \A a \in DOMAIN ram : a \in RamAddr /\ ram[a] \in Byte
IntType == /\ {int_rst, int_old, due} \subseteq Vectors \cup {0} /\ since \in 0..MinGap
           /\ restarts \in Nat /\ whole \in BOOLEAN

TypeInv == RegsType /\ BusType /\ MemType /\ IntType

\* c is what Ticked holds, but for the registers of F.
Changed(c, F) == DOMAIN c = Fields /\ \A f \in Fields \ F : c[f] = Ticked[f]

\* A step sets the registers of F only, besides what every edge does.
Only(F) == DOMAIN cpu' = Fields /\ \A f \in Fields \ F : cpu'[f] = Ticked[f]

\* The ways it ends: with a further step of the opcode, with the opcode's last or only step, or
\* with a jump.
NextStep(F) == Only(F \cup {"func"}) /\ cpu'.func = cpu.func + 1
Past == (cpu.pc + Bytes(cpu.op)) % 65536
OneStep(F) == Only(F \cup {"state", "pc"}) /\ cpu'.state = 0 /\ cpu'.pc = Past
LastStep(F) == Only(F \cup {"state", "pc", "func"}) /\ cpu'.state = 0 /\ cpu'.func = 0 /\ cpu'.pc = Past
JumpStep(F, t) == Only(F \cup {"state", "pc", "func"}) /\ cpu'.state = 0 /\ cpu'.func = 0 /\ cpu'.pc = t

LEMMA TickedFields ==
    ASSUME RegsType
    PROVE  /\ DOMAIN Ticked = Fields
           /\ \A f \in Fields \ {"cycles_remain", "b3"} : Ticked[f] = cpu[f]
           /\ Ticked.cycles_remain = IF cpu.state = 3 THEN 4 * CYCLE_MULTIPLICATOR - 4
                                     ELSE IF cpu.cycles_remain > 0 THEN cpu.cycles_remain - 1 ELSE 0
           /\ Ticked.b3 = IF cpu.state = 4 THEN rom_rdata ELSE cpu.b3
  <1> DEFINE v == IF cpu.state = 3 THEN 4 * CYCLE_MULTIPLICATOR - 4
                  ELSE IF cpu.cycles_remain > 0 THEN cpu.cycles_remain - 1 ELSE 0
             w == IF cpu.state = 4 THEN rom_rdata ELSE cpu.b3
             d == [cpu EXCEPT !.cycles_remain = v, !.b3 = w]
  <1>1. Ticked = d
    BY DEF Ticked
  <1>2. "cycles_remain" \in DOMAIN cpu /\ "b3" \in DOMAIN cpu /\ DOMAIN cpu = Fields
    BY DEF RegsType, Fields
  <1> HIDE DEF v, w
  <1>3. /\ DOMAIN d = DOMAIN cpu /\ d.cycles_remain = v /\ d.b3 = w
        /\ \A f \in DOMAIN cpu \ {"cycles_remain", "b3"} : d[f] = cpu[f]
    BY <1>2
  <1> HIDE DEF d
  <1> QED  BY <1>1, <1>2, <1>3 DEF v, w

LEMMA TickedType ==
    ASSUME RegsType, rom_rdata \in Byte
    PROVE  \A f \in Fields : Ticked[f] \in Width[f]
  <1>1. cpu.state \in 0..5 /\ cpu.cycles_remain \in 0..(4 * CYCLE_MULTIPLICATOR - 4) /\ cpu.b3 \in Byte
    BY DEF RegsType, Width, Fields
  <1>2. Ticked.cycles_remain \in 0..(4 * CYCLE_MULTIPLICATOR - 4)
    BY <1>1, TickedFields, CpuAssumption
  <1>3. Ticked.b3 \in Byte
    BY <1>1, TickedFields
  <1>4. Width.cycles_remain = 0..(4 * CYCLE_MULTIPLICATOR - 4) /\ Width.b3 = Byte
    BY DEF Width
  <1> QED  BY <1>2, <1>3, <1>4, TickedFields DEF RegsType

LEMMA OnlyType ==
    ASSUME RegsType, rom_rdata \in Byte, NEW F, Only(F), \A f \in F : cpu'[f] \in Width[f]
    PROVE  RegsType'
  <1>1. Width' = Width /\ Fields' = Fields
    BY DEF Width, Fields
  <1> QED  BY <1>1, TickedType DEF Only, RegsType

----------------------------------------------------------------------------
(* How a step ends, over registers already changed. *)

LEMMA MoreFields ==
    ASSUME NEW c, NEW F, Changed(c, F), "func" \notin F, More(c), RegsType
    PROVE  NextStep(F) /\ \A f \in F : f \in Fields => cpu'[f] = c[f]
  <1>1. c.func = cpu.func
    BY TickedFields DEF Changed, Fields
  <1>2. "func" \in DOMAIN c /\ DOMAIN c = Fields
    BY DEF Changed, Fields
  <1>3. DOMAIN cpu' = Fields /\ cpu'.func = c.func + 1 /\ \A f \in Fields \ {"func"} : cpu'[f] = c[f]
    BY <1>2 DEF More
  <1> QED  BY <1>1, <1>3 DEF Changed, Only, NextStep

LEMMA EndsFields ==
    ASSUME NEW c, NEW F, Changed(c, F), "pc" \notin F, Ends(c), RegsType
    PROVE  OneStep(F) /\ \A f \in F \ {"state"} : f \in Fields => cpu'[f] = c[f]
  <1>1. c.pc = cpu.pc
    BY TickedFields DEF Changed, Fields
  <1>2. {"state", "pc"} \subseteq DOMAIN c /\ DOMAIN c = Fields
    BY DEF Changed, Fields
  <1> DEFINE x == (c.pc + Bytes(cpu.op)) % 65536
  <1>3. cpu' = [c EXCEPT !.state = 0, !.pc = x]
    BY DEF Ends
  <1>4. x = (cpu.pc + Bytes(cpu.op)) % 65536
    BY <1>1
  <1> HIDE DEF x
  <1>5. /\ DOMAIN cpu' = Fields /\ cpu'.state = 0 /\ cpu'.pc = x
        /\ \A f \in Fields \ {"state", "pc"} : cpu'[f] = c[f]
    BY <1>2, <1>3
  <1> QED  BY <1>4, <1>5 DEF Changed, Only, OneStep, Past

LEMMA DoneFields ==
    ASSUME NEW c, NEW F, Changed(c, F), "pc" \notin F, Done(c), RegsType
    PROVE  LastStep(F) /\ \A f \in F \ {"state", "func"} : f \in Fields => cpu'[f] = c[f]
  <1> DEFINE d == [c EXCEPT !.func = 0]
  <1>1. Ends(d)
    BY DEF Done
  <1>2. "func" \in DOMAIN c /\ DOMAIN c = Fields
    BY DEF Changed, Fields
  <1>3. DOMAIN d = Fields /\ d.func = 0 /\ \A f \in Fields \ {"func"} : d[f] = c[f]
    BY <1>2
  <1> HIDE DEF d
  <1> DEFINE G == F \cup {"func"}
  <1>4. Changed(d, G) /\ "pc" \notin G
    BY <1>3 DEF Changed, Only
  <1> HIDE DEF G
  <1>5. OneStep(G) /\ \A f \in G \ {"state"} : f \in Fields => cpu'[f] = d[f]
    BY <1>1, <1>4, EndsFields
  <1>7. "func" \in Fields /\ "func" \in G
    BY DEF Fields, G
  <1>8. \A f \in F \ {"state", "func"} : f \in Fields => cpu'[f] = c[f]
    BY <1>3, <1>5 DEF G
  <1>9. Only(F \cup {"state", "pc", "func"})
    BY <1>5 DEF Only, OneStep, G
  <1> QED  BY <1>3, <1>5, <1>7, <1>8, <1>9 DEF OneStep, LastStep

LEMMA GoesFields ==
    ASSUME NEW c, NEW F, Changed(c, F), NEW t, Goes(c, t), RegsType
    PROVE  JumpStep(F, t) /\ \A f \in F \ {"state", "pc", "func"} : f \in Fields => cpu'[f] = c[f]
  <1>2. {"state", "pc", "func"} \subseteq DOMAIN c /\ DOMAIN c = Fields
    BY DEF Changed, Fields
  <1>3. cpu' = [c EXCEPT !.func = 0, !.state = 0, !.pc = t]
    BY DEF Goes
  <1>5. DOMAIN cpu' = Fields /\ cpu'.state = 0 /\ cpu'.pc = t /\ cpu'.func = 0
        /\ \A f \in Fields \ {"state", "pc", "func"} : cpu'[f] = c[f]
    BY <1>2, <1>3
  <1> QED  BY <1>5 DEF Changed, Only, JumpStep


\* One register, two, three or four, set over Ticked.
LEMMA SetOne ==
    ASSUME RegsType, NEW f \in Fields, NEW x
    PROVE  Changed([Ticked EXCEPT ![f] = x], {f}) /\ [Ticked EXCEPT ![f] = x][f] = x
  BY TickedFields DEF Changed

LEMMA SetNone == ASSUME RegsType PROVE Changed(Ticked, {})
  BY TickedFields DEF Changed

\* The ends of steps that set no register of their own.
LEMMA PlainEnds ==
    ASSUME RegsType
    PROVE  /\ More(Ticked) => NextStep({})
           /\ Ends(Ticked) => OneStep({})
           /\ Done(Ticked) => LastStep({})
  BY SetNone, MoreFields, EndsFields, DoneFields

\* And of those that set one.
LEMMA SetMore ==
    ASSUME RegsType, NEW f \in Fields \ {"func"}, NEW x, More([Ticked EXCEPT ![f] = x])
    PROVE  NextStep({f}) /\ cpu'[f] = x
  <1> DEFINE c == [Ticked EXCEPT ![f] = x]
  <1>1. Changed(c, {f}) /\ c[f] = x
    BY SetOne
  <1>2. More(c)
    OBVIOUS
  <1> HIDE DEF c
  <1> QED  BY <1>1, <1>2, MoreFields

LEMMA SetEnds ==
    ASSUME RegsType, NEW f \in Fields \ {"state", "pc"}, NEW x, Ends([Ticked EXCEPT ![f] = x])
    PROVE  OneStep({f}) /\ cpu'[f] = x
  <1> DEFINE c == [Ticked EXCEPT ![f] = x]
  <1>1. Changed(c, {f}) /\ c[f] = x
    BY SetOne
  <1>2. Ends(c)
    OBVIOUS
  <1> HIDE DEF c
  <1> QED  BY <1>1, <1>2, EndsFields

LEMMA SetDone ==
    ASSUME RegsType, NEW f \in Fields \ {"state", "pc", "func"}, NEW x, Done([Ticked EXCEPT ![f] = x])
    PROVE  LastStep({f}) /\ cpu'[f] = x
  <1> DEFINE c == [Ticked EXCEPT ![f] = x]
  <1>1. Changed(c, {f}) /\ c[f] = x
    BY SetOne
  <1>2. Done(c)
    OBVIOUS
  <1> HIDE DEF c
  <1> QED  BY <1>1, <1>2, DoneFields

LEMMA SetGoes ==
    ASSUME RegsType, NEW f \in Fields \ {"state", "pc", "func"}, NEW x, NEW t,
           Goes([Ticked EXCEPT ![f] = x], t)
    PROVE  JumpStep({f}, t) /\ cpu'[f] = x
  <1> DEFINE c == [Ticked EXCEPT ![f] = x]
  <1>1. Changed(c, {f}) /\ c[f] = x
    BY SetOne
  <1>2. Goes(c, t)
    OBVIOUS
  <1> HIDE DEF c
  <1> QED  BY <1>1, <1>2, GoesFields


----------------------------------------------------------------------------
(* What each action does to the registers. *)

LEMMA StartEffect ==
    ASSUME RegsType, Start
    PROVE  /\ cpu.state = 0 /\ cpu.cycles_remain = 0
           /\ Only({"state", "int_rst_prev", "int_enabled", "int_op"})
           /\ cpu'.state = 1
           /\ \E seen, kept \in Samples :
                LET accepted == cpu.int_enabled /\ seen # cpu.int_rst_prev
                IN  /\ cpu'.int_rst_prev = kept
                    /\ cpu'.int_enabled = (cpu.int_enabled /\ ~accepted)
                    /\ cpu'.int_op = (cpu.int_op \/ accepted)
                    /\ due' = IF accepted \/ kept # int_rst THEN due ELSE 0
  <1> DEFINE accepted(seen) == cpu.int_enabled /\ seen # cpu.int_rst_prev
             c(seen, kept) == [Ticked EXCEPT !.state = 1, !.int_rst_prev = kept,
                                      !.int_enabled = @ /\ ~accepted(seen),
                                      !.int_op = @ \/ accepted(seen)]
  <1>1. PICK seen \in Samples, kept \in Samples :
            cpu' = c(seen, kept) /\ due' = IF accepted(seen) \/ kept # int_rst THEN due ELSE 0
    BY DEF Start
  <1> DEFINE d == c(seen, kept)
  <1>2. Ticked.int_enabled = cpu.int_enabled /\ Ticked.int_op = cpu.int_op /\ DOMAIN Ticked = Fields
    BY TickedFields DEF Fields
  <1> DEFINE ie == Ticked.int_enabled /\ ~accepted(seen)
             io == Ticked.int_op \/ accepted(seen)
  <1>3. d = [Ticked EXCEPT !.state = 1, !.int_rst_prev = kept, !.int_enabled = ie, !.int_op = io]
    OBVIOUS
  <1>4. ie = (cpu.int_enabled /\ ~accepted(seen)) /\ io = (cpu.int_op \/ accepted(seen))
    BY <1>2
  <1> HIDE DEF ie, io, c
  <1>5. /\ DOMAIN cpu' = Fields /\ cpu'.state = 1 /\ cpu'.int_rst_prev = kept /\ cpu'.int_enabled = ie
        /\ cpu'.int_op = io
        /\ \A f \in Fields \ {"state", "int_rst_prev", "int_enabled", "int_op"} : cpu'[f] = Ticked[f]
    BY <1>1, <1>2, <1>3, ZenonT(60) DEF Fields
  <1>6. Only({"state", "int_rst_prev", "int_enabled", "int_op"})
    BY <1>5 DEF Only
  <1>7. cpu.state = 0 /\ cpu.cycles_remain = 0
    BY DEF Start
  <1> QED  BY <1>1, <1>4, <1>5, <1>6, <1>7

LEMMA WaitEffect ==
    ASSUME RegsType, Wait
    PROVE  cpu.state = 0 /\ Only({}) /\ Idle
  BY SetNone DEF Wait, Changed, Only

LEMMA FetchEffect ==
    ASSUME RegsType, Fetch
    PROVE  cpu.state = 1 /\ ~cpu.int_op /\ Only({"state"}) /\ cpu'.state = 2
  <1>1. cpu' = [Ticked EXCEPT !.state = 2] /\ cpu.state = 1 /\ ~cpu.int_op
    BY DEF Fetch
  <1>2. "state" \in Fields
    BY DEF Fields
  <1> QED  BY <1>1, <1>2, TickedFields DEF Only

LEMMA VectorEffect ==
    ASSUME RegsType, Vector
    PROVE  /\ cpu.state = 1 /\ cpu.int_op
           /\ \/ /\ cpu.func = 0 /\ Write((cpu.sp - 1) % 65536, cpu.pc \div 256)
                 /\ NextStep({}) /\ UNCHANGED due
              \/ /\ cpu.func = 1 /\ Write((cpu.sp - 2) % 65536, cpu.pc % 256)
                 /\ NextStep({}) /\ UNCHANGED due
              \/ /\ cpu.func > 1 /\ Release /\ due' = 0
                 /\ Only({"state", "pc", "func", "sp", "int_op"})
                 /\ cpu'.state = 0 /\ cpu'.func = 0 /\ cpu'.pc \in Samples
                 /\ cpu'.sp = (cpu.sp - 2) % 65536 /\ cpu'.int_op \in BOOLEAN /\ ~cpu'.int_op
  <1>1. cpu.state = 1 /\ cpu.int_op /\ (cpu.func = 0 \/ cpu.func = 1 \/ cpu.func > 1)
    BY DEF Vector
  <1>2. More(Ticked) => NextStep({})
    BY PlainEnds
  <1>3. CASE cpu.func = 0
    <2>1. Write((cpu.sp - 1) % 65536, cpu.pc \div 256) /\ More(Ticked) /\ UNCHANGED due
      BY <1>3 DEF Vector
    <2> QED  BY <1>1, <1>2, <1>3, <2>1
  <1>4. CASE cpu.func = 1
    <2>1. Write((cpu.sp - 2) % 65536, cpu.pc % 256) /\ More(Ticked) /\ UNCHANGED due
      BY <1>4 DEF Vector
    <2> QED  BY <1>1, <1>2, <1>4, <2>1
  <1>5. CASE cpu.func > 1
    <2> DEFINE x == (Ticked.sp - 2) % 65536
               c == [Ticked EXCEPT !.sp = x, !.int_op = FALSE]
    <2>1. PICK v \in Samples : Goes(c, v)
      BY <1>5 DEF Vector
    <2>2. DOMAIN Ticked = Fields /\ {"sp", "int_op"} \subseteq Fields /\ Ticked.sp = cpu.sp
      BY TickedFields DEF Fields
    <2>3. x = (cpu.sp - 2) % 65536
      BY <2>2
    <2> HIDE DEF x
    <2>4. Changed(c, {"sp", "int_op"}) /\ c.sp = x /\ c.int_op \in BOOLEAN /\ ~c.int_op
      BY <2>2 DEF Changed
    <2> HIDE DEF c
    <2>5. JumpStep({"sp", "int_op"}, v) /\ cpu'.sp = c.sp /\ cpu'.int_op = c.int_op
      BY <2>1, <2>2, <2>4, GoesFields
    <2>6. Only({"state", "pc", "func", "sp", "int_op"}) /\ cpu'.state = 0 /\ cpu'.func = 0 /\ cpu'.pc = v
      BY <2>5 DEF JumpStep, Only
    <2>7. Release /\ due' = 0
      BY <1>5 DEF Vector
    <2>8. cpu'.int_op \in BOOLEAN /\ ~cpu'.int_op
      BY <2>4, <2>5, Zenon
    <2>9. cpu'.sp = (cpu.sp - 2) % 65536
      BY <2>3, <2>4, <2>5
    <2> QED  BY <1>1, <1>5, <2>6, <2>7, <2>8, <2>9
  <1> QED  BY <1>1, <1>3, <1>4, <1>5

LEMMA OpcodeEffect ==
    ASSUME RegsType, Opcode
    PROVE  LET e == Early(rom_rdata, cpu.reg, cpu.flag)
           IN  /\ cpu.state = 2 /\ cpu'.state = 3 /\ cpu'.op = rom_rdata
               /\ cpu'.set_flags \in BOOLEAN /\ (cpu'.set_flags <=> rom_rdata \in EARLY)
               /\ IF rom_rdata \in EARLY
                    THEN /\ Only({"state", "op", "set_flags", "reg", "flag", "tmp"})
                         /\ cpu'.reg = e.reg /\ cpu'.tmp = e.tmp
                         /\ cpu'.flag = [cpu.flag EXCEPT !.carry = e.carry]
                    ELSE Only({"state", "op", "set_flags"})
  <1> DEFINE b == rom_rdata \in EARLY
             e == Early(rom_rdata, cpu.reg, cpu.flag)
             c == [Ticked EXCEPT !.state = 3, !.op = rom_rdata, !.set_flags = b]
             g == [c.flag EXCEPT !.carry = e.carry]
             d == [c EXCEPT !.reg = e.reg, !.flag = g, !.tmp = e.tmp]
  <1>1. /\ cpu.state = 2
        /\ cpu' = IF b THEN [c EXCEPT !.reg = e.reg, !.flag.carry = e.carry, !.tmp = e.tmp] ELSE c
    BY DEF Opcode
  <1>2. DOMAIN Ticked = Fields /\ Ticked.flag = cpu.flag
        /\ {"state", "op", "set_flags", "reg", "flag", "tmp"} \subseteq Fields
    BY TickedFields DEF Fields
  <1> HIDE DEF e
  <1>3. /\ DOMAIN c = Fields /\ c.state = 3 /\ c.op = rom_rdata /\ c.set_flags = b
        /\ \A f \in Fields \ {"state", "op", "set_flags"} : c[f] = Ticked[f]
    <2> HIDE DEF b
    <2> QED  BY <1>2
  <1>4. [c EXCEPT !.reg = e.reg, !.flag.carry = e.carry, !.tmp = e.tmp] = d
    <2> HIDE DEF c
    <2> QED  BY <1>2, <1>3
  <1>5. cpu' = IF b THEN d ELSE c
    BY <1>1, <1>4
  <1>6. g = [cpu.flag EXCEPT !.carry = e.carry]
    BY <1>2, <1>3
  <1> HIDE DEF c, g, b
  <1>7. /\ DOMAIN d = Fields /\ d.reg = e.reg /\ d.flag = g /\ d.tmp = e.tmp
        /\ \A f \in Fields \ {"reg", "flag", "tmp"} : d[f] = c[f]
    BY <1>2, <1>3
  <1> HIDE DEF d
  <1>8. cpu'.state = 3 /\ cpu'.op = rom_rdata /\ cpu'.set_flags = b
    BY <1>2, <1>3, <1>5, <1>7
  <1>11. b \in BOOLEAN
    BY DEF b
  <1>12. cpu'.set_flags \in BOOLEAN /\ (cpu'.set_flags <=> b)
    BY <1>8, <1>11
  <1>9. CASE b
    <2>1. Only({"state", "op", "set_flags", "reg", "flag", "tmp"})
      BY <1>3, <1>5, <1>7, <1>9 DEF Only
    <2>2. cpu'.reg = e.reg /\ cpu'.tmp = e.tmp /\ cpu'.flag = g
      BY <1>5, <1>7, <1>9
    <2> QED  BY <1>1, <1>6, <1>8, <1>9, <1>12, <2>1, <2>2 DEF b, e
  <1>10. CASE ~b
    <2>1. Only({"state", "op", "set_flags"})
      BY <1>3, <1>5, <1>10 DEF Only
    <2> QED  BY <1>1, <1>8, <1>10, <1>12, <2>1 DEF b, e
  <1> QED  BY <1>9, <1>10

LEMMA SetFlagsEffect ==
    ASSUME RegsType, SetFlags
    PROVE  /\ cpu.state = 3 /\ cpu.set_flags /\ Idle
           /\ OneStep({"flag"}) /\ cpu'.flag = SZP(cpu.flag, cpu.tmp)
  <1> DEFINE x == SZP(Ticked.flag, cpu.tmp)
  <1>1. /\ cpu.state = 3 /\ cpu.set_flags /\ Idle
        /\ Ends([Ticked EXCEPT !.flag = x])
    BY DEF SetFlags
  <1>2. "flag" \in Fields /\ x = SZP(cpu.flag, cpu.tmp)
    BY TickedFields DEF Fields
  <1> HIDE DEF x
  <1> QED  BY <1>1, <1>2, SetEnds

LEMMA SecondByteEffect ==
    ASSUME RegsType, SecondByte
    PROVE  /\ cpu.state = 3 /\ ~cpu.set_flags /\ cpu.op \in TwoBytes \cup ThreeBytes /\ Idle
           /\ Only({"state", "b2"}) /\ cpu'.state = 4 /\ cpu'.b2 = rom_rdata
  <1>1. DOMAIN Ticked = Fields /\ {"state", "b2"} \subseteq Fields
    BY TickedFields DEF Fields
  <1>2. /\ cpu.state = 3 /\ ~cpu.set_flags /\ cpu.op \in TwoBytes \cup ThreeBytes /\ Idle
        /\ cpu' = [Ticked EXCEPT !.state = 4, !.b2 = rom_rdata]
    BY DEF SecondByte
  <1> QED  BY <1>1, <1>2 DEF Only

LEMMA ThirdByteEffect ==
    ASSUME RegsType, ThirdByte
    PROVE  /\ cpu.state = 4 /\ cpu.op \in ThreeBytes /\ Idle /\ cpu'.state = 5
           /\ IF cpu.op \in CALL
                THEN /\ Only({"state", "pc", "func"})
                     /\ cpu'.pc = (cpu.pc + 3) % 65536 /\ cpu'.func = 0
                ELSE Only({"state"})
  <1> DEFINE x == (Ticked.pc + 3) % 65536
  <1>1. DOMAIN Ticked = Fields /\ {"state", "pc", "func"} \subseteq Fields /\ Ticked.pc = cpu.pc
    BY TickedFields DEF Fields
  <1>2. /\ cpu.state = 4 /\ cpu.op \in ThreeBytes /\ Idle
        /\ cpu' = IF cpu.op \in CALL
                    THEN [Ticked EXCEPT !.state = 5, !.pc = x, !.func = 0]
                    ELSE [Ticked EXCEPT !.state = 5]
    BY DEF ThirdByte
  <1>3. x = (cpu.pc + 3) % 65536
    BY <1>1
  <1> HIDE DEF x
  <1>4. CASE cpu.op \in CALL
    <2>1. cpu' = [Ticked EXCEPT !.state = 5, !.pc = x, !.func = 0]
      BY <1>2, <1>4
    <2>2. Only({"state", "pc", "func"})
      BY <1>1, <2>1 DEF Only
    <2>3. cpu'.state = 5 /\ cpu'.pc = x /\ cpu'.func = 0
      BY <1>1, <2>1
    <2> QED  BY <1>2, <1>3, <1>4, <2>2, <2>3
  <1>5. CASE cpu.op \notin CALL
    <2>1. cpu' = [Ticked EXCEPT !.state = 5]
      BY <1>2, <1>5
    <2> QED  BY <1>1, <1>2, <1>5, <2>1 DEF Only
  <1> QED  BY <1>4, <1>5

LEMMA UnknownEffect ==
    ASSUME RegsType, Unknown \/ Debug
    PROVE  Only({"opcode_unk"}) /\ cpu'.opcode_unk = TRUE /\ Idle
  <1>1. Idle /\ cpu' = [Ticked EXCEPT !.opcode_unk = TRUE]
    BY DEF Unknown, Debug
  <1>2. "opcode_unk" \in Fields
    BY DEF Fields
  <1> QED  BY <1>1, <1>2, TickedFields DEF Only


LEMMA DoPlainEffect ==
    ASSUME RegsType, DoPlain
    PROVE  /\ Executes(PLAIN) /\ Idle /\ OneStep({"reg", "flag", "int_enabled"})
           /\ LET e == Plain(cpu.op, cpu.reg, cpu.flag)
              IN  cpu'.reg = e.reg /\ cpu'.flag = e.flag
           /\ cpu'.int_enabled = (cpu.int_enabled \/ cpu.op = \hFB)
  <1> DEFINE e == Plain(cpu.op, cpu.reg, cpu.flag)
             ie == Ticked.int_enabled \/ cpu.op = \hFB
             c == [Ticked EXCEPT !.reg = e.reg, !.flag = e.flag, !.int_enabled = ie]
  <1>1. Executes(PLAIN) /\ Idle /\ Ends(c)
    BY DEF DoPlain
  <1>2. ie = (cpu.int_enabled \/ cpu.op = \hFB) /\ DOMAIN Ticked = Fields
        /\ {"reg", "flag", "int_enabled"} \subseteq Fields
    BY TickedFields DEF Fields
  <1> HIDE DEF e, ie
  <1>3. /\ Changed(c, {"reg", "flag", "int_enabled"})
        /\ c.reg = e.reg /\ c.flag = e.flag /\ c.int_enabled = ie
    BY <1>2 DEF Changed
  <1> HIDE DEF c
  <1>4. /\ OneStep({"reg", "flag", "int_enabled"})
        /\ cpu'.reg = e.reg /\ cpu'.flag = e.flag /\ cpu'.int_enabled = ie
    BY <1>1, <1>2, <1>3, EndsFields
  <1> QED  BY <1>1, <1>2, <1>4 DEF e

LEMMA DoMviEffect ==
    ASSUME RegsType, DoMvi
    PROVE  /\ Executes(MVI) /\ Idle /\ OneStep({"reg"})
           /\ cpu'.reg = [cpu.reg EXCEPT ![Dst(cpu.op)] = cpu.b2]
  <1> DEFINE x == [Ticked.reg EXCEPT ![Dst(cpu.op)] = cpu.b2]
  <1>1. "reg" \in Fields /\ DOMAIN Ticked = Fields /\ Ticked.reg = cpu.reg
    BY TickedFields DEF Fields
  <1>2. [Ticked EXCEPT !.reg[Dst(cpu.op)] = cpu.b2] = [Ticked EXCEPT !.reg = x]
    BY <1>1
  <1>3. Executes(MVI) /\ Idle /\ Ends([Ticked EXCEPT !.reg = x])
    BY <1>2 DEF DoMvi
  <1>4. x = [cpu.reg EXCEPT ![Dst(cpu.op)] = cpu.b2]
    BY <1>1
  <1> HIDE DEF x
  <1> QED  BY <1>1, <1>3, <1>4, SetEnds

LEMMA DoLxiEffect ==
    ASSUME RegsType, DoLxi
    PROVE  /\ Executes(LXI) /\ Idle
           /\ IF cpu.op = \h31
                THEN OneStep({"sp"}) /\ cpu'.sp = Operand
                ELSE OneStep({"reg"}) /\ cpu'.reg = WithWord(cpu.reg, Pair(cpu.op), Operand)
  <1> DEFINE x == WithWord(Ticked.reg, Pair(cpu.op), Operand)
  <1>1. {"reg", "sp"} \subseteq Fields /\ x = WithWord(cpu.reg, Pair(cpu.op), Operand)
    BY TickedFields DEF Fields
  <1>2. /\ Executes(LXI) /\ Idle
        /\ IF cpu.op = \h31 THEN Ends([Ticked EXCEPT !.sp = Operand]) ELSE Ends([Ticked EXCEPT !.reg = x])
    BY DEF DoLxi
  <1> HIDE DEF x
  <1>3. CASE cpu.op = \h31
    BY <1>1, <1>2, <1>3, SetEnds
  <1>4. CASE cpu.op # \h31
    BY <1>1, <1>2, <1>4, SetEnds
  <1> QED  BY <1>3, <1>4

LEMMA DoJumpEffect ==
    ASSUME RegsType, DoJump
    PROVE  /\ Executes(JUMP \cup {\hE9}) /\ Idle
           /\ IF cpu.op = \hE9 \/ Holds(cpu.op, cpu.flag)
                THEN /\ Only({"state", "pc"}) /\ cpu'.state = 0
                     /\ cpu'.pc = IF cpu.op = \hE9 THEN HL(cpu.reg) ELSE Operand
                ELSE OneStep({})
  <1> DEFINE t == IF cpu.op = \hE9 THEN HL(cpu.reg) ELSE Operand
             taken == cpu.op = \hE9 \/ Holds(cpu.op, cpu.flag)
  <1>1. /\ Executes(JUMP \cup {\hE9}) /\ Idle
        /\ IF taken THEN cpu' = [Ticked EXCEPT !.state = 0, !.pc = t] ELSE Ends(Ticked)
    BY DEF DoJump
  <1>2. DOMAIN Ticked = Fields /\ {"state", "pc"} \subseteq Fields
    BY TickedFields DEF Fields
  <1>3. CASE taken
    <2>1. cpu' = [Ticked EXCEPT !.state = 0, !.pc = t]
      BY <1>1, <1>3
    <2> HIDE DEF t
    <2>2. Only({"state", "pc"}) /\ cpu'.state = 0 /\ cpu'.pc = t
      BY <1>2, <2>1 DEF Only
    <2> QED  BY <1>1, <1>3, <2>2 DEF t
  <1>4. CASE ~taken
    BY <1>1, <1>4, PlainEnds
  <1> QED  BY <1>3, <1>4

LEMMA DoInEffect ==
    ASSUME RegsType, DoIn
    PROVE  /\ Executes({\hDB}) /\ Idle
           /\ IF cpu.b2 \in {1, 2, 3}
                THEN /\ OneStep({"reg"})
                     /\ \E k \in Keys :
                          cpu'.reg = [cpu.reg EXCEPT !["A"] = Port(cpu.b2, k, cpu.shift, cpu.offset)]
                ELSE OneStep({"opcode_unk"}) /\ cpu'.opcode_unk = TRUE
  <1>1. {"reg", "opcode_unk"} \subseteq Fields /\ DOMAIN Ticked = Fields /\ Ticked.reg = cpu.reg
    BY TickedFields DEF Fields
  <1>2. Executes({\hDB}) /\ Idle
    BY DEF DoIn
  <1>3. CASE cpu.b2 \in {1, 2, 3}
    <2>1. PICK k \in Keys : Ends([Ticked EXCEPT !.reg["A"] = Port(cpu.b2, k, cpu.shift, cpu.offset)])
      BY <1>3 DEF DoIn
    <2> DEFINE p == Port(cpu.b2, k, cpu.shift, cpu.offset)
               x == [Ticked.reg EXCEPT !["A"] = p]
    <2>2. [Ticked EXCEPT !.reg["A"] = p] = [Ticked EXCEPT !.reg = x]
      BY <1>1
    <2>3. Ends([Ticked EXCEPT !.reg = x])
      BY <2>1, <2>2
    <2>4. x = [cpu.reg EXCEPT !["A"] = p]
      BY <1>1
    <2> HIDE DEF x
    <2>5. OneStep({"reg"}) /\ cpu'.reg = x
      BY <1>1, <2>3, SetEnds
    <2> QED  BY <1>2, <1>3, <2>4, <2>5
  <1>4. CASE cpu.b2 \notin {1, 2, 3}
    <2>1. Ends([Ticked EXCEPT !.opcode_unk = TRUE])
      BY <1>4 DEF DoIn
    <2> QED  BY <1>1, <1>2, <1>4, <2>1, SetEnds
  <1> QED  BY <1>3, <1>4

LEMMA DoOutEffect ==
    ASSUME RegsType, DoOut
    PROVE  LET a == cpu.reg["A"]
           IN  /\ Executes({\hD3}) /\ Idle
               /\ \/ cpu.b2 = 6 /\ OneStep({})
                  \/ cpu.b2 = 2 /\ OneStep({"offset"}) /\ cpu'.offset = a % 8
                  \/ cpu.b2 = 3 /\ OneStep({"sound1"}) /\ cpu'.sound1 = a
                  \/ cpu.b2 = 4 /\ OneStep({"shift"}) /\ cpu'.shift = a * 256 + cpu.shift \div 256
                  \/ cpu.b2 = 5 /\ OneStep({"sound2"}) /\ cpu'.sound2 = a
                  \/ cpu.b2 \notin 2..6 /\ Only({"opcode_unk"}) /\ cpu'.opcode_unk = TRUE
  <1> DEFINE a == cpu.reg["A"]
             x == a * 256 + Ticked.shift \div 256
             y == a % 8
  <1>1. /\ {"offset", "sound1", "sound2", "shift", "opcode_unk"} \subseteq Fields /\ DOMAIN Ticked = Fields
        /\ x = a * 256 + cpu.shift \div 256
    BY TickedFields DEF Fields
  <1>2. /\ Executes({\hD3}) /\ Idle
        /\ \/ cpu.b2 = 6 /\ Ends(Ticked)
           \/ cpu.b2 = 2 /\ Ends([Ticked EXCEPT !.offset = y])
           \/ cpu.b2 = 3 /\ Ends([Ticked EXCEPT !.sound1 = a])
           \/ cpu.b2 = 4 /\ Ends([Ticked EXCEPT !.shift = x])
           \/ cpu.b2 = 5 /\ Ends([Ticked EXCEPT !.sound2 = a])
           \/ cpu.b2 \notin 2..6 /\ cpu' = [Ticked EXCEPT !.opcode_unk = TRUE]
    BY DEF DoOut
  <1> HIDE DEF x
  <1>3. ASSUME Ends([Ticked EXCEPT !.offset = y]) PROVE OneStep({"offset"}) /\ cpu'.offset = y
    BY <1>1, <1>3, SetEnds
  <1>4. ASSUME Ends([Ticked EXCEPT !.sound1 = a]) PROVE OneStep({"sound1"}) /\ cpu'.sound1 = a
    BY <1>1, <1>4, SetEnds
  <1>5. ASSUME Ends([Ticked EXCEPT !.shift = x]) PROVE OneStep({"shift"}) /\ cpu'.shift = x
    BY <1>1, <1>5, SetEnds
  <1>6. ASSUME Ends([Ticked EXCEPT !.sound2 = a]) PROVE OneStep({"sound2"}) /\ cpu'.sound2 = a
    BY <1>1, <1>6, SetEnds
  <1>7. ASSUME cpu' = [Ticked EXCEPT !.opcode_unk = TRUE] PROVE Only({"opcode_unk"}) /\ cpu'.opcode_unk = TRUE
    BY <1>1, <1>7 DEF Only
  <1>8. Ends(Ticked) => OneStep({})
    BY PlainEnds
  <1> QED  BY <1>1, <1>2, <1>3, <1>4, <1>5, <1>6, <1>7, <1>8

LEMMA DoIncDecEffect ==
    ASSUME RegsType, DoIncDec
    PROVE  /\ Executes(INR \cup DCR) /\ Idle
           /\ IF cpu.func = 0
                THEN /\ NextStep({"reg"})
                     /\ cpu'.reg = [cpu.reg EXCEPT ![Dst(cpu.op)] = Stepped(cpu.op, @)]
                ELSE LastStep({"flag"}) /\ cpu'.flag = SZP(cpu.flag, cpu.reg[Dst(cpu.op)])
  <1> DEFINE a == Dst(cpu.op)
             x == [Ticked.reg EXCEPT ![a] = Stepped(cpu.op, @)]
             f == SZP(Ticked.flag, cpu.reg[a])
  <1>1. /\ {"reg", "flag"} \subseteq Fields /\ DOMAIN Ticked = Fields
        /\ Ticked.reg = cpu.reg /\ Ticked.flag = cpu.flag
    BY TickedFields DEF Fields
  <1>2. [Ticked EXCEPT !.reg[a] = Stepped(cpu.op, @)] = [Ticked EXCEPT !.reg = x]
    BY <1>1
  <1>3. Executes(INR \cup DCR) /\ Idle
    BY DEF DoIncDec
  <1>4. cpu.func = 0 => More([Ticked EXCEPT !.reg = x])
    BY <1>2 DEF DoIncDec
  <1>5. cpu.func # 0 => Done([Ticked EXCEPT !.flag = f])
    BY DEF DoIncDec
  <1>6. x = [cpu.reg EXCEPT ![a] = Stepped(cpu.op, @)] /\ f = SZP(cpu.flag, cpu.reg[a])
    BY <1>1
  <1> HIDE DEF x, f
  <1>7. CASE cpu.func = 0
    BY <1>1, <1>3, <1>4, <1>6, <1>7, SetMore
  <1>8. CASE cpu.func # 0
    BY <1>1, <1>3, <1>5, <1>6, <1>8, SetDone
  <1> QED  BY <1>7, <1>8


LEMMA DoAluIEffect ==
    ASSUME RegsType, DoAluI
    PROVE  LET e == Arith(cpu.op, cpu.reg["A"], cpu.b2, cpu.flag.carry)
               late == Row(cpu.op) > 3
           IN  /\ Executes(ALU_I) /\ Idle
               /\ IF cpu.func = 0
                    THEN IF Row(cpu.op) = 7
                           THEN NextStep({"tmp"}) /\ cpu'.tmp = e.val
                           ELSE /\ NextStep({"reg", "flag"})
                                /\ cpu'.reg = [cpu.reg EXCEPT !["A"] = e.val]
                                /\ cpu'.flag = [cpu.flag EXCEPT !.carry = IF late THEN @ ELSE e.carry]
                    ELSE /\ LastStep({"flag"})
                         /\ cpu'.flag = IF Row(cpu.op) = 7
                                          THEN SZP([cpu.flag EXCEPT !.carry = e.carry], cpu.tmp)
                                          ELSE SZP(IF late THEN [cpu.flag EXCEPT !.carry = 0] ELSE cpu.flag,
                                                   cpu.reg["A"])
  <1> DEFINE e == Arith(cpu.op, cpu.reg["A"], cpu.b2, cpu.flag.carry)
             late == Row(cpu.op) > 3
             x == [Ticked.reg EXCEPT !["A"] = e.val]
             f == [Ticked.flag EXCEPT !.carry = IF late THEN @ ELSE e.carry]
             c == [Ticked EXCEPT !.reg = x, !.flag = f]
             h == IF Row(cpu.op) = 7
                    THEN SZP([Ticked.flag EXCEPT !.carry = e.carry], cpu.tmp)
                    ELSE SZP(IF late THEN [Ticked.flag EXCEPT !.carry = 0] ELSE Ticked.flag, cpu.reg["A"])
  <1>1. /\ {"tmp", "reg", "flag"} \subseteq Fields /\ DOMAIN Ticked = Fields
        /\ Ticked.reg = cpu.reg /\ Ticked.flag = cpu.flag
    BY TickedFields DEF Fields
  <1>2. Executes(ALU_I) /\ Idle
    BY DEF DoAluI
  <1>3. CASE cpu.func = 0 /\ Row(cpu.op) = 7
    <2>1. More([Ticked EXCEPT !.tmp = e.val])
      BY <1>3 DEF DoAluI
    <2>2. NextStep({"tmp"}) /\ cpu'.tmp = e.val
      <3> HIDE DEF e
      <3> QED  BY <1>1, <2>1, SetMore
    <2> QED  BY <1>2, <1>3, <2>2
  <1>4. CASE cpu.func = 0 /\ Row(cpu.op) # 7
    <2>1. [Ticked EXCEPT !.reg["A"] = e.val, !.flag.carry = IF late THEN @ ELSE e.carry] = c
      <3> HIDE DEF e, late
      <3> QED  BY <1>1
    <2>2. More([Ticked EXCEPT !.reg["A"] = e.val, !.flag.carry = IF late THEN @ ELSE e.carry])
      BY <1>4 DEF DoAluI
    <2>3. More(c)
      BY <2>1, <2>2
    <2>4. x = [cpu.reg EXCEPT !["A"] = e.val] /\ f = [cpu.flag EXCEPT !.carry = IF late THEN @ ELSE e.carry]
      BY <1>1
    <2> HIDE DEF x, f
    <2>5. Changed(c, {"reg", "flag"}) /\ c.reg = x /\ c.flag = f
      BY <1>1 DEF Changed
    <2> HIDE DEF c
    <2>6. NextStep({"reg", "flag"}) /\ cpu'.reg = x /\ cpu'.flag = f
      BY <1>1, <2>3, <2>5, MoreFields
    <2> QED  BY <1>2, <1>4, <2>4, <2>6
  <1>5. CASE cpu.func # 0
    <2>1. Done([Ticked EXCEPT !.flag = h])
      BY <1>5 DEF DoAluI
    <2>2. h = IF Row(cpu.op) = 7
                THEN SZP([cpu.flag EXCEPT !.carry = e.carry], cpu.tmp)
                ELSE SZP(IF late THEN [cpu.flag EXCEPT !.carry = 0] ELSE cpu.flag, cpu.reg["A"])
      BY <1>1
    <2> HIDE DEF h
    <2>3. LastStep({"flag"}) /\ cpu'.flag = h
      BY <1>1, <2>1, SetDone
    <2> QED  BY <1>2, <1>5, <2>2, <2>3
  <1> QED  BY <1>3, <1>4, <1>5

LEMMA DoStoreEffect ==
    ASSUME RegsType, DoStore
    PROVE  /\ Executes(STORE)
           /\ IF cpu.func = 0
                THEN /\ Write(StoreAddr(cpu.op, cpu.reg, Operand), StoreByte(cpu.op, cpu.reg, cpu.b2))
                     /\ NextStep({})
                ELSE Release /\ LastStep({})
  BY PlainEnds DEF DoStore

LEMMA DoLoadEffect ==
    ASSUME RegsType, DoLoad
    PROVE  LET a == LoadAddr(cpu.op, cpu.reg, Operand)
           IN  /\ Executes(LOAD)
               /\ \/ cpu.func = 0 /\ Look(cpu.op, a, a) /\ NextStep({})
                  \/ cpu.func = 1 /\ Idle /\ NextStep({})
                  \/ /\ cpu.func > 1 /\ Idle /\ LastStep({"reg"})
                     /\ cpu'.reg = [cpu.reg EXCEPT ![LoadReg(cpu.op)] = Got(cpu.op, a)]
  <1> DEFINE a == LoadAddr(cpu.op, cpu.reg, Operand)
             b == Got(cpu.op, a)
             x == [Ticked.reg EXCEPT ![LoadReg(cpu.op)] = b]
  <1>1. "reg" \in Fields /\ DOMAIN Ticked = Fields /\ Ticked.reg = cpu.reg
    BY TickedFields DEF Fields
  <1>2. [Ticked EXCEPT !.reg[LoadReg(cpu.op)] = b] = [Ticked EXCEPT !.reg = x]
    <2> HIDE DEF b
    <2> QED  BY <1>1
  <1>3. /\ Executes(LOAD)
        /\ \/ cpu.func = 0 /\ Look(cpu.op, a, a) /\ More(Ticked)
           \/ cpu.func = 1 /\ Idle /\ More(Ticked)
           \/ cpu.func > 1 /\ Idle /\ Done([Ticked EXCEPT !.reg = x])
    BY <1>2 DEF DoLoad
  <1>4. x = [cpu.reg EXCEPT ![LoadReg(cpu.op)] = b]
    BY <1>1
  <1> HIDE DEF x
  <1>5. ASSUME Done([Ticked EXCEPT !.reg = x]) PROVE LastStep({"reg"}) /\ cpu'.reg = x
    BY <1>1, <1>5, SetDone
  <1>6. More(Ticked) => NextStep({})
    BY PlainEnds
  <1> QED  BY <1>3, <1>4, <1>5, <1>6

LEMMA DoAluMEffect ==
    ASSUME RegsType, DoAluM
    PROVE  LET a == HL(cpu.reg)
               e == Arith(cpu.op, cpu.reg["A"], Got(cpu.op, a), cpu.flag.carry)
               logic == cpu.op \in {\hA6, \hB6}
           IN  /\ Executes(ALU_M)
               /\ \/ cpu.func = 0 /\ Look(cpu.op, a, a) /\ NextStep({})
                  \/ cpu.func = 1 /\ Idle /\ NextStep({})
                  \/ /\ cpu.func = 2 /\ Idle
                     /\ IF cpu.op = \hBE
                          THEN /\ NextStep({"tmp", "flag"}) /\ cpu'.tmp = e.val
                               /\ cpu'.flag = [cpu.flag EXCEPT !.carry = e.carry]
                          ELSE /\ NextStep({"reg", "flag"})
                               /\ cpu'.reg = [cpu.reg EXCEPT !["A"] = e.val]
                               /\ cpu'.flag = [cpu.flag EXCEPT !.carry = IF logic THEN @ ELSE e.carry]
                  \/ /\ cpu.func > 2 /\ Idle /\ LastStep({"flag"})
                     /\ LET g == SZP(cpu.flag, IF cpu.op = \hBE THEN cpu.tmp ELSE cpu.reg["A"])
                        IN  cpu'.flag = IF logic THEN [g EXCEPT !.ac = 0, !.carry = 0] ELSE g
  <1> DEFINE a == HL(cpu.reg)
             e == Arith(cpu.op, cpu.reg["A"], Got(cpu.op, a), cpu.flag.carry)
             logic == cpu.op \in {\hA6, \hB6}
             x == [Ticked.reg EXCEPT !["A"] = e.val]
             f == [Ticked.flag EXCEPT !.carry = IF logic THEN @ ELSE e.carry]
             k == [Ticked.flag EXCEPT !.carry = e.carry]
             c == [Ticked EXCEPT !.reg = x, !.flag = f]
             d == [Ticked EXCEPT !.tmp = e.val, !.flag = k]
             g == SZP(cpu.flag, IF cpu.op = \hBE THEN cpu.tmp ELSE cpu.reg["A"])
             h == IF logic THEN [g EXCEPT !.ac = 0, !.carry = 0] ELSE g
  <1>1. /\ {"tmp", "reg", "flag"} \subseteq Fields /\ DOMAIN Ticked = Fields
        /\ Ticked.reg = cpu.reg /\ Ticked.flag = cpu.flag
    BY TickedFields DEF Fields
  <1>2. Executes(ALU_M) /\ (cpu.func = 0 \/ cpu.func = 1 \/ cpu.func = 2 \/ cpu.func > 2)
    BY DEF DoAluM
  <1>3. More(Ticked) => NextStep({})
    BY PlainEnds
  <1>4. CASE cpu.func = 0
    <2>1. Look(cpu.op, a, a) /\ More(Ticked)
      BY <1>4 DEF DoAluM
    <2> QED  BY <1>2, <1>3, <1>4, <2>1
  <1>5. CASE cpu.func = 1
    <2>1. Idle /\ More(Ticked)
      BY <1>5 DEF DoAluM
    <2> QED  BY <1>2, <1>3, <1>5, <2>1
  <1>6. CASE cpu.func = 2 /\ cpu.op = \hBE
    <2>1. Idle /\ More([Ticked EXCEPT !.tmp = e.val, !.flag.carry = e.carry])
      BY <1>6 DEF DoAluM
    <2>2. [Ticked EXCEPT !.tmp = e.val, !.flag.carry = e.carry] = d
      <3> HIDE DEF e
      <3> QED  BY <1>1
    <2>3. More(d)
      BY <2>1, <2>2
    <2>4. k = [cpu.flag EXCEPT !.carry = e.carry]
      BY <1>1
    <2> HIDE DEF k, e
    <2>5. Changed(d, {"tmp", "flag"}) /\ d.tmp = e.val /\ d.flag = k
      BY <1>1 DEF Changed
    <2> HIDE DEF d
    <2>6. NextStep({"tmp", "flag"}) /\ cpu'.tmp = e.val /\ cpu'.flag = k
      BY <1>1, <2>3, <2>5, MoreFields
    <2> QED  BY <1>2, <1>6, <2>1, <2>4, <2>6 DEF e
  <1>7. CASE cpu.func = 2 /\ cpu.op # \hBE
    <2>1. Idle /\ More([Ticked EXCEPT !.reg["A"] = e.val, !.flag.carry = IF logic THEN @ ELSE e.carry])
      BY <1>7 DEF DoAluM
    <2>2. [Ticked EXCEPT !.reg["A"] = e.val, !.flag.carry = IF logic THEN @ ELSE e.carry] = c
      <3> HIDE DEF e, logic
      <3> QED  BY <1>1
    <2>3. More(c)
      BY <2>1, <2>2
    <2>4. x = [cpu.reg EXCEPT !["A"] = e.val] /\ f = [cpu.flag EXCEPT !.carry = IF logic THEN @ ELSE e.carry]
      BY <1>1
    <2> HIDE DEF x, f
    <2>5. Changed(c, {"reg", "flag"}) /\ c.reg = x /\ c.flag = f
      BY <1>1 DEF Changed
    <2> HIDE DEF c
    <2>6. NextStep({"reg", "flag"}) /\ cpu'.reg = x /\ cpu'.flag = f
      BY <1>1, <2>3, <2>5, MoreFields
    <2> QED  BY <1>2, <1>7, <2>1, <2>4, <2>6
  <1>8. CASE cpu.func > 2
    <2>1. Idle /\ Done([Ticked EXCEPT !.flag = h])
      BY <1>8 DEF DoAluM
    <2> HIDE DEF h
    <2>2. LastStep({"flag"}) /\ cpu'.flag = h
      BY <1>1, <2>1, SetDone
    <2> QED  BY <1>2, <1>8, <2>1, <2>2 DEF h
  <1> QED  BY <1>2, <1>4, <1>5, <1>6, <1>7, <1>8

LEMMA DoStepMEffect ==
    ASSUME RegsType, DoStepM
    PROVE  LET x == Stepped(cpu.op, q)
           IN  /\ Executes(STEP_M)
               /\ \/ cpu.func = 0 /\ Read(HL(cpu.reg)) /\ NextStep({})
                  \/ cpu.func = 1 /\ Idle /\ NextStep({})
                  \/ cpu.func = 2 /\ Write(HL(cpu.reg), x) /\ NextStep({"tmp"}) /\ cpu'.tmp = x
                  \/ /\ cpu.func > 2 /\ Release /\ LastStep({"flag"})
                     /\ cpu'.flag = SZP(cpu.flag, cpu.tmp)
  <1> DEFINE x == Stepped(cpu.op, q)
             f == SZP(Ticked.flag, cpu.tmp)
  <1>1. {"tmp", "flag"} \subseteq Fields /\ f = SZP(cpu.flag, cpu.tmp)
    BY TickedFields DEF Fields
  <1>2. /\ Executes(STEP_M)
        /\ \/ cpu.func = 0 /\ Read(HL(cpu.reg)) /\ More(Ticked)
           \/ cpu.func = 1 /\ Idle /\ More(Ticked)
           \/ cpu.func = 2 /\ Write(HL(cpu.reg), x) /\ More([Ticked EXCEPT !.tmp = x])
           \/ cpu.func > 2 /\ Release /\ Done([Ticked EXCEPT !.flag = f])
    BY DEF DoStepM
  <1> HIDE DEF x, f
  <1>3. More(Ticked) => NextStep({})
    BY PlainEnds
  <1>4. ASSUME More([Ticked EXCEPT !.tmp = x]) PROVE NextStep({"tmp"}) /\ cpu'.tmp = x
    BY <1>1, <1>4, SetMore
  <1>5. ASSUME Done([Ticked EXCEPT !.flag = f]) PROVE LastStep({"flag"}) /\ cpu'.flag = f
    BY <1>1, <1>5, SetDone
  <1> QED  BY <1>1, <1>2, <1>3, <1>4, <1>5 DEF x


\* The stack pointer two lower, or two higher, over Ticked.
LEMMA LowerSp ==
    ASSUME RegsType
    PROVE  /\ Done([Ticked EXCEPT !.sp = (@ - 2) % 65536]) =>
                LastStep({"sp"}) /\ cpu'.sp = (cpu.sp - 2) % 65536
           /\ \A t : Goes([Ticked EXCEPT !.sp = (@ - 2) % 65536], t) =>
                JumpStep({"sp"}, t) /\ cpu'.sp = (cpu.sp - 2) % 65536
  <1> DEFINE x == (Ticked.sp - 2) % 65536
  <1>0. "sp" \in Fields
    BY DEF Fields
  <1>1. x = (cpu.sp - 2) % 65536
    BY TickedFields DEF Fields
  <1>2. [Ticked EXCEPT !.sp = (@ - 2) % 65536] = [Ticked EXCEPT !.sp = x]
    OBVIOUS
  <1> HIDE DEF x
  <1>3. ASSUME Done([Ticked EXCEPT !.sp = x]) PROVE LastStep({"sp"}) /\ cpu'.sp = x
    BY <1>0, <1>3, SetDone
  <1>4. ASSUME NEW t, Goes([Ticked EXCEPT !.sp = x], t) PROVE JumpStep({"sp"}, t) /\ cpu'.sp = x
    BY <1>0, <1>4, SetGoes
  <1> QED  BY <1>1, <1>2, <1>3, <1>4 DEF x

LEMMA RaiseSp ==
    ASSUME RegsType
    PROVE  /\ Done([Ticked EXCEPT !.sp = (@ + 2) % 65536]) =>
                LastStep({"sp"}) /\ cpu'.sp = (cpu.sp + 2) % 65536
           /\ \A t : Goes([Ticked EXCEPT !.sp = (@ + 2) % 65536], t) =>
                JumpStep({"sp"}, t) /\ cpu'.sp = (cpu.sp + 2) % 65536
  <1> DEFINE x == (Ticked.sp + 2) % 65536
  <1>0. "sp" \in Fields
    BY DEF Fields
  <1>1. x = (cpu.sp + 2) % 65536
    BY TickedFields DEF Fields
  <1>2. [Ticked EXCEPT !.sp = (@ + 2) % 65536] = [Ticked EXCEPT !.sp = x]
    OBVIOUS
  <1> HIDE DEF x
  <1>3. ASSUME Done([Ticked EXCEPT !.sp = x]) PROVE LastStep({"sp"}) /\ cpu'.sp = x
    BY <1>0, <1>3, SetDone
  <1>4. ASSUME NEW t, Goes([Ticked EXCEPT !.sp = x], t) PROVE JumpStep({"sp"}, t) /\ cpu'.sp = x
    BY <1>0, <1>4, SetGoes
  <1> QED  BY <1>1, <1>2, <1>3, <1>4 DEF x

LEMMA DoPushEffect ==
    ASSUME RegsType, DoPush
    PROVE  /\ Executes(PUSH)
           /\ \/ /\ cpu.func = 0 /\ Write((cpu.sp - 1) % 65536, PushHigh(cpu.op, cpu.reg)) /\ NextStep({})
              \/ /\ cpu.func = 1 /\ Write((cpu.sp - 2) % 65536, PushLow(cpu.op, cpu.reg, cpu.flag))
                 /\ NextStep({})
              \/ cpu.func > 1 /\ Release /\ LastStep({"sp"}) /\ cpu'.sp = (cpu.sp - 2) % 65536
  BY LowerSp, PlainEnds DEF DoPush, PushSteps

LEMMA DoCallEffect ==
    ASSUME RegsType, DoCall
    PROVE  /\ Executes(CALL)
           /\ IF Holds(cpu.op, cpu.flag) \/ (cpu.op = \hD4 /\ cpu.func > 0)
                THEN \/ cpu.func = 0 /\ Write((cpu.sp - 1) % 65536, cpu.pc \div 256) /\ NextStep({})
                     \/ cpu.func = 1 /\ Write((cpu.sp - 2) % 65536, cpu.pc % 256) /\ NextStep({})
                     \/ /\ cpu.func > 1 /\ Release /\ JumpStep({"sp"}, Operand)
                        /\ cpu'.sp = (cpu.sp - 2) % 65536
                ELSE Idle /\ Only({"state"}) /\ cpu'.state = 0
  <1> DEFINE taken == Holds(cpu.op, cpu.flag) \/ (cpu.op = \hD4 /\ cpu.func > 0)
  <1>1. CASE taken
    BY <1>1, LowerSp, PlainEnds DEF DoCall, PushSteps
  <1>2. CASE ~taken
    <2>1. Executes(CALL) /\ Idle /\ cpu' = [Ticked EXCEPT !.state = 0]
      BY <1>2 DEF DoCall
    <2>2. "state" \in Fields
      BY DEF Fields
    <2>3. Only({"state"}) /\ cpu'.state = 0
      BY <2>1, <2>2, TickedFields DEF Only
    <2> QED  BY <1>2, <2>1, <2>3
  <1> QED  BY <1>1, <1>2

LEMMA DoPopEffect ==
    ASSUME RegsType, DoPop
    PROVE  /\ Executes(POP)
           /\ \/ cpu.func = 0 /\ Read(cpu.sp) /\ NextStep({})
              \/ cpu.func = 1 /\ Read((cpu.sp + 1) % 65536) /\ NextStep({})
              \/ /\ cpu.func = 2 /\ Idle
                 /\ IF cpu.op = \hF1
                      THEN NextStep({"flag"}) /\ cpu'.flag = Unpacked(q)
                      ELSE NextStep({"reg"}) /\ cpu'.reg = [cpu.reg EXCEPT ![Pair(cpu.op)[2]] = q]
              \/ /\ cpu.func = 3 /\ Idle /\ NextStep({"reg"})
                 /\ cpu'.reg = [cpu.reg EXCEPT ![IF cpu.op = \hF1 THEN "A" ELSE Pair(cpu.op)[1]] = q]
              \/ cpu.func > 3 /\ Idle /\ LastStep({"sp"}) /\ cpu'.sp = (cpu.sp + 2) % 65536
  <1> DEFINE lo == Pair(cpu.op)[2]
             hi == IF cpu.op = \hF1 THEN "A" ELSE Pair(cpu.op)[1]
             f == Unpacked(q)
             x == [Ticked.reg EXCEPT ![lo] = q]
             y == [Ticked.reg EXCEPT ![hi] = q]
  <1>1. {"reg", "flag"} \subseteq Fields /\ DOMAIN Ticked = Fields /\ Ticked.reg = cpu.reg
    BY TickedFields DEF Fields
  <1>2. Executes(POP) /\ (cpu.func = 0 \/ cpu.func = 1 \/ cpu.func = 2 \/ cpu.func = 3 \/ cpu.func > 3)
    BY DEF DoPop, PopSteps
  <1>3. More(Ticked) => NextStep({})
    BY PlainEnds
  <1>4. CASE cpu.func = 0
    <2>1. Read(cpu.sp) /\ More(Ticked)
      BY <1>4 DEF DoPop, PopSteps
    <2> QED  BY <1>2, <1>3, <1>4, <2>1
  <1>5. CASE cpu.func = 1
    <2>1. Read((cpu.sp + 1) % 65536) /\ More(Ticked)
      BY <1>5 DEF DoPop, PopSteps
    <2> QED  BY <1>2, <1>3, <1>5, <2>1
  <1>6. CASE cpu.func = 2 /\ cpu.op = \hF1
    <2>1. Idle /\ More([Ticked EXCEPT !.flag = f])
      BY <1>6 DEF DoPop, PopSteps
    <2> HIDE DEF f
    <2>2. NextStep({"flag"}) /\ cpu'.flag = f
      BY <1>1, <2>1, SetMore
    <2> QED  BY <1>2, <1>6, <2>1, <2>2 DEF f
  <1>7. CASE cpu.func = 2 /\ cpu.op # \hF1
    <2>1. Idle /\ More([Ticked EXCEPT !.reg[lo] = q])
      BY <1>7 DEF DoPop, PopSteps
    <2>2. [Ticked EXCEPT !.reg[lo] = q] = [Ticked EXCEPT !.reg = x]
      BY <1>1
    <2>3. x = [cpu.reg EXCEPT ![lo] = q]
      BY <1>1
    <2>4. More([Ticked EXCEPT !.reg = x])
      BY <2>1, <2>2
    <2> HIDE DEF x
    <2>5. NextStep({"reg"}) /\ cpu'.reg = x
      BY <1>1, <2>4, SetMore
    <2> QED  BY <1>2, <1>7, <2>1, <2>3, <2>5
  <1>8. CASE cpu.func = 3
    <2>1. Idle /\ More([Ticked EXCEPT !.reg[hi] = q])
      BY <1>8 DEF DoPop, PopSteps
    <2>2. [Ticked EXCEPT !.reg[hi] = q] = [Ticked EXCEPT !.reg = y]
      BY <1>1
    <2>3. y = [cpu.reg EXCEPT ![hi] = q]
      BY <1>1
    <2>4. More([Ticked EXCEPT !.reg = y])
      BY <2>1, <2>2
    <2> HIDE DEF y
    <2>5. NextStep({"reg"}) /\ cpu'.reg = y
      BY <1>1, <2>4, SetMore
    <2> QED  BY <1>2, <1>8, <2>1, <2>3, <2>5
  <1>9. CASE cpu.func > 3
    <2>1. Idle /\ Done([Ticked EXCEPT !.sp = (@ + 2) % 65536])
      BY <1>9 DEF DoPop, PopSteps
    <2> QED  BY <1>2, <1>9, <2>1, RaiseSp
  <1> QED  BY <1>2, <1>4, <1>5, <1>6, <1>7, <1>8, <1>9

\* The program counter half by half.
LEMMA PcHalves ==
    ASSUME RegsType
    PROVE  /\ More(PcLow(Ticked)) => NextStep({"pc"}) /\ cpu'.pc = 256 * (cpu.pc \div 256) + q
           /\ More(PcHigh(Ticked)) => NextStep({"pc"}) /\ cpu'.pc = 256 * q + (cpu.pc % 256)
  <1> DEFINE x == 256 * (Ticked.pc \div 256) + q
             y == 256 * q + (Ticked.pc % 256)
  <1>1. "pc" \in Fields /\ x = 256 * (cpu.pc \div 256) + q /\ y = 256 * q + (cpu.pc % 256)
    BY TickedFields DEF Fields
  <1>2. PcLow(Ticked) = [Ticked EXCEPT !.pc = x]
    BY DEF PcLow
  <1>5. PcHigh(Ticked) = [Ticked EXCEPT !.pc = y]
    BY DEF PcHigh
  <1> HIDE DEF x, y
  <1>3. ASSUME More([Ticked EXCEPT !.pc = x]) PROVE NextStep({"pc"}) /\ cpu'.pc = x
    BY <1>1, <1>3, SetMore, ZenonT(60)
  <1>4. ASSUME More([Ticked EXCEPT !.pc = y]) PROVE NextStep({"pc"}) /\ cpu'.pc = y
    BY <1>1, <1>4, SetMore, ZenonT(60)
  <1> QED  BY <1>1, <1>2, <1>3, <1>4, <1>5

LEMMA DoRetIfEffect ==
    ASSUME RegsType, DoRetIf
    PROVE  /\ Executes(RET_IF)
           /\ IF cpu.func = 0 /\ ~Holds(cpu.op, cpu.flag)
                THEN Idle /\ OneStep({})
                ELSE \/ cpu.func = 0 /\ Read(cpu.sp) /\ NextStep({})
                     \/ cpu.func = 1 /\ Read((cpu.sp + 1) % 65536) /\ NextStep({})
                     \/ /\ cpu.func = 2 /\ Idle /\ NextStep({"pc"}) /\ cpu'.pc = 256 * (cpu.pc \div 256) + q
                     \/ /\ cpu.func = 3 /\ Idle /\ NextStep({"pc"}) /\ cpu'.pc = 256 * q + (cpu.pc % 256)
                     \/ /\ cpu.func > 3 /\ Idle /\ JumpStep({"sp", "can_debug"}, cpu.pc)
                        /\ cpu'.sp = (cpu.sp + 2) % 65536 /\ cpu'.can_debug \in BOOLEAN
  <1> DEFINE up == (cpu.sp + 2) % 65536
             halt == Ticked.can_debug \/ (cpu.op = \hC8 /\ up = 6)
             c == [Ticked EXCEPT !.sp = up, !.can_debug = halt]
  <1>1. {"sp", "can_debug"} \subseteq Fields /\ DOMAIN Ticked = Fields
    BY TickedFields DEF Fields
  <1>2. CASE cpu.func = 0 /\ ~Holds(cpu.op, cpu.flag)
    BY <1>2, PlainEnds DEF DoRetIf
  <1>3. CASE ~(cpu.func = 0 /\ ~Holds(cpu.op, cpu.flag))
    <2>1. /\ Executes(RET_IF)
          /\ \/ cpu.func = 0 /\ Read(cpu.sp) /\ More(Ticked)
             \/ cpu.func = 1 /\ Read((cpu.sp + 1) % 65536) /\ More(Ticked)
             \/ cpu.func = 2 /\ Idle /\ More(PcLow(Ticked))
             \/ cpu.func = 3 /\ Idle /\ More(PcHigh(Ticked))
             \/ cpu.func > 3 /\ Idle /\ Goes(c, cpu.pc)
      BY <1>3 DEF DoRetIf, PopSteps
    <2>2. halt \in BOOLEAN
      OBVIOUS
    <2> HIDE DEF up, halt
    <2>3. Changed(c, {"sp", "can_debug"}) /\ c.sp = up /\ c.can_debug = halt
      BY <1>1 DEF Changed
    <2> HIDE DEF c
    <2>4. ASSUME Goes(c, cpu.pc)
          PROVE  JumpStep({"sp", "can_debug"}, cpu.pc) /\ cpu'.sp = up /\ cpu'.can_debug \in BOOLEAN
      BY <1>1, <2>2, <2>3, <2>4, GoesFields
    <2>5. More(Ticked) => NextStep({})
      BY PlainEnds
    <2> QED  BY <1>3, <2>1, <2>4, <2>5, PcHalves DEF up
  <1> QED  BY <1>2, <1>3

LEMMA DoRetEffect ==
    ASSUME RegsType, DoRet
    PROVE  /\ Executes({\hC9})
           /\ \/ cpu.func = 0 /\ Read(cpu.sp) /\ NextStep({"tmp2"}) /\ cpu'.tmp2 = cpu.pc
              \/ cpu.func \in {1, 3} /\ Idle /\ NextStep({})
              \/ /\ cpu.func = 2 /\ Read((cpu.sp + 1) % 65536) /\ NextStep({"pc"})
                 /\ cpu'.pc = 256 * (cpu.pc \div 256) + q
              \/ cpu.func = 4 /\ Idle /\ NextStep({"pc"}) /\ cpu'.pc = 256 * q + (cpu.pc % 256)
              \/ cpu.func > 4 /\ Idle /\ JumpStep({"sp"}, cpu.pc) /\ cpu'.sp = (cpu.sp + 2) % 65536
  <1>1. More([Ticked EXCEPT !.tmp2 = cpu.pc]) => NextStep({"tmp2"}) /\ cpu'.tmp2 = cpu.pc
    <2>1. "tmp2" \in Fields
      BY DEF Fields
    <2> QED  BY <2>1, SetMore
  <1>2. More(Ticked) => NextStep({})
    BY PlainEnds
  <1> QED  BY <1>1, <1>2, PcHalves, RaiseSp DEF DoRet

LEMMA DoXthlEffect ==
    ASSUME RegsType, DoXthl
    PROVE  /\ Executes({\hE3})
           /\ \/ cpu.func = 0 /\ Read(cpu.sp) /\ NextStep({})
              \/ cpu.func = 1 /\ Read((cpu.sp + 1) % 65536) /\ NextStep({})
              \/ /\ cpu.func = 2 /\ Idle /\ NextStep({"tmp2"}) /\ cpu'.tmp2 = 256 * (cpu.tmp2 \div 256) + q
              \/ /\ cpu.func = 3 /\ Idle /\ NextStep({"tmp2"}) /\ cpu'.tmp2 = 256 * q + (cpu.tmp2 % 256)
              \/ cpu.func = 4 /\ Write((cpu.sp + 1) % 65536, cpu.reg["H"]) /\ NextStep({})
              \/ cpu.func = 5 /\ Write(cpu.sp, cpu.reg["L"]) /\ NextStep({})
              \/ /\ cpu.func > 5 /\ Release /\ LastStep({"reg"})
                 /\ cpu'.reg = WithWord(cpu.reg, <<"H", "L">>, cpu.tmp2)
  <1> DEFINE x == 256 * (Ticked.tmp2 \div 256) + q
             y == 256 * q + (Ticked.tmp2 % 256)
             z == WithWord(Ticked.reg, <<"H", "L">>, cpu.tmp2)
  <1>1. /\ {"tmp2", "reg"} \subseteq Fields /\ x = 256 * (cpu.tmp2 \div 256) + q
        /\ y = 256 * q + (cpu.tmp2 % 256) /\ z = WithWord(cpu.reg, <<"H", "L">>, cpu.tmp2)
    BY TickedFields DEF Fields
  <1>2. /\ Executes({\hE3})
        /\ \/ cpu.func = 0 /\ Read(cpu.sp) /\ More(Ticked)
           \/ cpu.func = 1 /\ Read((cpu.sp + 1) % 65536) /\ More(Ticked)
           \/ cpu.func = 2 /\ Idle /\ More([Ticked EXCEPT !.tmp2 = x])
           \/ cpu.func = 3 /\ Idle /\ More([Ticked EXCEPT !.tmp2 = y])
           \/ cpu.func = 4 /\ Write((cpu.sp + 1) % 65536, cpu.reg["H"]) /\ More(Ticked)
           \/ cpu.func = 5 /\ Write(cpu.sp, cpu.reg["L"]) /\ More(Ticked)
           \/ cpu.func > 5 /\ Release /\ Done([Ticked EXCEPT !.reg = z])
    BY DEF DoXthl, PopSteps
  <1> HIDE DEF x, y, z
  <1>3. ASSUME More([Ticked EXCEPT !.tmp2 = x]) PROVE NextStep({"tmp2"}) /\ cpu'.tmp2 = x
    BY <1>1, <1>3, SetMore, ZenonT(60)
  <1>4. ASSUME More([Ticked EXCEPT !.tmp2 = y]) PROVE NextStep({"tmp2"}) /\ cpu'.tmp2 = y
    BY <1>1, <1>4, SetMore, ZenonT(60)
  <1>5. ASSUME Done([Ticked EXCEPT !.reg = z]) PROVE LastStep({"reg"}) /\ cpu'.reg = z
    BY <1>1, <1>5, SetDone
  <1>6. More(Ticked) => NextStep({})
    BY PlainEnds
  <1> QED  BY <1>1, <1>2, <1>3, <1>4, <1>5, <1>6

LEMMA DoShldEffect ==
    ASSUME RegsType, DoShld
    PROVE  /\ Executes({\h22})
           /\ \/ cpu.func = 0 /\ Write(Operand, cpu.reg["L"]) /\ NextStep({})
              \/ cpu.func = 1 /\ Write((Operand + 1) % 65536, cpu.reg["H"]) /\ NextStep({})
              \/ cpu.func > 1 /\ Release /\ LastStep({})
  BY PlainEnds DEF DoShld

LEMMA DoLhldEffect ==
    ASSUME RegsType, DoLhld
    PROVE  LET byte == Got(cpu.op, Operand)
           IN  /\ Executes({\h2A})
               /\ \/ cpu.func = 0 /\ Look(cpu.op, Operand, Operand) /\ NextStep({})
                  \/ cpu.func = 1 /\ Look(cpu.op, Operand, (Operand + 1) % 65536) /\ NextStep({})
                  \/ /\ cpu.func = 2 /\ Idle /\ NextStep({"reg"})
                     /\ cpu'.reg = [cpu.reg EXCEPT !["L"] = byte]
                  \/ /\ cpu.func > 2 /\ Idle /\ LastStep({"reg"})
                     /\ cpu'.reg = [cpu.reg EXCEPT !["H"] = byte]
  <1> DEFINE byte == Got(cpu.op, Operand)
             x == [Ticked.reg EXCEPT !["L"] = byte]
             y == [Ticked.reg EXCEPT !["H"] = byte]
  <1>1. /\ "reg" \in Fields /\ DOMAIN Ticked = Fields /\ Ticked.reg = cpu.reg
    BY TickedFields DEF Fields
  <1>2. /\ [Ticked EXCEPT !.reg["L"] = byte] = [Ticked EXCEPT !.reg = x]
        /\ [Ticked EXCEPT !.reg["H"] = byte] = [Ticked EXCEPT !.reg = y]
    <2> HIDE DEF byte
    <2> QED  BY <1>1
  <1>3. x = [cpu.reg EXCEPT !["L"] = byte] /\ y = [cpu.reg EXCEPT !["H"] = byte]
    BY <1>1
  <1>4. /\ Executes({\h2A})
        /\ \/ cpu.func = 0 /\ Look(cpu.op, Operand, Operand) /\ More(Ticked)
           \/ cpu.func = 1 /\ Look(cpu.op, Operand, (Operand + 1) % 65536) /\ More(Ticked)
           \/ cpu.func = 2 /\ Idle /\ More([Ticked EXCEPT !.reg["L"] = byte])
           \/ cpu.func > 2 /\ Idle /\ Done([Ticked EXCEPT !.reg["H"] = byte])
    BY DEF DoLhld
  <1> HIDE DEF x, y, byte
  <1>5. ASSUME More([Ticked EXCEPT !.reg = x]) PROVE NextStep({"reg"}) /\ cpu'.reg = x
    BY <1>1, <1>5, SetMore
  <1>6. ASSUME Done([Ticked EXCEPT !.reg = y]) PROVE LastStep({"reg"}) /\ cpu'.reg = y
    BY <1>1, <1>6, SetDone
  <1>7. More(Ticked) => NextStep({})
    BY PlainEnds
  <1> QED  BY <1>2, <1>3, <1>4, <1>5, <1>6, <1>7 DEF byte


----------------------------------------------------------------------------
(* Every register, port and memory keeps to its width. *)

\* The ranges are integers; what is left of one is in range.
LEMMA Ranges ==
    /\ \A x \in Byte : x \in Int
    /\ \A x \in Addr : x \in Int
    /\ \A x \in BusAddr : x \in Int
    /\ \A x \in RamAddr : x \in Int
    /\ \A x \in RomAddr : x \in Int
  BY DEF Byte, Addr, BusAddr, RamAddr, RomAddr

LEMMA Rests ==
    ASSUME NEW x \in Int
    PROVE  /\ x % 65536 \in Addr /\ x % 32768 \in BusAddr /\ x % 16384 \in RamAddr
           /\ x % 8192 \in RomAddr /\ x % 256 \in Byte /\ x % 8 \in 0..7
  <1>1. x % 65536 \in Addr
    BY ModAddr
  <1>2. x % 32768 \in BusAddr
    BY DEF BusAddr
  <1>3. x % 16384 \in RamAddr
    BY DEF RamAddr
  <1>4. x % 8192 \in RomAddr
    BY DEF RomAddr
  <1>5. x % 256 \in Byte
    BY DEF Byte
  <1>6. x % 8 \in 0..7
    OBVIOUS
  <1> QED  BY <1>1, <1>2, <1>3, <1>4, <1>5, <1>6

LEMMA WriteType == ASSUME BusType, NEW a \in Int, NEW x \in Byte, Write(a, x) PROVE BusType'
  <1> DEFINE b == a % 32768
  <1>1. b \in BusAddr
    BY Rests
  <1>2. port' = [port EXCEPT !.wren = TRUE, !.addr = b, !.data = x]
    BY DEF Write
  <1> HIDE DEF b
  <1>3. /\ DOMAIN port' = DOMAIN port /\ port'.wren = TRUE /\ port'.addr = b /\ port'.data = x
        /\ port'.raddr = port.raddr
    BY <1>2 DEF BusType
  <1> QED  BY <1>1, <1>3 DEF BusType

LEMMA ReadType == ASSUME BusType, NEW a \in Int PROVE Read(a) \/ ReadRom(a) => BusType'
  <1> DEFINE b == a % 32768
             c == a % 8192
  <1>1. b \in BusAddr /\ c \in RomAddr
    BY Rests
  <1>2. ASSUME Read(a) PROVE BusType'
    <2>1. port' = [port EXCEPT !.addr = b]
      BY <1>2 DEF Read
    <2> HIDE DEF b
    <2>2. /\ DOMAIN port' = DOMAIN port /\ port'.addr = b /\ port'.wren = port.wren
          /\ port'.data = port.data /\ port'.raddr = port.raddr
      BY <2>1 DEF BusType
    <2> QED  BY <1>1, <2>2 DEF BusType
  <1>3. ASSUME ReadRom(a) PROVE BusType'
    <2>1. port' = [port EXCEPT !.raddr = c]
      BY <1>3 DEF ReadRom
    <2> HIDE DEF c
    <2>2. /\ DOMAIN port' = DOMAIN port /\ port'.raddr = c /\ port'.wren = port.wren
          /\ port'.data = port.data /\ port'.addr = port.addr
      BY <2>1 DEF BusType
    <2> QED  BY <1>1, <2>2 DEF BusType
  <1> QED  BY <1>2, <1>3

LEMMA LookType == ASSUME BusType, NEW op, NEW a, NEW b \in Int, Look(op, a, b) PROVE BusType'
  BY ReadType DEF Look

LEMMA KeepType == ASSUME BusType, Idle \/ Release PROVE BusType'
  <1>1. ASSUME Idle PROVE BusType'
    <2>1. port' = port
      BY <1>1 DEF Idle
    <2> QED  BY <2>1 DEF BusType
  <1>2. ASSUME Release PROVE BusType'
    <2>1. port' = [port EXCEPT !.wren = FALSE]
      BY <1>2 DEF Release
    <2>2. /\ DOMAIN port' = DOMAIN port /\ port'.wren = FALSE /\ port'.addr = port.addr
          /\ port'.data = port.data /\ port'.raddr = port.raddr
      BY <2>1 DEF BusType
    <2> QED  BY <2>2 DEF BusType
  <1> QED  BY <1>1, <1>2

LEMMA RomType == ASSUME MemType, NEW a \in Int PROVE Rom(a) \in Byte
  <1>1. \A b \in DOMAIN rom : rom[b] \in Byte
    BY CpuAssumption DEF MemType
  <1> QED  BY <1>1 DEF Rom, Byte

LEMMA RamType == ASSUME MemType, NEW a \in Int PROVE Ram(a) \in Byte
  BY DEF Ram, Byte, MemType

LEMMA PutType ==
    ASSUME NEW m, \A a \in DOMAIN m : a \in RamAddr /\ m[a] \in Byte, NEW i \in RamAddr, NEW x \in Byte
    PROVE  \A a \in DOMAIN Put(m, i, x) : a \in RamAddr /\ Put(m, i, x)[a] \in Byte
  BY DEF Put

LEMMA MemoriesType == ASSUME MemType, BusType, Memories PROVE MemType'
  <1>1. port.wren \in BOOLEAN /\ port.addr \in BusAddr /\ port.raddr \in RomAddr /\ port.data \in Byte
    BY DEF BusType
  <1>2. rom_rdata' \in Byte /\ rom' \in Programs
    <2>1. rom_rdata' = Rom(port.raddr) /\ rom' = rom /\ rom \in Programs
      BY DEF Memories, MemType
    <2>2. Rom(port.raddr) \in Byte
      <3>1. port.raddr \in Int
        BY <1>1, Ranges
      <3> QED  BY <3>1, RomType
    <2> QED  BY <2>1, <2>2
  <1>3. CASE port.wren /\ ~cpu.opcode_unk
    <2> DEFINE i == port.addr % 16384
    <2>1. i \in RamAddr
      <3>1. port.addr \in Int
        BY <1>1, Ranges
      <3> QED  BY <3>1, Rests
    <2>2. q' = port.data /\ ram' = Put(ram, i, port.data)
      BY <1>3 DEF Memories
    <2> HIDE DEF i
    <2>3. \A a \in DOMAIN ram' : a \in RamAddr /\ ram'[a] \in Byte
      BY <1>1, <2>1, <2>2, PutType DEF MemType
    <2>4. q' \in Byte
      BY <1>1, <2>2, Zenon
    <2> QED  BY <1>2, <2>3, <2>4 DEF MemType
  <1>4. CASE ~(port.wren /\ ~cpu.opcode_unk)
    <2>1. q' = Ram(port.addr) /\ ram' = ram
      BY <1>4 DEF Memories
    <2>2. q' \in Byte
      <3>1. port.addr \in Int
        BY <1>1, Ranges
      <3>2. Ram(port.addr) \in Byte
        BY <3>1, RamType
      <3> QED  BY <2>1, <3>2
    <2> QED  BY <1>2, <2>1, <2>2 DEF MemType
  <1> QED  BY <1>3, <1>4

\* What the registers hold, one by one.
LEMMA RegsTypes ==
    ASSUME RegsType
    PROVE  /\ cpu.state \in 0..5 /\ cpu.func \in 0..7 /\ cpu.op \in Byte /\ cpu.b2 \in Byte /\ cpu.b3 \in Byte
           /\ cpu.pc \in Addr /\ cpu.sp \in Addr /\ cpu.reg \in [Registers -> Byte] /\ cpu.flag \in Flags
           /\ cpu.tmp \in Byte /\ cpu.tmp2 \in Addr /\ cpu.set_flags \in BOOLEAN
           /\ cpu.cycles_remain \in 0..(4 * CYCLE_MULTIPLICATOR - 4)
           /\ cpu.opcode_unk \in BOOLEAN /\ cpu.can_debug \in BOOLEAN /\ cpu.int_enabled \in BOOLEAN
           /\ cpu.int_op \in BOOLEAN /\ cpu.int_rst_prev \in 0..31 /\ cpu.shift \in Addr
           /\ cpu.offset \in 0..7
           /\ cpu.sound1 \in Byte /\ cpu.sound2 \in Byte
  BY DEF RegsType, Width, Fields

LEMMA OperandType == ASSUME RegsType PROVE Operand \in Addr
  BY RegsTypes, Joined DEF Operand

LEMMA RegByte == ASSUME RegsType, NEW r \in Registers PROVE cpu.reg[r] \in Byte
  BY RegsTypes

\* The ways a step ends keep the registers to their widths, if the ones it sets are.
Typed(F) == \A f \in F : cpu'[f] \in Width[f]

LEMMA EndTypes ==
    ASSUME RegsType, rom_rdata \in Byte, NEW F, Typed(F)
    PROVE  /\ Only(F) => RegsType'
           /\ NextStep(F) /\ cpu.func < 7 => RegsType'
           /\ OneStep(F) => RegsType'
           /\ LastStep(F) => RegsType'
           /\ \A t \in Addr : JumpStep(F, t) => RegsType'
  <1>2. Bytes(cpu.op) \in Int
    BY DEF Bytes
  <1>3. Past \in Addr
    <2>1. cpu.pc \in Int
      BY RegsTypes, Ranges
    <2>2. cpu.pc + Bytes(cpu.op) \in Int
      <3>1. \A x, y \in Int : x + y \in Int
        OBVIOUS
      <3> QED  BY <1>2, <2>1, <3>1, Zenon
    <2> QED  BY <2>2, Rests DEF Past
  <1>4. Width.state = 0..5 /\ Width.func = 0..7 /\ Width.pc = Addr
    BY DEF Width
  <1>5. Only(F) => RegsType'
    BY OnlyType DEF Typed
  <1>6. ASSUME NextStep(F), cpu.func < 7 PROVE RegsType'
    <2> DEFINE G == F \cup {"func"}
    <2>1. cpu'.func \in 0..7
      BY <1>6, RegsTypes DEF NextStep
    <2>2. Only(G) /\ \A f \in G : cpu'[f] \in Width[f]
      BY <1>4, <1>6, <2>1 DEF NextStep, Typed
    <2> HIDE DEF G
    <2> QED  BY <2>2, OnlyType
  <1>7. ASSUME OneStep(F) PROVE RegsType'
    <2> DEFINE G == F \cup {"state", "pc"}
    <2>2. Only(G) /\ \A f \in G : cpu'[f] \in Width[f]
      BY <1>3, <1>4, <1>7 DEF OneStep, Typed
    <2> HIDE DEF G
    <2> QED  BY <2>2, OnlyType
  <1>8. ASSUME LastStep(F) PROVE RegsType'
    <2> DEFINE G == F \cup {"state", "pc", "func"}
    <2>2. Only(G) /\ \A f \in G : cpu'[f] \in Width[f]
      BY <1>3, <1>4, <1>8 DEF LastStep, Typed
    <2> HIDE DEF G
    <2> QED  BY <2>2, OnlyType
  <1>9. ASSUME NEW t \in Addr, JumpStep(F, t) PROVE RegsType'
    <2> DEFINE G == F \cup {"state", "pc", "func"}
    <2>2. Only(G) /\ \A f \in G : cpu'[f] \in Width[f]
      BY <1>4, <1>9 DEF JumpStep, Typed
    <2> HIDE DEF G
    <2> QED  BY <2>2, OnlyType
  <1> QED  BY <1>5, <1>6, <1>7, <1>8, <1>9

\* Where no register is set, and where one is.
LEMMA EndTypes0 ==
    ASSUME RegsType, rom_rdata \in Byte
    PROVE  /\ Only({}) => RegsType'
           /\ NextStep({}) /\ cpu.func < 7 => RegsType'
           /\ OneStep({}) => RegsType'
           /\ LastStep({}) => RegsType'
           /\ \A t \in Addr : JumpStep({}, t) => RegsType'
  <1>1. Typed({})
    BY DEF Typed
  <1> QED  BY <1>1, EndTypes


\* One register set.
LEMMA EndTypes1 ==
    ASSUME RegsType, rom_rdata \in Byte, NEW f, cpu'[f] \in Width[f]
    PROVE  /\ Only({f}) => RegsType'
           /\ NextStep({f}) /\ cpu.func < 7 => RegsType'
           /\ OneStep({f}) => RegsType'
           /\ LastStep({f}) => RegsType'
           /\ \A t \in Addr : JumpStep({f}, t) => RegsType'
  <1> DEFINE F == {f}
  <1>1. Typed(F)
    BY DEF Typed
  <1> HIDE DEF F
  <1>2. /\ Only(F) => RegsType'
        /\ NextStep(F) /\ cpu.func < 7 => RegsType'
        /\ OneStep(F) => RegsType'
        /\ LastStep(F) => RegsType'
        /\ \A t \in Addr : JumpStep(F, t) => RegsType'
    BY <1>1, EndTypes
  <1> QED  BY <1>2 DEF F

LEMMA Widths ==
    /\ Width.op = Byte /\ Width.b2 = Byte /\ Width.b3 = Byte /\ Width.pc = Addr /\ Width.sp = Addr
    /\ Width.reg = [Registers -> Byte] /\ Width.flag = Flags /\ Width.tmp = Byte /\ Width.tmp2 = Addr
    /\ Width.set_flags = BOOLEAN /\ Width.opcode_unk = BOOLEAN /\ Width.can_debug = BOOLEAN
    /\ Width.int_enabled = BOOLEAN /\ Width.int_op = BOOLEAN /\ Width.int_rst_prev = 0..31
    /\ Width.shift = Addr /\ Width.offset = 0..7 /\ Width.sound1 = Byte /\ Width.sound2 = Byte
    /\ Width.state = 0..5 /\ Width.func = 0..7
  BY DEF Width

\* A mixture of two requests.
LEMMA SamplesType == ASSUME IntType PROVE Samples \subseteq {0, 8, 16, 24}
  <1>1. int_rst \in {0, 8, 16} /\ int_old \in {0, 8, 16}
    BY DEF IntType, Vectors
  <1>2. int_old % 16 \in {0, 8} /\ int_rst % 16 \in {0, 8}
    BY <1>1
  <1>3. 16 * (int_old \div 16) \in {0, 16} /\ 16 * (int_rst \div 16) \in {0, 16}
    BY <1>1
  <1> QED  BY <1>2, <1>3 DEF Samples

LEMMA SamplesAddr == ASSUME IntType PROVE /\ \A v \in Samples : v \in Addr
                                          /\ \A v \in Samples : v \in 0..31
  <1>1. \A v \in {0, 8, 16, 24} : v \in Addr /\ v \in 0..31
    BY InAddr
  <1> QED  BY <1>1, SamplesType, SMTT(30)

LEMMA FlagBits == ASSUME NEW f \in Flags, NEW x \in {0, 1} PROVE [f EXCEPT !.carry = x] \in Flags
  BY DEF Flags

LEMMA CarryBit == ASSUME RegsType PROVE cpu.flag.carry \in {0, 1}
  <1>1. cpu.flag \in Flags
    BY RegsTypes
  <1> QED  BY <1>1 DEF Flags

----------------------------------------------------------------------------
(* Each action's registers. *)

LEMMA ControlRegs ==
    ASSUME TypeInv, Wait \/ Start \/ Vector \/ Fetch \/ Opcode
    PROVE  RegsType'
  <1> USE DEF TypeInv
  <1>0. rom_rdata \in Byte
    BY DEF MemType
  <1>1. CASE Wait
    BY <1>0, <1>1, WaitEffect, EndTypes0
  <1>2. CASE Start
    <2> DEFINE F == {"state", "int_rst_prev", "int_enabled", "int_op"}
    <2>1. Only(F) /\ cpu'.state = 1 /\ cpu'.int_rst_prev \in Samples
      BY <1>2, StartEffect
    <2>2. cpu'.int_enabled \in BOOLEAN /\ cpu'.int_op \in BOOLEAN
      BY <1>2, StartEffect
    <2>3. Typed(F)
      BY <2>1, <2>2, SamplesAddr, Widths DEF Typed
    <2> HIDE DEF F
    <2> QED  BY <1>0, <2>1, <2>3, EndTypes
  <1>3. CASE Vector
    <2>1. CASE NextStep({}) /\ (cpu.func = 0 \/ cpu.func = 1)
      BY <1>0, <2>1, EndTypes0
    <2>2. CASE cpu.func > 1
      <3> DEFINE F == {"state", "pc", "func", "sp", "int_op"}
      <3>1. /\ Only(F) /\ cpu'.state = 0 /\ cpu'.func = 0 /\ cpu'.pc \in Samples
            /\ cpu'.sp = (cpu.sp - 2) % 65536 /\ cpu'.int_op \in BOOLEAN
        BY <1>3, <2>2, VectorEffect
      <3>2. cpu'.sp \in Addr
        <4>1. cpu.sp \in Int
          BY RegsTypes, Ranges
        <4> QED  BY <3>1, <4>1, Rests
      <3>3. Typed(F)
        BY <3>1, <3>2, SamplesAddr, Widths DEF Typed
      <3> HIDE DEF F
      <3> QED  BY <1>0, <3>1, <3>3, EndTypes
    <2> QED  BY <1>3, <2>1, <2>2, VectorEffect
  <1>4. CASE Fetch
    <2>1. Only({"state"}) /\ cpu'["state"] \in Width["state"]
      BY <1>4, FetchEffect, Widths
    <2> QED  BY <1>0, <2>1, EndTypes1
  <1>5. CASE Opcode
    <2> DEFINE e == Early(rom_rdata, cpu.reg, cpu.flag)
    <2>1. cpu'.state = 3 /\ cpu'.op = rom_rdata /\ cpu'.set_flags \in BOOLEAN
      BY <1>5, OpcodeEffect
    <2>2. CASE rom_rdata \in EARLY
      <3> DEFINE F == {"state", "op", "set_flags", "reg", "flag", "tmp"}
      <3>1. /\ Only(F) /\ cpu'.reg = e.reg /\ cpu'.tmp = e.tmp
            /\ cpu'.flag = [cpu.flag EXCEPT !.carry = e.carry]
        BY <1>5, <2>2, OpcodeEffect
      <3>2. e.reg \in [Registers -> Byte] /\ e.carry \in {0, 1} /\ e.tmp \in Byte
        BY <2>2, RegsTypes, EarlyType
      <3> HIDE DEF e
      <3>3. cpu'.flag \in Flags
        BY <3>1, <3>2, RegsTypes, FlagBits
      <3>4. Typed(F)
        BY <1>0, <2>1, <3>1, <3>2, <3>3, Widths DEF Typed
      <3> HIDE DEF F
      <3> QED  BY <1>0, <3>1, <3>4, EndTypes
    <2>3. CASE rom_rdata \notin EARLY
      <3> DEFINE F == {"state", "op", "set_flags"}
      <3>1. Only(F)
        BY <1>5, <2>3, OpcodeEffect
      <3>2. Typed(F)
        BY <1>0, <2>1, Widths DEF Typed
      <3> HIDE DEF F
      <3> QED  BY <1>0, <3>1, <3>2, EndTypes
    <2> QED  BY <2>2, <2>3
  <1> QED  BY <1>1, <1>2, <1>3, <1>4, <1>5

LEMMA DecodeRegs ==
    ASSUME TypeInv, SetFlags \/ SecondByte \/ ThirdByte \/ Unknown \/ Debug
    PROVE  RegsType'
  <1> USE DEF TypeInv
  <1>0. rom_rdata \in Byte
    BY DEF MemType
  <1>1. CASE SetFlags
    <2>1. cpu.flag \in Flags /\ cpu.tmp \in Byte
      BY RegsTypes
    <2>2. OneStep({"flag"}) /\ cpu'["flag"] \in Width["flag"]
      BY <1>1, <2>1, SetFlagsEffect, SZPType, Widths
    <2> QED  BY <1>0, <2>2, EndTypes1
  <1>2. CASE SecondByte
    <2> DEFINE F == {"state", "b2"}
    <2>1. Only(F) /\ cpu'.state = 4 /\ cpu'.b2 = rom_rdata
      BY <1>2, SecondByteEffect
    <2>2. Typed(F)
      BY <1>0, <2>1, Widths DEF Typed
    <2> HIDE DEF F
    <2> QED  BY <1>0, <2>1, <2>2, EndTypes
  <1>3. CASE ThirdByte
    <2>1. CASE cpu.op \in CALL
      <3> DEFINE F == {"state", "pc", "func"}
      <3>1. Only(F) /\ cpu'.state = 5 /\ cpu'.pc = (cpu.pc + 3) % 65536 /\ cpu'.func = 0
        BY <1>3, <2>1, ThirdByteEffect
      <3>2. cpu'.pc \in Addr
        <4>1. cpu.pc \in Int
          BY RegsTypes, Ranges
        <4> QED  BY <3>1, <4>1, Rests
      <3>3. Typed(F)
        BY <3>1, <3>2, Widths DEF Typed
      <3> HIDE DEF F
      <3> QED  BY <1>0, <3>1, <3>3, EndTypes
    <2>2. CASE cpu.op \notin CALL
      <3>1. Only({"state"}) /\ cpu'["state"] \in Width["state"]
        BY <1>3, <2>2, ThirdByteEffect, Widths
      <3> QED  BY <1>0, <3>1, EndTypes1
    <2> QED  BY <2>1, <2>2
  <1>4. CASE Unknown \/ Debug
    <2>1. Only({"opcode_unk"}) /\ cpu'["opcode_unk"] \in Width["opcode_unk"]
      BY <1>4, UnknownEffect, Widths
    <2> QED  BY <1>0, <2>1, EndTypes1
  <1> QED  BY <1>1, <1>2, <1>3, <1>4


\* A byte put in a register.
LEMMA PutReg == ASSUME RegsType, NEW r, NEW x \in Byte PROVE [cpu.reg EXCEPT ![r] = x] \in [Registers -> Byte]
  <1>1. cpu.reg \in [Registers -> Byte]
    BY RegsTypes
  <1> QED  BY <1>1

LEMMA GotType == ASSUME MemType, NEW op, NEW a PROVE Got(op, a) \in Byte
  BY DEF Got, MemType

\* Two words of a stack pointer away.
LEMMA StackType ==
    ASSUME RegsType
    PROVE  /\ (cpu.sp - 1) % 65536 \in Addr /\ (cpu.sp - 2) % 65536 \in Addr
           /\ (cpu.sp + 1) % 65536 \in Addr /\ (cpu.sp + 2) % 65536 \in Addr
  <1>1. cpu.sp \in Int
    BY RegsTypes, Ranges
  <1>2. \A x \in Int : x - 1 \in Int /\ x - 2 \in Int /\ x + 1 \in Int /\ x + 2 \in Int
    OBVIOUS
  <1> QED  BY <1>1, <1>2, Rests

LEMMA PlainRegs == ASSUME TypeInv, DoPlain PROVE RegsType'
  <1> DEFINE F == {"reg", "flag", "int_enabled"}
             e == Plain(cpu.op, cpu.reg, cpu.flag)
  <1>1. OneStep(F) /\ cpu'.reg = e.reg /\ cpu'.flag = e.flag /\ Executes(PLAIN)
    BY DoPlainEffect DEF TypeInv
  <1>2. cpu'.int_enabled \in BOOLEAN
    BY DoPlainEffect DEF TypeInv
  <1>3. e.reg \in [Registers -> Byte] /\ e.flag \in Flags
    BY <1>1, RegsTypes, PlainType DEF TypeInv, Executes
  <1> HIDE DEF e
  <1>4. Typed(F)
    BY <1>1, <1>2, <1>3, Widths DEF Typed
  <1> HIDE DEF F
  <1> QED  BY <1>1, <1>4, EndTypes DEF TypeInv, MemType

LEMMA MviLxiRegs == ASSUME TypeInv, DoMvi \/ DoLxi PROVE RegsType'
  <1> USE DEF TypeInv
  <1>0. rom_rdata \in Byte
    BY DEF MemType
  <1>1. CASE DoMvi
    <2>1. cpu.b2 \in Byte
      BY RegsTypes
    <2>2. OneStep({"reg"}) /\ cpu'["reg"] \in Width["reg"]
      BY <1>1, <2>1, DoMviEffect, PutReg, Widths
    <2> QED  BY <1>0, <2>2, EndTypes1
  <1>2. CASE DoLxi /\ cpu.op = \h31
    <2>1. OneStep({"sp"}) /\ cpu'["sp"] \in Width["sp"]
      BY <1>2, DoLxiEffect, OperandType, Widths
    <2> QED  BY <1>0, <2>1, EndTypes1
  <1>3. CASE DoLxi /\ cpu.op # \h31
    <2>1. OneStep({"reg"}) /\ cpu'["reg"] \in Width["reg"]
      BY <1>3, DoLxiEffect, OperandType, RegsTypes, WithWordType, Widths
    <2> QED  BY <1>0, <2>1, EndTypes1
  <1> QED  BY <1>1, <1>2, <1>3

LEMMA HLType == ASSUME RegsType PROVE HL(cpu.reg) \in Addr
  <1>1. cpu.reg \in [Registers -> Byte] /\ <<"H", "L">> \in Registers \X Registers
    BY RegsTypes DEF Registers
  <1> QED  BY <1>1, WordType DEF HL

LEMMA JumpRegs == ASSUME TypeInv, DoJump PROVE RegsType'
  <1> USE DEF TypeInv
  <1>0. rom_rdata \in Byte
    BY DEF MemType
  <1>1. CASE cpu.op = \hE9 \/ Holds(cpu.op, cpu.flag)
    <2> DEFINE F == {"state", "pc"}
    <2>1. /\ Only(F) /\ cpu'.state = 0
          /\ cpu'.pc = IF cpu.op = \hE9 THEN HL(cpu.reg) ELSE Operand
      BY <1>1, DoJumpEffect
    <2>2. cpu'.pc \in Addr
      BY <2>1, HLType, OperandType
    <2>3. Typed(F)
      BY <2>1, <2>2, Widths DEF Typed
    <2> HIDE DEF F
    <2> QED  BY <1>0, <2>1, <2>3, EndTypes
  <1>2. CASE ~(cpu.op = \hE9 \/ Holds(cpu.op, cpu.flag))
    BY <1>0, <1>2, DoJumpEffect, EndTypes0
  <1> QED  BY <1>1, <1>2

LEMMA PortRegs == ASSUME TypeInv, DoIn \/ DoOut PROVE RegsType'
  <1> USE DEF TypeInv
  <1>0. rom_rdata \in Byte
    BY DEF MemType
  <1>a. cpu.reg["A"] \in Byte /\ cpu.shift \in Addr /\ cpu.offset \in 0..7
    BY RegsTypes, RegByte DEF Registers
  <1>1. CASE DoIn /\ cpu.b2 \in {1, 2, 3}
    <2>1. PICK k \in Keys : cpu'.reg = [cpu.reg EXCEPT !["A"] = Port(cpu.b2, k, cpu.shift, cpu.offset)]
      BY <1>1, DoInEffect
    <2>2. Port(cpu.b2, k, cpu.shift, cpu.offset) \in Byte
      BY <1>1, <1>a, PortType
    <2>3. OneStep({"reg"})
      BY <1>1, DoInEffect
    <2>4. cpu'["reg"] \in Width["reg"]
      BY <2>1, <2>2, PutReg, Widths
    <2> QED  BY <1>0, <2>3, <2>4, EndTypes1
  <1>2. CASE DoIn /\ cpu.b2 \notin {1, 2, 3}
    <2>1. OneStep({"opcode_unk"}) /\ cpu'["opcode_unk"] \in Width["opcode_unk"]
      BY <1>2, DoInEffect, Widths
    <2> QED  BY <1>0, <2>1, EndTypes1
  <1>3. CASE DoOut
    <2> DEFINE a == cpu.reg["A"]
    <2>1. a % 8 \in 0..7
      BY <1>a, Ranges, Rests
    <2>2. a * 256 + cpu.shift \div 256 \in Addr
      <3>1. \A w \in Addr : w \div 256 \in Byte
        BY Halves
      <3>2. cpu.shift \div 256 \in Byte
        BY <1>a, <3>1
      <3> QED  BY <1>a, <3>2, Joined
    <2>3. \/ OneStep({})
          \/ OneStep({"offset"}) /\ cpu'.offset = a % 8
          \/ OneStep({"sound1"}) /\ cpu'.sound1 = a
          \/ OneStep({"shift"}) /\ cpu'.shift = a * 256 + cpu.shift \div 256
          \/ OneStep({"sound2"}) /\ cpu'.sound2 = a
          \/ Only({"opcode_unk"}) /\ cpu'.opcode_unk = TRUE
      BY <1>3, DoOutEffect, ZenonT(60)
    <2> HIDE DEF a
    <2>4. \/ OneStep({})
          \/ OneStep({"offset"}) /\ cpu'["offset"] \in Width["offset"]
          \/ OneStep({"sound1"}) /\ cpu'["sound1"] \in Width["sound1"]
          \/ OneStep({"shift"}) /\ cpu'["shift"] \in Width["shift"]
          \/ OneStep({"sound2"}) /\ cpu'["sound2"] \in Width["sound2"]
          \/ Only({"opcode_unk"}) /\ cpu'["opcode_unk"] \in Width["opcode_unk"]
      BY <1>a, <2>1, <2>2, <2>3, Widths, ZenonT(60) DEF a
    <2> QED  BY <1>0, <2>4, EndTypes0, EndTypes1
  <1> QED  BY <1>1, <1>2, <1>3

LEMMA IncDecRegs == ASSUME TypeInv, DoIncDec PROVE RegsType'
  <1> USE DEF TypeInv
  <1>0. rom_rdata \in Byte /\ cpu.op \in INR \cup DCR /\ cpu.op \in Byte
    BY RegsTypes, DoIncDecEffect DEF MemType, Executes
  <1>1. Dst(cpu.op) \in Registers
    BY <1>0, DstType
  <1>2. cpu.reg[Dst(cpu.op)] \in Byte
    BY <1>1, RegByte
  <1>3. CASE cpu.func = 0
    <2>1. /\ NextStep({"reg"})
          /\ cpu'.reg = [cpu.reg EXCEPT ![Dst(cpu.op)] = Stepped(cpu.op, cpu.reg[Dst(cpu.op)])]
      BY <1>3, DoIncDecEffect
    <2>2. Stepped(cpu.op, cpu.reg[Dst(cpu.op)]) \in Byte
      BY <1>0, <1>2, SteppedType
    <2>3. cpu'["reg"] \in Width["reg"]
      BY <2>1, <2>2, PutReg, Widths
    <2> QED  BY <1>0, <1>3, <2>1, <2>3, EndTypes1
  <1>4. CASE cpu.func # 0
    <2>1. LastStep({"flag"}) /\ cpu'.flag = SZP(cpu.flag, cpu.reg[Dst(cpu.op)])
      BY <1>4, DoIncDecEffect
    <2>2. cpu.flag \in Flags
      BY RegsTypes
    <2>3. cpu'["flag"] \in Width["flag"]
      BY <1>2, <2>1, <2>2, SZPType, Widths
    <2> QED  BY <1>0, <2>1, <2>3, EndTypes1
  <1> QED  BY <1>3, <1>4

LEMMA AluIRegs == ASSUME TypeInv, DoAluI PROVE RegsType'
  <1> USE DEF TypeInv
  <1> DEFINE e == Arith(cpu.op, cpu.reg["A"], cpu.b2, cpu.flag.carry)
             late == Row(cpu.op) > 3
  <1>0. /\ rom_rdata \in Byte /\ cpu.op \in Byte /\ cpu.b2 \in Byte /\ cpu.reg["A"] \in Byte
        /\ cpu.flag \in Flags /\ cpu.tmp \in Byte
    BY RegsTypes, RegByte DEF MemType, Registers
  <1>1. e.val \in Byte /\ e.carry \in {0, 1}
    BY <1>0, CarryBit, ArithType
  <1>2. CASE cpu.func = 0 /\ Row(cpu.op) = 7
    <2>1. NextStep({"tmp"}) /\ cpu'["tmp"] = e.val
      BY <1>2, DoAluIEffect
    <2> HIDE DEF e
    <2>2. cpu'["tmp"] \in Width["tmp"]
      BY <1>1, <2>1, Widths
    <2> QED  BY <1>0, <1>2, <2>1, <2>2, EndTypes1
  <1>3. CASE cpu.func = 0 /\ Row(cpu.op) # 7
    <2> DEFINE F == {"reg", "flag"}
               x == IF late THEN cpu.flag.carry ELSE e.carry
    <2>1. /\ NextStep(F) /\ cpu'.reg = [cpu.reg EXCEPT !["A"] = e.val]
          /\ cpu'.flag = [cpu.flag EXCEPT !.carry = x]
      BY <1>3, DoAluIEffect
    <2>2. x \in {0, 1}
      BY <1>1, CarryBit
    <2> HIDE DEF e, x
    <2>5. cpu'.reg \in [Registers -> Byte]
      BY <1>1, <2>1, PutReg
    <2>6. [cpu.flag EXCEPT !.carry = x] \in Flags
      BY <1>0, <2>2, FlagBits
    <2>3. cpu'.reg \in [Registers -> Byte] /\ cpu'.flag \in Flags
      BY <2>1, <2>5, <2>6
    <2>4. Typed(F)
      BY <2>3, Widths DEF Typed
    <2> HIDE DEF F
    <2> QED  BY <1>0, <1>3, <2>1, <2>4, EndTypes
  <1>4. CASE cpu.func # 0
    <2> DEFINE f == [cpu.flag EXCEPT !.carry = e.carry]
               g == IF late THEN [cpu.flag EXCEPT !.carry = 0] ELSE cpu.flag
    <2>1. LastStep({"flag"}) /\ cpu'.flag = IF Row(cpu.op) = 7 THEN SZP(f, cpu.tmp) ELSE SZP(g, cpu.reg["A"])
      BY <1>4, DoAluIEffect
    <2>2. f \in Flags /\ g \in Flags
      BY <1>0, <1>1, FlagBits
    <2> HIDE DEF f, g
    <2>3. cpu'.flag \in Flags
      BY <1>0, <2>1, <2>2, SZPType
    <2>4. cpu'["flag"] \in Width["flag"]
      BY <2>3, Widths
    <2> QED  BY <1>0, <2>1, <2>4, EndTypes1
  <1> QED  BY <1>2, <1>3, <1>4


LEMMA MemoryRegs == ASSUME TypeInv, DoStore \/ DoLoad \/ DoStepM \/ DoShld \/ DoLhld PROVE RegsType'
  <1> USE DEF TypeInv
  <1>0. rom_rdata \in Byte /\ q \in Byte /\ cpu.op \in Byte /\ cpu.flag \in Flags /\ cpu.tmp \in Byte
    BY RegsTypes DEF MemType
  <1>1. CASE DoStore
    BY <1>0, <1>1, DoStoreEffect, EndTypes0
  <1>2. CASE DoLoad
    <2> DEFINE b == Got(cpu.op, LoadAddr(cpu.op, cpu.reg, Operand))
    <2>1. \/ NextStep({}) /\ cpu.func < 7
          \/ LastStep({"reg"}) /\ cpu'.reg = [cpu.reg EXCEPT ![LoadReg(cpu.op)] = b]
      BY <1>2, DoLoadEffect
    <2>2. b \in Byte
      BY GotType
    <2> HIDE DEF b
    <2>3. CASE LastStep({"reg"}) /\ cpu'.reg = [cpu.reg EXCEPT ![LoadReg(cpu.op)] = b]
      <3>1. cpu'["reg"] \in Width["reg"]
        BY <2>2, <2>3, PutReg, Widths
      <3> QED  BY <1>0, <2>3, <3>1, EndTypes1
    <2> QED  BY <1>0, <2>1, <2>3, EndTypes0
  <1>3. CASE DoStepM
    <2> DEFINE x == Stepped(cpu.op, q)
    <2>1. \/ NextStep({}) /\ cpu.func < 7
          \/ NextStep({"tmp"}) /\ cpu'.tmp = x /\ cpu.func < 7
          \/ LastStep({"flag"}) /\ cpu'.flag = SZP(cpu.flag, cpu.tmp)
      BY <1>3, DoStepMEffect
    <2>2. x \in Byte /\ SZP(cpu.flag, cpu.tmp) \in Flags
      BY <1>0, SteppedType, SZPType
    <2> HIDE DEF x
    <2>3. \/ NextStep({}) /\ cpu.func < 7
          \/ NextStep({"tmp"}) /\ cpu'["tmp"] \in Width["tmp"] /\ cpu.func < 7
          \/ LastStep({"flag"}) /\ cpu'["flag"] \in Width["flag"]
      BY <2>1, <2>2, Widths
    <2> QED  BY <1>0, <2>3, EndTypes0, EndTypes1
  <1>4. CASE DoShld
    <2>1. (NextStep({}) /\ cpu.func < 7) \/ LastStep({})
      BY <1>4, DoShldEffect
    <2> QED  BY <1>0, <2>1, EndTypes0
  <1>5. CASE DoLhld
    <2> DEFINE b == Got(cpu.op, Operand)
    <2>1. \/ NextStep({}) /\ cpu.func < 7
          \/ NextStep({"reg"}) /\ cpu'.reg = [cpu.reg EXCEPT !["L"] = b] /\ cpu.func < 7
          \/ LastStep({"reg"}) /\ cpu'.reg = [cpu.reg EXCEPT !["H"] = b]
      BY <1>5, DoLhldEffect
    <2>2. b \in Byte
      BY GotType
    <2> HIDE DEF b
    <2>3. \/ NextStep({}) /\ cpu.func < 7
          \/ NextStep({"reg"}) /\ cpu'["reg"] \in Width["reg"] /\ cpu.func < 7
          \/ LastStep({"reg"}) /\ cpu'["reg"] \in Width["reg"]
      BY <2>1, <2>2, PutReg, Widths
    <2> QED  BY <1>0, <2>3, EndTypes0, EndTypes1
  <1> QED  BY <1>1, <1>2, <1>3, <1>4, <1>5

LEMMA AluMRegs == ASSUME TypeInv, DoAluM PROVE RegsType'
  <1> USE DEF TypeInv
  <1> DEFINE e == Arith(cpu.op, cpu.reg["A"], Got(cpu.op, HL(cpu.reg)), cpu.flag.carry)
             logic == cpu.op \in {\hA6, \hB6}
  <1>0. /\ rom_rdata \in Byte /\ cpu.op \in Byte /\ cpu.reg["A"] \in Byte
        /\ cpu.flag \in Flags /\ cpu.tmp \in Byte
    BY RegsTypes, RegByte DEF MemType, Registers
  <1>1. e.val \in Byte /\ e.carry \in {0, 1}
    BY <1>0, CarryBit, ArithType, GotType
  <1>2. CASE cpu.func = 0
    <2>1. NextStep({})
      BY <1>2, DoAluMEffect
    <2> QED  BY <1>0, <1>2, <2>1, EndTypes0
  <1>7. CASE cpu.func = 1
    <2>1. NextStep({})
      BY <1>7, DoAluMEffect
    <2> QED  BY <1>0, <1>7, <2>1, EndTypes0
  <1>3. CASE cpu.func = 2 /\ cpu.op = \hBE
    <2> DEFINE F == {"tmp", "flag"}
    <2>1. NextStep(F) /\ cpu'.tmp = e.val /\ cpu'.flag = [cpu.flag EXCEPT !.carry = e.carry]
      BY <1>3, DoAluMEffect
    <2> HIDE DEF e
    <2>2. [cpu.flag EXCEPT !.carry = e.carry] \in Flags
      BY <1>0, <1>1, FlagBits
    <2>3. Typed(F)
      BY <1>1, <2>1, <2>2, Widths DEF Typed
    <2> HIDE DEF F
    <2> QED  BY <1>0, <1>3, <2>1, <2>3, EndTypes
  <1>4. CASE cpu.func = 2 /\ cpu.op # \hBE
    <2> DEFINE F == {"reg", "flag"}
               x == IF logic THEN cpu.flag.carry ELSE e.carry
    <2>1. /\ NextStep(F) /\ cpu'.reg = [cpu.reg EXCEPT !["A"] = e.val]
          /\ cpu'.flag = [cpu.flag EXCEPT !.carry = x]
      BY <1>4, DoAluMEffect
    <2>2. x \in {0, 1}
      BY <1>1, CarryBit
    <2> HIDE DEF e, x
    <2>3. cpu'.reg \in [Registers -> Byte]
      BY <1>1, <2>1, PutReg
    <2>4. [cpu.flag EXCEPT !.carry = x] \in Flags
      BY <1>0, <2>2, FlagBits
    <2>5. Typed(F)
      BY <2>1, <2>3, <2>4, Widths DEF Typed
    <2> HIDE DEF F
    <2> QED  BY <1>0, <1>4, <2>1, <2>5, EndTypes
  <1>5. CASE cpu.func > 2
    <2> DEFINE g == SZP(cpu.flag, IF cpu.op = \hBE THEN cpu.tmp ELSE cpu.reg["A"])
    <2>1. LastStep({"flag"}) /\ cpu'.flag = IF logic THEN [g EXCEPT !.ac = 0, !.carry = 0] ELSE g
      BY <1>5, DoAluMEffect
    <2>2. g \in Flags
      BY <1>0, SZPType
    <2> HIDE DEF g
    <2>3. [g EXCEPT !.ac = 0, !.carry = 0] \in Flags
      BY <2>2 DEF Flags
    <2>4. cpu'["flag"] \in Width["flag"]
      BY <2>1, <2>2, <2>3, Widths
    <2> QED  BY <1>0, <2>1, <2>4, EndTypes1
  <1>6. cpu.func = 0 \/ cpu.func = 1 \/ cpu.func = 2 \/ cpu.func > 2
    BY DEF DoAluM
  <1> QED  BY <1>2, <1>3, <1>4, <1>5, <1>6, <1>7

\* What comes from the stack.
LEMMA HalfTypes ==
    ASSUME NEW w \in Addr, NEW x \in Byte
    PROVE  256 * (w \div 256) + x \in Addr /\ 256 * x + (w % 256) \in Addr
  <1>1. w \div 256 \in Byte /\ w % 256 \in Byte
    BY Halves
  <1>2. ASSUME NEW a \in Byte, NEW b \in Byte PROVE 256 * a + b \in Addr
    <2>1. a \in Int /\ 0 <= a /\ a <= 255 /\ b \in Int /\ 0 <= b /\ b <= 255
      BY DEF Byte
    <2>2. 256 * a + b \in Int /\ 0 <= 256 * a + b /\ 256 * a + b <= 65535
      BY <2>1
    <2> QED  BY <2>2, InAddr
  <1> QED  BY <1>1, <1>2

LEMMA StackRegs == ASSUME TypeInv, DoPush \/ DoPop \/ DoCall PROVE RegsType'
  <1> USE DEF TypeInv
  <1>0. rom_rdata \in Byte /\ q \in Byte
    BY DEF MemType
  <1>1. CASE DoPush
    <2>1. \/ NextStep({}) /\ cpu.func < 7
          \/ LastStep({"sp"}) /\ cpu'["sp"] \in Width["sp"]
      BY <1>1, DoPushEffect, StackType, Widths
    <2> QED  BY <1>0, <2>1, EndTypes0, EndTypes1
  <1>2. CASE DoPop
    <2>1. \/ NextStep({}) /\ cpu.func < 7
          \/ NextStep({"flag"}) /\ cpu'["flag"] = Unpacked(q) /\ cpu.func < 7
          \/ NextStep({"reg"}) /\ cpu'.reg = [cpu.reg EXCEPT ![Pair(cpu.op)[2]] = q] /\ cpu.func < 7
          \/ /\ NextStep({"reg"}) /\ cpu.func < 7
             /\ cpu'.reg = [cpu.reg EXCEPT ![IF cpu.op = \hF1 THEN "A" ELSE Pair(cpu.op)[1]] = q]
          \/ LastStep({"sp"}) /\ cpu'.sp = (cpu.sp + 2) % 65536
      BY <1>2, DoPopEffect
    <2>2. \A r : [cpu.reg EXCEPT ![r] = q] \in [Registers -> Byte]
      BY <1>0, PutReg
    <2>3. Unpacked(q) \in Flags
      BY <1>0, UnpackedType
    <2>4. \/ NextStep({}) /\ cpu.func < 7
          \/ NextStep({"flag"}) /\ cpu'["flag"] \in Width["flag"] /\ cpu.func < 7
          \/ NextStep({"reg"}) /\ cpu'["reg"] \in Width["reg"] /\ cpu.func < 7
          \/ LastStep({"sp"}) /\ cpu'["sp"] \in Width["sp"]
      BY <2>1, <2>2, <2>3, StackType, Widths
    <2> QED  BY <1>0, <2>4, EndTypes0, EndTypes1
  <1>3. CASE DoCall
    <2>1. CASE Holds(cpu.op, cpu.flag) \/ (cpu.op = \hD4 /\ cpu.func > 0)
      <3>1. \/ NextStep({}) /\ cpu.func < 7
            \/ JumpStep({"sp"}, Operand) /\ cpu'["sp"] \in Width["sp"]
        BY <1>3, <2>1, DoCallEffect, StackType, Widths
      <3> QED  BY <1>0, <3>1, EndTypes0, EndTypes1, OperandType
    <2>2. CASE ~(Holds(cpu.op, cpu.flag) \/ (cpu.op = \hD4 /\ cpu.func > 0))
      <3>1. Only({"state"}) /\ cpu'["state"] \in Width["state"]
        BY <1>3, <2>2, DoCallEffect, Widths
      <3> QED  BY <1>0, <3>1, EndTypes1
    <2> QED  BY <2>1, <2>2
  <1> QED  BY <1>1, <1>2, <1>3

LEMMA ReturnRegs == ASSUME TypeInv, DoRetIf \/ DoRet \/ DoXthl PROVE RegsType'
  <1> USE DEF TypeInv
  <1>0. /\ rom_rdata \in Byte /\ q \in Byte /\ cpu.pc \in Addr /\ cpu.tmp2 \in Addr
        /\ cpu.reg \in [Registers -> Byte]
    BY RegsTypes DEF MemType
  <1>a. /\ 256 * (cpu.pc \div 256) + q \in Addr /\ 256 * q + (cpu.pc % 256) \in Addr
        /\ 256 * (cpu.tmp2 \div 256) + q \in Addr /\ 256 * q + (cpu.tmp2 % 256) \in Addr
    <2> DEFINE Halved(w) == 256 * (w \div 256) + q \in Addr /\ 256 * q + (w % 256) \in Addr
    <2>1. ASSUME NEW w \in Addr PROVE Halved(w)
      BY <1>0, HalfTypes
    <2> HIDE DEF Halved
    <2>2. Halved(cpu.pc) /\ Halved(cpu.tmp2)
      BY <1>0, <2>1, ZenonT(30)
    <2> QED  BY <2>2 DEF Halved
  <1>1. CASE DoRetIf /\ cpu.func = 0 /\ ~Holds(cpu.op, cpu.flag)
    BY <1>0, <1>1, DoRetIfEffect, EndTypes0
  <1>2. CASE DoRetIf /\ ~(cpu.func = 0 /\ ~Holds(cpu.op, cpu.flag))
    <2> DEFINE F == {"sp", "can_debug"}
    <2>1. \/ NextStep({}) /\ cpu.func < 7
          \/ NextStep({"pc"}) /\ cpu'["pc"] \in Width["pc"] /\ cpu.func < 7
          \/ JumpStep(F, cpu.pc) /\ cpu'.sp = (cpu.sp + 2) % 65536 /\ cpu'.can_debug \in BOOLEAN
      BY <1>a, <1>2, DoRetIfEffect, Widths
    <2>2. ASSUME JumpStep(F, cpu.pc), cpu'.sp = (cpu.sp + 2) % 65536, cpu'.can_debug \in BOOLEAN
          PROVE  RegsType'
      <3>1. Typed(F)
        BY <2>2, StackType, Widths DEF Typed
      <3> HIDE DEF F
      <3> QED  BY <1>0, <2>2, <3>1, EndTypes
    <2>3. ASSUME NextStep({}), cpu.func < 7 PROVE RegsType'
      BY <1>0, <2>3, EndTypes0
    <2>4. ASSUME NextStep({"pc"}), cpu'["pc"] \in Width["pc"], cpu.func < 7 PROVE RegsType'
      BY <1>0, <2>4, EndTypes1
    <2> HIDE DEF F
    <2> QED  BY <2>1, <2>2, <2>3, <2>4
  <1>3. CASE DoRet
    <2>1. \/ NextStep({}) /\ cpu.func < 7
          \/ NextStep({"tmp2"}) /\ cpu'["tmp2"] \in Width["tmp2"] /\ cpu.func < 7
          \/ NextStep({"pc"}) /\ cpu'["pc"] \in Width["pc"] /\ cpu.func < 7
          \/ JumpStep({"sp"}, cpu.pc) /\ cpu'["sp"] \in Width["sp"]
      BY <1>0, <1>a, <1>3, DoRetEffect, StackType, Widths
    <2> QED  BY <1>0, <2>1, EndTypes0, EndTypes1
  <1>4. CASE DoXthl
    <2> DEFINE z == WithWord(cpu.reg, <<"H", "L">>, cpu.tmp2)
    <2>0. z \in [Registers -> Byte]
      BY <1>0, WithWordType
    <2>1. \/ NextStep({}) /\ cpu.func < 7
          \/ NextStep({"tmp2"}) /\ cpu'["tmp2"] \in Width["tmp2"] /\ cpu.func < 7
          \/ LastStep({"reg"}) /\ cpu'["reg"] = z
      BY <1>a, <1>4, DoXthlEffect, Widths
    <2> HIDE DEF z
    <2>2. \/ NextStep({}) /\ cpu.func < 7
          \/ NextStep({"tmp2"}) /\ cpu'["tmp2"] \in Width["tmp2"] /\ cpu.func < 7
          \/ LastStep({"reg"}) /\ cpu'["reg"] \in Width["reg"]
      BY <2>0, <2>1, Widths
    <2> QED  BY <1>0, <2>2, EndTypes0, EndTypes1
  <1> QED  BY <1>1, <1>2, <1>3, <1>4

----------------------------------------------------------------------------
(* Each action's use of the memory port. *)

\* What an opcode puts on the port is a byte at an address.
LEMMA StoreTypes ==
    ASSUME TypeInv, cpu.op \in STORE
    PROVE  /\ StoreAddr(cpu.op, cpu.reg, Operand) \in Addr
           /\ StoreByte(cpu.op, cpu.reg, cpu.b2) \in Byte
  <1>1. Operand \in Addr /\ HL(cpu.reg) \in Addr /\ cpu.reg \in [Registers -> Byte] /\ cpu.b2 \in Byte
    BY OperandType, HLType, RegsTypes DEF TypeInv
  <1> DEFINE op == cpu.op
             r == cpu.reg
  <1>2. op \in STORE
    OBVIOUS
  <1> HIDE DEF op, r
  <1>3. op \in {\h02, \h12} => Pair(op) \in Registers \X Registers
    BY PairType DEF Registers
  <1>4. op \in MOV_M => Src(op) \in Registers
    BY SrcType
  <1>5. r \in [Registers -> Byte] /\ HL(r) \in Addr
    BY <1>1 DEF r
  <1>6. StoreAddr(op, r, Operand) \in Addr
    BY <1>1, <1>3, <1>5, WordType DEF StoreAddr
  <1>7. StoreByte(op, r, cpu.b2) \in Byte
    BY <1>1, <1>4, <1>5 DEF StoreByte, Registers
  <1> QED  BY <1>6, <1>7 DEF op, r

LEMMA PushTypes ==
    ASSUME TypeInv, cpu.op \in PUSH
    PROVE  PushHigh(cpu.op, cpu.reg) \in Byte /\ PushLow(cpu.op, cpu.reg, cpu.flag) \in Byte
  <1> DEFINE op == cpu.op
             r == cpu.reg
             f == cpu.flag
  <1>1. r \in [Registers -> Byte] /\ f \in Flags
    BY RegsTypes DEF TypeInv
  <1>2. op \in PUSH
    OBVIOUS
  <1> HIDE DEF op, r, f
  <1>3. op # \hF5 => Pair(op)[1] \in Registers /\ Pair(op)[2] \in Registers
    BY <1>2, PairType DEF PUSH, Registers
  <1>4. Packed(f) \in Byte
    BY <1>1, PackedType
  <1>5. PushHigh(op, r) \in Byte /\ PushLow(op, r, f) \in Byte
    BY <1>1, <1>3, <1>4 DEF PushHigh, PushLow, Registers
  <1> QED  BY <1>5 DEF op, r, f

LEMMA LoadTypes ==
    ASSUME TypeInv, cpu.op \in LOAD
    PROVE  LoadAddr(cpu.op, cpu.reg, Operand) \in Addr
  <1> DEFINE op == cpu.op
             r == cpu.reg
  <1>1. Operand \in Addr /\ HL(r) \in Addr /\ r \in [Registers -> Byte]
    BY OperandType, HLType, RegsTypes DEF TypeInv
  <1> HIDE DEF op, r
  <1>2. op \in {\h0A, \h1A} => Pair(op) \in Registers \X Registers
    BY PairType DEF Registers
  <1>3. LoadAddr(op, r, Operand) \in Addr
    BY <1>1, <1>2, WordType DEF LoadAddr
  <1> QED  BY <1>3 DEF op, r

\* Addresses are integers, and so are the places next to them.
LEMMA PlaceTypes ==
    ASSUME TypeInv
    PROVE  /\ cpu.pc \in Int /\ cpu.sp \in Int /\ HL(cpu.reg) \in Int /\ Operand \in Int
           /\ (cpu.pc + 1) % 65536 \in Int /\ (cpu.pc + 2) % 65536 \in Int
           /\ (cpu.sp - 1) % 65536 \in Int /\ (cpu.sp - 2) % 65536 \in Int
           /\ (cpu.sp + 1) % 65536 \in Int /\ (Operand + 1) % 65536 \in Int
           /\ cpu.pc \div 256 \in Byte /\ cpu.pc % 256 \in Byte
           /\ cpu.reg["H"] \in Byte /\ cpu.reg["L"] \in Byte
  <1>1. cpu.pc \in Addr /\ cpu.sp \in Addr /\ HL(cpu.reg) \in Addr /\ Operand \in Addr
    BY RegsTypes, HLType, OperandType DEF TypeInv
  <1>2. cpu.pc \in Int /\ cpu.sp \in Int /\ HL(cpu.reg) \in Int /\ Operand \in Int
    BY <1>1, Ranges
  <1>3. cpu.pc \div 256 \in Byte /\ cpu.pc % 256 \in Byte
    BY <1>1, Halves
  <1>4. cpu.reg["H"] \in Byte /\ cpu.reg["L"] \in Byte
    BY RegByte DEF TypeInv, Registers
  <1>5. \A x \in Int : /\ (x + 1) % 65536 \in Int /\ (x + 2) % 65536 \in Int
                       /\ (x - 1) % 65536 \in Int /\ (x - 2) % 65536 \in Int
    OBVIOUS
  <1> QED  BY <1>2, <1>3, <1>4, <1>5

LEMMA CycleBus ==
    ASSUME TypeInv,
           \/ Wait \/ Start \/ Vector \/ Fetch \/ Opcode
           \/ SetFlags \/ SecondByte \/ ThirdByte \/ Unknown \/ Debug
    PROVE  BusType'
  <1> USE DEF TypeInv
  <1>1. CASE Wait \/ SetFlags \/ SecondByte \/ ThirdByte \/ Unknown \/ Debug
    <2>1. Wait \/ SetFlags \/ SecondByte => Idle
      BY Zenon DEF Wait, SetFlags, SecondByte
    <2>2. ThirdByte => Idle
      BY ThirdByteEffect
    <2>3. Unknown \/ Debug => Idle
      BY UnknownEffect
    <2> QED  BY <1>1, <2>1, <2>2, <2>3, KeepType
  <1>2. CASE Start
    <2>1. ReadRom(cpu.pc)
      BY <1>2, Zenon DEF Start
    <2> QED  BY <2>1, PlaceTypes, ReadType
  <1>3. CASE Vector
    BY <1>3, VectorEffect, PlaceTypes, WriteType, KeepType
  <1>4. CASE Fetch
    BY <1>4, PlaceTypes, ReadType DEF Fetch
  <1>5. CASE Opcode
    BY <1>5, PlaceTypes, ReadType DEF Opcode
  <1> QED  BY <1>1, <1>2, <1>3, <1>4, <1>5

LEMMA QuietBus ==
    ASSUME TypeInv, DoPlain \/ DoMvi \/ DoLxi \/ DoJump \/ DoIn \/ DoOut \/ DoIncDec \/ DoAluI
    PROVE  BusType'
  BY KeepType DEF TypeInv, DoPlain, DoMvi, DoLxi, DoJump, DoIn, DoOut, DoIncDec, DoAluI

LEMMA MemoryBus ==
    ASSUME TypeInv, DoStore \/ DoLoad \/ DoAluM \/ DoStepM \/ DoShld \/ DoLhld
    PROVE  BusType'
  <1> USE DEF TypeInv
  <1>1. CASE DoStore
    <2>1. cpu.op \in STORE
      BY <1>1 DEF DoStore, Executes
    <2>2. StoreAddr(cpu.op, cpu.reg, Operand) \in Int
      BY <2>1, StoreTypes, Ranges
    <2> QED  BY <1>1, <2>1, <2>2, DoStoreEffect, StoreTypes, WriteType, KeepType
  <1>2. CASE DoLoad
    <2>1. cpu.op \in LOAD
      BY <1>2 DEF DoLoad, Executes
    <2>2. LoadAddr(cpu.op, cpu.reg, Operand) \in Int
      BY <2>1, LoadTypes, Ranges
    <2> QED  BY <1>2, <2>2, DoLoadEffect, LookType, KeepType
  <1>3. CASE DoAluM
    <2>1. Look(cpu.op, HL(cpu.reg), HL(cpu.reg)) \/ Idle
      BY <1>3 DEF DoAluM
    <2> QED  BY <2>1, PlaceTypes, LookType, KeepType
  <1>4. CASE DoStepM
    <2>1. Stepped(cpu.op, q) \in Byte
      BY RegsTypes, SteppedType DEF MemType
    <2> QED  BY <1>4, <2>1, DoStepMEffect, PlaceTypes, ReadType, WriteType, KeepType
  <1>5. CASE DoShld
    BY <1>5, DoShldEffect, PlaceTypes, WriteType, KeepType
  <1>6. CASE DoLhld
    BY <1>6, DoLhldEffect, PlaceTypes, LookType, KeepType
  <1> QED  BY <1>1, <1>2, <1>3, <1>4, <1>5, <1>6

LEMMA StackBus ==
    ASSUME TypeInv, DoPush \/ DoPop \/ DoCall \/ DoRetIf \/ DoRet \/ DoXthl
    PROVE  BusType'
  <1> USE DEF TypeInv
  <1>1. CASE DoPush
    <2>1. cpu.op \in PUSH
      BY <1>1 DEF DoPush, Executes
    <2> QED  BY <1>1, <2>1, DoPushEffect, PushTypes, PlaceTypes, WriteType, KeepType
  <1>2. CASE DoPop
    BY <1>2, PlaceTypes, ReadType, KeepType DEF DoPop, PopSteps
  <1>3. CASE DoCall
    BY <1>3, DoCallEffect, PlaceTypes, WriteType, KeepType
  <1>4. CASE DoRetIf
    BY <1>4, PlaceTypes, ReadType, KeepType DEF DoRetIf, PopSteps
  <1>5. CASE DoRet
    BY <1>5, PlaceTypes, ReadType, KeepType DEF DoRet
  <1>6. CASE DoXthl
    BY <1>6, PlaceTypes, ReadType, WriteType, KeepType DEF DoXthl, PopSteps
  <1> QED  BY <1>1, <1>2, <1>3, <1>4, <1>5, <1>6

----------------------------------------------------------------------------
(* The steps of the CPU, the renderer and the end of game_ready. *)

LEMMA ClockRegs == ASSUME TypeInv, Clock PROVE RegsType' /\ BusType'
  <1>1. CASE \/ Debug \/ Wait \/ Start \/ Vector \/ Fetch \/ Opcode
             \/ SetFlags \/ SecondByte \/ ThirdByte \/ Unknown
    BY <1>1, ControlRegs, DecodeRegs, CycleBus
  <1>2. CASE DoPlain \/ DoMvi \/ DoLxi \/ DoJump \/ DoIn \/ DoOut \/ DoIncDec \/ DoAluI
    BY <1>2, PlainRegs, MviLxiRegs, JumpRegs, PortRegs, IncDecRegs, AluIRegs, QuietBus
  <1>3. CASE DoStore \/ DoLoad \/ DoAluM \/ DoStepM \/ DoShld \/ DoLhld
    BY <1>3, MemoryRegs, AluMRegs, MemoryBus
  <1>4. CASE DoPush \/ DoPop \/ DoCall \/ DoRetIf \/ DoRet \/ DoXthl
    BY <1>4, StackRegs, ReturnRegs, StackBus
  <1> QED  BY <1>1, <1>2, <1>3, <1>4 DEF Clock, Executing

LEMMA ClockInts == ASSUME TypeInv, Clock PROVE IntType'
  <1>1. int_old' = int_rst /\ UNCHANGED <<int_rst, restarts, whole>>
    BY DEF Clock
  <1>2. due' \in Vectors \cup {0} /\ since' \in 0..MinGap
    <2>1. CASE UNCHANGED <<due, since>>
      BY <2>1 DEF TypeInv, IntType
    <2>2. CASE Start
      <3>1. due' = due \/ due' = 0
        BY <2>2 DEF Start
      <3>2. since' = IF since < MinGap THEN since + 1 ELSE since
        BY <2>2 DEF Start
      <3> QED  BY <3>1, <3>2, CpuAssumption DEF TypeInv, IntType
    <2>3. CASE Vector
      BY <2>3 DEF Vector, TypeInv, IntType
    <2>4. Wait => UNCHANGED <<due, since>>
      BY DEF Wait
    <2> QED  BY <2>1, <2>2, <2>3, <2>4 DEF Clock
  <1> QED  BY <1>1, <1>2 DEF TypeInv, IntType, Vectors

LEMMA ClockTypes == ASSUME TypeInv, Clock PROVE TypeInv'
  <1>1. MemType'
    BY MemoriesType DEF TypeInv, Clock
  <1> QED  BY <1>1, ClockRegs, ClockInts DEF TypeInv

LEMMA RaiseTypes == ASSUME TypeInv, Raise PROVE TypeInv'
  <1>1. UNCHANGED <<cpu, port, q, rom_rdata, rom, ram>>
    BY DEF Raise, memVars
  <1>2. RegsType'
    BY <1>1 DEF TypeInv, RegsType, Width, Fields
  <1>3. BusType' /\ MemType'
    BY <1>1 DEF TypeInv, BusType, MemType
  <1>4. IntType'
    <2>1. /\ int_rst' \in Vectors /\ due' = int_rst' /\ since' = 0 /\ int_old' = int_rst
          /\ restarts' = restarts /\ whole' = whole
      BY DEF Raise
    <2> QED  BY <2>1, CpuAssumption DEF TypeInv, IntType
  <1> QED  BY <1>2, <1>3, <1>4 DEF TypeInv

LEMMA RestartRegs == ASSUME TypeInv, NEW board \in BOOLEAN, Restart(board) PROVE RegsType'
  <1> DEFINE c == [cpu EXCEPT !.pc = 0, !.state = 0, !.opcode_unk = FALSE]
             d == [c EXCEPT !.cycles_remain = 0, !.int_enabled = FALSE,
                            !.int_op = FALSE, !.shift = 0, !.can_debug = FALSE]
  <1>1. cpu' = c \/ cpu' = d
    BY DEF Restart
  <1>2. DOMAIN cpu = Fields /\ \A f \in Fields : cpu[f] \in Width[f]
    BY SMTT(30) DEF TypeInv, RegsType
  <1>3. /\ 0 \in Width.pc /\ 0 \in Width.state /\ FALSE \in Width.opcode_unk /\ 0 \in Width.cycles_remain
        /\ FALSE \in Width.int_enabled /\ FALSE \in Width.int_op /\ 0 \in Width.shift
        /\ FALSE \in Width.can_debug
    BY CpuAssumption DEF Width, Addr
  <1>4. DOMAIN c = Fields /\ \A f \in Fields : c[f] \in Width[f]
    BY <1>2, <1>3
  <1> HIDE DEF c
  <1>5. DOMAIN d = Fields /\ \A f \in Fields : d[f] \in Width[f]
    BY <1>3, <1>4
  <1> HIDE DEF d
  <1>6. Width' = Width /\ Fields' = Fields
    BY DEF Width, Fields
  <1> QED  BY <1>1, <1>4, <1>5, <1>6 DEF RegsType

LEMMA RestartTypes == ASSUME TypeInv, NEW board \in BOOLEAN, Restart(board) PROVE TypeInv'
  <1>1. MemType'
    BY MemoriesType DEF TypeInv, Restart
  <1>2. BusType'
    BY KeepType DEF TypeInv, Restart, Idle
  <1>3. IntType'
    BY DEF Restart, TypeInv, IntType
  <1> QED  BY <1>1, <1>2, <1>3, RestartRegs DEF TypeInv

LEMMA InitTypes == ASSUME CpuInit PROVE TypeInv
  <1>1. 4 * CYCLE_MULTIPLICATOR - 4 \in Nat /\ MinGap \in Nat
    BY CpuAssumption, SMTT(30)
  <1>2. RegsType
    <2>1. DOMAIN cpu = Fields
      BY DEF CpuInit, Fields
    <2>2. NoFlags \in Flags
      BY DEF NoFlags, Flags
    <2> QED  BY <1>1, <2>1, <2>2 DEF CpuInit, RegsType, Width, Fields, Byte, Addr
  <1>3. BusType
    BY DEF CpuInit, BusType, BusAddr, RomAddr, Byte
  <1>4. MemType
    BY DEF CpuInit, MemType, Byte
  <1>5. IntType
    BY <1>1 DEF CpuInit, IntType
  <1> QED  BY <1>2, <1>3, <1>4, <1>5 DEF TypeInv

LEMMA StillTypes == ASSUME TypeInv, UNCHANGED cpuVars PROVE TypeInv'
  <1>1. RegsType'
    BY DEF TypeInv, RegsType, Width, Fields, cpuVars
  <1> QED  BY <1>1 DEF TypeInv, BusType, MemType, IntType, cpuVars, memVars, intVars, cpuHistory

\* Every register keeps to its width, every byte of the memories is one, and so are the port and the
\* requests (cpu.v:62-111).
THEOREM CpuTypesInvariant == CpuSpec => []TypeInv
  <1>1. TypeInv /\ [CpuNext]_cpuVars => TypeInv'
    BY ClockTypes, RaiseTypes, RestartTypes, StillTypes DEF CpuNext
  <1> QED  BY InitTypes, <1>1, PTL DEF CpuSpec

\* The type invariant of the module follows.
THEOREM CpuTypeCorrect == CpuSpec => []CpuType
  <1>1. TypeInv => CpuType
    <2> SUFFICES ASSUME TypeInv PROVE CpuType
      OBVIOUS
    <2>1. /\ cpu.state \in 0..5 /\ cpu.func \in 0..7
          /\ {cpu.op, cpu.b2, cpu.b3, cpu.tmp, cpu.sound1, cpu.sound2} \subseteq Byte
          /\ {cpu.pc, cpu.sp, cpu.tmp2, cpu.shift} \subseteq Addr
      BY RegsTypes DEF TypeInv
    <2>2. /\ cpu.reg \in [Registers -> Byte] /\ cpu.flag \in Flags
          /\ cpu.cycles_remain \in 0..(4 * CYCLE_MULTIPLICATOR - 4) /\ cpu.offset \in 0..7
          /\ {cpu.set_flags, cpu.opcode_unk, cpu.can_debug, cpu.int_enabled, cpu.int_op} \subseteq BOOLEAN
      BY RegsTypes DEF TypeInv
    <2>3. port.wren \in BOOLEAN /\ port.addr \in BusAddr /\ port.raddr \in RomAddr
          /\ {port.data, q, rom_rdata} \subseteq Byte
      BY DEF TypeInv, BusType, MemType
    <2>4. \A a \in DOMAIN ram : a \in RamAddr /\ ram[a] \in Byte
      BY DEF TypeInv, MemType
    <2>5. due \in Vectors \cup {0} /\ since \in 0..MinGap
      BY DEF TypeInv, IntType
    <2> QED  BY <2>1, <2>2, <2>3, <2>4, <2>5, Zenon DEF CpuType
  <1> QED  BY <1>1, CpuTypesInvariant, PTL

----------------------------------------------------------------------------
(* The write enable. *)

\* The fields of the clocked block that its control looks at.
Control == {"state", "func", "op", "set_flags", "can_debug", "int_op", "flag"}

\* They are there, by the types of the registers.
Shape == Control \subseteq DOMAIN cpu /\ "wren" \in DOMAIN port

\* An opcode or an interrupt that writes one byte and the next, from step n on.
TwoWrites(n) == cpu.func \in {n, n + 1} /\ wrenRun <= cpu.func - n + 1

\* Where the CPU is while VIDEO_mem_wren is up: in front of its second byte, or of the step that drops
\* the enable.
Writing ==
    \/ cpu.state = 1 /\ cpu.int_op /\ TwoWrites(1)
    \/ Executes(STORE) /\ cpu.func = 1 /\ wrenRun <= 1
    \/ Executes(PUSH) /\ TwoWrites(1)
    \/ Executes({\h22}) /\ TwoWrites(1)
    \/ Executes(CALL) /\ TwoWrites(1) /\ (Holds(cpu.op, cpu.flag) \/ cpu.op = \hD4)
    \/ Executes(STEP_M) /\ cpu.func = 3 /\ wrenRun <= 1
    \/ Executes({\hE3}) /\ TwoWrites(5)

WriteInv ==
    /\ wrenRun \in 0..3
    /\ ~port.wren => wrenRun = 0
    /\ whole /\ port.wren => ~cpu.can_debug /\ Writing

----------------------------------------------------------------------------
(* What the opcodes of the source are, and are not. *)

LEMMA WriteGroups ==
    /\ STORE \cap PUSH = {} /\ STORE \cap CALL = {} /\ STORE \cap STEP_M = {}
    /\ PUSH \cap CALL = {} /\ PUSH \cap STEP_M = {} /\ CALL \cap STEP_M = {}
    /\ \h22 \notin STORE \cup PUSH \cup CALL \cup STEP_M
    /\ \hE3 \notin STORE \cup PUSH \cup CALL \cup STEP_M \cup {\h22}
  BY DEF STORE, PUSH, CALL, STEP_M, MOV_M

\* The opcodes that write.
Writers == STORE \cup PUSH \cup CALL \cup STEP_M \cup {\h22, \hE3}

LEMMA OtherGroups ==
    /\ Writers \cap PLAIN = {} /\ Writers \cap MVI = {} /\ Writers \cap LXI = {}
    /\ Writers \cap (JUMP \cup {\hE9}) = {} /\ Writers \cap {\hDB} = {} /\ Writers \cap {\hD3} = {}
    /\ Writers \cap (INR \cup DCR) = {} /\ Writers \cap ALU_I = {} /\ Writers \cap LOAD = {}
    /\ Writers \cap ALU_M = {} /\ Writers \cap POP = {} /\ Writers \cap RET_IF = {}
    /\ Writers \cap {\hC9} = {} /\ Writers \cap {\h2A} = {}
  BY DEF Writers, STORE, PUSH, CALL, STEP_M, MOV_M, PLAIN, MOV_R, INX, DCX, DAD, LOGIC, MVI, LXI, JUMP,
         INR, DCR, ALU_I, LOAD, FROM_M, ALU_M, POP, RET_IF

LEMMA ByteCounts ==
    /\ \A op : Bytes(op) \in {1, 2, 3}
    /\ \A op \in CALL : Bytes(op) = 3
  BY SMTT(30) DEF Bytes, ThreeBytes

----------------------------------------------------------------------------
(* The registers, by their fields. *)

\* Control fields that a clock edge leaves alone.
Same(c, d) ==
    /\ c.state = d.state /\ c.func = d.func /\ c.op = d.op /\ c.set_flags = d.set_flags
    /\ c.can_debug = d.can_debug /\ c.int_op = d.int_op /\ c.flag = d.flag

LEMMA TickedSame == ASSUME Shape PROVE DOMAIN Ticked = DOMAIN cpu /\ Same(Ticked, cpu)
  <1> DEFINE v == IF cpu.state = 3 THEN 4 * CYCLE_MULTIPLICATOR - 4
                  ELSE IF cpu.cycles_remain > 0 THEN cpu.cycles_remain - 1 ELSE 0
             c == [cpu EXCEPT !.cycles_remain = v]
             w == IF cpu.state = 4 THEN rom_rdata ELSE cpu.b3
  <1>1. DOMAIN c = DOMAIN cpu /\ Same(c, cpu)
    <2> HIDE DEF v
    <2> QED  BY DEF Shape, Control, Same
  <1>2. Ticked = [c EXCEPT !.b3 = w]
    BY DEF Ticked
  <1> HIDE DEF c, w
  <1>3. DOMAIN [c EXCEPT !.b3 = w] = DOMAIN c /\ Same([c EXCEPT !.b3 = w], c)
    BY <1>1 DEF Shape, Control, Same
  <1> QED  BY <1>1, <1>2, <1>3 DEF Same

----------------------------------------------------------------------------
(* A step of an opcode, and the port. *)

LEMMA MoreStep ==
    ASSUME Shape, NEW c, DOMAIN c = DOMAIN cpu, Same(c, cpu), More(c)
    PROVE  cpu'.func = cpu.func + 1 /\ Same(cpu', [cpu EXCEPT !.func = @ + 1])
  <1>1. /\ cpu'.func = c.func + 1
        /\ cpu'.state = c.state /\ cpu'.op = c.op /\ cpu'.set_flags = c.set_flags
        /\ cpu'.can_debug = c.can_debug /\ cpu'.int_op = c.int_op /\ cpu'.flag = c.flag
    BY DEF More, Shape, Control
  <1> QED  BY <1>1 DEF Same, Shape, Control

LEMMA WritePort == ASSUME Shape, NEW a, NEW x, Write(a, x)
                   PROVE  DOMAIN port' = DOMAIN port /\ port'.wren
  BY DEF Shape, Write

LEMMA ReleasePort == ASSUME Shape, Release PROVE DOMAIN port' = DOMAIN port /\ ~port'.wren
  BY DEF Shape, Release

\* Steps that are no write leave the enable as it is.
LEMMA KeepPort ==
    ASSUME Shape, Idle \/ \E a : Read(a) \/ ReadRom(a)
    PROVE  DOMAIN port' = DOMAIN port /\ port'.wren = port.wren
  BY DEF Shape, Idle, Read, ReadRom

LEMMA LookPort == ASSUME Shape, NEW op, NEW a, NEW b, Look(op, a, b)
                  PROVE  DOMAIN port' = DOMAIN port /\ port'.wren = port.wren
  BY KeepPort DEF Look


\* The opcodes that do not write, and the steps between opcodes.
Reading ==
    \/ DoPlain \/ DoMvi \/ DoLxi \/ DoJump \/ DoIn \/ DoOut \/ DoIncDec \/ DoAluI
    \/ DoLoad \/ DoAluM \/ DoPop \/ DoRetIf \/ DoRet \/ DoLhld
Quiet == Wait \/ Start \/ Fetch \/ Opcode \/ SetFlags \/ SecondByte \/ ThirdByte \/ Unknown
----------------------------------------------------------------------------
(* Steps that are no write leave the enable as it is. *)

\* Reading steps, steps between opcodes and the debugging stop.
LEMMA QuietPort ==
    ASSUME Shape, Reading \/ Quiet \/ Debug
    PROVE  DOMAIN port' = DOMAIN port /\ port'.wren = port.wren
  <1>1. CASE Wait \/ Start \/ Fetch \/ Opcode \/ SetFlags \/ SecondByte \/ ThirdByte \/ Unknown \/ Debug
    <2>1. Idle \/ \E a : ReadRom(a)
      <3>1. CASE Wait \/ SetFlags \/ Debug
        BY <3>1 DEF Wait, SetFlags, Debug
      <3>2. CASE SecondByte \/ ThirdByte \/ Unknown
        BY <3>2 DEF SecondByte, ThirdByte, Unknown
      <3>3. CASE Start
        BY <3>3 DEF Start
      <3>4. CASE Fetch
        BY <3>4 DEF Fetch
      <3>5. CASE Opcode
        BY <3>5 DEF Opcode
      <3> QED  BY <1>1, <3>1, <3>2, <3>3, <3>4, <3>5
    <2> QED  BY <2>1, KeepPort
  <1>2. CASE DoPlain \/ DoMvi \/ DoLxi \/ DoJump \/ DoIn \/ DoOut \/ DoIncDec \/ DoAluI
    <2>1. Idle
      BY <1>2 DEF DoPlain, DoMvi, DoLxi, DoJump, DoIn, DoOut, DoIncDec, DoAluI
    <2> QED  BY <2>1, KeepPort
  <1>3. CASE DoLoad \/ DoAluM \/ DoLhld
    <2>1. Idle \/ \E op, a, b : Look(op, a, b)
      BY <1>3 DEF DoLoad, DoAluM, DoLhld
    <2> QED  BY <2>1, KeepPort, LookPort
  <1>4. CASE DoPop \/ DoRetIf \/ DoRet
    <2>1. Idle \/ \E a : Read(a)
      BY <1>4 DEF DoPop, DoRetIf, DoRet, PopSteps
    <2> QED  BY <2>1, KeepPort
  <1> QED  BY <1>1, <1>2, <1>3, <1>4 DEF Reading, Quiet

\* And they are not taken while the enable is up.
LEMMA QuietNot ==
    ASSUME Writing
    PROVE  ~Reading /\ ~Quiet
  <1>1. \/ cpu.state = 1 /\ cpu.int_op
        \/ Executes(Writers)
    BY DEF Writing, Executes, Writers
  <1>2. CASE cpu.state = 1 /\ cpu.int_op
    BY <1>2, ByteCounts DEF Reading, Quiet, Wait, Start, Fetch, Opcode, SetFlags, SecondByte,
        ThirdByte, Unknown, DoPlain, DoMvi, DoLxi, DoJump, DoIn, DoOut, DoIncDec, DoAluI,
        DoLoad, DoAluM, DoPop, DoRetIf, DoRet, DoLhld, Executes
  <1>3. CASE Executes(Writers)
    <2>1. ~Reading
      BY <1>3, OtherGroups DEF Reading, DoPlain, DoMvi, DoLxi, DoJump, DoIn, DoOut, DoIncDec, DoAluI,
        DoLoad, DoAluM, DoPop, DoRetIf, DoRet, DoLhld, Executes
    <2>2. ~(Wait \/ Start \/ Fetch \/ Opcode \/ SetFlags)
      <3>1. cpu.state > 2 /\ ~(cpu.state = 3 /\ cpu.set_flags)
        BY <1>3, ByteCounts DEF Executes
      <3>2. ~Wait /\ ~SetFlags
        BY <3>1 DEF Wait, SetFlags
      <3>3. ~Start
        <4>1. Start => cpu.state = 0
          BY DEF Start
        <4> QED  BY <3>1, <4>1
      <3>4. ~Fetch /\ ~Opcode
        BY <3>1 DEF Fetch, Opcode
      <3> QED  BY <3>2, <3>3, <3>4
    <2>3. ~(SecondByte \/ ThirdByte)
      BY <1>3, ByteCounts DEF SecondByte, ThirdByte, Executes, Bytes
    <2>4. ~Unknown
      <3>1. Writers \subseteq OneByte \cup TwoBytes \cup ThreeBytes
        BY DEF Writers, OneByte, TwoBytes, ThreeBytes, STORE
      <3> QED  BY <3>1, <1>3 DEF Unknown, Executes
    <2> QED  BY <2>1, <2>2, <2>3, <2>4 DEF Quiet
  <1> QED  BY <1>1, <1>2, <1>3

----------------------------------------------------------------------------
(* The steps that write: what comes next is within Writing, or the enable is down. *)

\* The count of the cycles with the enable up.
Counted == wrenRun' = IF ~port'.wren THEN 0 ELSE IF wrenRun < 3 THEN wrenRun + 1 ELSE 3

\* Where the CPU may be before such a step: with the enable down, or within Writing.
Before ==
    /\ Shape /\ Shape' /\ ~cpu.can_debug /\ wrenRun \in 0..3 /\ Counted
    /\ ~port.wren => wrenRun = 0
    /\ port.wren => Writing

\* The next step of the same opcode, with nothing else changed.
LEMMA TickedMore ==
    ASSUME Shape, More(Ticked)
    PROVE  /\ cpu'.func = cpu.func + 1 /\ cpu'.state = cpu.state /\ cpu'.op = cpu.op
           /\ cpu'.set_flags = cpu.set_flags /\ cpu'.can_debug = cpu.can_debug
           /\ cpu'.int_op = cpu.int_op /\ cpu'.flag = cpu.flag
  <1>1. Same(cpu', [cpu EXCEPT !.func = @ + 1]) /\ cpu'.func = cpu.func + 1
    BY TickedSame, MoreStep
  <1> QED  BY <1>1 DEF Same, Shape, Control

\* Two bytes in a row.
LEMMA TwoSteps ==
    ASSUME Before, NEW n \in Nat, cpu.func \in {n, n + 1},
           port.wren => TwoWrites(n + 1),
           cpu'.func = cpu.func + 1, port'.wren
    PROVE  TwoWrites(n + 1)'
  BY DEF Before, Counted, TwoWrites

\* An interrupt pushes the program counter.
LEMMA VectorNext ==
    ASSUME Before, Vector
    PROVE port'.wren => ~cpu'.can_debug /\ Writing'
  <1>1. CASE cpu.func > 1
    BY <1>1, ReleasePort DEF Vector, Before
  <1>2. CASE ~(cpu.func > 1)
    <2>1. cpu.state = 1 /\ cpu.int_op /\ cpu.func \in {0, 1} /\ More(Ticked)
      BY <1>2 DEF Vector
    <2>2. port.wren => TwoWrites(1)
      <3>1. ASSUME NEW S PROVE ~Executes(S)
        BY <2>1, ByteCounts DEF Executes
      <3> QED  BY <3>1 DEF Before, Writing
    <2>3. cpu'.func = cpu.func + 1 /\ cpu'.state = 1 /\ cpu'.int_op /\ ~cpu'.can_debug
      BY <2>1, TickedMore DEF Before
    <2>4. port'.wren => TwoWrites(0 + 1)'
      BY <2>1, <2>2, <2>3, TwoSteps
    <2> QED  BY <2>3, <2>4 DEF Writing
  <1> QED  BY <1>1, <1>2

\* The opcode stays the same, as does the state it is executed in.
LEMMA SameOpcode ==
    ASSUME Shape, More(Ticked), NEW S, Executes(S)
    PROVE  Executes(S)' /\ cpu'.can_debug = cpu.can_debug /\ cpu'.func = cpu.func + 1
  BY TickedMore DEF Executes

\* Which part of Writing an opcode belongs to.
LEMMA OpcodeWrites ==
    ASSUME Before, port.wren
    PROVE  /\ Executes(STORE) => cpu.func = 1 /\ wrenRun <= 1
           /\ Executes(PUSH) => TwoWrites(1)
           /\ Executes({\h22}) => TwoWrites(1)
           /\ Executes(CALL) => TwoWrites(1) /\ (Holds(cpu.op, cpu.flag) \/ cpu.op = \hD4)
           /\ Executes(STEP_M) => cpu.func = 3 /\ wrenRun <= 1
           /\ Executes({\hE3}) => TwoWrites(5)
  <1>1. Writing
    BY DEF Before
  <1>2. CASE cpu.state = 1
    <2>1. ASSUME NEW S PROVE ~Executes(S)
      BY <1>2, ByteCounts DEF Executes
    <2> QED  BY <2>1
  <1>3. CASE cpu.state # 1
    BY <1>1, <1>3, WriteGroups DEF Writing, Executes
  <1> QED  BY <1>2, <1>3

\* One byte; PUSH and SHLD two; a call two if its condition holds (D4's in the first step only).
LEMMA DoStoreNext ==
    ASSUME Before, DoStore
    PROVE port'.wren => ~cpu'.can_debug /\ Writing'
  <1>1. CASE cpu.func # 0
    BY <1>1, ReleasePort DEF DoStore, Before
  <1>2. CASE cpu.func = 0
    <2>1. Executes(STORE) /\ More(Ticked)
      BY <1>2 DEF DoStore
    <2>2. Shape /\ ~cpu.can_debug
      BY DEF Before
    <2>3. Executes(STORE)' /\ ~cpu'.can_debug /\ cpu'.func = 1
      BY <1>2, <2>1, <2>2, SameOpcode
    <2>4. ~port.wren
      BY <1>2, <2>1, OpcodeWrites
    <2>5. port'.wren => wrenRun' <= 1
      BY <2>4 DEF Before, Counted
    <2> QED  BY <2>3, <2>5 DEF Writing
  <1> QED  BY <1>1, <1>2

LEMMA DoPushNext ==
    ASSUME Before, DoPush
    PROVE port'.wren => ~cpu'.can_debug /\ Writing'
  <1>1. CASE cpu.func > 1
    BY <1>1, ReleasePort DEF DoPush, PushSteps, Before
  <1>2. CASE ~(cpu.func > 1)
    <2>1. Executes(PUSH) /\ cpu.func \in {0, 1} /\ More(Ticked)
      BY <1>2 DEF DoPush, PushSteps
    <2>2. Shape /\ ~cpu.can_debug
      BY DEF Before
    <2>3. Executes(PUSH)' /\ ~cpu'.can_debug /\ cpu'.func = cpu.func + 1
      BY <2>1, <2>2, SameOpcode
    <2>4. port'.wren => TwoWrites(0 + 1)'
      BY <2>1, <2>3, OpcodeWrites, TwoSteps
    <2> QED  BY <2>3, <2>4 DEF Writing
  <1> QED  BY <1>1, <1>2

LEMMA DoShldNext ==
    ASSUME Before, DoShld
    PROVE port'.wren => ~cpu'.can_debug /\ Writing'
  <1>1. CASE cpu.func > 1
    BY <1>1, ReleasePort DEF DoShld, Before
  <1>2. CASE ~(cpu.func > 1)
    <2>1. Executes({\h22}) /\ cpu.func \in {0, 1} /\ More(Ticked)
      BY <1>2 DEF DoShld
    <2>2. Shape /\ ~cpu.can_debug
      BY DEF Before
    <2>3. Executes({\h22})' /\ ~cpu'.can_debug /\ cpu'.func = cpu.func + 1
      BY <2>1, <2>2, SameOpcode
    <2>4. port'.wren => TwoWrites(0 + 1)'
      BY <2>1, <2>3, OpcodeWrites, TwoSteps
    <2> QED  BY <2>3, <2>4 DEF Writing
  <1> QED  BY <1>1, <1>2

LEMMA DoCallNext ==
    ASSUME Before, DoCall
    PROVE port'.wren => ~cpu'.can_debug /\ Writing'
  <1> DEFINE go == Holds(cpu.op, cpu.flag) \/ (cpu.op = \hD4 /\ cpu.func > 0)
  <1>0. Executes(CALL) /\ Shape
    BY DEF DoCall, Before
  <1>1. CASE ~go
    <2>1. port'.wren = port.wren
      BY <1>0, <1>1, KeepPort DEF DoCall
    <2>2. port.wren => cpu.func > 0 /\ (Holds(cpu.op, cpu.flag) \/ cpu.op = \hD4)
      BY <1>0, OpcodeWrites DEF TwoWrites
    <2> QED  BY <1>1, <2>1, <2>2
  <1>2. CASE go /\ Release
    BY <1>0, <1>2, ReleasePort
  <1>3. CASE go /\ cpu.func \in {0, 1} /\ More(Ticked)
    <2>2. ~cpu.can_debug
      BY DEF Before
    <2>3. Executes(CALL)' /\ ~cpu'.can_debug /\ cpu'.func = cpu.func + 1
      BY <1>0, <1>3, <2>2, SameOpcode
    <2>4. port'.wren => TwoWrites(0 + 1)'
      BY <1>0, <1>3, <2>3, OpcodeWrites, TwoSteps
    <2>5. cpu'.op = cpu.op /\ cpu'.flag = cpu.flag
      BY <1>0, <1>3, TickedMore
    <2>6. Holds(cpu'.op, cpu'.flag) \/ cpu'.op = \hD4
      BY <1>3, <2>5
    <2> QED  BY <2>3, <2>4, <2>6 DEF Writing
  <1> QED  BY <1>1, <1>2, <1>3 DEF DoCall, PushSteps

\* INR M and DCR M write in their third step, XTHL in its fifth and sixth.
LEMMA DoStepMNext ==
    ASSUME Before, DoStepM
    PROVE port'.wren => ~cpu'.can_debug /\ Writing'
  <1>0. Executes(STEP_M) /\ Shape /\ ~cpu.can_debug
    BY DEF DoStepM, Before
  <1>1. CASE cpu.func > 2
    BY <1>0, <1>1, ReleasePort DEF DoStepM
  <1>2. CASE cpu.func \in {0, 1}
    <2>1. Idle \/ Read(HL(cpu.reg))
      BY <1>2 DEF DoStepM
    <2>2. ~port.wren
      BY <1>0, <1>2, OpcodeWrites
    <2> QED  BY <1>0, <2>1, <2>2, KeepPort
  <1>3. CASE cpu.func = 2
    <2> DEFINE x == Stepped(cpu.op, q)
               c == [Ticked EXCEPT !.tmp = x]
    <2>1. More(c)
      BY <1>3 DEF DoStepM
    <2>2. DOMAIN c = DOMAIN cpu /\ Same(c, cpu)
      <3> HIDE DEF x
      <3>1. DOMAIN c = DOMAIN Ticked /\ Same(c, Ticked)
        BY <1>0, TickedSame DEF Same, Shape, Control
      <3> QED  BY <1>0, <3>1, TickedSame DEF Same
    <2> HIDE DEF c
    <2>3. cpu'.func = cpu.func + 1 /\ Same(cpu', [cpu EXCEPT !.func = @ + 1])
      BY <1>0, <2>1, <2>2, MoreStep
    <2>4. cpu'.func = 3
      BY <1>3, <2>3
    <2>5. Executes(STEP_M)' /\ ~cpu'.can_debug
      BY <1>0, <2>3 DEF Same, Executes, Shape, Control
    <2>6. ~port.wren
      BY <1>0, <1>3, OpcodeWrites
    <2>7. port'.wren => wrenRun' <= 1
      BY <2>6 DEF Before, Counted
    <2> QED  BY <2>4, <2>5, <2>7 DEF Writing
  <1> QED  BY <1>1, <1>2, <1>3 DEF DoStepM

LEMMA DoXthlNext ==
    ASSUME Before, DoXthl
    PROVE port'.wren => ~cpu'.can_debug /\ Writing'
  <1>0. Executes({\hE3}) /\ Shape /\ ~cpu.can_debug
    BY DEF DoXthl, Before
  <1>1. CASE Release
    BY <1>0, <1>1, ReleasePort
  <1>2. CASE cpu.func \in 0..3 /\ (Idle \/ \E a : Read(a))
    <2>1. ~port.wren
      BY <1>0, <1>2, OpcodeWrites DEF TwoWrites
    <2> QED  BY <1>0, <1>2, <2>1, KeepPort
  <1>3. CASE cpu.func \in {4, 5} /\ More(Ticked)
    <2>1. Executes({\hE3})' /\ ~cpu'.can_debug /\ cpu'.func = cpu.func + 1
      BY <1>0, <1>3, SameOpcode
    <2>2. port'.wren => TwoWrites(4 + 1)'
      BY <1>0, <1>3, <2>1, OpcodeWrites, TwoSteps
    <2> QED  BY <2>1, <2>2 DEF Writing
  <1> QED  BY <1>1, <1>2, <1>3 DEF DoXthl, PopSteps

----------------------------------------------------------------------------
(* The theorem. *)

LEMMA TypesShape == ASSUME TypeInv PROVE Shape
  BY DEF TypeInv, RegsType, BusType, Fields, Shape, Control

LEMMA ClockInv ==
    ASSUME Shape, Shape', WriteInv, Clock
    PROVE WriteInv'
  <1>1. Shape /\ wrenRun \in 0..3 /\ (~port.wren => wrenRun = 0) /\ whole' = whole
    BY DEF WriteInv, Clock
  <1>2. Counted
    BY DEF Clock, Counted
  <1>3. \/ Reading \/ Quiet \/ (cpu.can_debug /\ Debug)
        \/ Vector \/ DoStore \/ DoPush \/ DoShld \/ DoCall \/ DoStepM \/ DoXthl
    BY DEF Clock, Quiet, Reading, Executing
  <1>7. wrenRun' \in 0..3 /\ (~port'.wren => wrenRun' = 0)
    BY <1>1, <1>2 DEF Counted
  <1>8. ASSUME whole, port'.wren PROVE ~cpu'.can_debug /\ Writing'
    <2>1. CASE port.wren
      <3>1. ~cpu.can_debug /\ Writing
        BY <1>8, <2>1 DEF WriteInv
      <3>2. Before
        BY <1>1, <1>2, <3>1 DEF Before
      <3>3. Vector \/ DoStore \/ DoPush \/ DoShld \/ DoCall \/ DoStepM \/ DoXthl
        BY <1>3, <3>1, QuietNot
      <3> QED  BY <1>8, <3>2, <3>3, VectorNext, DoStoreNext, DoPushNext, DoShldNext,
                  DoCallNext, DoStepMNext, DoXthlNext
    <2>2. CASE ~port.wren
      <3>1. ~(Reading \/ Quiet \/ Debug)
        BY <1>1, <1>8, <2>2, QuietPort
      <3>2. ~cpu.can_debug
        BY <3>1 DEF Clock
      <3>3. Before
        BY <1>1, <1>2, <2>2, <3>2 DEF Before
      <3> QED  BY <1>3, <1>8, <3>1, <3>3, VectorNext, DoStoreNext, DoPushNext, DoShldNext,
                  DoCallNext, DoStepMNext, DoXthlNext
    <2> QED  BY <2>1, <2>2
  <1> QED  BY <1>1, <1>7, <1>8 DEF WriteInv

LEMMA RestartInv ==
    ASSUME WriteInv, NEW board \in BOOLEAN, Restart(board)
    PROVE WriteInv'
  <1>4. port' = port /\ wrenRun' = wrenRun /\ whole' = (whole /\ cpu.state = 0)
    BY DEF Restart
  <1>5. ~(whole' /\ port.wren)
    <2> SUFFICES ASSUME whole, cpu.state = 0, port.wren PROVE FALSE
      BY <1>4
    <2>1. Writing
      BY DEF WriteInv
    <2>2. ASSUME NEW S PROVE ~Executes(S)
      BY ByteCounts DEF Executes
    <2> QED  BY <2>1, <2>2 DEF Writing
  <1> QED  BY <1>4, <1>5 DEF WriteInv

LEMMA InitInv ==
    ASSUME CpuInit
    PROVE WriteInv
  BY DEF CpuInit, WriteInv

LEMMA StepInv ==
    ASSUME TypeInv, TypeInv', WriteInv, [CpuNext]_cpuVars
    PROVE WriteInv'
  <1>0. Shape /\ Shape'
    BY TypesShape DEF TypeInv, RegsType, BusType, Fields, Shape, Control
  <1>1. CASE Clock
    BY <1>0, <1>1, ClockInv
  <1>2. CASE \E board \in BOOLEAN : Restart(board)
    BY <1>2, RestartInv
  <1>3. CASE Raise \/ UNCHANGED cpuVars
    <2>1. UNCHANGED <<cpu, port, whole, wrenRun>>
      BY <1>3 DEF Raise, cpuVars
    <2> QED  BY <2>1 DEF WriteInv, Writing, Executes, TwoWrites
  <1> QED  BY <1>1, <1>2, <1>3 DEF CpuNext

\* VIDEO_mem_wren is never up longer than two cycles in a row: for every ROM, every number of clock edges
\* per cycle, and interrupts and restarts at any edge (cpu.v:315).
THEOREM WritesAreShortHolds == CpuSpec => []WritesAreShort
  <1>1. WriteInv => WritesAreShort
    <2> SUFFICES ASSUME WriteInv, whole PROVE wrenRun <= 2
      BY DEF WritesAreShort
    <2>1. CASE port.wren
      <3>1. Writing
        BY <2>1 DEF WriteInv
      <3>2. wrenRun <= 1 \/ \E n \in {1, 5} : TwoWrites(n)
        BY <3>1 DEF Writing
      <3> QED  BY <3>2 DEF TwoWrites, WriteInv
    <2>2. CASE ~port.wren
      BY <2>2 DEF WriteInv
    <2> QED  BY <2>1, <2>2
  <1> QED  BY <1>1, InitInv, StepInv, CpuTypesInvariant, PTL DEF CpuSpec

----------------------------------------------------------------------------
(* The promise of Isa8080 is in the data path's own operators: those it sees through the instance *)
(* are the ones of this module. *)

\* The instruction at the program counter, and the bytes behind it.
Op == Rom(arch.pc)
Imm == Rom(arch.pc + 1)
Third == Rom(arch.pc + 2)
Imm16 == Third * 256 + Imm

\* The RAM a program sees, and what a store makes of a RAM.
Kept(a) == LET i == a % 16384 IN IF i \in DOMAIN arch.ram THEN arch.ram[i] ELSE 0
Stored(m, a, x) == Put(m, a % 16384, x % 256)
StoredWord(m, a, hi, lo) == Stored(Stored(m, a + 1, hi), a, lo)
Seen(op, a) == IF InRom(op, a) THEN Rom(a) ELSE Kept(a)

\* The stack pointer when a word was pushed, and when one was popped.
Below == (arch.sp - 2) % 65536
Above == (arch.sp + 2) % 65536

LEMMA SameMemory ==
    /\ I!Op = Op /\ I!Imm = Imm /\ I!Imm16 = Imm16
    /\ \A a : I!Rom(a) = Rom(a) /\ I!Ram(a) = Kept(a)
    /\ \A m, i, x : I!Put(m, i, x) = Put(m, i, x)
  BY DEF I!Op, I!Imm, I!Imm16, I!Rom, I!Ram, I!Put, Op, Imm, Imm16, Third, Rom, Kept, Put

LEMMA SameStores ==
    /\ \A m, a, x : I!Stored(m, a, x) = Stored(m, a, x)
    /\ \A m, a, hi, lo : I!StoredWord(m, a, hi, lo) = StoredWord(m, a, hi, lo)
  BY SameMemory DEF I!Stored, I!StoredWord, Stored, StoredWord

LEMMA SameStack ==
    I!Below = Below /\ I!Above = Above /\ I!Top[1] = Kept(arch.sp + 1) /\ I!Top[2] = Kept(arch.sp)
  BY SameMemory DEF I!Below, I!Above, I!Top, Below, Above

LEMMA SameGroups ==
    /\ I!PLAIN = PLAIN /\ I!EARLY = EARLY /\ I!INR = INR /\ I!DCR = DCR /\ I!STEP_M = STEP_M
    /\ I!ALU_I = ALU_I /\ I!ALU_M = ALU_M /\ I!STORE = STORE /\ I!LOAD = LOAD /\ I!MVI = MVI /\ I!LXI = LXI
    /\ I!PUSH = PUSH /\ I!POP = POP /\ I!JUMP = JUMP /\ I!CALL = CALL /\ I!RET_IF = RET_IF
    /\ I!MOV_R = MOV_R /\ I!INX = INX /\ I!DCX = DCX /\ I!DAD = DAD /\ I!LOGIC = LOGIC
    /\ I!EARLY_INR = EARLY_INR /\ I!MOV_M = MOV_M /\ I!FROM_M = FROM_M
    /\ I!TwoBytes = TwoBytes /\ I!ThreeBytes = ThreeBytes
  BY Zenon DEF I!PLAIN, I!EARLY, I!INR, I!DCR, I!STEP_M, I!ALU_I, I!ALU_M, I!STORE, I!LOAD, I!MVI, I!LXI,
     I!PUSH, I!POP, I!JUMP, I!CALL, I!RET_IF, I!MOV_R, I!INX, I!DCX, I!DAD, I!LOGIC, I!EARLY_INR, I!MOV_M,
     I!FROM_M, I!TwoBytes, I!ThreeBytes, PLAIN, EARLY, INR, DCR, STEP_M, ALU_I, ALU_M, STORE, LOAD, MVI, LXI,
     PUSH, POP, JUMP, CALL, RET_IF, MOV_R, INX, DCX, DAD, LOGIC, EARLY_INR, MOV_M, FROM_M, TwoBytes, ThreeBytes

LEMMA SameNames ==
    /\ \A op : I!Bytes(op) = Bytes(op) /\ I!Dst(op) = Dst(op) /\ I!Src(op) = Src(op) /\ I!Pair(op) = Pair(op)
    /\ \A op : I!Row(op) = Row(op) /\ I!LoadReg(op) = LoadReg(op)
    /\ \A r, p : I!Word(r, p) = Word(r, p)
    /\ \A r : I!HL(r) = HL(r)
    /\ \A r, p, w : I!WithWord(r, p, w) = WithWord(r, p, w)
  BY SameGroups, Zenon DEF I!Bytes, I!Dst, I!Src, I!Pair, I!Row, I!LoadReg, I!Word, I!HL, I!WithWord,
     Bytes, Dst, Src, Pair, Row, LoadReg, Word, HL, WithWord

LEMMA SameAddresses ==
    /\ \A op, r, w : I!StoreAddr(op, r, w) = StoreAddr(op, r, w) /\ I!LoadAddr(op, r, w) = LoadAddr(op, r, w)
    /\ \A op, r, x : I!StoreByte(op, r, x) = StoreByte(op, r, x)
    /\ \A op, a : I!Seen(op, a) = Seen(op, a)
    /\ \A op, r : I!PushHigh(op, r) = PushHigh(op, r)
  BY SameGroups, SameNames, SameMemory DEF I!StoreAddr, I!LoadAddr, I!StoreByte, I!Seen, I!PushHigh,
     StoreAddr, LoadAddr, StoreByte, Seen, InRom, PushHigh

LEMMA SameValue == ASSUME NEW s PROVE I!Value(s) = Value(s)
  BY SMT DEF I!Value, Value

LEMMA SameBits ==
    /\ \A b : I!Bit(b) = Bit(b)
    /\ \A x, w : I!BitOf(x, w) = BitOf(x, w)
    /\ \A x : I!Ones(x) = Ones(x) /\ I!EvenOnes(x) = EvenOnes(x)
    /\ \A x, y : I!And(x, y) = And(x, y) /\ I!Xor(x, y) = Xor(x, y) /\ I!Or(x, y) = Or(x, y)
  <1>1. \A x, w : I!BitOf(x, w) = BitOf(x, w)
    BY Zenon DEF I!BitOf, BitOf
  <1>2. I!Weights = Weights
    BY Zenon DEF I!Weights, Weights
  <1>3. \A b : I!Bit(b) = Bit(b)
    BY Zenon DEF I!Bit, Bit
  <1>4. \A x : I!Ones(x) = Ones(x)
    BY <1>1, <1>2, Zenon DEF I!Ones, Ones
  <1>6. \A x : I!EvenOnes(x) = EvenOnes(x)
    BY Zenon DEF I!EvenOnes, EvenOnes, I!Bit, Bit, I!Ones, Ones, I!Weights, Weights, I!BitOf, BitOf,
       I!Cardinality, Cardinality
  <1>7. \A x, y : I!And(x, y) = And(x, y) /\ I!Xor(x, y) = Xor(x, y) /\ I!Or(x, y) = Or(x, y)
    BY <1>4, SameValue, Zenon DEF I!And, I!Xor, I!Or, And, Xor, Or
  <1> QED  BY <1>1, <1>3, <1>4, <1>6, <1>7

LEMMA SameFlags ==
    /\ \A f, x : I!SZP(f, x) = SZP(f, x)
    /\ \A f : I!Packed(f) = Packed(f)
    /\ \A x : I!Unpacked(x) = Unpacked(x)
    /\ \A op, f : I!Holds(op, f) = Holds(op, f)
    /\ \A op, r, f : I!PushLow(op, r, f) = PushLow(op, r, f)
    /\ \A op, x : I!Stepped(op, x) = Stepped(op, x)
    /\ \A n, k, s, o : I!Port(n, k, s, o) = Port(n, k, s, o)
  BY SameBits, SameNames, ZenonT(60) DEF I!SZP, I!Packed, I!Unpacked, I!Holds, I!PushLow, I!Stepped, I!Port,
     SZP, Packed, Unpacked, Holds, PushLow, Stepped, Port

LEMMA SameArith == ASSUME NEW op, NEW a, NEW x, NEW c PROVE I!Arith(op, a, x, c) = Arith(op, a, x, c)
  BY Zenon DEF I!Arith, Arith, I!Row, Row, I!Bit, Bit, I!And, I!Xor, I!Or, I!Value, I!Ones, I!Weights, I!BitOf,
     And, Xor, Or, Value, Ones, Weights, BitOf

LEMMA SameAccumulate ==
    ASSUME NEW op, NEW r, NEW f, NEW x PROVE I!Accumulate(op, r, f, x) = Accumulate(op, r, f, x)
  BY SameArith, SameNames, SameGroups, SameFlags DEF I!Accumulate, Accumulate

LEMMA SameEarly == ASSUME NEW op, NEW r, NEW f PROVE I!Early(op, r, f) = Early(op, r, f)
  BY SameArith, SameNames, SameGroups DEF I!Early, Early

LEMMA SameDaa == ASSUME NEW r, NEW f PROVE I!Daa(r, f) = Daa(r, f)
  <1> DEFINE a == r["A"]
             low == a % 16 > 9 \/ f.ac = 1
             b == IF low THEN (a + 6) % 256 ELSE a
             high == b \div 16 > 9 \/ f.carry = 1
             d == IF high THEN (b + 96) % 256 ELSE b
             x == IF low /\ a % 16 >= 9 THEN 1 ELSE 0
             y == IF high /\ b \div 16 >= 9 THEN 1 ELSE 0
  <1>1. I!Daa(r, f) = [reg |-> [r EXCEPT !["A"] = d], flag |-> [I!SZP(f, d) EXCEPT !.ac = x, !.carry = y]]
    BY Zenon DEF I!Daa, I!Bit
  <1>2. Daa(r, f) = [reg |-> [r EXCEPT !["A"] = d], flag |-> [SZP(f, d) EXCEPT !.ac = x, !.carry = y]]
    BY Zenon DEF Daa, Bit
  <1>3. I!SZP(f, d) = SZP(f, d)
    BY SameFlags
  <1> HIDE DEF a, low, b, high, d, x, y
  <1> QED  BY <1>1, <1>2, <1>3

LEMMA SameRotate == ASSUME NEW op, NEW r, NEW f PROVE I!Rotate(op, r, f) = Rotate(op, r, f)
  BY Zenon DEF I!Rotate, Rotate

LEMMA SamePlain == ASSUME NEW op, NEW r, NEW f PROVE I!Plain(op, r, f) = Plain(op, r, f)
  BY SameAccumulate, SameDaa, SameRotate, SameNames, SameGroups, SMT DEF I!Plain, Plain

----------------------------------------------------------------------------
(* A step of Isa8080, by the parts of arch it sets. *)

\* The registers a program sees, but for the interrupt enable, by the name they share with arch.
Shared == {"pc", "sp", "reg", "flag", "shift", "offset", "sound1", "sound2"}
ArchFields == Shared \cup {"ie", "ram"}
ArchType == DOMAIN arch = ArchFields /\ arch = [f \in ArchFields |-> arch[f]]

\* The program counter becomes t, and of the rest no more than F changes.
Moves(F, t) == /\ ArchType' /\ arch'.pc = t
               /\ \A f \in ArchFields \ (F \cup {"pc"}) : arch'[f] = arch[f]

\* Where the next instruction is.
Onward == (arch.pc + Bytes(Op)) % 65536

LEMMA ThenJump ==
    ASSUME NEW a, a.pc = arch.pc, I!Jump(a, Onward) PROVE I!Then(a)
  BY SameMemory, SameNames DEF I!Jump, I!Then, Onward

LEMMA Moves0 ==
    ASSUME ArchType, NEW t, Moves({}, t)
    PROVE  I!Jump(arch, t) /\ (t = Onward => I!Then(arch))
  <1>1. I!Jump(arch, t)
    BY DEF ArchType, Moves, I!Jump, ArchFields, Shared
  <1> QED  BY <1>1, ThenJump

LEMMA Moves1 ==
    ASSUME ArchType, NEW f \in ArchFields \ {"pc"}, NEW t, Moves({f}, t)
    PROVE  LET a == [arch EXCEPT ![f] = arch'[f]] IN I!Jump(a, t) /\ (t = Onward => I!Then(a))
  <1> DEFINE a == [arch EXCEPT ![f] = arch'[f]]
  <1>1. I!Jump(a, t)
    BY DEF ArchType, Moves, I!Jump
  <1>2. a.pc = arch.pc
    BY DEF ArchType, ArchFields, Shared
  <1> HIDE DEF a
  <1>3. t = Onward => I!Then(a)
    BY <1>1, <1>2, ThenJump
  <1> QED  BY <1>1, <1>3 DEF a

LEMMA Moves2 ==
    ASSUME ArchType, NEW f \in ArchFields \ {"pc"}, NEW g \in ArchFields \ {"pc"}, NEW t, Moves({f, g}, t)
    PROVE  LET a == [arch EXCEPT ![f] = arch'[f], ![g] = arch'[g]] IN I!Jump(a, t) /\ (t = Onward => I!Then(a))
  <1> DEFINE a == [arch EXCEPT ![f] = arch'[f], ![g] = arch'[g]]
  <1>1. I!Jump(a, t)
    BY DEF ArchType, Moves, I!Jump
  <1>2. a.pc = arch.pc
    BY DEF ArchType, ArchFields, Shared
  <1> HIDE DEF a
  <1>3. t = Onward => I!Then(a)
    BY <1>1, <1>2, ThenJump
  <1> QED  BY <1>1, <1>3 DEF a

LEMMA Moves3 ==
    ASSUME ArchType, NEW f \in ArchFields \ {"pc"}, NEW g \in ArchFields \ {"pc"}, NEW h \in ArchFields \ {"pc"},
           NEW t, Moves({f, g, h}, t)
    PROVE  LET a == [arch EXCEPT ![f] = arch'[f], ![g] = arch'[g], ![h] = arch'[h]]
           IN  I!Jump(a, t) /\ (t = Onward => I!Then(a))
  <1> DEFINE a == [arch EXCEPT ![f] = arch'[f], ![g] = arch'[g], ![h] = arch'[h]]
  <1>1. I!Jump(a, t)
    BY DEF ArchType, Moves, I!Jump
  <1>2. a.pc = arch.pc
    BY DEF ArchType, ArchFields, Shared
  <1> HIDE DEF a
  <1>3. t = Onward => I!Then(a)
    BY <1>1, <1>2, ThenJump
  <1> QED  BY <1>1, <1>3 DEF a

LEMMA ThenReg == ASSUME ArchType, Moves({"reg"}, Onward)
    PROVE I!Then([arch EXCEPT !["reg"] = arch'["reg"]])
  BY Moves1 DEF ArchFields, Shared

LEMMA ThenRam == ASSUME ArchType, Moves({"ram"}, Onward)
    PROVE I!Then([arch EXCEPT !["ram"] = arch'["ram"]])
  BY Moves1 DEF ArchFields, Shared

LEMMA ThenSp == ASSUME ArchType, Moves({"sp"}, Onward)
    PROVE I!Then([arch EXCEPT !["sp"] = arch'["sp"]])
  BY Moves1 DEF ArchFields, Shared

LEMMA ThenRegFlag == ASSUME ArchType, Moves({"reg", "flag"}, Onward)
    PROVE I!Then([arch EXCEPT !["reg"] = arch'["reg"], !["flag"] = arch'["flag"]])
  BY Moves2 DEF ArchFields, Shared

LEMMA ThenRamFlag == ASSUME ArchType, Moves({"ram", "flag"}, Onward)
    PROVE I!Then([arch EXCEPT !["ram"] = arch'["ram"], !["flag"] = arch'["flag"]])
  BY Moves2 DEF ArchFields, Shared

LEMMA ThenSpRam == ASSUME ArchType, Moves({"sp", "ram"}, Onward)
    PROVE I!Then([arch EXCEPT !["sp"] = arch'["sp"], !["ram"] = arch'["ram"]])
  BY Moves2 DEF ArchFields, Shared

LEMMA ThenSpReg == ASSUME ArchType, Moves({"sp", "reg"}, Onward)
    PROVE I!Then([arch EXCEPT !["sp"] = arch'["sp"], !["reg"] = arch'["reg"]])
  BY Moves2 DEF ArchFields, Shared

LEMMA ThenRamReg == ASSUME ArchType, Moves({"ram", "reg"}, Onward)
    PROVE I!Then([arch EXCEPT !["ram"] = arch'["ram"], !["reg"] = arch'["reg"]])
  BY Moves2 DEF ArchFields, Shared

LEMMA ThenRegFlagIe == ASSUME ArchType, Moves({"reg", "flag", "ie"}, Onward)
    PROVE I!Then([arch EXCEPT !["reg"] = arch'["reg"], !["flag"] = arch'["flag"], !["ie"] = arch'["ie"]])
  BY Moves3 DEF ArchFields, Shared

LEMMA ThenSpRegFlag == ASSUME ArchType, Moves({"sp", "reg", "flag"}, Onward)
    PROVE I!Then([arch EXCEPT !["sp"] = arch'["sp"], !["reg"] = arch'["reg"], !["flag"] = arch'["flag"]])
  BY Moves3 DEF ArchFields, Shared

LEMMA IsaQuiet ==
    ASSUME ArchType, Op \in PLAIN, Moves({"reg", "flag", "ie"}, Onward),
           LET e == Plain(Op, arch.reg, arch.flag)
           IN  arch'.reg = e.reg /\ arch'.flag = e.flag /\ arch'.ie = (arch.ie \/ Op = \hFB)
    PROVE  I!Quiet
  <1>1. I!Then([arch EXCEPT !["reg"] = arch'["reg"], !["flag"] = arch'["flag"], !["ie"] = arch'["ie"]])
    BY ThenRegFlagIe
  <1> QED  BY <1>1, SamePlain, SameMemory, SameGroups DEF I!Quiet

LEMMA IsaEarly ==
    ASSUME ArchType, Op \in EARLY, Moves({"reg", "flag"}, Onward),
           LET e == Early(Op, arch.reg, arch.flag)
           IN  arch'.reg = e.reg /\ arch'.flag = SZP([arch.flag EXCEPT !.carry = e.carry], e.tmp)
    PROVE  I!Arithmetic
  <1>1. I!Then([arch EXCEPT !["reg"] = arch'["reg"], !["flag"] = arch'["flag"]])
    BY ThenRegFlag
  <1> QED  BY <1>1, SameEarly, SameMemory, SameGroups, SameFlags DEF I!Arithmetic

LEMMA IsaIncDec ==
    ASSUME ArchType, Op \in INR \cup DCR, Moves({"reg", "flag"}, Onward),
           LET x == Stepped(Op, arch.reg[Dst(Op)])
           IN  arch'.reg = [arch.reg EXCEPT ![Dst(Op)] = x] /\ arch'.flag = SZP(arch.flag, x)
    PROVE  I!Arithmetic
  <1>1. I!Then([arch EXCEPT !["reg"] = arch'["reg"], !["flag"] = arch'["flag"]])
    BY ThenRegFlag
  <1> QED  BY <1>1, SameNames, SameMemory, SameGroups, SameFlags DEF I!Arithmetic

LEMMA IsaStepM ==
    ASSUME ArchType, Op \in STEP_M, Moves({"ram", "flag"}, Onward),
           LET x == Stepped(Op, Kept(HL(arch.reg)))
           IN  arch'.ram = Stored(arch.ram, HL(arch.reg), x) /\ arch'.flag = SZP(arch.flag, x)
    PROVE  I!Arithmetic
  <1>1. I!Then([arch EXCEPT !["ram"] = arch'["ram"], !["flag"] = arch'["flag"]])
    BY ThenRamFlag
  <1> QED  BY <1>1, SameNames, SameMemory, SameStores, SameGroups, SameFlags DEF I!Arithmetic

LEMMA IsaAlu ==
    ASSUME ArchType, Op \in ALU_I \cup ALU_M, Moves({"reg", "flag"}, Onward),
           LET x == IF Op \in ALU_I THEN Imm ELSE Seen(Op, HL(arch.reg))
               e == Accumulate(Op, arch.reg, arch.flag, x)
           IN  arch'.reg = e.reg /\ arch'.flag = e.flag
    PROVE  I!Arithmetic
  <1>1. I!Then([arch EXCEPT !["reg"] = arch'["reg"], !["flag"] = arch'["flag"]])
    BY ThenRegFlag
  <1> QED  BY <1>1, SameAccumulate, SameNames, SameMemory, SameGroups, SameAddresses DEF I!Arithmetic

LEMMA IsaStore ==
    ASSUME ArchType, Op \in STORE, Moves({"ram"}, Onward),
           arch'.ram = Stored(arch.ram, StoreAddr(Op, arch.reg, Imm16), StoreByte(Op, arch.reg, Imm))
    PROVE  I!Move
  <1>1. I!Then([arch EXCEPT !["ram"] = arch'["ram"]])
    BY ThenRam
  <1> QED  BY <1>1, SameMemory, SameStores, SameGroups, SameAddresses DEF I!Move

LEMMA IsaLoad ==
    ASSUME ArchType, Op \in LOAD, Moves({"reg"}, Onward),
           arch'.reg = [arch.reg EXCEPT ![LoadReg(Op)] = Seen(Op, LoadAddr(Op, arch.reg, Imm16))]
    PROVE  I!Move
  <1>1. I!Then([arch EXCEPT !["reg"] = arch'["reg"]])
    BY ThenReg
  <1> QED  BY <1>1, SameNames, SameMemory, SameGroups, SameAddresses DEF I!Move

LEMMA IsaMvi ==
    ASSUME ArchType, Op \in MVI, Moves({"reg"}, Onward), arch'.reg = [arch.reg EXCEPT ![Dst(Op)] = Imm]
    PROVE  I!Move
  <1>1. I!Then([arch EXCEPT !["reg"] = arch'["reg"]])
    BY ThenReg
  <1> QED  BY <1>1, SameNames, SameMemory, SameGroups DEF I!Move

LEMMA IsaLxi ==
    ASSUME ArchType, Op \in LXI \ {\h31}, Moves({"reg"}, Onward), arch'.reg = WithWord(arch.reg, Pair(Op), Imm16)
    PROVE  I!Move
  <1>1. I!Then([arch EXCEPT !["reg"] = arch'["reg"]])
    BY ThenReg
  <1> QED  BY <1>1, SameNames, SameMemory, SameGroups DEF I!Move

LEMMA IsaShld ==
    ASSUME ArchType, Op = \h22, Moves({"ram"}, Onward),
           arch'.ram = StoredWord(arch.ram, Imm16, arch.reg["H"], arch.reg["L"])
    PROVE  I!Move
  <1>1. I!Then([arch EXCEPT !["ram"] = arch'["ram"]])
    BY ThenRam
  <1> QED  BY <1>1, SameMemory, SameStores DEF I!Move

LEMMA IsaLhld ==
    ASSUME ArchType, Op = \h2A, Moves({"reg"}, Onward),
           LET In(a) == IF Imm16 < RAM_START THEN Rom(a) ELSE Kept(a)
           IN  arch'.reg = [arch.reg EXCEPT !["L"] = In(Imm16), !["H"] = In(Imm16 + 1)]
    PROVE  I!Move
  <1> DEFINE In(a) == IF Imm16 < RAM_START THEN Rom(a) ELSE Kept(a)
             high == In(Imm16 + 1)
             low == In(Imm16)
  <1>1. I!Then([arch EXCEPT !["reg"] = arch'["reg"]])
    BY ThenReg
  <1>2. /\ I!Imm16 = Imm16 /\ I!Op = Op
        /\ high = IF I!Imm16 < RAM_START THEN I!Rom(I!Imm16 + 1) ELSE I!Ram(I!Imm16 + 1)
        /\ low = IF I!Imm16 < RAM_START THEN I!Rom(I!Imm16) ELSE I!Ram(I!Imm16)
    BY SameMemory
  <1>3. arch'.reg = [arch.reg EXCEPT !["L"] = low, !["H"] = high]
    OBVIOUS
  <1> HIDE DEF low, high
  <1>4. [arch EXCEPT !["reg"] = arch'["reg"]] = [arch EXCEPT !.reg["H"] = high, !.reg["L"] = low]
    BY <1>3 DEF ArchType, ArchFields
  <1> QED  BY <1>1, <1>2, <1>4 DEF I!Move

LEMMA IsaLxiSp ==
    ASSUME ArchType, Op = \h31, Moves({"sp"}, Onward), arch'.sp = Imm16 PROVE I!Stack
  <1>1. I!Then([arch EXCEPT !["sp"] = arch'["sp"]])
    BY ThenSp
  <1> QED  BY <1>1, SameMemory DEF I!Stack

LEMMA PushedIs ==
    ASSUME NEW hi, NEW lo
    PROVE  I!Pushed(hi, lo) = [arch EXCEPT !["sp"] = I!Below, !["ram"] = I!StoredWord(arch.ram, I!Below, hi, lo)]
  BY Zenon DEF I!Pushed

LEMMA IsaPush ==
    ASSUME ArchType, Op \in PUSH, Moves({"sp", "ram"}, Onward), arch'.sp = Below,
           arch'.ram = StoredWord(arch.ram, Below, PushHigh(Op, arch.reg), PushLow(Op, arch.reg, arch.flag))
    PROVE  I!Stack
  <1>1. I!Then([arch EXCEPT !["sp"] = arch'["sp"], !["ram"] = arch'["ram"]])
    BY ThenSpRam
  <1>2. arch'.sp = I!Below
    BY SameStack
  <1>3. arch'.ram = I!StoredWord(arch.ram, I!Below, I!PushHigh(I!Op, arch.reg),
                                 I!PushLow(I!Op, arch.reg, arch.flag))
    BY SameMemory, SameStores, SameAddresses, SameFlags, SameStack
  <1>4. I!Then(I!Pushed(I!PushHigh(I!Op, arch.reg), I!PushLow(I!Op, arch.reg, arch.flag)))
    BY <1>1, <1>2, <1>3, Zenon DEF I!Pushed
  <1> QED  BY <1>4, SameMemory, SameGroups DEF I!Stack

LEMMA IsaPopPsw ==
    ASSUME ArchType, Op = \hF1, Moves({"sp", "reg", "flag"}, Onward), arch'.sp = Above,
           arch'.reg = [arch.reg EXCEPT !["A"] = Kept(arch.sp + 1)], arch'.flag = Unpacked(Kept(arch.sp))
    PROVE  I!Stack
  <1>1. I!Then([arch EXCEPT !["sp"] = arch'["sp"], !["reg"] = arch'["reg"], !["flag"] = arch'["flag"]])
    BY ThenSpRegFlag
  <1>2. /\ arch'.sp = I!Above /\ arch'.flag = I!Unpacked(I!Top[2])
        /\ arch'.reg = [arch.reg EXCEPT !["A"] = I!Top[1]]
    BY SameStack, SameFlags
  <1>3. I!Then([arch EXCEPT !.sp = I!Above, !.reg["A"] = I!Top[1], !.flag = I!Unpacked(I!Top[2])])
    BY <1>1, <1>2, Zenon
  <1>4. I!Op = \hF1
    BY SameMemory
  <1> QED  BY <1>3, <1>4 DEF I!Stack

LEMMA IsaPop ==
    ASSUME ArchType, Op \in POP \ {\hF1}, Moves({"sp", "reg"}, Onward), arch'.sp = Above,
           arch'.reg = WithWord(arch.reg, Pair(Op), Kept(arch.sp + 1) * 256 + Kept(arch.sp))
    PROVE  I!Stack
  <1>1. I!Then([arch EXCEPT !["sp"] = arch'["sp"], !["reg"] = arch'["reg"]])
    BY ThenSpReg
  <1>2. arch'.sp = I!Above /\ arch'.reg = I!WithWord(arch.reg, I!Pair(I!Op), I!Top[1] * 256 + I!Top[2])
    BY SameStack, SameNames, SameMemory
  <1>3. I!Then([arch EXCEPT !.sp = I!Above, !.reg = I!WithWord(@, I!Pair(I!Op), I!Top[1] * 256 + I!Top[2])])
    BY <1>1, <1>2, Zenon
  <1> QED  BY <1>3, SameMemory, SameGroups DEF I!Stack

LEMMA IsaXthl ==
    ASSUME ArchType, Op = \hE3, Moves({"ram", "reg"}, Onward),
           arch'.ram = StoredWord(arch.ram, arch.sp, arch.reg["H"], arch.reg["L"]),
           arch'.reg = [arch.reg EXCEPT !["H"] = Kept(arch.sp + 1), !["L"] = Kept(arch.sp)]
    PROVE  I!Stack
  <1>1. I!Then([arch EXCEPT !["ram"] = arch'["ram"], !["reg"] = arch'["reg"]])
    BY ThenRamReg
  <1>2. /\ arch'.ram = I!StoredWord(arch.ram, arch.sp, arch.reg["H"], arch.reg["L"])
        /\ arch'.reg = [arch.reg EXCEPT !["H"] = I!Top[1], !["L"] = I!Top[2]]
    BY SameStack, SameStores
  <1>3. I!Then([arch EXCEPT !.ram = I!StoredWord(@, arch.sp, arch.reg["H"], arch.reg["L"]),
                            !.reg["H"] = I!Top[1], !.reg["L"] = I!Top[2]])
    BY <1>1, <1>2, Zenon
  <1>4. I!Op = \hE3
    BY SameMemory
  <1> QED  BY <1>3, <1>4 DEF I!Stack

LEMMA IsaJump ==
    ASSUME ArchType, Op \in JUMP \cup {\hE9}, Moves({}, IF Op = \hE9 THEN HL(arch.reg) ELSE Imm16),
           Op = \hE9 \/ Holds(Op, arch.flag)
    PROVE  I!Branch
  <1> DEFINE t == IF Op = \hE9 THEN HL(arch.reg) ELSE Imm16
  <1>1. I!Jump(arch, t)
    BY Moves0
  <1> QED  BY <1>1, SameMemory, SameGroups, SameFlags, SameNames DEF I!Branch

LEMMA IsaGoesOn ==
    ASSUME ArchType, Op \in JUMP \cup CALL \cup RET_IF, Moves({}, Onward), ~Holds(Op, arch.flag)
    PROVE  I!Branch
  <1>1. I!Then(arch)
    BY Moves0
  <1> QED  BY <1>1, SameMemory, SameGroups, SameFlags DEF I!Branch

LEMMA IsaRet ==
    ASSUME ArchType, Op \in RET_IF \cup {\hC9}, Op = \hC9 \/ Holds(Op, arch.flag),
           Moves({"sp"}, Kept(arch.sp + 1) * 256 + Kept(arch.sp)), arch'.sp = Above
    PROVE  I!Branch
  <1> DEFINE t == Kept(arch.sp + 1) * 256 + Kept(arch.sp)
  <1>1. I!Jump([arch EXCEPT !["sp"] = arch'["sp"]], t)
    BY Moves1 DEF ArchFields, Shared
  <1>2. t = I!Top[1] * 256 + I!Top[2]
    BY SameStack
  <1> HIDE DEF t
  <1>3. arch'.sp = I!Above
    BY SameStack
  <1>4. I!Jump([arch EXCEPT !.sp = I!Above], I!Top[1] * 256 + I!Top[2])
    BY <1>1, <1>2, <1>3, Zenon
  <1> QED  BY <1>4, SameMemory, SameGroups, SameFlags DEF I!Branch

LEMMA IsaCall ==
    ASSUME ArchType, Op \in CALL, Holds(Op, arch.flag), Moves({"sp", "ram"}, Imm16), arch'.sp = Below,
           LET after == (arch.pc + 3) % 65536
           IN  arch'.ram = StoredWord(arch.ram, Below, after \div 256, after % 256)
    PROVE  I!Branch
  <1> DEFINE after == (arch.pc + 3) % 65536
             hi == after \div 256
             lo == after % 256
  <1>1. I!Jump([arch EXCEPT !["sp"] = arch'["sp"], !["ram"] = arch'["ram"]], Imm16)
    BY Moves2 DEF ArchFields, Shared
  <1>2. arch'.sp = I!Below
    BY SameStack
  <1>3. arch'.ram = I!StoredWord(arch.ram, I!Below, hi, lo)
    BY SameStores, SameStack
  <1>4. [arch EXCEPT !["sp"] = arch'["sp"], !["ram"] = arch'["ram"]] = I!Pushed(hi, lo)
    <2> HIDE DEF hi, lo
    <2> QED  BY <1>2, <1>3, PushedIs
  <1>5. I!Jump(I!Pushed(hi, lo), I!Imm16)
    BY <1>1, <1>4, SameMemory
  <1> QED  BY <1>5, SameMemory, SameGroups, SameFlags DEF I!Branch

LEMMA IsaIn ==
    ASSUME ArchType, Op = \hDB,
           IF Imm \in {1, 2, 3}
             THEN Moves({"reg"}, Onward)
                  /\ \E k \in Keys : arch'.reg = [arch.reg EXCEPT !["A"] = Port(Imm, k, arch.shift, arch.offset)]
             ELSE Moves({}, Onward)
    PROVE  I!In
  <1>1. CASE Imm \in {1, 2, 3}
    <2>1. I!Then([arch EXCEPT !["reg"] = arch'["reg"]])
      BY <1>1, ThenReg
    <2>2. PICK k \in Keys : arch'.reg = [arch.reg EXCEPT !["A"] = I!Port(I!Imm, k, arch.shift, arch.offset)]
      BY <1>1, SameFlags, SameMemory
    <2>3. I!Then([arch EXCEPT !.reg["A"] = I!Port(I!Imm, k, arch.shift, arch.offset)])
      BY <2>1, <2>2, Zenon
    <2> QED  BY <1>1, <2>3, SameMemory DEF I!In
  <1>2. CASE Imm \notin {1, 2, 3}
    BY <1>2, Moves0, SameMemory DEF I!In
  <1> QED  BY <1>1, <1>2

LEMMA IsaOut ==
    ASSUME ArchType, Op = \hD3,
           LET a == arch.reg["A"]
           IN  \/ Imm = 6 /\ Moves({}, Onward)
               \/ Imm = 2 /\ Moves({"offset"}, Onward) /\ arch'.offset = a % 8
               \/ Imm = 3 /\ Moves({"sound1"}, Onward) /\ arch'.sound1 = a
               \/ Imm = 4 /\ Moves({"shift"}, Onward) /\ arch'.shift = a * 256 + arch.shift \div 256
               \/ Imm = 5 /\ Moves({"sound2"}, Onward) /\ arch'.sound2 = a
    PROVE  I!Out
  <1> DEFINE a == arch.reg["A"]
             b == a % 8
             c == a * 256 + arch.shift \div 256
  <1>1. \/ Imm = 6 /\ I!Then(arch)
        \/ Imm = 2 /\ I!Then([arch EXCEPT !["offset"] = arch'["offset"]]) /\ arch'.offset = b
        \/ Imm = 3 /\ I!Then([arch EXCEPT !["sound1"] = arch'["sound1"]]) /\ arch'.sound1 = a
        \/ Imm = 4 /\ I!Then([arch EXCEPT !["shift"] = arch'["shift"]]) /\ arch'.shift = c
        \/ Imm = 5 /\ I!Then([arch EXCEPT !["sound2"] = arch'["sound2"]]) /\ arch'.sound2 = a
    <2>1. \A f \in {"offset", "sound1", "shift", "sound2"} : f \in ArchFields \ {"pc"}
      BY DEF ArchFields, Shared
    <2>2. Moves({}, Onward) => I!Then(arch)
      BY Moves0
    <2>3. \A f \in {"offset", "sound1", "shift", "sound2"} :
            Moves({f}, Onward) => I!Then([arch EXCEPT ![f] = arch'[f]])
      BY <2>1, Moves1
    <2>4. /\ Moves({"offset"}, Onward) => I!Then([arch EXCEPT !["offset"] = arch'["offset"]])
          /\ Moves({"sound1"}, Onward) => I!Then([arch EXCEPT !["sound1"] = arch'["sound1"]])
          /\ Moves({"shift"}, Onward) => I!Then([arch EXCEPT !["shift"] = arch'["shift"]])
          /\ Moves({"sound2"}, Onward) => I!Then([arch EXCEPT !["sound2"] = arch'["sound2"]])
      BY <2>3, Zenon
    <2>5. \/ Imm = 6 /\ Moves({}, Onward)
          \/ Imm = 2 /\ Moves({"offset"}, Onward) /\ arch'.offset = b
          \/ Imm = 3 /\ Moves({"sound1"}, Onward) /\ arch'.sound1 = a
          \/ Imm = 4 /\ Moves({"shift"}, Onward) /\ arch'.shift = c
          \/ Imm = 5 /\ Moves({"sound2"}, Onward) /\ arch'.sound2 = a
      OBVIOUS
    <2> HIDE DEF a, b, c
    <2> QED  BY <2>2, <2>4, <2>5
  <1> HIDE DEF a, b, c
  <1>2. \/ Imm = 6 /\ I!Then(arch)
        \/ Imm = 2 /\ I!Then([arch EXCEPT !.offset = b])
        \/ Imm = 3 /\ I!Then([arch EXCEPT !.sound1 = a])
        \/ Imm = 4 /\ I!Then([arch EXCEPT !.shift = c])
        \/ Imm = 5 /\ I!Then([arch EXCEPT !.sound2 = a])
    BY <1>1, Zenon
  <1> QED  BY <1>2, SameMemory DEF I!Out, a, b, c

LEMMA IsaInterrupt ==
    ASSUME ArchType, arch.ie, due # 0, Moves({"sp", "ram", "ie"}, due), arch'.sp = Below, arch'.ie = FALSE,
           arch'.ram = StoredWord(arch.ram, Below, arch.pc \div 256, arch.pc % 256)
    PROVE  I!Jump([I!Pushed(arch.pc \div 256, arch.pc % 256) EXCEPT !.ie = FALSE], due)
  <1> DEFINE hi == arch.pc \div 256
             lo == arch.pc % 256
  <1>1. I!Jump([arch EXCEPT !["sp"] = arch'["sp"], !["ram"] = arch'["ram"], !["ie"] = arch'["ie"]], due)
    BY Moves3 DEF ArchFields, Shared
  <1>2. arch'.sp = I!Below
    BY SameStack
  <1>3. arch'.ram = I!StoredWord(arch.ram, I!Below, hi, lo)
    BY SameStores, SameStack
  <1> HIDE DEF hi, lo
  <1>4. [arch EXCEPT !["sp"] = arch'["sp"], !["ram"] = arch'["ram"], !["ie"] = arch'["ie"]]
          = [I!Pushed(hi, lo) EXCEPT !.ie = FALSE]
    <2>1. [I!Pushed(hi, lo) EXCEPT !.ie = FALSE]
            = [arch EXCEPT !["sp"] = I!Below, !["ram"] = I!StoredWord(arch.ram, I!Below, hi, lo), !["ie"] = FALSE]
      BY PushedIs, Zenon
    <2> QED  BY <1>2, <1>3, <2>1, Zenon
  <1> QED  BY <1>1, <1>4 DEF hi, lo

----------------------------------------------------------------------------
(* What holds at each edge of an instruction, in terms of what it began with. *)

\* All but the registers of F are as they were when the instruction began.
Agrees(F) == \A f \in Shared \ F : cpu[f] = arch[f]

\* What arch holds is as wide as the registers and the memory are.
ArchWidths ==
    /\ arch.pc \in Addr /\ arch.sp \in Addr /\ arch.reg \in [Registers -> Byte] /\ arch.flag \in Flags
    /\ \A a \in DOMAIN arch.ram : arch.ram[a] \in Byte

\* No byte is on its way to the RAM; or one is, and with it the RAM will be m.
Dry == ~port.wren /\ ram = arch.ram
Mem == Put(ram, port.addr % 16384, port.data)
Wet(m) == port.wren /\ Mem = m

\* A word is being pushed, the high byte first.
Stacking(hi, lo) == \/ cpu.func = 1 /\ Wet(Stored(arch.ram, arch.sp - 1, hi))
                    \/ cpu.func = 2 /\ Wet(StoredWord(arch.ram, Below, hi, lo))

\* No step of an opcode has been taken.
Untouched == Agrees({}) /\ cpu.int_enabled = arch.ie /\ Dry /\ cpu.func = 0 /\ ~cpu.int_op

\* An interrupt is being taken: the program counter is pushed.
Taking ==
    /\ cpu.state = 1 /\ Agrees({}) /\ ~cpu.int_enabled /\ arch.ie
    /\ due # 0 /\ int_old = int_rst /\ since <= 2
    /\ (cpu.func = 0 /\ Dry) \/ Stacking(arch.pc \div 256, arch.pc % 256)

\* The opcode and the bytes behind it.
Decoded ==
    /\ cpu.op = Op
    /\ cpu.state > 3 => cpu.b2 = Imm
    /\ cpu.state > 4 => cpu.b3 = Third

\* An opcode of state 2 waits for its flags.
EarlyDone ==
    LET e == Early(Op, arch.reg, arch.flag)
    IN  /\ cpu.op = Op /\ cpu.op \in EARLY /\ cpu.func = 0 /\ Dry /\ ~cpu.int_op
        /\ Agrees({"reg", "flag"}) /\ cpu.int_enabled = arch.ie
        /\ cpu.reg = e.reg /\ cpu.tmp = e.tmp /\ cpu.flag = [arch.flag EXCEPT !.carry = e.carry]

\* In front of the first step of an opcode, with the ROM showing the next bytes. A call is past itself.
After == (arch.pc + 3) % 65536
Ready ==
    /\ Dry
    /\ cpu.state = 3 => rom_rdata = Imm /\ port.raddr = ((arch.pc + 2) % 65536) % 8192
    /\ cpu.state = 4 => rom_rdata = Third
    /\ IF cpu.state = 5 /\ cpu.op \in CALL
         THEN Agrees({"pc"}) /\ cpu.pc = After
         ELSE Agrees({})

\* The byte a load, an operation or a step with memory looks at, the next one, and the memory they are in.
Source == IF Op \in LOAD THEN LoadAddr(Op, arch.reg, Imm16) ELSE IF Op = \h2A THEN Imm16 ELSE HL(arch.reg)
FromRom == InRom(Op, Source)
First == IF FromRom THEN Rom(Source) ELSE Kept(Source)
Second == IF FromRom THEN Rom(Source + 1) ELSE Kept(Source + 1)
Sought == IF FromRom THEN port.raddr = Source % 8192 ELSE port.addr = Source % 32768
Sought2 == IF FromRom THEN port.raddr = ((Source + 1) % 65536) % 8192
          ELSE port.addr = ((Source + 1) % 65536) % 32768
Shown == IF FromRom THEN rom_rdata ELSE q

\* The two bytes on top of the stack, and where they are on their way.
Low == Kept(arch.sp)
High == Kept(arch.sp + 1)
Back == 256 * High + Low
LowAsked == port.addr = arch.sp % 32768
HighAsked == port.addr = ((arch.sp + 1) % 65536) % 32768

\* Between two steps of an opcode.
MidIncDec ==
    /\ cpu.op \in INR \cup DCR /\ cpu.func = 1 /\ Agrees({"reg"}) /\ Dry
    /\ cpu.reg = [arch.reg EXCEPT ![Dst(Op)] = Stepped(Op, arch.reg[Dst(Op)])]

AluI == Arith(Op, arch.reg["A"], Imm, arch.flag.carry)
MidAluI ==
    /\ cpu.op \in ALU_I /\ cpu.func = 1 /\ Dry
    /\ IF Row(Op) = 7
         THEN Agrees({}) /\ cpu.tmp = AluI.val
         ELSE /\ Agrees({"reg", "flag"}) /\ cpu.reg = [arch.reg EXCEPT !["A"] = AluI.val]
              /\ cpu.flag = [arch.flag EXCEPT !.carry = IF Row(Op) > 3 THEN arch.flag.carry ELSE AluI.carry]

MidStore ==
    /\ cpu.op \in STORE /\ cpu.func = 1 /\ Agrees({})
    /\ Wet(Stored(arch.ram, StoreAddr(Op, arch.reg, Imm16), StoreByte(Op, arch.reg, Imm)))

MidLoad ==
    /\ cpu.op \in LOAD /\ Agrees({}) /\ Dry
    /\ (cpu.func = 1 /\ Sought) \/ (cpu.func = 2 /\ Shown = First)

AluM == Arith(Op, arch.reg["A"], First, arch.flag.carry)
MidAluM ==
    /\ cpu.op \in ALU_M /\ Dry
    /\ \/ cpu.func = 1 /\ Agrees({}) /\ Sought
       \/ cpu.func = 2 /\ Agrees({}) /\ Shown = First
       \/ /\ cpu.func = 3 /\ Op = \hBE /\ Agrees({"flag"})
          /\ cpu.tmp = AluM.val /\ cpu.flag = [arch.flag EXCEPT !.carry = AluM.carry]
       \/ /\ cpu.func = 3 /\ Op # \hBE /\ Agrees({"reg", "flag"})
          /\ cpu.reg = [arch.reg EXCEPT !["A"] = AluM.val]
          /\ cpu.flag = [arch.flag EXCEPT !.carry = IF Op \in {\hA6, \hB6} THEN arch.flag.carry ELSE AluM.carry]

MidStepM ==
    /\ cpu.op \in STEP_M /\ Agrees({})
    /\ \/ cpu.func = 1 /\ Dry /\ Sought
       \/ cpu.func = 2 /\ Dry /\ Shown = First
       \/ cpu.func = 3 /\ Wet(Stored(arch.ram, HL(arch.reg), Stepped(Op, First))) /\ cpu.tmp = Stepped(Op, First)

MidPush ==
    /\ cpu.op \in PUSH /\ Agrees({})
    /\ Stacking(PushHigh(Op, arch.reg), PushLow(Op, arch.reg, arch.flag))

MidCall ==
    /\ cpu.op \in CALL /\ Agrees({"pc"}) /\ cpu.pc = After /\ Holds(Op, arch.flag)
    /\ Stacking(After \div 256, After % 256)

MidPop ==
    /\ cpu.op \in POP /\ Dry
    /\ \/ cpu.func = 1 /\ Agrees({}) /\ LowAsked
       \/ cpu.func = 2 /\ Agrees({}) /\ q = Low /\ HighAsked
       \/ /\ cpu.func = 3 /\ q = High
          /\ IF Op = \hF1 THEN Agrees({"flag"}) /\ cpu.flag = Unpacked(Low)
             ELSE Agrees({"reg"}) /\ cpu.reg = [arch.reg EXCEPT ![Pair(Op)[2]] = Low]
       \/ /\ cpu.func = 4
          /\ IF Op = \hF1
               THEN /\ Agrees({"reg", "flag"}) /\ cpu.flag = Unpacked(Low)
                    /\ cpu.reg = [arch.reg EXCEPT !["A"] = High]
               ELSE Agrees({"reg"}) /\ cpu.reg = [arch.reg EXCEPT ![Pair(Op)[2]] = Low, ![Pair(Op)[1]] = High]

MidRetIf ==
    /\ cpu.op \in RET_IF /\ Dry /\ Holds(Op, arch.flag)
    /\ \/ cpu.func = 1 /\ Agrees({}) /\ LowAsked
       \/ cpu.func = 2 /\ Agrees({}) /\ q = Low /\ HighAsked
       \/ cpu.func = 3 /\ Agrees({"pc"}) /\ q = High /\ cpu.pc % 256 = Low
       \/ cpu.func = 4 /\ Agrees({"pc"}) /\ cpu.pc = Back

MidRet ==
    /\ cpu.op = \hC9 /\ Dry
    /\ \/ cpu.func = 1 /\ Agrees({}) /\ LowAsked
       \/ cpu.func = 2 /\ Agrees({}) /\ q = Low
       \/ cpu.func = 3 /\ Agrees({"pc"}) /\ cpu.pc % 256 = Low /\ HighAsked
       \/ cpu.func = 4 /\ Agrees({"pc"}) /\ cpu.pc % 256 = Low /\ q = High
       \/ cpu.func = 5 /\ Agrees({"pc"}) /\ cpu.pc = Back

MidXthl ==
    /\ cpu.op = \hE3 /\ Agrees({})
    /\ \/ cpu.func = 1 /\ Dry /\ LowAsked
       \/ cpu.func = 2 /\ Dry /\ q = Low /\ HighAsked
       \/ cpu.func = 3 /\ Dry /\ q = High /\ cpu.tmp2 % 256 = Low
       \/ cpu.func = 4 /\ Dry /\ cpu.tmp2 = Back
       \/ /\ cpu.func = 5 /\ cpu.tmp2 = Back
          /\ Wet(Stored(arch.ram, arch.sp + 1, arch.reg["H"]))
       \/ /\ cpu.func = 6 /\ cpu.tmp2 = Back
          /\ Wet(StoredWord(arch.ram, arch.sp, arch.reg["H"], arch.reg["L"]))

MidShld ==
    /\ cpu.op = \h22 /\ Agrees({})
    /\ \/ cpu.func = 1 /\ Wet(Stored(arch.ram, Imm16, arch.reg["L"]))
       \/ cpu.func = 2 /\ Wet(StoredWord(arch.ram, Imm16, arch.reg["H"], arch.reg["L"]))

MidLhld ==
    /\ cpu.op = \h2A /\ Dry
    /\ \/ cpu.func = 1 /\ Agrees({}) /\ Sought
       \/ cpu.func = 2 /\ Agrees({}) /\ Shown = First /\ Sought2
       \/ /\ cpu.func = 3 /\ Agrees({"reg"}) /\ Shown = Second
          /\ cpu.reg = [arch.reg EXCEPT !["L"] = First]

Between ==
    \/ MidIncDec \/ MidAluI \/ MidStore \/ MidLoad \/ MidAluM \/ MidStepM \/ MidPush \/ MidCall
    \/ MidPop \/ MidRetIf \/ MidRet \/ MidXthl \/ MidShld \/ MidLhld

\* An opcode is executed.
Running ==
    /\ Decoded /\ cpu.int_enabled = arch.ie /\ ~cpu.int_op
    /\ (cpu.func = 0 /\ Ready) \/ (cpu.func # 0 /\ cpu.state = Bytes(Op) + 2 /\ Between)

\* The cycle of an instruction, while none was cut short. An unknown opcode stops it.
CycleInv ==
    /\ cpu.state = 0 => Untouched
    /\ cpu.state # 0 => ~cpu.can_debug
    /\ cpu.int_op => Taking
    /\ ~cpu.opcode_unk =>
         /\ cpu.state = 1 /\ ~cpu.int_op => Untouched /\ port.raddr = arch.pc % 8192
         /\ cpu.state = 2 => Untouched /\ rom_rdata = Op /\ port.raddr = ((arch.pc + 1) % 65536) % 8192
         /\ cpu.state = 3 /\ cpu.set_flags => EarlyDone
         /\ cpu.state > 2 /\ ~(cpu.state = 3 /\ cpu.set_flags) => Running

\* The renderer's request and what the CPU remembers of the last one. The CPU does not look while interrupts
\* are disabled between two instructions.
Deaf == cpu.state = 0 /\ ~cpu.int_enabled
RequestInv ==
    /\ int_old # int_rst => since = 0 /\ due # 0
    /\ due # 0 => due = int_rst
    /\ since >= 2 => cpu.int_rst_prev = int_rst \/ Deaf
    /\ ~cpu.int_op =>
         (due # 0 /\ cpu.int_rst_prev # int_rst) \/ (due = 0 /\ cpu.int_rst_prev = int_rst) \/ Deaf

IsaInv == ArchType /\ ArchWidths /\ (whole => CycleInv /\ RequestInv)
----------------------------------------------------------------------------
(* A clock edge, as the instruction sees it. *)

\* An address cut to the width of a port or a register is the same place of a memory.
LEMMA Cuts ==
    ASSUME NEW a \in Int
    PROVE  /\ (a % 32768) % 16384 = a % 16384 /\ (a % 65536) % 16384 = a % 16384
           /\ (a % 8192) % 8192 = a % 8192 /\ (a % 65536) % 8192 = a % 8192
           /\ (a % 65536) % 32768 = a % 32768
           /\ a % 32768 \in Int /\ a % 65536 \in Int /\ a % 8192 \in Int /\ a % 16384 \in Int
  OBVIOUS

LEMMA KeptBus == \A a \in Int : Kept(a % 32768) = Kept(a)
  BY Cuts DEF Kept
LEMMA KeptWord == \A a \in Int : Kept(a % 65536) = Kept(a)
  BY Cuts DEF Kept
LEMMA RomBus == \A a \in Int : Rom(a % 8192) = Rom(a)
  BY Cuts DEF Rom
LEMMA RomWord == \A a \in Int : Rom(a % 65536) = Rom(a)
  BY Cuts DEF Rom

LEMMA SameStore == ASSUME NEW a \in Int, NEW m, NEW x PROVE Stored(m, a % 65536, x) = Stored(m, a, x)
  BY Cuts DEF Stored

\* What the program reads has the width of a byte or a word.
LEMMA ReadTypes ==
    ASSUME TypeInv, ArchWidths
    PROVE  /\ \A a \in Int : Rom(a) \in Byte /\ Kept(a) \in Byte
           /\ arch.pc \in Int /\ arch.sp \in Int
           /\ Op \in Byte /\ Imm \in Byte /\ Third \in Byte /\ Imm16 \in Addr
  <1>1. arch.pc \in Int /\ arch.sp \in Int
    BY Ranges DEF ArchWidths
  <1>2. \A a \in Int : Rom(a) \in Byte
    BY RomType DEF TypeInv
  <1>3. \A a \in Int : Kept(a) \in Byte
    <2>1. 0 \in Byte
      BY DEF Byte
    <2> QED  BY <2>1 DEF Kept, ArchWidths
  <1>4. arch.pc + 1 \in Int /\ arch.pc + 2 \in Int
    BY <1>1
  <1>5. Op \in Byte /\ Imm \in Byte /\ Third \in Byte
    BY <1>1, <1>2, <1>4 DEF Op, Imm, Third
  <1>6. Imm16 \in Addr
    BY <1>5, Joined DEF Imm16
  <1> QED  BY <1>1, <1>2, <1>3, <1>5, <1>6

LEMMA SourceTypes ==
    ASSUME TypeInv, ArchWidths
    PROVE  Source \in Int /\ HL(arch.reg) \in Addr /\ Source + 1 \in Int
  <1>1. \A p \in {<<"B", "C">>, <<"D", "E">>, <<"H", "L">>} : Word(arch.reg, p) \in Addr
    <2>1. \A p \in {<<"B", "C">>, <<"D", "E">>, <<"H", "L">>} : p \in Registers \X Registers
      BY DEF Registers
    <2> QED  BY <2>1, WordType DEF ArchWidths
  <1>2. HL(arch.reg) \in Addr
    BY <1>1 DEF HL
  <1>3. Op \in {\h0A, \h1A} => Word(arch.reg, Pair(Op)) \in Addr
    BY <1>1, PairType
  <1>4. Source \in Addr
    BY <1>2, <1>3, ReadTypes DEF Source, LoadAddr
  <1>5. Source \in Int
    BY <1>4, Ranges
  <1>6. Source + 1 \in Int
    BY <1>5
  <1> QED  BY <1>2, <1>5, <1>6

\* What the program is, and what it reads, while no instruction ends.
LEMMA Stay ==
    ASSUME Memories, arch' = arch
    PROVE  /\ Op' = Op /\ Imm' = Imm /\ Third' = Third /\ Imm16' = Imm16
           /\ Source' = Source /\ (FromRom' <=> FromRom) /\ First' = First /\ Second' = Second
           /\ Low' = Low /\ High' = High /\ Below' = Below /\ After' = After
           /\ AluI' = AluI /\ AluM' = AluM /\ (ArchType => ArchType') /\ (ArchWidths => ArchWidths')
  <1>1. rom' = rom
    BY DEF Memories
  <1>2. Op' = Op /\ Imm' = Imm /\ Third' = Third
    BY <1>1 DEF Op, Imm, Third, Rom
  <1>3. Imm16' = Imm16
    BY <1>2 DEF Imm16
  <1>4. Source' = Source
    BY <1>2, <1>3 DEF Source
  <1>5. FromRom' <=> FromRom
    BY <1>2, <1>4 DEF FromRom, InRom
  <1>6. First' = First
    BY <1>1, <1>4, <1>5 DEF First, Rom, Kept
  <1>7. Second' = Second
    BY <1>1, <1>4, <1>5 DEF Second, Rom, Kept
  <1>8. Low' = Low /\ High' = High /\ Below' = Below /\ After' = After
    BY DEF Low, High, Below, After, Kept
  <1>9. AluI' = AluI /\ AluM' = AluM
    BY <1>2, <1>6 DEF AluI, AluM
  <1>10. (ArchType => ArchType') /\ (ArchWidths => ArchWidths')
    BY DEF ArchType, ArchWidths
  <1> QED  BY <1>2, <1>3, <1>4, <1>5, <1>6, <1>7, <1>8, <1>9, <1>10

\* The memories a cycle later.
LEMMA Shows ==
    ASSUME Memories, Dry
    PROVE  ram' = arch.ram /\ q' = Kept(port.addr) /\ rom_rdata' = Rom(port.raddr)
  BY DEF Memories, Dry, Ram, Kept

LEMMA Soaks ==
    ASSUME Memories, port.wren, ~cpu.opcode_unk
    PROVE  ram' = Mem
  BY DEF Memories, Mem

\* What was asked for arrives, if it is not written meanwhile.
LEMMA Arrive ==
    ASSUME TypeInv, ArchWidths, Memories, Dry, arch' = arch
    PROVE  /\ Sought => Shown' = First
           /\ Sought2 => Shown' = Second
           /\ LowAsked => q' = Low
           /\ HighAsked => q' = High
  <1>1. q' = Kept(port.addr) /\ rom_rdata' = Rom(port.raddr) /\ (FromRom' <=> FromRom)
    BY Shows, Stay
  <1>2. Source \in Int /\ Source + 1 \in Int /\ arch.sp \in Int
    BY SourceTypes, ReadTypes
  <1>3. Sought => Shown' = First
    <2>1. Kept(Source % 32768) = Kept(Source) /\ Rom(Source % 8192) = Rom(Source)
      BY <1>2, KeptBus, RomBus
    <2> QED  BY <1>1, <2>1 DEF Sought, Shown, First
  <1>4. (Source + 1) % 65536 \in Int /\ (arch.sp + 1) % 65536 \in Int /\ arch.sp + 1 \in Int
    BY <1>2
  <1>5. Sought2 => Shown' = Second
    <2> DEFINE b == (Source + 1) % 65536
    <2>1. Kept(b) = Kept(Source + 1) /\ Rom(b) = Rom(Source + 1)
      BY <1>2, KeptWord, RomWord
    <2>2. Kept(b % 32768) = Kept(b) /\ Rom(b % 8192) = Rom(b)
      BY <1>4, KeptBus, RomBus
    <2> QED  BY <1>1, <2>1, <2>2 DEF Sought2, Shown, Second
  <1>6. LowAsked => q' = Low
    BY <1>1, <1>2, KeptBus DEF LowAsked, Low
  <1>7. HighAsked => q' = High
    <2> DEFINE b == (arch.sp + 1) % 65536
    <2>1. Kept(b) = Kept(arch.sp + 1) /\ Kept(b % 32768) = Kept(b)
      BY <1>4, KeptBus, KeptWord
    <2> QED  BY <1>1, <2>1 DEF HighAsked, High
  <1> QED  BY <1>3, <1>5, <1>6, <1>7
----------------------------------------------------------------------------
(* A step of an opcode: it goes on with the next one (GoodStay), or it ends and is an instruction *)
(* of Isa8080 (GoodEnd). *)

Executed == I!Quiet \/ I!Arithmetic \/ I!Move \/ I!Stack \/ I!Branch \/ I!In \/ I!Out

AtEdge ==
    /\ TypeInv /\ ArchType /\ ArchWidths
    /\ cpu.state > 2 /\ ~cpu.can_debug /\ ~cpu.opcode_unk /\ ~cpu.int_op /\ cpu.int_enabled = arch.ie
    /\ Memories
    /\ arch' = IF cpu.state # 0 /\ cpu'.state = 0 THEN View' ELSE arch
AtStep == AtEdge /\ Running /\ ~(cpu.state = 3 /\ cpu.set_flags)
Good == CycleInv' /\ ArchType' /\ (cpu'.state = 0 => Executed)

\* The registers an opcode may set before its last step.
Work == {"reg", "flag", "pc", "tmp", "tmp2"}

LEMMA StayStep ==
    ASSUME AtStep, NEW G \in SUBSET Work, NextStep(G)
    PROVE  /\ arch' = arch /\ cpu'.op = cpu.op /\ cpu'.func = cpu.func + 1 /\ cpu'.state = cpu.state
           /\ cpu'.b2 = cpu.b2 /\ (cpu.state > 4 => cpu'.b3 = cpu.b3) /\ cpu'.set_flags = cpu.set_flags
           /\ cpu'.can_debug = cpu.can_debug /\ cpu'.int_op = cpu.int_op
           /\ cpu'.int_enabled = cpu.int_enabled /\ cpu'.opcode_unk = cpu.opcode_unk
           /\ \A f \in Shared \ G : cpu'[f] = cpu[f]
  <1>1. RegsType
    BY DEF AtStep, AtEdge, TypeInv
  <1>2. /\ \A f \in Fields \ {"cycles_remain", "b3"} : Ticked[f] = cpu[f]
        /\ Ticked.b3 = IF cpu.state = 4 THEN rom_rdata ELSE cpu.b3
    BY <1>1, TickedFields
  <1>3. \A f \in Fields \ (G \cup {"func"}) : cpu'[f] = Ticked[f]
    BY DEF NextStep, Only
  <1>4. /\ cpu'.op = cpu.op /\ cpu'.state = cpu.state
        /\ cpu'.b2 = cpu.b2 /\ cpu'.b3 = Ticked.b3 /\ cpu'.set_flags = cpu.set_flags
        /\ cpu'.can_debug = cpu.can_debug /\ cpu'.int_op = cpu.int_op
        /\ cpu'.int_enabled = cpu.int_enabled /\ cpu'.opcode_unk = cpu.opcode_unk
    BY <1>2, <1>3 DEF Fields, Work
  <1>5. cpu.state > 4 => cpu'.b3 = cpu.b3
    BY <1>2, <1>4
  <1>6. \A f \in Shared \ G : cpu'[f] = cpu[f]
    BY <1>2, <1>3 DEF Fields, Shared
  <1>7. arch' = arch
    BY <1>4 DEF AtStep, AtEdge
  <1>8. cpu'.func = cpu.func + 1
    BY DEF NextStep
  <1> QED  BY <1>4, <1>5, <1>6, <1>7, <1>8

LEMMA GoodStay ==
    ASSUME AtStep, NEW G \in SUBSET Work, NextStep(G), cpu.state = Bytes(Op) + 2, Between'
    PROVE  Good
  <1>1. /\ arch' = arch /\ cpu'.op = cpu.op /\ cpu'.func = cpu.func + 1 /\ cpu'.state = cpu.state
        /\ cpu'.b2 = cpu.b2 /\ (cpu.state > 4 => cpu'.b3 = cpu.b3) /\ cpu'.set_flags = cpu.set_flags
        /\ cpu'.can_debug = cpu.can_debug /\ cpu'.int_op = cpu.int_op
        /\ cpu'.int_enabled = cpu.int_enabled /\ cpu'.opcode_unk = cpu.opcode_unk
    BY StayStep
  <1>2. Op' = Op /\ Imm' = Imm /\ Third' = Third /\ (ArchType => ArchType')
    BY <1>1, Stay DEF AtStep, AtEdge
  <1>3. Decoded'
    BY <1>1, <1>2 DEF AtStep, AtEdge, Running, Decoded
  <1>4. cpu.func \in Nat /\ cpu.state \in Nat /\ cpu.state > 2
    <2>1. cpu.func \in 0..7 /\ cpu.state \in 0..5
      BY RegsTypes DEF AtStep, AtEdge, TypeInv
    <2> QED  BY <2>1 DEF AtStep, AtEdge
  <1>5. Running'
    <2>1. cpu'.func # 0
      BY <1>1, <1>4
    <2>2. cpu'.state = Bytes(Op)' + 2
      BY <1>1, <1>2
    <2>3. cpu'.int_enabled = arch'.ie /\ ~cpu'.int_op
      BY <1>1 DEF AtStep, AtEdge, Running
    <2> QED  BY <1>3, <2>1, <2>2, <2>3 DEF Running
  <1>6. CycleInv'
    <2>1. cpu'.state > 2 /\ ~(cpu'.state = 3 /\ cpu'.set_flags) /\ ~cpu'.can_debug /\ ~cpu'.int_op
      BY <1>1, <1>4 DEF AtStep, AtEdge, Running
    <2>2. cpu'.state # 0 /\ cpu'.state # 1 /\ cpu'.state # 2
      BY <1>1, <1>4
    <2> QED  BY <1>5, <2>1, <2>2 DEF CycleInv
  <1>7. ArchType' /\ cpu'.state # 0
    BY <1>1, <1>2, <1>4 DEF AtStep, AtEdge
  <1> QED  BY <1>6, <1>7 DEF Good

\* What arch is when an instruction ends.
LEMMA Arrived ==
    ASSUME arch' = View'
    PROVE  /\ ArchType' /\ \A f \in Shared : arch'[f] = cpu'[f]
           /\ arch'.ie = cpu'.int_enabled /\ arch'.ram = ram'
  BY DEF View, ArchType, ArchFields, Shared

\* The registers that may be set when it ends.
Results == Shared \cup {"state", "func", "int_enabled", "can_debug", "opcode_unk"}

LEMMA EndStep ==
    ASSUME AtEdge, NEW F, Agrees(F), NEW G \in SUBSET Results, Only(G), cpu'.state = 0
    PROVE  /\ ArchType' /\ \A f \in Shared : arch'[f] = cpu'[f]
           /\ arch'.ie = cpu'.int_enabled /\ arch'.ram = ram'
           /\ "int_enabled" \notin G => arch'.ie = arch.ie
           /\ \A f \in Shared \ (F \cup G) : arch'[f] = arch[f]
           /\ \A f \in Shared \ G : arch'[f] = cpu[f]
           /\ "func" \notin G => cpu'.func = cpu.func
           /\ ~cpu'.int_op
  <1>1. RegsType
    BY DEF AtEdge, TypeInv
  <1>2. \A f \in Fields \ (G \cup {"cycles_remain", "b3"}) : cpu'[f] = cpu[f]
    BY <1>1, TickedFields DEF Only
  <1>3. cpu.state # 0
    <2>1. cpu.state \in 0..5
      BY <1>1, RegsTypes
    <2> QED  BY <2>1 DEF AtEdge
  <1>4. arch' = View'
    BY <1>3 DEF AtEdge
  <1>5. /\ ArchType' /\ \A f \in Shared : arch'[f] = cpu'[f]
        /\ arch'.ie = cpu'.int_enabled /\ arch'.ram = ram'
    BY <1>4, Arrived
  <1>6. \A f \in Shared \ G : cpu'[f] = cpu[f]
    BY <1>2 DEF Fields, Shared
  <1>7. "int_enabled" \notin G => arch'.ie = arch.ie
    BY <1>2, <1>5 DEF Fields, AtEdge
  <1>8. cpu'.int_op = cpu.int_op /\ ~cpu'.int_op
    BY <1>2 DEF Fields, Results, Shared, AtEdge
  <1>9. "func" \notin G => cpu'.func = cpu.func
    BY <1>2 DEF Fields
  <1> QED  BY <1>5, <1>6, <1>7, <1>8, <1>9 DEF Agrees

LEMMA GoodEnd ==
    ASSUME AtEdge, NEW F, Agrees(F), NEW G \in SUBSET Results, Only(G), cpu'.state = 0, cpu'.func = 0,
           port'.wren = FALSE, Executed
    PROVE  Good
  <1>1. /\ ArchType' /\ \A f \in Shared : arch'[f] = cpu'[f]
        /\ arch'.ie = cpu'.int_enabled /\ arch'.ram = ram' /\ ~cpu'.int_op
    BY EndStep
  <1>2. Untouched'
    BY <1>1 DEF Untouched, Agrees, Dry
  <1>3. CycleInv'
    BY <1>1, <1>2 DEF CycleInv
  <1> QED  BY <1>1, <1>3 DEF Good

\* The machine stops, for the debugging display.
LEMMA GoodStop ==
    ASSUME AtEdge, Only({"opcode_unk"}), cpu'.opcode_unk = TRUE
    PROVE  Good
  <1>1. RegsType /\ cpu.state \in 0..5 /\ cpu.state > 2
    BY RegsTypes DEF AtEdge, TypeInv
  <1>2. cpu'.state = cpu.state /\ cpu'.can_debug = cpu.can_debug /\ cpu'.int_op = cpu.int_op
    BY <1>1, TickedFields DEF Only, Fields
  <1>3. cpu'.state # 0
    BY <1>1, <1>2
  <1>4. CycleInv'
    BY <1>2, <1>3 DEF CycleInv, AtEdge
  <1>5. ArchType'
    BY <1>3 DEF AtEdge, ArchType
  <1> QED  BY <1>3, <1>4, <1>5 DEF Good
----------------------------------------------------------------------------
(* Which opcode it is, and where its execution stands. *)

\* The groups of opcodes exclude each other: those of several steps, and those of one.
OneStepOps == PLAIN \cup MVI \cup LXI \cup JUMP \cup {\hE9, \hDB, \hD3}

LEMMA Apart ==
    /\ \A op \in INR \cup DCR : op \notin ALU_I \cup STORE \cup LOAD \cup ALU_M \cup STEP_M \cup PUSH \cup CALL
                                  \cup POP \cup RET_IF \cup {\hC9, \hE3, \h22, \h2A} \cup OneStepOps
    /\ \A op \in ALU_I : op \notin STORE \cup LOAD \cup ALU_M \cup STEP_M \cup PUSH \cup CALL
                                  \cup POP \cup RET_IF \cup {\hC9, \hE3, \h22, \h2A} \cup OneStepOps
    /\ \A op \in STORE : op \notin LOAD \cup ALU_M \cup STEP_M \cup PUSH \cup CALL
                                  \cup POP \cup RET_IF \cup {\hC9, \hE3, \h22, \h2A} \cup OneStepOps
    /\ \A op \in LOAD : op \notin ALU_M \cup STEP_M \cup PUSH \cup CALL
                                  \cup POP \cup RET_IF \cup {\hC9, \hE3, \h22, \h2A} \cup OneStepOps
    /\ \A op \in ALU_M : op \notin STEP_M \cup PUSH \cup CALL
                                  \cup POP \cup RET_IF \cup {\hC9, \hE3, \h22, \h2A} \cup OneStepOps
    /\ \A op \in STEP_M : op \notin PUSH \cup CALL \cup POP \cup RET_IF \cup {\hC9, \hE3, \h22, \h2A} \cup OneStepOps
    /\ \A op \in PUSH : op \notin CALL \cup POP \cup RET_IF \cup {\hC9, \hE3, \h22, \h2A} \cup OneStepOps
    /\ \A op \in CALL : op \notin POP \cup RET_IF \cup {\hC9, \hE3, \h22, \h2A} \cup OneStepOps
    /\ \A op \in POP : op \notin RET_IF \cup {\hC9, \hE3, \h22, \h2A} \cup OneStepOps
    /\ \A op \in RET_IF : op \notin {\hC9, \hE3, \h22, \h2A} \cup OneStepOps
    /\ \A op \in {\hC9, \hE3, \h22, \h2A} : op \notin OneStepOps
    /\ \hC9 \notin {\hE3, \h22, \h2A} /\ \hE3 \notin {\h22, \h2A} /\ \h22 # \h2A
  BY DEF INR, DCR, ALU_I, STORE, MOV_M, LOAD, FROM_M, ALU_M, STEP_M, PUSH, CALL, POP, RET_IF, OneStepOps,
         PLAIN, MOV_R, INX, DCX, DAD, LOGIC, MVI, LXI, JUMP

LEMMA Mids ==
    ASSUME Between
    PROVE  /\ cpu.op \in INR \cup DCR => MidIncDec
           /\ cpu.op \in ALU_I => MidAluI
           /\ cpu.op \in STORE => MidStore
           /\ cpu.op \in LOAD => MidLoad
           /\ cpu.op \in ALU_M => MidAluM
           /\ cpu.op \in STEP_M => MidStepM
           /\ cpu.op \in PUSH => MidPush
           /\ cpu.op \in CALL => MidCall
           /\ cpu.op \in POP => MidPop
           /\ cpu.op \in RET_IF => MidRetIf
           /\ cpu.op = \hC9 => MidRet
           /\ cpu.op = \hE3 => MidXthl
           /\ cpu.op = \h22 => MidShld
           /\ cpu.op = \h2A => MidLhld
           /\ cpu.op \notin OneStepOps
  <1>1. /\ MidIncDec => cpu.op \in INR \cup DCR
        /\ MidAluI => cpu.op \in ALU_I
        /\ MidStore => cpu.op \in STORE
        /\ MidLoad => cpu.op \in LOAD
        /\ MidAluM => cpu.op \in ALU_M
        /\ MidStepM => cpu.op \in STEP_M
        /\ MidPush => cpu.op \in PUSH
        /\ MidCall => cpu.op \in CALL
        /\ MidPop => cpu.op \in POP
        /\ MidRetIf => cpu.op \in RET_IF
        /\ MidRet => cpu.op = \hC9
        /\ MidXthl => cpu.op = \hE3
        /\ MidShld => cpu.op = \h22
        /\ MidLhld => cpu.op = \h2A
    BY DEF MidIncDec, MidAluI, MidStore, MidLoad, MidAluM, MidStepM, MidPush, MidCall, MidPop, MidRetIf,
           MidRet, MidXthl, MidShld, MidLhld
  <1> QED  BY <1>1, Apart DEF Between

\* The first step of an opcode, but for calls, and the later ones.
LEMMA Begins ==
    ASSUME AtStep
    PROVE  /\ cpu.op = Op
           /\ cpu.func = 0 /\ cpu.op \notin CALL => Agrees({}) /\ Dry
           /\ cpu.func = 0 /\ cpu.state = 5 /\ cpu.op \in CALL => Agrees({"pc"}) /\ cpu.pc = After /\ Dry
           /\ cpu.func # 0 => Between
  BY DEF AtStep, AtEdge, Running, Ready, Decoded

LEMMA BeginsOnce ==
    ASSUME AtStep, cpu.op \in OneStepOps
    PROVE  cpu.func = 0 /\ Agrees({}) /\ Dry
  BY Begins, Mids, Apart

\* The bytes behind the opcode.
LEMMA Bytes23 ==
    /\ \A op \in LXI \cup JUMP \cup CALL \cup {\h22, \h2A, \h32, \h3A} : Bytes(op) = 3
    /\ \A op \in MVI \cup ALU_I \cup {\h36, \hD3, \hDB} : Bytes(op) = 2
  BY DEF Bytes, ThreeBytes, TwoBytes, LXI, JUMP, CALL, MVI, ALU_I

LEMMA Operands ==
    ASSUME AtStep, NEW S, Executes(S)
    PROVE  /\ cpu.op = Op /\ cpu.op \in S /\ cpu.state = Bytes(Op) + 2
           /\ cpu.op \in MVI \cup ALU_I \cup {\h36, \hD3, \hDB} => cpu.b2 = Imm
           /\ cpu.op \in LXI \cup JUMP \cup CALL \cup {\h22, \h2A, \h32, \h3A} =>
                cpu.state = 5 /\ Operand = Imm16
  <1>1. cpu.op = Op /\ cpu.op \in S /\ cpu.state = Bytes(Op) + 2
    BY DEF AtStep, AtEdge, Running, Decoded, Executes
  <1>2. ASSUME cpu.op \in MVI \cup ALU_I \cup {\h36, \hD3, \hDB}
        PROVE  cpu.b2 = Imm
    <2>1. cpu.state = 4
      BY <1>1, <1>2, Bytes23
    <2> QED  BY <2>1 DEF AtStep, AtEdge, Running, Decoded
  <1>3. ASSUME cpu.op \in LXI \cup JUMP \cup CALL \cup {\h22, \h2A, \h32, \h3A}
        PROVE  cpu.state = 5 /\ Operand = Imm16
    <2>1. cpu.state = 5
      BY <1>1, <1>3, Bytes23
    <2> QED  BY <2>1 DEF AtStep, AtEdge, Running, Decoded, Operand, Imm16
  <1> QED  BY <1>1, <1>2, <1>3

LEMMA AgreesAll ==
    ASSUME Agrees({})
    PROVE  /\ cpu.pc = arch.pc /\ cpu.sp = arch.sp /\ cpu.reg = arch.reg /\ cpu.flag = arch.flag
           /\ cpu.shift = arch.shift /\ cpu.offset = arch.offset
           /\ cpu.sound1 = arch.sound1 /\ cpu.sound2 = arch.sound2
  BY DEF Agrees, Shared

LEMMA OncePast == ASSUME AtStep, Agrees({}) PROVE Past = Onward
  BY AgreesAll, Begins DEF Past, Onward
----------------------------------------------------------------------------
(* Opcodes of one step. *)

LEMMA OnceEnds ==
    ASSUME AtStep, cpu.op \in OneStepOps, Idle, cpu'.state = 0,
           NEW F \in SUBSET (Results \ {"func"}), Only(F)
    PROVE  /\ ArchType' /\ \A f \in Shared : arch'[f] = cpu'[f]
           /\ \A f \in Shared \ F : arch'[f] = arch[f]
           /\ arch'.ram = arch.ram /\ arch'.ie = cpu'.int_enabled
           /\ "int_enabled" \notin F => arch'.ie = arch.ie
           /\ Executed => Good
  <1>1. cpu.func = 0 /\ Agrees({}) /\ Dry /\ AtEdge
    BY BeginsOnce DEF AtStep
  <1>2. F \in SUBSET Results
    OBVIOUS
  <1>3. /\ ArchType' /\ \A f \in Shared : arch'[f] = cpu'[f]
        /\ arch'.ie = cpu'.int_enabled /\ arch'.ram = ram'
        /\ "int_enabled" \notin F => arch'.ie = arch.ie
        /\ \A f \in Shared \ ({} \cup F) : arch'[f] = arch[f]
        /\ cpu'.func = cpu.func
    BY <1>1, <1>2, EndStep
  <1>4. ram' = arch.ram
    BY <1>1, Shows DEF AtStep, AtEdge
  <1>5. port'.wren = FALSE
    BY <1>1 DEF Idle, Dry, AtStep, AtEdge, TypeInv, BusType
  <1>6. Executed => Good
    BY <1>1, <1>2, <1>3, <1>5, GoodEnd
  <1> QED  BY <1>3, <1>4, <1>6

LEMMA OnceGoesOn ==
    ASSUME AtStep, cpu.op \in OneStepOps, Idle, NEW F \in SUBSET (Results \ {"func", "pc"}), OneStep(F)
    PROVE  /\ ArchType' /\ arch'.pc = Onward /\ \A f \in Shared : arch'[f] = cpu'[f]
           /\ \A f \in Shared \ (F \cup {"pc"}) : arch'[f] = arch[f]
           /\ arch'.ram = arch.ram /\ arch'.ie = cpu'.int_enabled
           /\ "int_enabled" \notin F => arch'.ie = arch.ie
           /\ Executed => Good
  <1> DEFINE G == F \cup {"state", "pc"}
  <1>1. G \in SUBSET (Results \ {"func"})
    BY DEF Results, Shared
  <1>2. Only(G) /\ cpu'.state = 0 /\ cpu'.pc = Past
    BY DEF OneStep
  <1> HIDE DEF G
  <1>3. /\ ArchType' /\ \A f \in Shared : arch'[f] = cpu'[f]
        /\ \A f \in Shared \ G : arch'[f] = arch[f]
        /\ arch'.ram = arch.ram /\ arch'.ie = cpu'.int_enabled
        /\ "int_enabled" \notin G => arch'.ie = arch.ie
        /\ Executed => Good
    BY <1>1, <1>2, OnceEnds
  <1>4. Past = Onward
    BY BeginsOnce, OncePast
  <1>5. arch'.pc = Onward
    BY <1>2, <1>3, <1>4 DEF Shared
  <1>6. \A f \in Shared \ (F \cup {"pc"}) : arch'[f] = arch[f]
    BY <1>3 DEF Shared, G
  <1>7. "int_enabled" \notin F => arch'.ie = arch.ie
    BY <1>3 DEF G
  <1> QED  BY <1>3, <1>5, <1>6, <1>7

LEMMA GoodPlain == ASSUME AtStep, DoPlain PROVE Good
  <1>1. RegsType
    BY DEF AtStep, AtEdge, TypeInv
  <1>2. /\ Executes(PLAIN) /\ Idle /\ OneStep({"reg", "flag", "int_enabled"})
        /\ cpu'.reg = Plain(cpu.op, cpu.reg, cpu.flag).reg /\ cpu'.flag = Plain(cpu.op, cpu.reg, cpu.flag).flag
        /\ cpu'.int_enabled = (cpu.int_enabled \/ cpu.op = \hFB)
    BY <1>1, DoPlainEffect
  <1>3. cpu.op = Op /\ cpu.op \in PLAIN
    BY <1>2, Operands
  <1>4. cpu.op \in OneStepOps
    BY <1>3 DEF OneStepOps
  <1>5. cpu.reg = arch.reg /\ cpu.flag = arch.flag /\ cpu.int_enabled = arch.ie
    BY <1>4, BeginsOnce, AgreesAll DEF AtStep, AtEdge, Running
  <1> DEFINE F == {"reg", "flag", "int_enabled"}
  <1>6. F \in SUBSET (Results \ {"func", "pc"})
    BY DEF Results, Shared
  <1>7. /\ ArchType' /\ arch'.pc = Onward /\ \A f \in Shared : arch'[f] = cpu'[f]
        /\ \A f \in Shared \ (F \cup {"pc"}) : arch'[f] = arch[f]
        /\ arch'.ram = arch.ram /\ arch'.ie = cpu'.int_enabled
        /\ Executed => Good
    BY <1>2, <1>4, <1>6, OnceGoesOn
  <1>8. Moves({"reg", "flag", "ie"}, Onward)
    BY <1>7 DEF Moves, ArchFields, Shared
  <1>9. arch'.reg = cpu'.reg /\ arch'.flag = cpu'.flag
    BY <1>7 DEF Shared
  <1>10. I!Quiet
    BY <1>2, <1>3, <1>5, <1>7, <1>8, <1>9, IsaQuiet DEF AtStep, AtEdge
  <1> QED  BY <1>7, <1>10 DEF Executed
LEMMA GoodMvi == ASSUME AtStep, DoMvi PROVE Good
  <1>1. /\ Executes(MVI) /\ Idle /\ OneStep({"reg"}) /\ cpu'.reg = [cpu.reg EXCEPT ![Dst(cpu.op)] = cpu.b2]
    BY DoMviEffect DEF AtStep, AtEdge, TypeInv
  <1>2. cpu.op = Op /\ cpu.op \in MVI /\ cpu.b2 = Imm
    BY <1>1, Operands
  <1>3. cpu.op \in OneStepOps
    BY <1>2 DEF OneStepOps
  <1>4. cpu.reg = arch.reg
    BY <1>3, BeginsOnce, AgreesAll
  <1>5. {"reg"} \in SUBSET (Results \ {"func", "pc"})
    BY DEF Results, Shared
  <1>6. /\ ArchType' /\ arch'.pc = Onward /\ \A f \in Shared : arch'[f] = cpu'[f]
        /\ \A f \in Shared \ ({"reg"} \cup {"pc"}) : arch'[f] = arch[f]
        /\ arch'.ram = arch.ram /\ arch'.ie = arch.ie
        /\ Executed => Good
    BY <1>1, <1>3, <1>5, OnceGoesOn
  <1>7. Moves({"reg"}, Onward) /\ arch'.reg = cpu'.reg
    BY <1>6 DEF Moves, ArchFields, Shared
  <1>8. I!Move
    BY <1>1, <1>2, <1>4, <1>7, IsaMvi DEF AtStep, AtEdge
  <1> QED  BY <1>6, <1>8 DEF Executed

LEMMA GoodLxi == ASSUME AtStep, DoLxi PROVE Good
  <1>1. /\ Executes(LXI) /\ Idle
        /\ IF cpu.op = \h31
             THEN OneStep({"sp"}) /\ cpu'.sp = Operand
             ELSE OneStep({"reg"}) /\ cpu'.reg = WithWord(cpu.reg, Pair(cpu.op), Operand)
    BY DoLxiEffect DEF AtStep, AtEdge, TypeInv
  <1>2. cpu.op = Op /\ cpu.op \in LXI /\ Operand = Imm16
    BY <1>1, Operands
  <1>3. cpu.op \in OneStepOps
    BY <1>2 DEF OneStepOps
  <1>4. cpu.reg = arch.reg
    BY <1>3, BeginsOnce, AgreesAll
  <1>5. {"reg"} \in SUBSET (Results \ {"func", "pc"}) /\ {"sp"} \in SUBSET (Results \ {"func", "pc"})
    BY DEF Results, Shared
  <1>6. ASSUME cpu.op = \h31 PROVE Good
    <2>1. OneStep({"sp"}) /\ cpu'.sp = Imm16
      BY <1>1, <1>2, <1>6
    <2>2. /\ ArchType' /\ arch'.pc = Onward /\ \A f \in Shared : arch'[f] = cpu'[f]
          /\ \A f \in Shared \ ({"sp"} \cup {"pc"}) : arch'[f] = arch[f]
          /\ arch'.ram = arch.ram /\ arch'.ie = arch.ie
          /\ Executed => Good
      BY <1>1, <1>3, <1>5, <2>1, OnceGoesOn
    <2>3. Moves({"sp"}, Onward) /\ arch'.sp = Imm16
      BY <2>1, <2>2 DEF Moves, ArchFields, Shared
    <2>4. I!Stack
      BY <1>2, <1>6, <2>3, IsaLxiSp DEF AtStep, AtEdge
    <2> QED  BY <2>2, <2>4 DEF Executed
  <1>7. ASSUME cpu.op # \h31 PROVE Good
    <2>1. OneStep({"reg"}) /\ cpu'.reg = WithWord(arch.reg, Pair(Op), Imm16)
      BY <1>1, <1>2, <1>4, <1>7
    <2>2. /\ ArchType' /\ arch'.pc = Onward /\ \A f \in Shared : arch'[f] = cpu'[f]
          /\ \A f \in Shared \ ({"reg"} \cup {"pc"}) : arch'[f] = arch[f]
          /\ arch'.ram = arch.ram /\ arch'.ie = arch.ie
          /\ Executed => Good
      BY <1>1, <1>3, <1>5, <2>1, OnceGoesOn
    <2>3. Moves({"reg"}, Onward) /\ arch'.reg = WithWord(arch.reg, Pair(Op), Imm16)
      BY <2>1, <2>2 DEF Moves, ArchFields, Shared
    <2>4. I!Move
      BY <1>2, <1>7, <2>3, IsaLxi DEF AtStep, AtEdge
    <2> QED  BY <2>2, <2>4 DEF Executed
  <1> QED  BY <1>6, <1>7

LEMMA GoodJump == ASSUME AtStep, DoJump PROVE Good
  <1>1. /\ Executes(JUMP \cup {\hE9}) /\ Idle
        /\ IF cpu.op = \hE9 \/ Holds(cpu.op, cpu.flag)
             THEN /\ Only({"state", "pc"}) /\ cpu'.state = 0
                  /\ cpu'.pc = IF cpu.op = \hE9 THEN HL(cpu.reg) ELSE Operand
             ELSE OneStep({})
    BY DoJumpEffect DEF AtStep, AtEdge, TypeInv
  <1>2. cpu.op = Op /\ cpu.op \in JUMP \cup {\hE9} /\ (cpu.op # \hE9 => Operand = Imm16)
    BY <1>1, Operands
  <1>3. cpu.op \in OneStepOps
    BY <1>2 DEF OneStepOps
  <1>4. cpu.reg = arch.reg /\ cpu.flag = arch.flag
    BY <1>3, BeginsOnce, AgreesAll
  <1>5. ASSUME cpu.op = \hE9 \/ Holds(cpu.op, cpu.flag) PROVE Good
    <2> DEFINE t == IF Op = \hE9 THEN HL(arch.reg) ELSE Imm16
    <2>1. Only({"state", "pc"}) /\ cpu'.state = 0 /\ cpu'.pc = t
      BY <1>1, <1>2, <1>4, <1>5
    <2>2. {"state", "pc"} \in SUBSET (Results \ {"func"})
      BY DEF Results, Shared
    <2>3. /\ ArchType' /\ \A f \in Shared : arch'[f] = cpu'[f]
          /\ \A f \in Shared \ {"state", "pc"} : arch'[f] = arch[f]
          /\ arch'.ram = arch.ram /\ arch'.ie = arch.ie
          /\ Executed => Good
      BY <1>1, <1>3, <2>1, <2>2, OnceEnds
    <2> HIDE DEF t
    <2>4. Moves({}, t)
      BY <2>1, <2>3 DEF Moves, ArchFields, Shared
    <2>5. I!Branch
      BY <1>2, <1>4, <1>5, <2>4, IsaJump DEF AtStep, AtEdge, t
    <2> QED  BY <2>3, <2>5 DEF Executed
  <1>6. ASSUME ~(cpu.op = \hE9 \/ Holds(cpu.op, cpu.flag)) PROVE Good
    <2>1. OneStep({})
      BY <1>1, <1>6
    <2>2. {} \in SUBSET (Results \ {"func", "pc"})
      OBVIOUS
    <2>3. /\ ArchType' /\ arch'.pc = Onward /\ \A f \in Shared : arch'[f] = cpu'[f]
          /\ \A f \in Shared \ ({} \cup {"pc"}) : arch'[f] = arch[f]
          /\ arch'.ram = arch.ram /\ arch'.ie = arch.ie
          /\ Executed => Good
      BY <1>1, <1>3, <2>1, <2>2, OnceGoesOn
    <2>4. Moves({}, Onward)
      BY <2>3 DEF Moves, ArchFields, Shared
    <2>5. I!Branch
      BY <1>2, <1>4, <1>6, <2>4, IsaGoesOn DEF AtStep, AtEdge
    <2> QED  BY <2>3, <2>5 DEF Executed
  <1> QED  BY <1>5, <1>6

LEMMA GoodIn == ASSUME AtStep, DoIn PROVE Good
  <1>1. /\ Executes({\hDB}) /\ Idle
        /\ IF cpu.b2 \in {1, 2, 3}
             THEN /\ OneStep({"reg"})
                  /\ \E k \in Keys :
                       cpu'.reg = [cpu.reg EXCEPT !["A"] = Port(cpu.b2, k, cpu.shift, cpu.offset)]
             ELSE OneStep({"opcode_unk"})
    BY DoInEffect DEF AtStep, AtEdge, TypeInv
  <1>2. cpu.op = Op /\ cpu.op = \hDB /\ cpu.b2 = Imm
    BY <1>1, Operands
  <1>3. cpu.op \in OneStepOps
    BY <1>2 DEF OneStepOps
  <1>4. cpu.reg = arch.reg /\ cpu.shift = arch.shift /\ cpu.offset = arch.offset
    BY <1>3, BeginsOnce, AgreesAll
  <1>5. ASSUME cpu.b2 \in {1, 2, 3} PROVE Good
    <2>1. {"reg"} \in SUBSET (Results \ {"func", "pc"})
      BY DEF Results, Shared
    <2>2. /\ ArchType' /\ arch'.pc = Onward /\ \A f \in Shared : arch'[f] = cpu'[f]
          /\ \A f \in Shared \ ({"reg"} \cup {"pc"}) : arch'[f] = arch[f]
          /\ arch'.ram = arch.ram /\ arch'.ie = arch.ie
          /\ Executed => Good
      BY <1>1, <1>3, <1>5, <2>1, OnceGoesOn
    <2>3. Moves({"reg"}, Onward) /\ arch'.reg = cpu'.reg
      BY <2>2 DEF Moves, ArchFields, Shared
    <2>4. \E k \in Keys : arch'.reg = [arch.reg EXCEPT !["A"] = Port(Imm, k, arch.shift, arch.offset)]
      BY <1>1, <1>2, <1>4, <1>5, <2>3
    <2>5. I!In
      BY <1>2, <1>5, <2>3, <2>4, IsaIn DEF AtStep, AtEdge
    <2> QED  BY <2>2, <2>5 DEF Executed
  <1>6. ASSUME cpu.b2 \notin {1, 2, 3} PROVE Good
    <2>1. {"opcode_unk"} \in SUBSET (Results \ {"func", "pc"})
      BY DEF Results, Shared
    <2>2. /\ ArchType' /\ arch'.pc = Onward
          /\ \A f \in Shared \ ({"opcode_unk"} \cup {"pc"}) : arch'[f] = arch[f]
          /\ arch'.ram = arch.ram /\ arch'.ie = arch.ie
          /\ Executed => Good
      BY <1>1, <1>3, <1>6, <2>1, OnceGoesOn
    <2>3. Moves({}, Onward)
      BY <2>2 DEF Moves, ArchFields, Shared
    <2>4. I!In
      BY <1>2, <1>6, <2>3, IsaIn DEF AtStep, AtEdge
    <2> QED  BY <2>2, <2>4 DEF Executed
  <1> QED  BY <1>5, <1>6
\* The ways an output port sets one register.
LEMMA PortEnds ==
    ASSUME AtStep, cpu.op \in OneStepOps, Idle, NEW f \in {"offset", "sound1", "sound2", "shift"}, OneStep({f})
    PROVE  Moves({f}, Onward) /\ arch'[f] = cpu'[f] /\ (Executed => Good)
  <1>1. {f} \in SUBSET (Results \ {"func", "pc"})
    BY DEF Results, Shared
  <1>2. /\ ArchType' /\ arch'.pc = Onward /\ \A g \in Shared : arch'[g] = cpu'[g]
        /\ \A g \in Shared \ ({f} \cup {"pc"}) : arch'[g] = arch[g]
        /\ arch'.ram = arch.ram /\ arch'.ie = arch.ie
        /\ Executed => Good
    BY <1>1, OnceGoesOn
  <1> QED  BY <1>2 DEF Moves, ArchFields, Shared

LEMMA GoodOut == ASSUME AtStep, DoOut PROVE Good
  <1> DEFINE a == cpu.reg["A"]
  <1>1. /\ Executes({\hD3}) /\ Idle
        /\ \/ cpu.b2 = 6 /\ OneStep({})
           \/ cpu.b2 = 2 /\ OneStep({"offset"}) /\ cpu'.offset = a % 8
           \/ cpu.b2 = 3 /\ OneStep({"sound1"}) /\ cpu'.sound1 = a
           \/ cpu.b2 = 4 /\ OneStep({"shift"}) /\ cpu'.shift = a * 256 + cpu.shift \div 256
           \/ cpu.b2 = 5 /\ OneStep({"sound2"}) /\ cpu'.sound2 = a
           \/ cpu.b2 \notin 2..6 /\ Only({"opcode_unk"}) /\ cpu'.opcode_unk = TRUE
    BY DoOutEffect DEF AtStep, AtEdge, TypeInv
  <1>2. cpu.op = Op /\ cpu.op = \hD3 /\ cpu.b2 = Imm
    BY <1>1, Operands
  <1>3. cpu.op \in OneStepOps
    BY <1>2 DEF OneStepOps
  <1>4. cpu.reg = arch.reg /\ cpu.shift = arch.shift
    BY <1>3, BeginsOnce, AgreesAll
  <1>5. ASSUME Imm = 6, OneStep({}) PROVE Good
    <2>1. {} \in SUBSET (Results \ {"func", "pc"})
      OBVIOUS
    <2>2. /\ ArchType' /\ arch'.pc = Onward
          /\ \A f \in Shared \ ({} \cup {"pc"}) : arch'[f] = arch[f]
          /\ arch'.ram = arch.ram /\ arch'.ie = arch.ie
          /\ Executed => Good
      BY <1>1, <1>3, <1>5, <2>1, OnceGoesOn
    <2>3. Moves({}, Onward)
      BY <2>2 DEF Moves, ArchFields, Shared
    <2>4. I!Out
      BY <1>2, <1>5, <2>3, IsaOut DEF AtStep, AtEdge
    <2> QED  BY <2>2, <2>4 DEF Executed
  <1>6. ASSUME Imm = 2, OneStep({"offset"}), cpu'.offset = a % 8 PROVE Good
    <2>1. Moves({"offset"}, Onward) /\ arch'.offset = cpu'.offset /\ (Executed => Good)
      BY <1>1, <1>3, <1>6, PortEnds
    <2>2. I!Out
      BY <1>2, <1>4, <1>6, <2>1, IsaOut DEF AtStep, AtEdge
    <2> QED  BY <2>1, <2>2 DEF Executed
  <1>7. ASSUME Imm = 3, OneStep({"sound1"}), cpu'.sound1 = a PROVE Good
    <2>1. Moves({"sound1"}, Onward) /\ arch'.sound1 = cpu'.sound1 /\ (Executed => Good)
      BY <1>1, <1>3, <1>7, PortEnds
    <2>2. I!Out
      BY <1>2, <1>4, <1>7, <2>1, IsaOut DEF AtStep, AtEdge
    <2> QED  BY <2>1, <2>2 DEF Executed
  <1>8. ASSUME Imm = 4, OneStep({"shift"}), cpu'.shift = a * 256 + cpu.shift \div 256 PROVE Good
    <2>1. Moves({"shift"}, Onward) /\ arch'.shift = cpu'.shift /\ (Executed => Good)
      BY <1>1, <1>3, <1>8, PortEnds
    <2>2. I!Out
      BY <1>2, <1>4, <1>8, <2>1, IsaOut DEF AtStep, AtEdge
    <2> QED  BY <2>1, <2>2 DEF Executed
  <1>9. ASSUME Imm = 5, OneStep({"sound2"}), cpu'.sound2 = a PROVE Good
    <2>1. Moves({"sound2"}, Onward) /\ arch'.sound2 = cpu'.sound2 /\ (Executed => Good)
      BY <1>1, <1>3, <1>9, PortEnds
    <2>2. I!Out
      BY <1>2, <1>4, <1>9, <2>1, IsaOut DEF AtStep, AtEdge
    <2> QED  BY <2>1, <2>2 DEF Executed
  <1>10. ASSUME Only({"opcode_unk"}), cpu'.opcode_unk = TRUE PROVE Good
    BY <1>10, GoodStop DEF AtStep
  <1> QED  BY <1>1, <1>2, <1>5, <1>6, <1>7, <1>8, <1>9, <1>10

\* An opcode of state 2: its flags.
LEMMA GoodSetFlags == ASSUME AtEdge, EarlyDone, SetFlags PROVE Good
  <1> DEFINE e == Early(Op, arch.reg, arch.flag)
             F == {"flag"} \cup {"state", "pc"}
  <1>1. /\ Idle /\ OneStep({"flag"}) /\ cpu'.flag = SZP(cpu.flag, cpu.tmp)
    BY SetFlagsEffect DEF AtEdge, TypeInv
  <1>2. /\ cpu.op = Op /\ Op \in EARLY /\ cpu.func = 0 /\ Dry /\ Agrees({"reg", "flag"})
        /\ cpu.reg = e.reg /\ cpu.tmp = e.tmp /\ cpu.flag = [arch.flag EXCEPT !.carry = e.carry]
    BY DEF EarlyDone
  <1>3. F \in SUBSET Results
    BY DEF Results, Shared
  <1>4. Only(F) /\ cpu'.state = 0 /\ cpu'.pc = Past
    BY <1>1 DEF OneStep
  <1>5. "int_enabled" \notin F /\ "func" \notin F
    OBVIOUS
  <1> HIDE DEF F
  <1>6. /\ ArchType' /\ \A f \in Shared : arch'[f] = cpu'[f]
        /\ arch'.ram = ram' /\ arch'.ie = arch.ie
        /\ \A f \in Shared \ ({"reg", "flag"} \cup F) : arch'[f] = arch[f]
        /\ \A f \in Shared \ F : arch'[f] = cpu[f]
        /\ cpu'.func = cpu.func
    BY <1>2, <1>3, <1>4, <1>5, EndStep
  <1>7. ram' = arch.ram /\ port'.wren = FALSE
    BY <1>1, <1>2, Shows DEF AtEdge, Idle, Dry, TypeInv, BusType
  <1>8. Past = Onward
    BY <1>2 DEF Past, Onward, Agrees, Shared
  <1>9. Moves({"reg", "flag"}, Onward)
    BY <1>4, <1>6, <1>7, <1>8 DEF Moves, ArchFields, Shared, F
  <1>10. arch'.reg = cpu.reg /\ arch'.flag = cpu'.flag
    BY <1>6 DEF Shared, F
  <1>11. I!Arithmetic
    BY <1>1, <1>2, <1>9, <1>10, IsaEarly DEF AtEdge
  <1>12. Executed
    BY <1>11 DEF Executed
  <1> QED  BY <1>2, <1>3, <1>4, <1>6, <1>7, <1>12, GoodEnd
----------------------------------------------------------------------------
(* Steps of longer opcodes, and their ends. *)

\* What a step that is no write does with the port.
LEMMA DryPort ==
    ASSUME AtStep, Dry
    PROVE  BusType /\ ~port.wren /\ Memories /\ ram' = arch.ram
  <1>1. Memories
    BY DEF AtStep, AtEdge
  <1> QED  BY <1>1, Shows DEF Dry, AtStep, AtEdge, TypeInv
LEMMA Quietly == ASSUME AtStep, Dry, Idle PROVE port' = port /\ port'.wren = FALSE /\ ram' = arch.ram
  BY DryPort DEF BusType, Idle
LEMMA Reads ==
    ASSUME AtStep, Dry, NEW a, Read(a) PROVE port'.wren = FALSE /\ port'.addr = a % 32768 /\ ram' = arch.ram
  <1>1. port'.wren = port.wren /\ port'.addr = a % 32768
    BY DryPort DEF BusType, Read
  <1> QED  BY <1>1, DryPort DEF BusType
LEMMA RomReads ==
    ASSUME AtStep, Dry, NEW a, ReadRom(a) PROVE port'.wren = FALSE /\ port'.raddr = a % 8192 /\ ram' = arch.ram
  <1>1. port'.wren = port.wren /\ port'.raddr = a % 8192
    BY DryPort DEF BusType, ReadRom
  <1> QED  BY <1>1, DryPort DEF BusType

LEMMA Released == ASSUME AtStep, Release PROVE port'.wren = FALSE
  BY DEF BusType, Release, AtStep, AtEdge, TypeInv

\* A step that writes nothing, with nothing on its way to the RAM.
LEMMA DryStep ==
    ASSUME AtStep, NEW F, Agrees(F), Dry, NEW G \in SUBSET Work, NextStep(G), port'.wren = FALSE
    PROVE  /\ arch' = arch /\ cpu'.op = cpu.op /\ cpu'.func = cpu.func + 1 /\ Dry'
           /\ \A f \in Shared \ (F \cup G) : cpu'[f] = arch'[f]
           /\ Op' = Op /\ Imm' = Imm /\ First' = First /\ Second' = Second /\ Low' = Low /\ High' = High
           /\ Source' = Source /\ (FromRom' <=> FromRom) /\ AluI' = AluI /\ AluM' = AluM
           /\ Sought => Shown' = First
           /\ Sought2 => Shown' = Second
           /\ LowAsked => q' = Low
           /\ HighAsked => q' = High
  <1>1. /\ arch' = arch /\ cpu'.op = cpu.op /\ cpu'.func = cpu.func + 1
        /\ \A f \in Shared \ G : cpu'[f] = cpu[f]
    BY StayStep
  <1>2. TypeInv /\ ArchWidths /\ Memories
    BY DEF AtStep, AtEdge
  <1>3. ram' = arch.ram
    BY <1>2, Shows
  <1>4. Dry'
    BY <1>1, <1>3 DEF Dry
  <1>5. \A f \in Shared \ (F \cup G) : cpu'[f] = arch'[f]
    BY <1>1 DEF Agrees
  <1>6. /\ Op' = Op /\ Imm' = Imm /\ First' = First /\ Second' = Second /\ Low' = Low /\ High' = High
        /\ Source' = Source /\ (FromRom' <=> FromRom) /\ AluI' = AluI /\ AluM' = AluM
    BY <1>1, <1>2, Stay
  <1>7. /\ Sought => Shown' = First
        /\ Sought2 => Shown' = Second
        /\ LowAsked => q' = Low
        /\ HighAsked => q' = High
    BY <1>1, <1>2, Arrive
  <1> QED  BY <1>1, <1>4, <1>5, <1>6, <1>7

\* The registers an opcode may set in its last step.
Last == Shared \cup {"can_debug"}

LEMMA JumpEnds ==
    ASSUME AtStep, NEW F, Agrees(F), NEW G \in SUBSET Last, NEW t, JumpStep(G, t), port'.wren = FALSE
    PROVE  /\ ArchType' /\ arch'.pc = t
           /\ \A f \in G \ {"pc"} : f \in Shared => arch'[f] = cpu'[f]
           /\ \A f \in Shared \ (F \cup G \cup {"pc"}) : arch'[f] = arch[f]
           /\ \A f \in Shared \ (G \cup {"pc"}) : arch'[f] = cpu[f]
           /\ arch'.ie = arch.ie /\ arch'.ram = ram'
           /\ Executed => Good
  <1> DEFINE H == G \cup {"state", "pc", "func"}
  <1>1. AtEdge
    BY DEF AtStep
  <1>2. H \in SUBSET Results /\ "int_enabled" \notin H
    BY DEF Results, Shared, Last
  <1>3. Only(H) /\ cpu'.state = 0 /\ cpu'.func = 0 /\ cpu'.pc = t
    BY DEF JumpStep
  <1>4. /\ \A f \in Shared \ (F \cup H) : f \in Shared \ (F \cup G \cup {"pc"})
        /\ \A f \in Shared \ (F \cup G \cup {"pc"}) : f \in Shared \ (F \cup H)
        /\ \A f \in Shared \ (G \cup {"pc"}) : f \in Shared \ H
    BY DEF Shared
  <1> HIDE DEF H
  <1>5. /\ ArchType' /\ \A f \in Shared : arch'[f] = cpu'[f]
        /\ arch'.ram = ram' /\ arch'.ie = arch.ie
        /\ \A f \in Shared \ (F \cup H) : arch'[f] = arch[f]
        /\ \A f \in Shared \ H : arch'[f] = cpu[f]
    BY <1>1, <1>2, <1>3, EndStep
  <1>6. arch'.pc = t
    BY <1>3, <1>5 DEF Shared
  <1>7. Executed => Good
    BY <1>1, <1>2, <1>3, GoodEnd
  <1> QED  BY <1>4, <1>5, <1>6, <1>7

LEMMA LastEnds ==
    ASSUME AtStep, NEW F, Agrees(F), "pc" \notin F, NEW G \in SUBSET Last, LastStep(G), port'.wren = FALSE
    PROVE  /\ ArchType' /\ arch'.pc = Onward
           /\ \A f \in G \ {"pc"} : f \in Shared => arch'[f] = cpu'[f]
           /\ \A f \in Shared \ (F \cup G \cup {"pc"}) : arch'[f] = arch[f]
           /\ \A f \in Shared \ (G \cup {"pc"}) : arch'[f] = cpu[f]
           /\ arch'.ie = arch.ie /\ arch'.ram = ram'
           /\ Executed => Good
  <1>1. Past = Onward
    BY Begins DEF Past, Onward, Agrees, Shared
  <1>2. JumpStep(G, Onward)
    BY <1>1 DEF LastStep, JumpStep
  <1> QED  BY <1>2, JumpEnds

LEMMA GoodIncDec == ASSUME AtStep, DoIncDec PROVE Good
  <1>1. /\ Executes(INR \cup DCR) /\ Idle
        /\ IF cpu.func = 0
             THEN /\ NextStep({"reg"})
                  /\ cpu'.reg = [cpu.reg EXCEPT ![Dst(cpu.op)] = Stepped(cpu.op, cpu.reg[Dst(cpu.op)])]
             ELSE LastStep({"flag"}) /\ cpu'.flag = SZP(cpu.flag, cpu.reg[Dst(cpu.op)])
    BY DoIncDecEffect DEF AtStep, AtEdge, TypeInv
  <1>2. cpu.op = Op /\ cpu.op \in INR \cup DCR /\ cpu.state = Bytes(Op) + 2
    BY <1>1, Operands
  <1>3. ASSUME cpu.func = 0 PROVE Good
    <2>1. Agrees({}) /\ Dry /\ cpu.reg = arch.reg
      BY <1>2, <1>3, Begins, Apart, AgreesAll
    <2>2. port'.wren = FALSE
      BY <1>1, <2>1, Quietly
    <2>3. {"reg"} \in SUBSET Work /\ NextStep({"reg"})
      BY <1>1, <1>3 DEF Work
    <2>4. /\ arch' = arch /\ cpu'.op = cpu.op /\ cpu'.func = cpu.func + 1 /\ Dry'
          /\ \A f \in Shared \ ({} \cup {"reg"}) : cpu'[f] = arch'[f]
          /\ Op' = Op
      BY <2>1, <2>2, <2>3, DryStep
    <2>5. MidIncDec'
      BY <1>1, <1>2, <1>3, <2>1, <2>4 DEF MidIncDec, Agrees
    <2>6. Between'
      BY <2>5 DEF Between
    <2> QED  BY <1>2, <2>3, <2>6, GoodStay
  <1>4. ASSUME cpu.func # 0 PROVE Good
    <2>1. MidIncDec
      BY <1>2, <1>4, Begins, Mids
    <2> DEFINE x == Stepped(Op, arch.reg[Dst(Op)])
    <2>2. Agrees({"reg"}) /\ Dry /\ cpu.reg = [arch.reg EXCEPT ![Dst(Op)] = x] /\ cpu.flag = arch.flag
      BY <2>1 DEF MidIncDec, Agrees, Shared
    <2>3. port'.wren = FALSE /\ ram' = arch.ram
      BY <1>1, <2>2, Quietly
    <2>4. LastStep({"flag"}) /\ {"flag"} \in SUBSET Last
      BY <1>1, <1>4 DEF Last, Shared
    <2>5. /\ ArchType' /\ arch'.pc = Onward
          /\ \A f \in {"flag"} \ {"pc"} : f \in Shared => arch'[f] = cpu'[f]
          /\ \A f \in Shared \ ({"reg"} \cup {"flag"} \cup {"pc"}) : arch'[f] = arch[f]
          /\ \A f \in Shared \ ({"flag"} \cup {"pc"}) : arch'[f] = cpu[f]
          /\ arch'.ie = arch.ie /\ arch'.ram = ram'
          /\ Executed => Good
      BY <2>2, <2>3, <2>4, LastEnds
    <2>6. Moves({"reg", "flag"}, Onward) /\ arch'.reg = cpu.reg /\ arch'.flag = cpu'.flag
      BY <2>3, <2>5 DEF Moves, ArchFields, Shared
    <2>7. cpu.reg[Dst(Op)] = x
      <3>1. Dst(Op) \in Registers /\ DOMAIN arch.reg = Registers
        BY <1>2, DstType DEF AtStep, AtEdge, ArchWidths
      <3> HIDE DEF x
      <3> QED  BY <2>2, <3>1
    <2>8. arch'.flag = SZP(arch.flag, x)
      BY <1>1, <1>2, <1>4, <2>2, <2>6, <2>7
    <2>9. I!Arithmetic
      BY <1>2, <2>2, <2>6, <2>8, IsaIncDec DEF AtStep, AtEdge
    <2> QED  BY <2>5, <2>9 DEF Executed
  <1> QED  BY <1>3, <1>4
\* The rows of the logical operations, which clear the carry.
LEMMA LogicCarry ==
    ASSUME NEW op \in Byte, Row(op) > 3, Row(op) # 7, NEW a, NEW x, NEW c
    PROVE  Arith(op, a, x, c).carry = 0
  <1>1. Row(op) \in 0..7
    BY DEF Row, Byte
  <1>2. Row(op) \in {4, 5, 6}
    BY <1>1
  <1> QED  BY <1>2 DEF Arith

LEMMA SameCarry ==
    ASSUME NEW f \in Flags, NEW x, NEW y
    PROVE  /\ [[f EXCEPT !.carry = x] EXCEPT !.carry = y] = [f EXCEPT !.carry = y]
           /\ [f EXCEPT !.carry = f.carry] = f
  BY DEF Flags

LEMMA AluIBegins ==
    ASSUME AtStep, DoAluI, cpu.func = 0 PROVE Good
  <1>1. /\ Executes(ALU_I) /\ Idle
        /\ LET e == Arith(cpu.op, cpu.reg["A"], cpu.b2, cpu.flag.carry)
           IN  IF Row(cpu.op) = 7
                 THEN NextStep({"tmp"}) /\ cpu'.tmp = e.val
                 ELSE /\ NextStep({"reg", "flag"}) /\ cpu'.reg = [cpu.reg EXCEPT !["A"] = e.val]
                      /\ cpu'.flag = [cpu.flag EXCEPT !.carry = IF Row(cpu.op) > 3 THEN cpu.flag.carry ELSE e.carry]
    BY DoAluIEffect DEF AtStep, AtEdge, TypeInv
  <1>2. cpu.op = Op /\ cpu.op \in ALU_I /\ cpu.state = Bytes(Op) + 2 /\ cpu.b2 = Imm
    BY <1>1, Operands
  <1>3. Agrees({}) /\ Dry
    BY <1>2, Begins, Apart
  <1>4. cpu.reg = arch.reg /\ cpu.flag = arch.flag
    BY <1>3, AgreesAll
  <1>5. AluI = Arith(cpu.op, cpu.reg["A"], cpu.b2, cpu.flag.carry)
    BY <1>2, <1>4 DEF AluI
  <1>6. port'.wren = FALSE
    BY <1>1, <1>3, Quietly
  <1>7. ASSUME Row(Op) = 7 PROVE Good
    <2>1. {"tmp"} \in SUBSET Work /\ NextStep({"tmp"}) /\ cpu'.tmp = AluI.val
      BY <1>1, <1>2, <1>5, <1>7 DEF Work
    <2>2. /\ cpu'.op = cpu.op /\ cpu'.func = cpu.func + 1 /\ Dry'
          /\ \A f \in Shared \ ({} \cup {"tmp"}) : cpu'[f] = arch'[f]
          /\ Op' = Op /\ AluI' = AluI
      BY <1>3, <1>6, <2>1, DryStep
    <2>3. Agrees({})'
      BY <2>2 DEF Agrees, Shared
    <2>4. MidAluI'
      BY <1>2, <1>7, <2>1, <2>2, <2>3 DEF MidAluI
    <2>5. Between'
      BY <2>4 DEF Between
    <2> QED  BY <1>2, <2>1, <2>5, GoodStay
  <1>8. ASSUME Row(Op) # 7 PROVE Good
    <2>1. /\ {"reg", "flag"} \in SUBSET Work /\ NextStep({"reg", "flag"})
          /\ cpu'.reg = [arch.reg EXCEPT !["A"] = AluI.val]
          /\ cpu'.flag = [arch.flag EXCEPT !.carry = IF Row(Op) > 3 THEN arch.flag.carry ELSE AluI.carry]
      BY <1>1, <1>2, <1>4, <1>5, <1>8 DEF Work
    <2>2. /\ cpu'.op = cpu.op /\ cpu'.func = cpu.func + 1 /\ Dry' /\ arch' = arch
          /\ \A f \in Shared \ ({} \cup {"reg", "flag"}) : cpu'[f] = arch'[f]
          /\ Op' = Op /\ AluI' = AluI
      BY <1>3, <1>6, <2>1, DryStep, ZenonT(60)
    <2>3. Agrees({"reg", "flag"})'
      BY <2>2 DEF Agrees, Shared
    <2>4. MidAluI'
      BY <1>2, <1>8, <2>1, <2>2, <2>3 DEF MidAluI
    <2>5. Between'
      BY <2>4 DEF Between
    <2> QED  BY <1>2, <2>1, <2>5, GoodStay
  <1> QED  BY <1>7, <1>8

LEMMA AluIEnds ==
    ASSUME AtStep, DoAluI, cpu.func # 0 PROVE Good
  <1> DEFINE e == Arith(cpu.op, cpu.reg["A"], cpu.b2, cpu.flag.carry)
             g == IF Row(cpu.op) = 7
                    THEN SZP([cpu.flag EXCEPT !.carry = e.carry], cpu.tmp)
                    ELSE SZP(IF Row(cpu.op) > 3 THEN [cpu.flag EXCEPT !.carry = 0] ELSE cpu.flag, cpu.reg["A"])
             F == IF Row(Op) = 7 THEN {} ELSE {"reg", "flag"}
             r == Accumulate(Op, arch.reg, arch.flag, Imm)
             z == SZP([arch.flag EXCEPT !.carry = AluI.carry], AluI.val)
  <1>1. Executes(ALU_I) /\ Idle /\ LastStep({"flag"}) /\ cpu'.flag = g
    BY DoAluIEffect DEF AtStep, AtEdge, TypeInv
  <1>2. cpu.op = Op /\ cpu.op \in ALU_I /\ cpu.b2 = Imm
    BY <1>1, Operands
  <1>3. MidAluI
    BY <1>2, Begins, Mids
  <1>4. Op \in Byte /\ arch.flag \in Flags /\ arch.reg \in [Registers -> Byte]
    BY ReadTypes DEF AtStep, AtEdge, ArchWidths
  <1>5. Op \notin LOGIC \cup {\hA6, \hB6}
    BY <1>2 DEF ALU_I, LOGIC
  <1>6. r.flag = z /\ r.reg = IF Row(Op) = 7 THEN arch.reg ELSE [arch.reg EXCEPT !["A"] = AluI.val]
    <2>1. AluI = Arith(Op, arch.reg["A"], Imm, arch.flag.carry)
      BY DEF AluI
    <2>2. r.flag = z
      BY <1>5, <2>1 DEF Accumulate
    <2>3. r.reg = IF Row(Op) = 7 THEN arch.reg ELSE [arch.reg EXCEPT !["A"] = AluI.val]
      BY <2>1 DEF Accumulate
    <2> QED  BY <2>2, <2>3
  <1>7. Agrees(F) /\ Dry /\ cpu.reg = r.reg
    BY <1>3, <1>6, AgreesAll DEF MidAluI
  <1>8. g = z
    <2>1. CASE Row(Op) = 7
      <3>1. cpu.reg = arch.reg /\ cpu.flag = arch.flag /\ cpu.tmp = AluI.val
        BY <1>3, <2>1, AgreesAll DEF MidAluI
      <3>2. e = AluI
        BY <1>2, <3>1 DEF AluI
      <3> QED  BY <1>2, <2>1, <3>1, <3>2
    <2>2. CASE Row(Op) # 7
      <3>1. cpu.reg["A"] = AluI.val
        BY <1>4, <1>6, <1>7, <2>2 DEF Registers
      <3>2. CASE Row(Op) > 3
        <4>1. cpu.flag = arch.flag
          BY <1>3, <1>4, <2>2, <3>2, SameCarry DEF MidAluI
        <4>2. AluI.carry = 0
          BY <1>4, <2>2, <3>2, LogicCarry DEF AluI
        <4> QED  BY <1>2, <2>2, <3>1, <3>2, <4>1, <4>2
      <3>3. CASE ~(Row(Op) > 3)
        <4>1. cpu.flag = [arch.flag EXCEPT !.carry = AluI.carry]
          BY <1>3, <2>2, <3>3 DEF MidAluI
        <4> QED  BY <1>2, <2>2, <3>1, <3>3, <4>1
      <3> QED  BY <3>2, <3>3
    <2> QED  BY <2>1, <2>2
  <1>9. port'.wren = FALSE /\ ram' = arch.ram
    BY <1>1, <1>7, Quietly
  <1>10. {"flag"} \in SUBSET Last /\ "pc" \notin F
    BY DEF Last, Shared
  <1>12. \A f \in Shared \ {"reg", "flag", "pc"} : f \in Shared \ (F \cup {"flag"} \cup {"pc"})
    OBVIOUS
  <1> HIDE DEF F, g, z
  <1>13. /\ ArchType' /\ arch'.pc = Onward
         /\ \A f \in {"flag"} \ {"pc"} : f \in Shared => arch'[f] = cpu'[f]
         /\ \A f \in Shared \ (F \cup {"flag"} \cup {"pc"}) : arch'[f] = arch[f]
         /\ \A f \in Shared \ ({"flag"} \cup {"pc"}) : arch'[f] = cpu[f]
         /\ arch'.ie = arch.ie /\ arch'.ram = ram'
         /\ Executed => Good
    BY <1>1, <1>7, <1>9, <1>10, LastEnds
  <1>14. Moves({"reg", "flag"}, Onward) /\ arch'.reg = cpu.reg /\ arch'.flag = cpu'.flag
    BY <1>9, <1>12, <1>13 DEF Moves, ArchFields, Shared
  <1>15. arch'.reg = r.reg /\ arch'.flag = r.flag
    BY <1>1, <1>6, <1>7, <1>8, <1>14
  <1>16. I!Arithmetic
    BY <1>2, <1>14, <1>15, IsaAlu DEF AtStep, AtEdge
  <1> QED  BY <1>13, <1>16 DEF Executed

LEMMA GoodAluI == ASSUME AtStep, DoAluI PROVE Good
  BY AluIBegins, AluIEnds
----------------------------------------------------------------------------
(* Steps that write. *)

\* A byte on its way to place b.
LEMMA WriteMem ==
    ASSUME BusType, NEW b \in Int, NEW x \in Byte, Write(b, x)
    PROVE  port'.wren /\ Mem' = Stored(ram', b, x)
  <1>1. port'.wren /\ port'.addr = b % 32768 /\ port'.data = x
    BY DEF BusType, Write
  <1>2. x % 256 = x
    BY DEF Byte
  <1>3. (b % 32768) % 16384 = b % 16384
    BY Cuts
  <1> QED  BY <1>1, <1>2, <1>3 DEF Mem, Stored

\* The memory there will be: that of the beginning, or with the bytes written so far.
Holding(m) == (Dry /\ m = arch.ram) \/ Wet(m)

LEMMA HeldMem ==
    ASSUME Memories, ~cpu.opcode_unk, NEW m, Holding(m) PROVE ram' = m
  <1>1. Dry => ram' = arch.ram
    BY Shows
  <1>2. port.wren => ram' = Mem
    BY Soaks
  <1> QED  BY <1>1, <1>2 DEF Holding, Wet

LEMMA Held == ASSUME AtStep, NEW m, Holding(m) PROVE ram' = m
  BY HeldMem DEF AtStep, AtEdge

LEMMA WriteStep ==
    ASSUME AtStep, NEW F, Agrees(F), NEW G \in SUBSET Work, NextStep(G),
           NEW m, Holding(m), NEW b \in Int, NEW x \in Byte, Write(b, x)
    PROVE  /\ arch' = arch /\ cpu'.op = cpu.op /\ cpu'.func = cpu.func + 1
           /\ port'.wren /\ Mem' = Stored(m, b, x)
           /\ \A f \in Shared \ (F \cup G) : cpu'[f] = arch'[f]
           /\ Op' = Op /\ Imm' = Imm /\ Imm16' = Imm16 /\ Low' = Low /\ High' = High /\ First' = First
           /\ Below' = Below /\ After' = After
  <1>1. /\ arch' = arch /\ cpu'.op = cpu.op /\ cpu'.func = cpu.func + 1
        /\ \A f \in Shared \ G : cpu'[f] = cpu[f]
    BY StayStep
  <1>2. Memories /\ BusType
    BY DEF AtStep, AtEdge, TypeInv
  <1>3. ram' = m
    BY Held
  <1>4. port'.wren /\ Mem' = Stored(m, b, x)
    BY <1>2, <1>3, WriteMem
  <1>5. \A f \in Shared \ (F \cup G) : cpu'[f] = arch'[f]
    BY <1>1 DEF Agrees
  <1>6. /\ Op' = Op /\ Imm' = Imm /\ Imm16' = Imm16 /\ Low' = Low /\ High' = High /\ First' = First
        /\ Below' = Below /\ After' = After
    BY <1>1, <1>2, Stay
  <1> QED  BY <1>1, <1>4, <1>5, <1>6

\* Which bytes behind the opcode an address or a byte is taken from.
LEMMA StoreSame ==
    ASSUME NEW op, NEW r, NEW v, NEW w, NEW x, NEW y
    PROVE  /\ (op = \h32 => v = w) => StoreAddr(op, r, v) = StoreAddr(op, r, w)
           /\ (op = \h36 => x = y) => StoreByte(op, r, x) = StoreByte(op, r, y)
           /\ (op = \h3A => v = w) => LoadAddr(op, r, v) = LoadAddr(op, r, w)
  BY DEF StoreAddr, StoreByte, LoadAddr

LEMMA GoodStore == ASSUME AtStep, DoStore PROVE Good
  <1> DEFINE a == StoreAddr(Op, arch.reg, Imm16)
             x == StoreByte(Op, arch.reg, Imm)
  <1>1. /\ Executes(STORE)
        /\ IF cpu.func = 0
             THEN /\ Write(StoreAddr(cpu.op, cpu.reg, Operand), StoreByte(cpu.op, cpu.reg, cpu.b2))
                  /\ NextStep({})
             ELSE Release /\ LastStep({})
    BY DoStoreEffect DEF AtStep, AtEdge, TypeInv
  <1>2. /\ cpu.op = Op /\ cpu.op \in STORE /\ cpu.state = Bytes(Op) + 2
        /\ (cpu.op = \h32 => Operand = Imm16) /\ (cpu.op = \h36 => cpu.b2 = Imm)
    BY <1>1, Operands
  <1>3. ASSUME cpu.func = 0 PROVE Good
    <2>1. Agrees({}) /\ Dry /\ cpu.reg = arch.reg
      BY <1>2, <1>3, Begins, Apart, AgreesAll
    <2>2. a = StoreAddr(cpu.op, cpu.reg, Operand) /\ x = StoreByte(cpu.op, cpu.reg, cpu.b2)
      BY <1>2, <2>1, StoreSame
    <2>3. a \in Int /\ x \in Byte
      BY <1>2, <2>2, StoreTypes, Ranges DEF AtStep, AtEdge
    <2>4. Write(a, x) /\ NextStep({}) /\ {} \in SUBSET Work /\ Holding(arch.ram)
      BY <1>1, <1>3, <2>1, <2>2 DEF Holding
    <2> HIDE DEF a, x
    <2>5. /\ arch' = arch /\ cpu'.op = cpu.op /\ cpu'.func = cpu.func + 1
          /\ port'.wren /\ Mem' = Stored(arch.ram, a, x)
          /\ \A f \in Shared \ ({} \cup {}) : cpu'[f] = arch'[f]
          /\ Op' = Op /\ Imm' = Imm /\ Imm16' = Imm16
      BY <2>1, <2>3, <2>4, WriteStep
    <2>6. MidStore'
      BY <1>2, <1>3, <2>5 DEF MidStore, Agrees, Wet, a, x
    <2>7. Between'
      BY <2>6 DEF Between
    <2> QED  BY <1>2, <2>4, <2>7, GoodStay
  <1>4. ASSUME cpu.func # 0 PROVE Good
    <2>1. MidStore
      BY <1>2, <1>4, Begins, Mids
    <2>2. Agrees({}) /\ Holding(Stored(arch.ram, a, x))
      BY <2>1 DEF MidStore, Holding
    <2> HIDE DEF a, x
    <2>3. ram' = Stored(arch.ram, a, x)
      BY <2>2, Held
    <2>4. port'.wren = FALSE /\ LastStep({}) /\ {} \in SUBSET Last
      BY <1>1, <1>4, Released
    <2>5. /\ ArchType' /\ arch'.pc = Onward
          /\ \A f \in Shared \ ({} \cup {} \cup {"pc"}) : arch'[f] = arch[f]
          /\ arch'.ie = arch.ie /\ arch'.ram = ram'
          /\ Executed => Good
      BY <2>2, <2>4, LastEnds
    <2>6. Moves({"ram"}, Onward)
      BY <2>5 DEF Moves, ArchFields, Shared
    <2>7. I!Move
      BY <1>2, <2>3, <2>5, <2>6, IsaStore DEF AtStep, AtEdge, a, x
    <2> QED  BY <2>5, <2>7 DEF Executed
  <1> QED  BY <1>3, <1>4
----------------------------------------------------------------------------
(* The stack. *)

LEMMA StackPlaces ==
    ASSUME ArchWidths, NEW m, NEW x
    PROVE  /\ Stored(m, (arch.sp - 1) % 65536, x) = Stored(m, arch.sp - 1, x)
           /\ Stored(m, Below + 1, x) = Stored(m, arch.sp - 1, x)
  <1>1. arch.sp \in Int
    BY Ranges DEF ArchWidths
  <1>2. ((arch.sp - 1) % 65536) % 16384 = (arch.sp - 1) % 16384
    BY <1>1
  <1>3. (((arch.sp - 2) % 65536) + 1) % 16384 = (arch.sp - 1) % 16384
    BY <1>1
  <1> QED  BY <1>2, <1>3 DEF Stored, Below

\* A step of a push, and the memory there will be.
Pushing(hi, lo) ==
    \/ cpu.func = 0 /\ Dry /\ Write((cpu.sp - 1) % 65536, hi)
    \/ cpu.func = 1 /\ Stacking(hi, lo) /\ Write((cpu.sp - 2) % 65536, lo)

LEMMA PushMem ==
    ASSUME BusType, ArchWidths, Memories, ~cpu.opcode_unk, cpu.sp = arch.sp,
           NEW hi \in Byte, NEW lo \in Byte, Pushing(hi, lo)
    PROVE  /\ port'.wren
           /\ cpu.func = 0 => Mem' = Stored(arch.ram, arch.sp - 1, hi)
           /\ cpu.func = 1 => Mem' = StoredWord(arch.ram, Below, hi, lo)
  <1>1. (arch.sp - 1) % 65536 \in Int /\ (arch.sp - 2) % 65536 \in Int
    <2>1. arch.sp \in Int
      BY Ranges DEF ArchWidths
    <2> QED  BY <2>1
  <1>2. ASSUME cpu.func = 0
        PROVE  port'.wren /\ Mem' = Stored(arch.ram, arch.sp - 1, hi)
    <2>1. Holding(arch.ram) /\ Write((arch.sp - 1) % 65536, hi)
      BY <1>2 DEF Pushing, Holding
    <2>2. ram' = arch.ram
      BY <2>1, HeldMem
    <2>3. port'.wren /\ Mem' = Stored(ram', (arch.sp - 1) % 65536, hi)
      BY <1>1, <2>1, WriteMem
    <2> QED  BY <2>2, <2>3, StackPlaces
  <1>3. ASSUME cpu.func = 1
        PROVE  port'.wren /\ Mem' = StoredWord(arch.ram, Below, hi, lo)
    <2> DEFINE m == Stored(arch.ram, arch.sp - 1, hi)
    <2>1. Wet(m) /\ Write((arch.sp - 2) % 65536, lo)
      BY <1>3 DEF Pushing, Stacking
    <2> HIDE DEF m
    <2>2. ram' = m
      BY <2>1, HeldMem DEF Holding
    <2>3. port'.wren /\ Mem' = Stored(ram', (arch.sp - 2) % 65536, lo)
      BY <1>1, <2>1, WriteMem
    <2>4. m = Stored(arch.ram, Below + 1, hi)
      BY StackPlaces DEF m
    <2> QED  BY <2>2, <2>3, <2>4 DEF StoredWord, Below
  <1>4. cpu.func \in {0, 1}
    BY DEF Pushing
  <1> QED  BY <1>2, <1>3, <1>4

\* In front of the last step of a push the memory has both bytes.
LEMMA PushedMem ==
    ASSUME Memories, ~cpu.opcode_unk, NEW hi, NEW lo, Stacking(hi, lo), cpu.func > 1
    PROVE  ram' = StoredWord(arch.ram, Below, hi, lo)
  <1>1. Wet(StoredWord(arch.ram, Below, hi, lo))
    BY DEF Stacking
  <1> QED  BY <1>1, HeldMem DEF Holding

LEMMA PushStep ==
    ASSUME AtStep, NEW F, Agrees(F), "sp" \notin F, NextStep({}), NEW hi \in Byte, NEW lo \in Byte, Pushing(hi, lo)
    PROVE  /\ arch' = arch /\ cpu'.op = cpu.op /\ port'.wren
           /\ \/ cpu'.func = 1 /\ Mem' = Stored(arch.ram, arch.sp - 1, hi)
              \/ cpu'.func = 2 /\ Mem' = StoredWord(arch.ram, Below, hi, lo)
           /\ \A f \in Shared \ F : cpu'[f] = arch'[f]
           /\ Op' = Op /\ Below' = Below /\ After' = After
  <1>1. {} \in SUBSET Work
    OBVIOUS
  <1>2. /\ arch' = arch /\ cpu'.op = cpu.op /\ cpu'.func = cpu.func + 1
        /\ \A f \in Shared \ {} : cpu'[f] = cpu[f]
    BY <1>1, StayStep
  <1>3. Memories /\ BusType /\ ArchWidths /\ ~cpu.opcode_unk
    BY DEF AtStep, AtEdge, TypeInv
  <1>4. cpu.sp = arch.sp
    BY DEF Agrees, Shared
  <1>5. /\ port'.wren
        /\ cpu.func = 0 => Mem' = Stored(arch.ram, arch.sp - 1, hi)
        /\ cpu.func = 1 => Mem' = StoredWord(arch.ram, Below, hi, lo)
    BY <1>3, <1>4, PushMem
  <1>6. cpu.func = 0 \/ cpu.func = 1
    BY DEF Pushing
  <1>7. Op' = Op /\ Below' = Below /\ After' = After
    BY <1>2, <1>3, Stay
  <1> QED  BY <1>2, <1>5, <1>6, <1>7 DEF Agrees

LEMMA GoodPush == ASSUME AtStep, DoPush PROVE Good
  <1> DEFINE hi == PushHigh(Op, arch.reg)
             lo == PushLow(Op, arch.reg, arch.flag)
  <1>1. /\ Executes(PUSH)
        /\ \/ /\ cpu.func = 0 /\ Write((cpu.sp - 1) % 65536, PushHigh(cpu.op, cpu.reg)) /\ NextStep({})
           \/ /\ cpu.func = 1 /\ Write((cpu.sp - 2) % 65536, PushLow(cpu.op, cpu.reg, cpu.flag))
              /\ NextStep({})
           \/ cpu.func > 1 /\ Release /\ LastStep({"sp"}) /\ cpu'.sp = (cpu.sp - 2) % 65536
    BY DoPushEffect DEF AtStep, AtEdge, TypeInv
  <1>2. cpu.op = Op /\ cpu.op \in PUSH /\ cpu.state = Bytes(Op) + 2
    BY <1>1, Operands
  <1>3. cpu.func = 0 => Agrees({}) /\ Dry
    BY <1>2, Begins, Apart
  <1>4. cpu.func # 0 => Agrees({}) /\ Stacking(hi, lo)
    BY <1>2, Begins, Mids DEF MidPush
  <1>5. Agrees({}) /\ cpu.reg = arch.reg /\ cpu.flag = arch.flag /\ cpu.sp = arch.sp
    BY <1>3, <1>4, AgreesAll
  <1>6. hi = PushHigh(cpu.op, cpu.reg) /\ lo = PushLow(cpu.op, cpu.reg, cpu.flag)
    BY <1>2, <1>5
  <1>7. hi \in Byte /\ lo \in Byte
    BY <1>2, <1>6, PushTypes DEF AtStep, AtEdge
  <1>8. ASSUME NextStep({}), Pushing(hi, lo) PROVE Good
    <2> HIDE DEF hi, lo
    <2>1. /\ arch' = arch /\ cpu'.op = cpu.op /\ port'.wren
          /\ \/ cpu'.func = 1 /\ Mem' = Stored(arch.ram, arch.sp - 1, hi)
             \/ cpu'.func = 2 /\ Mem' = StoredWord(arch.ram, Below, hi, lo)
          /\ \A f \in Shared \ {} : cpu'[f] = arch'[f]
          /\ Op' = Op /\ Below' = Below
      BY <1>5, <1>7, <1>8, PushStep
    <2>2. MidPush'
      BY <1>2, <2>1 DEF MidPush, Agrees, Stacking, Wet, hi, lo
    <2>3. Between' /\ {} \in SUBSET Work
      BY <2>2 DEF Between
    <2> QED  BY <1>2, <1>8, <2>3, GoodStay
  <1>9. ASSUME cpu.func > 1, Release, LastStep({"sp"}), cpu'.sp = (cpu.sp - 2) % 65536 PROVE Good
    <2> HIDE DEF hi, lo
    <2>1. ram' = StoredWord(arch.ram, Below, hi, lo)
      <3>1. Memories /\ ~cpu.opcode_unk
        BY DEF AtStep, AtEdge
      <3>2. cpu.func > 1 /\ Stacking(hi, lo)
        BY <1>4, <1>9
      <3> QED  BY <3>1, <3>2, PushedMem
    <2>2. port'.wren = FALSE /\ {"sp"} \in SUBSET Last /\ LastStep({"sp"})
      <3>1. Release /\ LastStep({"sp"})
        BY <1>9
      <3>2. port'.wren = FALSE
        BY <3>1, Released
      <3> QED  BY <3>1, <3>2 DEF Last, Shared
    <2>3. /\ ArchType' /\ arch'.pc = Onward
          /\ \A f \in {"sp"} \ {"pc"} : f \in Shared => arch'[f] = cpu'[f]
          /\ \A f \in Shared \ ({} \cup {"sp"} \cup {"pc"}) : arch'[f] = arch[f]
          /\ arch'.ie = arch.ie /\ arch'.ram = ram'
          /\ Executed => Good
      BY <1>5, <2>2, LastEnds, ZenonT(60)
    <2>4. Moves({"sp", "ram"}, Onward)
      BY <2>3 DEF Moves, ArchFields, Shared
    <2>5. arch'.sp = Below
      BY <1>5, <1>9, <2>3 DEF Below, Shared
    <2>6. I!Stack
      BY <1>2, <2>1, <2>3, <2>4, <2>5, IsaPush DEF AtStep, AtEdge, hi, lo
    <2> QED  BY <2>3, <2>6 DEF Executed
  <1>10. \/ NextStep({}) /\ Pushing(hi, lo)
         \/ cpu.func > 1 /\ Release /\ LastStep({"sp"}) /\ cpu'.sp = (cpu.sp - 2) % 65536
    BY <1>1, <1>3, <1>4, <1>6 DEF Pushing
  <1> QED  BY <1>8, <1>9, <1>10
LEMMA GoodCall == ASSUME AtStep, DoCall PROVE Good
  <1> DEFINE hi == After \div 256
             lo == After % 256
  <1>1. /\ Executes(CALL)
        /\ IF Holds(cpu.op, cpu.flag) \/ (cpu.op = \hD4 /\ cpu.func > 0)
             THEN \/ cpu.func = 0 /\ Write((cpu.sp - 1) % 65536, cpu.pc \div 256) /\ NextStep({})
                  \/ cpu.func = 1 /\ Write((cpu.sp - 2) % 65536, cpu.pc % 256) /\ NextStep({})
                  \/ /\ cpu.func > 1 /\ Release /\ JumpStep({"sp"}, Operand)
                     /\ cpu'.sp = (cpu.sp - 2) % 65536
             ELSE Idle /\ Only({"state"}) /\ cpu'.state = 0
    BY DoCallEffect DEF AtStep, AtEdge, TypeInv
  <1>2. cpu.op = Op /\ cpu.op \in CALL /\ cpu.state = Bytes(Op) + 2 /\ cpu.state = 5 /\ Operand = Imm16
    BY <1>1, Operands
  <1>3. cpu.func = 0 => Agrees({"pc"}) /\ cpu.pc = After /\ Dry
    BY <1>2, Begins
  <1>4. cpu.func # 0 => Agrees({"pc"}) /\ cpu.pc = After /\ Stacking(hi, lo) /\ Holds(Op, arch.flag)
    BY <1>2, Begins, Mids DEF MidCall
  <1>5. Agrees({"pc"}) /\ cpu.pc = After
    BY <1>3, <1>4
  <1>6. cpu.flag = arch.flag /\ cpu.sp = arch.sp
    BY <1>5 DEF Agrees, Shared
  <1>7. hi \in Byte /\ lo \in Byte
    <2>1. cpu.pc \in Addr
      BY RegsTypes DEF AtStep, AtEdge, TypeInv
    <2> QED  BY <1>5, <2>1, Halves
  <1>8. ASSUME NextStep({}), Pushing(hi, lo), Holds(Op, arch.flag) PROVE Good
    <2> HIDE DEF hi, lo
    <2>1. "sp" \notin {"pc"}
      OBVIOUS
    <2>2. /\ arch' = arch /\ cpu'.op = cpu.op /\ port'.wren
          /\ \/ cpu'.func = 1 /\ Mem' = Stored(arch.ram, arch.sp - 1, hi)
             \/ cpu'.func = 2 /\ Mem' = StoredWord(arch.ram, Below, hi, lo)
          /\ \A f \in Shared \ {"pc"} : cpu'[f] = arch'[f]
          /\ Op' = Op /\ Below' = Below /\ After' = After
      BY <1>5, <1>7, <1>8, <2>1, PushStep
    <2>3. cpu'.pc = cpu.pc
      <3>1. {} \in SUBSET Work
        OBVIOUS
      <3>2. \A f \in Shared \ {} : cpu'[f] = cpu[f]
        BY <1>8, <3>1, StayStep
      <3> QED  BY <3>2 DEF Shared
    <2>4. MidCall'
      BY <1>2, <1>5, <1>8, <2>2, <2>3 DEF MidCall, Agrees, Stacking, Wet, hi, lo
    <2>5. Between' /\ {} \in SUBSET Work
      BY <2>4 DEF Between
    <2> QED  BY <1>2, <1>8, <2>5, GoodStay
  <1>9. ASSUME cpu.func > 1, Release, JumpStep({"sp"}, Operand), cpu'.sp = (cpu.sp - 2) % 65536 PROVE Good
    <2> HIDE DEF hi, lo
    <2>1. ram' = StoredWord(arch.ram, Below, hi, lo)
      <3>1. Memories /\ ~cpu.opcode_unk
        BY DEF AtStep, AtEdge
      <3>2. cpu.func > 1 /\ Stacking(hi, lo)
        BY <1>4, <1>9
      <3> QED  BY <3>1, <3>2, PushedMem
    <2>2. port'.wren = FALSE /\ {"sp"} \in SUBSET Last /\ JumpStep({"sp"}, Imm16)
      <3>1. Release /\ JumpStep({"sp"}, Imm16)
        BY <1>2, <1>9
      <3>2. port'.wren = FALSE
        BY <3>1, Released
      <3> QED  BY <3>1, <3>2 DEF Last, Shared
    <2>3. /\ ArchType' /\ arch'.pc = Imm16
          /\ \A f \in {"sp"} \ {"pc"} : f \in Shared => arch'[f] = cpu'[f]
          /\ \A f \in Shared \ ({"pc"} \cup {"sp"} \cup {"pc"}) : arch'[f] = arch[f]
          /\ arch'.ie = arch.ie /\ arch'.ram = ram'
          /\ Executed => Good
      BY <1>5, <2>2, JumpEnds, ZenonT(60)
    <2>4. Moves({"sp", "ram"}, Imm16)
      BY <2>3 DEF Moves, ArchFields, Shared
    <2>5. arch'.sp = Below
      BY <1>6, <1>9, <2>3 DEF Below, Shared
    <2>6. Holds(Op, arch.flag)
      BY <1>4, <1>9
    <2>7. I!Branch
      BY <1>2, <2>1, <2>3, <2>4, <2>5, <2>6, IsaCall DEF AtStep, AtEdge, hi, lo, After
    <2> QED  BY <2>3, <2>7 DEF Executed
  <1>10. ASSUME Idle, Only({"state"}), cpu'.state = 0, cpu.func = 0, ~Holds(Op, arch.flag) PROVE Good
    <2>1. AtEdge /\ Dry /\ {"state"} \in SUBSET Results
      BY <1>3, <1>10 DEF AtStep, Results
    <2>2. /\ ArchType' /\ \A f \in Shared : arch'[f] = cpu'[f]
          /\ arch'.ram = ram' /\ arch'.ie = arch.ie
          /\ \A f \in Shared \ ({"pc"} \cup {"state"}) : arch'[f] = arch[f]
          /\ \A f \in Shared \ {"state"} : arch'[f] = cpu[f]
          /\ cpu'.func = cpu.func
      BY <1>5, <1>10, <2>1, EndStep
    <2>3. ram' = arch.ram /\ port'.wren = FALSE
      BY <1>10, <2>1, Quietly
    <2>4. Onward = After
      BY <1>2, Bytes23 DEF Onward, After
    <2>5. Moves({}, Onward)
      BY <1>5, <2>2, <2>3, <2>4 DEF Moves, ArchFields, Shared
    <2>6. I!Branch
      BY <1>2, <1>10, <2>5, IsaGoesOn DEF AtStep, AtEdge
    <2> QED  BY <1>5, <1>10, <2>1, <2>2, <2>3, <2>6, GoodEnd DEF Executed
  <1>11. CASE Holds(cpu.op, cpu.flag) \/ (cpu.op = \hD4 /\ cpu.func > 0)
    <2>1. Holds(Op, arch.flag)
      BY <1>2, <1>4, <1>6, <1>11
    <2>2. \/ NextStep({}) /\ Pushing(hi, lo)
          \/ cpu.func > 1 /\ Release /\ JumpStep({"sp"}, Operand) /\ cpu'.sp = (cpu.sp - 2) % 65536
      BY <1>1, <1>3, <1>4, <1>5, <1>11 DEF Pushing
    <2> QED  BY <1>8, <1>9, <2>1, <2>2
  <1>12. CASE ~(Holds(cpu.op, cpu.flag) \/ (cpu.op = \hD4 /\ cpu.func > 0))
    <2>1. ~Holds(Op, arch.flag) /\ cpu.func = 0
      BY <1>2, <1>4, <1>6, <1>12
    <2> QED  BY <1>1, <1>10, <1>12, <2>1
  <1> QED  BY <1>11, <1>12

\* Bytes put in different places, in either order.
LEMMA PutOrder ==
    ASSUME NEW m, NEW i, NEW j, i # j, NEW x, NEW y
    PROVE  Put(Put(m, i, x), j, y) = Put(Put(m, j, y), i, x)
  <1>1. DOMAIN m \cup {i} \cup {j} = DOMAIN m \cup {j} \cup {i}
    OBVIOUS
  <1> QED  BY <1>1 DEF Put

LEMMA WordOrder ==
    ASSUME NEW m, NEW a \in Int, NEW hi, NEW lo
    PROVE  Stored(Stored(m, a, lo), (a + 1) % 65536, hi) = StoredWord(m, a, hi, lo)
  <1> DEFINE i == a % 16384
             j == (a + 1) % 16384
  <1>1. i # j /\ a + 1 \in Int
    OBVIOUS
  <1>2. Stored(Stored(m, a, lo), (a + 1) % 65536, hi) = Stored(Stored(m, a, lo), a + 1, hi)
    BY <1>1, SameStore
  <1> HIDE DEF i, j
  <1>3. Put(Put(m, i, lo % 256), j, hi % 256) = Put(Put(m, j, hi % 256), i, lo % 256)
    BY <1>1, PutOrder
  <1> QED  BY <1>2, <1>3 DEF Stored, StoredWord, i, j

LEMMA GoodShld == ASSUME AtStep, DoShld PROVE Good
  <1> DEFINE hi == arch.reg["H"]
             lo == arch.reg["L"]
  <1>1. /\ Executes({\h22})
        /\ \/ cpu.func = 0 /\ Write(Operand, cpu.reg["L"]) /\ NextStep({})
           \/ cpu.func = 1 /\ Write((Operand + 1) % 65536, cpu.reg["H"]) /\ NextStep({})
           \/ cpu.func > 1 /\ Release /\ LastStep({})
    BY DoShldEffect DEF AtStep, AtEdge, TypeInv
  <1>2. cpu.op = Op /\ cpu.op = \h22 /\ cpu.state = Bytes(Op) + 2 /\ Operand = Imm16
    BY <1>1, Operands
  <1>3. cpu.func = 0 => Agrees({}) /\ Dry
    BY <1>2, Begins, Apart
  <1>4. cpu.func # 0 => MidShld
    BY <1>2, Begins, Mids
  <1>5. Agrees({}) /\ hi = cpu.reg["H"] /\ lo = cpu.reg["L"]
    BY <1>3, <1>4, AgreesAll DEF MidShld
  <1>6. hi \in Byte /\ lo \in Byte /\ Imm16 \in Int /\ (Imm16 + 1) % 65536 \in Int
    BY <1>2, <1>5, PlaceTypes DEF AtStep, AtEdge
  <1>7. {} \in SUBSET Work /\ {} \in SUBSET Last
    OBVIOUS
  <1>8. ASSUME NEW m, Holding(m), NEW b \in Int, NEW x \in Byte, Write(b, x), NextStep({}), MidShld' PROVE Good
    BY <1>2, <1>7, <1>8, GoodStay DEF Between
  <1>9. ASSUME cpu.func = 0, Write(Imm16, lo), NextStep({}) PROVE Good
    <2>1. Holding(arch.ram)
      BY <1>3, <1>9 DEF Holding
    <2>2. /\ arch' = arch /\ cpu'.op = cpu.op /\ cpu'.func = cpu.func + 1
          /\ port'.wren /\ Mem' = Stored(arch.ram, Imm16, lo)
          /\ \A f \in Shared \ ({} \cup {}) : cpu'[f] = arch'[f]
          /\ Op' = Op /\ Imm16' = Imm16
      BY <1>5, <1>6, <1>7, <1>9, <2>1, WriteStep
    <2>3. MidShld'
      BY <1>2, <1>9, <2>2 DEF MidShld, Agrees, Wet
    <2> QED  BY <1>6, <1>8, <1>9, <2>1, <2>3
  <1>10. ASSUME cpu.func = 1, Write((Imm16 + 1) % 65536, hi), NextStep({}) PROVE Good
    <2> DEFINE m == Stored(arch.ram, Imm16, lo)
               b == (Imm16 + 1) % 65536
    <2>1. Holding(m)
      BY <1>4, <1>10 DEF Holding, MidShld
    <2> HIDE DEF m
    <2>2. /\ arch' = arch /\ cpu'.op = cpu.op /\ cpu'.func = cpu.func + 1
          /\ port'.wren /\ Mem' = Stored(m, b, hi)
          /\ \A f \in Shared \ ({} \cup {}) : cpu'[f] = arch'[f]
          /\ Op' = Op /\ Imm16' = Imm16
      <3> HIDE DEF b
      <3>1. b \in Int /\ Write(b, hi)
        BY <1>6, <1>10 DEF b
      <3> QED  BY <1>5, <1>6, <1>7, <1>10, <2>1, <3>1, WriteStep
    <2>3. Stored(m, b, hi) = StoredWord(arch.ram, Imm16, hi, lo)
      <3> HIDE DEF hi, lo
      <3> QED  BY <1>6, WordOrder DEF m
    <2>4. MidShld'
      BY <1>2, <1>10, <2>2, <2>3 DEF MidShld, Agrees, Wet
    <2> QED  BY <1>6, <1>8, <1>10, <2>1, <2>4
  <1>11. ASSUME cpu.func > 1, Release, LastStep({}) PROVE Good
    <2> DEFINE m == StoredWord(arch.ram, Imm16, hi, lo)
    <2>1. Holding(m)
      BY <1>4, <1>11 DEF Holding, MidShld
    <2> HIDE DEF m
    <2>2. ram' = m
      BY <2>1, Held
    <2>3. port'.wren = FALSE
      BY <1>11, Released
    <2>4. /\ ArchType' /\ arch'.pc = Onward
          /\ \A f \in Shared \ ({} \cup {} \cup {"pc"}) : arch'[f] = arch[f]
          /\ arch'.ie = arch.ie /\ arch'.ram = ram'
          /\ Executed => Good
      BY <1>5, <1>7, <1>11, <2>3, LastEnds
    <2>5. Moves({"ram"}, Onward)
      BY <2>4 DEF Moves, ArchFields, Shared
    <2>6. I!Move
      BY <1>2, <2>2, <2>4, <2>5, IsaShld DEF AtStep, AtEdge, m
    <2> QED  BY <2>4, <2>6 DEF Executed
  <1> QED  BY <1>1, <1>2, <1>5, <1>9, <1>10, <1>11

----------------------------------------------------------------------------
(* Steps that read. *)

\* A memory is asked for the byte at Source, or for the next one.
LEMMA LookFirst ==
    ASSUME AtStep, Dry, cpu.op = Op, Look(cpu.op, Source, Source), Source' = Source, FromRom' <=> FromRom
    PROVE  port'.wren = FALSE /\ Sought'
  <1>1. ASSUME FromRom PROVE port'.wren = FALSE /\ Sought'
    <2>1. ReadRom(Source)
      BY <1>1 DEF Look, FromRom
    <2>2. port'.wren = port.wren /\ port'.raddr = Source % 8192
      BY <2>1, DryPort DEF BusType, ReadRom
    <2>3. port'.wren = FALSE
      BY <2>2, DryPort DEF BusType
    <2>4. Sought'
      BY <1>1, <2>2 DEF Sought
    <2> QED  BY <2>3, <2>4
  <1>2. ASSUME ~FromRom PROVE port'.wren = FALSE /\ Sought'
    <2>1. Read(Source)
      BY <1>2 DEF Look, FromRom
    <2>2. port'.wren = port.wren /\ port'.addr = Source % 32768
      BY <2>1, DryPort DEF BusType, Read
    <2>3. port'.wren = FALSE
      BY <2>2, DryPort DEF BusType
    <2>4. Sought'
      BY <1>2, <2>2 DEF Sought
    <2> QED  BY <2>3, <2>4
  <1> QED  BY <1>1, <1>2

Beside == (Source + 1) % 65536
LEMMA LookSecond ==
    ASSUME AtStep, Dry, cpu.op = Op, Look(cpu.op, Source, Beside), Source' = Source, FromRom' <=> FromRom
    PROVE  port'.wren = FALSE /\ Sought2'
  <1>1. ASSUME FromRom PROVE port'.wren = FALSE /\ Sought2'
    <2>1. ReadRom(Beside)
      BY <1>1 DEF Look, FromRom
    <2>2. port'.wren = port.wren /\ port'.raddr = Beside % 8192
      BY <2>1, DryPort DEF BusType, ReadRom
    <2>3. port'.wren = FALSE
      BY <2>2, DryPort DEF BusType
    <2>4. Sought2'
      BY <1>1, <2>2 DEF Sought2, Beside
    <2> QED  BY <2>3, <2>4
  <1>2. ASSUME ~FromRom PROVE port'.wren = FALSE /\ Sought2'
    <2>1. Read(Beside)
      BY <1>2 DEF Look, FromRom
    <2>2. port'.wren = port.wren /\ port'.addr = Beside % 32768
      BY <2>1, DryPort DEF BusType, Read
    <2>3. port'.wren = FALSE
      BY <2>2, DryPort DEF BusType
    <2>4. Sought2'
      BY <1>2, <2>2 DEF Sought2, Beside
    <2> QED  BY <2>3, <2>4
  <1> QED  BY <1>1, <1>2

\* The byte that was asked for.
LEMMA GotShown == ASSUME cpu.op = Op PROVE Got(cpu.op, Source) = Shown
  BY DEF Got, Shown, FromRom

LEMMA GoodLoad == ASSUME AtStep, DoLoad PROVE Good
  <1> DEFINE a == LoadAddr(cpu.op, cpu.reg, Operand)
  <1>1. /\ Executes(LOAD)
        /\ \/ cpu.func = 0 /\ Look(cpu.op, a, a) /\ NextStep({})
           \/ cpu.func = 1 /\ Idle /\ NextStep({})
           \/ /\ cpu.func > 1 /\ Idle /\ LastStep({"reg"})
              /\ cpu'.reg = [cpu.reg EXCEPT ![LoadReg(cpu.op)] = Got(cpu.op, a)]
    BY DoLoadEffect DEF AtStep, AtEdge, TypeInv
  <1>2. cpu.op = Op /\ cpu.op \in LOAD /\ cpu.state = Bytes(Op) + 2 /\ (cpu.op = \h3A => Operand = Imm16)
    BY <1>1, Operands
  <1>3. cpu.func = 0 => Agrees({}) /\ Dry
    BY <1>2, Begins, Apart
  <1>4. cpu.func # 0 => MidLoad
    BY <1>2, Begins, Mids
  <1>5. Agrees({}) /\ Dry /\ cpu.reg = arch.reg
    BY <1>3, <1>4, AgreesAll DEF MidLoad
  <1>6. a = Source
    BY <1>2, <1>5, StoreSame DEF Source
  <1> HIDE DEF a
  <1>7. {} \in SUBSET Work /\ {"reg"} \in SUBSET Last
    BY DEF Last, Shared
  <1>8. ASSUME NextStep({}), port'.wren = FALSE, MidLoad' PROVE Good
    BY <1>2, <1>7, <1>8, GoodStay DEF Between
  <1>9. ASSUME NextStep({})
        PROVE  Source' = Source /\ (FromRom' <=> FromRom) /\ Op' = Op
    BY <1>7, <1>9, StayStep, Stay DEF AtStep, AtEdge
  <1>10. ASSUME cpu.func = 0, Look(cpu.op, Source, Source), NextStep({}) PROVE Good
    <2>1. port'.wren = FALSE /\ Sought'
      BY <1>2, <1>5, <1>9, <1>10, LookFirst
    <2>2. /\ cpu'.op = cpu.op /\ cpu'.func = cpu.func + 1 /\ Dry'
          /\ \A f \in Shared \ ({} \cup {}) : cpu'[f] = arch'[f]
      BY <1>5, <1>7, <1>10, <2>1, DryStep
    <2>3. MidLoad'
      BY <1>2, <1>10, <2>1, <2>2 DEF MidLoad, Agrees
    <2> QED  BY <1>8, <1>10, <2>1, <2>3
  <1>11. ASSUME cpu.func = 1, Idle, NextStep({}) PROVE Good
    <2>1. port'.wren = FALSE
      BY <1>5, <1>11, Quietly
    <2>2. Sought
      BY <1>4, <1>11 DEF MidLoad
    <2>3. /\ cpu'.op = cpu.op /\ cpu'.func = cpu.func + 1 /\ Dry'
          /\ \A f \in Shared \ ({} \cup {}) : cpu'[f] = arch'[f]
          /\ First' = First /\ (Sought => Shown' = First)
      BY <1>5, <1>7, <1>11, <2>1, DryStep
    <2>4. Shown' = First'
      BY <2>2, <2>3
    <2>5. MidLoad'
      BY <1>2, <1>11, <2>3, <2>4 DEF MidLoad, Agrees
    <2> QED  BY <1>8, <1>11, <2>1, <2>5
  <1>12. ASSUME cpu.func > 1, Idle, LastStep({"reg"}),
                cpu'.reg = [cpu.reg EXCEPT ![LoadReg(cpu.op)] = Got(cpu.op, Source)]
         PROVE  Good
    <2>1. Shown = First
      BY <1>4, <1>12 DEF MidLoad
    <2>2. port'.wren = FALSE /\ ram' = arch.ram
      BY <1>5, <1>12, Quietly
    <2>3. /\ ArchType' /\ arch'.pc = Onward
          /\ \A f \in {"reg"} \ {"pc"} : f \in Shared => arch'[f] = cpu'[f]
          /\ \A f \in Shared \ ({} \cup {"reg"} \cup {"pc"}) : arch'[f] = arch[f]
          /\ arch'.ie = arch.ie /\ arch'.ram = ram'
          /\ Executed => Good
      BY <1>5, <1>7, <1>12, <2>2, LastEnds, ZenonT(60)
    <2>4. Moves({"reg"}, Onward) /\ arch'.reg = cpu'.reg
      BY <2>2, <2>3 DEF Moves, ArchFields, Shared
    <2>5. First = Seen(Op, LoadAddr(Op, arch.reg, Imm16))
      BY <1>2 DEF First, FromRom, Source, Seen
    <2>6. Got(cpu.op, Source) = First
      BY <1>2, <2>1, GotShown
    <2>7. arch'.reg = [arch.reg EXCEPT ![LoadReg(Op)] = Seen(Op, LoadAddr(Op, arch.reg, Imm16))]
      BY <1>2, <1>5, <1>12, <2>4, <2>5, <2>6
    <2>8. I!Move
      BY <1>2, <2>4, <2>7, IsaLoad DEF AtStep, AtEdge
    <2> QED  BY <2>3, <2>8 DEF Executed
  <1> QED  BY <1>1, <1>6, <1>10, <1>11, <1>12

LEMMA AluMTurns ==
    /\ Row(\hBE) = 7 /\ Row(\h86) = 0 /\ Row(\hA6) = 4 /\ Row(\hB6) = 6
    /\ \A op \in ALU_M : op \notin LOGIC /\ op \notin ALU_I /\ op \notin LOAD /\ op # \h2A
    /\ ALU_M = {\h86, \hA6, \hB6, \hBE}
  BY DEF Row, ALU_M, LOGIC, ALU_I, LOAD, FROM_M

LEMMA AluMBegins == ASSUME AtStep, DoAluM, cpu.func \in {0, 1} PROVE Good
  <1> DEFINE a == HL(cpu.reg)
  <1>1. /\ Executes(ALU_M)
        /\ \/ cpu.func = 0 /\ Look(cpu.op, a, a) /\ NextStep({})
           \/ cpu.func = 1 /\ Idle /\ NextStep({})
    BY DoAluMEffect DEF AtStep, AtEdge, TypeInv
  <1>2. cpu.op = Op /\ cpu.op \in ALU_M /\ cpu.state = Bytes(Op) + 2
    BY <1>1, Operands
  <1>3. cpu.func = 0 => Agrees({}) /\ Dry
    BY <1>2, Begins, Apart
  <1>4. cpu.func # 0 => MidAluM
    BY <1>2, Begins, Mids
  <1>5. cpu.func = 1 => Agrees({}) /\ Dry /\ Sought
    BY <1>4 DEF MidAluM
  <1>6. Agrees({}) /\ Dry /\ cpu.reg = arch.reg
    BY <1>1, <1>3, <1>5, AgreesAll
  <1>7. a = Source
    BY <1>2, <1>6, AluMTurns DEF Source
  <1> HIDE DEF a
  <1>8. {} \in SUBSET Work
    OBVIOUS
  <1>9. ASSUME NextStep({}), MidAluM' PROVE Good
    BY <1>2, <1>8, <1>9, GoodStay DEF Between
  <1>10. NextStep({}) => Source' = Source /\ (FromRom' <=> FromRom)
    BY <1>8, StayStep, Stay DEF AtStep, AtEdge
  <1>11. ASSUME cpu.func = 0, Look(cpu.op, Source, Source), NextStep({}) PROVE Good
    <2>1. port'.wren = FALSE /\ Sought'
      BY <1>2, <1>6, <1>10, <1>11, LookFirst
    <2>2. /\ cpu'.op = cpu.op /\ cpu'.func = cpu.func + 1 /\ Dry'
          /\ \A f \in Shared \ ({} \cup {}) : cpu'[f] = arch'[f]
      BY <1>6, <1>8, <1>11, <2>1, DryStep
    <2>3. MidAluM'
      BY <1>2, <1>11, <2>1, <2>2 DEF MidAluM, Agrees
    <2> QED  BY <1>9, <1>11, <2>3
  <1>12. ASSUME cpu.func = 1, Idle, NextStep({}) PROVE Good
    <2>1. port'.wren = FALSE
      BY <1>6, <1>12, Quietly
    <2>2. /\ cpu'.op = cpu.op /\ cpu'.func = cpu.func + 1 /\ Dry'
          /\ \A f \in Shared \ ({} \cup {}) : cpu'[f] = arch'[f]
          /\ First' = First /\ (Sought => Shown' = First)
      BY <1>6, <1>8, <1>12, <2>1, DryStep
    <2>3. Shown' = First'
      BY <1>5, <1>12, <2>2
    <2>4. MidAluM'
      BY <1>2, <1>12, <2>2, <2>3 DEF MidAluM, Agrees
    <2> QED  BY <1>9, <1>12, <2>4
  <1> QED  BY <1>1, <1>7, <1>11, <1>12

LEMMA AluMResult == ASSUME AtStep, DoAluM, cpu.func = 2 PROVE Good
  <1> DEFINE a == HL(cpu.reg)
             e == Arith(cpu.op, cpu.reg["A"], Got(cpu.op, a), cpu.flag.carry)
             logic == cpu.op \in {\hA6, \hB6}
  <1>1. /\ Executes(ALU_M) /\ Idle
        /\ IF cpu.op = \hBE
             THEN /\ NextStep({"tmp", "flag"}) /\ cpu'.tmp = e.val
                  /\ cpu'.flag = [cpu.flag EXCEPT !.carry = e.carry]
             ELSE /\ NextStep({"reg", "flag"})
                  /\ cpu'.reg = [cpu.reg EXCEPT !["A"] = e.val]
                  /\ cpu'.flag = [cpu.flag EXCEPT !.carry = IF logic THEN cpu.flag.carry ELSE e.carry]
    BY DoAluMEffect DEF AtStep, AtEdge, TypeInv
  <1>2. cpu.op = Op /\ cpu.op \in ALU_M /\ cpu.state = Bytes(Op) + 2
    BY <1>1, Operands
  <1>3. MidAluM
    BY <1>2, Begins, Mids
  <1>4. Agrees({}) /\ Dry /\ Shown = First
    BY <1>3 DEF MidAluM
  <1>5. cpu.reg = arch.reg /\ cpu.flag = arch.flag
    BY <1>4, AgreesAll
  <1>6. a = Source
    BY <1>2, <1>5, AluMTurns DEF Source
  <1>7. e = AluM
    <2>1. Got(cpu.op, a) = First
      BY <1>2, <1>4, <1>6, GotShown
    <2> HIDE DEF a
    <2> QED  BY <1>2, <1>5, <2>1 DEF AluM
  <1> HIDE DEF a, e
  <1>8. port'.wren = FALSE
    BY <1>1, <1>4, Quietly
  <1>9. ASSUME Op = \hBE PROVE Good
    <2>1. /\ {"tmp", "flag"} \in SUBSET Work /\ NextStep({"tmp", "flag"})
          /\ cpu'.tmp = AluM.val /\ cpu'.flag = [arch.flag EXCEPT !.carry = AluM.carry]
      BY <1>1, <1>2, <1>5, <1>7, <1>9 DEF Work
    <2>2. /\ cpu'.op = cpu.op /\ cpu'.func = cpu.func + 1 /\ Dry' /\ arch' = arch
          /\ \A f \in Shared \ ({} \cup {"tmp", "flag"}) : cpu'[f] = arch'[f]
          /\ Op' = Op /\ AluM' = AluM
      BY <1>4, <1>8, <2>1, DryStep, ZenonT(60)
    <2>3. Agrees({"flag"})'
      BY <2>2 DEF Agrees, Shared
    <2>4. MidAluM'
      BY <1>2, <1>9, <2>1, <2>2, <2>3 DEF MidAluM
    <2>5. Between'
      BY <2>4 DEF Between
    <2> QED  BY <1>2, <2>1, <2>5, GoodStay
  <1>10. ASSUME Op # \hBE PROVE Good
    <2>1. /\ {"reg", "flag"} \in SUBSET Work /\ NextStep({"reg", "flag"})
          /\ cpu'.reg = [arch.reg EXCEPT !["A"] = AluM.val]
          /\ cpu'.flag = [arch.flag EXCEPT !.carry = IF Op \in {\hA6, \hB6} THEN arch.flag.carry ELSE AluM.carry]
      BY <1>1, <1>2, <1>5, <1>7, <1>10 DEF Work
    <2>2. /\ cpu'.op = cpu.op /\ cpu'.func = cpu.func + 1 /\ Dry' /\ arch' = arch
          /\ \A f \in Shared \ ({} \cup {"reg", "flag"}) : cpu'[f] = arch'[f]
          /\ Op' = Op /\ AluM' = AluM
      <3>1. {"reg", "flag"} \in SUBSET Work /\ NextStep({"reg", "flag"})
        BY <2>1
      <3> QED  BY <1>4, <1>8, <3>1, DryStep
    <2>3. Agrees({"reg", "flag"})'
      BY <2>2 DEF Agrees, Shared
    <2>4. MidAluM'
      BY <1>2, <1>10, <2>1, <2>2, <2>3 DEF MidAluM
    <2>5. Between'
      BY <2>4 DEF Between
    <2> QED  BY <1>2, <2>1, <2>5, GoodStay
  <1> QED  BY <1>9, <1>10

LEMMA AluMEnds == ASSUME AtStep, DoAluM, cpu.func \notin {0, 1, 2} PROVE Good
  <1> DEFINE v == IF cpu.op = \hBE THEN cpu.tmp ELSE cpu.reg["A"]
             logic == cpu.op \in {\hA6, \hB6}
             g == IF logic THEN [SZP(cpu.flag, v) EXCEPT !.ac = 0, !.carry = 0] ELSE SZP(cpu.flag, v)
             F == IF Op = \hBE THEN {"flag"} ELSE {"reg", "flag"}
             r == Accumulate(Op, arch.reg, arch.flag, First)
             c == [arch.flag EXCEPT !.carry = AluM.carry]
  <1>1. Executes(ALU_M) /\ Idle /\ LastStep({"flag"}) /\ cpu'.flag = g
    BY DoAluMEffect DEF AtStep, AtEdge, TypeInv
  <1>2. cpu.op = Op /\ cpu.op \in ALU_M
    BY <1>1, Operands
  <1>3. cpu.func # 0
    OBVIOUS
  <1>4. MidAluM
    BY <1>2, <1>3, Begins, Mids
  <1>5. /\ Dry
        /\ \/ /\ Op = \hBE /\ Agrees({"flag"}) /\ cpu.tmp = AluM.val /\ cpu.flag = c
           \/ /\ Op # \hBE /\ Agrees({"reg", "flag"}) /\ cpu.reg = [arch.reg EXCEPT !["A"] = AluM.val]
              /\ cpu.flag = [arch.flag EXCEPT !.carry = IF Op \in {\hA6, \hB6} THEN arch.flag.carry ELSE AluM.carry]
    BY <1>4 DEF MidAluM
  <1>6. Op \in Byte /\ arch.flag \in Flags /\ arch.reg \in [Registers -> Byte]
    BY ReadTypes DEF AtStep, AtEdge, ArchWidths
  <1>7. AluM = Arith(Op, arch.reg["A"], First, arch.flag.carry)
    BY DEF AluM
  <1>8. /\ r.reg = IF Row(Op) = 7 THEN arch.reg ELSE [arch.reg EXCEPT !["A"] = AluM.val]
        /\ r.flag = IF Op \in LOGIC \cup {\hA6, \hB6} THEN [SZP(c, AluM.val) EXCEPT !.ac = 0] ELSE SZP(c, AluM.val)
    BY <1>7 DEF Accumulate
  <1>9. Op \notin LOGIC /\ (Op = \hBE <=> Row(Op) = 7)
    BY <1>2, AluMTurns
  <1>10. Agrees(F) /\ cpu.reg = r.reg
    BY <1>5, <1>8, <1>9 DEF Agrees, Shared
  <1>11. v = AluM.val
    <2>1. CASE Op = \hBE
      BY <1>2, <1>5, <2>1
    <2>2. CASE Op # \hBE
      <3>1. cpu.reg = [arch.reg EXCEPT !["A"] = AluM.val] /\ v = cpu.reg["A"]
        BY <1>2, <1>5, <2>2
      <3> QED  BY <1>6, <3>1 DEF Registers
    <2> QED  BY <2>1, <2>2
  <1>12. g = r.flag
    <2>1. CASE Op \in {\hA6, \hB6}
      <3>1. Op # \hBE
        BY <2>1
      <3>2. cpu.flag = arch.flag
        BY <1>5, <1>6, <2>1, <3>1, SameCarry, ZenonT(60)
      <3>3. AluM.carry = 0
        <4>1. Row(Op) > 3 /\ Row(Op) # 7
          BY <2>1, AluMTurns
        <4> QED  BY <1>6, <1>7, <4>1, LogicCarry
      <3>4. r.flag = [SZP([arch.flag EXCEPT !.carry = 0], AluM.val) EXCEPT !.ac = 0]
        BY <1>8, <2>1, <3>3
      <3>5. g = [SZP(arch.flag, AluM.val) EXCEPT !.ac = 0, !.carry = 0]
        <4>1. logic
          BY <1>2, <2>1
        <4>2. g = [SZP(cpu.flag, v) EXCEPT !.ac = 0, !.carry = 0]
          <5> HIDE DEF v, logic
          <5> QED  BY <4>1
        <4> HIDE DEF v, g
        <4> QED  BY <1>11, <3>2, <4>2
      <3>6. [SZP(arch.flag, AluM.val) EXCEPT !.ac = 0, !.carry = 0]
              = [SZP([arch.flag EXCEPT !.carry = 0], AluM.val) EXCEPT !.ac = 0]
        <4> HIDE DEF v, g, r, c
        <4> QED  BY <1>6, ZenonT(60) DEF SZP, Flags
      <3> HIDE DEF g, r
      <3> QED  BY <3>4, <3>5, <3>6
    <2>2. CASE Op \notin {\hA6, \hB6}
      <3>1. cpu.flag = c
        BY <1>5, <2>2
      <3>2. r.flag = SZP(c, AluM.val)
        BY <1>8, <1>9, <2>2
      <3> HIDE DEF v, c
      <3> QED  BY <1>2, <1>11, <2>2, <3>1, <3>2
    <2> QED  BY <2>1, <2>2
  <1>13. port'.wren = FALSE /\ ram' = arch.ram
    BY <1>1, <1>5, Quietly
  <1>14. {"flag"} \in SUBSET Last /\ "pc" \notin F
    BY DEF Last, Shared
  <1>15. \A f \in Shared \ {"reg", "flag", "pc"} : f \in Shared \ (F \cup {"flag"} \cup {"pc"})
    OBVIOUS
  <1> HIDE DEF F, g, r
  <1>16. /\ ArchType' /\ arch'.pc = Onward
         /\ \A f \in {"flag"} \ {"pc"} : f \in Shared => arch'[f] = cpu'[f]
         /\ \A f \in Shared \ (F \cup {"flag"} \cup {"pc"}) : arch'[f] = arch[f]
         /\ \A f \in Shared \ ({"flag"} \cup {"pc"}) : arch'[f] = cpu[f]
         /\ arch'.ie = arch.ie /\ arch'.ram = ram'
         /\ Executed => Good
    BY <1>1, <1>10, <1>14, <1>13, LastEnds
  <1>17. Moves({"reg", "flag"}, Onward) /\ arch'.reg = cpu.reg /\ arch'.flag = cpu'.flag
    BY <1>13, <1>15, <1>16 DEF Moves, ArchFields, Shared
  <1>18. arch'.reg = r.reg /\ arch'.flag = r.flag
    BY <1>1, <1>10, <1>12, <1>17
  <1>19. First = Seen(Op, HL(arch.reg)) /\ Op \notin ALU_I
    BY <1>2, AluMTurns DEF First, FromRom, Source, Seen
  <1>20. LET e == Accumulate(Op, arch.reg, arch.flag, IF Op \in ALU_I THEN Imm ELSE Seen(Op, HL(arch.reg)))
         IN  arch'.reg = e.reg /\ arch'.flag = e.flag
    BY <1>18, <1>19 DEF r
  <1>21. I!Arithmetic
    BY <1>2, <1>17, <1>20, IsaAlu DEF AtStep, AtEdge
  <1> QED  BY <1>16, <1>21 DEF Executed

LEMMA GoodAluM == ASSUME AtStep, DoAluM PROVE Good
  BY AluMBegins, AluMResult, AluMEnds

LEMMA StepMSource ==
    ASSUME Op \in STEP_M
    PROVE  ~FromRom /\ Source = HL(arch.reg) /\ First = Kept(HL(arch.reg)) /\ Shown = q
  <1>1. ~FromRom
    BY DEF FromRom, InRom, STEP_M, LOAD, FROM_M
  <1>2. Source = HL(arch.reg)
    BY DEF Source, STEP_M, LOAD, FROM_M
  <1> QED  BY <1>1, <1>2 DEF First, Shown

LEMMA GoodStepM == ASSUME AtStep, DoStepM PROVE Good
  <1> DEFINE x == Stepped(Op, First)
             m == Stored(arch.ram, HL(arch.reg), x)
  <1>1. /\ Executes(STEP_M)
        /\ \/ cpu.func = 0 /\ Read(HL(cpu.reg)) /\ NextStep({})
           \/ cpu.func = 1 /\ Idle /\ NextStep({})
           \/ /\ cpu.func = 2 /\ Write(HL(cpu.reg), Stepped(cpu.op, q)) /\ NextStep({"tmp"})
              /\ cpu'.tmp = Stepped(cpu.op, q)
           \/ /\ cpu.func > 2 /\ Release /\ LastStep({"flag"})
              /\ cpu'.flag = SZP(cpu.flag, cpu.tmp)
    BY DoStepMEffect DEF AtStep, AtEdge, TypeInv
  <1>2. cpu.op = Op /\ cpu.op \in STEP_M /\ cpu.state = Bytes(Op) + 2
    BY <1>1, Operands
  <1>3. cpu.func = 0 => Agrees({}) /\ Dry
    BY <1>2, Begins, Apart
  <1>4. cpu.func # 0 => MidStepM
    BY <1>2, Begins, Mids
  <1>5. Agrees({}) /\ cpu.reg = arch.reg /\ cpu.flag = arch.flag
    BY <1>3, <1>4, AgreesAll DEF MidStepM
  <1>6. ~FromRom /\ Source = HL(arch.reg) /\ First = Kept(HL(arch.reg)) /\ Shown = q
    BY <1>2, StepMSource
  <1>7. {} \in SUBSET Work /\ {"tmp"} \in SUBSET Work /\ {"flag"} \in SUBSET Last
    BY DEF Work, Last, Shared
  <1>8. ASSUME NEW G \in SUBSET Work, NextStep(G), MidStepM' PROVE Good
    BY <1>2, <1>8, GoodStay DEF Between
  <1>9. NextStep({}) => Source' = Source /\ (FromRom' <=> FromRom)
    BY <1>7, StayStep, Stay DEF AtStep, AtEdge
  <1>10. First \in Byte /\ x \in Byte /\ Source \in Int
    <2>1. Source \in Int /\ Op \in Byte
      BY SourceTypes, ReadTypes DEF AtStep, AtEdge
    <2>2. First \in Byte
      BY <1>6, <2>1, ReadTypes DEF AtStep, AtEdge
    <2> QED  BY <2>1, <2>2, SteppedType
  <1> HIDE DEF x, m
  <1>11. ASSUME cpu.func = 0, Read(Source), NextStep({}) PROVE Good
    <2>1. Look(cpu.op, Source, Source) /\ Dry
      BY <1>2, <1>3, <1>6, <1>11 DEF Look, FromRom
    <2>2. port'.wren = FALSE /\ Sought'
      BY <1>2, <1>9, <1>11, <2>1, LookFirst
    <2>3. /\ cpu'.op = cpu.op /\ cpu'.func = cpu.func + 1 /\ Dry'
          /\ \A f \in Shared \ ({} \cup {}) : cpu'[f] = arch'[f]
      BY <1>5, <1>7, <1>11, <2>1, <2>2, DryStep
    <2>4. MidStepM'
      BY <1>2, <1>11, <2>2, <2>3 DEF MidStepM, Agrees
    <2> QED  BY <1>7, <1>8, <1>11, <2>4
  <1>12. ASSUME cpu.func = 1, Idle, NextStep({}) PROVE Good
    <2>1. Dry /\ Sought
      BY <1>4, <1>12 DEF MidStepM
    <2>2. port'.wren = FALSE
      BY <1>12, <2>1, Quietly
    <2>3. /\ cpu'.op = cpu.op /\ cpu'.func = cpu.func + 1 /\ Dry'
          /\ \A f \in Shared \ ({} \cup {}) : cpu'[f] = arch'[f]
          /\ First' = First /\ (Sought => Shown' = First)
      BY <1>5, <1>7, <1>12, <2>1, <2>2, DryStep
    <2>4. Shown' = First'
      BY <2>1, <2>3
    <2>5. MidStepM'
      BY <1>2, <1>12, <2>3, <2>4 DEF MidStepM, Agrees
    <2> QED  BY <1>7, <1>8, <1>12, <2>5
  <1>13. ASSUME cpu.func = 2, Write(Source, x), NextStep({"tmp"}), cpu'.tmp = x PROVE Good
    <2>1. Holding(arch.ram)
      BY <1>4, <1>13 DEF Holding, MidStepM
    <2>2. /\ arch' = arch /\ cpu'.op = cpu.op /\ cpu'.func = cpu.func + 1
          /\ port'.wren /\ Mem' = Stored(arch.ram, Source, x)
          /\ \A f \in Shared \ ({} \cup {"tmp"}) : cpu'[f] = arch'[f]
          /\ Op' = Op /\ First' = First
      BY <1>5, <1>7, <1>10, <1>13, <2>1, WriteStep
    <2>3. Agrees({})'
      BY <2>2 DEF Agrees, Shared
    <2>4. cpu'.tmp = Stepped(Op', First')
      BY <1>13, <2>2 DEF x
    <2>5. Mem' = Stored(arch'.ram, HL(arch'.reg), Stepped(Op', First'))
      BY <1>6, <2>2 DEF x
    <2>6. MidStepM'
      BY <1>2, <1>13, <2>2, <2>3, <2>4, <2>5 DEF MidStepM, Wet
    <2> QED  BY <1>7, <1>8, <1>13, <2>6
  <1>14. ASSUME cpu.func > 2, Release, LastStep({"flag"}), cpu'.flag = SZP(cpu.flag, cpu.tmp) PROVE Good
    <2>1. Wet(m) /\ cpu.tmp = x
      BY <1>4, <1>14 DEF MidStepM, m, x
    <2>2. ram' = m
      BY <2>1, Held DEF Holding
    <2>3. port'.wren = FALSE
      BY <1>14, Released
    <2>4. /\ ArchType' /\ arch'.pc = Onward
          /\ \A f \in {"flag"} \ {"pc"} : f \in Shared => arch'[f] = cpu'[f]
          /\ \A f \in Shared \ ({} \cup {"flag"} \cup {"pc"}) : arch'[f] = arch[f]
          /\ arch'.ie = arch.ie /\ arch'.ram = ram'
          /\ Executed => Good
      BY <1>5, <1>7, <1>14, <2>3, LastEnds, ZenonT(60)
    <2>5. Moves({"ram", "flag"}, Onward) /\ arch'.flag = cpu'.flag
      BY <2>4 DEF Moves, ArchFields, Shared
    <2>6. arch'.flag = SZP(arch.flag, x)
      BY <1>5, <1>14, <2>1, <2>5
    <2>7. arch'.ram = Stored(arch.ram, HL(arch.reg), x) /\ x = Stepped(Op, Kept(HL(arch.reg)))
      BY <1>6, <2>2, <2>4 DEF m, x
    <2>8. I!Arithmetic
      BY <1>2, <2>5, <2>6, <2>7, IsaStepM DEF AtStep, AtEdge
    <2> QED  BY <2>4, <2>8 DEF Executed
  <1>15. Stepped(cpu.op, q) = x \/ cpu.func # 2
    BY <1>2, <1>4, <1>6 DEF MidStepM, x
  <1> QED  BY <1>1, <1>5, <1>6, <1>11, <1>12, <1>13, <1>14, <1>15

----------------------------------------------------------------------------
(* Steps that read the stack. *)

LEMMA ReadLow ==
    ASSUME AtStep, Dry, cpu.sp = arch.sp, arch' = arch, Read(cpu.sp)
    PROVE  port'.wren = FALSE /\ LowAsked'
  <1>1. port'.wren = port.wren /\ port'.addr = cpu.sp % 32768
    BY DryPort DEF BusType, Read
  <1>2. port'.wren = FALSE
    BY <1>1, DryPort DEF BusType
  <1> QED  BY <1>1, <1>2 DEF LowAsked

SpUp == (cpu.sp + 1) % 65536
LEMMA ReadHigh ==
    ASSUME AtStep, Dry, cpu.sp = arch.sp, arch' = arch, Read(SpUp)
    PROVE  port'.wren = FALSE /\ HighAsked'
  <1>1. port'.wren = port.wren /\ port'.addr = SpUp % 32768
    BY DryPort DEF BusType, Read
  <1>2. port'.wren = FALSE
    BY <1>1, DryPort DEF BusType
  <1> QED  BY <1>1, <1>2 DEF HighAsked, SpUp

\* The bytes on the stack, joined and taken apart.
LEMMA StackBytes ==
    ASSUME AtEdge
    PROVE  /\ Low \in Byte /\ High \in Byte
           /\ (High * 256 + Low) \div 256 = High /\ (High * 256 + Low) % 256 = Low
           /\ 256 * High + Low = High * 256 + Low
  <1>1. Low \in Byte /\ High \in Byte
    <2>1. arch.sp \in Int /\ \A a \in Int : Kept(a) \in Byte
      BY ReadTypes DEF AtEdge
    <2>2. arch.sp + 1 \in Int
      BY <2>1
    <2> QED  BY <2>1, <2>2 DEF Low, High
  <1> QED  BY <1>1 DEF Byte

LEMMA PopPair ==
    ASSUME AtEdge, NEW p \in {<<"B", "C">>, <<"D", "E">>, <<"H", "L">>}
    PROVE  WithWord(arch.reg, p, High * 256 + Low) = [[arch.reg EXCEPT ![p[2]] = Low] EXCEPT ![p[1]] = High]
  <1>1. arch.reg \in [Registers -> Byte]
    BY DEF AtEdge, ArchWidths
  <1>2. p[1] # p[2]
    OBVIOUS
  <1>3. WithWord(arch.reg, p, High * 256 + Low) = [[arch.reg EXCEPT ![p[1]] = High] EXCEPT ![p[2]] = Low]
    BY StackBytes DEF WithWord
  <1>4. ASSUME NEW r \in [Registers -> Byte], NEW i, NEW j, i # j, NEW x, NEW y
        PROVE  [[r EXCEPT ![i] = x] EXCEPT ![j] = y] = [[r EXCEPT ![j] = y] EXCEPT ![i] = x]
    BY <1>4
  <1>5. [[arch.reg EXCEPT ![p[1]] = High] EXCEPT ![p[2]] = Low] = [[arch.reg EXCEPT ![p[2]] = Low] EXCEPT ![p[1]] = High]
    BY <1>1, <1>2, <1>4
  <1> QED  BY <1>3, <1>5

LEMMA PopBegins == ASSUME AtStep, DoPop, cpu.func \in {0, 1} PROVE Good
  <1>1. /\ Executes(POP) /\ NextStep({})
        /\ \/ cpu.func = 0 /\ Read(cpu.sp)
           \/ cpu.func = 1 /\ Read(SpUp)
    BY DoPopEffect DEF AtStep, AtEdge, TypeInv, SpUp
  <1>2. cpu.op = Op /\ cpu.op \in POP /\ cpu.state = Bytes(Op) + 2
    BY <1>1, Operands
  <1>3. cpu.func = 0 => Agrees({}) /\ Dry
    BY <1>2, Begins, Apart
  <1>4. cpu.func = 1 => Agrees({}) /\ Dry /\ LowAsked
    <2>1. cpu.func # 0 => MidPop
      BY <1>2, Begins, Mids
    <2> QED  BY <2>1 DEF MidPop
  <1>5. Agrees({}) /\ Dry /\ {} \in SUBSET Work
    BY <1>1, <1>3, <1>4
  <1>6. ASSUME port'.wren = FALSE, MidPop' PROVE Good
    BY <1>1, <1>2, <1>5, <1>6, GoodStay DEF Between
  <1>7. ASSUME port'.wren = FALSE
        PROVE  /\ cpu'.op = cpu.op /\ cpu'.func = cpu.func + 1 /\ Dry'
               /\ \A f \in Shared \ ({} \cup {}) : cpu'[f] = arch'[f]
               /\ Low' = Low /\ (LowAsked => q' = Low)
    BY <1>1, <1>5, <1>7, DryStep
  <1>8. arch' = arch /\ cpu.sp = arch.sp
    BY <1>1, <1>5, StayStep, AgreesAll
  <1>9. ASSUME cpu.func = 0, Read(cpu.sp) PROVE Good
    <2>1. port'.wren = FALSE /\ LowAsked'
      BY <1>5, <1>8, <1>9, ReadLow
    <2>2. /\ cpu'.op = cpu.op /\ cpu'.func = cpu.func + 1 /\ Dry'
          /\ \A f \in Shared \ ({} \cup {}) : cpu'[f] = arch'[f]
      BY <1>7, <2>1
    <2>3. MidPop'
      BY <1>2, <1>9, <2>1, <2>2 DEF MidPop, Agrees
    <2> QED  BY <1>6, <2>1, <2>3
  <1>10. ASSUME cpu.func = 1, Read(SpUp) PROVE Good
    <2>1. port'.wren = FALSE /\ HighAsked'
      BY <1>5, <1>8, <1>10, ReadHigh
    <2>2. /\ cpu'.op = cpu.op /\ cpu'.func = cpu.func + 1 /\ Dry'
          /\ \A f \in Shared \ ({} \cup {}) : cpu'[f] = arch'[f]
          /\ Low' = Low /\ (LowAsked => q' = Low)
      BY <1>7, <2>1
    <2>3. q' = Low'
      BY <1>4, <1>10, <2>2
    <2>4. MidPop'
      BY <1>2, <1>10, <2>1, <2>2, <2>3 DEF MidPop, Agrees
    <2> QED  BY <1>6, <2>1, <2>4
  <1> QED  BY <1>1, <1>9, <1>10

\* The low byte goes to its place.
LEMMA PopLow == ASSUME AtStep, DoPop, cpu.func = 2 PROVE Good
  <1>1. /\ Executes(POP) /\ Idle
        /\ IF cpu.op = \hF1
             THEN NextStep({"flag"}) /\ cpu'.flag = Unpacked(q)
             ELSE NextStep({"reg"}) /\ cpu'.reg = [cpu.reg EXCEPT ![Pair(cpu.op)[2]] = q]
    BY DoPopEffect DEF AtStep, AtEdge, TypeInv
  <1>2. cpu.op = Op /\ cpu.op \in POP /\ cpu.state = Bytes(Op) + 2
    BY <1>1, Operands
  <1>3. MidPop
    BY <1>2, Begins, Mids
  <1>4. Agrees({}) /\ Dry /\ q = Low /\ HighAsked
    BY <1>3 DEF MidPop
  <1>5. cpu.reg = arch.reg
    BY <1>4, AgreesAll
  <1>6. port'.wren = FALSE
    BY <1>1, <1>4, Quietly
  <1>7. ASSUME Op = \hF1 PROVE Good
    <2>1. {"flag"} \in SUBSET Work /\ NextStep({"flag"}) /\ cpu'.flag = Unpacked(Low)
      BY <1>1, <1>2, <1>4, <1>7 DEF Work
    <2>2. /\ cpu'.op = cpu.op /\ cpu'.func = cpu.func + 1 /\ Dry'
          /\ \A f \in Shared \ ({} \cup {"flag"}) : cpu'[f] = arch'[f]
          /\ Op' = Op /\ Low' = Low /\ High' = High /\ (HighAsked => q' = High)
      BY <1>4, <1>6, <2>1, DryStep
    <2>3. Agrees({"flag"})'
      BY <2>2 DEF Agrees, Shared
    <2>4. q' = High'
      BY <1>4, <2>2
    <2>5. MidPop'
      BY <1>2, <1>7, <2>1, <2>2, <2>3, <2>4 DEF MidPop
    <2>6. Between'
      BY <2>5 DEF Between
    <2> QED  BY <1>2, <2>1, <2>6, GoodStay
  <1>8. ASSUME Op # \hF1 PROVE Good
    <2>1. /\ {"reg"} \in SUBSET Work /\ NextStep({"reg"})
          /\ cpu'.reg = [arch.reg EXCEPT ![Pair(Op)[2]] = Low]
      BY <1>1, <1>2, <1>4, <1>5, <1>8 DEF Work
    <2>2. /\ cpu'.op = cpu.op /\ cpu'.func = cpu.func + 1 /\ Dry' /\ arch' = arch
          /\ \A f \in Shared \ ({} \cup {"reg"}) : cpu'[f] = arch'[f]
          /\ Op' = Op /\ Low' = Low /\ High' = High /\ (HighAsked => q' = High)
      <3>1. {"reg"} \in SUBSET Work /\ NextStep({"reg"})
        BY <2>1
      <3> QED  BY <1>4, <1>6, <3>1, DryStep
    <2>3. Agrees({"reg"})'
      BY <2>2 DEF Agrees, Shared
    <2>4. q' = High'
      BY <1>4, <2>2
    <2>5. MidPop'
      BY <1>2, <1>8, <2>1, <2>2, <2>3, <2>4 DEF MidPop
    <2>6. Between'
      BY <2>5 DEF Between
    <2> QED  BY <1>2, <2>1, <2>6, GoodStay
  <1> QED  BY <1>7, <1>8

\* And the high byte.
LEMMA PopHigh == ASSUME AtStep, DoPop, cpu.func = 3 PROVE Good
  <1>1. /\ Executes(POP) /\ Idle /\ NextStep({"reg"})
        /\ cpu'.reg = [cpu.reg EXCEPT ![IF cpu.op = \hF1 THEN "A" ELSE Pair(cpu.op)[1]] = q]
    BY DoPopEffect DEF AtStep, AtEdge, TypeInv
  <1>2. cpu.op = Op /\ cpu.op \in POP /\ cpu.state = Bytes(Op) + 2
    BY <1>1, Operands
  <1>3. MidPop
    BY <1>2, Begins, Mids
  <1>4. /\ Dry /\ q = High
        /\ IF Op = \hF1 THEN Agrees({"flag"}) /\ cpu.flag = Unpacked(Low)
           ELSE Agrees({"reg"}) /\ cpu.reg = [arch.reg EXCEPT ![Pair(Op)[2]] = Low]
    BY <1>2, <1>3 DEF MidPop
  <1>5. port'.wren = FALSE /\ {"reg"} \in SUBSET Work
    BY <1>1, <1>4, Quietly DEF Work
  <1>6. ASSUME Op = \hF1 PROVE Good
    <2>1. Agrees({"flag"}) /\ cpu.flag = Unpacked(Low) /\ cpu.reg = arch.reg
      BY <1>4, <1>6 DEF Agrees, Shared
    <2>2. cpu'.reg = [arch.reg EXCEPT !["A"] = High]
      BY <1>1, <1>2, <1>4, <1>6, <2>1
    <2>3. /\ cpu'.op = cpu.op /\ cpu'.func = cpu.func + 1 /\ Dry' /\ arch' = arch
          /\ \A f \in Shared \ ({"flag"} \cup {"reg"}) : cpu'[f] = arch'[f]
          /\ Op' = Op /\ Low' = Low /\ High' = High
      <3>1. NextStep({"reg"}) /\ Agrees({"flag"}) /\ Dry
        BY <1>1, <1>4, <2>1
      <3> QED  BY <1>5, <3>1, DryStep
    <2>4. Agrees({"reg", "flag"})'
      BY <2>3 DEF Agrees, Shared
    <2>5. cpu'.flag = cpu.flag
      BY <1>1, <1>5, StayStep DEF Shared
    <2>6. MidPop'
      BY <1>2, <1>6, <2>1, <2>2, <2>3, <2>4, <2>5 DEF MidPop
    <2>7. Between'
      BY <2>6 DEF Between
    <2> QED  BY <1>1, <1>2, <1>5, <2>7, GoodStay
  <1>7. ASSUME Op # \hF1 PROVE Good
    <2>1. Agrees({"reg"}) /\ cpu.reg = [arch.reg EXCEPT ![Pair(Op)[2]] = Low]
      BY <1>4, <1>7
    <2>2. cpu'.reg = [arch.reg EXCEPT ![Pair(Op)[2]] = Low, ![Pair(Op)[1]] = High]
      <3>1. cpu'.reg = [cpu.reg EXCEPT ![Pair(Op)[1]] = High]
        BY <1>1, <1>2, <1>4, <1>7
      <3> QED  BY <2>1, <3>1
    <2>3. /\ cpu'.op = cpu.op /\ cpu'.func = cpu.func + 1 /\ Dry' /\ arch' = arch
          /\ \A f \in Shared \ ({"reg"} \cup {"reg"}) : cpu'[f] = arch'[f]
          /\ Op' = Op /\ Low' = Low /\ High' = High
      <3>1. NextStep({"reg"}) /\ Agrees({"reg"}) /\ Dry
        BY <1>1, <1>4, <2>1
      <3> QED  BY <1>5, <3>1, DryStep
    <2>4. Agrees({"reg"})'
      BY <2>3 DEF Agrees
    <2>5. MidPop'
      BY <1>2, <1>7, <2>2, <2>3, <2>4 DEF MidPop
    <2>6. Between'
      BY <2>5 DEF Between
    <2> QED  BY <1>1, <1>2, <1>5, <2>6, GoodStay
  <1> QED  BY <1>6, <1>7

LEMMA PopEnds == ASSUME AtStep, DoPop, cpu.func \notin 0..3 PROVE Good
  <1>1. Executes(POP) /\ Idle /\ LastStep({"sp"}) /\ cpu'.sp = (cpu.sp + 2) % 65536
    BY DoPopEffect DEF AtStep, AtEdge, TypeInv
  <1>2. cpu.op = Op /\ cpu.op \in POP
    BY <1>1, Operands
  <1>3. cpu.func # 0
    OBVIOUS
  <1>4. MidPop
    BY <1>2, <1>3, Begins, Mids
  <1>5. /\ Dry
        /\ IF Op = \hF1
             THEN /\ Agrees({"reg", "flag"}) /\ cpu.flag = Unpacked(Low)
                  /\ cpu.reg = [arch.reg EXCEPT !["A"] = High]
             ELSE Agrees({"reg"}) /\ cpu.reg = [arch.reg EXCEPT ![Pair(Op)[2]] = Low, ![Pair(Op)[1]] = High]
    BY <1>2, <1>4 DEF MidPop
  <1>6. port'.wren = FALSE /\ ram' = arch.ram /\ {"sp"} \in SUBSET Last
    <2>1. Dry /\ Idle
      BY <1>1, <1>5
    <2>2. {"sp"} \in SUBSET Last
      BY DEF Last, Shared
    <2> QED  BY <2>1, <2>2, Quietly
  <1>7. Low = Kept(arch.sp) /\ High = Kept(arch.sp + 1)
    BY DEF Low, High
  <1>8. cpu.sp = arch.sp
    BY <1>5 DEF Agrees, Shared
  <1>9. ASSUME Op = \hF1 PROVE Good
    <2>1. Agrees({"reg", "flag"}) /\ cpu.flag = Unpacked(Low) /\ cpu.reg = [arch.reg EXCEPT !["A"] = High]
      BY <1>5, <1>9
    <2>2. "pc" \notin {"reg", "flag"} /\ LastStep({"sp"})
      BY <1>1
    <2>3. /\ ArchType' /\ arch'.pc = Onward
          /\ \A f \in {"sp"} \ {"pc"} : f \in Shared => arch'[f] = cpu'[f]
          /\ \A f \in Shared \ ({"reg", "flag"} \cup {"sp"} \cup {"pc"}) : arch'[f] = arch[f]
          /\ \A f \in Shared \ ({"sp"} \cup {"pc"}) : arch'[f] = cpu[f]
          /\ arch'.ie = arch.ie /\ arch'.ram = ram'
          /\ Executed => Good
      BY <1>6, <2>1, <2>2, LastEnds
    <2>4. /\ Moves({"sp", "reg", "flag"}, Onward)
          /\ arch'.sp = cpu'.sp /\ arch'.reg = cpu.reg /\ arch'.flag = cpu.flag
      BY <1>6, <2>3 DEF Moves, ArchFields, Shared
    <2>5. arch'.sp = Above
      BY <1>1, <1>8, <2>4 DEF Above
    <2>6. I!Stack
      BY <1>7, <1>9, <2>1, <2>4, <2>5, IsaPopPsw DEF AtStep, AtEdge
    <2> QED  BY <2>3, <2>6 DEF Executed
  <1>10. ASSUME Op # \hF1 PROVE Good
    <2>1. Agrees({"reg"}) /\ cpu.reg = [arch.reg EXCEPT ![Pair(Op)[2]] = Low, ![Pair(Op)[1]] = High]
      BY <1>5, <1>10
    <2>2. "pc" \notin {"reg"} /\ LastStep({"sp"})
      BY <1>1
    <2>3. /\ ArchType' /\ arch'.pc = Onward
          /\ \A f \in {"sp"} \ {"pc"} : f \in Shared => arch'[f] = cpu'[f]
          /\ \A f \in Shared \ ({"reg"} \cup {"sp"} \cup {"pc"}) : arch'[f] = arch[f]
          /\ \A f \in Shared \ ({"sp"} \cup {"pc"}) : arch'[f] = cpu[f]
          /\ arch'.ie = arch.ie /\ arch'.ram = ram'
          /\ Executed => Good
      BY <1>6, <2>1, <2>2, LastEnds
    <2>4. Moves({"sp", "reg"}, Onward) /\ arch'.sp = cpu'.sp /\ arch'.reg = cpu.reg
      BY <1>6, <2>3 DEF Moves, ArchFields, Shared
    <2>5. arch'.sp = Above
      BY <1>1, <1>8, <2>4 DEF Above
    <2>6. Pair(Op) \in {<<"B", "C">>, <<"D", "E">>, <<"H", "L">>}
      BY <1>2, <1>10, PairType DEF POP
    <2>7. arch'.reg = WithWord(arch.reg, Pair(Op), High * 256 + Low)
      <3>1. AtEdge
        BY DEF AtStep
      <3>2. cpu.reg = [[arch.reg EXCEPT ![Pair(Op)[2]] = Low] EXCEPT ![Pair(Op)[1]] = High]
        BY <2>1
      <3>3. WithWord(arch.reg, Pair(Op), High * 256 + Low)
              = [[arch.reg EXCEPT ![Pair(Op)[2]] = Low] EXCEPT ![Pair(Op)[1]] = High]
        BY <2>6, <3>1, PopPair
      <3> QED  BY <2>4, <3>2, <3>3
    <2>8. I!Stack
      <3>1. Op \in POP \ {\hF1}
        BY <1>2, <1>10
      <3> QED  BY <1>7, <2>4, <2>5, <2>7, <3>1, IsaPop DEF AtStep, AtEdge
    <2> QED  BY <2>3, <2>8 DEF Executed
  <1> QED  BY <1>9, <1>10

LEMMA GoodPop == ASSUME AtStep, DoPop PROVE Good
  <1>1. cpu.func \in {0, 1} \/ cpu.func = 2 \/ cpu.func = 3 \/ cpu.func \notin 0..3
    OBVIOUS
  <1> QED  BY <1>1, PopBegins, PopLow, PopHigh, PopEnds

\* The two reads of a word on the stack.
LEMMA AskLow ==
    ASSUME AtStep, Agrees({}), Dry, NEW G \in SUBSET Work, NextStep(G), Read(cpu.sp)
    PROVE  /\ arch' = arch /\ cpu'.op = cpu.op /\ cpu'.func = cpu.func + 1 /\ Dry' /\ Op' = Op
           /\ \A f \in Shared \ G : cpu'[f] = arch'[f]
           /\ LowAsked'
  <1>1. arch' = arch /\ cpu.sp = arch.sp
    BY StayStep, AgreesAll
  <1>2. port'.wren = FALSE /\ LowAsked'
    BY <1>1, ReadLow
  <1>3. /\ cpu'.op = cpu.op /\ cpu'.func = cpu.func + 1 /\ Dry' /\ Op' = Op
        /\ \A f \in Shared \ ({} \cup G) : cpu'[f] = arch'[f]
    BY <1>2, DryStep
  <1> QED  BY <1>1, <1>2, <1>3

LEMMA AskHigh ==
    ASSUME AtStep, Agrees({}), Dry, NextStep({}), Read(SpUp), LowAsked
    PROVE  /\ arch' = arch /\ cpu'.op = cpu.op /\ cpu'.func = cpu.func + 1 /\ Dry' /\ Op' = Op
           /\ \A f \in Shared : cpu'[f] = arch'[f]
           /\ q' = Low' /\ HighAsked'
  <1> {} \in SUBSET Work
    OBVIOUS
  <1>1. arch' = arch /\ cpu.sp = arch.sp
    BY StayStep, AgreesAll
  <1>2. port'.wren = FALSE /\ HighAsked'
    BY <1>1, ReadHigh
  <1>3. /\ cpu'.op = cpu.op /\ cpu'.func = cpu.func + 1 /\ Dry' /\ Op' = Op
        /\ \A f \in Shared \ ({} \cup {}) : cpu'[f] = arch'[f]
        /\ Low' = Low /\ (LowAsked => q' = Low)
    BY <1>2, DryStep
  <1> QED  BY <1>1, <1>2, <1>3

\* A byte put in the low half of a word, and one in the high half.
LEMMA HalfBytes ==
    ASSUME NEW w \in Addr, NEW x \in Byte
    PROVE  (256 * (w \div 256) + x) % 256 = x
  <1>1. w \div 256 \in Byte
    BY Halves
  <1> DEFINE k == w \div 256
  <1>2. k \in Int /\ x \in 0..255
    BY <1>1 DEF Byte
  <1> HIDE DEF k
  <1>3. (256 * k + x) % 256 = x
    BY <1>2
  <1> QED  BY <1>3 DEF k

\* A return that is not taken.
LEMMA RetIfNot == ASSUME AtStep, cpu.op \in RET_IF, cpu.func = 0, ~Holds(cpu.op, cpu.flag), Idle, OneStep({}) PROVE Good
  <1>1. cpu.op = Op /\ Agrees({}) /\ Dry
    BY Begins, Apart
  <1>2. AtEdge /\ {"state", "pc"} \in SUBSET Results
    BY DEF AtStep, Results, Shared
  <1>3. Only({"state", "pc"}) /\ cpu'.state = 0 /\ cpu'.pc = Onward
    <2>1. Only({} \cup {"state", "pc"}) /\ cpu'.state = 0 /\ cpu'.pc = Past
      BY DEF OneStep
    <2>2. {} \cup {"state", "pc"} = {"state", "pc"} /\ Past = Onward
      BY <1>1, OncePast
    <2> QED  BY <2>1, <2>2
  <1>4. /\ ArchType' /\ \A f \in Shared : arch'[f] = cpu'[f]
        /\ arch'.ram = ram' /\ arch'.ie = arch.ie
        /\ \A f \in Shared \ ({} \cup {"state", "pc"}) : arch'[f] = arch[f]
        /\ cpu'.func = cpu.func
    BY <1>1, <1>2, <1>3, EndStep
  <1>5. ram' = arch.ram /\ port'.wren = FALSE
    BY <1>1, Quietly
  <1>6. Moves({}, Onward)
    BY <1>3, <1>4, <1>5 DEF Moves, ArchFields, Shared
  <1>7. cpu.flag = arch.flag
    BY <1>1, AgreesAll
  <1>8. I!Branch
    BY <1>1, <1>6, <1>7, IsaGoesOn DEF AtStep, AtEdge
  <1>9. cpu'.func = 0 /\ Executed
    BY <1>4, <1>8 DEF Executed
  <1> QED  BY <1>1, <1>2, <1>3, <1>5, <1>9, GoodEnd

LEMMA RetIfReads == ASSUME AtStep, DoRetIf, cpu.func \in {0, 1} PROVE Good
  <1>1. /\ Executes(RET_IF)
        /\ IF cpu.func = 0 /\ ~Holds(cpu.op, cpu.flag)
             THEN Idle /\ OneStep({})
             ELSE \/ cpu.func = 0 /\ Read(cpu.sp) /\ NextStep({})
                  \/ cpu.func = 1 /\ Read(SpUp) /\ NextStep({})
    BY DoRetIfEffect DEF AtStep, AtEdge, TypeInv, SpUp
  <1>2. cpu.op = Op /\ cpu.op \in RET_IF /\ cpu.state = Bytes(Op) + 2
    BY <1>1, Operands
  <1>3. cpu.func = 0 => Agrees({}) /\ Dry
    BY <1>2, Begins, Apart
  <1>4. cpu.func = 1 => Agrees({}) /\ Dry /\ LowAsked /\ Holds(Op, arch.flag)
    <2>1. cpu.func # 0 => MidRetIf
      BY <1>2, Begins, Mids
    <2> QED  BY <2>1 DEF MidRetIf
  <1>5. Agrees({}) /\ Dry /\ {} \in SUBSET Work /\ cpu.flag = arch.flag
    BY <1>1, <1>3, <1>4, AgreesAll
  <1>6. ASSUME NextStep({}), MidRetIf' PROVE Good
    BY <1>2, <1>5, <1>6, GoodStay DEF Between
  <1>7. ASSUME cpu.func = 0, Holds(Op, arch.flag), Read(cpu.sp), NextStep({}) PROVE Good
    <2>1. /\ arch' = arch /\ cpu'.op = cpu.op /\ cpu'.func = cpu.func + 1 /\ Dry' /\ Op' = Op
          /\ \A f \in Shared \ {} : cpu'[f] = arch'[f]
          /\ LowAsked'
      BY <1>5, <1>7, AskLow
    <2>2. MidRetIf'
      BY <1>2, <1>7, <2>1 DEF MidRetIf, Agrees
    <2> QED  BY <1>6, <1>7, <2>2
  <1>8. ASSUME cpu.func = 1, Holds(Op, arch.flag), Read(SpUp), NextStep({}), LowAsked PROVE Good
    <2>1. /\ arch' = arch /\ cpu'.op = cpu.op /\ cpu'.func = cpu.func + 1 /\ Dry' /\ Op' = Op
          /\ \A f \in Shared : cpu'[f] = arch'[f]
          /\ q' = Low' /\ HighAsked'
      BY <1>5, <1>8, AskHigh
    <2>2. MidRetIf'
      BY <1>2, <1>8, <2>1 DEF MidRetIf, Agrees
    <2> QED  BY <1>6, <1>8, <2>2
  <1>9. ASSUME cpu.func = 0 PROVE Good
    <2>1. CASE ~Holds(cpu.op, cpu.flag)
      BY <1>1, <1>2, <1>9, <2>1, RetIfNot
    <2>2. CASE Holds(cpu.op, cpu.flag)
      BY <1>1, <1>2, <1>5, <1>7, <1>9, <2>2
    <2> QED  BY <2>1, <2>2
  <1>10. ASSUME cpu.func = 1 PROVE Good
    BY <1>1, <1>4, <1>8, <1>10
  <1> QED  BY <1>9, <1>10


\* The two halves of the program counter, as they arrive.
LowStep == cpu'.pc = 256 * (cpu.pc \div 256) + q
HighStep == cpu'.pc = 256 * q + (cpu.pc % 256)
LowHalf == cpu.pc % 256 = Low

LEMMA LowArrives ==
    ASSUME AtEdge, q = Low, LowStep PROVE cpu'.pc % 256 = Low
  <1>1. cpu.pc \in Addr /\ Low \in Byte
    BY RegsTypes, StackBytes DEF AtEdge, TypeInv
  <1>2. cpu'.pc = 256 * (cpu.pc \div 256) + Low
    BY DEF LowStep
  <1> QED  BY <1>1, <1>2, HalfBytes

LEMMA HighArrives ==
    ASSUME q = High, LowHalf, HighStep PROVE cpu'.pc = Back
  BY DEF LowHalf, HighStep, Back

LEMMA PcStep ==
    ASSUME AtStep, Agrees({"pc"}), Dry, NextStep({"pc"}), port'.wren = FALSE
    PROVE  /\ arch' = arch /\ cpu'.op = cpu.op /\ cpu'.func = cpu.func + 1 /\ Dry' /\ Op' = Op
           /\ Low' = Low /\ High' = High /\ Back' = Back
           /\ (HighAsked => q' = High) /\ Agrees({"pc"})'
  <1> {"pc"} \in SUBSET Work
    BY DEF Work
  <1>1. /\ arch' = arch /\ cpu'.op = cpu.op /\ cpu'.func = cpu.func + 1 /\ Dry' /\ Op' = Op
        /\ \A f \in Shared \ ({"pc"} \cup {"pc"}) : cpu'[f] = arch'[f]
        /\ Low' = Low /\ High' = High /\ (HighAsked => q' = High)
    BY DryStep
  <1>2. Agrees({"pc"})'
    BY <1>1 DEF Agrees
  <1>3. Back' = Back
    BY <1>1 DEF Back
  <1> QED  BY <1>1, <1>2, <1>3

LEMMA StayPc == ASSUME AtStep, NextStep({"pc"}), cpu.state = Bytes(Op) + 2, Between' PROVE Good
  <1> {"pc"} \in SUBSET Work
    BY DEF Work
  <1> QED  BY GoodStay

LEMMA LessAgrees == ASSUME Agrees({}) PROVE Agrees({"pc"})
  BY DEF Agrees

LEMMA RetIfHalves == ASSUME AtStep, DoRetIf, cpu.func \in {2, 3} PROVE Good
  <1>1. /\ Executes(RET_IF) /\ Idle /\ NextStep({"pc"})
        /\ cpu.func = 2 => LowStep
        /\ cpu.func = 3 => HighStep
    BY DoRetIfEffect DEF AtStep, AtEdge, TypeInv, LowStep, HighStep
  <1>2. cpu.op = Op /\ cpu.op \in RET_IF /\ cpu.state = Bytes(Op) + 2
    BY <1>1, Operands
  <1>3. MidRetIf
    BY <1>2, Begins, Mids
  <1>4. /\ Dry /\ Holds(Op, arch.flag)
        /\ cpu.func = 2 => Agrees({}) /\ q = Low /\ HighAsked
        /\ cpu.func = 3 => Agrees({"pc"}) /\ q = High /\ LowHalf
    BY <1>3 DEF MidRetIf, LowHalf
  <1>5. Agrees({"pc"})
    BY <1>4, LessAgrees
  <1>6. port'.wren = FALSE
    BY <1>1, <1>4, Quietly
  <1>7. /\ arch' = arch /\ cpu'.op = cpu.op /\ cpu'.func = cpu.func + 1 /\ Dry' /\ Op' = Op
        /\ Low' = Low /\ High' = High /\ Back' = Back
        /\ (HighAsked => q' = High) /\ Agrees({"pc"})'
    BY <1>1, <1>4, <1>5, <1>6, PcStep
  <1>8. ASSUME MidRetIf' PROVE Good
    BY <1>1, <1>2, <1>8, StayPc DEF Between
  <1>9. ASSUME cpu.func = 2 PROVE Good
    <2>1. cpu'.pc % 256 = Low' /\ q' = High'
      BY <1>1, <1>4, <1>7, <1>9, LowArrives DEF AtStep
    <2>2. MidRetIf'
      BY <1>2, <1>4, <1>7, <1>9, <2>1 DEF MidRetIf
    <2> QED  BY <1>8, <2>2
  <1>10. ASSUME cpu.func = 3 PROVE Good
    <2>1. cpu'.pc = Back'
      BY <1>1, <1>4, <1>7, <1>10, HighArrives
    <2>2. MidRetIf'
      BY <1>2, <1>4, <1>7, <1>10, <2>1 DEF MidRetIf
    <2> QED  BY <1>8, <2>2
  <1> QED  BY <1>9, <1>10

\* A return ends: at the address that was on the stack.
SpTwoUp == (cpu.sp + 2) % 65536
LEMMA RetGoes ==
    ASSUME AtStep, Agrees({"pc"}), NEW G \in SUBSET Last, NEW t, JumpStep(G, t), port'.wren = FALSE
    PROVE  /\ ArchType' /\ arch'.pc = t
           /\ \A f \in G \ {"pc"} : f \in Shared => arch'[f] = cpu'[f]
           /\ \A f \in Shared \ ({"pc"} \cup G \cup {"pc"}) : arch'[f] = arch[f]
           /\ arch'.ie = arch.ie /\ arch'.ram = ram'
           /\ Executed => Good
  BY JumpEnds, ZenonT(60)

LEMMA RetEnds ==
    ASSUME AtStep, cpu.op = Op, Op \in RET_IF \cup {\hC9}, Op = \hC9 \/ Holds(Op, arch.flag),
           Agrees({"pc"}), Dry, cpu.pc = Back, Idle,
           NEW G \in SUBSET {"sp", "can_debug"}, "sp" \in G, JumpStep(G, cpu.pc), cpu'.sp = SpTwoUp
    PROVE  Good
  <1>1. port'.wren = FALSE /\ ram' = arch.ram
    BY Quietly
  <1>2. G \in SUBSET Last
    BY DEF Last, Shared
  <1>3. /\ ArchType' /\ arch'.pc = cpu.pc
        /\ \A f \in G \ {"pc"} : f \in Shared => arch'[f] = cpu'[f]
        /\ \A f \in Shared \ ({"pc"} \cup G \cup {"pc"}) : arch'[f] = arch[f]
        /\ arch'.ie = arch.ie /\ arch'.ram = ram'
        /\ Executed => Good
    BY <1>1, <1>2, RetGoes, ZenonT(60)
  <1>4. Moves({"sp"}, cpu.pc) /\ arch'.sp = cpu'.sp
    BY <1>1, <1>3 DEF Moves, ArchFields, Shared
  <1>5. arch'.sp = Above
    <2>1. cpu.sp = arch.sp
      BY DEF Agrees, Shared
    <2> QED  BY <1>4, <2>1 DEF Above, SpTwoUp
  <1>6. cpu.pc = Kept(arch.sp + 1) * 256 + Kept(arch.sp)
    BY StackBytes DEF AtStep, Low, High, Back
  <1>7. I!Branch
    BY <1>4, <1>5, <1>6, IsaRet DEF AtStep, AtEdge
  <1> QED  BY <1>3, <1>7 DEF Executed

LEMMA GoodRetIf == ASSUME AtStep, DoRetIf PROVE Good
  <1>1. ASSUME cpu.func \notin 0..3 PROVE Good
    <2>1. /\ Executes(RET_IF) /\ Idle /\ JumpStep({"sp", "can_debug"}, cpu.pc)
          /\ cpu'.sp = SpTwoUp
      BY <1>1, DoRetIfEffect DEF AtStep, AtEdge, TypeInv, SpTwoUp
    <2>2. cpu.op = Op /\ cpu.op \in RET_IF /\ cpu.func # 0
      BY <1>1, <2>1, Operands
    <2>3. MidRetIf
      BY <2>2, Begins, Mids
    <2>4. Dry /\ Holds(Op, arch.flag) /\ Agrees({"pc"}) /\ cpu.pc = Back
      BY <1>1, <2>3 DEF MidRetIf
    <2> QED  BY <2>1, <2>2, <2>4, RetEnds
  <1>2. cpu.func \in {0, 1} \/ cpu.func \in {2, 3} \/ cpu.func \notin 0..3
    OBVIOUS
  <1> QED  BY <1>1, <1>2, RetIfReads, RetIfHalves

LEMMA MidRetGood == ASSUME AtStep, Executes({\hC9}), NEW G \in SUBSET Work, NextStep(G), MidRet' PROVE Good
  <1>1. cpu.state = Bytes(Op) + 2
    BY Operands
  <1>2. Between'
    BY DEF Between
  <1> QED  BY <1>1, <1>2, GoodStay

LEMMA RetAsks == ASSUME AtStep, DoRet, cpu.func \in {0, 1} PROVE Good
  <1>1. /\ Executes({\hC9})
        /\ cpu.func = 0 => Read(cpu.sp) /\ NextStep({"tmp2"})
        /\ cpu.func = 1 => Idle /\ NextStep({})
    BY DoRetEffect DEF AtStep, AtEdge, TypeInv
  <1>2. cpu.op = Op /\ cpu.op = \hC9
    BY <1>1, Operands
  <1>3. {"tmp2"} \in SUBSET Work /\ {} \in SUBSET Work
    BY DEF Work
  <1>4. ASSUME cpu.func = 0 PROVE Good
    <2>1. Agrees({}) /\ Dry
      BY <1>2, <1>4, Begins, Apart
    <2>2. Read(cpu.sp) /\ NextStep({"tmp2"})
      BY <1>1, <1>4
    <2>3. /\ cpu'.op = cpu.op /\ cpu'.func = cpu.func + 1 /\ Dry' /\ LowAsked'
          /\ \A f \in Shared \ {"tmp2"} : cpu'[f] = arch'[f]
      BY <1>3, <2>1, <2>2, AskLow
    <2>4. Agrees({})'
      BY <2>3 DEF Agrees, Shared
    <2>5. MidRet'
      BY <1>2, <1>4, <2>3, <2>4 DEF MidRet
    <2> QED  BY <1>1, <1>3, <2>2, <2>5, MidRetGood
  <1>5. ASSUME cpu.func = 1 PROVE Good
    <2>1. MidRet
      BY <1>2, <1>5, Begins, Mids
    <2>2. Agrees({}) /\ Dry /\ LowAsked
      BY <1>5, <2>1 DEF MidRet
    <2>3. Idle /\ NextStep({})
      BY <1>1, <1>5
    <2>4. port'.wren = FALSE
      BY <2>2, <2>3, Quietly
    <2>5. /\ cpu'.op = cpu.op /\ cpu'.func = cpu.func + 1 /\ Dry' /\ Low' = Low /\ (LowAsked => q' = Low)
          /\ \A f \in Shared \ ({} \cup {}) : cpu'[f] = arch'[f]
      BY <1>3, <2>2, <2>3, <2>4, DryStep
    <2>6. Agrees({})' /\ q' = Low'
      BY <2>2, <2>5 DEF Agrees
    <2>7. MidRet'
      BY <1>2, <1>5, <2>5, <2>6 DEF MidRet
    <2> QED  BY <1>1, <1>3, <2>3, <2>7, MidRetGood
  <1> QED  BY <1>4, <1>5

\* The low half is kept, and the high byte asked for.
LEMMA RetLow == ASSUME AtStep, DoRet, cpu.func = 2 PROVE Good
  <1>1. Executes({\hC9}) /\ Read(SpUp) /\ NextStep({"pc"}) /\ LowStep
    BY DoRetEffect DEF AtStep, AtEdge, TypeInv, SpUp, LowStep
  <1>2. cpu.op = Op /\ cpu.op = \hC9
    BY <1>1, Operands
  <1>3. {"pc"} \in SUBSET Work
    BY DEF Work
  <1>4. MidRet
    BY <1>2, Begins, Mids
  <1>5. Agrees({}) /\ Dry /\ q = Low
    BY <1>4 DEF MidRet
  <1>6. arch' = arch /\ cpu.sp = arch.sp
    BY <1>1, <1>3, <1>5, StayStep, AgreesAll
  <1>7. port'.wren = FALSE /\ HighAsked'
    BY <1>1, <1>5, <1>6, ReadHigh
  <1>8. cpu'.op = cpu.op /\ cpu'.func = cpu.func + 1 /\ Dry' /\ Low' = Low /\ Agrees({"pc"})'
    BY <1>1, <1>5, <1>7, LessAgrees, PcStep
  <1>9. cpu'.pc % 256 = Low'
    BY <1>1, <1>5, <1>8, LowArrives DEF AtStep
  <1>10. MidRet'
    BY <1>2, <1>7, <1>8, <1>9 DEF MidRet
  <1> QED  BY <1>1, <1>3, <1>10, MidRetGood

LEMMA RetHigh == ASSUME AtStep, DoRet, cpu.func \in {3, 4} PROVE Good
  <1>1. /\ Executes({\hC9}) /\ Idle
        /\ cpu.func = 3 => NextStep({})
        /\ cpu.func = 4 => NextStep({"pc"}) /\ HighStep
    BY DoRetEffect DEF AtStep, AtEdge, TypeInv, HighStep
  <1>2. cpu.op = Op /\ cpu.op = \hC9
    BY <1>1, Operands
  <1>3. {"pc"} \in SUBSET Work /\ {} \in SUBSET Work
    BY DEF Work
  <1>4. MidRet
    BY <1>2, Begins, Mids
  <1>5. /\ Dry /\ Agrees({"pc"}) /\ LowHalf
        /\ cpu.func = 3 => HighAsked
        /\ cpu.func = 4 => q = High
    BY <1>4 DEF MidRet, LowHalf
  <1>6. port'.wren = FALSE
    BY <1>1, <1>5, Quietly
  <1>7. ASSUME cpu.func = 3 PROVE Good
    <2>1. NextStep({}) /\ HighAsked
      BY <1>1, <1>5, <1>7
    <2>2. /\ arch' = arch /\ cpu'.op = cpu.op /\ cpu'.func = cpu.func + 1 /\ Dry'
          /\ Low' = Low /\ High' = High /\ (HighAsked => q' = High)
          /\ \A f \in Shared \ ({"pc"} \cup {}) : cpu'[f] = arch'[f]
      BY <1>3, <1>5, <1>6, <2>1, DryStep
    <2>3. cpu'.pc = cpu.pc
      BY <1>3, <2>1, StayStep DEF Shared
    <2>4. Agrees({"pc"})'
      BY <2>2 DEF Agrees
    <2>5. cpu'.pc % 256 = Low'
      BY <1>5, <2>2, <2>3 DEF LowHalf
    <2>6. MidRet'
      BY <1>2, <1>7, <2>1, <2>2, <2>4, <2>5 DEF MidRet
    <2> QED  BY <1>1, <1>3, <2>1, <2>6, MidRetGood
  <1>8. ASSUME cpu.func = 4 PROVE Good
    <2>1. NextStep({"pc"}) /\ HighStep /\ q = High
      BY <1>1, <1>5, <1>8
    <2>2. cpu'.op = cpu.op /\ cpu'.func = cpu.func + 1 /\ Dry' /\ Back' = Back /\ Agrees({"pc"})'
      BY <1>5, <1>6, <2>1, PcStep
    <2>3. cpu'.pc = Back'
      BY <1>5, <2>1, <2>2, HighArrives
    <2>4. MidRet'
      BY <1>2, <1>8, <2>2, <2>3 DEF MidRet
    <2> QED  BY <1>1, <1>3, <2>1, <2>4, MidRetGood
  <1> QED  BY <1>7, <1>8

LEMMA GoodRet == ASSUME AtStep, DoRet PROVE Good
  <1>1. ASSUME cpu.func \notin 0..4 PROVE Good
    <2>1. Executes({\hC9}) /\ Idle /\ JumpStep({"sp"}, cpu.pc) /\ cpu'.sp = SpTwoUp
      BY <1>1, DoRetEffect DEF AtStep, AtEdge, TypeInv, SpTwoUp
    <2>2. cpu.op = Op /\ cpu.op = \hC9 /\ cpu.func # 0
      BY <1>1, <2>1, Operands
    <2>3. MidRet
      BY <2>2, Begins, Mids
    <2>4. Dry /\ Agrees({"pc"}) /\ cpu.pc = Back
      BY <1>1, <2>3 DEF MidRet
    <2>5. {"sp"} \in SUBSET {"sp", "can_debug"} /\ "sp" \in {"sp"} /\ Op \in RET_IF \cup {\hC9}
      BY <2>2
    <2> QED  BY <2>1, <2>2, <2>4, <2>5, RetEnds
  <1>2. cpu.func \in {0, 1} \/ cpu.func = 2 \/ cpu.func \in {3, 4} \/ cpu.func \notin 0..4
    OBVIOUS
  <1> QED  BY <1>1, <1>2, RetAsks, RetLow, RetHigh

\* The word on the stack, as it arrives in tmp2.
TmpLow == cpu'.tmp2 = 256 * (cpu.tmp2 \div 256) + q
TmpHigh == cpu'.tmp2 = 256 * q + (cpu.tmp2 % 256)
TmpHalf == cpu.tmp2 % 256 = Low

LEMMA TmpLowArrives ==
    ASSUME AtEdge, q = Low, TmpLow PROVE cpu'.tmp2 % 256 = Low
  <1>1. cpu.tmp2 \in Addr /\ Low \in Byte
    BY RegsTypes, StackBytes DEF AtEdge, TypeInv
  <1>2. cpu'.tmp2 = 256 * (cpu.tmp2 \div 256) + Low
    BY DEF TmpLow
  <1> QED  BY <1>1, <1>2, HalfBytes

LEMMA TmpHighArrives ==
    ASSUME q = High, TmpHalf, TmpHigh PROVE cpu'.tmp2 = Back
  BY DEF TmpHalf, TmpHigh, Back

LEMMA MidXthlGood == ASSUME AtStep, Executes({\hE3}), NEW G \in SUBSET Work, NextStep(G), MidXthl' PROVE Good
  <1>1. cpu.state = Bytes(Op) + 2
    BY Operands
  <1>2. Between'
    BY DEF Between
  <1> QED  BY <1>1, <1>2, GoodStay

LEMMA XthlAsks == ASSUME AtStep, DoXthl, cpu.func \in {0, 1} PROVE Good
  <1>1. /\ Executes({\hE3}) /\ NextStep({})
        /\ cpu.func = 0 => Read(cpu.sp)
        /\ cpu.func = 1 => Read(SpUp)
    BY DoXthlEffect DEF AtStep, AtEdge, TypeInv, SpUp
  <1>2. cpu.op = Op /\ cpu.op = \hE3
    BY <1>1, Operands
  <1>3. {} \in SUBSET Work
    OBVIOUS
  <1>4. ASSUME cpu.func = 0 PROVE Good
    <2>1. Agrees({}) /\ Dry
      BY <1>2, <1>4, Begins, Apart
    <2>2. Read(cpu.sp)
      BY <1>1, <1>4
    <2>3. /\ cpu'.op = cpu.op /\ cpu'.func = cpu.func + 1 /\ Dry' /\ LowAsked'
          /\ \A f \in Shared \ {} : cpu'[f] = arch'[f]
      BY <1>1, <1>3, <2>1, <2>2, AskLow
    <2>4. Agrees({})'
      BY <2>3 DEF Agrees
    <2>5. MidXthl'
      BY <1>2, <1>4, <2>3, <2>4 DEF MidXthl
    <2> QED  BY <1>1, <1>3, <2>5, MidXthlGood
  <1>5. ASSUME cpu.func = 1 PROVE Good
    <2>1. MidXthl
      BY <1>2, <1>5, Begins, Mids
    <2>2. Agrees({}) /\ Dry /\ LowAsked
      BY <1>5, <2>1 DEF MidXthl
    <2>3. Read(SpUp)
      BY <1>1, <1>5
    <2>4. /\ cpu'.op = cpu.op /\ cpu'.func = cpu.func + 1 /\ Dry' /\ q' = Low' /\ HighAsked'
          /\ \A f \in Shared : cpu'[f] = arch'[f]
      BY <1>1, <2>2, <2>3, AskHigh
    <2>5. Agrees({})'
      BY <2>4 DEF Agrees
    <2>6. MidXthl'
      BY <1>2, <1>5, <2>4, <2>5 DEF MidXthl
    <2> QED  BY <1>1, <1>3, <2>6, MidXthlGood
  <1> QED  BY <1>4, <1>5

LEMMA XthlReads == ASSUME AtStep, DoXthl, cpu.func \in {2, 3} PROVE Good
  <1>1. /\ Executes({\hE3}) /\ Idle /\ NextStep({"tmp2"})
        /\ cpu.func = 2 => TmpLow
        /\ cpu.func = 3 => TmpHigh
    BY DoXthlEffect DEF AtStep, AtEdge, TypeInv, TmpLow, TmpHigh
  <1>2. cpu.op = Op /\ cpu.op = \hE3
    BY <1>1, Operands
  <1>3. {"tmp2"} \in SUBSET Work
    BY DEF Work
  <1>4. MidXthl
    BY <1>2, Begins, Mids
  <1>5. /\ Dry /\ Agrees({})
        /\ cpu.func = 2 => q = Low /\ HighAsked
        /\ cpu.func = 3 => q = High /\ TmpHalf
    BY <1>4 DEF MidXthl, TmpHalf
  <1>6. port'.wren = FALSE
    BY <1>1, <1>5, Quietly
  <1>7. /\ cpu'.op = cpu.op /\ cpu'.func = cpu.func + 1 /\ Dry'
        /\ Low' = Low /\ High' = High /\ (HighAsked => q' = High)
        /\ \A f \in Shared \ ({} \cup {"tmp2"}) : cpu'[f] = arch'[f]
    BY <1>1, <1>3, <1>5, <1>6, DryStep
  <1>8. Agrees({})' /\ Back' = Back
    BY <1>7 DEF Agrees, Shared, Back
  <1>9. ASSUME cpu.func = 2 PROVE Good
    <2>1. cpu'.tmp2 % 256 = Low' /\ q' = High'
      BY <1>1, <1>5, <1>7, <1>9, TmpLowArrives DEF AtStep
    <2>2. MidXthl'
      BY <1>2, <1>7, <1>8, <1>9, <2>1 DEF MidXthl
    <2> QED  BY <1>1, <1>3, <2>2, MidXthlGood
  <1>10. ASSUME cpu.func = 3 PROVE Good
    <2>1. cpu'.tmp2 = Back'
      BY <1>1, <1>5, <1>8, <1>10, TmpHighArrives
    <2>2. MidXthl'
      BY <1>2, <1>7, <1>8, <1>10, <2>1 DEF MidXthl
    <2> QED  BY <1>1, <1>3, <2>2, MidXthlGood
  <1> QED  BY <1>9, <1>10

\* The registers take its place, the high one first.
LEMMA XthlWrites == ASSUME AtStep, DoXthl, cpu.func \in {4, 5} PROVE Good
  <1> DEFINE h == arch.reg["H"]
             l == arch.reg["L"]
             m == Stored(arch.ram, arch.sp + 1, h)
             n == StoredWord(arch.ram, arch.sp, h, l)
  <1>1. /\ Executes({\hE3}) /\ NextStep({})
        /\ cpu.func = 4 => Write(SpUp, cpu.reg["H"])
        /\ cpu.func = 5 => Write(cpu.sp, cpu.reg["L"])
    BY DoXthlEffect DEF AtStep, AtEdge, TypeInv, SpUp
  <1>2. cpu.op = Op /\ cpu.op = \hE3
    BY <1>1, Operands
  <1>3. {} \in SUBSET Work
    OBVIOUS
  <1>4. MidXthl
    BY <1>2, Begins, Mids
  <1>5. /\ Agrees({}) /\ cpu.tmp2 = Back
        /\ cpu.func = 4 => Dry
        /\ cpu.func = 5 => Wet(m)
    BY <1>4 DEF MidXthl
  <1>6. cpu.reg = arch.reg /\ cpu.sp = arch.sp
    BY <1>5, AgreesAll
  <1>7. h \in Byte /\ l \in Byte /\ arch.sp \in Int
    <2>1. arch.reg \in [Registers -> Byte] /\ arch.sp \in Addr
      BY DEF AtStep, AtEdge, ArchWidths
    <2> QED  BY <2>1, Ranges DEF Registers
  <1> HIDE DEF h, l, m, n
  <1>8. cpu'.tmp2 = cpu.tmp2
    <2>1. RegsType
      BY DEF AtStep, AtEdge, TypeInv
    <2>2. Ticked.tmp2 = cpu.tmp2
      BY <2>1, TickedFields DEF Fields
    <2> QED  BY <1>1, <2>2 DEF NextStep, Only, Fields
  <1>9. ASSUME cpu.func = 4 PROVE Good
    <2>1. Write(SpUp, h) /\ Holding(arch.ram) /\ SpUp \in Int
      BY <1>1, <1>5, <1>6, <1>7, <1>9 DEF Holding, SpUp, h
    <2>2. /\ arch' = arch /\ cpu'.op = cpu.op /\ cpu'.func = cpu.func + 1
          /\ port'.wren /\ Mem' = Stored(arch.ram, SpUp, h)
          /\ \A f \in Shared \ ({} \cup {}) : cpu'[f] = arch'[f]
          /\ Low' = Low /\ High' = High
      BY <1>1, <1>3, <1>5, <1>7, <2>1, WriteStep
    <2>3. Stored(arch.ram, SpUp, h) = m
      BY <1>6, <1>7, SameStore DEF SpUp, m
    <2>4. Wet(Stored(arch.ram, arch.sp + 1, arch.reg["H"]))' /\ Agrees({})' /\ Back' = Back
      BY <2>2, <2>3 DEF Wet, Agrees, Back, m, h
    <2>5. MidXthl'
      BY <1>2, <1>5, <1>8, <1>9, <2>2, <2>4 DEF MidXthl
    <2> QED  BY <1>1, <1>3, <2>5, MidXthlGood
  <1>10. ASSUME cpu.func = 5 PROVE Good
    <2>1. Write(arch.sp, l) /\ Holding(m)
      BY <1>1, <1>5, <1>6, <1>10 DEF Holding, l
    <2>2. /\ arch' = arch /\ cpu'.op = cpu.op /\ cpu'.func = cpu.func + 1
          /\ port'.wren /\ Mem' = Stored(m, arch.sp, l)
          /\ \A f \in Shared \ ({} \cup {}) : cpu'[f] = arch'[f]
          /\ Low' = Low /\ High' = High
      BY <1>1, <1>3, <1>5, <1>7, <2>1, WriteStep
    <2>3. Stored(m, arch.sp, l) = n
      BY DEF m, n, StoredWord
    <2>4. Wet(StoredWord(arch.ram, arch.sp, arch.reg["H"], arch.reg["L"]))' /\ Agrees({})' /\ Back' = Back
      BY <2>2, <2>3 DEF Wet, Agrees, Back, n, h, l
    <2>5. MidXthl'
      BY <1>2, <1>5, <1>8, <1>10, <2>2, <2>4 DEF MidXthl
    <2> QED  BY <1>1, <1>3, <2>5, MidXthlGood
  <1> QED  BY <1>9, <1>10

LEMMA XthlEnds == ASSUME AtStep, DoXthl, cpu.func \notin 0..5 PROVE Good
  <1>1. /\ Executes({\hE3}) /\ Release /\ LastStep({"reg"})
        /\ cpu'.reg = WithWord(cpu.reg, <<"H", "L">>, cpu.tmp2)
    BY DoXthlEffect DEF AtStep, AtEdge, TypeInv
  <1>2. cpu.op = Op /\ cpu.op = \hE3 /\ cpu.func # 0
    BY <1>1, Operands
  <1>3. MidXthl
    BY <1>2, Begins, Mids
  <1> DEFINE n == StoredWord(arch.ram, arch.sp, arch.reg["H"], arch.reg["L"])
  <1>4. Agrees({}) /\ cpu.tmp2 = Back /\ Wet(n)
    BY <1>3 DEF MidXthl
  <1> HIDE DEF n
  <1>5. ram' = n
    BY <1>4, Held DEF Holding
  <1>6. port'.wren = FALSE /\ {"reg"} \in SUBSET Last /\ "pc" \notin {}
    BY <1>1, Released DEF Last, Shared
  <1>7. /\ ArchType' /\ arch'.pc = Onward
        /\ \A f \in {"reg"} \ {"pc"} : f \in Shared => arch'[f] = cpu'[f]
        /\ \A f \in Shared \ ({} \cup {"reg"} \cup {"pc"}) : arch'[f] = arch[f]
        /\ arch'.ie = arch.ie /\ arch'.ram = ram'
        /\ Executed => Good
    <2>1. LastStep({"reg"}) /\ Agrees({})
      BY <1>1, <1>4
    <2> QED  BY <1>6, <2>1, LastEnds
  <1>8. Moves({"ram", "reg"}, Onward) /\ arch'.reg = cpu'.reg
    BY <1>7 DEF Moves, ArchFields, Shared
  <1>9. arch'.reg = [arch.reg EXCEPT !["H"] = Kept(arch.sp + 1), !["L"] = Kept(arch.sp)]
    <2>1. AtEdge /\ <<"H", "L">> \in {<<"B", "C">>, <<"D", "E">>, <<"H", "L">>}
      BY DEF AtStep
    <2>2. WithWord(arch.reg, <<"H", "L">>, High * 256 + Low) = [[arch.reg EXCEPT !["L"] = Low] EXCEPT !["H"] = High]
      BY <2>1, PopPair
    <2>3. cpu.tmp2 = High * 256 + Low
      BY <1>4, <2>1, StackBytes DEF Back
    <2>4. cpu.reg = arch.reg
      BY <1>4, AgreesAll
    <2>5. arch.reg \in [Registers -> Byte]
      BY <2>1 DEF AtEdge, ArchWidths
    <2>6. arch'.reg = [[arch.reg EXCEPT !["L"] = Low] EXCEPT !["H"] = High]
      BY <1>1, <1>8, <2>2, <2>3, <2>4
    <2> QED  BY <2>5, <2>6 DEF High, Low
  <1>10. I!Stack
    BY <1>2, <1>5, <1>7, <1>8, <1>9, IsaXthl DEF AtStep, AtEdge, n
  <1> QED  BY <1>7, <1>10 DEF Executed

LEMMA GoodXthl == ASSUME AtStep, DoXthl PROVE Good
  <1>1. cpu.func \in {0, 1} \/ cpu.func \in {2, 3} \/ cpu.func \in {4, 5} \/ cpu.func \notin 0..5
    OBVIOUS
  <1> QED  BY <1>1, XthlAsks, XthlReads, XthlWrites, XthlEnds

LEMMA LhldSource ==
    ASSUME Op = \h2A
    PROVE  /\ Source = Imm16
           /\ First = IF Imm16 < RAM_START THEN Rom(Imm16) ELSE Kept(Imm16)
           /\ Second = IF Imm16 < RAM_START THEN Rom(Imm16 + 1) ELSE Kept(Imm16 + 1)
  <1>1. Op \notin LOAD
    BY Apart
  <1>2. Source = Imm16
    BY <1>1 DEF Source
  <1>3. FromRom <=> Imm16 < RAM_START
    BY <1>2 DEF FromRom, InRom
  <1> QED  BY <1>2, <1>3 DEF First, Second

LEMMA MidLhldGood == ASSUME AtStep, Executes({\h2A}), NEW G \in SUBSET Work, NextStep(G), MidLhld' PROVE Good
  <1>1. cpu.state = Bytes(Op) + 2
    BY Operands
  <1>2. Between'
    BY DEF Between
  <1> QED  BY <1>1, <1>2, GoodStay

LEMMA LhldOperand ==
    ASSUME AtStep, Executes({\h2A})
    PROVE  cpu.op = Op /\ cpu.op = \h2A /\ Operand = Source /\ (Operand + 1) % 65536 = Beside
  <1>1. cpu.op = Op /\ cpu.op = \h2A /\ Operand = Imm16
    BY Operands
  <1> QED  BY <1>1, LhldSource DEF Beside

LEMMA LhldLooks == ASSUME AtStep, DoLhld, cpu.func \in {0, 1} PROVE Good
  <1>1. /\ Executes({\h2A}) /\ NextStep({})
        /\ cpu.func = 0 => Look(cpu.op, Operand, Operand)
        /\ cpu.func = 1 => Look(cpu.op, Operand, (Operand + 1) % 65536)
    BY DoLhldEffect DEF AtStep, AtEdge, TypeInv
  <1>2. cpu.op = Op /\ cpu.op = \h2A /\ Operand = Source /\ (Operand + 1) % 65536 = Beside
    BY <1>1, LhldOperand
  <1>3. /\ cpu.func = 0 => Look(cpu.op, Source, Source)
        /\ cpu.func = 1 => Look(cpu.op, Source, Beside)
    BY <1>1, <1>2
  <1>4. {} \in SUBSET Work /\ NextStep({})
    BY <1>1
  <1>5. cpu.func = 0 => Agrees({}) /\ Dry
    BY <1>2, Begins, Apart
  <1>6. cpu.func = 1 => Agrees({}) /\ Dry /\ Sought
    <2>1. ASSUME cpu.func = 1 PROVE MidLhld
      BY <1>2, <2>1, Begins, Mids
    <2> QED  BY <2>1 DEF MidLhld
  <1>7. Agrees({}) /\ Dry
    BY <1>5, <1>6
  <1>8. Source' = Source /\ (FromRom' <=> FromRom)
    BY <1>4, StayStep, Stay DEF AtStep, AtEdge
  <1>9. ASSUME port'.wren = FALSE
        PROVE  /\ cpu'.op = cpu.op /\ cpu'.func = cpu.func + 1 /\ Dry' /\ First' = First
               /\ Sought => Shown' = First
               /\ Agrees({})'
    <2>1. /\ cpu'.op = cpu.op /\ cpu'.func = cpu.func + 1 /\ Dry' /\ First' = First
          /\ Sought => Shown' = First
          /\ \A f \in Shared \ ({} \cup {}) : cpu'[f] = arch'[f]
      BY <1>4, <1>7, <1>9, DryStep
    <2> QED  BY <2>1 DEF Agrees
  <1>10. cpu.op = Op
    BY <1>2
  <1>11. ASSUME cpu.func = 0 PROVE Good
    <2>1. port'.wren = FALSE /\ Sought'
      <3>1. Look(cpu.op, Source, Source)
        BY <1>3, <1>11
      <3> QED  BY <1>7, <1>8, <1>10, <3>1, LookFirst
    <2>2. cpu'.op = cpu.op /\ cpu'.func = cpu.func + 1 /\ Dry' /\ Agrees({})'
      BY <1>9, <2>1
    <2>3. MidLhld'
      BY <1>2, <1>11, <2>1, <2>2 DEF MidLhld
    <2> QED  BY <1>1, <1>4, <2>3, MidLhldGood
  <1>12. ASSUME cpu.func = 1 PROVE Good
    <2>1. port'.wren = FALSE /\ Sought2'
      <3>1. Look(cpu.op, Source, Beside)
        BY <1>3, <1>12
      <3> QED  BY <1>7, <1>8, <1>10, <3>1, LookSecond
    <2>2. cpu'.op = cpu.op /\ cpu'.func = cpu.func + 1 /\ Dry' /\ Agrees({})' /\ Shown' = First'
      BY <1>6, <1>9, <1>12, <2>1
    <2>3. MidLhld'
      BY <1>2, <1>12, <2>1, <2>2 DEF MidLhld
    <2> QED  BY <1>1, <1>4, <2>3, MidLhldGood
  <1> QED  BY <1>11, <1>12

\* The low byte, while the high one arrives.
LEMMA LhldLow == ASSUME AtStep, DoLhld, cpu.func = 2 PROVE Good
  <1>1. /\ Executes({\h2A}) /\ Idle /\ NextStep({"reg"})
        /\ cpu'.reg = [cpu.reg EXCEPT !["L"] = Got(cpu.op, Operand)]
    BY DoLhldEffect DEF AtStep, AtEdge, TypeInv
  <1>2. cpu.op = Op /\ cpu.op = \h2A /\ Operand = Source
    BY <1>1, LhldOperand
  <1>3. MidLhld
    BY <1>2, Begins, Mids
  <1>4. Agrees({}) /\ Dry /\ Shown = First /\ Sought2
    BY <1>3 DEF MidLhld
  <1>5. {"reg"} \in SUBSET Work /\ NextStep({"reg"})
    BY <1>1 DEF Work
  <1>6. port'.wren = FALSE
    BY <1>1, <1>4, Quietly
  <1>7. /\ arch' = arch /\ cpu'.op = cpu.op /\ cpu'.func = cpu.func + 1 /\ Dry'
        /\ First' = First /\ Second' = Second /\ (Sought2 => Shown' = Second)
        /\ \A f \in Shared \ ({} \cup {"reg"}) : cpu'[f] = arch'[f]
    BY <1>4, <1>5, <1>6, DryStep
  <1>8. Agrees({"reg"})' /\ Shown' = Second'
    BY <1>4, <1>7 DEF Agrees
  <1>9. cpu'.reg = [arch.reg EXCEPT !["L"] = First]
    <2>1. cpu.reg = arch.reg /\ Got(cpu.op, Source) = First
      BY <1>2, <1>4, AgreesAll, GotShown
    <2> QED  BY <1>1, <1>2, <2>1
  <1>10. MidLhld'
    BY <1>2, <1>7, <1>8, <1>9 DEF MidLhld
  <1> QED  BY <1>1, <1>5, <1>10, MidLhldGood

LEMMA LhldEnds == ASSUME AtStep, DoLhld, cpu.func \notin 0..2 PROVE Good
  <1>1. /\ Executes({\h2A}) /\ Idle /\ LastStep({"reg"})
        /\ cpu'.reg = [cpu.reg EXCEPT !["H"] = Got(cpu.op, Operand)]
    BY DoLhldEffect DEF AtStep, AtEdge, TypeInv
  <1>2. cpu.op = Op /\ cpu.op = \h2A /\ Operand = Source /\ cpu.func # 0
    BY <1>1, LhldOperand
  <1>3. MidLhld
    BY <1>2, Begins, Mids
  <1>4. Dry /\ Agrees({"reg"}) /\ Shown = Second /\ cpu.reg = [arch.reg EXCEPT !["L"] = First]
    BY <1>3 DEF MidLhld
  <1>5. {"reg"} \in SUBSET Last /\ "pc" \notin {"reg"} /\ LastStep({"reg"}) /\ Agrees({"reg"})
    BY <1>1, <1>4 DEF Last, Shared
  <1>6. port'.wren = FALSE /\ ram' = arch.ram
    BY <1>1, <1>4, Quietly
  <1>7. /\ ArchType' /\ arch'.pc = Onward
        /\ \A f \in {"reg"} \ {"pc"} : f \in Shared => arch'[f] = cpu'[f]
        /\ \A f \in Shared \ ({"reg"} \cup {"reg"} \cup {"pc"}) : arch'[f] = arch[f]
        /\ arch'.ie = arch.ie /\ arch'.ram = ram'
        /\ Executed => Good
    BY <1>5, <1>6, LastEnds
  <1>8. Moves({"reg"}, Onward) /\ arch'.reg = cpu'.reg
    BY <1>6, <1>7 DEF Moves, ArchFields, Shared
  <1>9. arch'.reg = [arch.reg EXCEPT !["L"] = First, !["H"] = Second]
    <2>1. Got(cpu.op, Source) = Second
      BY <1>2, <1>4, GotShown
    <2>2. cpu'.reg = [cpu.reg EXCEPT !["H"] = Second]
      BY <1>1, <1>2, <2>1
    <2> QED  BY <1>4, <1>8, <2>2
  <1>10. I!Move
    <2>1. Op = \h2A
      BY <1>2
    <2>2. /\ First = IF Imm16 < RAM_START THEN Rom(Imm16) ELSE Kept(Imm16)
          /\ Second = IF Imm16 < RAM_START THEN Rom(Imm16 + 1) ELSE Kept(Imm16 + 1)
      BY <2>1, LhldSource
    <2>3. ArchType
      BY DEF AtStep, AtEdge
    <2> QED  BY <1>8, <1>9, <2>1, <2>2, <2>3, IsaLhld
  <1> QED  BY <1>7, <1>10 DEF Executed

LEMMA GoodLhld == ASSUME AtStep, DoLhld PROVE Good
  <1>1. cpu.func \in {0, 1} \/ cpu.func = 2 \/ cpu.func \notin 0..2
    OBVIOUS
  <1> QED  BY <1>1, LhldLooks, LhldLow, LhldEnds

LEMMA GoodExecuting == ASSUME AtStep, Executing PROVE Good
  BY GoodPlain, GoodMvi, GoodLxi, GoodJump, GoodIn, GoodOut, GoodIncDec, GoodAluI, GoodStore, GoodLoad, GoodAluM,
     GoodStepM, GoodPush, GoodPop, GoodCall, GoodRetIf, GoodRet, GoodXthl, GoodShld, GoodLhld DEF Executing

----------------------------------------------------------------------------
(* The steps before an opcode is executed. *)

AtOpening ==
    /\ TypeInv /\ ArchType /\ ArchWidths /\ CycleInv /\ ~cpu.opcode_unk /\ Memories
    /\ arch' = IF cpu.state # 0 /\ cpu'.state = 0 THEN View' ELSE arch

\* A step that sets no register a program sees, and writes nothing.
LEMMA OpenStep ==
    ASSUME AtOpening, Agrees({}), Dry, arch' = arch, port'.wren = FALSE,
           NEW G, Only(G), \A f \in Shared : f \notin G
    PROVE  /\ Agrees({})' /\ Dry' /\ ArchType' /\ Op' = Op /\ Imm' = Imm /\ Third' = Third
           /\ \A f \in Fields \ (G \cup {"cycles_remain", "b3"}) : cpu'[f] = cpu[f]
           /\ rom_rdata' = Rom(port.raddr)
  <1>1. RegsType /\ ArchType /\ Memories
    BY DEF AtOpening, TypeInv
  <1>2. \A f \in Fields \ (G \cup {"cycles_remain", "b3"}) : cpu'[f] = cpu[f]
    BY <1>1, TickedFields DEF Only
  <1>3. \A f \in Shared : cpu'[f] = cpu[f]
    BY <1>2 DEF Fields, Shared
  <1>4. Agrees({})'
    BY <1>3 DEF Agrees
  <1>5. ram' = arch.ram /\ rom_rdata' = Rom(port.raddr)
    BY <1>1, Shows
  <1>6. Dry'
    BY <1>5 DEF Dry
  <1>7. ArchType' /\ Op' = Op /\ Imm' = Imm /\ Third' = Third
    BY <1>1, Stay
  <1> QED  BY <1>2, <1>4, <1>5, <1>6, <1>7

\* Steps that leave the port, and those that ask the ROM for a byte.
LEMMA OpenIdle == ASSUME AtOpening, Dry, Idle PROVE port'.wren = FALSE
  BY DEF AtOpening, TypeInv, BusType, Dry, Idle

LEMMA OpenBus == ASSUME AtOpening, Dry PROVE DOMAIN port = {"wren", "addr", "data", "raddr"} /\ port.wren = FALSE
  BY DEF AtOpening, TypeInv, BusType, Dry

\* Between two instructions, and when the machine stopped there.
LEMMA RestGood ==
    ASSUME AtOpening, Wait \/ (cpu.can_debug /\ Debug)
    PROVE  /\ CycleInv' /\ ArchType' /\ arch' = arch /\ cpu.state = 0 /\ cpu'.state = 0
           /\ cpu'.int_enabled = cpu.int_enabled /\ cpu'.int_rst_prev = cpu.int_rst_prev /\ cpu'.int_op = cpu.int_op
  <1>1. RegsType
    BY DEF AtOpening, TypeInv
  <1>2. cpu.state = 0 /\ Idle /\ Only({"opcode_unk"})
    <2>1. CASE Wait
      BY <1>1, <2>1, WaitEffect DEF Only
    <2>2. CASE cpu.can_debug /\ Debug
      <3>1. Idle /\ Only({"opcode_unk"})
        BY <1>1, <2>2, UnknownEffect
      <3> QED  BY <2>2, <3>1 DEF AtOpening, CycleInv
    <2> QED  BY <2>1, <2>2
  <1>3. Untouched
    BY <1>2 DEF AtOpening, CycleInv
  <1>4. arch' = arch
    BY <1>2 DEF AtOpening
  <1>5. port'.wren = FALSE
    BY <1>2, <1>3, OpenIdle DEF Untouched
  <1>6. \A f \in Shared : f \notin {"opcode_unk"}
    BY DEF Shared
  <1>7. /\ Agrees({})' /\ Dry' /\ ArchType'
        /\ \A f \in Fields \ ({"opcode_unk"} \cup {"cycles_remain", "b3"}) : cpu'[f] = cpu[f]
    BY <1>2, <1>3, <1>4, <1>5, <1>6, OpenStep DEF Untouched
  <1>8. /\ cpu'.state = cpu.state /\ cpu'.int_enabled = cpu.int_enabled /\ cpu'.func = cpu.func
        /\ cpu'.int_op = cpu.int_op /\ cpu'.int_rst_prev = cpu.int_rst_prev
    BY <1>7 DEF Fields
  <1>9. Untouched'
    BY <1>3, <1>4, <1>7, <1>8 DEF Untouched
  <1>10. CycleInv'
    BY <1>2, <1>8, <1>9 DEF CycleInv, Untouched
  <1> QED  BY <1>2, <1>4, <1>7, <1>8, <1>10

\* The opcode is asked for.
LEMMA FetchGood ==
    ASSUME AtOpening, Fetch, ~cpu.can_debug
    PROVE  /\ CycleInv' /\ ArchType' /\ arch' = arch /\ cpu.state # 0 /\ cpu'.state # 0
           /\ cpu'.int_op = cpu.int_op /\ cpu'.int_rst_prev = cpu.int_rst_prev
  <1>1. cpu.state = 1 /\ ~cpu.int_op /\ Only({"state"}) /\ cpu'.state = 2 /\ ReadRom((cpu.pc + 1) % 65536)
    BY FetchEffect DEF AtOpening, TypeInv, Fetch
  <1>2. Untouched /\ port.raddr = arch.pc % 8192
    BY <1>1 DEF AtOpening, CycleInv
  <1>3. arch' = arch
    BY <1>1 DEF AtOpening
  <1>4. cpu.pc = arch.pc
    BY <1>2, AgreesAll DEF Untouched
  <1>5. port'.wren = FALSE /\ port'.raddr = ((arch.pc + 1) % 65536) % 8192
    <2> DEFINE t == (arch.pc + 1) % 65536
    <2>1. ReadRom(t)
      BY <1>1, <1>4
    <2>2. Dry
      BY <1>2 DEF Untouched
    <2> HIDE DEF t
    <2>3. DOMAIN port = {"wren", "addr", "data", "raddr"} /\ port.wren = FALSE
      BY <2>2, OpenBus
    <2>4. port'.wren = FALSE /\ port'.raddr = t % 8192
      BY <2>1, <2>3 DEF ReadRom
    <2> QED  BY <2>4 DEF t
  <1>6. \A f \in Shared : f \notin {"state"}
    BY DEF Shared
  <1>7. /\ Agrees({})' /\ Dry' /\ ArchType' /\ Op' = Op /\ rom_rdata' = Rom(port.raddr)
        /\ \A f \in Fields \ ({"state"} \cup {"cycles_remain", "b3"}) : cpu'[f] = cpu[f]
    <2>1. Agrees({}) /\ Dry /\ Only({"state"}) /\ port'.wren = FALSE
      BY <1>1, <1>2, <1>5 DEF Untouched
    <2> QED  BY <1>3, <1>6, <2>1, OpenStep
  <1>8. /\ cpu'.int_enabled = cpu.int_enabled /\ cpu'.func = cpu.func /\ cpu'.can_debug = cpu.can_debug
        /\ cpu'.int_op = cpu.int_op /\ cpu'.int_rst_prev = cpu.int_rst_prev
    BY <1>7 DEF Fields
  <1>9. rom_rdata' = Op'
    <2>1. arch.pc \in Int
      BY ReadTypes DEF AtOpening
    <2> QED  BY <1>2, <1>7, <2>1, RomBus DEF Op
  <1>10. Untouched'
    BY <1>2, <1>3, <1>7, <1>8 DEF Untouched
  <1>11. CycleInv'
    BY <1>1, <1>3, <1>5, <1>8, <1>9, <1>10 DEF CycleInv
  <1> QED  BY <1>1, <1>3, <1>7, <1>8, <1>11

\* It arrives, and an opcode of state 2 begins at once.
LEMMA OpcodeGood ==
    ASSUME AtOpening, Opcode, ~cpu.can_debug
    PROVE  /\ CycleInv' /\ ArchType' /\ arch' = arch /\ cpu.state # 0 /\ cpu'.state # 0
           /\ cpu'.int_op = cpu.int_op /\ cpu'.int_rst_prev = cpu.int_rst_prev
  <1> DEFINE e == Early(rom_rdata, cpu.reg, cpu.flag)
  <1>1. /\ cpu.state = 2 /\ cpu'.state = 3 /\ cpu'.op = rom_rdata
        /\ (cpu'.set_flags <=> rom_rdata \in EARLY)
        /\ IF rom_rdata \in EARLY
             THEN /\ Only({"state", "op", "set_flags", "reg", "flag", "tmp"})
                  /\ cpu'.reg = e.reg /\ cpu'.tmp = e.tmp
                  /\ cpu'.flag = [cpu.flag EXCEPT !.carry = e.carry]
             ELSE Only({"state", "op", "set_flags"})
    BY OpcodeEffect DEF AtOpening, TypeInv
  <1>2. ReadRom((cpu.pc + 2) % 65536)
    BY DEF Opcode
  <1>3. Untouched /\ rom_rdata = Op /\ port.raddr = ((arch.pc + 1) % 65536) % 8192
    BY <1>1 DEF AtOpening, CycleInv
  <1> HIDE DEF e
  <1>4. arch' = arch
    BY <1>1 DEF AtOpening
  <1>5. cpu.pc = arch.pc /\ cpu.reg = arch.reg /\ cpu.flag = arch.flag
    BY <1>3, AgreesAll DEF Untouched
  <1>6. port'.wren = FALSE /\ port'.raddr = ((arch.pc + 2) % 65536) % 8192
    <2> DEFINE t == (arch.pc + 2) % 65536
    <2>1. ReadRom(t)
      BY <1>2, <1>5
    <2>2. Dry
      BY <1>3 DEF Untouched
    <2> HIDE DEF t
    <2>3. DOMAIN port = {"wren", "addr", "data", "raddr"} /\ port.wren = FALSE
      BY <2>2, OpenBus
    <2>4. port'.wren = FALSE /\ port'.raddr = t % 8192
      BY <2>1, <2>3 DEF ReadRom
    <2> QED  BY <2>4 DEF t
  <1>7. RegsType /\ Memories /\ Dry /\ ArchType
    BY <1>3 DEF AtOpening, TypeInv, Untouched
  <1>8. ram' = arch.ram /\ rom_rdata' = Rom(port.raddr)
    BY <1>7, Shows
  <1>9. Dry'
    BY <1>4, <1>6, <1>8 DEF Dry
  <1>10. ArchType' /\ Op' = Op /\ Imm' = Imm
    BY <1>4, <1>7, Stay
  <1>11. rom_rdata' = Imm'
    <2>1. arch.pc + 1 \in Int /\ (arch.pc + 1) % 65536 \in Int
      BY ReadTypes DEF AtOpening
    <2>2. Rom(port.raddr) = Rom((arch.pc + 1) % 65536)
      BY <1>3, <2>1, RomBus
    <2>3. Rom((arch.pc + 1) % 65536) = Rom(arch.pc + 1)
      BY <2>1, RomWord
    <2> QED  BY <1>8, <1>10, <2>2, <2>3 DEF Imm
  <1>12. /\ cpu'.int_enabled = cpu.int_enabled /\ cpu'.func = cpu.func /\ cpu'.can_debug = cpu.can_debug
         /\ cpu'.int_op = cpu.int_op /\ cpu'.int_rst_prev = cpu.int_rst_prev
         /\ \A f \in Shared \ {"reg", "flag"} : cpu'[f] = cpu[f]
         /\ rom_rdata \notin EARLY => \A f \in Shared : cpu'[f] = cpu[f]
    <2>1. /\ \A f \in Fields \ {"state", "op", "set_flags", "reg", "flag", "tmp"} : cpu'[f] = Ticked[f]
          /\ rom_rdata \notin EARLY => \A f \in Fields \ {"state", "op", "set_flags"} : cpu'[f] = Ticked[f]
      BY <1>1 DEF Only
    <2>2. \A f \in Fields \ {"cycles_remain", "b3"} : Ticked[f] = cpu[f]
      BY <1>7, TickedFields
    <2> QED  BY <2>1, <2>2 DEF Fields, Shared
  <1>13. cpu'.int_enabled = arch'.ie /\ cpu'.func = 0 /\ ~cpu'.int_op
    BY <1>3, <1>4, <1>12 DEF Untouched
  <1>14. Agrees({"reg", "flag"})' /\ (rom_rdata \notin EARLY => Agrees({})')
    <2>1. Agrees({})
      BY <1>3 DEF Untouched
    <2> QED  BY <1>4, <1>12, <2>1 DEF Agrees
  <1>15. ASSUME rom_rdata \in EARLY PROVE EarlyDone'
    <2>1. e = Early(Op, arch.reg, arch.flag)
      BY <1>3, <1>5 DEF e
    <2> QED  BY <1>1, <1>3, <1>4, <1>5, <1>9, <1>10, <1>13, <1>14, <1>15, <2>1 DEF EarlyDone
  <1>16. ASSUME rom_rdata \notin EARLY PROVE Running'
    <2>1. Decoded'
      BY <1>1, <1>3, <1>10 DEF Decoded
    <2>2. Ready'
      BY <1>1, <1>4, <1>6, <1>9, <1>11, <1>14, <1>16 DEF Ready
    <2> QED  BY <1>13, <2>1, <2>2 DEF Running
  <1>17. CycleInv'
    BY <1>1, <1>12, <1>13, <1>15, <1>16 DEF CycleInv
  <1> QED  BY <1>1, <1>4, <1>10, <1>12, <1>17

\* The bytes behind the opcode.
LEMMA ByteGroups ==
    /\ \A op \in TwoBytes \cup ThreeBytes : Bytes(op) \in {2, 3}
    /\ \A op \in ThreeBytes : Bytes(op) = 3
  BY DEF Bytes, TwoBytes, ThreeBytes

LEMMA SecondByteGood == ASSUME AtStep, SecondByte PROVE Good /\ cpu'.state # 0
  <1>1. /\ cpu.state = 3 /\ cpu.op \in TwoBytes \cup ThreeBytes /\ Idle
        /\ Only({"state", "b2"}) /\ cpu'.state = 4 /\ cpu'.b2 = rom_rdata
    BY SecondByteEffect DEF AtStep, AtEdge, TypeInv
  <1>2. RegsType /\ ArchType /\ Memories /\ ~cpu.can_debug
    BY DEF AtStep, AtEdge, TypeInv
  <1>3. cpu.op = Op /\ Bytes(Op) + 2 # 3
    <2>1. cpu.op = Op
      BY Begins
    <2>2. Bytes(Op) \in {2, 3}
      BY <1>1, <2>1, ByteGroups
    <2> QED  BY <2>1, <2>2
  <1>4. cpu.func = 0 /\ Ready
    BY <1>1, <1>3 DEF AtStep, Running
  <1>5. Dry /\ Agrees({}) /\ rom_rdata = Imm /\ port.raddr = ((arch.pc + 2) % 65536) % 8192
    BY <1>1, <1>4 DEF Ready
  <1>6. port' = port /\ port'.wren = FALSE /\ ram' = arch.ram
    <2>1. Idle /\ Dry
      BY <1>1, <1>5
    <2> QED  BY <2>1, Quietly
  <1>7. arch' = arch
    BY <1>1 DEF AtStep, AtEdge
  <1>8. \A f \in Fields \ {"state", "b2", "cycles_remain", "b3"} : cpu'[f] = cpu[f]
    BY <1>1, <1>2, TickedFields DEF Only
  <1>9. ArchType' /\ Op' = Op /\ Imm' = Imm /\ Third' = Third
    BY <1>2, <1>7, Stay
  <1>10. rom_rdata' = Third'
    <2>1. arch.pc + 2 \in Int /\ (arch.pc + 2) % 65536 \in Int
      BY ReadTypes DEF AtStep, AtEdge
    <2>2. rom_rdata' = Rom(port.raddr)
      BY <1>2, <1>5, Shows
    <2>3. Rom(port.raddr) = Rom((arch.pc + 2) % 65536)
      BY <1>5, <2>1, RomBus
    <2>4. Rom((arch.pc + 2) % 65536) = Rom(arch.pc + 2)
      BY <2>1, RomWord
    <2> QED  BY <1>9, <2>2, <2>3, <2>4 DEF Third
  <1>11. Agrees({})' /\ Dry'
    BY <1>5, <1>6, <1>7, <1>8 DEF Agrees, Dry, Fields, Shared
  <1>12. /\ cpu'.op = cpu.op /\ cpu'.func = cpu.func /\ cpu'.int_enabled = cpu.int_enabled
         /\ cpu'.int_op = cpu.int_op /\ cpu'.can_debug = cpu.can_debug
    BY <1>8 DEF Fields
  <1>13. Decoded'
    BY <1>1, <1>3, <1>5, <1>9, <1>12 DEF Decoded
  <1>14. Ready'
    BY <1>1, <1>10, <1>11 DEF Ready
  <1>15. Running'
    <2>1. cpu.int_enabled = arch.ie /\ ~cpu.int_op
      BY DEF AtStep, AtEdge
    <2> QED  BY <1>4, <1>7, <1>12, <1>13, <1>14, <2>1 DEF Running
  <1>16. CycleInv'
    BY <1>1, <1>2, <1>12, <1>15 DEF CycleInv, Running
  <1> QED  BY <1>1, <1>9, <1>16 DEF Good

LEMMA ThirdByteGood == ASSUME AtStep, ThirdByte PROVE Good /\ cpu'.state # 0
  <1>1. /\ cpu.state = 4 /\ cpu.op \in ThreeBytes /\ Idle /\ cpu'.state = 5
        /\ IF cpu.op \in CALL
             THEN Only({"state", "pc", "func"}) /\ cpu'.pc = (cpu.pc + 3) % 65536 /\ cpu'.func = 0
             ELSE Only({"state"})
    BY ThirdByteEffect DEF AtStep, AtEdge, TypeInv
  <1>2. RegsType /\ ArchType /\ Memories /\ ~cpu.can_debug
    BY DEF AtStep, AtEdge, TypeInv
  <1>3. cpu.op = Op /\ Bytes(Op) + 2 # 4
    <2>1. cpu.op = Op
      BY Begins
    <2>2. Bytes(Op) = 3
      BY <1>1, <2>1, ByteGroups
    <2> QED  BY <2>1, <2>2
  <1>4. cpu.func = 0 /\ Ready /\ Decoded
    BY <1>1, <1>3 DEF AtStep, Running
  <1>5. Dry /\ Agrees({}) /\ rom_rdata = Third /\ cpu.b2 = Imm
    BY <1>1, <1>4 DEF Ready, Decoded
  <1>6. port' = port /\ port'.wren = FALSE /\ ram' = arch.ram
    <2>1. Idle /\ Dry
      BY <1>1, <1>5
    <2> QED  BY <2>1, Quietly
  <1>7. arch' = arch
    BY <1>1 DEF AtStep, AtEdge
  <1>8. /\ \A f \in Fields \ {"state", "pc", "func"} : cpu'[f] = Ticked[f]
        /\ cpu.op \notin CALL => cpu'.pc = Ticked.pc /\ cpu'.func = Ticked.func
    BY <1>1 DEF Only, Fields
  <1>9. /\ \A f \in Fields \ {"state", "pc", "func", "cycles_remain", "b3"} : cpu'[f] = cpu[f]
        /\ cpu.op \notin CALL => cpu'.pc = cpu.pc
        /\ cpu'.func = 0 /\ cpu'.b3 = rom_rdata
    BY <1>1, <1>2, <1>4, <1>8, TickedFields DEF Fields
  <1>10. ArchType' /\ Op' = Op /\ Imm' = Imm /\ Third' = Third /\ After' = After
    BY <1>2, <1>7, Stay
  <1>11. /\ cpu'.op = cpu.op /\ cpu'.b2 = cpu.b2 /\ cpu'.int_enabled = cpu.int_enabled
         /\ cpu'.int_op = cpu.int_op /\ cpu'.can_debug = cpu.can_debug
    BY <1>9 DEF Fields
  <1>12. Decoded'
    BY <1>3, <1>5, <1>9, <1>10, <1>11 DEF Decoded
  <1>13. Dry' /\ \A f \in Shared \ {"pc"} : cpu'[f] = arch'[f]
    BY <1>5, <1>6, <1>7, <1>9 DEF Agrees, Dry, Fields, Shared
  <1>14. cpu.pc = arch.pc
    BY <1>5, AgreesAll
  <1>15. IF cpu'.op \in CALL THEN Agrees({"pc"})' /\ cpu'.pc = After' ELSE Agrees({})'
    <2>1. cpu.op \in CALL => cpu'.pc = After'
      BY <1>1, <1>10, <1>14 DEF After
    <2>2. cpu.op \notin CALL => cpu'.pc = arch'.pc
      BY <1>7, <1>9, <1>14
    <2> QED  BY <1>11, <1>13, <2>1, <2>2 DEF Agrees
  <1>16. Ready'
    BY <1>1, <1>13, <1>15 DEF Ready
  <1>17. Running'
    <2>1. cpu.int_enabled = arch.ie /\ ~cpu.int_op
      BY DEF AtStep, AtEdge
    <2> QED  BY <1>7, <1>9, <1>11, <1>12, <1>16, <2>1 DEF Running
  <1>18. CycleInv'
    BY <1>1, <1>2, <1>11, <1>17 DEF CycleInv, Running
  <1> QED  BY <1>1, <1>10, <1>18 DEF Good

----------------------------------------------------------------------------
(* Requests: what the CPU sees of them, and when it takes them. *)

\* A request that did not change since the last edge is seen as it is.
LEMMA Settled == ASSUME IntType, int_old = int_rst, NEW v \in Samples PROVE v = int_rst
  <1>1. int_rst \in {0, 8, 16}
    BY DEF IntType, Vectors
  <1>2. v \in {x + y : x \in {int_rst % 16}, y \in {16 * (int_rst \div 16)}}
    BY DEF Samples
  <1>3. v = (int_rst % 16) + 16 * (int_rst \div 16)
    BY <1>2
  <1> QED  BY <1>1, <1>3

\* An edge at which the CPU may take an interrupt.
Asking(seen, kept) ==
    LET accepted == cpu.int_enabled /\ seen # cpu.int_rst_prev
    IN  /\ cpu'.int_rst_prev = kept
        /\ cpu'.int_enabled = (cpu.int_enabled /\ ~accepted)
        /\ cpu'.int_op = (cpu.int_op \/ accepted)
        /\ due' = IF accepted \/ kept # int_rst THEN due ELSE 0

\* It takes one only if one is due, and soon after it was raised.
LEMMA AcceptsDue ==
    ASSUME TypeInv, RequestInv, ~cpu.int_op, NEW seen \in Samples, cpu.int_enabled, seen # cpu.int_rst_prev
    PROVE  due # 0 /\ since \in {0, 1}
  <1>1. since \in Nat
    BY CpuAssumption DEF TypeInv, IntType
  <1>2. ASSUME int_old # int_rst PROVE due # 0 /\ since \in {0, 1}
    BY <1>2 DEF RequestInv
  <1>3. ASSUME int_old = int_rst PROVE due # 0 /\ since \in {0, 1}
    <2>1. seen = int_rst
      BY <1>3, Settled DEF TypeInv
    <2>2. cpu.int_rst_prev # int_rst /\ ~Deaf
      BY <2>1 DEF Deaf
    <2>3. due # 0 /\ ~(since >= 2)
      BY <2>2 DEF RequestInv
    <2> QED  BY <1>1, <2>3
  <1> QED  BY <1>2, <1>3

\* One that is forgotten met disabled interrupts, or a request that changed in this very cycle.
LEMMA Forgets ==
    ASSUME TypeInv, RequestInv, ~cpu.int_op, NEW seen \in Samples, NEW kept \in Samples, Asking(seen, kept)
    PROVE  due' \in {due, 0} /\ (due' # due => ~cpu.int_enabled \/ int_old # int_rst)
  <1>1. due' \in {due, 0}
    BY DEF Asking
  <1>2. ASSUME due' # due, cpu.int_enabled, int_old = int_rst PROVE FALSE
    <2>1. seen = int_rst
      BY <1>2, Settled DEF TypeInv
    <2>2. due # 0 /\ ~(seen # cpu.int_rst_prev)
      BY <1>1, <1>2 DEF Asking
    <2>3. cpu.int_rst_prev = int_rst /\ ~Deaf
      BY <1>2, <2>1, <2>2 DEF Deaf
    <2> QED  BY <2>2, <2>3 DEF RequestInv
  <1> QED  BY <1>1, <1>2

LEMMA StartRequests ==
    ASSUME TypeInv, RequestInv, ~cpu.int_op, NEW seen \in Samples, NEW kept \in Samples, Asking(seen, kept),
           cpu'.state = 1, int_old' = int_rst, int_rst' = int_rst,
           since' = IF since < MinGap THEN since + 1 ELSE since
    PROVE  RequestInv'
  <1>1. since \in Nat /\ MinGap \in Nat /\ MinGap >= 3
    BY CpuAssumption DEF TypeInv, IntType
  <1>2. due' # 0 => due' = int_rst'
    BY DEF RequestInv, Asking
  <1>3. since' >= 2 => cpu'.int_rst_prev = int_rst'
    <2>1. since' >= 2 => since # 0
      BY <1>1
    <2>2. since # 0 => int_old = int_rst
      BY DEF RequestInv
    <2>3. int_old = int_rst => kept = int_rst
      BY Settled DEF TypeInv
    <2> QED  BY <2>1, <2>2, <2>3 DEF Asking
  <1>4. ~cpu'.int_op =>
          (due' # 0 /\ cpu'.int_rst_prev # int_rst') \/ (due' = 0 /\ cpu'.int_rst_prev = int_rst')
    <2>1. ASSUME ~cpu'.int_op, kept = int_rst PROVE due' = 0 /\ cpu'.int_rst_prev = int_rst'
      BY <2>1 DEF Asking
    <2>2. ASSUME ~cpu'.int_op, kept # int_rst PROVE due' # 0 /\ cpu'.int_rst_prev # int_rst'
      <3>1. int_old # int_rst
        BY <2>2, Settled DEF TypeInv
      <3>2. due # 0
        BY <3>1 DEF RequestInv
      <3> QED  BY <2>2, <3>2 DEF Asking
    <2> QED  BY <2>1, <2>2
  <1> QED  BY <1>2, <1>3, <1>4 DEF RequestInv

\* The CPU turns to the next instruction, or to an interrupt.
LEMMA StartGood ==
    ASSUME AtOpening, RequestInv, Start, ~cpu.can_debug, int_old' = int_rst, int_rst' = int_rst
    PROVE  /\ CycleInv' /\ ArchType' /\ RequestInv' /\ arch' = arch /\ cpu.state = 0 /\ cpu'.state # 0
           /\ due' \in {due, 0} /\ (due' # due => ~arch.ie \/ int_old # int_rst)
  <1>1. /\ cpu.state = 0 /\ Only({"state", "int_rst_prev", "int_enabled", "int_op"}) /\ cpu'.state = 1
        /\ \E seen, kept \in Samples : Asking(seen, kept)
    BY StartEffect DEF AtOpening, TypeInv, Asking
  <1>2. ReadRom(cpu.pc) /\ since' = IF since < MinGap THEN since + 1 ELSE since
    BY DEF Start
  <1>3. Untouched
    BY <1>1 DEF AtOpening, CycleInv
  <1>4. Agrees({}) /\ Dry /\ ~cpu.int_op /\ cpu.int_enabled = arch.ie /\ cpu.func = 0 /\ TypeInv
    BY <1>3 DEF Untouched, AtOpening
  <1>5. PICK seen \in Samples, kept \in Samples : Asking(seen, kept)
    BY <1>1
  <1>6. RequestInv'
    BY <1>1, <1>2, <1>4, <1>5, StartRequests
  <1>7. due' \in {due, 0} /\ (due' # due => ~arch.ie \/ int_old # int_rst)
    BY <1>4, <1>5, Forgets
  <1>8. arch' = arch
    BY <1>1 DEF AtOpening
  <1>9. port'.wren = FALSE /\ port'.raddr = arch.pc % 8192
    <2>1. DOMAIN port = {"wren", "addr", "data", "raddr"} /\ port.wren = FALSE
      BY <1>4, OpenBus
    <2>2. cpu.pc = arch.pc
      BY <1>4, AgreesAll
    <2> QED  BY <1>2, <2>1, <2>2 DEF ReadRom
  <1>10. \A f \in Shared : f \notin {"state", "int_rst_prev", "int_enabled", "int_op"}
    BY DEF Shared
  <1>11. /\ Agrees({})' /\ Dry' /\ ArchType'
         /\ \A f \in Fields \ ({"state", "int_rst_prev", "int_enabled", "int_op"} \cup {"cycles_remain", "b3"}) :
              cpu'[f] = cpu[f]
    <2>1. Only({"state", "int_rst_prev", "int_enabled", "int_op"}) /\ port'.wren = FALSE
      BY <1>1, <1>9
    <2> QED  BY <1>4, <1>8, <1>10, <2>1, OpenStep
  <1>12. cpu'.func = 0 /\ cpu'.can_debug = cpu.can_debug
    BY <1>4, <1>11 DEF Fields
  <1>13. ASSUME ~cpu'.int_op PROVE Untouched'
    <2>1. cpu'.int_enabled = cpu.int_enabled
      <3>1. cpu.int_enabled \in BOOLEAN
        BY <1>4, RegsTypes DEF TypeInv
      <3>2. ~(cpu.int_enabled /\ seen # cpu.int_rst_prev)
        BY <1>5, <1>13 DEF Asking
      <3> QED  BY <1>5, <3>1, <3>2 DEF Asking
    <2> QED  BY <1>4, <1>8, <1>11, <1>12, <1>13, <2>1 DEF Untouched
  <1>14. ASSUME cpu'.int_op PROVE Taking'
    <2>1. cpu.int_enabled /\ seen # cpu.int_rst_prev
      BY <1>4, <1>5, <1>14 DEF Asking
    <2>2. due # 0 /\ since \in {0, 1}
      BY <1>4, <1>5, <2>1, AcceptsDue
    <2>3. due' # 0 /\ ~cpu'.int_enabled
      BY <1>5, <2>1, <2>2 DEF Asking
    <2>4. since' <= 2
      BY <1>2, <2>2
    <2> QED  BY <1>1, <1>4, <1>8, <1>11, <1>12, <2>1, <2>3, <2>4 DEF Taking
  <1>15. CycleInv'
    BY <1>1, <1>8, <1>9, <1>12, <1>13, <1>14 DEF CycleInv
  <1> QED  BY <1>1, <1>6, <1>7, <1>8, <1>11, <1>15

LEMMA RequestKept ==
    ASSUME RequestInv, Deaf => Deaf', int_old' = int_rst, int_rst' = int_rst, due' = due, since' = since,
           cpu'.int_rst_prev = cpu.int_rst_prev, cpu'.int_op = cpu.int_op
    PROVE  RequestInv'
  BY DEF RequestInv

\* The program counter is pushed.
LEMMA VectorPushes ==
    ASSUME AtOpening, RequestInv, Vector, cpu.func \in {0, 1}, ~cpu.can_debug, int_old' = int_rst, int_rst' = int_rst
    PROVE  /\ CycleInv' /\ ArchType' /\ RequestInv' /\ arch' = arch /\ cpu.state # 0 /\ cpu'.state # 0 /\ due' = due
  <1> DEFINE hi == arch.pc \div 256
             lo == arch.pc % 256
  <1>1. /\ cpu.state = 1 /\ cpu.int_op /\ NextStep({}) /\ due' = due
        /\ cpu.func = 0 => Write((cpu.sp - 1) % 65536, cpu.pc \div 256)
        /\ cpu.func = 1 => Write((cpu.sp - 2) % 65536, cpu.pc % 256)
    BY VectorEffect DEF AtOpening, TypeInv
  <1>2. since' = since
    BY DEF Vector
  <1>3. RegsType /\ BusType /\ ArchType /\ ArchWidths /\ Memories /\ ~cpu.opcode_unk
    BY DEF AtOpening, TypeInv
  <1>4. /\ Agrees({}) /\ ~cpu.int_enabled /\ arch.ie /\ due # 0 /\ int_old = int_rst /\ since <= 2
        /\ (cpu.func = 0 /\ Dry) \/ Stacking(hi, lo)
    BY <1>1 DEF AtOpening, CycleInv, Taking
  <1>5. hi \in Byte /\ lo \in Byte
    BY <1>3, Halves DEF ArchWidths
  <1>6. cpu.sp = arch.sp /\ cpu.pc = arch.pc
    BY <1>4, AgreesAll
  <1>7. Pushing(hi, lo)
    BY <1>1, <1>4, <1>6 DEF Pushing, Stacking
  <1> HIDE DEF hi, lo
  <1>8. /\ port'.wren
        /\ cpu.func = 0 => Mem' = Stored(arch.ram, arch.sp - 1, hi)
        /\ cpu.func = 1 => Mem' = StoredWord(arch.ram, Below, hi, lo)
    BY <1>3, <1>5, <1>6, <1>7, PushMem
  <1>9. /\ cpu'.func = cpu.func + 1
        /\ \A f \in Fields \ {"func", "cycles_remain", "b3"} : cpu'[f] = cpu[f]
    <2>1. Only({} \cup {"func"}) /\ cpu'.func = cpu.func + 1
      BY <1>1 DEF NextStep
    <2> QED  BY <1>3, <2>1, TickedFields DEF Only
  <1>10. /\ cpu'.state = 1 /\ cpu'.can_debug = cpu.can_debug /\ cpu'.int_op = cpu.int_op
         /\ cpu'.int_enabled = cpu.int_enabled /\ cpu'.int_rst_prev = cpu.int_rst_prev
         /\ \A f \in Shared : cpu'[f] = cpu[f]
    <2>1. \A f \in Fields \ {"func", "cycles_remain", "b3"} : cpu'[f] = cpu[f]
      BY <1>9
    <2>2. cpu'.state = cpu.state
      BY <2>1 DEF Fields
    <2>3. /\ cpu'.can_debug = cpu.can_debug /\ cpu'.int_op = cpu.int_op
          /\ cpu'.int_enabled = cpu.int_enabled /\ cpu'.int_rst_prev = cpu.int_rst_prev
      BY <2>1 DEF Fields
    <2>4. \A f \in Shared : cpu'[f] = cpu[f]
      BY <2>1 DEF Fields, Shared
    <2> QED  BY <1>1, <2>2, <2>3, <2>4
  <1>11. arch' = arch
    BY <1>10 DEF AtOpening
  <1>12. ArchType' /\ Below' = Below
    BY <1>3, <1>11, Stay
  <1>13. Stacking(arch.pc \div 256, arch.pc % 256)'
    <2>1. hi' = hi /\ lo' = lo
      BY <1>11 DEF hi, lo
    <2>2. /\ cpu.func = 0 => cpu'.func = 1
          /\ cpu.func = 1 => cpu'.func = 2
      BY <1>9
    <2> QED  BY <1>8, <1>11, <1>12, <2>1, <2>2 DEF Stacking, Wet, hi, lo
  <1>14. Taking'
    BY <1>1, <1>2, <1>4, <1>10, <1>11, <1>13 DEF Taking, Agrees
  <1>15. CycleInv'
    BY <1>1, <1>10, <1>14 DEF CycleInv
  <1>16. RequestInv'
    <2>1. ~Deaf
      BY <1>1 DEF Deaf
    <2> QED  BY <1>1, <1>2, <1>10, <2>1, RequestKept
  <1> QED  BY <1>1, <1>10, <1>11, <1>12, <1>15, <1>16

\* And its routine begins.
LEMMA VectorGoes ==
    ASSUME AtOpening, RequestInv, Vector, cpu.func \notin {0, 1}, ~cpu.can_debug, int_old' = int_rst, int_rst' = int_rst
    PROVE  /\ CycleInv' /\ ArchType' /\ RequestInv' /\ due' = 0
           /\ arch.ie /\ due # 0
           /\ I!Jump([I!Pushed(arch.pc \div 256, arch.pc % 256) EXCEPT !.ie = FALSE], due)
  <1> DEFINE hi == arch.pc \div 256
             lo == arch.pc % 256
  <1>1. /\ cpu.state = 1 /\ cpu.int_op /\ Release /\ due' = 0
        /\ Only({"state", "pc", "func", "sp", "int_op"})
        /\ cpu'.state = 0 /\ cpu'.func = 0 /\ cpu'.pc \in Samples
        /\ cpu'.sp = (cpu.sp - 2) % 65536 /\ ~cpu'.int_op
    BY VectorEffect DEF AtOpening, TypeInv
  <1>2. since' = since
    BY DEF Vector
  <1>3. RegsType /\ BusType /\ IntType /\ Memories /\ ~cpu.opcode_unk /\ cpu.func \in 0..7
    BY RegsTypes DEF AtOpening, TypeInv
  <1>4. /\ Agrees({}) /\ ~cpu.int_enabled /\ arch.ie /\ due # 0 /\ int_old = int_rst
        /\ Stacking(hi, lo) /\ cpu.func > 1
    <2>1. cpu.func > 1
      BY <1>3
    <2> QED  BY <1>1, <2>1 DEF AtOpening, CycleInv, Taking
  <1>5. ram' = StoredWord(arch.ram, Below, hi, lo)
    <2> HIDE DEF hi, lo
    <2> QED  BY <1>3, <1>4, PushedMem
  <1>6. arch' = View'
    BY <1>1 DEF AtOpening
  <1>7. /\ ArchType' /\ \A f \in Shared : arch'[f] = cpu'[f]
        /\ arch'.ie = cpu'.int_enabled /\ arch'.ram = ram'
    BY <1>6, Arrived
  <1>8. /\ cpu'.int_enabled = cpu.int_enabled /\ \A f \in Shared \ {"pc", "sp"} : cpu'[f] = cpu[f]
    <2>1. \A f \in Fields \ {"state", "pc", "func", "sp", "int_op", "cycles_remain", "b3"} : cpu'[f] = cpu[f]
      BY <1>1, <1>3, TickedFields DEF Only
    <2> QED  BY <2>1 DEF Fields, Shared
  <1>9. cpu'.pc = due
    <2>1. cpu'.pc = int_rst
      BY <1>1, <1>3, <1>4, Settled
    <2> QED  BY <1>4, <2>1 DEF RequestInv
  <1>10. ~cpu'.int_enabled
    BY <1>4, <1>8
  <1>11. Moves({"sp", "ram", "ie"}, due)
    BY <1>4, <1>7, <1>8, <1>9 DEF Moves, Agrees, ArchFields, Shared
  <1>12. arch'.sp = Below
    <2>1. cpu.sp = arch.sp
      BY <1>4, AgreesAll
    <2> QED  BY <1>1, <1>7, <2>1 DEF Below, Shared
  <1>13. arch'.ie = FALSE
    <2>1. cpu.int_enabled \in BOOLEAN
      BY <1>3, RegsTypes
    <2> QED  BY <1>4, <1>7, <1>8, <2>1
  <1>14. I!Jump([I!Pushed(arch.pc \div 256, arch.pc % 256) EXCEPT !.ie = FALSE], due)
    <2>1. arch'.ram = StoredWord(arch.ram, Below, arch.pc \div 256, arch.pc % 256)
      BY <1>5, <1>7
    <2>2. ArchType
      BY DEF AtOpening
    <2> QED  BY <1>4, <1>11, <1>12, <1>13, <2>1, <2>2, IsaInterrupt
  <1>15. port'.wren = FALSE
    BY <1>1, <1>3 DEF BusType, Release
  <1>16. CycleInv'
    <2>1. Untouched'
      BY <1>1, <1>7, <1>15 DEF Untouched, Agrees, Dry
    <2> QED  BY <1>1, <2>1 DEF CycleInv
  <1>17. RequestInv'
    <2>1. Deaf'
      BY <1>1, <1>10 DEF Deaf
    <2> QED  BY <1>1, <2>1 DEF RequestInv
  <1> QED  BY <1>1, <1>4, <1>7, <1>14, <1>16, <1>17

\* The opcodes leave the registers of requests alone.
Unasked == cpu'.int_rst_prev = Ticked.int_rst_prev /\ cpu'.int_op = Ticked.int_op

LEMMA UnaskedWays ==
    ASSUME NEW F, "int_rst_prev" \notin F, "int_op" \notin F
    PROVE  /\ Only(F) => Unasked
           /\ NextStep(F) => Unasked
           /\ OneStep(F) => Unasked
           /\ LastStep(F) => Unasked
           /\ \A t : JumpStep(F, t) => Unasked
  BY DEF Only, NextStep, OneStep, LastStep, JumpStep, Unasked, Fields

LEMMA UnaskedOnce ==
    ASSUME RegsType, DoPlain \/ DoMvi \/ DoLxi \/ DoJump \/ DoIn \/ DoOut
    PROVE  Unasked
  <1>1. CASE DoPlain
    BY <1>1, DoPlainEffect, UnaskedWays
  <1>2. CASE DoMvi
    BY <1>2, DoMviEffect, UnaskedWays
  <1>3. CASE DoLxi
    BY <1>3, DoLxiEffect, UnaskedWays
  <1>4. CASE DoJump
    BY <1>4, DoJumpEffect, UnaskedWays
  <1>5. CASE DoIn
    BY <1>5, DoInEffect, UnaskedWays
  <1>6. CASE DoOut
    BY <1>6, DoOutEffect, UnaskedWays
  <1> QED  BY <1>1, <1>2, <1>3, <1>4, <1>5, <1>6

LEMMA UnaskedMemory ==
    ASSUME RegsType, DoIncDec \/ DoAluI \/ DoStore \/ DoLoad \/ DoAluM \/ DoStepM \/ DoShld \/ DoLhld
    PROVE  Unasked
  <1>1. CASE DoIncDec
    BY <1>1, DoIncDecEffect, UnaskedWays
  <1>2. CASE DoAluI
    BY <1>2, DoAluIEffect, UnaskedWays
  <1>3. CASE DoStore
    BY <1>3, DoStoreEffect, UnaskedWays
  <1>4. CASE DoLoad
    BY <1>4, DoLoadEffect, UnaskedWays
  <1>5. CASE DoAluM
    BY <1>5, DoAluMEffect, UnaskedWays
  <1>6. CASE DoStepM
    BY <1>6, DoStepMEffect, UnaskedWays
  <1>7. CASE DoShld
    BY <1>7, DoShldEffect, UnaskedWays
  <1>8. CASE DoLhld
    BY <1>8, DoLhldEffect, UnaskedWays
  <1> QED  BY <1>1, <1>2, <1>3, <1>4, <1>5, <1>6, <1>7, <1>8

LEMMA UnaskedStack ==
    ASSUME RegsType, DoPush \/ DoPop \/ DoCall \/ DoRetIf \/ DoRet \/ DoXthl
    PROVE  Unasked
  <1>1. CASE DoPush
    BY <1>1, DoPushEffect, UnaskedWays
  <1>2. CASE DoPop
    <2>1. NextStep({}) \/ NextStep({"flag"}) \/ NextStep({"reg"}) \/ LastStep({"sp"})
      BY <1>2, DoPopEffect
    <2> QED  BY <2>1, UnaskedWays
  <1>3. CASE DoCall
    <2>1. NextStep({}) \/ JumpStep({"sp"}, Operand) \/ Only({"state"})
      BY <1>3, DoCallEffect
    <2> QED  BY <2>1, UnaskedWays
  <1>4. CASE DoRetIf
    <2>1. OneStep({}) \/ NextStep({}) \/ NextStep({"pc"}) \/ JumpStep({"sp", "can_debug"}, cpu.pc)
      BY <1>4, DoRetIfEffect
    <2> QED  BY <2>1, UnaskedWays
  <1>5. CASE DoRet
    <2>1. NextStep({}) \/ NextStep({"tmp2"}) \/ NextStep({"pc"}) \/ JumpStep({"sp"}, cpu.pc)
      BY <1>5, DoRetEffect
    <2> QED  BY <2>1, UnaskedWays
  <1>6. CASE DoXthl
    BY <1>6, DoXthlEffect, UnaskedWays
  <1> QED  BY <1>1, <1>2, <1>3, <1>4, <1>5, <1>6

LEMMA UnaskedStep ==
    ASSUME RegsType, Executing \/ SetFlags \/ SecondByte \/ ThirdByte \/ Unknown
    PROVE  cpu'.int_rst_prev = cpu.int_rst_prev /\ cpu'.int_op = cpu.int_op
  <1>1. Unasked
    <2>1. CASE Executing
      BY <2>1, UnaskedOnce, UnaskedMemory, UnaskedStack DEF Executing
    <2>2. CASE SetFlags
      BY <2>2, SetFlagsEffect, UnaskedWays
    <2>3. CASE SecondByte
      BY <2>3, SecondByteEffect, UnaskedWays
    <2>4. CASE ThirdByte
      BY <2>4, ThirdByteEffect, UnaskedWays
    <2>5. CASE Unknown
      BY <2>5, UnknownEffect, UnaskedWays
    <2> QED  BY <2>1, <2>2, <2>3, <2>4, <2>5
  <1>2. Ticked.int_rst_prev = cpu.int_rst_prev /\ Ticked.int_op = cpu.int_op
    BY TickedFields DEF Fields
  <1> QED  BY <1>1, <1>2 DEF Unasked

----------------------------------------------------------------------------
(* A clock edge: what the CPU's cycle and the requests keep to, and what the program sees of it. *)

LEMMA Opens ==
    ASSUME TypeInv, ArchType, ArchWidths, CycleInv, Clock
    PROVE  AtOpening /\ int_old' = int_rst /\ int_rst' = int_rst /\ whole' = whole
  BY DEF Clock, AtOpening

\* Where an opcode is executed, no interrupt is being taken.
LEMMA RunningEdge == ASSUME AtOpening, cpu.state > 2, Running PROVE AtEdge
  <1>1. ~cpu.can_debug
    BY DEF AtOpening, CycleInv
  <1>2. ~cpu.int_op /\ cpu.int_enabled = arch.ie
    BY DEF Running
  <1> QED  BY <1>1, <1>2 DEF AtOpening, AtEdge

LEMMA EarlyEdge == ASSUME AtOpening, cpu.state > 2, EarlyDone PROVE AtEdge
  <1>1. ~cpu.can_debug
    BY DEF AtOpening, CycleInv
  <1>2. ~cpu.int_op /\ cpu.int_enabled = arch.ie
    BY DEF EarlyDone
  <1> QED  BY <1>1, <1>2 DEF AtOpening, AtEdge

LEMMA BehindOpcode ==
    ASSUME AtOpening, cpu.state > 2, ~(cpu.state = 3 /\ cpu.set_flags)
    PROVE  AtStep
  <1>1. Running
    BY DEF AtOpening, CycleInv
  <1>2. AtEdge
    BY <1>1, RunningEdge
  <1> QED  BY <1>1, <1>2 DEF AtStep

\* An opcode is executed from state 3 on.
LEMMA ExecutingState == ASSUME Executing PROVE cpu.state > 2 /\ ~(cpu.state = 3 /\ cpu.set_flags)
  <1>1. PICK ops : Executes(ops)
    <2>1. DoPlain \/ DoMvi \/ DoLxi \/ DoJump \/ DoIn \/ DoOut \/ DoIncDec => \E ops : Executes(ops)
      BY DEF DoPlain, DoMvi, DoLxi, DoJump, DoIn, DoOut, DoIncDec
    <2>2. DoAluI \/ DoStore \/ DoLoad \/ DoAluM \/ DoStepM \/ DoPush \/ DoPop => \E ops : Executes(ops)
      BY DEF DoAluI, DoStore, DoLoad, DoAluM, DoStepM, DoPush, DoPop
    <2>3. DoCall \/ DoRetIf \/ DoRet \/ DoXthl \/ DoShld \/ DoLhld => \E ops : Executes(ops)
      BY DEF DoCall, DoRetIf, DoRet, DoXthl, DoShld, DoLhld
    <2> QED  BY <2>1, <2>2, <2>3 DEF Executing
  <1>2. cpu.state = Bytes(cpu.op) + 2 /\ ~(cpu.state = 3 /\ cpu.set_flags)
    BY <1>1 DEF Executes
  <1> QED  BY <1>2 DEF Bytes

\* The steps from the second byte on.
LEMMA BehindGood ==
    ASSUME AtOpening, Executing \/ SetFlags \/ SecondByte \/ ThirdByte \/ Unknown
    PROVE  Good /\ cpu.state # 0
  <1>1. CASE Executing
    <2>1. AtStep /\ cpu.state # 0
      BY <1>1, ExecutingState, BehindOpcode
    <2> QED  BY <1>1, <2>1, GoodExecuting
  <1>2. CASE SetFlags
    <2>1. cpu.state = 3 /\ cpu.set_flags
      BY <1>2 DEF SetFlags
    <2>2. EarlyDone
      BY <2>1 DEF AtOpening, CycleInv
    <2>3. AtEdge
      BY <2>1, <2>2, EarlyEdge
    <2> QED  BY <1>2, <2>1, <2>2, <2>3, GoodSetFlags
  <1>3. CASE SecondByte
    <2>1. cpu.state = 3 /\ ~cpu.set_flags
      BY <1>3 DEF SecondByte
    <2>2. AtStep
      BY <2>1, BehindOpcode
    <2> QED  BY <1>3, <2>1, <2>2, SecondByteGood
  <1>4. CASE ThirdByte
    <2>1. cpu.state = 4
      BY <1>4 DEF ThirdByte
    <2>2. AtStep
      BY <2>1, BehindOpcode
    <2> QED  BY <1>4, <2>1, <2>2, ThirdByteGood
  <1>5. CASE Unknown
    <2>1. cpu.state = 3 /\ ~cpu.set_flags
      BY <1>5 DEF Unknown
    <2>2. AtEdge
      <3>1. AtStep
        BY <2>1, BehindOpcode
      <3> QED  BY <3>1 DEF AtStep
    <2>3. Only({"opcode_unk"}) /\ cpu'.opcode_unk = TRUE
      BY <1>5, UnknownEffect DEF AtOpening, TypeInv
    <2>4. Good
      BY <2>2, <2>3, GoodStop
    <2> QED  BY <2>1, <2>4
  <1> QED  BY <1>1, <1>2, <1>3, <1>4, <1>5

\* What the program sees of an edge: nothing, but that an interrupt may be lost; an interrupt; an instruction.
Unseen == arch' = arch /\ due' \in {due, 0} /\ (due' # due => ~arch.ie \/ int_old # int_rst)
Interrupted ==
    /\ arch.ie /\ due # 0 /\ due' = 0
    /\ I!Jump([I!Pushed(arch.pc \div 256, arch.pc % 256) EXCEPT !.ie = FALSE], due)
EdgeGood == CycleInv' /\ ArchType' /\ RequestInv' /\ (Unseen \/ Interrupted \/ (Executed /\ due' = due))

LEMMA BehindEdge ==
    ASSUME AtOpening, RequestInv, Executing \/ SetFlags \/ SecondByte \/ ThirdByte \/ Unknown,
           int_old' = int_rst, int_rst' = int_rst, due' = due, since' = since
    PROVE  EdgeGood
  <1>1. Good /\ cpu.state # 0
    BY BehindGood
  <1>2. cpu'.int_rst_prev = cpu.int_rst_prev /\ cpu'.int_op = cpu.int_op
    BY UnaskedStep DEF AtOpening, TypeInv
  <1>3. ~Deaf
    BY <1>1 DEF Deaf
  <1>4. RequestInv'
    BY <1>2, <1>3, RequestKept
  <1>5. cpu'.state # 0 => arch' = arch
    BY DEF AtOpening
  <1>6. cpu'.state # 0 => Unseen
    BY <1>5 DEF Unseen
  <1> QED  BY <1>1, <1>4, <1>6 DEF Good, EdgeGood

LEMMA FrontEdge ==
    ASSUME AtOpening, RequestInv, ~cpu.can_debug, Fetch \/ Opcode,
           int_old' = int_rst, int_rst' = int_rst, due' = due, since' = since
    PROVE  EdgeGood
  <1>1. /\ CycleInv' /\ ArchType' /\ arch' = arch /\ cpu.state # 0
        /\ cpu'.int_op = cpu.int_op /\ cpu'.int_rst_prev = cpu.int_rst_prev
    BY FetchGood, OpcodeGood
  <1>2. ~Deaf
    BY <1>1 DEF Deaf
  <1>3. RequestInv'
    BY <1>1, <1>2, RequestKept
  <1> QED  BY <1>1, <1>3 DEF EdgeGood, Unseen

LEMMA RestEdge ==
    ASSUME AtOpening, RequestInv, Wait \/ (cpu.can_debug /\ Debug),
           int_old' = int_rst, int_rst' = int_rst, due' = due, since' = since
    PROVE  EdgeGood
  <1>1. /\ CycleInv' /\ ArchType' /\ arch' = arch /\ cpu.state = 0 /\ cpu'.state = 0
        /\ cpu'.int_enabled = cpu.int_enabled /\ cpu'.int_op = cpu.int_op /\ cpu'.int_rst_prev = cpu.int_rst_prev
    BY RestGood
  <1>2. Deaf => Deaf'
    BY <1>1 DEF Deaf
  <1>3. RequestInv'
    BY <1>1, <1>2, RequestKept
  <1> QED  BY <1>1, <1>3 DEF EdgeGood, Unseen

LEMMA VectorEdge ==
    ASSUME AtOpening, RequestInv, ~cpu.can_debug, Vector, int_old' = int_rst, int_rst' = int_rst
    PROVE  EdgeGood
  <1>1. CASE cpu.func \in {0, 1}
    <2>1. CycleInv' /\ ArchType' /\ RequestInv' /\ arch' = arch /\ due' = due
      BY <1>1, VectorPushes
    <2> QED  BY <2>1 DEF EdgeGood, Unseen
  <1>2. CASE cpu.func \notin {0, 1}
    <2>1. CycleInv' /\ ArchType' /\ RequestInv' /\ Interrupted
      BY <1>2, VectorGoes DEF Interrupted
    <2> QED  BY <2>1 DEF EdgeGood
  <1> QED  BY <1>1, <1>2

LEMMA StartEdge ==
    ASSUME AtOpening, RequestInv, ~cpu.can_debug, Start, int_old' = int_rst, int_rst' = int_rst
    PROVE  EdgeGood
  <1>1. /\ CycleInv' /\ ArchType' /\ RequestInv' /\ arch' = arch
        /\ due' \in {due, 0} /\ (due' # due => ~arch.ie \/ int_old # int_rst)
    BY StartGood
  <1> QED  BY <1>1 DEF EdgeGood, Unseen

LEMMA ClockGood ==
    ASSUME TypeInv, ArchType, ArchWidths, CycleInv, RequestInv, Clock
    PROVE  EdgeGood
  <1>1. AtOpening /\ int_old' = int_rst /\ int_rst' = int_rst
    BY Opens
  <1>2. \/ cpu.can_debug /\ Debug /\ due' = due /\ since' = since
        \/ ~cpu.can_debug /\ (Wait \/ Start \/ Vector)
        \/ /\ ~cpu.can_debug /\ due' = due /\ since' = since
           /\ Fetch \/ Opcode \/ SetFlags \/ SecondByte \/ ThirdByte \/ Unknown \/ Executing
    BY DEF Clock
  <1>3. CASE cpu.can_debug /\ Debug /\ due' = due /\ since' = since
    BY <1>1, <1>3, RestEdge
  <1>4. CASE Wait
    <2>1. due' = due /\ since' = since
      BY <1>4 DEF Wait
    <2> QED  BY <1>1, <1>4, <2>1, RestEdge
  <1>5. CASE ~cpu.can_debug /\ Start
    BY <1>1, <1>5, StartEdge
  <1>6. CASE ~cpu.can_debug /\ Vector
    BY <1>1, <1>6, VectorEdge
  <1>7. CASE ~cpu.can_debug /\ due' = due /\ since' = since /\ (Fetch \/ Opcode)
    BY <1>1, <1>7, FrontEdge
  <1>8. CASE due' = due /\ since' = since /\ (Executing \/ SetFlags \/ SecondByte \/ ThirdByte \/ Unknown)
    BY <1>1, <1>8, BehindEdge
  <1> QED  BY <1>2, <1>3, <1>4, <1>5, <1>6, <1>7, <1>8

----------------------------------------------------------------------------
(* Requests and restarts, and the first state. *)

\* What the program sees is as wide as the registers it is taken from.
LEMMA ViewWidths == ASSUME TypeInv', arch' = View' PROVE ArchWidths'
  <1>1. /\ cpu'.pc \in Addr /\ cpu'.sp \in Addr /\ cpu'.reg \in [Registers -> Byte] /\ cpu'.flag \in Flags
    BY Widths DEF TypeInv, RegsType, Fields
  <1>2. \A a \in DOMAIN ram' : ram'[a] \in Byte
    BY DEF TypeInv, MemType
  <1>3. arch'.pc = cpu'.pc /\ arch'.sp = cpu'.sp /\ arch'.reg = cpu'.reg /\ arch'.flag = cpu'.flag /\ arch'.ram = ram'
    BY Arrived DEF Shared
  <1> QED  BY <1>1, <1>2, <1>3 DEF ArchWidths

LEMMA ArchKept ==
    ASSUME TypeInv', ArchType, ArchWidths, arch' = arch \/ arch' = View'
    PROVE  ArchType' /\ ArchWidths'
  <1>1. CASE arch' = arch
    BY <1>1 DEF ArchType, ArchWidths
  <1>2. CASE arch' = View'
    BY <1>2, Arrived, ViewWidths
  <1> QED  BY <1>1, <1>2

\* What the steps of an opcode keep to is a matter of the CPU, its memories and arch.
Still == cpu' = cpu /\ port' = port /\ rom' = rom /\ rom_rdata' = rom_rdata /\ q' = q /\ ram' = ram /\ arch' = arch

LEMMA SameReads ==
    ASSUME Still
    PROVE  /\ Op' = Op /\ Imm' = Imm /\ Third' = Third /\ Imm16' = Imm16
           /\ Source' = Source /\ (FromRom' <=> FromRom) /\ First' = First /\ Second' = Second
           /\ Low' = Low /\ High' = High /\ Back' = Back /\ Below' = Below /\ After' = After
           /\ AluI' = AluI /\ AluM' = AluM
           /\ (Dry' <=> Dry) /\ Mem' = Mem /\ (Sought' <=> Sought) /\ (Sought2' <=> Sought2)
           /\ Shown' = Shown /\ (LowAsked' <=> LowAsked) /\ (HighAsked' <=> HighAsked)
  <1>1. Op' = Op /\ Imm' = Imm /\ Third' = Third /\ Imm16' = Imm16
    BY DEF Still, Op, Imm, Third, Imm16, Rom
  <1>2. Source' = Source /\ (FromRom' <=> FromRom)
    BY <1>1 DEF Still, Source, FromRom, InRom
  <1>3. First' = First /\ Second' = Second
    BY <1>2 DEF Still, First, Second, Rom, Kept
  <1>4. Low' = Low /\ High' = High /\ Back' = Back /\ Below' = Below /\ After' = After
    BY DEF Still, Low, High, Back, Below, After, Kept
  <1>5. AluI' = AluI /\ AluM' = AluM
    BY <1>1, <1>3 DEF Still, AluI, AluM
  <1>6. (Dry' <=> Dry) /\ Mem' = Mem
    BY DEF Still, Dry, Mem
  <1>7. /\ (Sought' <=> Sought) /\ (Sought2' <=> Sought2) /\ Shown' = Shown
        /\ (LowAsked' <=> LowAsked) /\ (HighAsked' <=> HighAsked)
    BY <1>2 DEF Still, Sought, Sought2, Shown, LowAsked, HighAsked
  <1> QED  BY <1>1, <1>2, <1>3, <1>4, <1>5, <1>6, <1>7

LEMMA SameRunning == ASSUME Still PROVE Running' <=> Running
  <1>1. /\ MidIncDec' <=> MidIncDec
        /\ MidAluI' <=> MidAluI
        /\ MidStore' <=> MidStore
        /\ MidLoad' <=> MidLoad
    BY SameReads DEF Still, MidIncDec, MidAluI, MidStore, MidLoad, Agrees, Wet
  <1>2. MidAluM' <=> MidAluM
    BY SameReads DEF Still, MidAluM, Agrees, Wet
  <1>3. /\ MidStepM' <=> MidStepM
        /\ MidPush' <=> MidPush
        /\ MidCall' <=> MidCall
    BY SameReads DEF Still, MidStepM, MidPush, MidCall, Agrees, Wet, Stacking
  <1>4. /\ MidPop' <=> MidPop
        /\ MidRetIf' <=> MidRetIf
        /\ MidRet' <=> MidRet
    BY SameReads DEF Still, MidPop, MidRetIf, MidRet, Agrees
  <1>5. /\ MidXthl' <=> MidXthl
        /\ MidShld' <=> MidShld
        /\ MidLhld' <=> MidLhld
    BY SameReads DEF Still, MidXthl, MidShld, MidLhld, Agrees, Wet
  <1>6. Between' <=> Between
    BY <1>1, <1>2, <1>3, <1>4, <1>5 DEF Between
  <1>7. (Decoded' <=> Decoded) /\ (Ready' <=> Ready)
    BY SameReads DEF Still, Decoded, Ready, Agrees
  <1> QED  BY <1>6, <1>7, SameReads DEF Still, Running

\* A request is raised: never while an interrupt is being taken, which ends before the next but
\* one instruction begins.
LEMMA RaiseGood ==
    ASSUME TypeInv, CycleInv, RequestInv, Raise
    PROVE  CycleInv' /\ RequestInv'
  <1>1. /\ since = MinGap /\ since' = 0 /\ int_old' = int_rst /\ int_rst' # int_rst /\ due' = int_rst'
        /\ int_rst' \in Vectors /\ due' # 0
        /\ cpu' = cpu /\ port' = port /\ rom' = rom /\ rom_rdata' = rom_rdata /\ q' = q /\ ram' = ram /\ arch' = arch
    BY DEF Raise, Vectors
  <1>a. since \in Nat
    BY CpuAssumption DEF TypeInv, IntType
  <1>2. since >= 3
    <2>1. MinGap \in Nat \ 0..2
      BY CpuAssumption
    <2> QED  BY <1>1, <2>1
  <1>3. ~cpu.int_op
    <2>1. ~(since <= 2)
      BY <1>2, <1>a
    <2>2. ~Taking
      BY <2>1 DEF Taking
    <2> QED  BY <2>2 DEF CycleInv
  <1>4. cpu.int_rst_prev = int_rst \/ Deaf
    <2>1. since >= 2
      BY <1>2, <1>a
    <2> QED  BY <2>1 DEF RequestInv
  <1>5. RequestInv'
    <2>1. Deaf' = Deaf
      BY <1>1 DEF Deaf
    <2>2. ~(since' >= 2)
      BY <1>1
    <2> QED  BY <1>1, <1>4, <2>1, <2>2 DEF RequestInv
  <1>6. CycleInv'
    <2>1. (Untouched' <=> Untouched) /\ (EarlyDone' <=> EarlyDone) /\ Op' = Op
      BY <1>1 DEF Untouched, EarlyDone, Agrees, Dry, Op, Rom
    <2>2. Running' <=> Running
      BY <1>1, SameRunning DEF Still
    <2> QED  BY <1>1, <1>3, <2>1, <2>2 DEF CycleInv
  <1> QED  BY <1>5, <1>6

\* The game is loaded anew: between two instructions, the next one begins from what there was.
LEMMA RestartSteps ==
    ASSUME TypeInv, NEW board \in BOOLEAN, Restart(board)
    PROVE  /\ cpu'.pc = 0 /\ cpu'.state = 0 /\ cpu'.func = cpu.func /\ cpu'.int_rst_prev = cpu.int_rst_prev
           /\ \A f \in Shared \ {"pc", "shift"} : cpu'[f] = cpu[f]
           /\ cpu'.shift = IF board THEN 0 ELSE cpu.shift
           /\ cpu'.int_enabled = IF board THEN FALSE ELSE cpu.int_enabled
           /\ cpu'.int_op = IF board THEN FALSE ELSE cpu.int_op
  <1>1. DOMAIN cpu = Fields
    BY DEF TypeInv, RegsType
  <1>2. DOMAIN cpu =
            {"state", "func", "op", "b2", "b3", "pc", "sp", "reg", "flag", "tmp", "tmp2", "set_flags",
             "cycles_remain", "opcode_unk", "can_debug", "int_enabled", "int_op", "int_rst_prev", "shift",
             "offset", "sound1", "sound2"}
    BY <1>1 DEF Fields
  <1>3. CASE board
    BY <1>2, <1>3 DEF Restart, Shared
  <1>4. CASE ~board
    BY <1>2, <1>4 DEF Restart, Shared
  <1> QED  BY <1>3, <1>4

LEMMA RestartGood ==
    ASSUME TypeInv, CycleInv, RequestInv, cpu.state = 0, NEW board \in BOOLEAN, Restart(board)
    PROVE  CycleInv' /\ RequestInv'
  <1>1. /\ cpu'.pc = 0 /\ cpu'.state = 0 /\ cpu'.func = cpu.func /\ cpu'.int_rst_prev = cpu.int_rst_prev
        /\ cpu'.int_enabled = IF board THEN FALSE ELSE cpu.int_enabled
        /\ cpu'.int_op = IF board THEN FALSE ELSE cpu.int_op
    BY RestartSteps
  <1>2. Untouched
    BY DEF CycleInv
  <1>3. cpu.func = 0 /\ ~cpu.int_op /\ ~port.wren
    BY <1>2 DEF Untouched, Dry
  <1>4. Memories /\ port' = port /\ arch' = View' /\ since' = since
    BY DEF Restart
  <1>5. /\ \A f \in Shared : arch'[f] = cpu'[f]
        /\ arch'.ie = cpu'.int_enabled /\ arch'.ram = ram'
    BY <1>4, Arrived
  <1>6. ~cpu'.int_op
    BY <1>1, <1>3
  <1>7. Untouched'
    BY <1>1, <1>3, <1>4, <1>5, <1>6 DEF Untouched, Agrees, Dry
  <1>8. CycleInv'
    BY <1>1, <1>6, <1>7 DEF CycleInv
  <1>9. /\ int_rst' = IF board THEN 0 ELSE int_rst
        /\ due' = IF board THEN 0 ELSE due
        /\ int_old' = int_rst'
    BY DEF Restart
  <1>10. RequestInv'
    <2>1. CASE board
      <3>1. Deaf'
        BY <1>1, <2>1 DEF Deaf
      <3> QED  BY <1>9, <2>1, <3>1 DEF RequestInv
    <2>2. CASE ~board
      <3>1. Deaf => Deaf'
        BY <1>1, <2>2 DEF Deaf
      <3> QED  BY <1>1, <1>3, <1>4, <1>9, <2>2, <3>1 DEF RequestInv
    <2> QED  BY <2>1, <2>2
  <1> QED  BY <1>8, <1>10

\* It is what Isa8080 calls a reload.
LEMMA RestartReloads ==
    ASSUME TypeInv, ArchType, CycleInv, cpu.state = 0, NEW board \in BOOLEAN, Restart(board)
    PROVE  \/ arch' = [arch EXCEPT !.pc = 0] /\ due' = due
           \/ arch' = [arch EXCEPT !.pc = 0, !.ie = FALSE, !.shift = 0] /\ due' = 0
  <1>1. Untouched
    BY DEF CycleInv
  <1>2. /\ \A f \in Shared : cpu[f] = arch[f]
        /\ cpu.int_enabled = arch.ie /\ ~port.wren /\ ram = arch.ram
    BY <1>1 DEF Untouched, Agrees, Dry
  <1>3. Memories /\ arch' = View' /\ due' = IF board THEN 0 ELSE due
    BY DEF Restart
  <1>4. ram' = ram
    BY <1>2, <1>3 DEF Memories
  <1>5. /\ ArchType'
        /\ \A f \in Shared : arch'[f] = cpu'[f]
        /\ arch'.ie = cpu'.int_enabled /\ arch'.ram = ram'
    BY <1>3, Arrived
  <1>6. /\ cpu'.pc = 0
        /\ \A f \in Shared \ {"pc", "shift"} : cpu'[f] = cpu[f]
        /\ cpu'.shift = IF board THEN 0 ELSE cpu.shift
        /\ cpu'.int_enabled = IF board THEN FALSE ELSE cpu.int_enabled
    BY RestartSteps
  <1>7. /\ arch'.pc = 0 /\ arch'.ram = arch.ram
        /\ \A f \in Shared \ {"pc", "shift"} : arch'[f] = arch[f]
    BY <1>2, <1>4, <1>5, <1>6 DEF Shared
  <1>8. CASE ~board
    <2>1. arch'.shift = arch.shift /\ arch'.ie = arch.ie
      BY <1>2, <1>5, <1>6, <1>8 DEF Shared
    <2>2. \A f \in ArchFields \ {"pc"} : arch'[f] = arch[f]
      BY <1>7, <2>1 DEF ArchFields
    <2>3. arch' = [arch EXCEPT !.pc = 0]
      BY <1>5, <1>7, <2>2 DEF ArchType
    <2> QED  BY <1>3, <1>8, <2>3
  <1>9. CASE board
    <2>1. arch'.shift = 0 /\ arch'.ie = FALSE
      BY <1>5, <1>6, <1>9 DEF Shared
    <2>2. \A f \in ArchFields \ {"pc", "shift", "ie"} : arch'[f] = arch[f]
      BY <1>7 DEF ArchFields
    <2>3. arch' = [arch EXCEPT !.pc = 0, !.ie = FALSE, !.shift = 0]
      BY <1>5, <1>7, <2>1, <2>2 DEF ArchType
    <2> QED  BY <1>3, <1>9, <2>3
  <1> QED  BY <1>8, <1>9

\* The first state: nothing is being done, and no request was seen.
LEMMA InitView ==
    ASSUME CpuInit
    PROVE  arch = I!PowerUp /\ ArchType /\ Agrees({}) /\ cpu.int_enabled = arch.ie /\ ram = arch.ram
  <1>1. arch = I!PowerUp
    BY DEF CpuInit, View, I!PowerUp, NoFlags, I!NoFlags, Registers, I!Registers
  <1>2. ArchType
    BY DEF CpuInit, View, ArchType, ArchFields, Shared
  <1>3. Agrees({}) /\ cpu.int_enabled = arch.ie /\ ram = arch.ram
    BY DEF CpuInit, View, Agrees, Shared
  <1> QED  BY <1>1, <1>2, <1>3

LEMMA InitIsaInv == ASSUME CpuInit PROVE IsaInv
  <1>1. ArchType /\ Agrees({}) /\ cpu.int_enabled = arch.ie /\ ram = arch.ram
    BY InitView
  <1>2. /\ cpu.state = 0 /\ cpu.func = 0 /\ ~cpu.int_op /\ ~cpu.int_enabled /\ cpu.int_rst_prev = 0
        /\ ~port.wren /\ int_rst = 0 /\ int_old = 0 /\ due = 0
    BY DEF CpuInit
  <1>3. ArchWidths
    <2>1. /\ arch.pc = 0 /\ arch.sp = 0 /\ arch.reg = [r \in Registers |-> 0] /\ arch.flag = NoFlags /\ arch.ram = <<>>
      BY DEF CpuInit, View
    <2>2. 0 \in Addr /\ 0 \in Byte /\ NoFlags \in Flags
      BY DEF Addr, Byte, Flags, NoFlags
    <2>3. DOMAIN <<>> = {}
      OBVIOUS
    <2> QED  BY <2>1, <2>2, <2>3 DEF ArchWidths
  <1>4. CycleInv
    <2>1. Untouched
      BY <1>1, <1>2 DEF Untouched, Dry
    <2> QED  BY <1>2, <2>1 DEF CycleInv
  <1>5. RequestInv
    <2>1. Deaf
      BY <1>2 DEF Deaf
    <2> QED  BY <1>2, <2>1 DEF RequestInv
  <1> QED  BY <1>1, <1>3, <1>4, <1>5 DEF IsaInv

LEMMA InitIsa == ASSUME CpuInit PROVE I!IsaInit
  <1>1. arch = I!PowerUp
    BY InitView
  <1>2. rom \in Programs /\ whole = TRUE /\ due = 0 /\ (int_old # int_rst) = FALSE
    BY DEF CpuInit
  <1>3. DOMAIN rom \subseteq 0..8191 /\ \A a \in DOMAIN rom : rom[a] \in Byte
    BY <1>2, CpuAssumption
  <1> QED  BY <1>1, <1>2, <1>3 DEF I!IsaInit, I!Byte, Byte

----------------------------------------------------------------------------
(* Every step keeps to the invariant, and is one of Isa8080 or none. *)

LEMMA ArchChanges ==
    ASSUME TypeInv, CpuNext
    PROVE  (arch' = arch \/ arch' = View') /\ (whole' => whole) /\ rom' = rom
  <1>1. CASE Clock
    BY <1>1 DEF Clock, Memories
  <1>2. CASE Raise
    BY <1>2 DEF Raise
  <1>3. CASE \E board \in BOOLEAN : Restart(board)
    <2>1. PICK board \in BOOLEAN : Restart(board)
      BY <1>3
    <2>2. Memories /\ arch' = View' /\ whole' = (whole /\ cpu.state = 0)
      BY <2>1 DEF Restart
    <2>3. rom' = rom
      BY <2>2 DEF Memories
    <2>4. whole' => whole
      BY <2>2
    <2> QED  BY <2>2, <2>3, <2>4
  <1> QED  BY <1>1, <1>2, <1>3 DEF CpuNext

LEMMA NextInv == ASSUME TypeInv, TypeInv', IsaInv, CpuNext PROVE IsaInv'
  <1>1. ArchType /\ ArchWidths /\ (whole => CycleInv /\ RequestInv)
    BY DEF IsaInv
  <1>2. ArchType' /\ ArchWidths'
    BY <1>1, ArchChanges, ArchKept
  <1>3. ASSUME whole' PROVE CycleInv' /\ RequestInv'
    <2>1. CycleInv /\ RequestInv
      BY <1>1, <1>3, ArchChanges
    <2>2. CASE Clock
      BY <1>1, <2>1, <2>2, ClockGood DEF EdgeGood
    <2>3. CASE Raise
      BY <2>1, <2>3, RaiseGood
    <2>4. ASSUME NEW board \in BOOLEAN, Restart(board) PROVE CycleInv' /\ RequestInv'
      <3>1. cpu.state = 0
        BY <1>3, <2>4 DEF Restart
      <3> QED  BY <2>1, <2>4, <3>1, RestartGood
    <2> QED  BY <2>2, <2>3, <2>4 DEF CpuNext
  <1> QED  BY <1>2, <1>3 DEF IsaInv

LEMMA StillInv == ASSUME IsaInv, UNCHANGED cpuVars PROVE IsaInv'
  <1>1. Still /\ whole' = whole /\ int_rst' = int_rst /\ int_old' = int_old /\ since' = since /\ due' = due
    BY DEF Still
  <1>2. (Untouched' <=> Untouched) /\ (Taking' <=> Taking) /\ (EarlyDone' <=> EarlyDone) /\ Op' = Op
    BY <1>1 DEF Still, Untouched, Taking, EarlyDone, Agrees, Dry, Stacking, Wet, Mem, Below, Op, Rom
  <1>3. CycleInv' <=> CycleInv
    BY <1>1, <1>2, SameRunning DEF Still, CycleInv
  <1>4. RequestInv' <=> RequestInv
    BY <1>1 DEF Still, RequestInv, Deaf
  <1>5. (ArchType' <=> ArchType) /\ (ArchWidths' <=> ArchWidths)
    BY <1>1 DEF Still, ArchType, ArchWidths
  <1> QED  BY <1>1, <1>3, <1>4, <1>5 DEF IsaInv

LEMMA ClockMaps ==
    ASSUME TypeInv, IsaInv, whole, Clock
    PROVE  I!IsaNext \/ UNCHANGED I!isaVars
  <1>1. EdgeGood
    BY ClockGood DEF IsaInv
  <1>2. whole' = whole /\ rom' = rom /\ int_old' = int_rst /\ int_rst' = int_rst
    BY DEF Clock, Memories
  <1>3. (int_old # int_rst)' = FALSE
    BY <1>2
  <1>4. CASE Unseen
    <2>1. CASE due' = due /\ int_old = int_rst
      <3>1. (int_old # int_rst)' = (int_old # int_rst)
        BY <1>3, <2>1
      <3> QED  BY <1>2, <1>4, <2>1, <3>1 DEF Unseen, I!isaVars
    <2>2. CASE ~(due' = due /\ int_old = int_rst)
      <3>1. ~arch.ie \/ int_old # int_rst
        BY <1>4, <2>2 DEF Unseen
      <3>2. I!Lose
        BY <1>2, <1>3, <1>4, <3>1 DEF Unseen, I!Lose
      <3> QED  BY <3>2 DEF I!IsaNext
    <2> QED  BY <2>1, <2>2
  <1>5. CASE Interrupted
    <2>1. I!Interrupt
      BY <1>2, <1>3, <1>5 DEF Interrupted, I!Interrupt
    <2> QED  BY <2>1 DEF I!IsaNext
  <1>6. CASE Executed /\ due' = due
    <2>1. I!Instruction
      BY <1>2, <1>3, <1>6 DEF Executed, I!Instruction
    <2> QED  BY <2>1 DEF I!IsaNext
  <1> QED  BY <1>1, <1>4, <1>5, <1>6 DEF EdgeGood

LEMMA RaiseMaps == ASSUME Raise PROVE I!IsaNext
  <1>1. PICK v \in Vectors \ {int_rst} : int_rst' = v /\ due' = v
    BY DEF Raise
  <1>2. int_old' = int_rst /\ arch' = arch /\ rom' = rom /\ whole' = whole
    BY DEF Raise
  <1>3. (int_old # int_rst)' = TRUE
    BY <1>1, <1>2
  <1>4. v \in I!Vectors
    BY <1>1 DEF Vectors, I!Vectors
  <1>5. I!Raise(v)
    BY <1>1, <1>2, <1>3 DEF I!Raise
  <1> QED  BY <1>4, <1>5 DEF I!IsaNext

LEMMA RestartMaps ==
    ASSUME TypeInv, IsaInv, whole', NEW board \in BOOLEAN, Restart(board)
    PROVE  I!IsaNext
  <1>1. whole /\ cpu.state = 0 /\ whole' = whole /\ rom' = rom /\ int_old' = int_rst'
    <2>1. Memories /\ whole' = (whole /\ cpu.state = 0) /\ int_old' = int_rst'
      BY DEF Restart
    <2>2. whole \in BOOLEAN
      BY DEF TypeInv, IntType
    <2>3. rom' = rom
      BY <2>1 DEF Memories
    <2> QED  BY <2>1, <2>2, <2>3
  <1>2. ArchType /\ CycleInv
    BY <1>1 DEF IsaInv
  <1>3. \/ arch' = [arch EXCEPT !.pc = 0] /\ due' = due
        \/ arch' = [arch EXCEPT !.pc = 0, !.ie = FALSE, !.shift = 0] /\ due' = 0
    BY <1>1, <1>2, RestartReloads
  <1>4. (int_old # int_rst)' = FALSE
    BY <1>1
  <1>5. I!Reload
    BY <1>1, <1>3, <1>4 DEF I!Reload
  <1> QED  BY <1>5 DEF I!IsaNext

LEMMA NextMaps ==
    ASSUME TypeInv, TypeInv', IsaInv, CpuNext
    PROVE  I!IsaNext \/ UNCHANGED I!isaVars
  <1>1. CASE ~whole'
    <2>1. whole' = FALSE
      BY <1>1 DEF TypeInv, IntType
    <2>2. I!Cut
      BY <2>1, ArchChanges DEF I!Cut
    <2> QED  BY <2>2 DEF I!IsaNext
  <1>2. CASE whole'
    <2>1. whole
      BY <1>2, ArchChanges
    <2>2. CASE Clock
      BY <2>1, <2>2, ClockMaps
    <2>3. CASE Raise
      BY <2>3, RaiseMaps
    <2>4. ASSUME NEW board \in BOOLEAN, Restart(board) PROVE I!IsaNext
      BY <1>2, <2>4, RestartMaps
    <2> QED  BY <2>2, <2>3, <2>4 DEF CpuNext
  <1> QED  BY <1>1, <1>2

\* The invariant: at every edge the registers, the port, the bytes asked for and the byte on its way to the
\* RAM are those the instruction that is being done has made of what it began with, and an interrupt is being
\* taken only if one is due (the always block of cpu.v, line 315).
THEOREM IsaInvariant == CpuSpec => []IsaInv
  <1>1. TypeInv /\ TypeInv' /\ IsaInv /\ [CpuNext]_cpuVars => IsaInv'
    BY NextInv, StillInv
  <1> QED  BY CpuTypesInvariant, InitIsaInv, <1>1, PTL DEF CpuSpec

\* The CPU does what Isa8080 promises to the program: edge by edge each opcode of cpu.v comes to its one step
\* on the registers, the flags, the memory and the ports, each interrupt is taken once, between two
\* instructions, on its own vector, and a restart between two instructions begins the program anew.
THEOREM ImplementsIsaHolds == CpuSpec => ImplementsIsa
  <1>1. TypeInv /\ TypeInv' /\ IsaInv /\ [CpuNext]_cpuVars => [I!IsaNext]_(I!isaVars)
    <2>1. ASSUME UNCHANGED cpuVars PROVE UNCHANGED I!isaVars
      BY <2>1 DEF I!isaVars
    <2> QED  BY NextMaps, <2>1
  <1> QED  BY CpuTypesInvariant, IsaInvariant, InitIsa, <1>1, PTL DEF CpuSpec, ImplementsIsa, I!Isa
=============================================================================
