------------------------------ MODULE Alu8080 -------------------------------
(***************************************************************************)
(* The data path of the CPU (cpu.v): its registers, flags and opcodes, and  *)
(* what the arithmetic of each opcode computes, in the widths of the        *)
(* source.  Opcodes are the bytes of the source, grouped by what they do;   *)
(* an opcode names its registers by the bit fields of the 8080, which the   *)
(* cases of the source, written out one by one, all follow.                 *)
(***************************************************************************)
EXTENDS Integers, FiniteSets

Byte == 0..255
Addr == 0..65535
Bit(b) == IF b THEN 1 ELSE 0

Registers == {"A", "B", "C", "D", "E", "H", "L"}
Dst(op) == <<"B", "C", "D", "E", "H", "L", "M", "A">>[((op \div 8) % 8) + 1]
Src(op) == <<"B", "C", "D", "E", "H", "L", "M", "A">>[(op % 8) + 1]
Pair(op) == << <<"B", "C">>, <<"D", "E">>, <<"H", "L">> >>[((op \div 16) % 4) + 1]

Word(r, p) == r[p[1]] * 256 + r[p[2]]
WithWord(r, p, w) == [r EXCEPT ![p[1]] = w \div 256, ![p[2]] = w % 256]
HL(r) == Word(r, <<"H", "L">>)

----------------------------------------------------------------------------
(* The opcodes the CPU knows, by what they do. *)
MOV_R == {\h41, \h47, \h48, \h4F, \h51, \h57, \h5F, \h61, \h62, \h63, \h65, \h67,
          \h68, \h69, \h6A, \h6B, \h6F, \h78, \h79, \h7A, \h7B, \h7C, \h7D, \h7F}
INX == {\h03, \h13, \h23}
DCX == {\h0B, \h1B, \h2B}
DAD == {\h09, \h19, \h29}
LOGIC == {\hA7, \hA8, \hAF, \hB0, \hB4}          \* with a register, decoded in state 3
PLAIN == MOV_R \cup INX \cup DCX \cup DAD \cup LOGIC
            \cup {\h00, \h07, \h0F, \h1F, \h27, \h2F, \h37, \hEB, \hFB}
EARLY_INR == {\h0C, \h1C, \h2C, \h3C}
EARLY == EARLY_INR \cup {\h80, \h81, \h82, \h83, \h85, \h8A, \h8B, \h97, \hA0, \hB8, \hBC}
INR == {\h04, \h14, \h24}
DCR == {\h05, \h0D, \h15, \h3D}
MOV_M == {\h70, \h71, \h77}
STORE == {\h02, \h12, \h32, \h36} \cup MOV_M
FROM_M == {\h46, \h4E, \h56, \h5E, \h66, \h7E}
LOAD == {\h0A, \h1A, \h3A} \cup FROM_M
ALU_M == {\h86, \hA6, \hB6, \hBE}
STEP_M == {\h34, \h35}                           \* INR M, DCR M
PUSH == {\hC5, \hD5, \hE5, \hF5}
POP == {\hC1, \hD1, \hE1, \hF1}
RET_IF == {\hC0, \hC8, \hD0, \hD8}
MVI == {\h06, \h0E, \h16, \h26, \h2E, \h3E}
ALU_I == {\hC6, \hD6, \hDE, \hE6, \hF6, \hFE}
LXI == {\h01, \h11, \h21, \h31}
JUMP == {\hC2, \hC3, \hCA, \hD2, \hDA, \hFA}
CALL == {\hC4, \hCC, \hCD, \hD4}

\* Opcodes by the length the decoder gives them: the byte after is read in state 3,
\* the one after that in state 4.
TwoBytes == MVI \cup ALU_I \cup {\h36, \hD3, \hDB}
ThreeBytes == LXI \cup JUMP \cup CALL \cup {\h22, \h2A, \h32, \h3A}
OneByte == PLAIN \cup EARLY \cup INR \cup DCR \cup (STORE \ {\h32, \h36})
              \cup (LOAD \ {\h3A}) \cup ALU_M \cup STEP_M \cup PUSH \cup POP \cup RET_IF
              \cup {\hC9, \hE3, \hE9}
Bytes(op) == IF op \in ThreeBytes THEN 3 ELSE IF op \in TwoBytes THEN 2 ELSE 1

----------------------------------------------------------------------------
(* Bits and flags. *)
BitOf(x, w) == (x \div w) % 2                     \* the bit of weight w
Weights == {1, 2, 4, 8, 16, 32, 64, 128}
Ones(x) == {w \in Weights : BitOf(x, w) = 1}
Value(ones) == LET v(w) == IF w \in ones THEN w ELSE 0
               IN  v(1) + v(2) + v(4) + v(8) + v(16) + v(32) + v(64) + v(128)
And(x, y) == Value(Ones(x) \cap Ones(y))
Xor(x, y) == Value((Ones(x) \ Ones(y)) \cup (Ones(y) \ Ones(x)))
Or(x, y) == Value(Ones(x) \cup Ones(y))
EvenOnes(x) == Bit(Cardinality(Ones(x)) % 2 = 0)

Flags == [s : {0, 1}, z : {0, 1}, p : {0, 1}, carry : {0, 1}, ac : {0, 1}]

\* The flags most results set: CPU_ac is whether the low digit is above 9.
SZP(f, x) == [f EXCEPT !.s = x \div 128, !.z = Bit(x = 0), !.p = EvenOnes(x),
                       !.ac = Bit(x % 16 > 9)]

\* PUSH PSW and POP PSW.
Packed(f) == f.s * 128 + f.z * 64 + f.ac * 16 + f.p * 4 + 2 + f.carry
Unpacked(x) == [s |-> BitOf(x, 128), z |-> BitOf(x, 64), ac |-> BitOf(x, 16),
                p |-> BitOf(x, 4), carry |-> BitOf(x, 1)]

\* The condition of RET_IF, JUMP and CALL; C3 and CD have none.
Holds(op, f) ==
    \/ op \in {\hC3, \hCD}
    \/ <<f.z, f.z, f.carry, f.carry, f.p, f.p, f.s, f.s>>[((op \div 8) % 8) + 1]
           = (op \div 8) % 2

----------------------------------------------------------------------------
(* Arithmetic.  The row is that of the 8080: ADD ADC SUB SBB ANA XRA ORA    *)
(* CMP.  SBB compares with an operand cut to eight bits, as the source does. *)
Row(op) == (op \div 8) % 8
Arith(op, a, x, c) ==
    CASE Row(op) = 0 -> [val |-> (a + x) % 256, carry |-> (a + x) \div 256]
      [] Row(op) = 1 -> [val |-> (a + x + c) % 256, carry |-> (a + x + c) \div 256]
      [] Row(op) = 3 -> [val |-> (a - x - c) % 256, carry |-> Bit(a < (x + c) % 256)]
      [] Row(op) = 4 -> [val |-> And(a, x), carry |-> 0]
      [] Row(op) = 5 -> [val |-> Xor(a, x), carry |-> 0]
      [] Row(op) = 6 -> [val |-> Or(a, x), carry |-> 0]
      [] OTHER -> [val |-> (a - x) % 256, carry |-> Bit(a < x)]

\* Registers and flags after the accumulator met operand x.
Accumulate(op, r, f, x) ==
    LET e == Arith(op, r["A"], x, f.carry)
        g == SZP([f EXCEPT !.carry = e.carry], e.val)
    IN  [reg |-> IF Row(op) = 7 THEN r ELSE [r EXCEPT !["A"] = e.val],
         flag |-> IF op \in LOGIC \cup {\hA6, \hB6} THEN [g EXCEPT !.ac = 0] ELSE g]

\* Decimal adjustment, the combinational block OP_daa_*.
Daa(r, f) ==
    LET a == r["A"]
        low == a % 16 > 9 \/ f.ac = 1
        b == IF low THEN (a + 6) % 256 ELSE a
        high == b \div 16 > 9 \/ f.carry = 1
        d == IF high THEN (b + 96) % 256 ELSE b
    IN  [reg |-> [r EXCEPT !["A"] = d],
         flag |-> [SZP(f, d) EXCEPT !.ac = Bit(low /\ a % 16 >= 9),
                                    !.carry = Bit(high /\ b \div 16 >= 9)]]

Rotate(op, r, f) ==
    LET a == r["A"]
        out == IF op = \h07 THEN a \div 128 ELSE a % 2
        b == CASE op = \h07 -> ((2 * a) % 256) + out
               [] op = \h0F -> a \div 2 + 128 * out
               [] op = \h1F -> a \div 2 + 128 * f.carry
    IN  [reg |-> [r EXCEPT !["A"] = b], flag |-> [f EXCEPT !.carry = out]]

\* INR and DCR of register or memory byte: the value, and flags but the carry.
Stepped(op, x) == IF op % 2 = 0 THEN (x + 1) % 256 ELSE (x - 1) % 256

\* Registers and flags after an opcode that needs no memory and one cycle.
Plain(op, r, f) ==
    LET w == Word(r, Pair(op))
        sum == HL(r) + w
        Only(s) == [reg |-> s, flag |-> f]
    IN  CASE op \in {\h00, \hFB} -> Only(r)
          [] op \in MOV_R -> Only([r EXCEPT ![Dst(op)] = r[Src(op)]])
          [] op \in INX -> Only(WithWord(r, Pair(op), (w + 1) % 65536))
          [] op \in DCX -> Only(WithWord(r, Pair(op), (w - 1) % 65536))
          [] op \in DAD -> [reg |-> WithWord(r, <<"H", "L">>, sum % 65536),
                            flag |-> [f EXCEPT !.carry = sum \div 65536]]
          [] op \in LOGIC -> Accumulate(op, r, f, r[Src(op)])
          [] op \in {\h07, \h0F, \h1F} -> Rotate(op, r, f)
          [] op = \h27 -> Daa(r, f)
          [] op = \h2F -> Only([r EXCEPT !["A"] = 255 - @])
          [] op = \h37 -> [reg |-> r, flag |-> [f EXCEPT !.carry = 1]]
          [] op = \hEB -> Only([r EXCEPT !["D"] = r["H"], !["E"] = r["L"],
                                         !["H"] = r["D"], !["L"] = r["E"]])

\* Registers, flags and tmp after an opcode of state 2; its flags follow from tmp.
Early(op, r, f) ==
    IF op \in EARLY_INR
      THEN LET x == (r[Dst(op)] + 1) % 256
           IN  [reg |-> [r EXCEPT ![Dst(op)] = x], carry |-> f.carry, tmp |-> x]
      ELSE LET e == Arith(op, r["A"], r[Src(op)], f.carry)
           IN  [reg |-> IF Row(op) = 7 THEN r ELSE [r EXCEPT !["A"] = e.val],
                carry |-> e.carry, tmp |-> e.val]

----------------------------------------------------------------------------
(* Where the memory operand of an opcode is, and what it holds. w is the    *)
(* word that follows the opcode.                                            *)
StoreAddr(op, r, w) ==
    IF op = \h32 THEN w ELSE IF op \in {\h02, \h12} THEN Word(r, Pair(op)) ELSE HL(r)
StoreByte(op, r, imm) ==
    IF op = \h36 THEN imm ELSE IF op \in MOV_M THEN r[Src(op)] ELSE r["A"]
LoadAddr(op, r, w) ==
    IF op = \h3A THEN w ELSE IF op \in {\h0A, \h1A} THEN Word(r, Pair(op)) ELSE HL(r)
LoadReg(op) == IF op \in FROM_M THEN Dst(op) ELSE "A"

\* A memory, with byte x at place i: a function on the places that were written.
Put(m, i, x) == [j \in DOMAIN m \cup {i} |-> IF j = i THEN x ELSE m[j]]

\* PUSH: the two bytes; F5 pushes A and the flags.
PushHigh(op, r) == IF op = \hF5 THEN r["A"] ELSE r[Pair(op)[1]]
PushLow(op, r, f) == IF op = \hF5 THEN Packed(f) ELSE r[Pair(op)[2]]

\* The input ports: buttons of the first player, tilt (the switches are all off), and
\* eight bits of the shift register from bit 15 - offset down.
Port(n, keys, shift, offset) ==
    LET Key(b, weight) == IF b \in keys THEN weight ELSE 0
    IN  <<Key(6, 64) + Key(4, 32) + Key(5, 16) + 8 + Key(15, 4) + Key(13, 1),
          Key(14, 4),
          (shift \div <<256, 128, 64, 32, 16, 8, 4, 2>>[offset + 1]) % 256>>[n]
=============================================================================
