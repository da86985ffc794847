------------------------------ MODULE Isa8080 -------------------------------
(***************************************************************************)
(* What the CPU promises to the program in its ROM: each instruction and    *)
(* each interrupt is one step on the program counter, the stack pointer,    *)
(* the registers, the flags, the memory and the ports.                      *)
(***************************************************************************)
EXTENDS Alu8080

CONSTANTS
    RAM_START,      \* addresses from here on are read from the RAM ($2000)
    Keys            \* the sets of bits gamepad_key may have up

VARIABLES
    arch,     \* the state a program sees
    rom,      \* the program: a function on the addresses that are not 0
    due,      \* the vector of an interrupt that was raised and not taken, or 0
    whole,    \* the promise stands
    fresh     \* it was raised since the clock edge before

isaVars == <<arch, rom, whole, due, fresh>>

Vectors == {\h8, \h10}
NoFlags == [s |-> 0, z |-> 0, p |-> 0, carry |-> 0, ac |-> 0]
PowerUp == [pc |-> 0, sp |-> 0, reg |-> [r \in Registers |-> 0], flag |-> NoFlags,
            ie |-> FALSE, ram |-> <<>>, shift |-> 0, offset |-> 0,
            sound1 |-> 0, sound2 |-> 0]

IsaInit == /\ arch = PowerUp
           /\ DOMAIN rom \subseteq 0..8191 /\ \A a \in DOMAIN rom : rom[a] \in Byte
           /\ whole = TRUE /\ due = 0 /\ fresh = FALSE

\* Two memories: 8192 bytes that only LOAD, ALU_M and LHLD may see, and 16384.
Rom(a) == LET i == a % 8192 IN IF i \in DOMAIN rom THEN rom[i] ELSE 0
Ram(a) == LET i == a % 16384 IN IF i \in DOMAIN arch.ram THEN arch.ram[i] ELSE 0
Stored(m, a, x) == Put(m, a % 16384, x % 256)
StoredWord(m, a, hi, lo) == Stored(Stored(m, a + 1, hi), a, lo)

\* LDAX B reads the ROM only, arithmetic but CMP the RAM only.
Seen(op, a) ==
    IF op = \h0A \/ (op \in LOAD \cup {\hBE, \h2A} /\ a < RAM_START)
      THEN Rom(a) ELSE Ram(a)

Op == Rom(arch.pc)
Imm == Rom(arch.pc + 1)
Imm16 == Rom(arch.pc + 2) * 256 + Imm

Then(a) == arch' = [a EXCEPT !.pc = (@ + Bytes(Op)) % 65536]
Jump(a, target) == arch' = [a EXCEPT !.pc = target]
\* The stack pointer when a word was pushed, and when one was popped.
Below == (arch.sp - 2) % 65536
Above == (arch.sp + 2) % 65536
Pushed(hi, lo) == [arch EXCEPT !.sp = Below, !.ram = StoredWord(@, Below, hi, lo)]
Top == <<Ram(arch.sp + 1), Ram(arch.sp)>>

----------------------------------------------------------------------------
Quiet ==
    /\ Op \in PLAIN
    /\ LET e == Plain(Op, arch.reg, arch.flag)
       IN  Then([arch EXCEPT !.reg = e.reg, !.flag = e.flag, !.ie = @ \/ Op = \hFB])

Arithmetic ==
    \/ /\ Op \in EARLY
       /\ LET e == Early(Op, arch.reg, arch.flag)
          IN  Then([arch EXCEPT !.reg = e.reg,
                                !.flag = SZP([@ EXCEPT !.carry = e.carry], e.tmp)])
    \/ /\ Op \in INR \cup DCR
       /\ LET x == Stepped(Op, arch.reg[Dst(Op)])
          IN  Then([arch EXCEPT !.reg[Dst(Op)] = x, !.flag = SZP(@, x)])
    \/ /\ Op \in STEP_M
       /\ LET x == Stepped(Op, Ram(HL(arch.reg)))
          IN  Then([arch EXCEPT !.ram = Stored(@, HL(arch.reg), x), !.flag = SZP(@, x)])
    \/ /\ Op \in ALU_I \cup ALU_M
       /\ LET x == IF Op \in ALU_I THEN Imm ELSE Seen(Op, HL(arch.reg))
              e == Accumulate(Op, arch.reg, arch.flag, x)
          IN  Then([arch EXCEPT !.reg = e.reg, !.flag = e.flag])

Move ==
    \/ /\ Op \in STORE
       /\ Then([arch EXCEPT !.ram = Stored(@, StoreAddr(Op, arch.reg, Imm16),
                                           StoreByte(Op, arch.reg, Imm))])
    \/ /\ Op \in LOAD
       /\ Then([arch EXCEPT !.reg[LoadReg(Op)] = Seen(Op, LoadAddr(Op, arch.reg, Imm16))])
    \/ /\ Op \in MVI
       /\ Then([arch EXCEPT !.reg[Dst(Op)] = Imm])
    \/ /\ Op \in LXI \ {\h31}
       /\ Then([arch EXCEPT !.reg = WithWord(@, Pair(Op), Imm16)])
    \/ /\ Op = \h22
       /\ Then([arch EXCEPT !.ram = StoredWord(@, Imm16, arch.reg["H"], arch.reg["L"])])
    \/ /\ Op = \h2A
       /\ LET In(a) == IF Imm16 < RAM_START THEN Rom(a) ELSE Ram(a)
          IN  Then([arch EXCEPT !.reg["H"] = In(Imm16 + 1), !.reg["L"] = In(Imm16)])

Stack ==
    \/ /\ Op = \h31
       /\ Then([arch EXCEPT !.sp = Imm16])
    \/ /\ Op \in PUSH
       /\ Then(Pushed(PushHigh(Op, arch.reg), PushLow(Op, arch.reg, arch.flag)))
    \/ /\ Op = \hF1
       /\ Then([arch EXCEPT !.sp = Above, !.reg["A"] = Top[1], !.flag = Unpacked(Top[2])])
    \/ /\ Op \in POP \ {\hF1}
       /\ Then([arch EXCEPT !.sp = Above,
                            !.reg = WithWord(@, Pair(Op), Top[1] * 256 + Top[2])])
    \/ /\ Op = \hE3
       /\ Then([arch EXCEPT !.ram = StoredWord(@, arch.sp, arch.reg["H"], arch.reg["L"]),
                            !.reg["H"] = Top[1], !.reg["L"] = Top[2]])

Branch ==
    \/ /\ Op \in JUMP /\ Holds(Op, arch.flag)
       /\ Jump(arch, Imm16)
    \/ /\ Op \in CALL /\ Holds(Op, arch.flag)
       /\ LET after == (arch.pc + 3) % 65536
          IN  Jump(Pushed(after \div 256, after % 256), Imm16)
    \/ /\ Op \in RET_IF \cup {\hC9} /\ (Op = \hC9 \/ Holds(Op, arch.flag))
       /\ Jump([arch EXCEPT !.sp = Above], Top[1] * 256 + Top[2])
    \/ /\ Op \in JUMP \cup CALL \cup RET_IF /\ ~Holds(Op, arch.flag)
       /\ Then(arch)
    \/ /\ Op = \hE9
       /\ Jump(arch, HL(arch.reg))

In ==
    /\ Op = \hDB
    /\ \/ /\ Imm \in {1, 2, 3}
          /\ \E k \in Keys :
               Then([arch EXCEPT !.reg["A"] = Port(Imm, k, arch.shift, arch.offset)])
       \/ Imm \notin {1, 2, 3} /\ Then(arch)      \* and stops

Out ==
    LET a == arch.reg["A"]
    IN  /\ Op = \hD3
        /\ \/ Imm = 6 /\ Then(arch)
           \/ Imm = 2 /\ Then([arch EXCEPT !.offset = a % 8])
           \/ Imm = 3 /\ Then([arch EXCEPT !.sound1 = a])
           \/ Imm = 4 /\ Then([arch EXCEPT !.shift = a * 256 + @ \div 256])
           \/ Imm = 5 /\ Then([arch EXCEPT !.sound2 = a])

Instruction ==
    /\ Quiet \/ Arithmetic \/ Move \/ Stack \/ Branch \/ In \/ Out
    /\ fresh' = FALSE /\ UNCHANGED <<rom, whole, due>>

\* The CPU is interrupted between two instructions: it will return to where it was.
Interrupt ==
    /\ arch.ie /\ due # 0
    /\ Jump([Pushed(arch.pc \div 256, arch.pc % 256) EXCEPT !.ie = FALSE], due)
    /\ due' = 0 /\ fresh' = FALSE
    /\ UNCHANGED <<rom, whole>>

Raise(v) == due' = v /\ fresh' = TRUE /\ UNCHANGED <<arch, rom, whole>>

\* An interrupt that meets the CPU with interrupts disabled is lost, and so may be
\* one whose request changes in the cycle in which it is looked at.
Lose ==
    /\ ~arch.ie \/ fresh
    /\ due' \in {due, 0} /\ fresh' = FALSE
    /\ UNCHANGED <<arch, rom, whole>>

\* The game is loaded anew: the program begins again, with the registers as they were.
\* The board's reset disables interrupts and clears the shift register.
Reload ==
    /\ \/ arch' = [arch EXCEPT !.pc = 0] /\ UNCHANGED due
       \/ arch' = [arch EXCEPT !.pc = 0, !.ie = FALSE, !.shift = 0] /\ due' = 0
    /\ fresh' = FALSE /\ UNCHANGED <<rom, whole>>

\* Within an instruction it leaves the CPU where nothing is promised any more.
Cut == whole' = FALSE /\ UNCHANGED rom

IsaNext == Instruction \/ Interrupt \/ (\E v \in Vectors : Raise(v)) \/ Lose \/ Reload \/ Cut
Isa == IsaInit /\ [][IsaNext]_isaVars
=============================================================================
