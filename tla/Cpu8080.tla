------------------------------ MODULE Cpu8080 -------------------------------
(***************************************************************************)
(* The CPU (cpu.v), one clock edge per step: the states of the instruction  *)
(* cycle with the steps (func_state) of each opcode, the two memories that  *)
(* answer a cycle late, the interrupts the renderer raises from its own     *)
(* clock, and the end of game_ready.                                        *)
(*                                                                          *)
(* int_rst is read by several registers.  In the first cycle after a change *)
(* each of them may see any mixture of old and new bits.                    *)
(***************************************************************************)
EXTENDS Alu8080

CONSTANTS
    CYCLE_MULTIPLICATOR,    \* CPU clock edges per cycle of the 8080 (4)
    RAM_START,              \* $2000
    Programs,               \* the contents of the ROM: functions, 0 elsewhere
    Keys,                   \* the sets of bits gamepad_key may have up
    MinGap,                 \* instructions between two interrupt requests, at least (3 or more)
    Asked,                  \* bound: the programs during which interrupts are requested
    Reloaded,               \* bound: the programs a run loads anew
    MaxRestarts             \* bound: how often it does

ASSUME CpuAssumption ==
    /\ CYCLE_MULTIPLICATOR \in Nat \ {0} /\ RAM_START \in Addr
    /\ \A p \in Programs : DOMAIN p \subseteq 0..8191 /\ \A a \in DOMAIN p : p[a] \in Byte
    /\ MinGap \in Nat \ 0..2 /\ Asked \cup Reloaded \subseteq Programs
    /\ MaxRestarts \in Nat

VARIABLES
    cpu,           \* the registers of the clocked block
    port,          \* VIDEO_mem_wren, VIDEO_memA_addr, VIDEO_mem_wdata, cpu_rom_raddr
    q, rom_rdata,  \* what the RAM (VIDEO_memA_rdata) and the ROM show
    rom, ram,      \* their contents
    int_rst,       \* the renderer's request
    int_old,       \* its value before the clock edge to come, equal when it is settled
    since,         \* instructions begun since it changed
    restarts,
    (* history *)
    arch,          \* what a program could see when the last instruction ended
    whole,         \* no instruction was cut short by a restart
    due,           \* the interrupt raised and neither taken nor lost, or 0
    wrenRun        \* cycles in a row with VIDEO_mem_wren up, 3 for more

memVars == <<port, q, rom_rdata, rom, ram>>
intVars == <<int_rst, int_old, since>>
cpuHistory == <<arch, whole, due, wrenRun>>
cpuVars == <<cpu, memVars, intVars, restarts, cpuHistory>>

\* The addresses of the memory ports and of the RAM.
BusAddr == 0..32767
RamAddr == 0..16383
RomAddr == 0..8191

Vectors == {\h8, \h10}
NoFlags == [s |-> 0, z |-> 0, p |-> 0, carry |-> 0, ac |-> 0]
View == [pc |-> cpu.pc, sp |-> cpu.sp, reg |-> cpu.reg, flag |-> cpu.flag,
         ie |-> cpu.int_enabled, ram |-> ram, shift |-> cpu.shift, offset |-> cpu.offset,
         sound1 |-> cpu.sound1, sound2 |-> cpu.sound2]

CpuInit ==
    /\ cpu = [state |-> 0, func |-> 0, op |-> 0, b2 |-> 0, b3 |-> 0, pc |-> 0, sp |-> 0,
              reg |-> [r \in Registers |-> 0], flag |-> NoFlags, tmp |-> 0, tmp2 |-> 0,
              set_flags |-> FALSE, cycles_remain |-> 0, opcode_unk |-> FALSE,
              can_debug |-> FALSE, int_enabled |-> FALSE, int_op |-> FALSE,
              int_rst_prev |-> 0, shift |-> 0, offset |-> 0, sound1 |-> 0, sound2 |-> 0]
    /\ port = [wren |-> FALSE, addr |-> 0, data |-> 0, raddr |-> 0]
    /\ q = 0 /\ rom_rdata = 0 /\ rom \in Programs /\ ram = <<>>
    /\ int_rst = 0 /\ int_old = 0 /\ since = MinGap /\ restarts = 0
    /\ arch = View /\ whole = TRUE /\ due = 0 /\ wrenRun = 0

----------------------------------------------------------------------------
(* The memories at a clock edge, and the port of the clocked block. *)
Rom(a) == LET i == a % 8192 IN IF i \in DOMAIN rom THEN rom[i] ELSE 0
Ram(a) == LET i == a % 16384 IN IF i \in DOMAIN ram THEN ram[i] ELSE 0

\* The RAM shows a byte as it is written; after an unknown opcode its port is lent to
\* the debugging display, which is left out.
Memories ==
    /\ rom_rdata' = Rom(port.raddr)
    /\ IF port.wren /\ ~cpu.opcode_unk
         THEN /\ q' = port.data
              /\ ram' = Put(ram, port.addr % 16384, port.data)
         ELSE q' = Ram(port.addr) /\ UNCHANGED ram
    /\ UNCHANGED rom

Idle == UNCHANGED port
Write(a, x) == port' = [port EXCEPT !.wren = TRUE, !.addr = a % 32768, !.data = x]
Release == port' = [port EXCEPT !.wren = FALSE]
Read(a) == port' = [port EXCEPT !.addr = a % 32768]
ReadRom(a) == port' = [port EXCEPT !.raddr = a % 8192]
\* Most loads look at the ROM for addresses below RAM_START, some at one memory only.
InRom(op, a) == op = \h0A \/ (op \in LOAD \cup {\hBE, \h2A} /\ a < RAM_START)
Look(op, a, b) == IF InRom(op, a) THEN ReadRom(b) ELSE Read(b)
Got(op, a) == IF InRom(op, a) THEN rom_rdata ELSE q

\* Mutant: cycles_remain counts on below 0.
TickedOn ==
    [cpu EXCEPT !.cycles_remain =
                    IF cpu.state = 3 THEN 4 * CYCLE_MULTIPLICATOR - 4 ELSE @ - 1,
                !.b3 = IF cpu.state = 4 THEN rom_rdata ELSE @]

\* The registers every edge changes: cycles_remain, and in state 4 the third byte.
Ticked ==
    [cpu EXCEPT !.cycles_remain =
                    IF cpu.state = 3 THEN 4 * CYCLE_MULTIPLICATOR - 4
                    ELSE IF @ > 0 THEN @ - 1 ELSE 0,
                !.b3 = IF cpu.state = 4 THEN rom_rdata ELSE @]
More(c) == cpu' = [c EXCEPT !.func = @ + 1]
\* The instruction ends; opcodes of one step leave func_state alone.
Ends(c) == cpu' = [c EXCEPT !.state = 0, !.pc = (@ + Bytes(cpu.op)) % 65536]
Done(c) == Ends([c EXCEPT !.func = 0])
Goes(c, target) == cpu' = [c EXCEPT !.func = 0, !.state = 0, !.pc = target]

Operand == cpu.b3 * 256 + cpu.b2
\* An opcode is executed in the state in which its last byte has been read.
Executes(ops) ==
    /\ cpu.op \in ops /\ cpu.state = Bytes(cpu.op) + 2
    /\ ~(cpu.state = 3 /\ cpu.set_flags)

----------------------------------------------------------------------------
(* States 0 and 1: the next instruction, or an interrupt. *)
\* What a register that reads int_rst at this edge may see.
Samples == {x + y : x \in {int_old % 16, int_rst % 16},
                    y \in {16 * (int_old \div 16), 16 * (int_rst \div 16)}}

Wait == /\ cpu.state = 0 /\ cpu.cycles_remain > 0
        /\ cpu' = Ticked /\ Idle /\ UNCHANGED <<due, since>>

Start ==
    /\ cpu.state = 0 /\ cpu.cycles_remain = 0
    /\ \E seen, kept \in Samples :
         LET accepted == cpu.int_enabled /\ seen # cpu.int_rst_prev
         IN  /\ cpu' = [Ticked EXCEPT !.state = 1, !.int_rst_prev = kept,
                                      !.int_enabled = @ /\ ~accepted,
                                      !.int_op = @ \/ accepted]
             /\ due' = IF accepted \/ kept # int_rst THEN due ELSE 0
    /\ ReadRom(cpu.pc)
    /\ since' = IF since < MinGap THEN since + 1 ELSE since

Vector ==
    /\ cpu.state = 1 /\ cpu.int_op
    /\ \/ /\ cpu.func = 0
          /\ Write((cpu.sp - 1) % 65536, cpu.pc \div 256) /\ More(Ticked)
          /\ UNCHANGED due
       \/ /\ cpu.func = 1
          /\ Write((cpu.sp - 2) % 65536, cpu.pc % 256) /\ More(Ticked)
          /\ UNCHANGED due
       \/ /\ cpu.func > 1
          /\ Release
          /\ \E v \in Samples :
               Goes([Ticked EXCEPT !.sp = (@ - 2) % 65536, !.int_op = FALSE], v)
          /\ due' = 0
    /\ UNCHANGED since

----------------------------------------------------------------------------
(* States 1 to 4: reading and decoding. *)
Fetch == /\ cpu.state = 1 /\ ~cpu.int_op
         /\ ReadRom((cpu.pc + 1) % 65536)
         /\ cpu' = [Ticked EXCEPT !.state = 2]

Opcode == /\ cpu.state = 2
          /\ ReadRom((cpu.pc + 2) % 65536)
          /\ LET c == [Ticked EXCEPT !.state = 3, !.op = rom_rdata,
                                     !.set_flags = rom_rdata \in EARLY]
                 e == Early(rom_rdata, cpu.reg, cpu.flag)
             IN  cpu' = IF rom_rdata \in EARLY
                          THEN [c EXCEPT !.reg = e.reg, !.flag.carry = e.carry,
                                         !.tmp = e.tmp]
                          ELSE c

SetFlags == /\ cpu.state = 3 /\ cpu.set_flags
            /\ Idle /\ Ends([Ticked EXCEPT !.flag = SZP(@, cpu.tmp)])

SecondByte == /\ cpu.state = 3 /\ ~cpu.set_flags /\ cpu.op \in TwoBytes \cup ThreeBytes
              /\ Idle /\ cpu' = [Ticked EXCEPT !.state = 4, !.b2 = rom_rdata]

\* Three bytes: a call steps over itself already here.
ThirdByte ==
    /\ cpu.state = 4 /\ cpu.op \in ThreeBytes
    /\ Idle
    /\ cpu' = IF cpu.op \in CALL
                THEN [Ticked EXCEPT !.state = 5, !.pc = (@ + 3) % 65536, !.func = 0]
                ELSE [Ticked EXCEPT !.state = 5]

Unknown ==
    /\ cpu.state = 3 /\ ~cpu.set_flags
    /\ cpu.op \notin OneByte \cup TwoBytes \cup ThreeBytes
    /\ Idle /\ cpu' = [Ticked EXCEPT !.opcode_unk = TRUE]

Debug == Idle /\ cpu' = [Ticked EXCEPT !.opcode_unk = TRUE]

----------------------------------------------------------------------------
(* States 3 to 5: opcodes of one step. *)
DoPlain ==
    /\ Executes(PLAIN) /\ Idle
    /\ LET e == Plain(cpu.op, cpu.reg, cpu.flag)
       IN  Ends([Ticked EXCEPT !.reg = e.reg, !.flag = e.flag,
                               !.int_enabled = @ \/ cpu.op = \hFB])

DoMvi == Executes(MVI) /\ Idle /\ Ends([Ticked EXCEPT !.reg[Dst(cpu.op)] = cpu.b2])

DoLxi ==
    /\ Executes(LXI) /\ Idle
    /\ IF cpu.op = \h31
         THEN Ends([Ticked EXCEPT !.sp = Operand])
         ELSE Ends([Ticked EXCEPT !.reg = WithWord(@, Pair(cpu.op), Operand)])

DoJump ==
    /\ Executes(JUMP \cup {\hE9}) /\ Idle
    /\ LET target == IF cpu.op = \hE9 THEN HL(cpu.reg) ELSE Operand
       IN  IF cpu.op = \hE9 \/ Holds(cpu.op, cpu.flag)
             THEN cpu' = [Ticked EXCEPT !.state = 0, !.pc = target]
             ELSE Ends(Ticked)

DoIn ==
    /\ Executes({\hDB}) /\ Idle
    /\ IF cpu.b2 \in {1, 2, 3}
         THEN \E k \in Keys :
                Ends([Ticked EXCEPT !.reg["A"] = Port(cpu.b2, k, cpu.shift, cpu.offset)])
         ELSE Ends([Ticked EXCEPT !.opcode_unk = TRUE])

DoOut ==
    LET a == cpu.reg["A"]
    IN  /\ Executes({\hD3}) /\ Idle
        /\ \/ cpu.b2 = 6 /\ Ends(Ticked)
           \/ cpu.b2 = 2 /\ Ends([Ticked EXCEPT !.offset = a % 8])
           \/ cpu.b2 = 3 /\ Ends([Ticked EXCEPT !.sound1 = a])
           \/ cpu.b2 = 4 /\ Ends([Ticked EXCEPT !.shift = a * 256 + @ \div 256])
           \/ cpu.b2 = 5 /\ Ends([Ticked EXCEPT !.sound2 = a])
           \/ cpu.b2 \notin 2..6 /\ cpu' = [Ticked EXCEPT !.opcode_unk = TRUE]

----------------------------------------------------------------------------
(* Opcodes of several steps. *)
DoIncDec ==
    /\ Executes(INR \cup DCR) /\ Idle
    /\ IF cpu.func = 0
         THEN More([Ticked EXCEPT !.reg[Dst(cpu.op)] = Stepped(cpu.op, @)])
         ELSE Done([Ticked EXCEPT !.flag = SZP(@, cpu.reg[Dst(cpu.op)])])

\* Immediate arithmetic: the accumulator and, of sums and differences, the carry, then
\* the flags and the carry of the others.
DoAluI ==
    /\ Executes(ALU_I) /\ Idle
    /\ LET e == Arith(cpu.op, cpu.reg["A"], cpu.b2, cpu.flag.carry)
           late == Row(cpu.op) > 3
       IN  IF cpu.func = 0
             THEN IF Row(cpu.op) = 7
                    THEN More([Ticked EXCEPT !.tmp = e.val])
                    ELSE More([Ticked EXCEPT !.reg["A"] = e.val,
                                             !.flag.carry = IF late THEN @ ELSE e.carry])
             ELSE Done([Ticked EXCEPT
                    !.flag = IF Row(cpu.op) = 7
                               THEN SZP([@ EXCEPT !.carry = e.carry], cpu.tmp)
                               ELSE SZP(IF late THEN [@ EXCEPT !.carry = 0] ELSE @,
                                        cpu.reg["A"])])

\* Mutant: the write enable is not dropped.
DoStoreOn ==
    /\ Executes(STORE)
    /\ IF cpu.func = 0
         THEN /\ Write(StoreAddr(cpu.op, cpu.reg, Operand),
                       StoreByte(cpu.op, cpu.reg, cpu.b2))
              /\ More(Ticked)
         ELSE Idle /\ Done(Ticked)

DoStore ==
    /\ Executes(STORE)
    /\ IF cpu.func = 0
         THEN /\ Write(StoreAddr(cpu.op, cpu.reg, Operand),
                       StoreByte(cpu.op, cpu.reg, cpu.b2))
              /\ More(Ticked)
         ELSE Release /\ Done(Ticked)

\* Mutant: without the cycle left for the memory.
DoLoadSoon ==
    LET a == LoadAddr(cpu.op, cpu.reg, Operand)
    IN  /\ Executes(LOAD)
        /\ \/ cpu.func = 0 /\ Look(cpu.op, a, a) /\ More(Ticked)
           \/ /\ cpu.func > 0 /\ Idle
              /\ Done([Ticked EXCEPT !.reg[LoadReg(cpu.op)] = Got(cpu.op, a)])

DoLoad ==
    LET a == LoadAddr(cpu.op, cpu.reg, Operand)
    IN  /\ Executes(LOAD)
        /\ \/ cpu.func = 0 /\ Look(cpu.op, a, a) /\ More(Ticked)
           \/ cpu.func = 1 /\ Idle /\ More(Ticked)
           \/ /\ cpu.func > 1 /\ Idle
              /\ Done([Ticked EXCEPT !.reg[LoadReg(cpu.op)] = Got(cpu.op, a)])

\* Arithmetic with the byte at HL: the accumulator (or tmp, of CMP), then the flags.
DoAluM ==
    LET a == HL(cpu.reg)
        e == Arith(cpu.op, cpu.reg["A"], Got(cpu.op, a), cpu.flag.carry)
        logic == cpu.op \in {\hA6, \hB6}
    IN  /\ Executes(ALU_M)
        /\ \/ cpu.func = 0 /\ Look(cpu.op, a, a) /\ More(Ticked)
           \/ cpu.func = 1 /\ Idle /\ More(Ticked)
           \/ /\ cpu.func = 2 /\ Idle
              /\ IF cpu.op = \hBE
                   THEN More([Ticked EXCEPT !.tmp = e.val, !.flag.carry = e.carry])
                   ELSE More([Ticked EXCEPT !.reg["A"] = e.val,
                                            !.flag.carry = IF logic THEN @ ELSE e.carry])
           \/ /\ cpu.func > 2 /\ Idle
              /\ LET g == SZP(cpu.flag, IF cpu.op = \hBE THEN cpu.tmp ELSE cpu.reg["A"])
                 IN  Done([Ticked EXCEPT !.flag = IF logic
                                           THEN [g EXCEPT !.ac = 0, !.carry = 0] ELSE g])

DoStepM ==
    LET x == Stepped(cpu.op, q)
    IN  /\ Executes(STEP_M)
        /\ \/ cpu.func = 0 /\ Read(HL(cpu.reg)) /\ More(Ticked)
           \/ cpu.func = 1 /\ Idle /\ More(Ticked)
           \/ /\ cpu.func = 2
              /\ Write(HL(cpu.reg), x) /\ More([Ticked EXCEPT !.tmp = x])
           \/ /\ cpu.func > 2
              /\ Release /\ Done([Ticked EXCEPT !.flag = SZP(@, cpu.tmp)])

\* The two halves of a word written below the stack pointer.
PushSteps(hi, lo) ==
    \/ cpu.func = 0 /\ Write((cpu.sp - 1) % 65536, hi) /\ More(Ticked)
    \/ cpu.func = 1 /\ Write((cpu.sp - 2) % 65536, lo) /\ More(Ticked)

\* Mutant: the last step is an "else if".
DoPushExact ==
    /\ Executes(PUSH)
    /\ \/ PushSteps(PushHigh(cpu.op, cpu.reg), PushLow(cpu.op, cpu.reg, cpu.flag))
       \/ cpu.func = 2 /\ Release /\ Done([Ticked EXCEPT !.sp = (@ - 2) % 65536])
       \/ cpu.func > 2 /\ Idle /\ cpu' = Ticked

DoPush ==
    /\ Executes(PUSH)
    /\ \/ PushSteps(PushHigh(cpu.op, cpu.reg), PushLow(cpu.op, cpu.reg, cpu.flag))
       \/ cpu.func > 1 /\ Release /\ Done([Ticked EXCEPT !.sp = (@ - 2) % 65536])

\* D4 looks at its condition in the first step only, C4 and CC in all.
DoCall ==
    /\ Executes(CALL)
    /\ IF Holds(cpu.op, cpu.flag) \/ (cpu.op = \hD4 /\ cpu.func > 0)
         THEN \/ PushSteps(cpu.pc \div 256, cpu.pc % 256)
              \/ /\ cpu.func > 1 /\ Release
                 /\ Goes([Ticked EXCEPT !.sp = (@ - 2) % 65536], Operand)
         ELSE Idle /\ cpu' = [Ticked EXCEPT !.state = 0]

\* Two bytes read from the stack, the second asked for while the first arrives.
PopSteps(low, high) ==
    \/ cpu.func = 0 /\ Read(cpu.sp) /\ More(Ticked)
    \/ cpu.func = 1 /\ Read((cpu.sp + 1) % 65536) /\ More(Ticked)
    \/ cpu.func = 2 /\ Idle /\ More(low)
    \/ cpu.func = 3 /\ Idle /\ More(high)

DoPop ==
    LET Low == IF cpu.op = \hF1 THEN [Ticked EXCEPT !.flag = Unpacked(q)]
                                ELSE [Ticked EXCEPT !.reg[Pair(cpu.op)[2]] = q]
        High == IF cpu.op = \hF1 THEN [Ticked EXCEPT !.reg["A"] = q]
                                 ELSE [Ticked EXCEPT !.reg[Pair(cpu.op)[1]] = q]
    IN  /\ Executes(POP)
        /\ \/ PopSteps(Low, High)
           \/ cpu.func > 3 /\ Idle /\ Done([Ticked EXCEPT !.sp = (@ + 2) % 65536])

PcLow(c) == [c EXCEPT !.pc = 256 * (@ \div 256) + q]
PcHigh(c) == [c EXCEPT !.pc = 256 * q + (@ % 256)]

\* RZ stops the machine for the debugger when the stack pointer comes to 6.
DoRetIf ==
    LET up == (cpu.sp + 2) % 65536
    IN  /\ Executes(RET_IF)
        /\ IF cpu.func = 0 /\ ~Holds(cpu.op, cpu.flag)
             THEN Idle /\ Ends(Ticked)
             ELSE \/ PopSteps(PcLow(Ticked), PcHigh(Ticked))
                  \/ /\ cpu.func > 3 /\ Idle
                     /\ Goes([Ticked EXCEPT !.sp = up,
                                !.can_debug = @ \/ (cpu.op = \hC8 /\ up = 6)], cpu.pc)

DoRet ==
    /\ Executes({\hC9})
    /\ \/ cpu.func = 0 /\ Read(cpu.sp) /\ More([Ticked EXCEPT !.tmp2 = cpu.pc])
       \/ cpu.func \in {1, 3} /\ Idle /\ More(Ticked)
       \/ cpu.func = 2 /\ Read((cpu.sp + 1) % 65536) /\ More(PcLow(Ticked))
       \/ cpu.func = 4 /\ Idle /\ More(PcHigh(Ticked))
       \/ cpu.func > 4 /\ Idle /\ Goes([Ticked EXCEPT !.sp = (@ + 2) % 65536], cpu.pc)

DoXthl ==
    LET Low == [Ticked EXCEPT !.tmp2 = 256 * (@ \div 256) + q]
        High == [Ticked EXCEPT !.tmp2 = 256 * q + (@ % 256)]
    IN  /\ Executes({\hE3})
        /\ \/ PopSteps(Low, High)
           \/ cpu.func = 4 /\ Write((cpu.sp + 1) % 65536, cpu.reg["H"]) /\ More(Ticked)
           \/ cpu.func = 5 /\ Write(cpu.sp, cpu.reg["L"]) /\ More(Ticked)
           \/ /\ cpu.func > 5 /\ Release
              /\ Done([Ticked EXCEPT !.reg = WithWord(@, <<"H", "L">>, cpu.tmp2)])

DoShld ==
    /\ Executes({\h22})
    /\ \/ cpu.func = 0 /\ Write(Operand, cpu.reg["L"]) /\ More(Ticked)
       \/ cpu.func = 1 /\ Write((Operand + 1) % 65536, cpu.reg["H"]) /\ More(Ticked)
       \/ cpu.func > 1 /\ Release /\ Done(Ticked)

DoLhld ==
    LET byte == Got(cpu.op, Operand)
    IN  /\ Executes({\h2A})
        /\ \/ cpu.func = 0 /\ Look(cpu.op, Operand, Operand) /\ More(Ticked)
           \/ /\ cpu.func = 1
              /\ Look(cpu.op, Operand, (Operand + 1) % 65536) /\ More(Ticked)
           \/ cpu.func = 2 /\ Idle /\ More([Ticked EXCEPT !.reg["L"] = byte])
           \/ cpu.func > 2 /\ Idle /\ Done([Ticked EXCEPT !.reg["H"] = byte])

----------------------------------------------------------------------------
Executing ==
    \/ DoPlain \/ DoMvi \/ DoLxi \/ DoJump \/ DoIn \/ DoOut \/ DoIncDec \/ DoAluI
    \/ DoStore \/ DoLoad \/ DoAluM \/ DoStepM \/ DoPush \/ DoPop \/ DoCall \/ DoRetIf
    \/ DoRet \/ DoXthl \/ DoShld \/ DoLhld

\* An edge of the CPU's clock while game_ready is up.
Clock ==
    /\ ~cpu.opcode_unk
    /\ Memories
    /\ \/ cpu.can_debug /\ Debug /\ UNCHANGED <<due, since>>
       \/ ~cpu.can_debug /\ (Wait \/ Start \/ Vector)
       \/ /\ ~cpu.can_debug /\ UNCHANGED <<due, since>>
          /\ Fetch \/ Opcode \/ SetFlags \/ SecondByte \/ ThirdByte \/ Unknown \/ Executing
    /\ int_old' = int_rst
    /\ arch' = IF cpu.state # 0 /\ cpu'.state = 0 THEN View' ELSE arch
    /\ wrenRun' = IF ~port'.wren THEN 0 ELSE IF wrenRun < 3 THEN wrenRun + 1 ELSE 3
    /\ UNCHANGED <<int_rst, restarts, whole>>

\* The renderer asks for the other interrupt; the lines at which it does are further
\* apart than any service routine takes.
Raise ==
    /\ rom \in Asked /\ since = MinGap
    /\ \E v \in Vectors \ {int_rst} : int_rst' = v /\ due' = v
    /\ since' = 0 /\ int_old' = int_rst
    /\ UNCHANGED <<cpu, memVars, restarts, arch, whole, wrenRun>>

\* game_ready falls and the images are loaded again, because the HPS program was started
\* anew or, with board, because the board's reset was pressed.
Restart(board) ==
    /\ rom \in Reloaded /\ restarts < MaxRestarts /\ restarts' = restarts + 1
    /\ Memories
    /\ LET c == [cpu EXCEPT !.pc = 0, !.state = 0, !.opcode_unk = FALSE]
       IN  cpu' = IF ~board THEN c
                  ELSE [c EXCEPT !.cycles_remain = 0, !.int_enabled = FALSE,
                                 !.int_op = FALSE, !.shift = 0, !.can_debug = FALSE]
    /\ int_rst' = IF board THEN 0 ELSE int_rst
    /\ int_old' = int_rst' /\ due' = IF board THEN 0 ELSE due
    /\ whole' = (whole /\ cpu.state = 0)
    /\ arch' = View'
    /\ UNCHANGED <<port, since, wrenRun>>

CpuNext == Clock \/ Raise \/ (\E board \in BOOLEAN : Restart(board))
CpuSpec == CpuInit /\ [][CpuNext]_cpuVars
CpuFair == CpuSpec /\ WF_cpuVars(Clock)

----------------------------------------------------------------------------
\* Every register of the clocked block keeps to its width, and the ports to theirs.
CpuType ==
    /\ cpu.state \in 0..5 /\ cpu.func \in 0..7
    /\ {cpu.op, cpu.b2, cpu.b3, cpu.tmp, cpu.sound1, cpu.sound2} \subseteq Byte
    /\ {cpu.pc, cpu.sp, cpu.tmp2, cpu.shift} \subseteq Addr
    /\ cpu.reg \in [Registers -> Byte] /\ cpu.flag \in Flags
    /\ cpu.cycles_remain \in 0..(4 * CYCLE_MULTIPLICATOR - 4) /\ cpu.offset \in 0..7
    /\ {cpu.set_flags, cpu.opcode_unk, cpu.can_debug, cpu.int_enabled, cpu.int_op}
         \subseteq BOOLEAN
    /\ port.wren \in BOOLEAN /\ port.addr \in BusAddr /\ port.raddr \in RomAddr
    /\ {port.data, q, rom_rdata} \subseteq Byte
    /\ \A a \in DOMAIN ram : a \in RamAddr /\ ram[a] \in Byte
    /\ due \in Vectors \cup {0} /\ since \in 0..MinGap

\* Edge by edge, through two memories that answer late and steps of several edges, the
\* CPU does one instruction after the other and takes each interrupt once, between two
\* of them, on its own vector; none is lost but while interrupts are disabled or in the
\* very cycle of the request. A restart between two instructions begins the program anew;
\* one within an instruction ends the promise (see LoadsItsByte).
I == INSTANCE Isa8080 WITH fresh <- int_old # int_rst
ImplementsIsa == I!Isa

\* An instruction or interrupt that was begun ends, or the CPU stops for the debugging
\* display: no opcode waits for a step that does not come (cpu.v:327).
InstructionEnds == cpu.state # 0 ~> (cpu.state = 0 \/ cpu.opcode_unk)

\* VIDEO_mem_wren is never up longer than two cycles in a row, which is what the
\* synchronizer that serves the renderer counts on (cpu.v:315), unless a restart cut a write
\* short, which then lasts until the first instruction that writes.
WritesAreShort == whole => wrenRun <= 2

\* What a load puts in its register is the byte at its address: the source leaves a
\* cycle to read it ("Laisse un cycle pour lire la memoire {DE}", cpu.v:620).
LoadedByte ==
    LET a == LoadAddr(cpu.op, cpu.reg, Operand)
    IN  (Executes(LOAD) /\ cpu.func > 1 /\ cpu'.state = 0 /\ restarts' = restarts) =>
          cpu'.reg[LoadReg(cpu.op)] = IF InRom(cpu.op, a) THEN Rom(a) ELSE Ram(a)
LoadsItsByte == [][LoadedByte]_cpuVars
=============================================================================
