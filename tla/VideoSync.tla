------------------------------ MODULE VideoSync ------------------------------
(***************************************************************************)
(* How the picture gets from the CPU's memory to the screen buffer.  The    *)
(* renderer (vgaHdmi.v, 25 MHz) puts an address on cpu_mem_rdaddr and       *)
(* counts cpu_instrctionNum up; the CPU's clock domain (cpu.v) notices that *)
(* the number differs from cpu_instrctionSync, reads the byte in a cycle in *)
(* which the CPU does not write, and copies the number; the renderer then   *)
(* draws the byte's pixels.  The two domains are interleaved.               *)
(*                                                                          *)
(* pixel_counter1 is kept as its two fields: pixel_counter1[16:3], the byte *)
(* of the screen, and pixel_counter1[2:0], the bit.  Of a byte only its     *)
(* place is kept, and of the scan only what starts and stops the reading.   *)
(***************************************************************************)
EXTENDS Naturals, FiniteSets

CONSTANTS
    INSTRUCTION_MAX,    \* largest request number (1023)
    Bytes,              \* bytes of the screen (7168)
    Bits,               \* bits of a byte (8)
    WrenMax,            \* bound: cycles in a row the CPU may write (a few)
    CutShort            \* the reading lines may end before the last byte

ASSUME VideoAssumption ==
    /\ INSTRUCTION_MAX \in Nat /\ INSTRUCTION_MAX >= 2
    /\ Bytes \in Nat \ {0} /\ Bits \in Nat /\ Bits >= 2
    /\ WrenMax \in Nat
    /\ CutShort \in BOOLEAN

NoByte == Bytes

VARIABLES
    (* renderer *)
    scan,               \* "top": line screen_h; "read": the 200 lines after; "show"
    game_rdreq, byteNo, bitNo, reqNewValue,
    cpu_instrctionNum, cpu_mem_rdaddr,
    cpu_pixel,          \* cpu_pixelX, cpu_pixelY_start: the byte whose place they are
    drawn,              \* last write to gamebuffer: its place, the byte its value is from
    fresh,              \* pixels drawn since pixel_counter1 was last cleared
    missed,             \* history: the reading before this one did not reach the last byte
    (* CPU's clock domain *)
    cpu_instrctionSync, cpu_instrctionStep, cpu_mem_rdata, memB_q,
    wren                \* cycles in a row VIDEO_mem_wren has been up

scanVars == <<scan, game_rdreq, missed>>
drawVars == <<byteNo, bitNo, reqNewValue, cpu_pixel, drawn, fresh>>
askVars == <<cpu_instrctionNum, cpu_mem_rdaddr>>
cpuVars == <<cpu_instrctionSync, cpu_instrctionStep, cpu_mem_rdata, memB_q, wren>>
videoVars == <<scanVars, drawVars, askVars, cpuVars>>

Pixel == (0..(Bytes - 1)) \X (0..(Bits - 1))
NoPixel == [place |-> NoByte, bit |-> 0, from |-> NoByte]

VideoInit ==
    /\ scan = "show" /\ game_rdreq = FALSE
    /\ byteNo = 0 /\ bitNo = 0 /\ reqNewValue = FALSE
    /\ cpu_instrctionNum = 0 /\ cpu_mem_rdaddr = 0
    /\ cpu_pixel = NoByte /\ drawn = NoPixel /\ fresh = {} /\ missed = TRUE
    /\ cpu_instrctionSync = 0 /\ cpu_instrctionStep = FALSE
    /\ cpu_mem_rdata = NoByte /\ memB_q = 0 /\ wren = 0

VideoType ==
    /\ scan \in {"top", "read", "show"} /\ game_rdreq \in BOOLEAN
    /\ byteNo \in 0..Bytes /\ bitNo \in 0..(Bits - 1)
    /\ reqNewValue \in BOOLEAN
    /\ cpu_instrctionNum \in 0..INSTRUCTION_MAX
    /\ cpu_instrctionSync \in 0..INSTRUCTION_MAX
    /\ cpu_mem_rdaddr \in 0..(Bytes - 1)
    /\ cpu_pixel \in 0..Bytes
    /\ drawn \in [place : 0..Bytes, bit : 0..(Bits - 1), from : 0..Bytes]
    /\ fresh \in SUBSET Pixel /\ missed \in BOOLEAN
    /\ cpu_instrctionStep \in BOOLEAN
    /\ cpu_mem_rdata \in 0..Bytes /\ memB_q \in 0..(Bytes - 1)
    /\ wren \in 0..WrenMax

InSync == cpu_instrctionNum = cpu_instrctionSync

----------------------------------------------------------------------------
(* The renderer's clock. *)

\* pixel_counter1 <= 57343, and the scan is in the lines that read the memory.
Reading == game_rdreq /\ byteNo < Bytes

\* Mutant of Asking: a request does not wait for the answer to the last one.
AskingEarly == Reading /\ bitNo = 0

Asking == Reading /\ bitNo = 0 /\ (cpu_instrctionNum = 0 \/ InSync)
Drawing == Reading /\ reqNewValue /\ InSync

\* Mutant of NextNum: the number does not wrap.
NextNumUnwrapped == cpu_instrctionNum + 1

NextNum == IF cpu_instrctionNum = INSTRUCTION_MAX THEN 1 ELSE cpu_instrctionNum + 1

\* Both tests look at the registers as they were before the edge.
AskByte ==
    /\ cpu_mem_rdaddr' = IF Asking THEN byteNo ELSE cpu_mem_rdaddr
    /\ cpu_instrctionNum' = IF Asking THEN NextNum ELSE cpu_instrctionNum
    /\ cpu_pixel' = IF Asking THEN byteNo ELSE cpu_pixel

\* Mutants of DrawPixel: the last pixel of a byte is skipped; one pixel per request.
DrawPixelShort ==
    /\ Drawing
    /\ drawn' = [place |-> cpu_pixel, bit |-> bitNo, from |-> cpu_mem_rdata]
    /\ fresh' = fresh \cup {<<cpu_pixel, bitNo>>}
    /\ \/ bitNo < Bits - 2 /\ bitNo' = bitNo + 1 /\ UNCHANGED byteNo
       \/ bitNo = Bits - 2 /\ bitNo' = 0 /\ byteNo' = byteNo + 1
    /\ reqNewValue' = ((Asking \/ reqNewValue) /\ bitNo # Bits - 2)

DrawPixelOnce ==
    /\ Drawing
    /\ drawn' = [place |-> cpu_pixel, bit |-> bitNo, from |-> cpu_mem_rdata]
    /\ fresh' = fresh \cup {<<cpu_pixel, bitNo>>}
    /\ \/ bitNo < Bits - 1 /\ bitNo' = bitNo + 1 /\ UNCHANGED byteNo
       \/ bitNo = Bits - 1 /\ bitNo' = 0 /\ byteNo' = byteNo + 1
    /\ reqNewValue' = FALSE

DrawPixel ==
    /\ Drawing
    /\ drawn' = [place |-> cpu_pixel, bit |-> bitNo, from |-> cpu_mem_rdata]
    /\ fresh' = fresh \cup {<<cpu_pixel, bitNo>>}
    /\ \/ bitNo < Bits - 1 /\ bitNo' = bitNo + 1 /\ UNCHANGED byteNo
       \/ bitNo = Bits - 1 /\ bitNo' = 0 /\ byteNo' = byteNo + 1
    /\ reqNewValue' = ((Asking \/ reqNewValue) /\ bitNo # Bits - 1)

NoPixelDrawn ==
    /\ ~Drawing
    /\ reqNewValue' = IF byteNo = Bytes THEN FALSE ELSE Asking \/ reqNewValue
    /\ IF scan = "top" THEN byteNo' = 0 /\ bitNo' = 0 /\ fresh' = {}
                       ELSE UNCHANGED <<byteNo, bitNo, fresh>>
    /\ UNCHANGED drawn

\* Line 256 clears the counter, the lines after it read, the others show the picture.
Scan ==
    /\ game_rdreq' = (scan = "read")
    /\ \/ UNCHANGED scan
       \/ scan = "show" /\ scan' = "top"
       \/ scan = "top" /\ byteNo = 0 /\ bitNo = 0 /\ ~game_rdreq /\ scan' = "read"
       \/ scan = "read" /\ (CutShort \/ byteNo = Bytes) /\ scan' = "show"
    /\ missed' = IF scan = "show" /\ scan' = "top" THEN byteNo < Bytes ELSE missed

VgaCycle ==
    /\ AskByte
    /\ DrawPixel \/ NoPixelDrawn
    /\ Scan
    /\ UNCHANGED cpuVars

----------------------------------------------------------------------------
(* The CPU's clock. *)

\* Mutants of Synchronize: the byte is taken without the cycle in which the memory samples
\* its address; the number is copied a cycle before the byte.
SynchronizeAtOnce ==
    IF InSync \/ wren > 0
    THEN UNCHANGED <<cpu_instrctionStep, cpu_instrctionSync, cpu_mem_rdata>>
    ELSE /\ cpu_instrctionSync' = cpu_instrctionNum
         /\ cpu_mem_rdata' = memB_q
         /\ UNCHANGED cpu_instrctionStep

SynchronizeFirst ==
    IF (InSync /\ ~cpu_instrctionStep) \/ wren > 0
    THEN UNCHANGED <<cpu_instrctionStep, cpu_instrctionSync, cpu_mem_rdata>>
    ELSE /\ cpu_instrctionStep' = ~cpu_instrctionStep
         /\ cpu_instrctionSync' = cpu_instrctionNum
         /\ cpu_mem_rdata' = IF cpu_instrctionStep THEN memB_q ELSE cpu_mem_rdata

\* "Synchronizer between clock CPU and HDMI"
Synchronize ==
    IF InSync \/ wren > 0
    THEN UNCHANGED <<cpu_instrctionStep, cpu_instrctionSync, cpu_mem_rdata>>
    ELSE /\ cpu_instrctionStep' = ~cpu_instrctionStep
         /\ cpu_instrctionSync' = IF cpu_instrctionStep THEN cpu_instrctionNum
                                                        ELSE cpu_instrctionSync
         /\ cpu_mem_rdata' = IF cpu_instrctionStep THEN memB_q ELSE cpu_mem_rdata

\* The memory's port B registers the address at every edge; the CPU's own instructions
\* raise and drop VIDEO_mem_wren.
CpuCycle ==
    /\ Synchronize
    /\ memB_q' = cpu_mem_rdaddr
    /\ wren' \in {0} \cup (IF wren < WrenMax THEN {wren + 1} ELSE {})
    /\ UNCHANGED <<scanVars, drawVars, askVars>>

VideoNext == VgaCycle \/ CpuCycle

VideoSpec == VideoInit /\ [][VideoNext]_videoVars

\* Both clocks run.  That the scan moves on is not assumed, or every reading would end by
\* being cut short.  The CPU cannot write for ever: WrenMax is part of CpuCycle.
VideoFair ==
    VideoSpec /\ WF_videoVars(VgaCycle /\ UNCHANGED scan) /\ WF_videoVars(CpuCycle)

----------------------------------------------------------------------------
(* What the handshake promises. *)

\* Every pixel is drawn with the value of the byte whose place it is drawn at, although
\* place, value and counter are three registers filled at different times.
PlacedRight == drawn.from = drawn.place

\* When the counter has run through, every pixel was drawn again.  After a reading that
\* was cut short reqNewValue is still up, the first pixel goes to the old byte's place, and
\* the very first pixel of the screen alone is left as it was.
FrameDrawn ==
    scan # "top" /\ byteNo = Bytes
        => /\ Pixel \ {<<0, 0>>} \subseteq fresh
           /\ missed \/ <<0, 0>> \in fresh

\* The address is not taken away from a request that is not answered yet.
AddressHeld == [][~InSync => UNCHANGED cpu_mem_rdaddr]_videoVars

\* The reading does not stop while its lines last.
ReadingEnds ==
    (scan = "read" /\ byteNo < Bytes) ~> (scan # "read" \/ byteNo = Bytes)

\* The handshake is a byte port: requests are answered one by one, with the byte asked for.
Port == INSTANCE BytePort WITH
            asked <- IF InSync THEN NoByte ELSE cpu_mem_rdaddr,
            answer <- cpu_mem_rdata

ImplementsPort == Port!PortSpec

=============================================================================
