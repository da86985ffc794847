--------------------------- MODULE VideoSync_proof ---------------------------
(***************************************************************************)
(* The safety of the video handshake, for every size of the screen, every   *)
(* request number span of at least two, and readings that may be cut short. *)
(***************************************************************************)
EXTENDS VideoSync, TLAPS

\* A request number in use is never 0 again, an open request is the address on the port,
\* a half-made read has sampled that address, and an answered request holds its byte.
SyncInv ==
    /\ cpu_instrctionNum = 0 => cpu_instrctionSync = 0
    /\ reqNewValue => cpu_instrctionNum # 0
    /\ cpu_instrctionNum # 0 => cpu_pixel = cpu_mem_rdaddr
    /\ cpu_instrctionStep => ~InSync /\ memB_q = cpu_mem_rdaddr
    /\ InSync /\ cpu_instrctionNum # 0 => cpu_mem_rdata = cpu_mem_rdaddr
    /\ PlacedRight

VideoInv == VideoType /\ SyncInv

\* The next request number differs from the current one and is not 0: what an
\* INSTRUCTION_MAX of 1 would break.
LEMMA NextNumDiffers ==
    ASSUME cpu_instrctionNum \in 0..INSTRUCTION_MAX
    PROVE  /\ NextNum \in 0..INSTRUCTION_MAX
           /\ NextNum # 0
           /\ NextNum # cpu_instrctionNum
  BY VideoAssumption DEF VideoAssumption, NextNum

LEMMA InitInv == VideoInit => VideoInv
  <1> SUFFICES ASSUME VideoInit PROVE VideoInv
    OBVIOUS
  <1> USE DEF VideoInit
  <1>1. drawn = NoPixel /\ drawn \in [place : 0..Bytes, bit : 0..(Bits - 1), from : 0..Bytes]
    BY VideoAssumption DEF VideoAssumption, NoPixel, NoByte
  <1>2. fresh \in SUBSET Pixel
    OBVIOUS
  <1>3. /\ game_rdreq \in BOOLEAN /\ reqNewValue \in BOOLEAN
        /\ missed \in BOOLEAN /\ cpu_instrctionStep \in BOOLEAN
    OBVIOUS
  <1>4. VideoType
    BY <1>1, <1>2, <1>3, VideoAssumption DEF VideoAssumption, VideoType, NoByte
  <1>5. SyncInv
    BY DEF SyncInv, InSync, PlacedRight, NoPixel
  <1> QED BY <1>4, <1>5 DEF VideoInv

LEMMA VgaType == VideoInv /\ VgaCycle => VideoType'
  <1> SUFFICES ASSUME VideoInv, VgaCycle PROVE VideoType'
    OBVIOUS
  <1> USE VideoAssumption DEF VideoAssumption
  <1>1. /\ cpu_mem_rdaddr' \in 0..(Bytes - 1)
        /\ cpu_instrctionNum' \in 0..INSTRUCTION_MAX
        /\ cpu_pixel' \in 0..Bytes
    BY NextNumDiffers DEF VideoInv, VideoType, VgaCycle, AskByte, Asking, Reading
  <1>2. /\ byteNo' \in 0..Bytes
        /\ bitNo' \in 0..(Bits - 1)
        /\ reqNewValue' \in BOOLEAN
        /\ drawn' \in [place : 0..Bytes, bit : 0..(Bits - 1), from : 0..Bytes]
        /\ fresh' \in SUBSET Pixel
    <2>1. CASE DrawPixel
      <3>1. cpu_pixel \in 0..(Bytes - 1)
        BY <2>1 DEF VideoInv, VideoType, SyncInv, DrawPixel, Drawing
      <3>2. fresh' \in SUBSET Pixel
        BY <2>1, <3>1 DEF VideoInv, VideoType, DrawPixel, Pixel
      <3>3. byteNo' \in 0..Bytes /\ bitNo' \in 0..(Bits - 1)
        BY <2>1 DEF VideoInv, VideoType, DrawPixel, Drawing, Reading
      <3>4. reqNewValue' \in BOOLEAN
        BY <2>1 DEF DrawPixel
      <3>5. drawn' \in [place : 0..Bytes, bit : 0..(Bits - 1), from : 0..Bytes]
        BY <2>1 DEF VideoInv, VideoType, DrawPixel
      <3> QED BY <3>2, <3>3, <3>4, <3>5
    <2>2. CASE NoPixelDrawn
      <3>1. reqNewValue' \in BOOLEAN
        BY <2>2 DEF VideoInv, VideoType, NoPixelDrawn, Asking
      <3>2. drawn' = drawn
        BY <2>2 DEF NoPixelDrawn
      <3>3. /\ byteNo' \in {byteNo, 0}
            /\ bitNo' \in {bitNo, 0}
            /\ fresh' \in {fresh, {}}
        BY <2>2 DEF NoPixelDrawn
      <3> QED BY <3>1, <3>2, <3>3 DEF VideoInv, VideoType
    <2> QED BY <2>1, <2>2 DEF VgaCycle
  <1>3. scan' \in {"top", "read", "show"} /\ game_rdreq' \in BOOLEAN
    BY DEF VideoInv, VideoType, VgaCycle, Scan
  <1>4. missed' \in BOOLEAN
    <2>1. missed' = IF scan = "show" /\ scan' = "top" THEN byteNo < Bytes ELSE missed
      BY DEF VgaCycle, Scan
    <2>2. missed \in BOOLEAN /\ (byteNo < Bytes) \in BOOLEAN
      BY DEF VideoInv, VideoType
    <2> QED BY <2>1, <2>2, Zenon
  <1> QED BY <1>1, <1>2, <1>3, <1>4 DEF VideoInv, VideoType, VgaCycle, cpuVars

LEMMA VgaSync == VideoInv /\ VgaCycle => SyncInv'
  <1> SUFFICES ASSUME VideoInv, VgaCycle PROVE SyncInv'
    OBVIOUS
  <1> USE DEF VideoInv, VideoType, SyncInv, InSync, VgaCycle, cpuVars
  <1>1. PlacedRight'
    <2>1. CASE DrawPixel
      <3>1. drawn' = [place |-> cpu_pixel, bit |-> bitNo, from |-> cpu_mem_rdata]
        BY <2>1 DEF DrawPixel
      <3>2. cpu_pixel = cpu_mem_rdata
        BY <2>1 DEF DrawPixel, Drawing
      <3> QED BY <3>1, <3>2 DEF PlacedRight
    <2>2. CASE NoPixelDrawn
      <3>1. drawn' = drawn
        BY <2>2 DEF NoPixelDrawn
      <3> QED BY <3>1 DEF PlacedRight
    <2> QED BY <2>1, <2>2
  <1>2. CASE Asking
    <2>1. /\ cpu_instrctionNum' = NextNum
          /\ cpu_mem_rdaddr' = byteNo
          /\ cpu_pixel' = byteNo
      BY <1>2 DEF AskByte
    <2>2. InSync
      BY <1>2 DEF Asking
    <2> QED BY <1>1, <2>1, <2>2, NextNumDiffers
  <1>3. CASE ~Asking
    <2>1. UNCHANGED <<cpu_instrctionNum, cpu_mem_rdaddr, cpu_pixel>>
      BY <1>3 DEF AskByte
    <2>2. reqNewValue' => reqNewValue
      BY <1>3 DEF DrawPixel, NoPixelDrawn
    <2> QED BY <1>1, <2>1, <2>2
  <1> QED BY <1>2, <1>3

LEMMA CpuInv == VideoInv /\ CpuCycle => VideoInv'
  <1> SUFFICES ASSUME VideoInv, CpuCycle PROVE VideoInv'
    OBVIOUS
  <1> USE DEF VideoInv, CpuCycle, Synchronize, InSync, scanVars, drawVars, askVars
  <1>1. VideoType'
    <2>1. /\ cpu_instrctionSync' \in 0..INSTRUCTION_MAX
          /\ cpu_mem_rdata' \in 0..Bytes
      BY VideoAssumption DEF VideoAssumption, VideoType
    <2>2. memB_q' \in 0..(Bytes - 1)
      BY DEF VideoType
    <2>3. wren' \in 0..WrenMax
      BY VideoAssumption DEF VideoAssumption, VideoType
    <2>4. cpu_instrctionStep' \in BOOLEAN
      <3>1. cpu_instrctionStep' \in {cpu_instrctionStep, ~cpu_instrctionStep}
        BY Zenon
      <3> QED BY <3>1, Zenon DEF VideoType
    <2> QED BY <2>1, <2>2, <2>3, <2>4 DEF VideoType, Pixel
  <1>2. SyncInv'
    BY DEF VideoType, SyncInv, PlacedRight
  <1> QED BY <1>1, <1>2

LEMMA NextInv == VideoInv /\ [VideoNext]_videoVars => VideoInv'
  <1> SUFFICES ASSUME VideoInv, [VideoNext]_videoVars PROVE VideoInv'
    OBVIOUS
  <1>1. CASE VgaCycle
    BY <1>1, VgaType, VgaSync DEF VideoInv
  <1>2. CASE CpuCycle
    BY <1>2, CpuInv
  <1>3. CASE UNCHANGED videoVars
    BY <1>3 DEF videoVars, scanVars, drawVars, askVars, cpuVars, VideoInv, VideoType, SyncInv,
                InSync, PlacedRight, Pixel
  <1> QED BY <1>1, <1>2, <1>3 DEF VideoNext

\* The registers of both domains stay in their ranges (vgaHdmi.v, cpu.v), and the
\* strengthened invariant holds throughout.
THEOREM VideoInvariant == VideoSpec => []VideoInv
  <1> QED BY InitInv, NextInv, PTL DEF VideoSpec

THEOREM VideoTypeCorrect == VideoSpec => []VideoType
  <1>1. VideoInv => VideoType
    BY DEF VideoInv
  <1> QED BY <1>1, VideoInvariant, PTL

\* Whatever the interleaving of the two clocks and of the CPU's writes, a pixel is drawn
\* with the value of the byte whose place it is drawn at.
THEOREM PixelsPlacedRight == VideoSpec => []PlacedRight
  <1>1. VideoInv => PlacedRight
    BY DEF VideoInv, SyncInv
  <1> QED BY <1>1, VideoInvariant, PTL

LEMMA AddressStep ==
    VideoInv /\ [VideoNext]_videoVars => [~InSync => UNCHANGED cpu_mem_rdaddr]_videoVars
  <1> SUFFICES ASSUME VideoInv, VideoNext, ~InSync PROVE cpu_mem_rdaddr' = cpu_mem_rdaddr
    OBVIOUS
  <1>1. CASE VgaCycle
    BY <1>1 DEF VgaCycle, AskByte, Asking, VideoInv, SyncInv, InSync
  <1>2. CASE CpuCycle
    BY <1>2 DEF CpuCycle, askVars
  <1> QED BY <1>1, <1>2 DEF VideoNext

\* The renderer never changes the address of a request the CPU's domain has not answered.
THEOREM AddressIsHeld == VideoSpec => AddressHeld
  <1> QED BY VideoInvariant, AddressStep, PTL DEF VideoSpec, AddressHeld

LEMMA PortStep == VideoInv /\ [VideoNext]_videoVars => [Port!PortNext]_(Port!portVars)
  <1> SUFFICES ASSUME VideoInv, [VideoNext]_videoVars
               PROVE  Port!PortNext \/ UNCHANGED Port!portVars
    OBVIOUS
  <1> USE VideoAssumption
      DEF VideoAssumption, Port!PortNext, Port!Ask, Port!Answer, Port!portVars, Port!NoByte,
          NoByte, InSync
  <1>1. CASE VgaCycle /\ Asking
    <2>1. cpu_instrctionNum' = NextNum /\ cpu_mem_rdaddr' = byteNo
      BY <1>1 DEF VgaCycle, AskByte
    <2>2. cpu_instrctionNum' # cpu_instrctionSync' /\ InSync
      BY <1>1, <2>1, NextNumDiffers
      DEF VideoInv, VideoType, SyncInv, Asking, VgaCycle, cpuVars
    <2>3. byteNo \in 0..(Bytes - 1)
      BY <1>1 DEF Asking, Reading, VideoInv, VideoType
    <2>4. cpu_mem_rdata' = cpu_mem_rdata
      BY <1>1 DEF VgaCycle, cpuVars
    <2> QED BY <2>1, <2>2, <2>3, <2>4
  <1>2. CASE VgaCycle /\ ~Asking
    BY <1>2 DEF VgaCycle, AskByte, cpuVars
  <1>3. CASE CpuCycle
    BY <1>3 DEF CpuCycle, Synchronize, askVars, VideoInv, VideoType, SyncInv
  <1>4. CASE UNCHANGED videoVars
    BY <1>4 DEF videoVars, askVars, cpuVars
  <1> QED BY <1>1, <1>2, <1>3, <1>4 DEF VideoNext

\* The handshake implements the byte port (its safety part): each answer is the byte of the
\* one request in hand, and a request is made only when none is.
THEOREM HandshakeIsPort ==
    VideoSpec => Port!PortInit /\ [][Port!PortNext]_(Port!portVars)
  <1>1. VideoInit => Port!PortInit
    BY DEF VideoInit, Port!PortInit, Port!NoByte, NoByte, InSync
  <1> QED BY <1>1, VideoInvariant, PortStep, PTL DEF VideoSpec

----------------------------------------------------------------------------
(* A completed reading.                                                     *)

\* The pixels the counter has passed.
Passed == {p \in Pixel : p[1] < byteNo \/ (p[1] = byteNo /\ p[2] < bitNo)}

\* Behind the first pixel of a byte the place is the counter's byte; only the first pixel
\* of the screen may go elsewhere, and only when the reading before was cut short.
FrameInv ==
    /\ bitNo > 0 => byteNo < Bytes /\ cpu_pixel = byteNo
    /\ reqNewValue /\ byteNo > 0 => byteNo < Bytes /\ cpu_pixel = byteNo
    /\ scan = "top" => ~game_rdreq
    /\ scan = "top" /\ ~missed => ~reqNewValue /\ bitNo = 0 /\ byteNo \in {0, Bytes}
    /\ scan # "top" /\ ~missed /\ reqNewValue /\ byteNo = 0 => cpu_pixel = 0
    /\ scan # "top" /\ ~missed /\ (byteNo > 0 \/ bitNo > 0) => <<0, 0>> \in fresh
    /\ Passed \ {<<0, 0>>} \subseteq fresh

LEMMA FrameInit == VideoInit => FrameInv
  <1> SUFFICES ASSUME VideoInit PROVE FrameInv
    OBVIOUS
  <1>1. byteNo = 0 /\ bitNo = 0 /\ reqNewValue = FALSE /\ missed = TRUE /\ game_rdreq = FALSE
    BY DEF VideoInit
  <1>2. Passed = {}
    BY <1>1, VideoAssumption DEF Passed, Pixel, VideoAssumption
  <1> QED BY <1>1, <1>2 DEF FrameInv

\* A pixel drawn is the counter's, but for the stale first one.
LEMMA PixelIsCounters ==
    ASSUME VideoInv, FrameInv, VgaCycle, DrawPixel
    PROVE  /\ byteNo < Bytes /\ game_rdreq /\ reqNewValue
           /\ cpu_pixel # byteNo => byteNo = 0 /\ bitNo = 0
           /\ bitNo = 0 => cpu_pixel' = byteNo /\ bitNo' = 1 /\ byteNo' = byteNo
           /\ bitNo # 0 => cpu_pixel' = cpu_pixel /\ bitNo > 0
           /\ bitNo = Bits - 1 => ~reqNewValue' /\ bitNo' = 0 /\ byteNo' = byteNo + 1
           /\ bitNo # Bits - 1 => bitNo' = bitNo + 1 /\ byteNo' = byteNo
           /\ fresh' = fresh \cup {<<cpu_pixel, bitNo>>}
  <1>1. byteNo < Bytes /\ game_rdreq /\ reqNewValue /\ InSync
    BY DEF DrawPixel, Drawing, Reading
  <1>2. bitNo \in 0..(Bits - 1) /\ byteNo \in 0..Bytes /\ Bits >= 2 /\ Bits \in Nat
    BY VideoAssumption DEF VideoAssumption, VideoInv, VideoType
  <1>3. cpu_pixel # byteNo => byteNo = 0 /\ bitNo = 0
    BY <1>1, <1>2 DEF FrameInv
  <1>4. bitNo = Bits - 1 => ~reqNewValue' /\ bitNo' = 0 /\ byteNo' = byteNo + 1
    <2>1. bitNo = Bits - 1 => ~reqNewValue'
      BY Zenon DEF DrawPixel
    <2>2. bitNo = Bits - 1 => bitNo' = 0 /\ byteNo' = byteNo + 1
      BY <1>2 DEF DrawPixel
    <2> QED BY <2>1, <2>2
  <1>5. bitNo # Bits - 1 => bitNo' = bitNo + 1 /\ byteNo' = byteNo
    BY <1>2 DEF DrawPixel
  <1>6. bitNo = 0 => Asking
    BY <1>1 DEF Asking, Reading
  <1>7. bitNo # 0 => ~Asking
    BY DEF Asking
  <1>8. /\ bitNo = 0 => cpu_pixel' = byteNo
        /\ bitNo # 0 => cpu_pixel' = cpu_pixel
    BY <1>6, <1>7 DEF VgaCycle, AskByte
  <1> QED BY <1>1, <1>2, <1>3, <1>4, <1>5, <1>8 DEF DrawPixel

LEMMA FrameVga ==
    ASSUME VideoInv, FrameInv, VgaCycle
    PROVE  FrameInv'
  <1>1. /\ bitNo \in 0..(Bits - 1) /\ byteNo \in 0..Bytes
        /\ Bits >= 2 /\ Bits \in Nat /\ Bytes \in Nat \ {0}
    BY VideoAssumption DEF VideoAssumption, VideoInv, VideoType
  <1>2. /\ scan' = scan \/ (scan = "show" /\ scan' = "top") \/ scan' # "top"
        /\ scan = "top" /\ scan' # "top" => byteNo = 0 /\ bitNo = 0 /\ ~game_rdreq
        /\ scan # "read" => ~game_rdreq'
        /\ scan' = "top" => scan \in {"show", "top"}
        /\ scan = "show" /\ scan' = "top" => (missed' <=> byteNo < Bytes)
        /\ ~(scan = "show" /\ scan' = "top") => (missed' <=> missed)
    BY DEF VgaCycle, Scan
  <1>3. CASE DrawPixel
    <2>1. scan # "top"
      BY <1>3, PixelIsCounters DEF FrameInv
    <2>2. Passed' \subseteq Passed \cup {<<byteNo, bitNo>>}
      <3>1. CASE bitNo = Bits - 1
        BY <1>1, <1>3, <3>1, PixelIsCounters DEF Passed, Pixel
      <3>2. CASE bitNo # Bits - 1
        BY <1>1, <1>3, <3>2, PixelIsCounters DEF Passed, Pixel
      <3> QED BY <3>1, <3>2
    <2>3. Passed' \ {<<0, 0>>} \subseteq fresh'
      <3>1. fresh' = fresh \cup {<<cpu_pixel, bitNo>>}
        BY <1>3, PixelIsCounters
      <3>2. <<byteNo, bitNo>> = <<0, 0>> \/ <<byteNo, bitNo>> = <<cpu_pixel, bitNo>>
        BY <1>3, PixelIsCounters
      <3> QED BY <2>2, <3>1, <3>2 DEF FrameInv
    <2>4. scan' = "top" => missed'
      BY <1>2, <1>3, <2>1, PixelIsCounters
    <2>5. ~missed' /\ scan' # "top" => <<0, 0>> \in fresh'
      <3> SUFFICES ASSUME ~missed', scan' # "top" PROVE <<0, 0>> \in fresh'
        OBVIOUS
      <3>1. ~missed
        BY <1>2
      <3>2. CASE byteNo > 0 \/ bitNo > 0
        BY <1>3, <2>1, <3>1, <3>2, PixelIsCounters DEF FrameInv
      <3>3. CASE byteNo = 0 /\ bitNo = 0
        <4>1. cpu_pixel = 0
          BY <1>3, <2>1, <3>1, <3>3, PixelIsCounters DEF FrameInv
        <4> QED BY <1>3, <3>3, <4>1, PixelIsCounters
      <3> QED BY <1>1, <3>2, <3>3
    <2>6. scan' = "top" => ~game_rdreq'
      BY <1>2, <2>1
    <2>7. bitNo' > 0 => byteNo' < Bytes /\ cpu_pixel' = byteNo'
      BY <1>1, <1>3, PixelIsCounters
    <2>8. reqNewValue' => byteNo' < Bytes /\ cpu_pixel' = byteNo'
      BY <1>1, <1>3, PixelIsCounters
    <2> QED BY <1>1, <2>3, <2>4, <2>5, <2>6, <2>7, <2>8 DEF FrameInv
  <1>4. CASE NoPixelDrawn
    <2>1. /\ scan = "top" => byteNo' = 0 /\ bitNo' = 0 /\ fresh' = {}
          /\ scan # "top" => byteNo' = byteNo /\ bitNo' = bitNo /\ fresh' = fresh
      BY <1>4 DEF NoPixelDrawn
    <2>2. /\ byteNo = Bytes => ~reqNewValue'
          /\ ~Asking => (reqNewValue' => reqNewValue) /\ cpu_pixel' = cpu_pixel
      BY <1>4 DEF NoPixelDrawn, VgaCycle, AskByte
    <2>3. Asking => /\ bitNo = 0 /\ game_rdreq /\ byteNo < Bytes /\ cpu_pixel' = byteNo
      BY DEF Asking, Reading, VgaCycle, AskByte
    <2>4. scan = "top" => ~Asking
      BY <2>3 DEF FrameInv
    <2>5. Passed' \ {<<0, 0>>} \subseteq fresh'
      <3>1. CASE scan = "top"
        <4>1. Passed' = {}
          BY <1>1, <2>1, <3>1 DEF Passed, Pixel
        <4> QED BY <4>1
      <3>2. CASE scan # "top"
        <4>1. Passed' = Passed
          BY <2>1, <3>2 DEF Passed, Pixel
        <4> QED BY <2>1, <3>2, <4>1 DEF FrameInv
      <3> QED BY <3>1, <3>2
    <2>6. bitNo' > 0 => byteNo' < Bytes /\ cpu_pixel' = byteNo'
      BY <1>1, <2>1, <2>2, <2>3 DEF FrameInv
    <2>7. reqNewValue' /\ byteNo' > 0 => byteNo' < Bytes /\ cpu_pixel' = byteNo'
      BY <1>1, <2>1, <2>2, <2>3 DEF FrameInv
    <2>8. scan' = "top" => ~game_rdreq'
      BY <1>2
    <2>9. scan' = "top" /\ ~missed' => ~reqNewValue' /\ bitNo' = 0 /\ byteNo' \in {0, Bytes}
      <3> SUFFICES ASSUME scan' = "top", ~missed'
                   PROVE  ~reqNewValue' /\ bitNo' = 0 /\ byteNo' \in {0, Bytes}
        OBVIOUS
      <3>1. CASE scan = "show"
        BY <1>1, <1>2, <2>1, <2>2, <3>1 DEF FrameInv
      <3>2. CASE scan = "top"
        BY <1>2, <2>1, <2>2, <2>4, <3>2 DEF FrameInv
      <3> QED BY <1>2, <3>1, <3>2
    <2>10. scan' # "top" /\ ~missed' =>
              /\ reqNewValue' /\ byteNo' = 0 => cpu_pixel' = 0
              /\ (byteNo' > 0 \/ bitNo' > 0) => <<0, 0>> \in fresh'
      <3> SUFFICES ASSUME scan' # "top", ~missed'
                   PROVE  /\ reqNewValue' /\ byteNo' = 0 => cpu_pixel' = 0
                          /\ (byteNo' > 0 \/ bitNo' > 0) => <<0, 0>> \in fresh'
        OBVIOUS
      <3>1. ~missed
        BY <1>2
      <3>2. CASE scan = "top"
        BY <2>1, <2>2, <2>4, <3>1, <3>2 DEF FrameInv
      <3>3. CASE scan # "top"
        BY <2>1, <2>2, <2>3, <3>1, <3>3 DEF FrameInv
      <3> QED BY <3>2, <3>3
    <2> QED BY <2>5, <2>6, <2>7, <2>8, <2>9, <2>10 DEF FrameInv
  <1> QED BY <1>3, <1>4 DEF VgaCycle

LEMMA FrameNext == VideoInv /\ FrameInv /\ [VideoNext]_videoVars => FrameInv'
  <1> SUFFICES ASSUME VideoInv, FrameInv, [VideoNext]_videoVars PROVE FrameInv'
    OBVIOUS
  <1>1. CASE VgaCycle
    BY <1>1, FrameVga
  <1>2. CASE CpuCycle \/ UNCHANGED videoVars
    <2>1. UNCHANGED <<scan, game_rdreq, missed, byteNo, bitNo, reqNewValue, cpu_pixel, fresh>>
      BY <1>2 DEF CpuCycle, videoVars, scanVars, drawVars
    <2> QED BY <2>1 DEF FrameInv, Passed, Pixel
  <1> QED BY <1>1, <1>2 DEF VideoNext

\* When the counter has run through, every pixel of the screen was drawn again, but for the
\* first one after a reading that was cut short.
THEOREM FramesAreDrawn == VideoSpec => []FrameDrawn
  <1>1. VideoInv /\ FrameInv => FrameDrawn
    <2> SUFFICES ASSUME VideoInv, FrameInv, scan # "top", byteNo = Bytes
                 PROVE  /\ Pixel \ {<<0, 0>>} \subseteq fresh
                        /\ missed \/ <<0, 0>> \in fresh
      BY DEF FrameDrawn
    <2>1. Pixel \subseteq Passed
      BY VideoAssumption DEF VideoAssumption, Passed, Pixel
    <2> QED BY <2>1, VideoAssumption DEF VideoAssumption, FrameInv
  <1>2. VideoInit => FrameInv
    BY FrameInit
  <1>3. VideoInv /\ FrameInv /\ [VideoNext]_videoVars => FrameInv'
    BY FrameNext
  <1> QED BY <1>1, <1>2, <1>3, VideoInvariant, PTL DEF VideoSpec

=============================================================================
