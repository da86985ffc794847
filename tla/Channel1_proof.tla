--------------------------- MODULE Channel1_proof ----------------------------
(***************************************************************************)
(* Type correctness of channel 1, for every set of files, every depth of    *)
(* the two queues and every number of starts, resets and sounds: no         *)
(* counter, address or state register leaves its range, whatever the        *)
(* interleaving of the HPS, the FPGA's blocks, the audio clock and resets.  *)
(* Then that the HPS never meets a file it does not know, and last what     *)
(* lies in the ROM when the game starts and what the speaker is given.      *)
(***************************************************************************)
EXTENDS Channel1, TLAPS

\* What a branch for the word in hand may change, beside the delayed sample.
BranchType ==
    /\ fpga_cmd \in {0, 1, 4, 5, 6, 31} /\ fpga_data \in Nat
    /\ system_state \in 0..3 /\ file_num \in 1..5
    /\ FILE_SIZE \in Nat /\ ROM_SIZE_OFFSET \in Nat /\ rom_addr \in Nat
    /\ cpu_rom_save1 \in BOOLEAN /\ cpu_rom_wdata1 \in Word
    /\ cpu_rom_waddr1 \in 0..(RomSpan - 1)
    /\ request_for_audio \in BOOLEAN
    /\ AUDIO_header_flag \in 0..3 /\ AUDIO_header_count \in Nat
    /\ AUDIO_header_offset \in Nat /\ AUDIO_data_count \in Nat
    /\ AUDIO_data_size \in Nat /\ AUDIO_count \in Nat /\ AUDIO_data \in Sample
    /\ AUDIO_wrreq \in BOOLEAN
    /\ sound1_reqId_sync \in 0..(ReqIdSpan - 1)

USE DEF wordVars, loadVars, romVars, headerVars, streamVars, bridgeVars, hpsVars, soundVars,
        filer1Vars, countVars, channel1Vars

LEMMA TypeParts ==
    /\ TypeOK => BranchType
    /\ TypeOK <=> BridgeType /\ HpsType /\ SoundType /\ Filer1Type
  BY DEF TypeOK, BranchType, BridgeType, SoundType, Filer1Type

LEMMA WordFacts ==
    /\ \A n \in Nat : Number(n) \in Word
    /\ \A f \in {0} \cup Files, p \in Nat : Byte(f, p) \in Word
    /\ \A w \in Word : w.at \in Nat /\ w.file \in {0} \cup Files
    /\ Blank \in Word
    /\ NoSample \in Sample
  BY DEF Number, Byte, Word, Blank, NoSample, Sample

LEMMA SizeFacts ==
    /\ \A f \in Files : FileSize(f) \in Nat
    /\ \A n \in Nat : Last(n) \in Nat
    /\ RomSpan \in Nat \ {0}
    /\ \A n \in Nat : n % RomSpan \in 0..(RomSpan - 1) /\ n % AddrSpan \in Nat
  <1> USE FilesAssumption, BridgeAssumption, Filer1Assumption
      DEF FilesAssumption, BridgeAssumption, Filer1Assumption, RomSpan
  <1>1. \A f \in Files : FileSize(f) \in Nat
    BY DEF Files, FileSize, FirstSample, RomFiles, WavFiles
  <1>2. \A n \in Nat : Last(n) \in Nat
    BY DEF Last
  <1> QED BY <1>1, <1>2

LEMMA MarkedInSample ==
    ASSUME TypeOK
    PROVE  Marked(filer_data) \in Sample /\ NextSample \in Sample
  <1>1. filer_data \in Word /\ filer_data_delayed \in Sample
    BY DEF TypeOK, Filer1Type
  <1>2. Marked(filer_data) \in Sample
    BY <1>1, WordFacts DEF Marked, Sample, Word
  <1> QED BY <1>1, <1>2 DEF NextSample

----------------------------------------------------------------------------
(* The branches for the word in hand. *)

LEMMA LoaderBranches ==
    ASSUME TypeOK,
           SdReady \/ NbFiles \/ RomSizeReceived \/ RomByte \/ RomClosed \/ HpsWaiting \/ Ignored
    PROVE  BranchType'
  <1>0. BranchType /\ filer_data \in Word /\ filer_data.at \in Nat
    BY TypeParts, WordFacts DEF TypeOK, Filer1Type
  <1> USE <1>0 DEF BranchType, Ask
  <1>1. CASE SdReady
    BY <1>1 DEF SdReady
  <1>2. CASE NbFiles
    BY <1>2 DEF NbFiles
  <1>3. CASE RomSizeReceived
    <2>1. ROM_SIZE_OFFSET' \in Nat
      BY <1>3 DEF RomSizeReceived
    <2> QED BY <1>3, <2>1 DEF RomSizeReceived
  <1>4. CASE RomByte
    <2>1. cpu_rom_waddr1' \in 0..(RomSpan - 1)
      <3>1. ROM_SIZE_OFFSET + rom_addr \in Nat
        OBVIOUS
      <3>2. (ROM_SIZE_OFFSET + rom_addr) % RomSpan \in 0..(RomSpan - 1)
        BY <3>1, SizeFacts
      <3> QED BY <1>4, <3>2 DEF RomByte
    <2>4. rom_addr' \in Nat /\ fpga_data' \in Nat
      <3>1. rom_addr + 1 \in Nat /\ (rom_addr + 1) % AddrSpan \in Nat
        BY SizeFacts
      <3> QED BY <1>4, <3>1 DEF RomByte
    <2>2. cpu_rom_save1' \in BOOLEAN /\ cpu_rom_wdata1' \in Word
      BY <1>4 DEF RomByte
    <2>3. fpga_cmd' \in {4, 31}
      BY <1>4 DEF RomByte
    <2> QED BY <1>4, <2>1, <2>2, <2>3, <2>4 DEF RomByte
  <1>5. CASE RomClosed
    <2>1. file_num' \in 1..5 /\ fpga_data' \in Nat /\ fpga_cmd' \in {5, 6}
      BY <1>5 DEF RomClosed
    <2> QED BY <1>5, <2>1 DEF RomClosed
  <1>6. CASE HpsWaiting
    BY <1>6 DEF HpsWaiting
  <1>7. CASE Ignored
    BY <1>7 DEF Ignored
  <1> QED BY <1>1, <1>2, <1>3, <1>4, <1>5, <1>6, <1>7

LEMMA WavNumbers == \A b \in SoundBits : WavOf[b] \in Nat
  BY SoundAssumption DEF SoundAssumption, WavOf

LEMMA SoundBranches ==
    ASSUME TypeOK,
           Interrupt \/ TakeSound \/ SoundSize \/ SoundClosed \/ ParseHeader
    PROVE  BranchType'
  <1>0. BranchType /\ filer_data \in Word /\ filer_data.at \in Nat /\ SoundType
    BY TypeParts, WordFacts DEF TypeOK, Filer1Type
  <1> USE <1>0 DEF BranchType, Ask
  <1>1. CASE Interrupt
    BY <1>1 DEF Interrupt
  <1>2. CASE TakeSound
    <2>1. sound1_wav \in Nat
      BY WavNumbers DEF SoundType
    <2> QED BY <1>2, <2>1 DEF TakeSound, SoundType
  <1>3. CASE SoundSize
    BY <1>3 DEF SoundSize
  <1>4. CASE SoundClosed
    <2>1. /\ AUDIO_count' \in {0, AUDIO_count}
          /\ request_for_audio' \in {request_for_audio, FALSE}
          /\ AUDIO_wrreq' \in {AUDIO_wrreq, FALSE}
      BY <1>4, Zenon DEF SoundClosed
    <2>2. fpga_cmd' \in {5, 31} /\ fpga_data' \in Nat
      BY <1>4 DEF SoundClosed
    <2>3. request_for_audio' \in BOOLEAN /\ AUDIO_wrreq' \in BOOLEAN
      BY <2>1, Zenon
    <2>4. AUDIO_count' \in Nat
      BY <2>1
    <2> QED BY <1>4, <2>2, <2>3, <2>4 DEF SoundClosed
  <1>5. CASE ParseHeader
    <2>1. NextFlag \in 0..3
      BY DEF NextFlag
    <2>2. SizeField \in Nat
      BY FilesAssumption, BridgeAssumption DEF FilesAssumption, BridgeAssumption, SizeField
    <2>3. AUDIO_data_count' \in Nat /\ AUDIO_header_flag' \in 0..3
      BY <1>5, <2>1 DEF ParseHeader
    <2>4. /\ AUDIO_header_count' \in Nat /\ AUDIO_data_size' \in Nat
          /\ AUDIO_header_offset' \in Nat /\ AUDIO_count' \in Nat
          /\ fpga_cmd' \in {4, 31} /\ fpga_data' \in Nat
      BY <1>5, <2>2 DEF ParseHeader
    <2> QED BY <1>5, <2>3, <2>4 DEF ParseHeader
  <1> QED BY <1>1, <1>2, <1>3, <1>4, <1>5

LEMMA SampleBranches ==
    ASSUME TypeOK, StreamSample \/ DelaySample
    PROVE  /\ BranchType'
           /\ filer_delayed' \in BOOLEAN /\ filer_data_delayed' \in Sample
  <1>0. BranchType /\ filer_data_delayed \in Sample
    BY TypeParts DEF TypeOK, Filer1Type
  <1>1. NextSample \in Sample /\ Marked(filer_data) \in Sample
    BY MarkedInSample
  <1>2. Fade \in Nat
    BY Filer1Assumption DEF Filer1Assumption
  <1> USE <1>0, <1>1, <1>2 DEF BranchType, Ask
  <1>3. CASE StreamSample
    <2>1. AUDIO_data_size' \in Nat /\ AUDIO_count' \in Nat
      BY <1>3 DEF StreamSample
    <2>2. fpga_cmd' \in {4, 31} /\ fpga_data' \in Nat
      BY <1>3 DEF StreamSample
    <2>3. AUDIO_data' \in Sample /\ AUDIO_wrreq' \in BOOLEAN
      BY <1>3 DEF StreamSample
    <2> QED BY <1>3, <2>1, <2>2, <2>3 DEF StreamSample
  <1>4. CASE DelaySample
    <2>1. AUDIO_data_size' \in Nat
      BY <1>4 DEF DelaySample
    <2>2. AUDIO_data' \in Sample /\ AUDIO_wrreq' \in BOOLEAN
      BY <1>4 DEF DelaySample
    <2> QED BY <1>4, <2>1, <2>2 DEF DelaySample
  <1> QED BY <1>3, <1>4

----------------------------------------------------------------------------
(* The FPGA's cycles and the audio clock. *)

LEMMA StoreTypes ==
    /\ TypeOK /\ StoreSample => samples' \in Seq(Sample) /\ Len(samples') <= AudioDepth
    /\ TypeOK /\ StoreRom => rom' \in [0..(RomSpan - 1) -> Word]
  <1>1. ASSUME TypeOK, StoreSample
        PROVE  samples' \in Seq(Sample) /\ Len(samples') <= AudioDepth
    <2>1. samples \in Seq(Sample) /\ Len(samples) <= AudioDepth /\ AUDIO_data \in Sample
      BY <1>1, Zenon DEF TypeOK, Filer1Type
    <2> QED BY <1>1, <2>1, Filer1Assumption
            DEF StoreSample, AUDIO_fifo_full, Filer1Assumption
  <1>2. ASSUME TypeOK, StoreRom
        PROVE  rom' \in [0..(RomSpan - 1) -> Word]
    BY <1>2 DEF StoreRom, TypeOK, Filer1Type
  <1> QED BY <1>1, <1>2

LEMMA FifoTail ==
    ASSUME TypeOK, fifo0 # <<>>
    PROVE  Head(fifo0) \in Word /\ Tail(fifo0) \in Seq(Word)
  BY DEF TypeOK, BridgeType

LEMMA FilerCycleType ==
    ASSUME TypeOK, Filer1Cycle
    PROVE  BridgeType' /\ Filer1Type' /\ sound1_reqId_sync' \in 0..(ReqIdSpan - 1)
  <1>0. BridgeType /\ Filer1Type /\ BranchType
    BY TypeParts
  <1>1. CASE TakeWord
    <2>1. fifo0' \in Seq(Word) /\ filer_data' \in Word
      BY <1>1, FifoTail DEF TakeWord
    <2>2. samples' \in Seq(Sample) /\ Len(samples') <= AudioDepth
          /\ rom' \in [0..(RomSpan - 1) -> Word]
      BY <1>1, StoreTypes DEF TakeWord
    <2> QED BY <1>0, <1>1, <2>1, <2>2 DEF TakeWord, BridgeType, Filer1Type, BranchType
  <1>2. CASE ServeWord
    <2>1. BranchType' /\ filer_delayed' \in BOOLEAN /\ filer_data_delayed' \in Sample
      <3>1. CASE StreamSample \/ DelaySample
        BY <3>1, SampleBranches
      <3>2. CASE OtherBranch /\ filer_delayed' = FALSE /\ UNCHANGED filer_data_delayed
        <4>1. BranchType'
          BY <3>2, LoaderBranches, SoundBranches DEF OtherBranch
        <4> QED BY <3>2, <4>1, <1>0 DEF Filer1Type
      <3> QED BY <1>2, <3>1, <3>2 DEF ServeWord
    <2>2. samples' \in Seq(Sample) /\ Len(samples') <= AudioDepth
          /\ rom' \in [0..(RomSpan - 1) -> Word]
      BY <1>2, StoreTypes DEF ServeWord
    <2>3. /\ filer_data_ready' = FALSE
          /\ UNCHANGED <<filer_cmd, fifo0, filer_data>>
      BY <1>2 DEF ServeWord
    <2> QED BY <1>0, <2>1, <2>2, <2>3 DEF BridgeType, Filer1Type, BranchType
  <1>3. CASE IdleCycle
    <2>1. samples' \in Seq(Sample) /\ Len(samples') <= AudioDepth
          /\ rom' \in [0..(RomSpan - 1) -> Word]
      BY <1>3, StoreTypes DEF IdleCycle
    <2> QED BY <1>0, <1>3, <2>1 DEF IdleCycle, BridgeType, Filer1Type, BranchType
  <1> QED BY <1>1, <1>2, <1>3 DEF Filer1Cycle

LEMMA PlayType ==
    ASSUME TypeOK, PlaySample
    PROVE  samples' \in Seq(Sample) /\ Len(samples') <= AudioDepth
  <1>1. samples \in Seq(Sample) /\ Len(samples) <= AudioDepth /\ samples # <<>>
    BY DEF TypeOK, Filer1Type, PlaySample
  <1>2. samples' = Tail(samples)
    BY DEF PlaySample
  <1> QED BY <1>1, <1>2, Filer1Assumption DEF Filer1Assumption

----------------------------------------------------------------------------
(* The HPS and the game. *)

LEMMA HpsType_HpsStep ==
    ASSUME TypeOK, HpsStep
    PROVE  BridgeType' /\ HpsType'
  <1>0. BridgeType /\ HpsType
    BY TypeParts
  <1> USE <1>0 DEF BridgeType, HpsType
  <1>1. CASE WriteOp
    BY <1>1 DEF WriteOp
  <1>2. CASE WriteData
    <2>1. Number(IF opNum = 1 THEN 670 ELSE hData) \in Word
      BY WordFacts
    <2>2. fifo0' \in Seq(Word)
      BY <1>2, <2>1 DEF WriteData, Push
    <2> QED BY <1>2, <2>2 DEF WriteData
  <1>3. CASE ReadCmd
    BY <1>3 DEF ReadCmd
  <1>4. CASE CountFiles
    BY <1>4 DEF CountFiles, ReadArg
  <1>5. CASE SelectFile
    BY <1>5, SizeFacts DEF SelectFile, ReadArg
  <1>6. CASE UnknownFile
    BY <1>6 DEF UnknownFile, ReadArg
  <1>7. CASE OpenFile
    BY <1>7 DEF OpenFile, ReadArg
  <1>8. CASE WaitForRequest
    BY <1>8 DEF WaitForRequest, ReadArg
  <1>9. CASE RepeatOp
    BY <1>9 DEF RepeatOp, ReadArg
  <1>10. CASE WriteByteOp
    BY <1>10 DEF WriteByteOp
  <1>11. CASE WriteByte
    <2>1. Byte(filenameSel, fArg1_cur) \in Word
      BY WordFacts
    <2>2. fifo0' \in Seq(Word)
      BY <1>11, <2>1 DEF WriteByte, Push
    <2> QED BY <1>11, <2>2 DEF WriteByte
  <1>12. CASE SendNext
    BY <1>12 DEF SendNext, NextArg
  <1>13. CASE Poll
    BY <1>13 DEF Poll, NextArg
  <1>14. CASE CloseFile
    BY <1>14 DEF CloseFile, NextArg
  <1> QED BY <1>1, <1>2, <1>3, <1>4, <1>5, <1>6, <1>7, <1>8, <1>9, <1>10, <1>11, <1>12,
             <1>13, <1>14 DEF HpsStep

LEMMA SoundTypeKept ==
    ASSUME TypeOK,
           UNCHANGED sound1_reqId_sync,
           TakeBits \/ \E bits \in SUBSET SoundBits : OutPort3(bits)
    PROVE  SoundType'
  <1>0. SoundType
    BY TypeParts
  <1> USE <1>0 DEF SoundType
  <1>1. CASE TakeBits
    <2>1. cpu_sound1_bits' = cpu_sound1_bits /\ sound1_prev' = cpu_sound1_bits
      BY <1>1 DEF TakeBits
    <2>2. CASE \E b \in SoundBits : Request(b)
      <3>1. PICK b \in SoundBits : Request(b)
        BY <2>2
      <3>2. (sound1_reqId + 1) % ReqIdSpan \in 0..(ReqIdSpan - 1)
        BY SoundAssumption DEF SoundAssumption
      <3> QED BY <2>1, <3>1, <3>2 DEF Request
    <2>3. CASE \E b \in SoundBits : StillUp(b)
      BY <2>1, <2>3 DEF StillUp
    <2>4. CASE StopLoop
      BY <2>1, <2>4 DEF StopLoop
    <2> QED BY <1>1, <2>2, <2>3, <2>4 DEF TakeBits
  <1>2. CASE \E bits \in SUBSET SoundBits : OutPort3(bits)
    BY <1>2 DEF OutPort3
  <1> QED BY <1>1, <1>2

----------------------------------------------------------------------------

LEMMA InitType == Channel1Init => TypeOK
  <1> SUFFICES ASSUME Channel1Init PROVE TypeOK
    OBVIOUS
  <1> USE DEF Channel1Init
  <1>1. BridgeType
    BY DEF BridgeInit, BridgeType
  <1>2. HpsType
    BY DEF HpsInit, HpsType
  <1>3. SoundType
    <2>1. 0 \in 0..(ReqIdSpan - 1)
      BY SoundAssumption DEF SoundAssumption
    <2>2. sound1_loop \in BOOLEAN /\ {} \in SUBSET SoundBits
      BY Zenon DEF SoundInit
    <2> QED BY <2>1, <2>2 DEF SoundInit, SoundType
  <1>4. Filer1Type
    <2>1. /\ filer_data_ready \in BOOLEAN /\ filer_delayed \in BOOLEAN
          /\ cpu_rom_save1 \in BOOLEAN /\ request_for_audio \in BOOLEAN
          /\ AUDIO_wrreq \in BOOLEAN
      BY Zenon DEF Filer1Init
    <2>2. rom \in [0..(RomSpan - 1) -> Word]
      BY WordFacts DEF Filer1Init
    <2>3. 0 \in 0..(RomSpan - 1)
      BY SizeFacts
    <2>4. samples \in Seq(Sample) /\ Len(samples) <= AudioDepth
      BY Filer1Assumption DEF Filer1Init, Filer1Assumption
    <2>5. /\ filer_data \in Word /\ cpu_rom_wdata1 \in Word
          /\ filer_data_delayed \in Sample /\ AUDIO_data \in Sample
      BY WordFacts DEF Filer1Init
    <2> QED BY <2>1, <2>2, <2>3, <2>4, <2>5 DEF Filer1Init, Filer1Type
  <1> QED BY <1>1, <1>2, <1>3, <1>4 DEF TypeOK

LEMMA StepType == TypeOK /\ [Channel1Next]_channel1Vars => TypeOK'
  <1> SUFFICES ASSUME TypeOK, [Channel1Next]_channel1Vars PROVE TypeOK'
    OBVIOUS
  <1>0. BridgeType /\ HpsType /\ SoundType /\ Filer1Type
    BY TypeParts
  <1> USE <1>0 DEF TypeOK
  <1>1. CASE Hps
    BY <1>1, HpsType_HpsStep DEF Hps, SoundType, Filer1Type
  <1>2. CASE Start
    BY <1>2 DEF Start, StartProcess, BridgeType, HpsType, SoundType, Filer1Type
  <1>3. CASE Mount
    BY <1>3 DEF Mount, MountCard, BridgeType, HpsType, SoundType, Filer1Type
  <1>4. CASE Fpga
    BY <1>4, FilerCycleType DEF Fpga, HpsType, SoundType
  <1>5. CASE Play
    BY <1>5, PlayType DEF Play, BridgeType, HpsType, SoundType, Filer1Type
  <1>6. CASE Sound
    BY <1>6, SoundTypeKept DEF Sound, BridgeType, HpsType, Filer1Type
  <1>7. CASE Game
    BY <1>7, SoundTypeKept DEF Game, BridgeType, HpsType, Filer1Type
  <1>8. CASE Reset
    <2>1. BridgeType' /\ HpsType'
      BY <1>8 DEF Reset, BridgeType, HpsType
    <2>2. SoundType'
      BY <1>8, SoundAssumption DEF Reset, SoundAssumption, SoundType
    <2>3. Filer1Type'
      <3>1. /\ cpu_rom_save1' \in BOOLEAN /\ filer_delayed' \in BOOLEAN
            /\ request_for_audio' \in BOOLEAN /\ AUDIO_wrreq' \in BOOLEAN
        BY <1>8, Zenon DEF Reset
      <3>2. filer_data' \in Word
        BY <1>8, WordFacts DEF Reset
      <3> QED BY <1>8, <3>1, <3>2 DEF Reset, Filer1Type
    <2> QED BY <2>1, <2>2, <2>3
  <1>9. CASE UNCHANGED channel1Vars
    BY <1>9 DEF BridgeType, HpsType, SoundType, Filer1Type
  <1> QED BY <1>1, <1>2, <1>3, <1>4, <1>5, <1>6, <1>7, <1>8, <1>9 DEF Channel1Next

\* Every register and queue of channel 1 keeps to its range (SPACE_INVADERS.v:696-1148,
\* SpaceInvaders_controller.cpp:351-801), for all files, depths and bounds.
THEOREM Channel1TypeCorrect == Channel1Spec => []TypeOK
  <1> QED BY InitType, StepType, PTL DEF Channel1Spec

----------------------------------------------------------------------------
(* The HPS reads the loader's request and its argument in two accesses, and *)
(* ends when they do not name a file it has.  They always do, as long as    *)
(* the FPGA serves a word before the next access.                           *)

\* A word the HPS wrote and the FPGA has not served.
InFlight == fifo0 # <<>> \/ filer_data_ready

\* The FPGA has nothing left to do but repeat its idle cycle.
Quiet == ~InFlight /\ ~filer_delayed

\* Where the HPS program is in its exchange tells which operation the port holds, and that a
\* request read at "cmd" is still the one of "arg": the FPGA is idle in between.
Exchange ==
    /\ filer_cmd \in {0, 1, 2, 6, 7, 8, 9}
    /\ pc \in {"op", "data", "cmd", "arg"} => opNum \in {1, 2, 6, 7, 8}
    /\ pc \in {"data", "cmd", "arg"} => filer_cmd \in {0, opNum}
    /\ pc = "cmd" => InFlight \/ ~filer_delayed
    /\ pc = "arg" => Quiet
    /\ pc = "op" /\ opNum = 2 => Quiet

\* The number of files is asked for, counted and sent only while an image is missing.
ImageMissing ==
    /\ fpga_cmd = 1 => file_num <= 4
    /\ pc = "arg" /\ fCmd = 1 => file_num <= 4
    /\ pc \in {"op", "data", "cmd", "arg"} /\ opNum = 2 => file_num <= 4
    /\ filer_cmd = 2 => file_num <= 4

\* A file that is asked for exists and has its name in the HPS, when it is asked for and when the
\* HPS looks for it.
FileKnown ==
    /\ sound1_changed => sound1_wav \in WavFiles \cap Listed
    /\ fpga_cmd = 6 => fpga_data \in Files \cap Listed
    /\ pc = "arg" /\ fCmd = 6 => fpga_data \in Files \cap Listed

RequestInv == TypeOK /\ Exchange /\ ImageMissing /\ FileKnown /\ NoAlert

----------------------------------------------------------------------------
(* What the FPGA's branches may do to the request, the file number and the *)
(* counters of the sound request.                                          *)

SoundCountKept == sound1_reqId_sync' \in {sound1_reqId_sync, sound1_reqId}

\* The request is kept or changed to one of a kind that names no file, to the sound
\* that is pending, or to a program image.
GoodRequest ==
    \/ UNCHANGED <<fpga_cmd, fpga_data>>
    \/ fpga_cmd' \in {4, 5, 31}
    \/ fpga_cmd' = 1 /\ file_num' <= 4
    \/ fpga_cmd' = 6 /\ fpga_data' \in 1..4
    \/ fpga_cmd' = 6 /\ sound1_changed /\ fpga_data' = sound1_wav

LEMMA BranchRequest ==
    ASSUME RequestInv, StreamSample \/ DelaySample \/ OtherBranch
    PROVE  /\ GoodRequest /\ SoundCountKept
           /\ file_num' \in {1, file_num, file_num + 1}
           /\ file_num' = file_num + 1 => filer_cmd = 6 /\ fpga_cmd' \in {5, 6}
  <1>0. file_num \in 1..5 /\ (filer_cmd = 2 => file_num <= 4)
    BY DEF RequestInv, TypeOK, Filer1Type, ImageMissing
  <1> USE <1>0 DEF GoodRequest, SoundCountKept, Ask, OtherBranch
  <1>1. CASE StreamSample
    BY <1>1 DEF StreamSample
  <1>2. CASE DelaySample
    BY <1>2 DEF DelaySample
  <1>3. CASE SdReady
    BY <1>3 DEF SdReady
  <1>4. CASE Interrupt
    BY <1>4 DEF Interrupt
  <1>5. CASE TakeSound
    BY <1>5 DEF TakeSound, SoundPending
  <1>6. CASE NbFiles
    <2>1. filer_cmd = 2
      BY <1>6 DEF NbFiles, Serving
    <2> QED BY <1>6, <2>1 DEF NbFiles
  <1>7. CASE SoundSize
    BY <1>7 DEF SoundSize
  <1>8. CASE RomSizeReceived
    BY <1>8 DEF RomSizeReceived
  <1>9. CASE ParseHeader
    BY <1>9 DEF ParseHeader
  <1>10. CASE RomByte
    BY <1>10 DEF RomByte
  <1>11. CASE SoundClosed
    <2>1. fpga_cmd' \in {5, 31} /\ UNCHANGED <<file_num, sound1_reqId_sync>>
      BY <1>11 DEF SoundClosed
    <2> QED BY <2>1
  <1>12. CASE RomClosed
    BY <1>12 DEF RomClosed, Serving
  <1>13. CASE HpsWaiting
    BY <1>13 DEF HpsWaiting
  <1>14. CASE Ignored
    BY <1>14 DEF Ignored
  <1> QED BY <1>1, <1>2, <1>3, <1>4, <1>5, <1>6, <1>7, <1>8, <1>9, <1>10, <1>11, <1>12,
             <1>13, <1>14

\* A sample is delayed only while a byte of a file is served.
LEMMA DelayOnlyOnBytes == StreamSample \/ DelaySample => filer_cmd \in {5, 9, 10}
  BY DEF StreamSample, DelaySample, Streaming, sound1_inProgress

LEMMA CycleRequest ==
    ASSUME RequestInv, Filer1Cycle
    PROVE  /\ GoodRequest /\ SoundCountKept
           /\ file_num' \in {1, file_num, file_num + 1}
           /\ file_num' = file_num + 1 => filer_cmd = 6 /\ fpga_cmd' \in {5, 6}
           /\ UNCHANGED filer_cmd
           /\ Quiet => /\ Quiet'
                       /\ UNCHANGED <<fpga_cmd, fpga_data, file_num, sound1_reqId_sync>>
           /\ filer_cmd \in {0, 1, 2, 6, 7, 8} /\ (InFlight \/ ~filer_delayed)
                => (InFlight \/ ~filer_delayed)'
  <1> USE DEF GoodRequest, SoundCountKept, Quiet, InFlight
  <1>0. file_num \in 1..5
    BY DEF RequestInv, TypeOK, Filer1Type
  <1>1. CASE TakeWord
    <2>1. filer_data_ready'
      BY <1>1, Zenon DEF TakeWord
    <2> QED BY <1>0, <1>1, <2>1 DEF TakeWord
  <1>2. CASE ServeWord
    <2>1. StreamSample \/ DelaySample \/ OtherBranch
      BY <1>2 DEF ServeWord
    <2>2. UNCHANGED <<filer_cmd, fifo0>> /\ (InFlight \/ filer_delayed)
      BY <1>2 DEF ServeWord
    <2>3. StreamSample \/ DelaySample \/ filer_delayed' = FALSE
      BY <1>2 DEF ServeWord
    <2>4. filer_cmd \in {0, 1, 2, 6, 7, 8} => ~filer_delayed'
      <3>1. filer_cmd \in {0, 1, 2, 6, 7, 8} => ~(StreamSample \/ DelaySample)
        BY DelayOnlyOnBytes
      <3> QED BY <2>3, <3>1, Zenon
    <2> QED BY <2>1, <2>2, <2>4, BranchRequest
  <1>3. CASE IdleCycle
    BY <1>0, <1>3 DEF IdleCycle
  <1> QED BY <1>1, <1>2, <1>3 DEF Filer1Cycle

\* The FPGA keeps the invariant: its branches name files that exist, and only the end of
\* an image moves the file number, which "number of files" does not see.
LEMMA FpgaKeeps ==
    ASSUME RequestInv, Fpga
    PROVE  (Exchange /\ ImageMissing /\ FileKnown /\ NoAlert)'
  <1>0. /\ Exchange /\ ImageMissing /\ FileKnown /\ NoAlert
        /\ file_num \in 1..5
        /\ UNCHANGED <<hpsVars, soundVars, starts>>
    BY DEF RequestInv, TypeOK, Filer1Type, Fpga
  <1>1. /\ GoodRequest /\ SoundCountKept
        /\ file_num' \in {1, file_num, file_num + 1}
        /\ file_num' = file_num + 1 => filer_cmd = 6 /\ fpga_cmd' \in {5, 6}
        /\ UNCHANGED filer_cmd
        /\ Quiet => /\ Quiet'
                    /\ UNCHANGED <<fpga_cmd, fpga_data, file_num, sound1_reqId_sync>>
        /\ filer_cmd \in {0, 1, 2, 6, 7, 8} /\ (InFlight \/ ~filer_delayed)
             => (InFlight \/ ~filer_delayed)'
    BY CycleRequest DEF Fpga
  <1>2. Exchange'
    BY <1>0, <1>1 DEF Exchange
  <1>3. ImageMissing'
    <2>1. fpga_cmd' = 1 => file_num' <= 4
      BY <1>0, <1>1 DEF ImageMissing, GoodRequest
    <2>2. pc = "arg" => file_num' = file_num
      BY <1>0, <1>1 DEF Exchange
    <2>3. filer_cmd = 2 => file_num' <= 4
      BY <1>0, <1>1 DEF ImageMissing
    <2>4. pc \in {"op", "data", "cmd", "arg"} /\ opNum = 2 => file_num' <= 4
      BY <1>0, <1>1 DEF ImageMissing, Exchange
    <2> QED BY <1>0, <1>1, <2>1, <2>2, <2>3, <2>4 DEF ImageMissing
  <1>4. FileKnown'
    <2>1. sound1_changed' => sound1_changed
      BY <1>0, <1>1 DEF sound1_changed, SoundCountKept
    <2>2. fpga_cmd' = 6 => fpga_data' \in Files \cap Listed
      BY <1>0, <1>1 DEF FileKnown, GoodRequest, Files, RomFiles, Listed
    <2>3. pc = "arg" => UNCHANGED fpga_data
      BY <1>0, <1>1 DEF Exchange
    <2> QED BY <1>0, <2>1, <2>2, <2>3 DEF FileKnown
  <1>5. NoAlert'
    BY <1>0 DEF NoAlert
  <1> QED BY <1>2, <1>3, <1>4, <1>5

----------------------------------------------------------------------------
(* The HPS: it moves only when no word is in flight. *)

LEMMA HpsKeeps ==
    ASSUME Prompt, RequestInv, Hps
    PROVE  (Exchange /\ ImageMissing /\ FileKnown /\ NoAlert)'
  <1>0. /\ Exchange /\ ImageMissing /\ FileKnown /\ NoAlert
        /\ ~InFlight
        /\ UNCHANGED <<filer_data_ready, filer_delayed, file_num, soundVars,
                       sound1_reqId_sync, starts>>
    BY DEF RequestInv, Hps, Settled, InFlight
  <1>1. UNCHANGED <<fpga_cmd, fpga_data>>
    BY DEF Hps, HpsStep, WriteOp, WriteData, ReadCmd, ReadArg, CountFiles, SelectFile,
           UnknownFile, OpenFile, WaitForRequest, RepeatOp, WriteByteOp, WriteByte, NextArg,
           SendNext, Poll, CloseFile
  <1>2. fifo0 \in Seq(Word)
    BY DEF RequestInv, TypeOK, BridgeType
  <1> USE <1>0, <1>1 DEF Exchange, ImageMissing, FileKnown, NoAlert, Quiet, InFlight,
                         sound1_changed
  <1>3. CASE WriteOp
    BY <1>3 DEF WriteOp
  <1>4. CASE WriteData
    <2>1. fifo0' # <<>>
      BY <1>2, <1>4 DEF WriteData, Push
    <2> QED BY <1>4, <2>1 DEF WriteData
  <1>5. CASE ReadCmd
    BY <1>5 DEF ReadCmd
  <1>6. CASE CountFiles
    BY <1>6 DEF CountFiles, ReadArg
  <1>7. CASE SelectFile
    BY <1>7 DEF SelectFile, ReadArg
  <1>8. CASE UnknownFile
    BY <1>8 DEF UnknownFile, ReadArg
  <1>9. CASE OpenFile
    BY <1>9 DEF OpenFile, ReadArg
  <1>10. CASE WaitForRequest
    BY <1>10 DEF WaitForRequest, ReadArg
  <1>11. CASE RepeatOp
    BY <1>11 DEF RepeatOp, ReadArg
  <1>12. CASE WriteByteOp
    BY <1>12 DEF WriteByteOp
  <1>13. CASE WriteByte
    BY <1>13 DEF WriteByte
  <1>14. CASE SendNext
    BY <1>14 DEF SendNext, NextArg
  <1>15. CASE Poll
    BY <1>15 DEF Poll, NextArg
  <1>16. CASE CloseFile
    BY <1>16 DEF CloseFile, NextArg
  <1> QED BY <1>3, <1>4, <1>5, <1>6, <1>7, <1>8, <1>9, <1>10, <1>11, <1>12, <1>13, <1>14,
             <1>15, <1>16 DEF Hps, HpsStep

\* Port 3 raises a request only with the file that goes with it.
LEMMA SoundKeepsWav ==
    ASSUME RequestInv, Sound
    PROVE  sound1_changed' => sound1_wav' \in WavFiles \cap Listed
  <1>1. \A b \in SoundBits : WavOf[b] \in WavFiles \cap Listed
    BY Filer1Assumption, SoundAssumption DEF Filer1Assumption, SoundAssumption, WavOf, Listed
  <1>2. ~sound1_changed /\ UNCHANGED sound1_reqId_sync
    BY DEF Sound, TakeBits, filer1Vars
  <1>3. CASE \E b \in SoundBits : Request(b)
    BY <1>1, <1>3 DEF Request
  <1>4. CASE \E b \in SoundBits : StillUp(b)
    BY <1>2, <1>4 DEF StillUp, sound1_changed
  <1>5. CASE StopLoop
    BY <1>2, <1>5 DEF StopLoop, sound1_changed
  <1> QED BY <1>3, <1>4, <1>5 DEF Sound, TakeBits

----------------------------------------------------------------------------

LEMMA RequestInit == Channel1Init => RequestInv
  <1> SUFFICES ASSUME Channel1Init PROVE RequestInv
    OBVIOUS
  <1>1. /\ filer_cmd = 0 /\ fpga_cmd = 0 /\ fpga_data = 0
        /\ pc = "exit" /\ opNum = 0 /\ fCmd = 0 /\ starts = 0
        /\ sound1_reqId = 0 /\ sound1_reqId_sync = 0 /\ file_num = 1
    BY DEF Channel1Init, BridgeInit, HpsInit, SoundInit, Filer1Init
  <1>2. Exchange /\ ImageMissing /\ FileKnown /\ NoAlert
    BY <1>1 DEF Exchange, ImageMissing, FileKnown, NoAlert, sound1_changed
  <1> QED BY <1>2, InitType DEF RequestInv

LEMMA RequestStep ==
    ASSUME Prompt PROVE RequestInv /\ [Channel1Next]_channel1Vars => RequestInv'
  <1> SUFFICES ASSUME RequestInv, [Channel1Next]_channel1Vars PROVE RequestInv'
    OBVIOUS
  <1>0. TypeOK'
    BY StepType DEF RequestInv
  <1>00. Exchange /\ ImageMissing /\ FileKnown /\ NoAlert
    BY DEF RequestInv
  <1>000. SUFFICES (Exchange /\ ImageMissing /\ FileKnown /\ NoAlert)'
    BY <1>0 DEF RequestInv
  <1>1. CASE Hps
    BY <1>1, HpsKeeps
  <1> USE <1>00 DEF Exchange, ImageMissing, FileKnown, NoAlert, Quiet, InFlight, sound1_changed
  <1>2. CASE Start
    BY <1>2 DEF Start, StartProcess
  <1>3. CASE Mount
    BY <1>3 DEF Mount, MountCard
  <1>4. CASE Fpga
    BY <1>4, FpgaKeeps
  <1>5. CASE Play
    BY <1>5 DEF Play
  <1>6. CASE Sound
    BY <1>6, SoundKeepsWav DEF Sound
  <1>7. CASE Game
    BY <1>7 DEF Game, OutPort3
  <1>8. CASE Reset
    BY <1>8 DEF Reset
  <1>9. CASE UNCHANGED channel1Vars
    BY <1>9
  <1> QED BY <1>1, <1>2, <1>3, <1>4, <1>5, <1>6, <1>7, <1>8, <1>9 DEF Channel1Next

\* "!!! ALERT: not file num" (SpaceInvaders_controller.cpp:700) never ends the HPS program:
\* a request and the argument read after it always name a file, whatever is restarted,
\* reset or asked for in between.
THEOREM NoAlertHolds == ASSUME Prompt PROVE Channel1Spec => []NoAlert
  <1>1. RequestInv => NoAlert
    BY DEF RequestInv
  <1>2. RequestInv /\ [Channel1Next]_channel1Vars => RequestInv'
    BY RequestStep
  <1> QED BY <1>1, <1>2, RequestInit, PTL DEF Channel1Spec

----------------------------------------------------------------------------
(***************************************************************************)
(* The game starts with the right ROM: for all images that fit, every depth *)
(* of the queues, and every number of starts, resets and sounds, when the   *)
(* loader is ready to play the four images lie one behind the other, if the *)
(* HPS program has announced itself since the last reset.  And without a    *)
(* reset no cell ever holds a byte of another place, and what the speaker   *)
(* is given are samples of sound files, never a byte of a program image nor *)
(* a number.  All this as long as the FPGA serves a word before the HPS's   *)
(* next access to the bridge.                                               *)
(***************************************************************************)

\* The loader and the HPS were never reset apart, or have met again since.
Sane == resets = 0 \/ announced

Loading == Sane /\ system_state # 3

\* The one word in flight.
InHand == IF fifo0 # <<>> THEN Head(fifo0) ELSE filer_data

\* At most one word is in flight, and only while the HPS is about to read a request.  What
\* it reads then is written by the FPGA with nothing else to do, except for a delayed
\* sample, and that only while bytes are sent.
Turn ==
    /\ Len(fifo0) <= 1
    /\ fifo0 # <<>> => ~filer_data_ready
    /\ InFlight => pc \in {"cmd", "nextCmd"} \/ (pc = "op" /\ opNum = 1)
    /\ pc = "exit" => Quiet
    /\ pc = "op" => Quiet \/ opNum = 1 \/ (opNum = 6 /\ filer_cmd \in {0, 9})
    /\ pc = "byteOp" => Quiet \/ filer_cmd \in {0, 9}
    /\ pc \in {"byte", "nextCmd", "nextArg"} => filer_cmd \in {0, 9}

----------------------------------------------------------------------------
(* The loader. *)

Right(c) == rom[Base(c[1]) + c[2]] = Byte(c[1], c[2])

\* The register in front of the ROM holds the byte of cell c, and its address.
Held(c) ==
    cpu_rom_save1 /\ cpu_rom_waddr1 = Base(c[1]) + c[2] /\ cpu_rom_wdata1 = Byte(c[1], c[2])

HeldGood == cpu_rom_save1 => \E c \in Cells : Held(c)

\* The first n bytes of image f, and the images before it, are in the ROM or about to be.
\* What the register holds from before the load may do harm to none of them.
Loaded(f, n) ==
    /\ \A c \in Cells : c[1] < f \/ (c[1] = f /\ c[2] < n) => Right(c) \/ Held(c)
    /\ HeldGood \/ (f = 1 /\ n = 0)

\* How far the load is, by the request the FPGA has posted.
InImage ==
    /\ file_num <= 4
    /\ ROM_SIZE_OFFSET = Base(file_num) /\ FILE_SIZE = RomSize[file_num]
    /\ rom_addr < FILE_SIZE

LoadPoint ==
    /\ fpga_cmd \in {0, 1} => file_num = 1
    /\ fpga_cmd = 5 => file_num = 1 \/ (file_num = 5 /\ Loaded(5, 0))
    /\ fpga_cmd = 6 => /\ file_num = 1 \/ ROM_SIZE_OFFSET + FILE_SIZE = Base(file_num)
                       /\ Loaded(file_num, 0)
    /\ fpga_cmd = 31 => InImage /\ fpga_data = rom_addr /\ Loaded(file_num, rom_addr)
    /\ fpga_cmd = 4 => InImage /\ rom_addr = FILE_SIZE - 1 /\ Loaded(file_num, FILE_SIZE)

\* A sound that was asked for before the HPS program was started again is taken for the
\* first image, and the load begins after it.
Loader ==
    /\ Loading => /\ ~filer_delayed
                  /\ AUDIO_header_flag = 0
                  /\ request_for_audio => file_num = 1
                  /\ fpga_cmd = 6 => fpga_data = file_num /\ file_num <= 4
                  /\ ~request_for_audio => LoadPoint
    /\ Sane /\ system_state = 3 => file_num = 5 /\ \A c \in Cells : Right(c)

----------------------------------------------------------------------------
(* The HPS answers what the FPGA has posted. *)

Answers(op) ==
    /\ op = 2 => fpga_cmd = 1
    /\ op = 6 => fpga_cmd = 4
    /\ op = 7 => fpga_cmd = 5
    /\ op = 8 => fpga_cmd = 6
    /\ op = 9 => fpga_cmd = 31 /\ file_num <= 4

WordAnswers ==
    Loading /\ InFlight =>
        /\ Answers(filer_cmd)
        /\ filer_cmd = 8 => InHand.at = RomSize[file_num]
        /\ filer_cmd = 9 => InHand = Byte(file_num, fpga_data)

Answering ==
    Loading =>
        /\ pc \in {"data", "cmd", "arg"} => filer_cmd = opNum
        /\ pc \in {"byte", "nextCmd", "nextArg"} => filer_cmd = 9
        /\ pc \in {"op", "data"} \/ (pc = "cmd" /\ InFlight) =>
              /\ Answers(opNum)
              /\ opNum \in {6, 8} => filenameSel = file_num
              /\ opNum = 8 => hData = RomSize[file_num]
        /\ pc \in {"byteOp", "byte"} \/ (pc = "nextCmd" /\ InFlight) =>
              Answers(9) /\ fArg1_cur = fpga_data
        /\ pc = "cmd" /\ ~InFlight => fpga_cmd \in {1, 5, 6, 31}
        /\ pc = "arg" => fCmd = fpga_cmd /\ fpga_cmd \in {1, 5, 6, 31}
        /\ pc = "nextCmd" /\ ~InFlight => fpga_cmd \in {4, 31}
        /\ pc = "nextArg" => fCmd = fpga_cmd /\ fpga_cmd \in {4, 31}
        /\ pc \in {"byteOp", "byte", "nextCmd", "nextArg"} => filenameSel = file_num
        /\ pc \in {"cmd", "arg"} /\ ~InFlight /\ fpga_cmd = 31 => filenameSel = file_num

\* Without a reset, the ROM never holds anything but blanks and bytes of its own.
RomClean == resets = 0 => HeldGood /\ \A c \in Cells : Right(c) \/ rom[Base(c[1]) + c[2]] = Blank

LoadInv ==
    /\ RequestInv /\ resets \in Nat
    /\ Turn /\ Loader /\ WordAnswers /\ Answering /\ RomClean

----------------------------------------------------------------------------
(* The layout of the ROM. *)

LEMMA BaseFacts ==
    /\ \A f \in RomFiles : Base(f) \in Nat /\ RomSize[f] \in Nat \ {0}
    /\ \A f \in RomFiles : Base(f) + RomSize[f] <= RomSpan /\ RomSize[f] <= AddrSpan
    /\ \A f \in 1..3 : Base(f) + RomSize[f] = Base(f + 1)
    /\ \A f, g \in RomFiles : f < g => Base(f) + RomSize[f] <= Base(g)
    /\ Base(1) = 0
  <1>1. \A f \in RomFiles : RomSize[f] \in Nat \ {0}
    BY FilesAssumption DEF FilesAssumption
  <1>2. /\ RomSize[1] \in Nat \ {0} /\ RomSize[2] \in Nat \ {0}
        /\ RomSize[3] \in Nat \ {0} /\ RomSize[4] \in Nat \ {0}
        /\ AddrSpan \in Nat /\ RomSpan \in Nat
    BY <1>1, SizeFacts, Filer1Assumption DEF RomFiles, Filer1Assumption
  <1>3. /\ Base(1) = 0 /\ Base(2) = RomSize[1] /\ Base(3) = RomSize[1] + RomSize[2]
        /\ Base(4) = RomSize[1] + RomSize[2] + RomSize[3]
    BY DEF Base
  <1>4. RomFiles = {1, 2, 3, 4} /\ 1..3 = {1, 2, 3}
    BY DEF RomFiles
  <1>5. RomSize[1] + RomSize[2] + RomSize[3] + RomSize[4] <= RomSpan
        /\ \A f \in RomFiles : RomSize[f] <= AddrSpan
    BY ImagesFit DEF ImagesFit
  <1>6. \A f \in RomFiles : Base(f) \in Nat
    BY <1>2, <1>3, <1>4
  <1>7. \A f \in RomFiles : Base(f) + RomSize[f] <= RomSpan
    BY <1>2, <1>3, <1>4, <1>5
  <1>8. \A f \in 1..3 : Base(f) + RomSize[f] = Base(f + 1)
    BY <1>2, <1>3, <1>4
  <1>9. \A f, g \in RomFiles : f < g => Base(f) + RomSize[f] <= Base(g)
    BY <1>2, <1>3, <1>4
  <1> QED BY <1>1, <1>3, <1>5, <1>6, <1>7, <1>8, <1>9

LEMMA CellFacts ==
    \A c \in Cells : /\ c[1] \in RomFiles /\ c[2] \in Nat /\ c[2] < RomSize[c[1]]
                     /\ c = <<c[1], c[2]>>
                     /\ Base(c[1]) + c[2] \in 0..(RomSpan - 1)
  <1> SUFFICES ASSUME NEW c \in Cells
               PROVE  /\ c[1] \in RomFiles /\ c[2] \in Nat /\ c[2] < RomSize[c[1]]
                      /\ c = <<c[1], c[2]>>
                      /\ Base(c[1]) + c[2] \in 0..(RomSpan - 1)
    OBVIOUS
  <1>1. /\ c[1] \in RomFiles /\ c[2] \in 0..(AddrSpan - 1) /\ c[2] < RomSize[c[1]]
        /\ c = <<c[1], c[2]>>
    BY DEF Cells
  <1>2. Base(c[1]) \in Nat /\ Base(c[1]) + RomSize[c[1]] <= RomSpan /\ RomSize[c[1]] \in Nat
        /\ RomSpan \in Nat /\ AddrSpan \in Nat
    BY <1>1, BaseFacts, SizeFacts, Filer1Assumption DEF Filer1Assumption
  <1> QED BY <1>1, <1>2

LEMMA CellOf ==
    ASSUME NEW f \in RomFiles, NEW p \in Nat, p < RomSize[f]
    PROVE  <<f, p>> \in Cells
  <1>1. RomSize[f] <= AddrSpan /\ RomSize[f] \in Nat /\ AddrSpan \in Nat
    BY BaseFacts, Filer1Assumption DEF Filer1Assumption
  <1>2. p \in 0..(AddrSpan - 1)
    BY <1>1
  <1> QED BY <1>2 DEF Cells

\* No two cells share an address.
LEMMA OneCellPerAddress ==
    ASSUME NEW c \in Cells, NEW d \in Cells, Base(c[1]) + c[2] = Base(d[1]) + d[2]
    PROVE  c = d
  <1>1. /\ c[1] \in RomFiles /\ c[2] \in Nat /\ c[2] < RomSize[c[1]] /\ c = <<c[1], c[2]>>
        /\ d[1] \in RomFiles /\ d[2] \in Nat /\ d[2] < RomSize[d[1]] /\ d = <<d[1], d[2]>>
    BY CellFacts
  <1>2. /\ Base(c[1]) \in Nat /\ RomSize[c[1]] \in Nat
        /\ Base(d[1]) \in Nat /\ RomSize[d[1]] \in Nat
    BY <1>1, BaseFacts
  <1>3. ~(c[1] < d[1])
    <2>1. c[1] < d[1] => Base(c[1]) + RomSize[c[1]] <= Base(d[1])
      BY <1>1, BaseFacts
    <2> QED BY <1>1, <1>2, <2>1
  <1>4. ~(d[1] < c[1])
    <2>1. d[1] < c[1] => Base(d[1]) + RomSize[d[1]] <= Base(c[1])
      BY <1>1, BaseFacts
    <2> QED BY <1>1, <1>2, <2>1
  <1>5. c[1] = d[1]
    BY <1>1, <1>3, <1>4 DEF RomFiles
  <1>6. c[2] = d[2]
    BY <1>1, <1>2, <1>5
  <1> QED BY <1>1, <1>5, <1>6

----------------------------------------------------------------------------
(* What a cycle stores. *)

LEMMA Stored ==
    ASSUME TypeOK, StoreRom, NEW c \in Cells
    PROVE  /\ Held(c) /\ system_state # 3 => Right(c)'
           /\ Right(c) /\ HeldGood => Right(c)'
           /\ system_state = 3 => rom' = rom
           /\ HeldGood /\ rom[Base(c[1]) + c[2]] = Blank
                => Right(c)' \/ rom'[Base(c[1]) + c[2]] = Blank
  <1>0. rom \in [0..(RomSpan - 1) -> Word] /\ Base(c[1]) + c[2] \in 0..(RomSpan - 1)
    BY CellFacts DEF TypeOK, Filer1Type
  <1>1. Held(c) /\ system_state # 3 => Right(c)'
    BY <1>0 DEF StoreRom, Held, Right
  <1>2. ASSUME HeldGood
        PROVE  rom'[Base(c[1]) + c[2]] \in {rom[Base(c[1]) + c[2]], Byte(c[1], c[2])}
    <2>1. CASE cpu_rom_save1 /\ system_state # 3
      <3>1. PICK d \in Cells : Held(d)
        BY <1>2, <2>1 DEF HeldGood
      <3>2. rom' = [rom EXCEPT ![Base(d[1]) + d[2]] = Byte(d[1], d[2])]
        BY <2>1, <3>1 DEF Held, StoreRom
      <3>3. CASE Base(d[1]) + d[2] = Base(c[1]) + c[2]
        <4>1. d = c
          BY <3>3, OneCellPerAddress
        <4> QED BY <1>0, <3>2, <4>1
      <3>4. CASE Base(d[1]) + d[2] # Base(c[1]) + c[2]
        BY <1>0, <3>2, <3>4
      <3> QED BY <3>3, <3>4
    <2>2. CASE ~(cpu_rom_save1 /\ system_state # 3)
      BY <2>2 DEF StoreRom
    <2> QED BY <2>1, <2>2
  <1>3. system_state = 3 => rom' = rom
    BY DEF StoreRom
  <1> QED BY <1>1, <1>2, <1>3 DEF Right

\* Every cell that was loaded is in the ROM after the cycle.
LEMMA LoadedStored ==
    ASSUME TypeOK, StoreRom, system_state # 3, NEW f \in 1..5, NEW n \in Nat, Loaded(f, n),
           NEW c \in Cells, c[1] < f \/ (c[1] = f /\ c[2] < n)
    PROVE  Right(c)'
  <1>1. c[1] \in RomFiles /\ c[2] \in Nat
    BY CellFacts
  <1>2. HeldGood
    BY <1>1 DEF Loaded, RomFiles
  <1>3. Right(c) \/ Held(c)
    BY DEF Loaded
  <1> QED BY <1>2, <1>3, Stored

LEMMA HeldGoodKept ==
    ASSUME HeldGood, UNCHANGED romVars
    PROVE  HeldGood'
  BY DEF HeldGood, Held

LEMMA LoadedKept ==
    ASSUME TypeOK, StoreRom, system_state # 3, UNCHANGED romVars,
           NEW f \in 1..5, NEW n \in Nat, Loaded(f, n)
    PROVE  Loaded(f, n)'
  <1>1. \A c \in Cells : c[1] < f \/ (c[1] = f /\ c[2] < n) => Right(c)'
    BY LoadedStored
  <1>2. HeldGood => HeldGood'
    BY HeldGoodKept
  <1> QED BY <1>1, <1>2 DEF Loaded

LEMMA NothingLoaded == Loaded(1, 0)
  <1>1. \A c \in Cells : ~(c[1] < 1 \/ (c[1] = 1 /\ c[2] < 0))
    BY CellFacts DEF RomFiles
  <1> QED BY <1>1 DEF Loaded

----------------------------------------------------------------------------
(* The FPGA's turn. *)

LEMMA Taken ==
    ASSUME LoadInv, TakeWord
    PROVE  /\ InFlight /\ InFlight' /\ InHand' = InHand
           /\ fifo0' = <<>> /\ filer_data_ready'
           /\ UNCHANGED <<filer_cmd, fpga_cmd, fpga_data, filer_delayed, system_state,
                          loadVars, romVars, request_for_audio, headerVars>>
           /\ StoreRom
  <1>1. fifo0 \in Seq(Word) /\ fifo0 # <<>> /\ Len(fifo0) <= 1
    BY DEF LoadInv, RequestInv, TypeOK, BridgeType, Turn, TakeWord
  <1>2. Tail(fifo0) = <<>>
    BY <1>1
  <1>3. filer_data_ready'
    BY Zenon DEF TakeWord
  <1>4. fifo0' = <<>> /\ filer_data' = Head(fifo0)
    BY <1>2 DEF TakeWord
  <1> QED BY <1>1, <1>3, <1>4 DEF TakeWord, InFlight, InHand

LEMMA Served ==
    ASSUME LoadInv, ServeWord
    PROVE  /\ ~Quiet /\ ~InFlight' /\ fifo0 = <<>> /\ InHand = filer_data
           /\ UNCHANGED <<filer_cmd, fifo0, filer_data>>
           /\ filer_cmd \in {0, 1, 2, 6, 7, 8} => OtherBranch /\ ~filer_delayed'
           /\ StoreRom
  <1>1. ~filer_data_ready'
    BY Zenon DEF ServeWord
  <1>2. StreamSample \/ DelaySample \/ (OtherBranch /\ filer_delayed' = FALSE)
    BY DEF ServeWord
  <1>3. filer_cmd \in {0, 1, 2, 6, 7, 8} => OtherBranch /\ ~filer_delayed'
    <2>1. filer_cmd \in {0, 1, 2, 6, 7, 8} => ~(StreamSample \/ DelaySample)
      BY DelayOnlyOnBytes
    <2> QED BY <1>2, <2>1, Zenon
  <1> QED BY <1>1, <1>3 DEF ServeWord, Quiet, InFlight, InHand

LEMMA TurnFpga ==
    ASSUME LoadInv, Fpga
    PROVE  Turn'
  <1>0. Turn /\ UNCHANGED hpsVars
    BY DEF LoadInv, Fpga
  <1>1. CASE TakeWord
    <2>1. /\ InFlight /\ InFlight' /\ fifo0' = <<>> /\ filer_cmd' = filer_cmd
      BY <1>1, Taken
    <2>2. ~Quiet
      BY <2>1 DEF Quiet
    <2> QED BY <1>0, <2>1, <2>2 DEF Turn
  <1>2. CASE ServeWord
    <2>1. ~Quiet /\ ~InFlight' /\ fifo0' = <<>> /\ filer_cmd' = filer_cmd
      BY <1>2, Served
    <2> QED BY <1>0, <2>1 DEF Turn
  <1>3. CASE IdleCycle
    BY <1>0, <1>3 DEF IdleCycle, Turn, InFlight, Quiet
  <1> QED BY <1>1, <1>2, <1>3 DEF Fpga, Filer1Cycle

\* An announcement is served only to an HPS that has just started.
LEMMA AnnouncedByStart ==
    ASSUME LoadInv, ServeWord, filer_cmd = 1
    PROVE  pc \in {"op", "data", "cmd"} /\ opNum = 1
  <1>1. ~Quiet
    BY Served
  <1>2. Exchange /\ Turn
    BY DEF LoadInv, RequestInv
  <1>3. pc \in {"op", "data", "cmd", "arg", "byteOp", "byte", "nextCmd", "nextArg", "exit"}
    BY DEF LoadInv, RequestInv, TypeOK, HpsType
  <1> QED BY <1>1, <1>2, <1>3 DEF Exchange, Turn

----------------------------------------------------------------------------
(* The branches, while the game is loaded. *)

\* What serving the word in hand leads to: the loader's part, and what the HPS will read.
Outcome ==
    /\ Loader'
    /\ filer_cmd = 9 => fpga_cmd' \in {4, 31} /\ file_num' = file_num
    /\ filer_cmd \in {1, 2, 6, 7, 8} => fpga_cmd' \in {1, 5, 6, 31}
    /\ filer_cmd \in {1, 2, 7} => fpga_cmd' # 31
    /\ fpga_cmd' = 31 => file_num' = file_num

\* The state a branch starts from.
LEMMA LoadingFacts ==
    ASSUME LoadInv, Loading, ServeWord
    PROVE  /\ TypeOK /\ Sane /\ system_state # 3 /\ ~SoundPending
           /\ OtherBranch /\ StoreRom
           /\ filer_delayed' = FALSE
           /\ InHand = filer_data /\ ~filer_delayed
           /\ filer_cmd \in {0, 1, 2, 6, 7, 8, 9} /\ file_num \in 1..5
           /\ Answers(filer_cmd)
           /\ filer_cmd = 8 => filer_data.at = RomSize[file_num]
           /\ filer_cmd = 9 => filer_data = Byte(file_num, fpga_data)
           /\ AUDIO_header_flag = 0
           /\ request_for_audio => file_num = 1
           /\ fpga_cmd = 6 => fpga_data = file_num /\ file_num <= 4
           /\ ~request_for_audio => LoadPoint
  <1>1. TypeOK /\ Exchange /\ Loader /\ WordAnswers /\ file_num \in 1..5
    BY DEF LoadInv, RequestInv, TypeOK, Filer1Type
  <1>2. Sane /\ system_state # 3 /\ ~filer_delayed /\ AUDIO_header_flag = 0
    BY <1>1 DEF Loading, Loader
  <1>3. ~SoundPending /\ ~sound1_inProgress
    BY <1>2 DEF SoundPending, sound1_inProgress
  <1>4. filer_cmd \in {0, 1, 2, 6, 7, 8, 9}
    BY <1>1 DEF Exchange
  <1>5. ~(StreamSample \/ DelaySample)
    BY <1>3, <1>4 DEF StreamSample, DelaySample, Streaming
  <1>6. OtherBranch /\ filer_delayed' = FALSE
    BY <1>5 DEF ServeWord
  <1>7. InFlight /\ StoreRom
    BY <1>2 DEF ServeWord, InFlight
  <1>8. InHand = filer_data
    BY Served
  <1> QED BY <1>1, <1>2, <1>3, <1>4, <1>6, <1>7, <1>8 DEF WordAnswers, Loader, Loading

\* The loader's invariant after a branch that leaves state 3 alone and starts no game.
LEMMA LoaderAfter ==
    ASSUME ~filer_delayed', AUDIO_header_flag' = 0, system_state' # 3,
           request_for_audio' => file_num' = 1,
           fpga_cmd' = 6 => fpga_data' = file_num' /\ file_num' <= 4,
           ~request_for_audio' => LoadPoint'
    PROVE  Loader'
  BY DEF Loader, Loading

LEMMA FirstImagePoint ==
    ASSUME file_num' = 1, fpga_cmd' \in {0, 1, 5, 6}
    PROVE  LoadPoint'
  <1>1. Loaded(1, 0)'
    BY NothingLoaded, PTL
  <1> QED BY <1>1 DEF LoadPoint

LEMMA NbFilesOutcome ==
    ASSUME LoadInv, Loading, ServeWord, NbFiles
    PROVE  Outcome
  <1>0. /\ filer_cmd = 2 /\ fpga_cmd = 1 /\ file_num \in 1..5
        /\ (~request_for_audio => LoadPoint) /\ (request_for_audio => file_num = 1)
        /\ ~filer_delayed' /\ AUDIO_header_flag = 0 /\ system_state # 3
    <2>1. filer_cmd = 2
      BY DEF NbFiles, Serving
    <2> QED BY <2>1, LoadingFacts DEF Answers
  <1>1. file_num = 1
    BY <1>0 DEF LoadPoint
  <1>2. /\ UNCHANGED <<file_num, AUDIO_header_flag, system_state>>
        /\ fpga_cmd' \in {1, 6} /\ (fpga_cmd' = 6 => fpga_data' = file_num)
    BY DEF NbFiles, Ask
  <1>3. LoadPoint'
    BY <1>1, <1>2, FirstImagePoint
  <1>4. Loader'
    BY <1>0, <1>1, <1>2, <1>3, LoaderAfter
  <1> QED BY <1>0, <1>2, <1>4 DEF Outcome

LEMMA SoundSizeOutcome ==
    ASSUME LoadInv, Loading, ServeWord, SoundSize
    PROVE  Outcome
  <1>0. /\ file_num = 1 /\ ~filer_delayed' /\ system_state # 3
    BY LoadingFacts DEF SoundSize
  <1>1. /\ UNCHANGED <<file_num, system_state, request_for_audio>> /\ request_for_audio
        /\ AUDIO_header_flag' = 0 /\ fpga_cmd' = 31 /\ filer_cmd = 8
    BY DEF SoundSize, Ask, Serving
  <1>2. Loader'
    BY <1>0, <1>1, LoaderAfter
  <1> QED BY <1>1, <1>2 DEF Outcome

LEMMA RomSizeReceivedOutcome ==
    ASSUME LoadInv, Loading, ServeWord, RomSizeReceived
    PROVE  Outcome
  <1>0. /\ filer_cmd = 8 /\ ~request_for_audio
        /\ fpga_cmd = 6 /\ LoadPoint /\ file_num \in 1..5 /\ file_num <= 4
        /\ filer_data.at = RomSize[file_num]
        /\ ~filer_delayed' /\ AUDIO_header_flag = 0 /\ system_state # 3
        /\ TypeOK /\ StoreRom
    <2>1. filer_cmd = 8 /\ ~request_for_audio
      BY DEF RomSizeReceived, Serving
    <2> QED BY <2>1, LoadingFacts DEF Answers
  <1>1. /\ UNCHANGED <<file_num, AUDIO_header_flag, system_state, request_for_audio, romVars>>
        /\ fpga_cmd' = 31 /\ fpga_data' = 0 /\ rom_addr' = 0
        /\ FILE_SIZE' = RomSize[file_num]
        /\ ROM_SIZE_OFFSET' = IF file_num = 1 THEN 0 ELSE ROM_SIZE_OFFSET + FILE_SIZE
    BY <1>0 DEF RomSizeReceived, Ask
  <1>2. file_num = 1 \/ ROM_SIZE_OFFSET + FILE_SIZE = Base(file_num)
    BY <1>0 DEF LoadPoint
  <1>3. ROM_SIZE_OFFSET' = Base(file_num)
    BY <1>1, <1>2, BaseFacts
  <1>4. RomSize[file_num] \in Nat \ {0}
    BY <1>0, BaseFacts DEF RomFiles
  <1>5. Loaded(file_num, 0)
    BY <1>0 DEF LoadPoint
  <1>6. PICK f \in 1..5 : f = file_num
    BY <1>0
  <1>7. Loaded(f, 0)'
    BY <1>0, <1>1, <1>5, <1>6, LoadedKept
  <1>8. InImage'
    BY <1>0, <1>1, <1>3, <1>4 DEF InImage
  <1>9. LoadPoint'
    BY <1>1, <1>6, <1>7, <1>8 DEF LoadPoint
  <1>10. Loader'
    BY <1>0, <1>1, <1>9, LoaderAfter
  <1> QED BY <1>0, <1>1, <1>10 DEF Outcome

LEMMA ParseHeaderOutcome ==
    ASSUME LoadInv, Loading, ServeWord, ParseHeader
    PROVE  Outcome
  <1>0. /\ filer_cmd = 9 /\ request_for_audio /\ file_num = 1
        /\ filer_data = Byte(file_num, fpga_data)
        /\ ~filer_delayed' /\ AUDIO_header_flag = 0 /\ system_state # 3
    <2>1. filer_cmd = 9 /\ request_for_audio
      BY DEF ParseHeader, InHeader, Serving
    <2> QED BY <2>1, LoadingFacts
  <1>1. filer_data.file \notin WavFiles
    BY <1>0, FilesAssumption DEF FilesAssumption, Byte
  <1>2. NextFlag = 0
    <2>1. ~EndsWith(FmtEnd)
      BY <1>1 DEF EndsWith
    <2>2. AUDIO_header_flag # 1 /\ AUDIO_header_flag # 2
      BY <1>0
    <2>3. NextFlag = AUDIO_header_flag
      BY <2>1, <2>2, Zenon DEF NextFlag
    <2> QED BY <1>0, <2>3
  <1>3. /\ UNCHANGED <<file_num, system_state, request_for_audio>>
        /\ AUDIO_header_flag' = NextFlag /\ fpga_cmd' \in {4, 31}
    BY <1>2 DEF ParseHeader, Ask
  <1>4. Loader'
    BY <1>0, <1>2, <1>3, LoaderAfter
  <1> QED BY <1>0, <1>3, <1>4 DEF Outcome

LEMMA SoundClosedOutcome ==
    ASSUME LoadInv, Loading, ServeWord, SoundClosed
    PROVE  Outcome
  <1>0. /\ filer_cmd = 6 /\ request_for_audio /\ file_num = 1
        /\ ~filer_delayed' /\ AUDIO_header_flag = 0 /\ system_state # 3
    <2>1. filer_cmd = 6 /\ request_for_audio
      BY DEF SoundClosed, Serving
    <2> QED BY <2>1, LoadingFacts
  <1>1. /\ UNCHANGED <<file_num, system_state, AUDIO_header_flag>>
        /\ fpga_cmd' \in {5, 31} /\ (fpga_cmd' = 31 => request_for_audio' = request_for_audio)
    <2>1. UNCHANGED <<file_num, system_state, AUDIO_header_flag>>
      BY DEF SoundClosed
    <2>2. fpga_cmd' = 5 \/ (fpga_cmd' = 31 /\ request_for_audio' = request_for_audio)
      BY Zenon DEF SoundClosed, Ask
    <2> QED BY <2>1, <2>2
  <1>2. ~request_for_audio' => LoadPoint'
    <2>1. fpga_cmd' = 5 => LoadPoint'
      BY <1>0, <1>1, FirstImagePoint
    <2> QED BY <1>0, <1>1, <2>1, Zenon
  <1>3. Loader'
    BY <1>0, <1>1, <1>2, LoaderAfter
  <1> QED BY <1>0, <1>1, <1>3 DEF Outcome

LEMMA IgnoredOutcome ==
    ASSUME LoadInv, Loading, ServeWord, Ignored
    PROVE  Outcome
  <1>0. /\ filer_cmd = 0 /\ file_num \in 1..5 /\ ~filer_delayed'
        /\ AUDIO_header_flag = 0 /\ system_state # 3 /\ TypeOK /\ StoreRom
        /\ (request_for_audio => file_num = 1)
        /\ (fpga_cmd = 6 => fpga_data = file_num /\ file_num <= 4)
        /\ (~request_for_audio => LoadPoint)
    BY LoadingFacts DEF Ignored, Serving
  <1>1. UNCHANGED <<fpga_cmd, fpga_data, loadVars, system_state, romVars, request_for_audio,
                    headerVars>>
    BY DEF Ignored
  <1>2. PICK f \in 1..5 : f = file_num
    BY <1>0
  <1>3. rom_addr \in Nat /\ FILE_SIZE \in Nat
    BY <1>0 DEF TypeOK, Filer1Type
  <1>4. \A n \in Nat : /\ Loaded(f, n) => Loaded(f, n)'
                       /\ Loaded(5, n) => Loaded(5, n)'
    BY <1>0, <1>1, LoadedKept
  <1>5. LoadPoint => LoadPoint'
    BY <1>1, <1>2, <1>3, <1>4 DEF LoadPoint, InImage
  <1>6. Loader'
    BY <1>0, <1>1, <1>5, LoaderAfter
  <1> QED BY <1>0, <1>1, <1>6 DEF Outcome

\* The byte asked for comes, goes to the register with its address, and the next is asked
\* for, or the end of the file.
LEMMA RomByteOutcome ==
    ASSUME LoadInv, Loading, ServeWord, RomByte
    PROVE  Outcome /\ HeldGood'
  <1>0. /\ filer_cmd = 9 /\ ~request_for_audio
        /\ fpga_cmd = 31 /\ file_num \in 1..4 /\ LoadPoint
        /\ filer_data = Byte(file_num, fpga_data)
        /\ ~filer_delayed' /\ AUDIO_header_flag = 0 /\ system_state # 3
        /\ TypeOK /\ StoreRom /\ rom_addr \in Nat
    <2>1. filer_cmd = 9 /\ ~request_for_audio
      BY DEF RomByte, Serving
    <2>2. /\ fpga_cmd = 31 /\ file_num <= 4 /\ file_num \in 1..5 /\ LoadPoint
          /\ filer_data = Byte(file_num, fpga_data)
          /\ ~filer_delayed' /\ AUDIO_header_flag = 0 /\ system_state # 3
          /\ TypeOK /\ StoreRom
      BY <2>1, LoadingFacts DEF Answers
    <2>3. rom_addr \in Nat
      BY <2>2 DEF TypeOK, Filer1Type
    <2> QED BY <2>1, <2>2, <2>3
  <1>1. /\ ROM_SIZE_OFFSET = Base(file_num) /\ FILE_SIZE = RomSize[file_num]
        /\ rom_addr < FILE_SIZE /\ fpga_data = rom_addr /\ Loaded(file_num, rom_addr)
    BY <1>0 DEF LoadPoint, InImage
  <1>2. PICK f \in RomFiles, p \in Nat : f = file_num /\ p = rom_addr
    BY <1>0 DEF RomFiles
  <1>3. /\ Base(f) \in Nat /\ RomSize[f] \in Nat /\ p < RomSize[f]
        /\ Base(f) + RomSize[f] <= RomSpan /\ RomSize[f] <= AddrSpan
        /\ RomSpan \in Nat /\ AddrSpan \in Nat
    BY <1>1, <1>2, BaseFacts, SizeFacts, Filer1Assumption DEF Filer1Assumption
  <1>4. Last(FILE_SIZE) = FILE_SIZE - 1
    BY <1>1, <1>2, <1>3 DEF Last
  <1>5. (ROM_SIZE_OFFSET + rom_addr) % RomSpan = Base(f) + p
    <2>1. Base(f) + p \in 0..(RomSpan - 1)
      BY <1>3
    <2>2. (Base(f) + p) % RomSpan = Base(f) + p
      BY <1>3, <2>1
    <2> QED BY <1>1, <1>2, <2>2
  <1>6. Held(<<f, p>>)'
    <2>1. cpu_rom_save1'
      <3>1. file_num <= 4
        BY <1>0
      <3> QED BY <3>1, Zenon DEF RomByte
    <2>2. cpu_rom_waddr1' = Base(f) + p
      BY <1>5 DEF RomByte
    <2>3. cpu_rom_wdata1' = Byte(f, p)
      BY <1>0, <1>1, <1>2 DEF RomByte
    <2> QED BY <2>1, <2>2, <2>3 DEF Held
  <1>7. <<f, p>> \in Cells
    BY <1>3, CellOf
  <1>8. HeldGood'
    BY <1>6, <1>7 DEF HeldGood
  <1>9. Loaded(f, p + 1)'
    <2>1. ASSUME NEW c \in Cells, c[1] < f \/ (c[1] = f /\ c[2] < p + 1)
          PROVE  Right(c)' \/ Held(c)'
      <3>1. CASE c[1] < f \/ (c[1] = f /\ c[2] < p)
        <4>1. f \in 1..5
          BY DEF RomFiles
        <4> QED BY <1>0, <1>1, <1>2, <3>1, <4>1, LoadedStored
      <3>2. CASE ~(c[1] < f \/ (c[1] = f /\ c[2] < p))
        <4>1. c = <<f, p>>
          BY <2>1, <3>2, CellFacts
        <4> QED BY <1>6, <4>1
      <3> QED BY <3>1, <3>2
    <2> QED BY <1>8, <2>1 DEF Loaded
  <1>10. UNCHANGED <<file_num, FILE_SIZE, ROM_SIZE_OFFSET, system_state, request_for_audio,
                     AUDIO_header_flag>>
    BY DEF RomByte
  <1>11. LoadPoint' /\ fpga_cmd' \in {4, 31}
    <2>1. CASE rom_addr = Last(FILE_SIZE)
      <3>1. fpga_cmd' = 4 /\ rom_addr' = rom_addr
        BY <2>1 DEF RomByte, Ask
      <3>2. p + 1 = FILE_SIZE
        BY <1>1, <1>2, <1>3, <1>4, <2>1
      <3>3. Loaded(file_num, FILE_SIZE)'
        BY <1>2, <1>9, <1>10, <3>2
      <3>4. InImage'
        BY <1>0, <1>1, <1>10, <3>1 DEF InImage
      <3>5. rom_addr' = FILE_SIZE' - 1
        BY <1>4, <1>10, <2>1, <3>1
      <3> QED BY <3>1, <3>3, <3>4, <3>5 DEF LoadPoint
    <2>2. CASE rom_addr # Last(FILE_SIZE)
      <3>1. fpga_cmd' = 31 /\ fpga_data' = p + 1 /\ rom_addr' = (p + 1) % AddrSpan
        BY <1>2, <2>2 DEF RomByte, Ask
      <3>2. p + 1 < RomSize[f]
        BY <1>1, <1>2, <1>3, <1>4, <2>2
      <3>3. p + 1 \in 0..(AddrSpan - 1)
        BY <1>3, <3>2
      <3>4. rom_addr' = p + 1
        BY <1>3, <3>1, <3>3
      <3>5. Loaded(file_num, rom_addr)'
        BY <1>2, <1>9, <1>10, <3>4
      <3>6. InImage'
        BY <1>0, <1>1, <1>2, <1>10, <3>2, <3>4 DEF InImage
      <3> QED BY <3>1, <3>4, <3>5, <3>6 DEF LoadPoint
    <2> QED BY <2>1, <2>2
  <1>12. Loader'
    BY <1>0, <1>10, <1>11, LoaderAfter
  <1> QED BY <1>0, <1>8, <1>10, <1>11, <1>12 DEF Outcome

\* The file is closed with its last byte in the ROM, and the next one begins behind it.
LEMMA RomClosedOutcome ==
    ASSUME LoadInv, Loading, ServeWord, RomClosed
    PROVE  Outcome
  <1>0. /\ filer_cmd = 6 /\ ~request_for_audio
        /\ fpga_cmd = 4 /\ file_num \in 1..5 /\ LoadPoint
        /\ ~filer_delayed' /\ AUDIO_header_flag = 0 /\ system_state # 3
        /\ TypeOK /\ StoreRom
    <2>1. filer_cmd = 6 /\ ~request_for_audio
      BY DEF RomClosed, Serving
    <2> QED BY <2>1, LoadingFacts DEF Answers
  <1>1. /\ file_num \in 1..4
        /\ ROM_SIZE_OFFSET = Base(file_num) /\ FILE_SIZE = RomSize[file_num]
        /\ rom_addr = FILE_SIZE - 1 /\ Loaded(file_num, FILE_SIZE)
    BY <1>0 DEF LoadPoint, InImage
  <1>2. FILE_SIZE \in Nat \ {0} /\ Last(FILE_SIZE) = FILE_SIZE - 1
    BY <1>1, BaseFacts DEF RomFiles, Last
  <1>3. file_num' = file_num + 1
    BY <1>1, <1>2 DEF RomClosed
  <1>4. /\ UNCHANGED <<ROM_SIZE_OFFSET, FILE_SIZE, system_state, request_for_audio,
                       AUDIO_header_flag>>
        /\ file_num <= 3 => fpga_cmd' = 6 /\ fpga_data' = file_num + 1
        /\ ~(file_num <= 3) => fpga_cmd' = 5
    BY DEF RomClosed, Ask
  <1>5. HeldGood'
    <2>1. ~cpu_rom_save1'
      BY Zenon DEF RomClosed
    <2> QED BY <2>1 DEF HeldGood
  <1>6. PICK f \in 1..4, n \in Nat : f = file_num /\ n = FILE_SIZE
    BY <1>1, <1>2
  <1>7. Loaded(f + 1, 0)'
    <2>1. ASSUME NEW c \in Cells, c[1] < f + 1 \/ (c[1] = f + 1 /\ c[2] < 0)
          PROVE  Right(c)'
      <3>1. c[1] < f \/ (c[1] = f /\ c[2] < n)
        BY <1>1, <1>6, <2>1, CellFacts DEF RomFiles
      <3>2. f \in 1..5
        OBVIOUS
      <3> QED BY <1>0, <1>1, <1>6, <3>1, <3>2, LoadedStored
    <2> QED BY <1>5, <2>1 DEF Loaded
  <1>8. LoadPoint'
    <2>1. CASE file_num <= 3
      <3>1. ROM_SIZE_OFFSET + FILE_SIZE = Base(file_num + 1)
        BY <1>1, <2>1, BaseFacts
      <3>2. ROM_SIZE_OFFSET' + FILE_SIZE' = Base(file_num)'
        BY <1>3, <1>4, <3>1
      <3>3. Loaded(file_num, 0)'
        BY <1>3, <1>6, <1>7
      <3> QED BY <1>4, <2>1, <3>2, <3>3 DEF LoadPoint
    <2>2. CASE ~(file_num <= 3)
      <3>1. f = 4 /\ file_num' = 5
        BY <1>3, <1>6, <2>2
      <3>2. Loaded(5, 0)'
        BY <1>7, <3>1
      <3> QED BY <1>4, <2>2, <3>1, <3>2 DEF LoadPoint
    <2> QED BY <2>1, <2>2
  <1>9. fpga_cmd' = 6 => fpga_data' = file_num' /\ file_num' <= 4
    BY <1>1, <1>3, <1>4
  <1>10. Loader'
    BY <1>0, <1>4, <1>8, <1>9, LoaderAfter
  <1> QED BY <1>0, <1>4, <1>10 DEF Outcome

\* The game is started when all the images are in the ROM.
LEMMA HpsWaitingOutcome ==
    ASSUME LoadInv, Loading, ServeWord, HpsWaiting
    PROVE  Outcome
  <1>0. /\ filer_cmd = 7 /\ fpga_cmd = 5 /\ file_num \in 1..5
        /\ (request_for_audio => file_num = 1) /\ (~request_for_audio => LoadPoint)
        /\ ~filer_delayed' /\ AUDIO_header_flag = 0 /\ system_state # 3
        /\ TypeOK /\ StoreRom
    <2>1. filer_cmd = 7
      BY DEF HpsWaiting, Serving
    <2> QED BY <2>1, LoadingFacts DEF Answers
  <1>1. /\ UNCHANGED <<file_num, AUDIO_header_flag, request_for_audio>>
        /\ file_num > 4 => fpga_cmd' = 5 /\ system_state' = 3
        /\ ~(file_num > 4) => fpga_cmd' = 1 /\ system_state' = 2
    BY DEF HpsWaiting, Ask
  <1>2. CASE file_num > 4
    <2>1. file_num = 5 /\ Loaded(5, 0)
      BY <1>0, <1>2 DEF LoadPoint
    <2>2. \A c \in Cells : Right(c)'
      <3>1. \A c \in Cells : c[1] < 5
        BY CellFacts DEF RomFiles
      <3> QED BY <1>0, <2>1, <3>1, LoadedStored
    <2>3. Loader'
      BY <1>1, <1>2, <2>1, <2>2 DEF Loader, Loading
    <2> QED BY <1>0, <1>1, <1>2, <2>3 DEF Outcome
  <1>3. CASE ~(file_num > 4)
    <2>1. file_num = 1
      BY <1>0, <1>3 DEF LoadPoint
    <2>2. LoadPoint'
      BY <1>1, <1>3, <2>1, FirstImagePoint
    <2>3. Loader'
      BY <1>0, <1>1, <1>3, <2>1, <2>2, LoaderAfter
    <2> QED BY <1>0, <1>1, <1>3, <2>3 DEF Outcome
  <1> QED BY <1>2, <1>3

\* An announcement starts the load over, from whatever state.
LEMMA SdReadyOutcome ==
    ASSUME LoadInv, ServeWord, SdReady
    PROVE  Outcome
  <1>1. /\ filer_cmd = 1 /\ file_num' = 1 /\ AUDIO_header_flag' = 0 /\ system_state' = 1
        /\ fpga_cmd' = 1
    BY DEF SdReady, Ask
  <1>2. ~filer_delayed'
    BY <1>1, Served
  <1>3. LoadPoint'
    BY <1>1, FirstImagePoint
  <1>4. Loader'
    BY <1>1, <1>2, <1>3, LoaderAfter
  <1> QED BY <1>1, <1>4 DEF Outcome

LEMMA LoadingOutcome ==
    ASSUME LoadInv, ServeWord, Loading
    PROVE  Outcome
  <1>1. OtherBranch /\ ~SoundPending
    BY LoadingFacts
  <1>2. ~Interrupt /\ ~TakeSound
    BY <1>1 DEF Interrupt, TakeSound
  <1>3. CASE SdReady
    BY <1>3, SdReadyOutcome
  <1>4. CASE NbFiles
    BY <1>4, NbFilesOutcome
  <1>5. CASE SoundSize
    BY <1>5, SoundSizeOutcome
  <1>6. CASE RomSizeReceived
    BY <1>6, RomSizeReceivedOutcome
  <1>7. CASE ParseHeader
    BY <1>7, ParseHeaderOutcome
  <1>8. CASE RomByte
    BY <1>8, RomByteOutcome
  <1>9. CASE SoundClosed
    BY <1>9, SoundClosedOutcome
  <1>10. CASE RomClosed
    BY <1>10, RomClosedOutcome
  <1>11. CASE HpsWaiting
    BY <1>11, HpsWaitingOutcome
  <1>12. CASE Ignored
    BY <1>12, IgnoredOutcome
  <1> QED BY <1>1, <1>2, <1>3, <1>4, <1>5, <1>6, <1>7, <1>8, <1>9, <1>10, <1>11, <1>12
          DEF OtherBranch

LEMMA OneIsSdReady ==
    ASSUME OtherBranch, filer_cmd = 1
    PROVE  SdReady
  BY DEF OtherBranch, SdReady, Interrupt, TakeSound, SoundPending, NbFiles, SoundSize,
         RomSizeReceived, ParseHeader, InHeader, RomByte, SoundClosed, RomClosed, HpsWaiting,
         Ignored, Serving

\* Once the game runs, only an announcement ends it.
LEMMA GameGoesOn ==
    ASSUME LoadInv, ServeWord, filer_cmd # 1, system_state = 3, file_num = 5
    PROVE  system_state' = 3 /\ file_num' = 5 /\ rom' = rom
           /\ (UNCHANGED romVars \/ ~cpu_rom_save1')
  <1>1. rom' = rom
    BY DEF ServeWord, StoreRom
  <1>2. CASE StreamSample \/ DelaySample
    BY <1>1, <1>2 DEF StreamSample, DelaySample
  <1>3. CASE SdReady
    BY <1>3 DEF SdReady
  <1>4. CASE Interrupt \/ TakeSound
    BY <1>1, <1>4 DEF Interrupt, TakeSound
  <1>5. CASE NbFiles \/ SoundSize \/ RomSizeReceived
    BY <1>1, <1>5 DEF NbFiles, SoundSize, RomSizeReceived
  <1>6. CASE ParseHeader \/ HpsWaiting \/ Ignored
    BY <1>1, <1>6 DEF ParseHeader, HpsWaiting, Ignored
  <1>7. CASE SoundClosed
    BY <1>1, <1>7 DEF SoundClosed
  <1>8. CASE RomByte
    <2>1. UNCHANGED <<system_state, file_num>> /\ cpu_rom_save1' = (file_num <= 4)
      BY <1>8 DEF RomByte
    <2>2. ~(file_num <= 4)
      OBVIOUS
    <2>3. ~cpu_rom_save1'
      BY <2>1, <2>2, Zenon
    <2> QED BY <1>1, <2>1, <2>3
  <1>9. CASE RomClosed
    <2>1. ~cpu_rom_save1'
      BY <1>9, Zenon DEF RomClosed
    <2>2. UNCHANGED <<system_state, file_num>>
      BY <1>9 DEF RomClosed
    <2> QED BY <1>1, <2>1, <2>2
  <1> QED BY <1>2, <1>3, <1>4, <1>5, <1>6, <1>7, <1>8, <1>9 DEF ServeWord, OtherBranch

\* A branch touches the register in front of the ROM with a good byte or not at all.
LEMMA HeldGoodServed ==
    ASSUME LoadInv, ServeWord, Sane, HeldGood
    PROVE  HeldGood'
  <1>1. CASE UNCHANGED romVars
    BY <1>1, HeldGoodKept
  <1>2. CASE RomClosed
    <2>1. ~cpu_rom_save1'
      BY <1>2, Zenon DEF RomClosed
    <2> QED BY <2>1 DEF HeldGood
  <1>3. CASE RomByte
    <2>1. CASE Loading
      BY <1>3, <2>1, RomByteOutcome
    <2>2. CASE ~Loading
      <3>1. system_state = 3 /\ file_num = 5 /\ filer_cmd # 1
        BY <1>3, <2>2 DEF Loading, LoadInv, Loader, RomByte, Serving
      <3>2. UNCHANGED romVars \/ ~cpu_rom_save1'
        BY <3>1, GameGoesOn
      <3> QED BY <1>1, <3>2 DEF HeldGood
    <2> QED BY <2>1, <2>2
  <1>4. UNCHANGED romVars \/ RomClosed \/ RomByte
    <2>1. StreamSample \/ DelaySample => UNCHANGED romVars
      BY DEF StreamSample, DelaySample
    <2>2. OtherBranch => UNCHANGED romVars \/ RomClosed \/ RomByte
      BY DEF OtherBranch, SdReady, Interrupt, TakeSound, NbFiles, SoundSize, RomSizeReceived,
             ParseHeader, SoundClosed, HpsWaiting, Ignored
    <2> QED BY <2>1, <2>2 DEF ServeWord
  <1> QED BY <1>1, <1>2, <1>3, <1>4

LEMMA RomCleanFpga ==
    ASSUME LoadInv, Fpga
    PROVE  RomClean'
  <1>1. /\ TypeOK /\ RomClean /\ StoreRom /\ resets' = resets
        /\ TakeWord \/ ServeWord \/ IdleCycle
    BY DEF LoadInv, RequestInv, Fpga, Filer1Cycle, TakeWord, ServeWord, IdleCycle
  <1>2. CASE resets # 0
    BY <1>1, <1>2 DEF RomClean
  <1>3. CASE resets = 0
    <2>1. HeldGood /\ Sane
      BY <1>1, <1>3 DEF RomClean, Sane
    <2>2. \A c \in Cells : Right(c)' \/ (rom[Base(c[1]) + c[2]] = Blank)'
      <3>1. SUFFICES ASSUME NEW c \in Cells
                     PROVE  Right(c)' \/ rom'[Base(c[1]) + c[2]] = Blank
        BY DEF Blank
      <3>2. Right(c) \/ rom[Base(c[1]) + c[2]] = Blank
        BY <1>1, <1>3 DEF RomClean
      <3> QED BY <1>1, <2>1, <3>2, Stored
    <2>3. HeldGood'
      <3>1. CASE ServeWord
        BY <2>1, <3>1, HeldGoodServed
      <3>2. CASE TakeWord \/ IdleCycle
        <4>1. UNCHANGED romVars
          BY <3>2 DEF TakeWord, IdleCycle
        <4> QED BY <2>1, <4>1, HeldGoodKept
      <3> QED BY <1>1, <3>1, <3>2
    <2> QED BY <2>2, <2>3 DEF RomClean
  <1> QED BY <1>2, <1>3

----------------------------------------------------------------------------
(* The FPGA's cycle. *)

LEMMA PassingCycle ==
    ASSUME LoadInv, Fpga, TakeWord \/ IdleCycle
    PROVE  (Loader /\ WordAnswers /\ Answering)'
  <1>1. /\ TypeOK /\ Loader /\ WordAnswers /\ Answering /\ file_num \in 1..5
        /\ UNCHANGED hpsVars
        /\ (Sane' => Sane)
    <2>1. Sane' => Sane
      <3>1. ~(filer_data_ready /\ fifo0 = <<>>)
        BY DEF TakeWord, IdleCycle
      <3>2. announced' => announced
        BY <3>1, Zenon DEF Fpga
      <3> QED BY <3>2 DEF Sane, Fpga
    <2> QED BY <2>1 DEF LoadInv, RequestInv, TypeOK, Filer1Type, Fpga
  <1>2. /\ UNCHANGED <<filer_cmd, fpga_cmd, fpga_data, filer_delayed, system_state, loadVars,
                       romVars, request_for_audio, headerVars>>
        /\ StoreRom /\ (InFlight' <=> InFlight) /\ (InFlight => InHand' = InHand)
    <2>1. CASE TakeWord
      <3>1. InFlight /\ InFlight'
        BY <2>1, Taken
      <3>2. (InFlight' <=> InFlight)
        BY <3>1, Zenon
      <3> QED BY <2>1, <3>2, Taken
    <2>2. CASE IdleCycle
      BY <2>2 DEF IdleCycle, InFlight, InHand
    <2> QED BY <2>1, <2>2
  <1>3. Loader'
    <2>1. PICK f \in 1..5 : f = file_num
      BY <1>1
    <2>2. rom_addr \in Nat /\ FILE_SIZE \in Nat
      BY <1>1 DEF TypeOK, Filer1Type
    <2>3. system_state # 3 => \A n \in Nat : /\ Loaded(f, n) => Loaded(f, n)'
                                             /\ Loaded(5, n) => Loaded(5, n)'
      BY <1>1, <1>2, LoadedKept
    <2>4. system_state # 3 /\ LoadPoint => LoadPoint'
      BY <1>2, <2>1, <2>2, <2>3 DEF LoadPoint, InImage
    <2>5. system_state = 3 => rom' = rom
      BY <1>2 DEF StoreRom
    <2> QED BY <1>1, <1>2, <2>4, <2>5 DEF Loader, Loading, Right
  <1>4. WordAnswers'
    BY <1>1, <1>2 DEF WordAnswers, Answers, Loading
  <1>5. Answering'
    BY <1>1, <1>2 DEF Answering, Answers, Loading
  <1> QED BY <1>3, <1>4, <1>5

LEMMA ServingCycle ==
    ASSUME LoadInv, Fpga, ServeWord
    PROVE  (Loader /\ WordAnswers /\ Answering)'
  <1>0. /\ Exchange /\ Turn /\ Loader /\ Answering
        /\ UNCHANGED <<hpsVars, resets>>
        /\ filer_cmd \in {0, 1, 2, 6, 7, 8, 9}
        /\ ~InFlight' /\ filer_cmd' = filer_cmd /\ ~Quiet
    BY Served DEF LoadInv, RequestInv, Fpga, Exchange
  <1>1. WordAnswers'
    BY <1>0 DEF WordAnswers
  <1>2. CASE filer_cmd = 1
    <2>1. SdReady
      BY <1>2, Served, OneIsSdReady
    <2>2. Outcome
      BY <2>1, SdReadyOutcome
    <2>3. pc \in {"op", "data", "cmd"} /\ opNum = 1
      BY <1>2, AnnouncedByStart
    <2>4. Answering'
      BY <1>0, <1>2, <2>2, <2>3 DEF Answering, Answers, Outcome
    <2> QED BY <1>1, <2>2, <2>4 DEF Outcome
  <1>3. CASE filer_cmd # 1
    <2>1. Sane' => Sane
      <3>1. announced' => announced
        BY <1>3, Zenon DEF Fpga
      <3> QED BY <1>0, <3>1 DEF Sane
    <2>2. CASE ~Sane
      BY <1>1, <2>1, <2>2 DEF Loader, Answering, Loading
    <2>3. CASE Sane /\ system_state = 3
      <3>1. file_num = 5 /\ \A c \in Cells : Right(c)
        BY <1>0, <2>3 DEF Loader
      <3>2. system_state' = 3 /\ file_num' = 5 /\ rom' = rom
        BY <1>3, <2>3, <3>1, GameGoesOn
      <3> QED BY <1>1, <3>1, <3>2 DEF Loader, Answering, Loading, Right
    <2>4. CASE Loading
      <3>1. Outcome
        BY <2>4, LoadingOutcome
      <3>2. /\ pc \in {"data", "cmd", "arg"} => filer_cmd = opNum
            /\ pc \in {"byte", "nextCmd", "nextArg"} => filer_cmd = 9
            /\ InFlight
            /\ pc = "cmd" /\ opNum \in {6, 8} => filenameSel = file_num
            /\ pc = "nextCmd" => filenameSel = file_num
        <4>1. InFlight
          BY <1>0, <2>4 DEF Loader, Quiet
        <4> QED BY <1>0, <2>4, <4>1 DEF Answering
      <3>3. pc \in {"cmd", "nextCmd"} \/ (pc = "op" /\ opNum = 1)
        BY <1>0, <3>2 DEF Turn
      <3>4. pc = "cmd" => opNum \in {1, 2, 6, 7, 8}
        BY <1>0 DEF Exchange
      <3>5. Answering'
        BY <1>0, <3>1, <3>2, <3>3, <3>4 DEF Answering, Answers, Outcome
      <3> QED BY <1>1, <3>1, <3>5 DEF Outcome
    <2> QED BY <2>2, <2>3, <2>4 DEF Loading
  <1> QED BY <1>2, <1>3

----------------------------------------------------------------------------
(* The HPS's step. *)

LEMMA HpsLeaves ==
    ASSUME Hps
    PROVE  UNCHANGED <<fpga_cmd, fpga_data, filer1Vars, countVars>>
  BY DEF Hps, HpsStep, WriteOp, WriteData, ReadCmd, ReadArg, CountFiles, SelectFile,
         UnknownFile, OpenFile, WaitForRequest, RepeatOp, WriteByteOp, WriteByte, NextArg,
         SendNext, Poll, CloseFile

\* What the FPGA and the ROM hold does not depend on the HPS.
LEMMA LoaderKept ==
    ASSUME Loader, RomClean,
           UNCHANGED <<fpga_cmd, fpga_data, filer_delayed, system_state, loadVars, romVars,
                       rom, request_for_audio, AUDIO_header_flag, resets, announced>>
    PROVE  Loader' /\ RomClean'
  <1>1. LoadPoint => LoadPoint'
    BY DEF LoadPoint, InImage, Loaded, HeldGood, Held, Right
  <1>2. RomClean'
    BY DEF RomClean, HeldGood, Held, Right, Blank
  <1> QED BY <1>1, <1>2 DEF Loader, Loading, Sane, Right

LEMMA HpsTurn ==
    ASSUME Prompt, LoadInv, Hps
    PROVE  Turn'
  <1>0. /\ Turn /\ Exchange /\ FileKnown /\ ~InFlight /\ fifo0 = <<>> /\ ~filer_data_ready
        /\ UNCHANGED <<filer_data_ready, filer_delayed>>
    BY HpsLeaves DEF LoadInv, RequestInv, Hps, Settled, InFlight
  <1>1. opNum \in {0, 1, 2, 6, 7, 8, 9}
    BY DEF LoadInv, RequestInv, TypeOK, HpsType
  <1>2. \A w \in Word : Append(fifo0, w) # <<>> /\ Len(Append(fifo0, w)) <= 1
    BY <1>0
  <1> USE <1>0, <1>1 DEF Turn, Exchange, FileKnown, Quiet, InFlight
  <1>3. CASE WriteOp
    BY <1>3 DEF WriteOp
  <1>4. CASE WriteData
    <2>1. fifo0' # <<>> /\ Len(fifo0') <= 1
      BY <1>4 DEF WriteData, Push
    <2> QED BY <1>4, <2>1 DEF WriteData
  <1>5. CASE ReadCmd
    BY <1>5 DEF ReadCmd
  <1>6. CASE CountFiles
    BY <1>6 DEF CountFiles, ReadArg
  <1>7. CASE SelectFile
    BY <1>7 DEF SelectFile, ReadArg
  <1>8. CASE UnknownFile
    BY <1>8 DEF UnknownFile, ReadArg
  <1>9. CASE OpenFile
    BY <1>9 DEF OpenFile, ReadArg
  <1>10. CASE WaitForRequest
    BY <1>10 DEF WaitForRequest, ReadArg
  <1>11. CASE RepeatOp
    BY <1>11 DEF RepeatOp, ReadArg
  <1>12. CASE WriteByteOp
    BY <1>12 DEF WriteByteOp
  <1>13. CASE WriteByte
    <2>1. fifo0' # <<>> /\ Len(fifo0') <= 1
      BY <1>13 DEF WriteByte, Push
    <2> QED BY <1>13, <2>1 DEF WriteByte
  <1>14. CASE SendNext
    BY <1>14 DEF SendNext, NextArg
  <1>15. CASE Poll
    BY <1>15 DEF Poll, NextArg
  <1>16. CASE CloseFile
    BY <1>16 DEF CloseFile, NextArg
  <1> QED BY <1>3, <1>4, <1>5, <1>6, <1>7, <1>8, <1>9, <1>10, <1>11, <1>12, <1>13, <1>14,
             <1>15, <1>16 DEF Hps, HpsStep

\* The HPS reads a request that stands, and its answer is the one the loader waits for.
LEMMA HpsAnswers ==
    ASSUME Prompt, LoadInv, Hps
    PROVE  (WordAnswers /\ Answering)'
  <1>0. /\ Exchange /\ Answering /\ ~InFlight /\ fifo0 = <<>>
        /\ Loading => /\ fpga_cmd = 6 => fpga_data = file_num /\ file_num <= 4
                      /\ request_for_audio => file_num = 1
                      /\ ~request_for_audio => LoadPoint
        /\ file_num \in 1..5
        /\ UNCHANGED <<fpga_cmd, fpga_data, filer_data_ready, filer_data, file_num>>
        /\ Loading' <=> Loading
    BY HpsLeaves
    DEF LoadInv, RequestInv, Hps, Settled, InFlight, Loader, TypeOK, Filer1Type, Loading, Sane
  <1>1. Loading /\ fpga_cmd \in {4, 31} => file_num <= 4
    BY <1>0 DEF LoadPoint, InImage
  <1>2. Loading /\ fpga_cmd = 6 => FileSize(fpga_data) = RomSize[file_num]
    BY <1>0 DEF FileSize, RomFiles
  <1>3. CASE ~Loading
    BY <1>0, <1>3 DEF WordAnswers, Answering
  <1>4. CASE Loading
    <2> USE <1>0, <1>1, <1>2, <1>4 DEF Exchange, Answering, WordAnswers, Answers
    <2>3. CASE WriteOp
      BY <2>3 DEF WriteOp, InFlight
    <2>4. CASE WriteData
      <3>1. fifo0' # <<>> /\ Head(fifo0') = Number(IF opNum = 1 THEN 670 ELSE hData)
        BY <2>4 DEF WriteData, Push
      <3>2. InFlight' /\ InHand' = Number(IF opNum = 1 THEN 670 ELSE hData)
        BY <3>1 DEF InFlight, InHand
      <3>3. opNum = 8 => InHand'.at = RomSize[file_num]
        BY <2>4, <3>2 DEF WriteData, Number
      <3> QED BY <2>4, <3>2, <3>3 DEF WriteData
    <2>5. CASE ReadCmd
      BY <2>5 DEF ReadCmd, InFlight
    <2>6. CASE CountFiles
      BY <2>6 DEF CountFiles, ReadArg, InFlight
    <2>7. CASE SelectFile
      BY <2>7 DEF SelectFile, ReadArg, InFlight
    <2>8. CASE UnknownFile
      BY <2>8 DEF UnknownFile, ReadArg, InFlight
    <2>9. CASE OpenFile
      BY <2>9 DEF OpenFile, ReadArg, InFlight
    <2>10. CASE WaitForRequest
      BY <2>10 DEF WaitForRequest, ReadArg, InFlight
    <2>11. CASE RepeatOp
      BY <2>11 DEF RepeatOp, ReadArg, InFlight
    <2>12. CASE WriteByteOp
      BY <2>12 DEF WriteByteOp, InFlight
    <2>13. CASE WriteByte
      <3>1. fifo0' # <<>> /\ Head(fifo0') = Byte(filenameSel, fArg1_cur)
        BY <2>13 DEF WriteByte, Push
      <3>2. InFlight' /\ InHand' = Byte(filenameSel, fArg1_cur)
        BY <3>1 DEF InFlight, InHand
      <3> QED BY <2>13, <3>2 DEF WriteByte
    <2>14. CASE SendNext
      BY <2>14 DEF SendNext, NextArg, InFlight
    <2>15. CASE Poll
      BY <2>15 DEF Poll, NextArg, InFlight
    <2>16. CASE CloseFile
      BY <2>16 DEF CloseFile, NextArg, InFlight
    <2> QED BY <2>3, <2>4, <2>5, <2>6, <2>7, <2>8, <2>9, <2>10, <2>11, <2>12, <2>13, <2>14,
               <2>15, <2>16 DEF Hps, HpsStep
  <1> QED BY <1>3, <1>4

----------------------------------------------------------------------------

LEMMA LoadInit == Channel1Init => LoadInv
  <1> SUFFICES ASSUME Channel1Init PROVE LoadInv
    OBVIOUS
  <1>1. /\ fifo0 = <<>> /\ fpga_cmd = 0 /\ pc = "exit"
        /\ file_num = 1 /\ system_state = 0 /\ AUDIO_header_flag = 0
    BY DEF Channel1Init, BridgeInit, HpsInit, Filer1Init
  <1>2. ~filer_data_ready /\ ~filer_delayed /\ ~cpu_rom_save1 /\ ~request_for_audio
    BY Zenon DEF Channel1Init, Filer1Init
  <1>3. Turn
    BY <1>1, <1>2 DEF Turn, Quiet, InFlight
  <1>4. Loader
    <2>1. LoadPoint
      BY <1>1 DEF LoadPoint
    <2> QED BY <1>1, <1>2, <2>1 DEF Loader
  <1>5. WordAnswers /\ Answering
    BY <1>1, <1>2 DEF WordAnswers, Answering, InFlight
  <1>6. RomClean
    <2>1. HeldGood
      BY <1>2 DEF HeldGood
    <2>2. \A c \in Cells : rom[Base(c[1]) + c[2]] = Blank
      BY CellFacts DEF Channel1Init, Filer1Init
    <2> QED BY <2>1, <2>2 DEF RomClean
  <1>7. resets \in Nat
    BY DEF Channel1Init
  <1> QED BY <1>3, <1>4, <1>5, <1>6, <1>7, RequestInit DEF LoadInv

\* Steps that touch neither the bridge, nor the loader, nor the HPS.
LEMMA LoadInvApart ==
    ASSUME LoadInv, RequestInv',
           UNCHANGED <<bridgeVars, pc, opNum, hData, fCmd, fArg1_cur, filenameSel, wordVars,
                       system_state, loadVars, romVars, rom, request_for_audio,
                       AUDIO_header_flag, starts, resets, announced>>
    PROVE  LoadInv'
  <1>1. Loader' /\ RomClean'
    BY LoaderKept DEF LoadInv
  <1>2. Turn'
    BY DEF LoadInv, Turn, Quiet, InFlight
  <1>3. WordAnswers'
    BY DEF LoadInv, WordAnswers, Loading, Sane, InFlight, InHand, Answers
  <1>4. Answering'
    BY DEF LoadInv, Answering, Loading, Sane, InFlight, Answers
  <1> QED BY <1>1, <1>2, <1>3, <1>4 DEF LoadInv

LEMMA LoadStep ==
    ASSUME Prompt PROVE LoadInv /\ [Channel1Next]_channel1Vars => LoadInv'
  <1> SUFFICES ASSUME LoadInv, [Channel1Next]_channel1Vars PROVE LoadInv'
    OBVIOUS
  <1>0. RequestInv' /\ resets' \in Nat
    <2>1. RequestInv'
      BY RequestStep DEF LoadInv
    <2>2. resets' \in {resets, resets + 1}
      BY DEF Channel1Next, Hps, Start, Mount, Fpga, Play, Sound, Game, Reset
    <2> QED BY <2>1, <2>2 DEF LoadInv
  <1>1. CASE Hps
    <2>1. Loader' /\ RomClean'
      BY <1>1, HpsLeaves, LoaderKept DEF LoadInv
    <2>2. Turn' /\ WordAnswers' /\ Answering'
      BY <1>1, HpsTurn, HpsAnswers
    <2> QED BY <1>0, <2>1, <2>2 DEF LoadInv
  <1>2. CASE Start
    <2>1. /\ pc' = "op" /\ opNum' = 1
          /\ UNCHANGED <<bridgeVars, filer1Vars, resets, announced>>
      BY <1>2 DEF Start, StartProcess
    <2>2. Loader' /\ RomClean'
      BY <2>1, LoaderKept DEF LoadInv
    <2>3. Turn'
      BY <2>1 DEF LoadInv, Turn, Quiet, InFlight
    <2>4. WordAnswers'
      BY <2>1 DEF LoadInv, WordAnswers, Loading, Sane, InFlight, InHand, Answers
    <2>5. Answering'
      BY <2>1 DEF Answering, Answers
    <2> QED BY <1>0, <2>2, <2>3, <2>4, <2>5 DEF LoadInv
  <1>3. CASE Mount
    BY <1>0, <1>3, LoadInvApart DEF Mount, MountCard
  <1>4. CASE Fpga
    <2>1. TakeWord \/ ServeWord \/ IdleCycle
      BY <1>4 DEF Fpga, Filer1Cycle
    <2>2. Loader' /\ WordAnswers' /\ Answering'
      BY <1>4, <2>1, PassingCycle, ServingCycle
    <2>3. Turn' /\ RomClean'
      BY <1>4, TurnFpga, RomCleanFpga
    <2> QED BY <1>0, <2>2, <2>3 DEF LoadInv
  <1>5. CASE Play
    BY <1>0, <1>5, LoadInvApart DEF Play
  <1>6. CASE Sound
    BY <1>0, <1>6, LoadInvApart DEF Sound
  <1>7. CASE Game
    BY <1>0, <1>7, LoadInvApart DEF Game
  <1>8. CASE Reset
    <2>1. ~Sane'
      <3>1. ~announced'
        BY <1>8, Zenon DEF Reset
      <3>2. resets' # 0
        <4>1. resets < MaxResets /\ resets' = resets + 1
          BY <1>8 DEF Reset
        <4> QED BY <4>1 DEF LoadInv
      <3> QED BY <3>1, <3>2 DEF Sane
    <2>2. Loader' /\ WordAnswers' /\ Answering' /\ RomClean'
      BY <2>1 DEF Loader, WordAnswers, Answering, RomClean, Loading, Sane
    <2>3. Turn'
      BY <1>8 DEF Reset, LoadInv, Turn, Quiet, InFlight
    <2> QED BY <1>0, <2>2, <2>3 DEF LoadInv
  <1>9. CASE UNCHANGED channel1Vars
    BY <1>0, <1>9, LoadInvApart
  <1> QED BY <1>1, <1>2, <1>3, <1>4, <1>5, <1>6, <1>7, <1>8, <1>9 DEF Channel1Next

LEMMA LoadAlways == ASSUME Prompt PROVE Channel1Spec => []LoadInv
  <1>1. LoadInv /\ [Channel1Next]_channel1Vars => LoadInv'
    BY LoadStep
  <1> QED BY <1>1, LoadInit, PTL DEF Channel1Spec

\* "3 => ready to play" (SPACE_INVADERS.v:115) is true of the ROM whenever the HPS program
\* has announced itself since the last reset, whatever was loaded, played, interrupted or
\* restarted before.
THEOREM RomLayoutHolds == ASSUME Prompt PROVE Channel1Spec => []RomLayout
  <1>1. LoadInv => RomLayout
    BY DEF LoadInv, Loader, Sane, RomLayout, ReadyToPlay, Right
  <1> QED BY <1>1, LoadAlways, PTL

\* Unless the board is reset, no cell of the ROM ever holds a byte of another place
\* (SPACE_INVADERS.v:933-981), however often the HPS program is stopped in the middle of a
\* load or a sound and started again.
THEOREM NoMisplacedByteHolds == ASSUME Prompt PROVE Channel1Spec => []NoMisplacedByte
  <1>1. LoadInv => NoMisplacedByte
    BY DEF LoadInv, RomClean, NoMisplacedByte, Right
  <1> QED BY <1>1, LoadAlways, PTL

----------------------------------------------------------------------------
(* The player: what goes to the speaker. *)

\* The port holds the operation the HPS is at, and the request it has read still stands.
PortsAgree ==
    /\ pc \in {"data", "cmd", "arg"} => filer_cmd = opNum
    /\ pc \in {"byte", "nextCmd", "nextArg"} => filer_cmd = 9
    /\ pc = "arg" => fCmd = fpga_cmd

IsSound(f) == f \in WavFiles

\* While the game runs the FPGA asks for sounds only, and what the HPS has open, or will
\* open when it has read the answer, is a sound.
SoundOpen ==
    /\ pc \in {"byteOp", "byte", "nextCmd", "nextArg"} => IsSound(filenameSel)
    /\ pc \in {"op", "data", "cmd", "arg"} /\ opNum \in {6, 8} => IsSound(filenameSel)
    /\ pc \in {"cmd", "arg"} /\ ~InFlight /\ fpga_cmd = 31 => IsSound(filenameSel)
    /\ fpga_cmd = 6 => IsSound(fpga_data)
    /\ InFlight /\ filer_cmd = 9 => IsSound(InHand.file)

\* What is on its way to the speaker.
SoundBuffered ==
    /\ \A i \in DOMAIN samples : IsSound(samples[i].file)
    /\ AUDIO_wrreq => IsSound(AUDIO_data.file)
    /\ filer_delayed => IsSound(filer_data_delayed.file)
    /\ filer_delayed /\ ~InFlight => IsSound(filer_data.file)

PlayInv ==
    /\ LoadInv
    /\ resets = 0 => PortsAgree /\ SoundBuffered /\ (system_state = 3 => SoundOpen)

----------------------------------------------------------------------------
(* The FPGA's cycle. *)

LEMMA PlayFacts ==
    ASSUME PlayInv, resets = 0
    PROVE  /\ TypeOK /\ Exchange /\ ImageMissing /\ FileKnown /\ Turn /\ Loader
           /\ PortsAgree /\ SoundBuffered /\ (system_state = 3 => SoundOpen /\ file_num = 5)
           /\ (system_state # 3 => ~filer_delayed /\ AUDIO_header_flag = 0)
           /\ filer_cmd \in {0, 1, 2, 6, 7, 8, 9}
           /\ pc \in {"op", "data", "cmd", "arg"} => opNum \in {1, 2, 6, 7, 8}
  BY DEF PlayInv, LoadInv, RequestInv, Loader, Loading, Sane, Exchange

\* A word that is streamed is a byte of a sound.
LEMMA StreamedIsSound ==
    ASSUME PlayInv, resets = 0, ServeWord, Streaming
    PROVE  /\ filer_cmd = 9 /\ system_state = 3
           /\ IsSound(filer_data.file) /\ IsSound(NextSample.file)
           /\ IsSound(Marked(filer_data).file)
  <1>1. filer_cmd = 9 /\ AUDIO_header_flag = 3
    BY PlayFacts DEF Streaming, sound1_inProgress
  <1>2. system_state = 3
    BY <1>1, PlayFacts
  <1>3. IsSound(filer_data.file)
    <2>1. CASE InFlight
      <3>1. InHand = filer_data
        BY Served DEF PlayInv
      <3> QED BY <1>1, <1>2, <2>1, <3>1, PlayFacts DEF SoundOpen
    <2>2. CASE ~InFlight
      <3>1. filer_delayed
        BY <2>2 DEF ServeWord, InFlight
      <3> QED BY <2>2, <3>1, PlayFacts DEF SoundBuffered
    <2> QED BY <2>1, <2>2
  <1>4. IsSound(Marked(filer_data).file)
    BY <1>3 DEF Marked
  <1>5. IsSound(NextSample.file)
    <2>1. filer_delayed => IsSound(filer_data_delayed.file)
      BY PlayFacts DEF SoundBuffered
    <2> QED BY <1>4, <2>1 DEF NextSample
  <1> QED BY <1>1, <1>2, <1>3, <1>4, <1>5

LEMMA QueueKeepsSounds ==
    ASSUME PlayInv, resets = 0, StoreSample
    PROVE  \A i \in DOMAIN samples' : IsSound(samples'[i].file)
  <1>1. samples \in Seq(Sample) /\ AUDIO_data \in Sample /\ SoundBuffered
    BY PlayFacts DEF TypeOK, Filer1Type
  <1>2. CASE AUDIO_wrreq /\ ~AUDIO_fifo_full
    <2>1. samples' = Append(samples, AUDIO_data)
      BY <1>2 DEF StoreSample
    <2> QED BY <1>1, <1>2, <2>1 DEF SoundBuffered
  <1>3. CASE ~(AUDIO_wrreq /\ ~AUDIO_fifo_full)
    <2>1. samples' = samples
      BY <1>3 DEF StoreSample
    <2> QED BY <1>1, <2>1 DEF SoundBuffered
  <1> QED BY <1>2, <1>3

LEMMA OtherKeepsSample ==
    ASSUME OtherBranch
    PROVE  UNCHANGED AUDIO_data /\ (AUDIO_wrreq' => AUDIO_wrreq)
  <1>1. CASE SoundClosed
    <2>1. AUDIO_wrreq' => AUDIO_wrreq
      BY <1>1, Zenon DEF SoundClosed
    <2> QED BY <1>1, <2>1 DEF SoundClosed
  <1>2. CASE ~SoundClosed
    <2>1. UNCHANGED <<AUDIO_data, AUDIO_wrreq>>
      BY <1>2 DEF OtherBranch, SdReady, Interrupt, TakeSound, NbFiles, SoundSize,
                  RomSizeReceived, ParseHeader, RomByte, RomClosed, HpsWaiting, Ignored
    <2>2. AUDIO_wrreq' => AUDIO_wrreq
      BY <2>1, Zenon
    <2> QED BY <2>1, <2>2
  <1> QED BY <1>1, <1>2

LEMMA SoundBufferedFpga ==
    ASSUME PlayInv, resets = 0, Fpga
    PROVE  SoundBuffered'
  <1>0. SoundBuffered
    BY PlayFacts
  <1>1. \A i \in DOMAIN samples' : IsSound(samples'[i].file)
    BY QueueKeepsSounds DEF Fpga, Filer1Cycle, TakeWord, ServeWord, IdleCycle
  <1>2. CASE TakeWord
    <2>1. InFlight'
      BY <1>2, Taken DEF PlayInv
    <2>2. UNCHANGED <<AUDIO_data, AUDIO_wrreq, filer_delayed, filer_data_delayed>>
      BY <1>2 DEF TakeWord
    <2> QED BY <1>0, <1>1, <2>1, <2>2 DEF SoundBuffered, IsSound
  <1>3. CASE ServeWord
    <2>0. UNCHANGED filer_data
      BY <1>3 DEF ServeWord
    <2>1. CASE StreamSample
      <3>1. IsSound(NextSample.file)
        BY <1>3, <2>1, StreamedIsSound DEF StreamSample
      <3>2. ~filer_delayed'
        BY <2>1, Zenon DEF StreamSample
      <3>3. AUDIO_data' = NextSample
        BY <2>1 DEF StreamSample
      <3> QED BY <1>1, <3>1, <3>2, <3>3 DEF SoundBuffered, IsSound
    <2>2. CASE DelaySample
      <3>1. IsSound(filer_data.file) /\ IsSound(Marked(filer_data).file)
        BY <1>3, <2>2, StreamedIsSound DEF DelaySample
      <3>2. ~AUDIO_wrreq'
        BY <2>2, Zenon DEF DelaySample
      <3>3. filer_data_delayed' = Marked(filer_data)
        BY <2>2 DEF DelaySample
      <3> QED BY <1>1, <2>0, <3>1, <3>2, <3>3 DEF SoundBuffered, IsSound
    <2>3. CASE OtherBranch /\ filer_delayed' = FALSE
      <3>1. UNCHANGED AUDIO_data /\ (AUDIO_wrreq' => AUDIO_wrreq)
        BY <2>3, OtherKeepsSample
      <3>2. ~filer_delayed'
        BY <2>3, Zenon
      <3> QED BY <1>0, <1>1, <3>1, <3>2 DEF SoundBuffered, IsSound
    <2> QED BY <1>3, <2>1, <2>2, <2>3 DEF ServeWord
  <1>4. CASE IdleCycle
    BY <1>0, <1>1, <1>4 DEF IdleCycle, SoundBuffered, IsSound, InFlight
  <1> QED BY <1>2, <1>3, <1>4 DEF Fpga, Filer1Cycle

\* What the FPGA may ask for while the game runs.
LEMMA AskedWhilePlaying ==
    ASSUME PlayInv, resets = 0, ServeWord, system_state = 3, filer_cmd # 1
    PROVE  /\ fpga_cmd' = 6 => IsSound(fpga_data')
           /\ fpga_cmd' = 31 => filer_cmd \in {0, 6, 8, 9}
  <1>0. /\ file_num = 5 /\ filer_cmd \in {0, 2, 6, 7, 8, 9}
        /\ (fpga_cmd = 6 => IsSound(fpga_data))
        /\ filer_cmd # 2
        /\ (sound1_changed => IsSound(sound1_wav))
    BY PlayFacts DEF SoundOpen, ImageMissing, FileKnown, IsSound
  <1> USE <1>0 DEF Ask, Serving
  <1>1. CASE StreamSample \/ DelaySample
    <2>1. filer_cmd = 9
      BY <1>1, StreamedIsSound DEF StreamSample, DelaySample
    <2>2. fpga_cmd' \in {4, 31} \/ UNCHANGED <<fpga_cmd, fpga_data>>
      BY <1>1 DEF StreamSample, DelaySample
    <2> QED BY <2>1, <2>2
  <1>2. CASE Interrupt \/ TakeSound
    BY <1>2 DEF Interrupt, TakeSound, SoundPending
  <1>3. CASE SdReady \/ NbFiles
    BY <1>3 DEF SdReady, NbFiles
  <1>4. CASE SoundSize \/ RomSizeReceived
    BY <1>4 DEF SoundSize, RomSizeReceived
  <1>5. CASE ParseHeader \/ RomByte
    <2>1. filer_cmd = 9 /\ fpga_cmd' \in {4, 31}
      BY <1>5 DEF ParseHeader, InHeader, RomByte
    <2> QED BY <2>1
  <1>6. CASE SoundClosed
    <2>1. filer_cmd = 6 /\ fpga_cmd' \in {5, 31}
      BY <1>6 DEF SoundClosed
    <2> QED BY <2>1
  <1>7. CASE RomClosed \/ HpsWaiting
    BY <1>7 DEF RomClosed, HpsWaiting
  <1>8. CASE Ignored
    BY <1>8 DEF Ignored
  <1> QED BY <1>1, <1>2, <1>3, <1>4, <1>5, <1>6, <1>7, <1>8 DEF ServeWord, OtherBranch

\* The game is started by the answer to operation 7.
LEMMA StartsPlaying ==
    ASSUME PlayInv, resets = 0, ServeWord, system_state # 3, system_state' = 3
    PROVE  filer_cmd = 7 /\ fpga_cmd' = 5
  <1>1. ~(StreamSample \/ DelaySample)
    BY DEF StreamSample, DelaySample
  <1>2. OtherBranch
    BY <1>1 DEF ServeWord
  <1>3. HpsWaiting
    BY <1>2 DEF OtherBranch, SdReady, Interrupt, TakeSound, NbFiles, SoundSize,
                RomSizeReceived, ParseHeader, RomByte, SoundClosed, RomClosed, Ignored
  <1> QED BY <1>3 DEF HpsWaiting, Ask, Serving

LEMMA SoundOpenFpga ==
    ASSUME PlayInv, resets = 0, Fpga, system_state' = 3
    PROVE  SoundOpen'
  <1>0. UNCHANGED hpsVars
    BY DEF Fpga
  <1>1. CASE TakeWord
    <2>1. /\ InFlight /\ InFlight' /\ InHand' = InHand /\ system_state = 3
          /\ UNCHANGED <<filer_cmd, fpga_cmd, fpga_data>>
      BY <1>1, Taken DEF PlayInv
    <2> QED BY <1>0, <2>1, PlayFacts DEF SoundOpen, IsSound
  <1>2. CASE IdleCycle
    <2>1. UNCHANGED <<bridgeVars, filer_data, filer_data_ready, system_state>>
      BY <1>2 DEF IdleCycle
    <2> QED BY <1>0, <2>1, PlayFacts DEF SoundOpen, IsSound, InFlight, InHand
  <1>3. CASE ServeWord
    <2>1. /\ ~InFlight' /\ filer_cmd' = filer_cmd /\ ~Quiet
      BY <1>3, Served DEF PlayInv
    <2>2. pc # "arg" /\ (pc = "cmd" => filer_cmd = opNum /\ opNum \in {1, 2, 6, 7, 8})
      BY <2>1, PlayFacts DEF Exchange, PortsAgree
    <2>3. CASE system_state = 3
      <3>1. filer_cmd # 1
        <4>1. filer_cmd = 1 => SdReady
          BY <1>3, Served, OneIsSdReady DEF PlayInv
        <4> QED BY <4>1 DEF SdReady
      <3>2. /\ fpga_cmd' = 6 => IsSound(fpga_data')
            /\ fpga_cmd' = 31 => filer_cmd \in {0, 6, 8, 9}
        BY <1>3, <2>3, <3>1, AskedWhilePlaying
      <3>3. SoundOpen
        BY <2>3, PlayFacts
      <3> QED BY <1>0, <2>1, <2>2, <3>2, <3>3 DEF SoundOpen, IsSound
    <2>4. CASE system_state # 3
      <3>1. filer_cmd = 7 /\ fpga_cmd' = 5
        BY <1>3, <2>4, StartsPlaying
      <3>2. InFlight
        BY <2>1, <2>4, PlayFacts DEF Quiet
      <3>3. pc \in {"cmd", "nextCmd"} \/ (pc = "op" /\ opNum = 1)
        BY <3>2, PlayFacts DEF Turn
      <3>4. pc # "nextCmd"
        BY <3>1, PlayFacts DEF PortsAgree
      <3> QED BY <1>0, <2>1, <2>2, <3>1, <3>3, <3>4 DEF SoundOpen
    <2> QED BY <2>3, <2>4
  <1> QED BY <1>1, <1>2, <1>3 DEF Fpga, Filer1Cycle

LEMMA PortsAgreeFpga ==
    ASSUME PlayInv, resets = 0, Fpga
    PROVE  PortsAgree'
  <1>1. /\ UNCHANGED <<hpsVars, filer_cmd>>
        /\ Quiet => UNCHANGED fpga_cmd
    BY CycleRequest DEF Fpga, PlayInv, LoadInv
  <1>2. PortsAgree /\ (pc = "arg" => Quiet)
    BY PlayFacts DEF Exchange
  <1> QED BY <1>1, <1>2 DEF PortsAgree

----------------------------------------------------------------------------
(* The HPS's step. *)

LEMMA PlayHps ==
    ASSUME Prompt, PlayInv, resets = 0, Hps
    PROVE  PortsAgree' /\ SoundBuffered' /\ (system_state' = 3 => SoundOpen')
  <1>0. /\ Exchange /\ PortsAgree /\ SoundBuffered /\ (system_state = 3 => SoundOpen)
        /\ ~InFlight /\ fifo0 = <<>>
        /\ UNCHANGED <<fpga_cmd, fpga_data, filer1Vars>>
    BY PlayFacts, HpsLeaves DEF Hps, Settled, InFlight
  <1>1. SoundBuffered'
    BY <1>0 DEF SoundBuffered, IsSound
  <1> USE <1>0 DEF Exchange, PortsAgree, SoundOpen, IsSound
  <1>3. CASE WriteOp
    BY <1>1, <1>3 DEF WriteOp, InFlight
  <1>4. CASE WriteData
    <2>1. fifo0' # <<>>
      BY <1>4 DEF WriteData, Push
    <2>2. InFlight' /\ filer_cmd' # 9
      BY <1>4, <2>1 DEF WriteData, InFlight
    <2> QED BY <1>1, <1>4, <2>2 DEF WriteData
  <1>5. CASE ReadCmd
    BY <1>1, <1>5 DEF ReadCmd, InFlight
  <1>6. CASE CountFiles
    BY <1>1, <1>6 DEF CountFiles, ReadArg, InFlight
  <1>7. CASE SelectFile
    BY <1>1, <1>7 DEF SelectFile, ReadArg, InFlight
  <1>8. CASE UnknownFile
    BY <1>1, <1>8 DEF UnknownFile, ReadArg, InFlight
  <1>9. CASE OpenFile
    BY <1>1, <1>9 DEF OpenFile, ReadArg, InFlight
  <1>10. CASE WaitForRequest
    BY <1>1, <1>10 DEF WaitForRequest, ReadArg, InFlight
  <1>11. CASE RepeatOp
    BY <1>1, <1>11 DEF RepeatOp, ReadArg, InFlight
  <1>12. CASE WriteByteOp
    BY <1>1, <1>12 DEF WriteByteOp, InFlight
  <1>13. CASE WriteByte
    <2>1. fifo0' # <<>> /\ Head(fifo0') = Byte(filenameSel, fArg1_cur)
      BY <1>13 DEF WriteByte, Push
    <2>2. InFlight' /\ InHand'.file = filenameSel
      BY <2>1 DEF InFlight, InHand, Byte
    <2> QED BY <1>1, <1>13, <2>2 DEF WriteByte
  <1>14. CASE SendNext
    BY <1>1, <1>14 DEF SendNext, NextArg, InFlight
  <1>15. CASE Poll
    BY <1>1, <1>15 DEF Poll, NextArg, InFlight
  <1>16. CASE CloseFile
    BY <1>1, <1>16 DEF CloseFile, NextArg, InFlight
  <1> QED BY <1>3, <1>4, <1>5, <1>6, <1>7, <1>8, <1>9, <1>10, <1>11, <1>12, <1>13, <1>14,
             <1>15, <1>16 DEF Hps, HpsStep

----------------------------------------------------------------------------

LEMMA PlayInit == Channel1Init => PlayInv
  <1> SUFFICES ASSUME Channel1Init PROVE PlayInv
    OBVIOUS
  <1>1. samples = <<>> /\ pc = "exit" /\ system_state = 0
    BY DEF Channel1Init, HpsInit, Filer1Init
  <1>2. ~AUDIO_wrreq /\ ~filer_delayed
    BY Zenon DEF Channel1Init, Filer1Init
  <1>3. PortsAgree /\ SoundBuffered
    BY <1>1, <1>2 DEF PortsAgree, SoundBuffered
  <1> QED BY <1>1, <1>3, LoadInit DEF PlayInv

LEMMA PlayStep ==
    ASSUME Prompt PROVE PlayInv /\ [Channel1Next]_channel1Vars => PlayInv'
  <1> SUFFICES ASSUME PlayInv, [Channel1Next]_channel1Vars, resets' = 0
               PROVE  PortsAgree' /\ SoundBuffered' /\ (system_state' = 3 => SoundOpen')
    BY LoadStep DEF PlayInv
  <1>0. resets = 0 /\ ~Reset
    <2>1. resets' \in {resets, resets + 1} /\ resets \in Nat /\ (Reset => resets' = resets + 1)
      BY DEF Channel1Next, Hps, Start, Mount, Fpga, Play, Sound, Game, Reset, PlayInv, LoadInv
    <2> QED BY <2>1
  <1>00. PortsAgree /\ SoundBuffered /\ (system_state = 3 => SoundOpen)
    BY <1>0, PlayFacts
  <1>1. CASE Hps
    BY <1>0, <1>1, PlayHps
  <1>2. CASE Start
    <2>1. pc' = "op" /\ opNum' = 1 /\ UNCHANGED <<bridgeVars, filer1Vars>>
      BY <1>2 DEF Start, StartProcess
    <2> QED BY <1>00, <2>1
            DEF PortsAgree, SoundBuffered, SoundOpen, IsSound, InFlight, InHand
  <1>3. CASE Fpga
    BY <1>0, <1>3, SoundBufferedFpga, SoundOpenFpga, PortsAgreeFpga
  <1>4. CASE Play
    <2>1. samples \in Seq(Sample) /\ samples # <<>> /\ samples' = Tail(samples)
      BY <1>0, <1>4, PlayFacts DEF Play, PlaySample, TypeOK, Filer1Type
    <2>2. \A i \in DOMAIN samples' : samples'[i] = samples[i + 1] /\ i + 1 \in DOMAIN samples
      BY <2>1
    <2>3. UNCHANGED <<bridgeVars, hpsVars, wordVars, system_state, AUDIO_wrreq, AUDIO_data>>
      BY <1>4 DEF Play
    <2> QED BY <1>00, <2>2, <2>3
            DEF PortsAgree, SoundBuffered, SoundOpen, IsSound, InFlight, InHand
  <1>5. CASE Mount \/ Sound \/ Game \/ UNCHANGED channel1Vars
    <2>1. UNCHANGED <<bridgeVars, pc, opNum, fCmd, filenameSel, wordVars, system_state,
                      AUDIO_wrreq, AUDIO_data, samples>>
      BY <1>5 DEF Mount, MountCard, Sound, Game
    <2> QED BY <1>00, <2>1
            DEF PortsAgree, SoundBuffered, SoundOpen, IsSound, InFlight, InHand
  <1> QED BY <1>0, <1>1, <1>2, <1>3, <1>4, <1>5 DEF Channel1Next

\* While the board was not reset, every sample in the queue is a byte of a sound file, none of a
\* program image and no number (SPACE_INVADERS.v:803-861), though the HPS program may be stopped
\* and started in the middle of an image or of a sound, with a sample still delayed.
THEOREM OnlySoundsPlayedHolds == ASSUME Prompt PROVE Channel1Spec => []OnlySoundsPlayed
  <1>1. PlayInv => OnlySoundsPlayed
    BY DEF PlayInv, SoundBuffered, OnlySoundsPlayed, IsSound
  <1>2. PlayInv /\ [Channel1Next]_channel1Vars => PlayInv'
    BY PlayStep
  <1> QED BY <1>1, <1>2, PlayInit, PTL DEF Channel1Spec

=============================================================================
