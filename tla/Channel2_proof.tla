--------------------------- MODULE Channel2_proof ----------------------------
(***************************************************************************)
(* Channel 2 for all files, depths and bounds: types, and that thread,      *)
(* bridge and block implement a player of sounds, through every start,      *)
(* stop, crash and reset, as long as the FPGA serves a word before the      *)
(* thread's next access to the bridge.                                      *)
(***************************************************************************)
EXTENDS Channel2, SequenceTheorems, TLAPS

USE DEF programVars, threadVars, bridge2Vars, word2Vars, header2Vars, stream2Vars, delay2Vars,
        filer2Vars, sound2Vars, count2Vars, channel2Vars, Others2

----------------------------------------------------------------------------
(* The invariant. *)

PlayerType == player \in [sound : {0} \cup WavFiles, next : Nat, hand : Word2, breaks : Nat,
                          on : BOOLEAN]

Types2 == Channel2Type /\ PlayerType

----------------------------------------------------------------------------
(* Types. *)

LEMMA WordTypes ==
    /\ \A n \in Nat : /\ OpWord(0, n) \in Word2 /\ OpWord(1, n) \in Word2 /\ OpWord(6, n) \in Word2
                      /\ OpWord(7, n) \in Word2 /\ OpWord(8, n) \in Word2 /\ OpWord(9, n) \in Word2
    /\ \A f \in Files, p \in Nat : ByteWord(f, p) \in Word2
    /\ NoWord \in Word2
  BY DEF OpWord, ByteWord, NoWord, Word2

LEMMA FileFacts ==
    /\ WavFiles \subseteq Files \ {0}
    /\ \A f \in Files : FileSize(f) \in Nat
    /\ \A f \in WavFiles : WavSize[f] \in Nat \ {0} /\ FileSize(f) = FirstSample + WavSize[f]
    /\ FmtEnd \in Nat /\ DataEnd \in Nat /\ FmtEnd < DataEnd
    /\ FirstSample = DataEnd + 5
    /\ \A n \in Nat : Last2(n) \in Nat
  <1> USE FilesAssumption DEF FilesAssumption
  <1>1. /\ FmtEnd \in Nat /\ DataEnd \in Nat /\ FmtEnd < DataEnd /\ FirstSample = DataEnd + 5
        /\ WavFiles \subseteq 5..14
    BY DEF FirstSample
  <1>2. \A f \in WavFiles : WavSize[f] \in Nat \ {0} /\ FileSize(f) = FirstSample + WavSize[f]
    BY <1>1 DEF FileSize, RomFiles
  <1>3. \A f \in RomFiles : FileSize(f) \in Nat
    BY DEF FileSize
  <1>4. \A n \in Nat : Last2(n) \in Nat
    BY Filer2Assumption DEF Filer2Assumption, Last2
  <1>5. \A f \in WavFiles : FileSize(f) \in Nat
    BY <1>1, <1>2
  <1>6. 0 \notin WavFiles
    BY <1>1
  <1>7. \A f \in Files : FileSize(f) \in Nat
    BY <1>3, <1>5 DEF Files
  <1>8. WavFiles \subseteq Files \ {0}
    BY <1>6 DEF Files
  <1> QED  BY <1>1, <1>2, <1>4, <1>7, <1>8

\* A record of the player's history, field by field.
LEMMA PlayerParts ==
    /\ PlayerType =>
          /\ player = [sound |-> player.sound, next |-> player.next, hand |-> player.hand,
                       breaks |-> player.breaks, on |-> player.on]
          /\ player.sound \in {0} \cup WavFiles /\ player.next \in Nat /\ player.hand \in Word2
          /\ player.breaks \in Nat /\ player.on \in BOOLEAN
    /\ \A s \in {0} \cup WavFiles, n \in Nat, h \in Word2, b \in Nat, o \in BOOLEAN :
          [sound |-> s, next |-> n, hand |-> h, breaks |-> b, on |-> o]
            \in [sound : {0} \cup WavFiles, next : Nat, hand : Word2, breaks : Nat, on : BOOLEAN]
  BY Zenon DEF PlayerType

LEMMA InitTypes == Channel2Init => Types2
  <1> SUFFICES ASSUME Channel2Init PROVE Types2
    OBVIOUS
  <1>1. ProgramType
    BY DEF Channel2Init, ProgramInit, ProgramType
  <1>2. ThreadType
    <2>1. <<>> \in Seq(Word2) /\ Len(<<>>) = 0
      OBVIOUS
    <2>2. fpga2_req \in Request2
      BY DEF Channel2Init, ThreadInit, Request2
    <2>3. pc2 \notin {"byte", "next"}
      BY DEF Channel2Init, ProgramInit
    <2> QED  BY <2>1, <2>2, <2>3, Filer2DepthAssumption DEF Channel2Init, ThreadInit, ThreadType
  <1>3. Sound2Type
    BY Sound2Assumption DEF Channel2Init, Sound2Init, Sound2Type
  <1>4. Filer2Type
    <2>1. <<>> \in Seq(Word2) /\ Len(<<>>) = 0 /\ NoWord \in Word2
      BY WordTypes
    <2>2. /\ filer2_data_ready \in BOOLEAN /\ filer2_read \in BOOLEAN /\ filer2_delayed \in BOOLEAN
          /\ sound2_inProgress \in BOOLEAN /\ AUDIO2_wrreq \in BOOLEAN
      BY DEF Channel2Init, Filer2Init
    <2>3. /\ filer2_data \in Word2 /\ filer2_data_delayed \in Word2 /\ AUDIO2_data \in Word2
          /\ samples2 \in Seq(Word2) /\ Len(samples2) <= Audio2Depth
      BY <2>1, Filer2Assumption DEF Channel2Init, Filer2Init
    <2>4. /\ FILE2_size \in Nat /\ AUDIO2_header_flag \in 0..3 /\ AUDIO2_header_count \in Nat
          /\ AUDIO2_header_offset \in Nat /\ AUDIO2_data_count \in Nat
          /\ AUDIO2_data_size \in Nat /\ AUDIO2_count \in Nat
      BY DEF Channel2Init, Filer2Init
    <2> QED  BY <2>2, <2>3, <2>4 DEF Filer2Type
  <1>5. PlayerType
    BY WordTypes DEF Channel2Init, Filer2Init, PlayerType
  <1> QED  BY <1>1, <1>2, <1>3, <1>4, <1>5 DEF Types2, Channel2Type

LEMMA ThreadTypes ==
    ASSUME Types2, Filer2Step
    PROVE  ProgramType' /\ ThreadType'
  <1> USE DEF Types2, Channel2Type
  <1>0. ProgramType /\ ThreadType
    OBVIOUS
  <1>1. CASE SendOp2
    <2>1. OpWord(opNum2, opData2) \in Word2
      BY DEF ThreadType, OpWord, Word2
    <2>2. /\ fifo2' = Append(fifo2, OpWord(opNum2, opData2)) /\ Len(fifo2) < Fifo2Depth
          /\ pc2 = "word" /\ pc2' = "req" /\ UNCHANGED <<programVars, fpga2_req, threadVars>>
      BY <1>1 DEF SendOp2, Push2, Access
    <2>3. fifo2' \in Seq(Word2) /\ Len(fifo2') <= Fifo2Depth
      BY <2>1, <2>2, Filer2DepthAssumption DEF ThreadType
    <2> QED  BY <2>2, <2>3 DEF ProgramType, ThreadType
  <1>2. CASE SendByte2
    <2>1. ByteWord(filenameSel2, fArg1_cur2) \in Word2
      BY <1>2, WordTypes, FileFacts DEF ThreadType, ByteWord, Word2, SendByte2, Access
    <2>2. /\ fifo2' = Append(fifo2, ByteWord(filenameSel2, fArg1_cur2)) /\ Len(fifo2) < Fifo2Depth
          /\ pc2 = "byte" /\ pc2' = "next" /\ UNCHANGED <<programVars, fpga2_req, threadVars>>
      BY <1>2 DEF SendByte2, Push2, Access
    <2>3. fifo2' \in Seq(Word2) /\ Len(fifo2') <= Fifo2Depth
      BY <2>1, <2>2, Filer2DepthAssumption DEF ThreadType
    <2> QED  BY <2>2, <2>3 DEF ProgramType, ThreadType
  <1>3. CASE SelectFile2
    <2>1. FileSize(fpga2_req.arg) \in Nat
      BY <1>3, FileFacts DEF SelectFile2
    <2> QED  BY <1>3, <2>1 DEF SelectFile2, Requested, Access, Loop, ProgramType, ThreadType
  <1>4. CASE UnknownFile2
    BY <1>4 DEF UnknownFile2, ProgramType, ThreadType
  <1>5. CASE OpenFile2
    <2>1. fpga2_req.arg \in Nat
      BY DEF ThreadType, Request2
    <2> QED  BY <1>5, <2>1 DEF OpenFile2, Requested, Access, Loop, ProgramType, ThreadType
  <1>6. CASE OpenNothing2
    BY <1>6 DEF OpenNothing2, Crash, ProgramType, ThreadType
  <1>7. CASE WaitForRequest2
    BY <1>7 DEF WaitForRequest2, Requested, Access, Loop, ProgramType, ThreadType
  <1>8. CASE RepeatOp2
    BY <1>8 DEF RepeatOp2, Access, Loop, ProgramType, ThreadType
  <1>9. CASE SendNext2
    <2>1. fpga2_req.arg \in Nat
      BY DEF ThreadType, Request2
    <2> QED  BY <1>9, <2>1 DEF SendNext2, NextRequest, Access, ProgramType, ThreadType
  <1>10. CASE CloseFile2
    BY <1>10 DEF CloseFile2, NextRequest, Access, Loop, ProgramType, ThreadType
  <1>11. CASE Faults
    BY <1>11 DEF Faults, Crash, ProgramType, ThreadType
  <1> QED  BY <1>1, <1>2, <1>3, <1>4, <1>5, <1>6, <1>7, <1>8, <1>9, <1>10, <1>11 DEF Filer2Step

LEMMA WavTypes == Sound2Type => sound2_wav \in {0} \cup WavFiles /\ sound2_wav \in Nat
  <1>1. {Wav2Of[b] : b \in Sound2Bits} \subseteq WavFiles
    BY Filer2Assumption DEF Filer2Assumption
  <1>2. \A f \in WavFiles : f \in Nat
    BY FilesAssumption DEF FilesAssumption
  <1> QED  BY <1>1, <1>2 DEF Sound2Type

\* What a word in hand may change.
LEMMA ServeTypes ==
    ASSUME Types2, NEW ready \in BOOLEAN, ServeWord2(ready) \/ IdleCycle2
    PROVE  /\ fpga2_req' \in Request2
           /\ filer2_delayed' \in BOOLEAN /\ filer2_data_delayed' \in Word2
           /\ sound2_inProgress' \in BOOLEAN /\ FILE2_size' \in Nat
           /\ AUDIO2_header_flag' \in 0..3 /\ AUDIO2_header_count' \in Nat
           /\ AUDIO2_header_offset' \in Nat /\ AUDIO2_data_count' \in Nat
           /\ AUDIO2_data_size' \in Nat /\ AUDIO2_count' \in Nat
           /\ AUDIO2_data' \in Word2 /\ AUDIO2_wrreq' \in BOOLEAN
           /\ sound2_reqId_sync' \in 0..(Req2IdSpan - 1)
           /\ PlayerType'
  <1>0. /\ fpga2_req \in Request2 /\ Filer2Type /\ Sound2Type /\ PlayerType
        /\ filer2_data.at \in Nat /\ fpga2_req.arg \in Nat
        /\ sound2_wav \in {0} \cup WavFiles /\ sound2_wav \in Nat
    BY WavTypes DEF Types2, Channel2Type, ThreadType, Request2, Filer2Type, Word2
  <1>p. /\ player.sound \in {0} \cup WavFiles /\ player.next \in Nat /\ player.breaks \in Nat
        /\ player.hand \in Word2 /\ player.on \in BOOLEAN
    BY <1>0 DEF PlayerType
  <1> USE <1>0, <1>p
  <1>1. CASE Filer2Ready
    <2>1. fpga2_req' \in Request2
      BY <1>1 DEF Filer2Ready, Ask2, Request2
    <2>2. PlayerType'
      <3>1. player' = [sound |-> 0, next |-> player.next, hand |-> player.hand,
                    breaks |-> player.breaks + 1, on |-> TRUE]
        BY <1>1, PlayerParts DEF Filer2Ready
      <3>2. player.breaks + 1 \in Nat /\ TRUE \in BOOLEAN /\ 0 \in {0} \cup WavFiles
        BY <1>p
      <3> QED  BY <3>1, <3>2, <1>p, PlayerParts, Zenon DEF PlayerType
    <2> QED  BY <1>1, <2>1, <2>2 DEF Filer2Ready, Serving2, Filer2Type, Sound2Type
  <1>2. CASE Size2Received
    <2>1. fpga2_req' \in Request2
      BY <1>2 DEF Size2Received, Ask2, Request2
    <2>2. PlayerType'
      BY <1>2 DEF Size2Received, PlayerType
    <2>3. /\ AUDIO2_data' \in Word2 /\ AUDIO2_wrreq' \in BOOLEAN /\ sound2_inProgress' \in BOOLEAN
          /\ AUDIO2_header_offset' \in Nat /\ AUDIO2_count' \in Nat
          /\ filer2_delayed' \in BOOLEAN /\ filer2_data_delayed' \in Word2
      BY <1>2 DEF Size2Received, Serving2, Filer2Type
    <2>4. /\ FILE2_size' \in Nat /\ AUDIO2_data_size' \in Nat /\ AUDIO2_header_flag' \in 0..3
          /\ AUDIO2_header_count' \in Nat /\ AUDIO2_data_count' \in Nat
      BY <1>2 DEF Size2Received
    <2> QED  BY <1>2, <2>1, <2>2, <2>3, <2>4 DEF Size2Received, Sound2Type
  <1>3. CASE Closed2
    <2>1. fpga2_req' \in Request2
      BY <1>3 DEF Closed2, Ask2, Request2
    <2>2. PlayerType'
      BY <1>3 DEF Closed2, PlayerType
    <2> QED  BY <1>3, <2>1, <2>2 DEF Closed2, Serving2, Filer2Type, Sound2Type
  <1>4. CASE StreamSample2
    <2>1. NextSample2 \in Word2
      BY DEF NextSample2, Filer2Type
    <2>2. fpga2_req' \in Request2 /\ AUDIO2_count' \in Nat
      BY <1>4 DEF StreamSample2, Ask2, Request2, Filer2Type
    <2>3. PlayerType'
      <3>1. player' = [sound |-> player.sound, next |-> player.next + 1, hand |-> NextSample2,
                    breaks |-> player.breaks, on |-> player.on]
        BY <1>4, PlayerParts DEF StreamSample2
      <3>2. player.next + 1 \in Nat
        BY <1>p
      <3> QED  BY <3>1, <3>2, <1>p, <2>1, PlayerParts, Zenon DEF PlayerType
    <2>4. AUDIO2_data' \in Word2 /\ AUDIO2_wrreq' \in BOOLEAN /\ filer2_delayed' \in BOOLEAN
      BY <1>4, <2>1 DEF StreamSample2
    <2> QED  BY <1>4, <2>2, <2>3, <2>4 DEF StreamSample2, Filer2Type, Sound2Type
  <1>5. CASE DelaySample2
    <2>1. NextSample2 \in Word2
      BY DEF NextSample2, Filer2Type
    <2>2. AUDIO2_data' \in Word2 /\ AUDIO2_wrreq' \in BOOLEAN /\ filer2_delayed' \in BOOLEAN
          /\ filer2_data_delayed' \in Word2
      BY <1>5, <2>1 DEF DelaySample2, Filer2Type
    <2> QED  BY <1>5, <2>2 DEF DelaySample2, Filer2Type, Sound2Type, PlayerType
  <1>6. CASE ParseHeader2
    <2>1. SizeField2 \in Nat
      BY FileFacts DEF SizeField2
    <2>2. NextFlag2 \in 0..3
      BY DEF NextFlag2, Filer2Type
    <2>3. fpga2_req' \in Request2
      BY <1>6 DEF ParseHeader2, Ask2, Request2, Filer2Type
    <2>4. AUDIO2_data_count' \in Nat
      BY <1>6 DEF ParseHeader2, Filer2Type
    <2>5. /\ AUDIO2_data_size' \in Nat /\ AUDIO2_header_offset' \in Nat /\ AUDIO2_count' \in Nat
          /\ AUDIO2_header_count' \in Nat
      BY <1>6, <2>1 DEF ParseHeader2, Filer2Type
    <2> QED  BY <1>6, <2>2, <2>3, <2>4, <2>5 DEF ParseHeader2, Serving2, Filer2Type, Sound2Type, PlayerType
  <1>7. CASE TakeSound2(ready)
    <2>1. fpga2_req' \in Request2
      BY <1>7 DEF TakeSound2, Ask2, Request2
    <2>2. PlayerType'
      BY <1>7 DEF TakeSound2, PlayerType
    <2> QED  BY <1>7, <2>1, <2>2 DEF TakeSound2, Waiting2, Serving2, Filer2Type, Sound2Type
  <1>8. CASE NoSound2(ready)
    <2>1. fpga2_req' \in Request2
      BY <1>8, Sound2Assumption DEF NoSound2, Ask2, Request2, Sound2Type, Sound2Assumption
    <2> QED  BY <1>8, <2>1 DEF NoSound2, Waiting2, Serving2, Filer2Type, Sound2Type, PlayerType
  <1>9. CASE IdleCycle2
    BY <1>9 DEF IdleCycle2, Filer2Type, Sound2Type, PlayerType
  <1> QED  BY <1>1, <1>2, <1>3, <1>4, <1>5, <1>6, <1>7, <1>8, <1>9 DEF ServeWord2

LEMMA CycleTypes ==
    ASSUME Types2, gameReady \in BOOLEAN, Fpga2
    PROVE  Types2'
  <1>1. ServeWord2(gameReady) \/ IdleCycle2
    BY DEF Fpga2, Filer2Cycle
  <1>2. TakeWord2 /\ StoreSample2 /\ UNCHANGED <<programVars, pc2, threadVars, sound2Vars>>
    BY DEF Fpga2, Filer2Cycle
  <1>3. ProgramType /\ ThreadType /\ Sound2Type /\ Filer2Type
    BY DEF Types2, Channel2Type
  <1>4. /\ fifo2' \in Seq(Word2) /\ Len(fifo2') <= Fifo2Depth /\ filer2_data' \in Word2
        /\ filer2_data_ready' \in BOOLEAN /\ filer2_read' \in BOOLEAN
    <2>1. fifo2 \in Seq(Word2) /\ Len(fifo2) <= Fifo2Depth /\ Fifo2Depth \in Nat
      BY <1>3, Filer2DepthAssumption DEF ThreadType, Filer2DepthAssumption
    <2>2. CASE filer2_read /\ fifo2 # <<>>
      BY <1>2, <2>1, <2>2 DEF TakeWord2
    <2>3. CASE ~(filer2_read /\ fifo2 # <<>>)
      BY <1>2, <1>3, <2>1, <2>3 DEF TakeWord2, Filer2Type
    <2> QED  BY <2>2, <2>3
  <1>5. samples2' \in Seq(Word2) /\ Len(samples2') <= Audio2Depth
    BY <1>2, <1>3, Filer2Assumption DEF StoreSample2, Filer2Type, Filer2Assumption, AUDIO2_fifo_full
  <1>6. ProgramType'
    BY <1>2, <1>3 DEF ProgramType
  <1> HIDE DEF header2Vars, stream2Vars, delay2Vars, filer2Vars, channel2Vars
  <1>7. ThreadType'
    BY <1>1, <1>2, <1>3, <1>4, ServeTypes DEF ThreadType
  <1>8. Sound2Type'
    BY <1>1, <1>2, <1>3, ServeTypes DEF Sound2Type
  <1>9. Filer2Type'
    BY <1>1, <1>4, <1>5, ServeTypes DEF Filer2Type
  <1> QED  BY <1>1, <1>6, <1>7, <1>8, <1>9, ServeTypes DEF Types2, Channel2Type

LEMMA StepTypes ==
    ASSUME Types2, gameReady \in BOOLEAN, [Channel2Next]_channel2Vars
    PROVE  Types2' /\ gameReady' \in BOOLEAN
  <1>0. ProgramType /\ ThreadType /\ Sound2Type /\ Filer2Type /\ PlayerType
    BY DEF Types2, Channel2Type
  <1> USE <1>0 DEF Types2, Channel2Type
  <1>1. CASE Thread2
    BY <1>1, ThreadTypes DEF Thread2, Sound2Type, Filer2Type, PlayerType
  <1>2. CASE Fpga2
    BY <1>2, CycleTypes DEF Fpga2
  <1>3. CASE Play2
    <2>1. samples2' \in Seq(Word2) /\ Len(samples2') <= Audio2Depth
      BY <1>3, Filer2Assumption DEF Play2, PlaySample2, Filer2Type, Filer2Assumption
    <2> QED  BY <1>3, <2>1 DEF Play2, ProgramType, ThreadType, Sound2Type, Filer2Type, PlayerType
  <1>4. CASE Sound2
    <2>1. sound2_reqId' \in 0..(Req2IdSpan - 1)
      BY <1>4, Sound2Assumption DEF Sound2, TakeBits2, Sound2Type, Sound2Assumption
    <2>2. sound2_wav' \in {0} \cup {Wav2Of[b] : b \in Sound2Bits}
      BY <1>4 DEF Sound2, TakeBits2, Sound2Type
    <2> QED  BY <1>4, <2>1, <2>2 DEF Sound2, TakeBits2, ProgramType, ThreadType, Sound2Type,
                                  Filer2Type, PlayerType
  <1>5. CASE Game2
    BY <1>5 DEF Game2, OutPort5, ProgramType, ThreadType, Sound2Type, Filer2Type, PlayerType
  <1>6. CASE Ready2
    <2>1. ProgramType'
      BY <1>6 DEF Ready2, Announce, ProgramType
    <2>2. ThreadType'
      BY <1>6 DEF Ready2, Announce, ThreadType
    <2> QED  BY <1>6, <2>1, <2>2 DEF Ready2, Sound2Type, Filer2Type, PlayerType
  <1>7. CASE Load2
    BY <1>7 DEF Load2, ProgramType, ThreadType, Sound2Type, Filer2Type, PlayerType
  <1>8. CASE Start2
    BY <1>8 DEF Start2, StartProgram, BeginThread, ProgramType, ThreadType, Sound2Type, Filer2Type, PlayerType
  <1>9. CASE Stop2
    <2>1. ProgramType'
      BY <1>9 DEF Stop2, Signal, ProgramType
    <2>2. ThreadType'
      BY <1>9 DEF Stop2, Signal, ThreadType
    <2> QED  BY <1>9, <2>1, <2>2 DEF Stop2, Sound2Type, Filer2Type, PlayerType
  <1>10. CASE Main
    <2>1. ProgramType'
      BY <1>10 DEF Main, MainStep, LeaveLoop, Join, ProgramType
    <2>2. ThreadType'
      BY <1>10 DEF Main, MainStep, LeaveLoop, Join, ThreadType
    <2> QED  BY <1>10, <2>1, <2>2 DEF Main, Sound2Type, Filer2Type, PlayerType
  <1>11. CASE Pad
    <2>1. ProgramType'
      BY <1>11 DEF Pad, PadStep, PadWrite, PadFault, NextEvent, Crash, ProgramType
    <2>2. ThreadType'
      BY <1>11 DEF Pad, PadStep, PadWrite, PadFault, NextEvent, Crash, ThreadType
    <2> QED  BY <1>11, <2>1, <2>2 DEF Pad, Sound2Type, Filer2Type, PlayerType
  <1>12. CASE Key
    BY <1>12 DEF Key, PadEvent, NextEvent, ProgramType, ThreadType, Sound2Type, Filer2Type, PlayerType
  <1>13. CASE Reset2
    <2>1. PlayerType'
      <3>0. /\ player.sound \in {0} \cup WavFiles /\ player.next \in Nat /\ player.hand \in Word2
            /\ player.breaks \in Nat
        BY PlayerParts
      <3>1. player' = [sound |-> 0, next |-> player.next, hand |-> player.hand,
                    breaks |-> player.breaks + 1, on |-> FALSE]
        BY <1>13, PlayerParts DEF Reset2
      <3>2. player.breaks + 1 \in Nat /\ FALSE \in BOOLEAN /\ 0 \in {0} \cup WavFiles
        BY <3>0
      <3> QED  BY <3>0, <3>1, <3>2, PlayerParts, Zenon DEF PlayerType
    <2>2. fifo2' \in Seq(Word2) /\ Len(fifo2') <= Fifo2Depth /\ filer2_data' \in Word2
      BY <1>13, WordTypes, Filer2DepthAssumption DEF Reset2, Filer2DepthAssumption
    <2>3. /\ filer2_data_ready' \in BOOLEAN /\ filer2_delayed' \in BOOLEAN
          /\ sound2_inProgress' \in BOOLEAN /\ gameReady' \in BOOLEAN
      BY <1>13 DEF Reset2
    <2>4. sound2_reqId' \in 0..(Req2IdSpan - 1) /\ sound2_reqId_sync' \in 0..(Req2IdSpan - 1)
      BY <1>13, Sound2Assumption DEF Reset2, Sound2Assumption
    <2> QED  BY <1>13, <2>1, <2>2, <2>3, <2>4 DEF Reset2, ProgramType, ThreadType, Sound2Type, Filer2Type
  <1>14. CASE UNCHANGED channel2Vars
    BY <1>14 DEF ProgramType, ThreadType, Sound2Type, Filer2Type, PlayerType
  <1> QED
    BY <1>1, <1>2, <1>3, <1>4, <1>5, <1>6, <1>7, <1>8, <1>9, <1>10, <1>11, <1>12, <1>13, <1>14
       DEF Channel2Next

----------------------------------------------------------------------------
(* Whose turn it is. *)

\* A word is on its way, and the one that is.
InFlight2 == fifo2 # <<>> \/ filer2_data_ready
InHand2 == IF fifo2 # <<>> THEN Head(fifo2) ELSE filer2_data

\* There is one word at most.  Before filer2_read is raised for the first time the block serves its
\* empty register once.
Turn2 ==
    /\ Len(fifo2) <= 1
    /\ fifo2 # <<>> /\ filer2_data_ready => ~player.on
    /\ fifo2 # <<>> /\ filer2_data_ready => filer2_data.op = 0
    /\ player.on => filer2_read
    /\ ~filer2_read => filer2_data.op = 0
    /\ filer2_delayed /\ ~filer2_data_ready => filer2_data.op = 9
    /\ InFlight2 => \/ pc2 \in {"req", "exit"} \/ (pc2 = "word" /\ opNum2 = 1)
                    \/ pc2 = "next" /\ InHand2.op = 9

LEMMA WordMoves ==
    ASSUME Types2, Turn2, TakeWord2
    PROVE  /\ InFlight2' <=> fifo2 # <<>>
           /\ fifo2 # <<>> => InHand2' = InHand2
           /\ Len(fifo2') <= 1
           /\ filer2_read => fifo2' = <<>>
           /\ fifo2 = <<>> => filer2_data' = filer2_data
           /\ filer2_read /\ fifo2 # <<>> => filer2_data' = Head(fifo2)
           /\ filer2_data_ready' <=> fifo2 # <<>>
           /\ filer2_read' <=> (filer2_read \/ fifo2 # <<>>)
           /\ ~filer2_read => filer2_data' = filer2_data
           /\ fifo2 = <<>> => fifo2' = <<>>
  <1>0. fifo2 \in Seq(Word2) /\ Len(fifo2) <= 1
    BY DEF Types2, Channel2Type, ThreadType, Turn2
  <1>1. /\ filer2_data_ready' <=> fifo2 # <<>>
        /\ filer2_read' <=> (filer2_read \/ fifo2 # <<>>)
    BY DEF TakeWord2
  <1>2. CASE filer2_read /\ fifo2 # <<>>
    <2>1. filer2_data' = Head(fifo2) /\ fifo2' = Tail(fifo2)
      BY <1>2 DEF TakeWord2
    <2>2. fifo2' = <<>>
      BY <1>0, <1>2, <2>1
    <2>3. Len(fifo2') <= 1
      BY <2>2
    <2> QED  BY <1>1, <1>2, <2>1, <2>2, <2>3 DEF InFlight2, InHand2
  <1>3. CASE ~(filer2_read /\ fifo2 # <<>>)
    <2>1. filer2_data' = filer2_data /\ fifo2' = fifo2
      BY <1>3 DEF TakeWord2
    <2> QED  BY <1>0, <1>1, <1>3, <2>1 DEF InFlight2, InHand2
  <1> QED  BY <1>2, <1>3

\* Which cycles change whether the program is heard, and keep a sample back.
LEMMA CycleParts ==
    ASSUME Types2, NEW ready \in BOOLEAN, ServeWord2(ready) \/ IdleCycle2
    PROVE  /\ player.on' => player.on \/ filer2_data.op = 1
           /\ filer2_delayed' => filer2_data.op = 9
  <1>p. /\ PlayerType
        /\ player = [sound |-> player.sound, next |-> player.next, hand |-> player.hand,
                     breaks |-> player.breaks, on |-> player.on]
    BY PlayerParts DEF Types2
  <1>1. CASE Filer2Ready
    BY <1>1 DEF Filer2Ready, Serving2
  <1>2. CASE Size2Received
    BY <1>2 DEF Size2Received, Serving2
  <1>3. CASE Closed2
    BY <1>3, <1>p DEF Closed2, Serving2
  <1>4. CASE StreamSample2
    BY <1>4, <1>p DEF StreamSample2, Streaming2
  <1>5. CASE DelaySample2
    BY <1>5 DEF DelaySample2, Streaming2
  <1>6. CASE ParseHeader2
    BY <1>6 DEF ParseHeader2, Serving2
  <1>7. CASE TakeSound2(ready)
    BY <1>7, <1>p DEF TakeSound2, Waiting2, Serving2
  <1>8. CASE NoSound2(ready)
    BY <1>8 DEF NoSound2, Waiting2, Serving2
  <1>9. CASE IdleCycle2
    BY <1>9 DEF IdleCycle2
  <1> QED  BY <1>1, <1>2, <1>3, <1>4, <1>5, <1>6, <1>7, <1>8, <1>9 DEF ServeWord2

LEMMA TurnCycle ==
    ASSUME Types2, gameReady \in BOOLEAN, Turn2, Fpga2
    PROVE  Turn2'
  <1>1. /\ TakeWord2 /\ UNCHANGED <<pc2, threadVars>>
        /\ ServeWord2(gameReady) \/ IdleCycle2
    BY DEF Fpga2, Filer2Cycle
  <1>2. /\ player.on' => player.on \/ filer2_data.op = 1
        /\ filer2_delayed' => filer2_data.op = 9
    BY <1>1, CycleParts
  <1>3. /\ InFlight2' <=> fifo2 # <<>>
        /\ fifo2 # <<>> => InHand2' = InHand2
        /\ Len(fifo2') <= 1
        /\ filer2_read => fifo2' = <<>>
        /\ fifo2 = <<>> => filer2_data' = filer2_data
        /\ filer2_data_ready' <=> fifo2 # <<>>
        /\ filer2_read' <=> (filer2_read \/ fifo2 # <<>>)
        /\ ~filer2_read => filer2_data' = filer2_data
    BY <1>1, WordMoves
  <1>4. ~filer2_read => ~player.on' /\ filer2_data.op = 0
    BY <1>2 DEF Turn2
  <1>5. fifo2' # <<>> /\ filer2_data_ready' => ~player.on' /\ filer2_data'.op = 0
    BY <1>3, <1>4
  <1>6. player.on' => filer2_read'
    BY <1>3, <1>4
  <1>7. ~filer2_read' => filer2_data'.op = 0
    BY <1>3, <1>4
  <1>8. filer2_delayed' /\ ~filer2_data_ready' => filer2_data'.op = 9
    BY <1>2, <1>3
  <1>9. InFlight2' => InFlight2 /\ InHand2' = InHand2
    BY <1>3 DEF InFlight2
  <1>10. InFlight2' => \/ pc2' \in {"req", "exit"} \/ (pc2' = "word" /\ opNum2' = 1)
                       \/ pc2' = "next" /\ InHand2'.op = 9
    BY <1>1, <1>9 DEF Turn2
  <1> QED  BY <1>3, <1>5, <1>6, <1>7, <1>8, <1>10 DEF Turn2

\* The words of the thread.
LEMMA PushOnEmpty ==
    ASSUME fifo2 = <<>>, NEW w, Push2(w)
    PROVE  fifo2' = <<w>> /\ fifo2' # <<>> /\ Head(fifo2') = w /\ Len(fifo2') = 1
  BY DEF Push2

LEMMA OpWordParts ==
    /\ \A o, n : OpWord(o, n).op = o /\ OpWord(o, n).at = n
    /\ \A f, p : ByteWord(f, p).op = 9 /\ ByteWord(f, p).file = f /\ ByteWord(f, p).at = p
  BY DEF OpWord, ByteWord

LEMMA TurnThread ==
    ASSUME Prompt2, Types2, Turn2, Thread2
    PROVE  Turn2'
  <1>1. fifo2 = <<>> /\ ~filer2_data_ready /\ ~InFlight2
    BY DEF Thread2, Settled2, InFlight2
  <1>2. UNCHANGED <<filer2_data, filer2_data_ready, filer2_read, filer2_delayed, player>>
    BY DEF Thread2
  <1>3. CASE fifo2' = <<>>
    BY <1>1, <1>2, <1>3 DEF Turn2, InFlight2
  <1>4. CASE SendOp2
    <2>1. pc2' = "req" /\ Len(fifo2') = 1
      BY <1>1, <1>4, PushOnEmpty DEF SendOp2
    <2> QED  BY <1>1, <1>2, <2>1 DEF Turn2
  <1>5. CASE SendByte2
    <2>1. /\ pc2' = "next" /\ Len(fifo2') = 1 /\ fifo2' # <<>>
          /\ Head(fifo2') = ByteWord(filenameSel2, fArg1_cur2)
      BY <1>1, <1>5, PushOnEmpty DEF SendByte2
    <2>2. InHand2'.op = 9
      BY <2>1, OpWordParts DEF InHand2
    <2> QED  BY <1>1, <1>2, <2>1, <2>2 DEF Turn2
  <1>6. SendOp2 \/ SendByte2 \/ fifo2' = fifo2
    BY DEF Thread2, Filer2Step, SelectFile2, UnknownFile2, OpenFile2, OpenNothing2, WaitForRequest2,
           RepeatOp2, SendNext2, CloseFile2, Faults, Requested, NextRequest
  <1> QED  BY <1>1, <1>3, <1>4, <1>5, <1>6

LEMMA TurnReset ==
    ASSUME Types2, Turn2, Reset2
    PROVE  Turn2'
  <1>1. /\ fifo2' = <<>> /\ filer2_data' = NoWord /\ ~filer2_data_ready' /\ ~filer2_delayed'
        /\ filer2_read' = filer2_read
    BY DEF Reset2
  <1>2. ~player.on'
    BY DEF Reset2
  <1>3. filer2_data'.op = 0
    BY <1>1, OpWordParts DEF NoWord
  <1>4. Len(fifo2') <= 1 /\ ~InFlight2'
    BY <1>1 DEF InFlight2
  <1> QED  BY <1>1, <1>2, <1>3, <1>4 DEF Turn2

\* A step that moves no word, after which the thread is where it was, or ended, or begins.
LEMMA TurnKept ==
    ASSUME Turn2, UNCHANGED <<fifo2, filer2Vars>>,
           \/ UNCHANGED <<pc2, opNum2>>
           \/ pc2' = "exit"
           \/ pc2' = "word" /\ opNum2' = 1
    PROVE  Turn2'
  BY DEF Turn2, InFlight2, InHand2

LEMMA TurnStep ==
    ASSUME Prompt2, Types2, gameReady \in BOOLEAN, Turn2, [Channel2Next]_channel2Vars
    PROVE  Turn2'
  <1>1. CASE Thread2
    BY <1>1, TurnThread
  <1>2. CASE Fpga2
    BY <1>2, TurnCycle
  <1>3. CASE Play2
    BY <1>3 DEF Play2, Turn2, InFlight2, InHand2
  <1>4. CASE Sound2 \/ Game2 \/ Ready2 \/ Load2 \/ Stop2 \/ Key \/ UNCHANGED channel2Vars
    BY <1>4, TurnKept DEF Sound2, Game2, Ready2, Announce, Load2, Stop2, Signal, Key, PadEvent
  <1>5. CASE Start2
    BY <1>5, TurnKept DEF Start2, StartProgram, BeginThread
  <1>6. CASE Main \/ Pad
    BY <1>6, TurnKept DEF Main, MainStep, LeaveLoop, Join, Pad, PadStep, PadWrite, PadFault, Crash
  <1>7. CASE Reset2
    BY <1>7, TurnReset
  <1> QED  BY <1>1, <1>2, <1>3, <1>4, <1>5, <1>6, <1>7 DEF Channel2Next

LEMMA InitTurn == Channel2Init => Turn2
  <1> SUFFICES ASSUME Channel2Init PROVE Turn2
    OBVIOUS
  <1>1. fifo2 = <<>> /\ ~filer2_data_ready /\ ~filer2_delayed /\ filer2_data = NoWord
    BY DEF Channel2Init, ThreadInit, Filer2Init
  <1>2. ~player.on /\ filer2_data.op = 0 /\ Len(fifo2) <= 1
    BY <1>1, OpWordParts DEF Channel2Init, Filer2Init, NoWord
  <1> QED  BY <1>1, <1>2 DEF Turn2, InFlight2

----------------------------------------------------------------------------
(* What is stored, and what is asked for. *)

\* What is about to be stored is the sample that was read last.
HandRight == AUDIO2_wrreq => AUDIO2_data = player.hand

\* A pending request names a sound.
Wanted2 == sound2_changed => sound2_wav \in WavFiles

LEMMA HandStep ==
    ASSUME Types2, gameReady \in BOOLEAN, HandRight, [Channel2Next]_channel2Vars
    PROVE  HandRight'
  <1>p. player = [sound |-> player.sound, next |-> player.next, hand |-> player.hand,
                  breaks |-> player.breaks, on |-> player.on]
    BY PlayerParts DEF Types2
  <1>1. CASE Fpga2
    <2>0. ServeWord2(gameReady) \/ IdleCycle2
      BY <1>1 DEF Fpga2, Filer2Cycle
    <2>1. CASE Filer2Ready
      <3>1. player'.hand = player.hand
        BY <1>p, <2>1 DEF Filer2Ready
      <3> QED  BY <2>1, <3>1 DEF Filer2Ready, HandRight
    <2>2. CASE Size2Received
      BY <2>2 DEF Size2Received, HandRight
    <2>3. CASE Closed2
      BY <2>3 DEF Closed2, HandRight
    <2>4. CASE StreamSample2
      <3>1. player'.hand = NextSample2
        BY <1>p, <2>4 DEF StreamSample2
      <3> QED  BY <2>4, <3>1 DEF StreamSample2, HandRight
    <2>5. CASE DelaySample2
      BY <2>5 DEF DelaySample2, HandRight
    <2>6. CASE ParseHeader2
      BY <2>6 DEF ParseHeader2, HandRight
    <2>7. CASE TakeSound2(gameReady)
      <3>1. player'.hand = player.hand
        BY <1>p, <2>7 DEF TakeSound2
      <3> QED  BY <2>7, <3>1 DEF TakeSound2, HandRight
    <2>8. CASE NoSound2(gameReady)
      BY <2>8 DEF NoSound2, HandRight
    <2>9. CASE IdleCycle2
      BY <2>9 DEF IdleCycle2, HandRight
    <2> QED  BY <2>0, <2>1, <2>2, <2>3, <2>4, <2>5, <2>6, <2>7, <2>8, <2>9 DEF ServeWord2
  <1>2. CASE Reset2
    <2>1. player'.hand = player.hand
      BY <1>p, <1>2 DEF Reset2
    <2> QED  BY <1>2, <2>1 DEF Reset2, HandRight
  <1>3. CASE UNCHANGED <<AUDIO2_wrreq, AUDIO2_data, player>>
    BY <1>3 DEF HandRight
  <1> QED
    BY <1>1, <1>2, <1>3 DEF Channel2Next, Thread2, Play2, Sound2, Game2, Ready2, Load2, Start2,
       Stop2, Main, Pad, Key

LEMMA WantedStep ==
    ASSUME Types2, gameReady \in BOOLEAN, Wanted2, [Channel2Next]_channel2Vars
    PROVE  Wanted2'
  <1>1. CASE Fpga2
    <2>0. ServeWord2(gameReady) \/ IdleCycle2
      BY <1>1 DEF Fpga2, Filer2Cycle
    <2>1. sound2_reqId_sync' \in {sound2_reqId_sync, sound2_reqId}
      BY <2>0 DEF ServeWord2, Filer2Ready, Size2Received, Closed2, StreamSample2, DelaySample2,
                  ParseHeader2, TakeSound2, NoSound2, IdleCycle2
    <2> QED  BY <1>1, <2>1 DEF Fpga2, Wanted2, sound2_changed
  <1>2. CASE Sound2
    <2>0. sound2_reqId_sync' = sound2_reqId_sync
      BY <1>2 DEF Sound2
    <2>1. CASE \E b \in Sound2Bits : sound2_wav' = Wav2Of[b]
      BY <2>1, Filer2Assumption DEF Filer2Assumption, Wanted2
    <2>2. CASE UNCHANGED <<sound2_wav, sound2_reqId>>
      BY <2>0, <2>2 DEF Wanted2, sound2_changed
    <2> QED  BY <1>2, <2>1, <2>2 DEF Sound2, TakeBits2
  <1>3. CASE Reset2
    BY <1>3 DEF Reset2, Wanted2, sound2_changed
  <1>4. CASE UNCHANGED <<sound2_reqId, sound2_reqId_sync, sound2_wav>>
    BY <1>4 DEF Wanted2, sound2_changed
  <1> QED
    BY <1>1, <1>2, <1>3, <1>4 DEF Channel2Next, Thread2, Play2, Game2, OutPort5, Ready2, Load2,
       Start2, Stop2, Main, Pad, Key

----------------------------------------------------------------------------
(* How far the player is, since the program was heard. *)

InHeader2 ==
    /\ AUDIO2_header_flag = 0 => AUDIO2_data_count = 0 /\ AUDIO2_header_count <= FmtEnd
    /\ AUDIO2_header_flag = 1 => /\ AUDIO2_data_count = 0
                                 /\ FmtEnd < AUDIO2_header_count /\ AUDIO2_header_count <= DataEnd
    /\ AUDIO2_header_flag = 2 => /\ AUDIO2_data_count <= 3
                                 /\ AUDIO2_header_count = DataEnd + 1 + AUDIO2_data_count

InSamples2 ==
    /\ AUDIO2_data_size = WavSize[player.sound] /\ AUDIO2_header_offset = FirstSample
    /\ AUDIO2_count = player.next /\ player.next < WavSize[player.sound]
    /\ fpga2_req.arg = FirstSample + player.next

\* By the request that stands.
PlayPoint ==
    /\ fpga2_req.cmd \in {4, 5, 6, 31}
    /\ player.sound = 0 <=> fpga2_req.cmd = 5
    /\ fpga2_req.cmd = 6 => fpga2_req.arg = player.sound /\ player.next = 0
    /\ fpga2_req.cmd = 31 /\ AUDIO2_header_flag # 3 =>
          /\ player.next = 0 /\ FILE2_size = FileSize(player.sound)
          /\ fpga2_req.arg = AUDIO2_header_count /\ InHeader2
    /\ fpga2_req.cmd = 31 /\ AUDIO2_header_flag = 3 => InSamples2
    /\ fpga2_req.cmd = 4 => player.next = WavSize[player.sound]

\* The byte that is asked for.
Wanted == ByteWord(player.sound, fpga2_req.arg)

\* A sample that was refused is the one asked for; only a new program's first word may meet it.
DelayedRight ==
    filer2_delayed =>
        /\ fpga2_req.cmd = 31 /\ AUDIO2_header_flag = 3
        /\ filer2_data_delayed = Wanted
        /\ filer2_data_ready => filer2_data.op = 1
        /\ ~filer2_data_ready => filer2_data = Wanted
        /\ fifo2 # <<>> => Head(fifo2).op = 1

\* A word answers the request that stands.
AnswersRequest(w) ==
    /\ w.op \in {1, 6, 7, 8, 9}
    /\ w.op = 6 => fpga2_req.cmd = 4
    /\ w.op = 7 => fpga2_req.cmd = 5
    /\ w.op = 8 => fpga2_req.cmd = 6 /\ w.at = FileSize(player.sound)
    /\ w.op = 9 => fpga2_req.cmd = 31 /\ w = Wanted

\* What the thread has in hand, unless it has just begun.
AgreesAtWord ==
    pc2 = "word" /\ opNum2 # 1 =>
        /\ ~filer2_delayed /\ opNum2 \in {6, 7, 8} /\ AnswersRequest(OpWord(opNum2, opData2))
        /\ opNum2 = 8 => filenameSel2 = player.sound

AgreesAtReq ==
    pc2 = "req" =>
        /\ InFlight2 => InHand2.op \in {1, 6, 7, 8}
        /\ InFlight2 /\ InHand2.op # 1 =>
              ~filer2_delayed /\ (InHand2.op = 8 => filenameSel2 = player.sound)
        /\ ~InFlight2 => /\ ~filer2_delayed /\ fpga2_req.cmd \in {5, 6, 31}
                         /\ fpga2_req.cmd = 31 => filenameSel2 = player.sound

AgreesAtByte ==
    pc2 = "byte" =>
        /\ ~filer2_delayed /\ fpga2_req.cmd = 31
        /\ filenameSel2 = player.sound /\ fArg1_cur2 = fpga2_req.arg

AgreesAtNext ==
    pc2 = "next" =>
        /\ fpga2_req.cmd \in {4, 31} /\ filenameSel2 = player.sound
        /\ InFlight2 \/ filer2_delayed => fArg1_cur2 = fpga2_req.arg
        /\ InFlight2 => ~filer2_delayed

ThreadAgrees == AgreesAtWord /\ AgreesAtReq /\ AgreesAtByte /\ AgreesAtNext

Heard2 ==
    player.on =>
        /\ PlayPoint /\ DelayedRight /\ ThreadAgrees
        /\ InFlight2 => AnswersRequest(InHand2)

----------------------------------------------------------------------------
(* The thread's steps leave the player where he is. *)

LEMMA PointKept ==
    ASSUME PlayPoint, UNCHANGED <<fpga2_req, header2Vars, AUDIO2_data_size, AUDIO2_count, player>>
    PROVE  PlayPoint'
  BY DEF PlayPoint, InHeader2, InSamples2

\* No word is on its way when the thread reaches the bridge.
LEMMA HeardThread ==
    ASSUME Prompt2, Types2, Turn2, Heard2, Thread2
    PROVE  Heard2'
  <1> SUFFICES ASSUME player.on'
               PROVE  /\ PlayPoint' /\ DelayedRight' /\ ThreadAgrees'
                      /\ InFlight2' => AnswersRequest(InHand2)'
    BY DEF Heard2
  <1>1. fifo2 = <<>> /\ ~filer2_data_ready /\ ~InFlight2
    BY DEF Thread2, Settled2, InFlight2
  <1>2. /\ UNCHANGED <<filer2_data, filer2_data_ready, filer2_delayed, filer2_data_delayed, player,
                       header2Vars, AUDIO2_data_size, AUDIO2_count>>
        /\ UNCHANGED fpga2_req
    BY DEF Thread2, Filer2Step, SendOp2, SelectFile2, UnknownFile2, OpenFile2, OpenNothing2,
           WaitForRequest2, RepeatOp2, SendByte2, SendNext2, CloseFile2, Faults, Requested,
           NextRequest, Access
  <1>3. PlayPoint /\ DelayedRight /\ ThreadAgrees
    BY <1>2 DEF Heard2
  <1>4. PlayPoint'
    BY <1>2, <1>3, PointKept
  <1>5. ASSUME UNCHANGED fifo2
        PROVE  DelayedRight' /\ ~InFlight2'
    BY <1>1, <1>2, <1>3, <1>5 DEF DelayedRight, Wanted, InFlight2
  <1>6. ASSUME pc2' = "exit"
        PROVE  ThreadAgrees'
    BY <1>6 DEF ThreadAgrees, AgreesAtWord, AgreesAtReq, AgreesAtByte, AgreesAtNext
  <1>7. CASE SendOp2
    <2> DEFINE w == OpWord(opNum2, opData2)
    <2>1. /\ fifo2' # <<>> /\ Head(fifo2') = w /\ pc2 = "word" /\ pc2' = "req"
          /\ UNCHANGED threadVars
      BY <1>1, <1>7, PushOnEmpty DEF SendOp2, Access
    <2>2. InFlight2' /\ InHand2' = w /\ w.op = opNum2
      BY <2>1, OpWordParts DEF InFlight2, InHand2
    <2>3. CASE opNum2 = 1
      <3>1. DelayedRight'
        BY <1>1, <1>2, <1>3, <2>1, <2>2, <2>3 DEF DelayedRight, Wanted
      <3>2. ThreadAgrees'
        BY <2>1, <2>2, <2>3 DEF ThreadAgrees, AgreesAtWord, AgreesAtReq, AgreesAtByte, AgreesAtNext
      <3>3. AnswersRequest(InHand2)'
        BY <2>2, <2>3 DEF AnswersRequest
      <3> QED  BY <1>4, <3>1, <3>2, <3>3
    <2>4. CASE opNum2 # 1
      <3>1. /\ ~filer2_delayed /\ opNum2 \in {6, 7, 8} /\ AnswersRequest(w)
            /\ opNum2 = 8 => filenameSel2 = player.sound
        BY <1>3, <2>1, <2>4 DEF ThreadAgrees, AgreesAtWord
      <3>2. DelayedRight'
        BY <1>2, <3>1 DEF DelayedRight
      <3>3. ThreadAgrees'
        BY <1>2, <2>1, <2>2, <3>1 DEF ThreadAgrees, AgreesAtWord, AgreesAtReq, AgreesAtByte, AgreesAtNext
      <3>4. AnswersRequest(InHand2)'
        BY <1>2, <2>2, <3>1 DEF AnswersRequest, Wanted
      <3> QED  BY <1>4, <3>2, <3>3, <3>4
    <2> QED  BY <2>3, <2>4
  <1>8. CASE SelectFile2
    <2>1. /\ pc2 = "req" /\ pc2' \in {"word", "exit"} /\ UNCHANGED fifo2 /\ fpga2_req.cmd = 6
          /\ filenameSel2' = fpga2_req.arg /\ opNum2' = 8 /\ opData2' = FileSize(fpga2_req.arg)
      BY <1>8 DEF SelectFile2, Requested, Access, Loop
    <2>2. ~filer2_delayed
      BY <1>1, <1>3, <2>1 DEF ThreadAgrees, AgreesAtReq
    <2>3. fpga2_req.arg = player.sound
      BY <1>3, <2>1 DEF PlayPoint
    <2>4. AnswersRequest(OpWord(opNum2, opData2))'
      BY <1>2, <2>1, <2>3, OpWordParts DEF AnswersRequest
    <2>5. ThreadAgrees'
      BY <1>2, <2>1, <2>2, <2>3, <2>4 DEF ThreadAgrees, AgreesAtWord, AgreesAtReq, AgreesAtByte, AgreesAtNext
    <2> QED  BY <1>4, <1>5, <2>1, <2>5
  <1>9. CASE UnknownFile2 \/ OpenNothing2 \/ Faults
    <2>1. pc2' = "exit" /\ UNCHANGED fifo2
      BY <1>9 DEF UnknownFile2, OpenNothing2, Faults, Crash
    <2> QED  BY <1>4, <1>5, <1>6, <2>1
  <1>10. CASE OpenFile2
    <2>1. /\ pc2 = "req" /\ pc2' \in {"byte", "exit"} /\ UNCHANGED <<fifo2, filenameSel2>>
          /\ fpga2_req.cmd = 31 /\ fArg1_cur2' = fpga2_req.arg
      BY <1>10 DEF OpenFile2, Requested, Access, Loop
    <2>2. ~filer2_delayed /\ filenameSel2 = player.sound
      BY <1>1, <1>3, <2>1 DEF ThreadAgrees, AgreesAtReq
    <2>3. ThreadAgrees'
      BY <1>2, <2>1, <2>2 DEF ThreadAgrees, AgreesAtWord, AgreesAtReq, AgreesAtByte, AgreesAtNext
    <2> QED  BY <1>4, <1>5, <2>1, <2>3
  <1>11. CASE WaitForRequest2
    <2>1. /\ pc2 = "req" /\ pc2' \in {"word", "exit"} /\ UNCHANGED fifo2
          /\ fpga2_req.cmd = 5 /\ opNum2' = 7 /\ opData2' = 0
      BY <1>11 DEF WaitForRequest2, Requested, Access, Loop
    <2>2. ~filer2_delayed
      BY <1>1, <1>3, <2>1 DEF ThreadAgrees, AgreesAtReq
    <2>3. AnswersRequest(OpWord(opNum2, opData2))'
      BY <1>2, <2>1, OpWordParts DEF AnswersRequest
    <2>4. ThreadAgrees'
      BY <1>2, <2>1, <2>2, <2>3 DEF ThreadAgrees, AgreesAtWord, AgreesAtReq, AgreesAtByte, AgreesAtNext
    <2> QED  BY <1>4, <1>5, <2>1, <2>4
  <1>12. ~RepeatOp2
    BY <1>1, <1>3 DEF RepeatOp2, Access, ThreadAgrees, AgreesAtReq
  <1>13. CASE SendByte2
    <2> DEFINE w == ByteWord(filenameSel2, fArg1_cur2)
    <2>1. /\ fifo2' # <<>> /\ Head(fifo2') = w /\ pc2 = "byte" /\ pc2' = "next"
          /\ UNCHANGED threadVars
      BY <1>1, <1>13, PushOnEmpty DEF SendByte2, Access
    <2>2. InFlight2' /\ InHand2' = w /\ w.op = 9
      BY <2>1, OpWordParts DEF InFlight2, InHand2
    <2>3. /\ ~filer2_delayed /\ fpga2_req.cmd = 31
          /\ filenameSel2 = player.sound /\ fArg1_cur2 = fpga2_req.arg
      BY <1>3, <2>1 DEF ThreadAgrees, AgreesAtByte
    <2>4. w = Wanted
      BY <2>3 DEF Wanted
    <2>5. AnswersRequest(InHand2)'
      BY <1>2, <2>2, <2>3, <2>4 DEF AnswersRequest, Wanted
    <2>6. DelayedRight'
      BY <1>2, <2>3 DEF DelayedRight
    <2>7. ThreadAgrees'
      BY <1>2, <2>1, <2>3 DEF ThreadAgrees, AgreesAtWord, AgreesAtReq, AgreesAtByte, AgreesAtNext
    <2> QED  BY <1>4, <2>5, <2>6, <2>7
  <1>14. CASE SendNext2
    <2>1. /\ pc2 = "next" /\ pc2' = "byte" /\ UNCHANGED <<fifo2, filenameSel2>>
          /\ fpga2_req.cmd # 4 /\ fpga2_req.arg # fArg1_cur2 /\ fArg1_cur2' = fpga2_req.arg
      BY <1>14 DEF SendNext2, NextRequest, Access
    <2>2. ~filer2_delayed /\ fpga2_req.cmd = 31 /\ filenameSel2 = player.sound
      BY <1>3, <2>1 DEF ThreadAgrees, AgreesAtNext
    <2>3. ThreadAgrees'
      BY <1>2, <2>1, <2>2 DEF ThreadAgrees, AgreesAtWord, AgreesAtReq, AgreesAtByte, AgreesAtNext
    <2> QED  BY <1>4, <1>5, <2>1, <2>3
  <1>15. CASE CloseFile2
    <2>1. /\ pc2 = "next" /\ UNCHANGED fifo2 /\ opNum2' = 6
          /\ pc2' = "exit" \/ (pc2' = "word" /\ fpga2_req.cmd = 4)
      BY <1>15 DEF CloseFile2, NextRequest, Access, Loop
    <2>2. CASE pc2' = "exit"
      BY <1>4, <1>5, <1>6, <2>1, <2>2
    <2>3. CASE pc2' = "word" /\ fpga2_req.cmd = 4
      <3>1. ~filer2_delayed
        BY <1>3, <2>3 DEF DelayedRight
      <3>2. AnswersRequest(OpWord(opNum2, opData2))'
        BY <1>2, <2>1, <2>3, OpWordParts DEF AnswersRequest
      <3>3. ThreadAgrees'
        BY <1>2, <2>1, <2>3, <3>1, <3>2 DEF ThreadAgrees, AgreesAtWord, AgreesAtReq, AgreesAtByte,
           AgreesAtNext
      <3> QED  BY <1>4, <1>5, <2>1, <3>3
    <2> QED  BY <2>1, <2>2, <2>3
  <1> QED
    BY <1>7, <1>8, <1>9, <1>10, <1>11, <1>12, <1>13, <1>14, <1>15 DEF Thread2, Filer2Step

----------------------------------------------------------------------------
(* The block's cycles. *)

\* What a cycle begins with, and what it does to the words.
Cycle2 ==
    /\ Types2 /\ gameReady \in BOOLEAN /\ Turn2 /\ Wanted2 /\ Heard2 /\ player.on
    /\ TakeWord2 /\ UNCHANGED <<pc2, threadVars>>

LEMMA CycleFacts ==
    ASSUME Cycle2
    PROVE  /\ PlayPoint /\ DelayedRight /\ ThreadAgrees
           /\ InFlight2 => AnswersRequest(InHand2)
           /\ fifo2' = <<>>
           /\ InFlight2' <=> fifo2 # <<>>
           /\ fifo2 # <<>> => InHand2' = InHand2 /\ InHand2 = Head(fifo2) /\ filer2_data' = Head(fifo2)
           /\ filer2_data_ready' <=> fifo2 # <<>>
           /\ fifo2 = <<>> => filer2_data' = filer2_data
           /\ filer2_data_ready => fifo2 = <<>> /\ InHand2 = filer2_data /\ AnswersRequest(filer2_data)
           /\ InFlight2 => \/ pc2 \in {"req", "exit"} \/ (pc2 = "word" /\ opNum2 = 1)
                           \/ pc2 = "next" /\ InHand2.op = 9
           /\ fpga2_req.arg \in Nat /\ player.next \in Nat /\ player.sound \in {0} \cup WavFiles
           /\ AUDIO2_header_count \in Nat /\ AUDIO2_data_count \in Nat /\ AUDIO2_header_flag \in 0..3
           /\ player = [sound |-> player.sound, next |-> player.next, hand |-> player.hand,
                        breaks |-> player.breaks, on |-> player.on]
  <1>0. Turn2 /\ Types2 /\ player.on /\ TakeWord2
    BY DEF Cycle2
  <1>1. filer2_read /\ ~(fifo2 # <<>> /\ filer2_data_ready)
    BY <1>0 DEF Turn2
  <1>2. /\ PlayPoint /\ DelayedRight /\ ThreadAgrees
        /\ InFlight2 => AnswersRequest(InHand2)
    BY <1>0 DEF Cycle2, Heard2
  <1>3. /\ InFlight2' <=> fifo2 # <<>>
        /\ fifo2 # <<>> => InHand2' = InHand2
        /\ fifo2' = <<>>
        /\ fifo2 = <<>> => filer2_data' = filer2_data
        /\ fifo2 # <<>> => filer2_data' = Head(fifo2)
        /\ filer2_data_ready' <=> fifo2 # <<>>
    BY <1>0, <1>1, WordMoves
  <1>4. fifo2 # <<>> => InHand2 = Head(fifo2)
    BY DEF InHand2
  <1>5. filer2_data_ready => fifo2 = <<>> /\ InHand2 = filer2_data /\ AnswersRequest(filer2_data)
    <2> SUFFICES ASSUME filer2_data_ready
                 PROVE  fifo2 = <<>> /\ InHand2 = filer2_data /\ AnswersRequest(filer2_data)
      OBVIOUS
    <2>1. fifo2 = <<>> /\ InFlight2
      BY <1>1 DEF InFlight2
    <2>2. InHand2 = filer2_data
      BY <2>1 DEF InHand2
    <2>3. AnswersRequest(InHand2)
      BY <1>2, <2>1
    <2> QED  BY <2>1, <2>2, <2>3
  <1>6. InFlight2 => \/ pc2 \in {"req", "exit"} \/ (pc2 = "word" /\ opNum2 = 1)
                     \/ pc2 = "next" /\ InHand2.op = 9
    BY <1>0 DEF Turn2
  <1>7. /\ fpga2_req.arg \in Nat
        /\ AUDIO2_header_count \in Nat /\ AUDIO2_data_count \in Nat /\ AUDIO2_header_flag \in 0..3
    BY <1>0 DEF Types2, Channel2Type, ThreadType, Request2, Filer2Type
  <1>8. /\ player.next \in Nat /\ player.sound \in {0} \cup WavFiles
        /\ player = [sound |-> player.sound, next |-> player.next, hand |-> player.hand,
                     breaks |-> player.breaks, on |-> player.on]
    BY <1>0, PlayerParts DEF Types2
  <1> QED  BY <1>2, <1>3, <1>4, <1>5, <1>6, <1>7, <1>8

\* A word was served, and the next request stands: nothing is on its way.
LEMMA Answered ==
    ASSUME Cycle2, filer2_data_ready, PlayPoint', ~filer2_delayed',
           pc2 = "req" => /\ fpga2_req'.cmd \in {5, 6, 31}
                          /\ fpga2_req'.cmd = 31 => filenameSel2 = player'.sound,
           pc2 = "next" => fpga2_req'.cmd \in {4, 31} /\ filenameSel2 = player'.sound
    PROVE  Heard2'
  <1>1. ~InFlight2' /\ ~filer2_delayed'
    BY CycleFacts
  <1>2. InFlight2
    BY DEF InFlight2
  <1>3. \/ pc2 \in {"req", "exit"} \/ (pc2 = "word" /\ opNum2 = 1) \/ pc2 = "next"
    BY <1>2, CycleFacts
  <1>4. UNCHANGED <<pc2, opNum2, filenameSel2>>
    BY DEF Cycle2
  <1>5. AgreesAtWord' /\ AgreesAtByte'
    BY <1>3, <1>4 DEF AgreesAtWord, AgreesAtByte
  <1>6. AgreesAtReq'
    BY <1>1, <1>4 DEF AgreesAtReq
  <1>7. AgreesAtNext'
    BY <1>1, <1>4 DEF AgreesAtNext
  <1> QED  BY <1>1, <1>5, <1>6, <1>7 DEF Heard2, ThreadAgrees, DelayedRight

\* The program is heard: from here on the player is known.
LEMMA HeardReady ==
    ASSUME Types2, Turn2, TakeWord2, UNCHANGED <<pc2, threadVars>>,
           filer2_data_ready \/ filer2_delayed, Filer2Ready
    PROVE  Heard2'
  <1>1. /\ filer2_data.op = 1 /\ ~filer2_delayed'
        /\ fpga2_req' = [cmd |-> 5, arg |-> 0]
    BY DEF Filer2Ready, Serving2, Ask2
  <1>2. filer2_read /\ filer2_data_ready /\ fifo2 = <<>>
    BY <1>1 DEF Turn2
  <1>3. ~InFlight2'
    BY <1>2, WordMoves
  <1>4. InFlight2 /\ InHand2 = filer2_data
    BY <1>2 DEF InFlight2, InHand2
  <1>5. pc2 \in {"req", "exit"} \/ (pc2 = "word" /\ opNum2 = 1)
    BY <1>1, <1>4 DEF Turn2
  <1>6. player'.sound = 0
    BY PlayerParts DEF Types2, Filer2Ready
  <1>7. PlayPoint'
    BY <1>1, <1>6 DEF PlayPoint
  <1>8. ThreadAgrees'
    BY <1>1, <1>3, <1>5 DEF ThreadAgrees, AgreesAtWord, AgreesAtReq, AgreesAtByte, AgreesAtNext
  <1> QED  BY <1>1, <1>3, <1>7, <1>8 DEF Heard2, DelayedRight

LEMMA HeardIdle ==
    ASSUME Cycle2, IdleCycle2
    PROVE  Heard2'
  <1>1. /\ UNCHANGED <<fpga2_req, header2Vars, stream2Vars, delay2Vars, player>>
        /\ ~filer2_delayed /\ ~filer2_data_ready
    BY DEF IdleCycle2
  <1>2. InFlight2' <=> InFlight2
    BY <1>1, CycleFacts DEF InFlight2
  <1>3. InFlight2' => InHand2' = InHand2
    BY CycleFacts
  <1>4. UNCHANGED <<pc2, threadVars>>
    BY DEF Cycle2
  <1>5. PlayPoint'
    BY <1>1, CycleFacts, PointKept
  <1>6. AgreesAtWord'
    BY <1>1, <1>4, CycleFacts DEF ThreadAgrees, AgreesAtWord, AnswersRequest, Wanted
  <1>7. AgreesAtReq' /\ AgreesAtByte' /\ AgreesAtNext'
    BY <1>1, <1>2, <1>3, <1>4, CycleFacts DEF ThreadAgrees, AgreesAtReq, AgreesAtByte, AgreesAtNext
  <1>8. InFlight2' => AnswersRequest(InHand2)'
    <2> SUFFICES ASSUME InFlight2' PROVE AnswersRequest(InHand2)'
      OBVIOUS
    <2>1. AnswersRequest(InHand2) /\ InHand2' = InHand2
      BY <1>2, <1>3, CycleFacts
    <2> QED  BY <1>1, <2>1 DEF AnswersRequest, Wanted
  <1> QED  BY <1>1, <1>5, <1>6, <1>7, <1>8 DEF Heard2, ThreadAgrees, DelayedRight

LEMMA HeardSize ==
    ASSUME Cycle2, filer2_data_ready \/ filer2_delayed, Size2Received
    PROVE  Heard2'
  <1>1. filer2_data.op = 8 /\ ~filer2_delayed' /\ fpga2_req' = [cmd |-> 31, arg |-> 0]
    BY DEF Size2Received, Serving2, Ask2
  <1>2. filer2_data_ready
    BY <1>1 DEF Cycle2, Turn2
  <1>3. /\ AnswersRequest(filer2_data) /\ InHand2 = filer2_data /\ InFlight2
        /\ PlayPoint /\ ThreadAgrees
    BY <1>2, CycleFacts DEF InFlight2
  <1>4. fpga2_req.cmd = 6 /\ filer2_data.at = FileSize(player.sound)
    BY <1>1, <1>3 DEF AnswersRequest
  <1>5. player.next = 0 /\ player.sound # 0
    BY <1>3, <1>4 DEF PlayPoint
  <1>6. PlayPoint'
    BY <1>1, <1>4, <1>5, FileFacts DEF Size2Received, PlayPoint, InHeader2
  <1>7. pc2 = "req" => filenameSel2 = player.sound
    BY <1>1, <1>3 DEF ThreadAgrees, AgreesAtReq
  <1>8. pc2 # "next"
    BY <1>1, <1>3, CycleFacts
  <1>9. player' = player
    BY DEF Size2Received
  <1> QED  BY <1>1, <1>2, <1>6, <1>7, <1>8, <1>9, Answered

LEMMA HeardClosed ==
    ASSUME Cycle2, filer2_data_ready \/ filer2_delayed, Closed2
    PROVE  Heard2' /\ player.sound \in WavFiles /\ player.next = WavSize[player.sound]
  <1>1. filer2_data.op = 6 /\ ~filer2_delayed' /\ fpga2_req' = [cmd |-> 5, arg |-> fpga2_req.arg]
    BY DEF Closed2, Serving2, Ask2
  <1>2. filer2_data_ready
    BY <1>1 DEF Cycle2, Turn2
  <1>3. /\ AnswersRequest(filer2_data) /\ InHand2 = filer2_data /\ InFlight2 /\ PlayPoint
    BY <1>2, CycleFacts DEF InFlight2
  <1>4. fpga2_req.cmd = 4
    BY <1>1, <1>3 DEF AnswersRequest
  <1>5. player.sound # 0 /\ player.next = WavSize[player.sound]
    BY <1>3, <1>4 DEF PlayPoint
  <1>6. player'.sound = 0
    BY CycleFacts DEF Closed2
  <1>7. PlayPoint'
    BY <1>1, <1>6 DEF PlayPoint
  <1>8. pc2 # "next"
    BY <1>1, <1>3, CycleFacts
  <1> QED  BY <1>1, <1>2, <1>5, <1>7, <1>8, Answered, CycleFacts

LEMMA HeardTake ==
    ASSUME Cycle2, filer2_data_ready \/ filer2_delayed, TakeSound2(gameReady)
    PROVE  Heard2' /\ player.sound = 0 /\ sound2_wav \in WavFiles
  <1>1. /\ filer2_data.op \notin {1, 6, 8, 9} /\ ~filer2_delayed'
        /\ fpga2_req' = [cmd |-> 6, arg |-> sound2_wav] /\ sound2_changed
    BY DEF TakeSound2, Waiting2, Serving2, Ask2
  <1>2. filer2_data_ready
    BY <1>1 DEF Cycle2, Turn2
  <1>3. /\ AnswersRequest(filer2_data) /\ InHand2 = filer2_data /\ InFlight2 /\ PlayPoint
    BY <1>2, CycleFacts DEF InFlight2
  <1>4. fpga2_req.cmd = 5
    BY <1>1, <1>3 DEF AnswersRequest
  <1>5. player.sound = 0 /\ sound2_wav \in WavFiles /\ sound2_wav # 0
    BY <1>1, <1>3, <1>4, FileFacts DEF PlayPoint, Cycle2, Wanted2
  <1>6. player'.sound = sound2_wav /\ player'.next = 0
    BY CycleFacts DEF TakeSound2
  <1>7. PlayPoint'
    BY <1>1, <1>5, <1>6 DEF PlayPoint
  <1>8. pc2 # "next"
    BY <1>1, <1>3, CycleFacts
  <1> QED  BY <1>1, <1>2, <1>5, <1>7, <1>8, Answered

LEMMA HeardNothing ==
    ASSUME Cycle2, filer2_data_ready \/ filer2_delayed, NoSound2(gameReady)
    PROVE  Heard2'
  <1>1. /\ filer2_data.op \notin {1, 6, 8, 9} /\ ~filer2_delayed'
        /\ fpga2_req'.cmd = 5 /\ player' = player
    BY DEF NoSound2, Waiting2, Serving2, Ask2
  <1>2. filer2_data_ready
    BY <1>1 DEF Cycle2, Turn2
  <1>3. /\ AnswersRequest(filer2_data) /\ InHand2 = filer2_data /\ InFlight2 /\ PlayPoint
    BY <1>2, CycleFacts DEF InFlight2
  <1>4. fpga2_req.cmd = 5
    BY <1>1, <1>3 DEF AnswersRequest
  <1>5. player.sound = 0
    BY <1>3, <1>4 DEF PlayPoint
  <1>6. PlayPoint'
    BY <1>1, <1>5 DEF PlayPoint
  <1>7. pc2 # "next"
    BY <1>1, <1>3, CycleFacts
  <1> QED  BY <1>1, <1>2, <1>6, <1>7, Answered

\* The sample in hand, when the block streams, is the one that was asked for.
LEMMA StreamFacts ==
    ASSUME Cycle2, filer2_data_ready \/ filer2_delayed, Streaming2
    PROVE  /\ fpga2_req.cmd = 31 /\ NextSample2 = Wanted /\ filer2_data = Wanted /\ InSamples2
           /\ player.sound \in WavFiles
           /\ filer2_data_ready => ~filer2_delayed
           /\ pc2 = "next" => /\ filenameSel2 = player.sound /\ fArg1_cur2 = fpga2_req.arg
                              /\ fifo2 = <<>>
           /\ fifo2 # <<>> => Head(fifo2).op = 1
           /\ fifo2 = <<>> => pc2 \in {"next", "exit"} \/ (pc2 = "word" /\ opNum2 = 1)
           /\ fifo2 # <<>> => pc2 \in {"req", "exit"} \/ (pc2 = "word" /\ opNum2 = 1)
  <1>1. filer2_data.op = 9 /\ AUDIO2_header_flag = 3
    BY DEF Streaming2
  <1>2. PlayPoint /\ DelayedRight /\ ThreadAgrees
    BY CycleFacts
  <1>3. CASE filer2_data_ready
    <2>1. /\ AnswersRequest(filer2_data) /\ InHand2 = filer2_data /\ InFlight2 /\ fifo2 = <<>>
      BY <1>3, CycleFacts DEF InFlight2
    <2>2. fpga2_req.cmd = 31 /\ filer2_data = Wanted
      BY <1>1, <2>1 DEF AnswersRequest
    <2>3. ~filer2_delayed
      BY <1>1, <1>2, <1>3 DEF DelayedRight
    <2>4. NextSample2 = Wanted
      BY <2>2, <2>3 DEF NextSample2
    <2>5. InSamples2 /\ player.sound \in WavFiles
      BY <1>1, <1>2, <2>2, CycleFacts DEF PlayPoint
    <2>6. pc2 # "req"
      BY <1>1, <1>2, <2>1 DEF ThreadAgrees, AgreesAtReq
    <2>7. pc2 \in {"next", "exit"} \/ (pc2 = "word" /\ opNum2 = 1)
      BY <2>1, <2>6, CycleFacts
    <2>8. pc2 = "next" => filenameSel2 = player.sound /\ fArg1_cur2 = fpga2_req.arg
      BY <1>2, <2>1 DEF ThreadAgrees, AgreesAtNext
    <2> QED  BY <2>1, <2>2, <2>3, <2>4, <2>5, <2>7, <2>8
  <1>4. CASE ~filer2_data_ready
    <2>0. filer2_delayed
      BY <1>4
    <2>1. /\ fpga2_req.cmd = 31 /\ filer2_data_delayed = Wanted /\ filer2_data = Wanted
          /\ fifo2 # <<>> => Head(fifo2).op = 1
      BY <1>2, <1>4, <2>0 DEF DelayedRight
    <2>2. NextSample2 = Wanted
      BY <2>0, <2>1 DEF NextSample2
    <2>3. InSamples2 /\ player.sound \in WavFiles
      BY <1>1, <1>2, <2>1, CycleFacts DEF PlayPoint
    <2>4. pc2 = "next" => filenameSel2 = player.sound /\ fArg1_cur2 = fpga2_req.arg /\ ~InFlight2
      BY <1>2, <2>0 DEF ThreadAgrees, AgreesAtNext
    <2>5. /\ pc2 # "byte"
          /\ pc2 = "word" => opNum2 = 1
          /\ pc2 = "req" => InFlight2
      BY <1>2, <2>0 DEF ThreadAgrees, AgreesAtWord, AgreesAtReq, AgreesAtByte
    <2>6. InFlight2 <=> fifo2 # <<>>
      BY <1>4 DEF InFlight2
    <2>7. pc2 \in {"word", "req", "byte", "next", "exit"}
      BY DEF Cycle2, Types2, Channel2Type, ProgramType
    <2> QED  BY <1>4, <2>1, <2>2, <2>3, <2>4, <2>5, <2>6, <2>7
  <1> QED  BY <1>3, <1>4

\* The word that overtakes a sample, if any, is the first of a new program.
LEMMA FirstWordNext ==
    ASSUME Cycle2, filer2_data_ready \/ filer2_delayed, Streaming2,
           UNCHANGED <<fpga2_req, player>> \/ ~filer2_delayed'
    PROVE  /\ InFlight2' => AnswersRequest(InHand2)'
           /\ AgreesAtWord' /\ AgreesAtReq' /\ AgreesAtByte'
  <1>1. UNCHANGED <<pc2, threadVars>>
    BY DEF Cycle2
  <1>2. InFlight2' => InHand2'.op = 1
    BY CycleFacts, StreamFacts
  <1>3. InFlight2' => AnswersRequest(InHand2)'
    BY <1>2 DEF AnswersRequest
  <1>4. AgreesAtWord' /\ AgreesAtByte'
    BY <1>1, StreamFacts DEF AgreesAtWord, AgreesAtByte
  <1>5. pc2 = "req" => InFlight2'
    BY StreamFacts, CycleFacts
  <1>6. AgreesAtReq'
    BY <1>1, <1>2, <1>5 DEF AgreesAtReq
  <1> QED  BY <1>3, <1>4, <1>6

LEMMA HeardStream ==
    ASSUME Cycle2, filer2_data_ready \/ filer2_delayed, StreamSample2
    PROVE  /\ Heard2'
           /\ player.sound \in WavFiles /\ player.next < WavSize[player.sound]
           /\ NextSample2 = ByteWord(player.sound, FirstSample + player.next)
  <1>1. Streaming2 /\ ~filer2_delayed' /\ UNCHANGED header2Vars /\ AUDIO2_data_size' = AUDIO2_data_size
    BY DEF StreamSample2
  <1>2. /\ fpga2_req.cmd = 31 /\ NextSample2 = Wanted /\ InSamples2 /\ player.sound \in WavFiles
    BY <1>1, StreamFacts
  <1>3. /\ AUDIO2_data_size = WavSize[player.sound] /\ AUDIO2_header_offset = FirstSample
        /\ AUDIO2_count = player.next /\ player.next < WavSize[player.sound]
        /\ fpga2_req.arg = FirstSample + player.next
    BY <1>2 DEF InSamples2
  <1>4. /\ WavSize[player.sound] \in Nat \ {0} /\ player.next \in Nat /\ FirstSample \in Nat
        /\ player.sound # 0
    BY <1>2, FileFacts, CycleFacts
  <1>5. Last2(AUDIO2_data_size) = WavSize[player.sound] - 1
    BY <1>3, <1>4 DEF Last2
  <1>6. player'.sound = player.sound /\ player'.next = player.next + 1
    BY CycleFacts DEF StreamSample2
  <1>7. AUDIO2_header_flag' = 3 /\ AUDIO2_header_offset' = FirstSample
    BY <1>1, <1>3 DEF Streaming2
  <1>8. PlayPoint' /\ fpga2_req'.cmd \in {4, 31}
    <2>1. CASE player.next < WavSize[player.sound] - 1
      <3>1. /\ AUDIO2_count' = player.next + 1
            /\ fpga2_req' = [cmd |-> 31, arg |-> player.next + 1 + FirstSample]
        BY <1>3, <1>4, <1>5, <2>1 DEF StreamSample2, Ask2
      <3>2. InSamples2'
        BY <1>1, <1>3, <1>4, <1>6, <1>7, <2>1, <3>1 DEF InSamples2
      <3> QED  BY <1>4, <1>6, <1>7, <3>1, <3>2 DEF PlayPoint
    <2>2. CASE player.next >= WavSize[player.sound] - 1
      <3>1. fpga2_req' = [cmd |-> 4, arg |-> AUDIO2_data_size]
        BY <1>3, <1>4, <1>5, <2>2 DEF StreamSample2, Ask2
      <3>2. player'.next = WavSize[player'.sound]
        BY <1>3, <1>4, <1>6, <2>2
      <3> QED  BY <1>4, <1>6, <3>1, <3>2 DEF PlayPoint
    <2> QED  BY <1>4, <2>1, <2>2
  <1>9. /\ InFlight2' => AnswersRequest(InHand2)'
        /\ AgreesAtWord' /\ AgreesAtReq' /\ AgreesAtByte'
    BY <1>1, FirstWordNext
  <1>10. AgreesAtNext'
    <2>1. pc2 = "next" => filenameSel2 = player.sound /\ ~InFlight2'
      BY <1>1, StreamFacts, CycleFacts
    <2>2. UNCHANGED <<pc2, filenameSel2>>
      BY DEF Cycle2
    <2> QED  BY <1>1, <1>6, <1>8, <2>1, <2>2 DEF AgreesAtNext
  <1>11. NextSample2 = ByteWord(player.sound, FirstSample + player.next)
    BY <1>2, <1>3 DEF Wanted
  <1> QED
    BY <1>1, <1>2, <1>3, <1>8, <1>9, <1>10, <1>11 DEF Heard2, ThreadAgrees, DelayedRight

LEMMA HeardDelay ==
    ASSUME Cycle2, filer2_data_ready \/ filer2_delayed, DelaySample2
    PROVE  Heard2'
  <1>1. /\ Streaming2 /\ filer2_data_delayed' = filer2_data
        /\ UNCHANGED <<fpga2_req, header2Vars, AUDIO2_data_size, AUDIO2_count, player>>
    BY DEF DelaySample2
  <1>2. PlayPoint'
    BY <1>1, CycleFacts, PointKept
  <1>3. DelayedRight'
    <2>1. fpga2_req'.cmd = 31 /\ AUDIO2_header_flag' = 3
      BY <1>1, StreamFacts DEF Streaming2
    <2>2. filer2_data_delayed' = Wanted'
      BY <1>1, StreamFacts DEF Wanted
    <2>3. filer2_data_ready' => filer2_data'.op = 1
      BY <1>1, StreamFacts, CycleFacts
    <2>4. ~filer2_data_ready' => filer2_data' = Wanted'
      BY <1>1, StreamFacts, CycleFacts DEF Wanted
    <2>5. fifo2' = <<>>
      BY CycleFacts
    <2> QED  BY <2>1, <2>2, <2>3, <2>4, <2>5 DEF DelayedRight
  <1>4. /\ InFlight2' => AnswersRequest(InHand2)'
        /\ AgreesAtWord' /\ AgreesAtReq' /\ AgreesAtByte'
    BY <1>1, FirstWordNext
  <1>5. AgreesAtNext'
    <2>1. pc2 = "next" => /\ filenameSel2 = player.sound /\ fArg1_cur2 = fpga2_req.arg
                          /\ ~InFlight2' /\ fpga2_req.cmd = 31
      BY <1>1, StreamFacts, CycleFacts
    <2>2. UNCHANGED <<pc2, threadVars>>
      BY DEF Cycle2
    <2> QED  BY <1>1, <2>1, <2>2 DEF AgreesAtNext
  <1> QED  BY <1>2, <1>3, <1>4, <1>5 DEF Heard2, ThreadAgrees

LEMMA HeardParse ==
    ASSUME Cycle2, filer2_data_ready \/ filer2_delayed, ParseHeader2
    PROVE  Heard2'
  <1>1. /\ filer2_data.op = 9 /\ ~filer2_delayed' /\ AUDIO2_header_flag # 3
        /\ player' = player /\ FILE2_size' = FILE2_size
    BY DEF ParseHeader2, Serving2
  <1>2. filer2_data_ready
    BY <1>1, CycleFacts DEF DelayedRight
  <1>3. /\ AnswersRequest(filer2_data) /\ InHand2 = filer2_data /\ InFlight2
        /\ PlayPoint /\ ThreadAgrees
    BY <1>2, CycleFacts DEF InFlight2
  <1>4. fpga2_req.cmd = 31 /\ filer2_data = Wanted
    BY <1>1, <1>3 DEF AnswersRequest
  <1>5. /\ player.next = 0 /\ FILE2_size = FileSize(player.sound) /\ player.sound # 0
        /\ fpga2_req.arg = AUDIO2_header_count /\ InHeader2
    BY <1>1, <1>3, <1>4 DEF PlayPoint
  <1>6. /\ player.sound \in WavFiles /\ WavSize[player.sound] \in Nat \ {0}
        /\ FILE2_size = DataEnd + 5 + WavSize[player.sound] /\ FirstSample = DataEnd + 5
        /\ FmtEnd \in Nat /\ DataEnd \in Nat /\ FmtEnd < DataEnd
        /\ AUDIO2_header_count \in Nat /\ AUDIO2_data_count \in Nat
    BY <1>5, FileFacts, CycleFacts
  <1>7. filer2_data.file = player.sound /\ filer2_data.at = AUDIO2_header_count
    BY <1>4, <1>5, OpWordParts DEF Wanted
  <1>8. Last2(FILE2_size) = DataEnd + 4 + WavSize[player.sound]
    BY <1>6 DEF Last2
  <1>9. \A p : EndsWith2(p) <=> AUDIO2_header_count = p
    BY <1>6, <1>7 DEF EndsWith2
  <1>10. SizeField2 = WavSize[player.sound]
    BY <1>6, <1>7 DEF SizeField2
  <1>11. /\ AUDIO2_header_flag' = NextFlag2
         /\ AUDIO2_data_count' = AUDIO2_data_count + (IF AUDIO2_header_flag = 2 THEN 1 ELSE 0)
    BY DEF ParseHeader2
  <1>12. ASSUME NextFlag2 # 3, AUDIO2_header_count < Last2(FILE2_size)
         PROVE  /\ AUDIO2_header_count' = AUDIO2_header_count + 1
                /\ fpga2_req' = [cmd |-> 31, arg |-> AUDIO2_header_count + 1]
    BY <1>6, <1>8, <1>12 DEF ParseHeader2, Ask2
  <1>13. ASSUME NextFlag2 # 3, AUDIO2_header_count < Last2(FILE2_size), InHeader2'
         PROVE  PlayPoint' /\ fpga2_req'.cmd = 31
    BY <1>1, <1>5, <1>11, <1>12, <1>13 DEF PlayPoint
  <1>14. PlayPoint' /\ fpga2_req'.cmd = 31
    <2>1. CASE AUDIO2_header_flag = 0
      <3>1. AUDIO2_data_count = 0 /\ AUDIO2_header_count <= FmtEnd
        BY <1>5, <2>1 DEF InHeader2
      <3>2. AUDIO2_data_count' = 0 /\ AUDIO2_header_count < Last2(FILE2_size)
        BY <1>6, <1>8, <1>11, <2>1, <3>1
      <3>3. NextFlag2 = (IF AUDIO2_header_count = FmtEnd THEN 1 ELSE 0)
        BY <1>9, <2>1 DEF NextFlag2
      <3>4. InHeader2'
        BY <1>6, <1>11, <1>12, <3>1, <3>2, <3>3 DEF InHeader2
      <3> QED  BY <1>13, <3>2, <3>3, <3>4
    <2>2. CASE AUDIO2_header_flag = 1
      <3>1. /\ AUDIO2_data_count = 0
            /\ FmtEnd < AUDIO2_header_count /\ AUDIO2_header_count <= DataEnd
        BY <1>5, <2>2 DEF InHeader2
      <3>2. AUDIO2_data_count' = 0 /\ AUDIO2_header_count < Last2(FILE2_size)
        BY <1>6, <1>8, <1>11, <2>2, <3>1
      <3>3. NextFlag2 = (IF AUDIO2_header_count = DataEnd THEN 2 ELSE 1)
        BY <1>9, <2>2 DEF NextFlag2
      <3>4. InHeader2'
        BY <1>6, <1>11, <1>12, <3>1, <3>2, <3>3 DEF InHeader2
      <3> QED  BY <1>13, <3>2, <3>3, <3>4
    <2>3. CASE AUDIO2_header_flag = 2 /\ AUDIO2_data_count # 3
      <3>1. AUDIO2_data_count < 3 /\ AUDIO2_header_count = DataEnd + 1 + AUDIO2_data_count
        BY <1>5, <1>6, <2>3 DEF InHeader2
      <3>2. AUDIO2_data_count' = AUDIO2_data_count + 1 /\ AUDIO2_header_count < Last2(FILE2_size)
        BY <1>6, <1>8, <1>11, <2>3, <3>1
      <3>3. NextFlag2 = 2
        BY <2>3 DEF NextFlag2
      <3>4. InHeader2'
        BY <1>6, <1>11, <1>12, <3>1, <3>2, <3>3 DEF InHeader2
      <3> QED  BY <1>13, <3>2, <3>3, <3>4
    <2>4. CASE AUDIO2_header_flag = 2 /\ AUDIO2_data_count = 3
      <3>1. AUDIO2_header_count = DataEnd + 4
        BY <1>5, <1>6, <2>4 DEF InHeader2
      <3>2. NextFlag2 = 3
        BY <2>4 DEF NextFlag2
      <3>3. /\ AUDIO2_data_size' = SizeField2 /\ AUDIO2_header_offset' = AUDIO2_header_count + 1
            /\ AUDIO2_count' = 0 /\ fpga2_req' = [cmd |-> 31, arg |-> AUDIO2_header_count + 1]
        BY <3>2 DEF ParseHeader2, Ask2
      <3>4. InSamples2'
        BY <1>1, <1>5, <1>6, <1>10, <3>1, <3>3 DEF InSamples2
      <3> QED  BY <1>1, <1>5, <1>11, <3>2, <3>3, <3>4 DEF PlayPoint
    <2>5. AUDIO2_header_flag \in {0, 1, 2}
      BY <1>1, CycleFacts
    <2> QED  BY <2>1, <2>2, <2>3, <2>4, <2>5
  <1>15. pc2 # "req"
    BY <1>1, <1>3 DEF ThreadAgrees, AgreesAtReq
  <1>16. pc2 = "next" => filenameSel2 = player.sound
    BY <1>3 DEF ThreadAgrees, AgreesAtNext
  <1> QED  BY <1>1, <1>2, <1>14, <1>15, <1>16, Answered

LEMMA HeardCycle ==
    ASSUME Types2, gameReady \in BOOLEAN, Turn2, Wanted2, Heard2, Fpga2
    PROVE  Heard2'
  <1>1. /\ TakeWord2 /\ UNCHANGED <<pc2, threadVars>>
        /\ ServeWord2(gameReady) \/ IdleCycle2
    BY DEF Fpga2, Filer2Cycle
  <1>2. CASE (filer2_data_ready \/ filer2_delayed) /\ Filer2Ready
    BY <1>1, <1>2, HeardReady
  <1>3. CASE player.on
    <2>1. Cycle2
      BY <1>1, <1>3 DEF Cycle2
    <2> QED
      BY <1>1, <1>2, <2>1, HeardSize, HeardClosed, HeardStream, HeardDelay, HeardParse, HeardTake,
         HeardNothing, HeardIdle DEF ServeWord2
  <1>4. CASE ~player.on /\ ~((filer2_data_ready \/ filer2_delayed) /\ Filer2Ready)
    <2>1. ~player'.on
      <3>p. player = [sound |-> player.sound, next |-> player.next, hand |-> player.hand,
                      breaks |-> player.breaks, on |-> player.on]
        BY PlayerParts DEF Types2
      <3>1. CASE Closed2
        BY <1>4, <3>p, <3>1 DEF Closed2
      <3>2. CASE StreamSample2
        BY <1>4, <3>p, <3>2 DEF StreamSample2
      <3>3. CASE TakeSound2(gameReady)
        BY <1>4, <3>p, <3>3 DEF TakeSound2
      <3>4. CASE player' = player
        BY <1>4, <3>4
      <3> QED
        BY <1>1, <1>4, <3>1, <3>2, <3>3, <3>4 DEF ServeWord2, Size2Received, DelaySample2,
           ParseHeader2, NoSound2, IdleCycle2
    <2> QED  BY <2>1 DEF Heard2
  <1> QED  BY <1>2, <1>3, <1>4

\* A step elsewhere, after which the thread is where it was, or ended, or begins.
LEMMA HeardKept ==
    ASSUME Heard2,
           UNCHANGED <<fifo2, fpga2_req, filer2_data, filer2_data_ready, filer2_delayed,
                       filer2_data_delayed, header2Vars, AUDIO2_data_size, AUDIO2_count, player>>,
           \/ UNCHANGED <<pc2, threadVars>>
           \/ pc2' = "exit"
           \/ pc2' = "word" /\ opNum2' = 1
    PROVE  Heard2'
  <1> SUFFICES ASSUME player.on
               PROVE  /\ PlayPoint' /\ DelayedRight' /\ ThreadAgrees'
                      /\ InFlight2' => AnswersRequest(InHand2)'
    BY DEF Heard2
  <1>1. /\ PlayPoint /\ DelayedRight /\ ThreadAgrees
        /\ InFlight2 => AnswersRequest(InHand2)
    BY DEF Heard2
  <1>2. PlayPoint'
    BY <1>1, PointKept
  <1>3. DelayedRight'
    BY <1>1 DEF DelayedRight, Wanted
  <1>4. InFlight2' => AnswersRequest(InHand2)'
    BY <1>1 DEF InFlight2, InHand2, AnswersRequest, Wanted
  <1>5. ThreadAgrees'
    <2>1. CASE UNCHANGED <<pc2, threadVars>>
      <3>1. AgreesAtWord'
        BY <1>1, <2>1 DEF ThreadAgrees, AgreesAtWord, AnswersRequest, Wanted
      <3>2. AgreesAtReq' /\ AgreesAtByte' /\ AgreesAtNext'
        BY <1>1, <2>1 DEF ThreadAgrees, AgreesAtReq, AgreesAtByte, AgreesAtNext, InFlight2, InHand2
      <3> QED  BY <3>1, <3>2 DEF ThreadAgrees
    <2>2. CASE pc2' = "exit" \/ (pc2' = "word" /\ opNum2' = 1)
      BY <2>2 DEF ThreadAgrees, AgreesAtWord, AgreesAtReq, AgreesAtByte, AgreesAtNext
    <2> QED  BY <2>1, <2>2
  <1> QED  BY <1>2, <1>3, <1>4, <1>5

LEMMA HeardStep ==
    ASSUME Prompt2, Types2, gameReady \in BOOLEAN, Turn2, Wanted2, Heard2, [Channel2Next]_channel2Vars
    PROVE  Heard2'
  <1>1. CASE Thread2
    BY <1>1, HeardThread
  <1>2. CASE Fpga2
    BY <1>2, HeardCycle
  <1>3. CASE Play2 \/ Sound2 \/ Game2 \/ Ready2 \/ Load2 \/ Stop2 \/ Key \/ UNCHANGED channel2Vars
    BY <1>3, HeardKept DEF Play2, Sound2, Game2, Ready2, Announce, Load2, Stop2, Signal, Key, PadEvent
  <1>4. CASE Start2
    BY <1>4, HeardKept DEF Start2, StartProgram, BeginThread
  <1>5. CASE Main \/ Pad
    BY <1>5, HeardKept DEF Main, MainStep, LeaveLoop, Join, Pad, PadStep, PadWrite, PadFault, Crash
  <1>6. CASE Reset2
    BY <1>6 DEF Reset2, Heard2
  <1> QED  BY <1>1, <1>2, <1>3, <1>4, <1>5, <1>6 DEF Channel2Next

----------------------------------------------------------------------------
(* The theorems. *)

Play2Inv ==
    /\ Types2 /\ gameReady \in BOOLEAN
    /\ Turn2 /\ Wanted2 /\ HandRight /\ Heard2

\* For all constants: the types of the second channel, those of thread, queue and block, of the
\* requests and of the program's life (whether or not the FPGA is prompt).
THEOREM Channel2TypeCorrect == Channel2Spec => []Channel2Type
  <1> DEFINE I == Types2 /\ gameReady \in BOOLEAN
  <1>1. Channel2Init => I
    BY InitTypes DEF Channel2Init
  <1>2. I /\ [Channel2Next]_channel2Vars => I'
    BY StepTypes
  <1>3. I => Channel2Type
    BY DEF Types2
  <1> QED  BY <1>1, <1>2, <1>3, PTL DEF Channel2Spec

LEMMA Play2Always == ASSUME Prompt2 PROVE Channel2Spec => []Play2Inv
  <1>1. Channel2Init => Play2Inv
    <2> SUFFICES ASSUME Channel2Init PROVE Play2Inv
      OBVIOUS
    <2>1. Wanted2
      BY DEF Channel2Init, Sound2Init, Wanted2, sound2_changed
    <2>2. HandRight /\ Heard2
      BY DEF Channel2Init, Filer2Init, HandRight, Heard2
    <2>3. gameReady \in BOOLEAN
      BY DEF Channel2Init
    <2> QED  BY <2>1, <2>2, <2>3, InitTypes, InitTurn DEF Play2Inv
  <1>2. Play2Inv /\ [Channel2Next]_channel2Vars => Play2Inv'
    BY StepTypes, TurnStep, WantedStep, HandStep, HeardStep DEF Play2Inv
  <1> QED  BY <1>1, <1>2, PTL DEF Channel2Spec

----------------------------------------------------------------------------
(* The refinement. *)

\* The queue of the block, as the player's line.
Line(s) == [i \in DOMAIN s |-> SampleOf(s[i])]

LEMMA LineFacts ==
    ASSUME NEW s \in Seq(Word2)
    PROVE  /\ Line(<<>>) = <<>>
           /\ Line(s) = <<>> => s = <<>>
           /\ \A w \in Word2 : Line(Append(s, w)) = Append(Line(s), SampleOf(w))
           /\ s # <<>> => Line(Tail(s)) = Tail(Line(s))
  <1> DEFINE R == {SampleOf(w) : w \in Word2}
  <1>1. \A t \in Seq(Word2) : /\ Line(t) \in Seq(R) /\ Len(Line(t)) = Len(t)
                              /\ \A i \in 1..Len(t) : Line(t)[i] = SampleOf(t[i])
    <2> SUFFICES ASSUME NEW t \in Seq(Word2)
                 PROVE  /\ Line(t) \in Seq(R) /\ Len(Line(t)) = Len(t)
                        /\ \A i \in 1..Len(t) : Line(t)[i] = SampleOf(t[i])
      OBVIOUS
    <2>1. Len(t) \in Nat /\ DOMAIN t = 1..Len(t) /\ t \in [1..Len(t) -> Word2]
      BY LenProperties
    <2>2. Line(t) \in [1..Len(t) -> R]
      BY <2>1 DEF Line
    <2>3. Line(t) \in Seq(R) /\ Len(Line(t)) = Len(t)
      BY <2>1, <2>2
    <2> QED  BY <2>1, <2>3 DEF Line
  <1> HIDE DEF R
  <1>2. Line(<<>>) = <<>>
    <2>1. <<>> \in Seq(Word2) /\ Len(<<>>) = 0
      OBVIOUS
    <2>2. Line(<<>>) \in Seq(R) /\ Len(Line(<<>>)) = 0
      BY <1>1, <2>1
    <2> QED  BY <2>2
  <1>3. Line(s) = <<>> => s = <<>>
    <2>1. Len(Line(s)) = Len(s)
      BY <1>1
    <2> QED  BY <2>1
  <1>4. ASSUME NEW w \in Word2
        PROVE  Line(Append(s, w)) = Append(Line(s), SampleOf(w))
    <2>1. /\ Append(s, w) \in Seq(Word2) /\ Len(Append(s, w)) = Len(s) + 1 /\ Len(s) \in Nat
          /\ \A i \in 1..Len(s) : Append(s, w)[i] = s[i]
          /\ Append(s, w)[Len(s) + 1] = w
      OBVIOUS
    <2>2. SampleOf(w) \in R
      BY DEF R
    <2>3. Line(s) \in Seq(R) /\ Len(Line(s)) = Len(s)
      BY <1>1
    <2>4. /\ Append(Line(s), SampleOf(w)) \in Seq(R) /\ Len(Append(Line(s), SampleOf(w))) = Len(s) + 1
          /\ \A i \in 1..Len(s) : Append(Line(s), SampleOf(w))[i] = Line(s)[i]
          /\ Append(Line(s), SampleOf(w))[Len(s) + 1] = SampleOf(w)
      BY <2>2, <2>3
    <2>5. /\ Line(Append(s, w)) \in Seq(R) /\ Len(Line(Append(s, w))) = Len(s) + 1
          /\ \A i \in 1..(Len(s) + 1) : Line(Append(s, w))[i] = SampleOf(Append(s, w)[i])
      BY <1>1, <2>1
    <2>6. \A i \in 1..(Len(s) + 1) : Line(Append(s, w))[i] = Append(Line(s), SampleOf(w))[i]
      <3> SUFFICES ASSUME NEW i \in 1..(Len(s) + 1)
                   PROVE  Line(Append(s, w))[i] = Append(Line(s), SampleOf(w))[i]
        OBVIOUS
      <3>1. CASE i = Len(s) + 1
        BY <2>1, <2>4, <2>5, <3>1
      <3>2. CASE i \in 1..Len(s)
        BY <1>1, <2>1, <2>4, <2>5, <3>2
      <3>3. Len(s) \in Nat
        BY <2>1
      <3>4. i = Len(s) + 1 \/ i \in 1..Len(s)
        BY <3>3
      <3> QED  BY <3>1, <3>2, <3>4
    <2> QED  BY <2>1, <2>4, <2>5, <2>6, SeqEqual
  <1>5. ASSUME s # <<>>
        PROVE  Line(Tail(s)) = Tail(Line(s))
    <2>1. /\ Tail(s) \in Seq(Word2) /\ Len(Tail(s)) = Len(s) - 1
          /\ \A i \in 1..Len(Tail(s)) : Tail(s)[i] = s[i + 1]
      BY <1>5, HeadTailProperties
    <2>2. Line(s) # <<>> /\ Line(s) \in Seq(R) /\ Len(Line(s)) = Len(s) /\ Len(s) \in Nat
      BY <1>1, <1>3, <1>5
    <2>3. /\ Tail(Line(s)) \in Seq(R) /\ Len(Tail(Line(s))) = Len(s) - 1
          /\ \A i \in 1..Len(Tail(Line(s))) : Tail(Line(s))[i] = Line(s)[i + 1]
      BY <2>2, HeadTailProperties
    <2>4. /\ Line(Tail(s)) \in Seq(R) /\ Len(Line(Tail(s))) = Len(s) - 1
          /\ \A i \in 1..(Len(s) - 1) : Line(Tail(s))[i] = SampleOf(Tail(s)[i])
      BY <1>1, <2>1
    <2>5. \A i \in 1..(Len(s) - 1) : Line(Tail(s))[i] = Tail(Line(s))[i]
      <3> SUFFICES ASSUME NEW i \in 1..(Len(s) - 1) PROVE Line(Tail(s))[i] = Tail(Line(s))[i]
        OBVIOUS
      <3>1. i + 1 \in 1..Len(s)
        BY <2>2
      <3> QED  BY <1>1, <2>1, <2>3, <2>4, <3>1
    <2> QED  BY <2>3, <2>4, <2>5, SeqEqual
  <1> QED  BY <1>2, <1>3, <1>4, <1>5

\* A step that the player does not see.
LEMMA Unseen ==
    ASSUME player' = player, samples2' = samples2
    PROVE  UNCHANGED Player!playerVars
  BY DEF Player!playerVars, WhenOn, SampleOf

\* A break, of which the player sees nothing but that it happened.
LEMMA Breaks ==
    ASSUME player'.breaks = player.breaks + 1, player'.sound = 0
    PROVE  Player!PlayerNext
  BY DEF Player!PlayerNext, Player!Break, Player!NoSound, WhenOn

LEMMA StoresHand ==
    ASSUME Types2, HandRight, StoreSample2, player.on, player'.on
    PROVE  Player!Store
  <1>1. samples2 \in Seq(Word2) /\ AUDIO2_data \in Word2
    BY DEF Types2, Channel2Type, Filer2Type
  <1>2. Player!Store <=> Line(samples2') \in {Line(samples2), Append(Line(samples2), SampleOf(player.hand))}
    BY DEF Player!Store, WhenOn, Line
  <1>3. CASE samples2' = samples2
    BY <1>2, <1>3
  <1>4. CASE AUDIO2_wrreq /\ samples2' = Append(samples2, AUDIO2_data)
    <2>1. AUDIO2_data = player.hand
      BY <1>4 DEF HandRight
    <2>2. Line(samples2') = Append(Line(samples2), SampleOf(player.hand))
      BY <1>1, <1>4, <2>1, LineFacts
    <2> QED  BY <1>2, <2>2
  <1> QED  BY <1>3, <1>4 DEF StoreSample2

LEMMA PlayerCycle ==
    ASSUME Play2Inv, Fpga2
    PROVE  [Player!PlayerNext]_Player!playerVars
  <1>0. /\ Types2 /\ gameReady \in BOOLEAN /\ Turn2 /\ Wanted2 /\ HandRight /\ Heard2
        /\ TakeWord2 /\ StoreSample2 /\ UNCHANGED <<pc2, threadVars>>
        /\ ServeWord2(gameReady) \/ IdleCycle2
    BY DEF Play2Inv, Fpga2, Filer2Cycle
  <1>p. player = [sound |-> player.sound, next |-> player.next, hand |-> player.hand,
                  breaks |-> player.breaks, on |-> player.on]
    BY <1>0, PlayerParts DEF Types2
  <1>1. CASE Filer2Ready
    <2>1. player'.breaks = player.breaks + 1 /\ player'.sound = 0
      BY <1>p, <1>1 DEF Filer2Ready
    <2> QED  BY <2>1, Breaks
  <1>2. CASE ~player.on /\ ~Filer2Ready
    <2>1. player'.breaks = player.breaks /\ ~player'.on
      <3>1. CASE Closed2
        BY <1>2, <1>p, <3>1 DEF Closed2
      <3>2. CASE StreamSample2
        BY <1>2, <1>p, <3>2 DEF StreamSample2
      <3>3. CASE TakeSound2(gameReady)
        BY <1>2, <1>p, <3>3 DEF TakeSound2
      <3>4. CASE player' = player
        BY <1>2, <3>4
      <3> QED
        BY <1>0, <1>2, <3>1, <3>2, <3>3, <3>4 DEF ServeWord2, Size2Received, DelaySample2,
           ParseHeader2, NoSound2, IdleCycle2
    <2> QED  BY <1>2, <2>1 DEF Player!playerVars, WhenOn
  <1>3. CASE player.on /\ ~Filer2Ready
    <2>0. Cycle2
      BY <1>0, <1>3 DEF Cycle2
    <2>1. CASE player' = player
      <3>1. Player!Store
        BY <1>0, <1>3, <2>1, StoresHand
      <3> QED  BY <2>1, <3>1 DEF Player!PlayerNext, WhenOn
    <2>2. CASE (filer2_data_ready \/ filer2_delayed) /\ Closed2
      <3>1. player' = [sound |-> 0, next |-> player.next, hand |-> player.hand,
                       breaks |-> player.breaks, on |-> player.on]
        BY <1>p, <2>2 DEF Closed2
      <3>2. Player!Store
        BY <1>0, <1>3, <3>1, StoresHand
      <3>3. player.sound \in WavFiles /\ player.next = WavSize[player.sound] /\ player.sound # 0
        BY <2>0, <2>2, HeardClosed, FileFacts
      <3>4. Player!Finish
        BY <1>3, <3>1, <3>3 DEF Player!Finish, Player!NoSound, WhenOn
      <3> QED  BY <3>1, <3>2, <3>4 DEF Player!PlayerNext
    <2>3. CASE (filer2_data_ready \/ filer2_delayed) /\ StreamSample2
      <3>1. player' = [sound |-> player.sound, next |-> player.next + 1, hand |-> NextSample2,
                       breaks |-> player.breaks, on |-> player.on]
        BY <1>p, <2>3 DEF StreamSample2
      <3>2. Player!Store
        BY <1>0, <1>3, <3>1, StoresHand
      <3>3. /\ player.sound \in WavFiles /\ player.sound # 0 /\ player.next < WavSize[player.sound]
            /\ NextSample2 = ByteWord(player.sound, FirstSample + player.next)
        BY <2>0, <2>3, HeardStream, FileFacts
      <3>4. SampleOf(NextSample2) = <<player.sound, player.next>>
        <4>1. FirstSample \in Nat /\ player.next \in Nat
          BY <2>0, FileFacts, CycleFacts
        <4>2. (FirstSample + player.next) - FirstSample = player.next
          BY <4>1
        <4> QED  BY <3>3, <4>2, OpWordParts DEF SampleOf
      <3>5. Player!Read
        BY <1>3, <3>1, <3>3, <3>4 DEF Player!Read, Player!NoSound, WhenOn
      <3> QED  BY <3>1, <3>2, <3>5 DEF Player!PlayerNext
    <2>4. CASE (filer2_data_ready \/ filer2_delayed) /\ TakeSound2(gameReady)
      <3>1. player' = [sound |-> sound2_wav, next |-> 0, hand |-> player.hand,
                       breaks |-> player.breaks, on |-> player.on]
        BY <1>p, <2>4 DEF TakeSound2
      <3>2. Player!Store
        BY <1>0, <1>3, <3>1, StoresHand
      <3>3. player.sound = 0 /\ sound2_wav \in WavFiles
        BY <2>0, <2>4, HeardTake
      <3>4. Player!Take(sound2_wav)
        BY <1>3, <3>1, <3>3 DEF Player!Take, Player!NoSound, WhenOn
      <3> QED  BY <3>1, <3>2, <3>3, <3>4 DEF Player!PlayerNext
    <2> QED
      BY <1>0, <1>3, <2>1, <2>2, <2>3, <2>4 DEF ServeWord2, Size2Received, DelaySample2,
         ParseHeader2, NoSound2, IdleCycle2
  <1> QED  BY <1>1, <1>2, <1>3

LEMMA PlayerHears ==
    ASSUME Types2, Play2
    PROVE  [Player!PlayerNext]_Player!playerVars
  <1>1. samples2 # <<>> /\ samples2' = Tail(samples2) /\ player' = player
    BY DEF Play2, PlaySample2
  <1>2. samples2 \in Seq(Word2)
    BY DEF Types2, Channel2Type, Filer2Type
  <1>3. Line(samples2) # <<>> /\ Line(samples2') = Tail(Line(samples2))
    BY <1>1, <1>2, LineFacts
  <1>4. CASE player.on
    BY <1>1, <1>3, <1>4 DEF Player!PlayerNext, Player!Hear, WhenOn, Line
  <1>5. CASE ~player.on
    BY <1>1, <1>5 DEF Player!playerVars, WhenOn
  <1> QED  BY <1>4, <1>5

LEMMA PlayerStep ==
    ASSUME Play2Inv, [Channel2Next]_channel2Vars
    PROVE  [Player!PlayerNext]_Player!playerVars
  <1>0. Types2
    BY DEF Play2Inv
  <1>1. CASE Fpga2
    BY <1>1, PlayerCycle
  <1>2. CASE Play2
    BY <1>0, <1>2, PlayerHears
  <1>3. CASE Reset2
    <2>1. player'.breaks = player.breaks + 1 /\ player'.sound = 0
      BY <1>0, <1>3, PlayerParts DEF Reset2, Types2
    <2> QED  BY <2>1, Breaks
  <1>4. CASE UNCHANGED <<player, samples2>>
    BY <1>4, Unseen
  <1> QED
    BY <1>1, <1>2, <1>3, <1>4 DEF Channel2Next, Thread2, Sound2, Game2, Ready2, Load2, Start2,
       Stop2, Main, Pad, Key

\* For all files, depths and bounds: thread, bridge and block implement a player of sounds, which
\* reads every sound it takes whole and in order and keeps the samples in line, however often the
\* program is started, stopped or dies, and the board reset, between two of its steps
\* (SPACE_INVADERS.v:1153-1334, SpaceInvaders_controller.cpp:200-345).
THEOREM PlaysSoundsHolds == ASSUME Prompt2 PROVE Channel2Spec => PlaysSounds
  <1>1. Channel2Init => Player!PlayerInit
    <2> SUFFICES ASSUME Channel2Init PROVE Player!PlayerInit
      OBVIOUS
    <2>1. ~player.on /\ player.breaks = 0
      BY DEF Channel2Init, Filer2Init
    <2> QED  BY <2>1 DEF Player!PlayerInit, Player!NoSound, WhenOn
  <1>2. Play2Inv /\ [Channel2Next]_channel2Vars => [Player!PlayerNext]_Player!playerVars
    BY PlayerStep
  <1> QED  BY <1>1, <1>2, Play2Always, PTL DEF Channel2Spec, PlaysSounds, Player!PlayerSpec

=============================================================================
