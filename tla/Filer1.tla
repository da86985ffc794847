------------------------------- MODULE Filer1 -------------------------------
(***************************************************************************)
(* The FPGA's end of channel 1 (SPACE_INVADERS.v): the block that asks the  *)
(* HPS for the four program images, writes them to the ROM, starts the      *)
(* game, and from then on fetches the sounds of port 3 and feeds them to    *)
(* the sample queue.  One step of the model is one cycle of clockCPU.       *)
(*                                                                          *)
(* Left out: the branches for two-channel sounds (the game's are mono) and  *)
(* the debug port.  A byte is recognised as the end of "fmt " or "data" by  *)
(* its position, which stands for the four-byte window AUDIO_file_data.     *)
(* The eighth byte after "fmt " is taken like its neighbours: the branch    *)
(* that keeps it as the number of channels (v 895) differs from theirs only *)
(* in a file that ends there.                                               *)
(***************************************************************************)
EXTENDS Bridge, Sound1Request

CONSTANTS
    AudioDepth,   \* samples the audio queue holds (8 in fifo_audio)
    Fade,         \* samples a sound fades over (255)
    AddrSpan,     \* values of rom_addr (2^12); cpu_rom_waddr1 is a bit wider
    MaxSize       \* the largest file size, 2^26 - 1

ASSUME Filer1Assumption ==
    /\ AudioDepth \in Nat \ {0}
    /\ Fade \in Nat \ {0}
    /\ AddrSpan \in Nat \ {0}
    /\ MaxSize \in Nat
    /\ {WavOf[b] : b \in SoundBits} \subseteq WavFiles

RomSpan == 2 * AddrSpan
Blank == Number(0)
Sample == [file : {0} \cup Files, at : Nat, first : BOOLEAN, fade : BOOLEAN]
NoSample == [file |-> 0, at |-> 0, first |-> FALSE, fade |-> FALSE]

VARIABLES
    filer_data, filer_data_ready,              \* the word taken from fifo0
    filer_delayed, filer_data_delayed,         \* a sample the audio queue refused
    system_state, file_num, FILE_SIZE, ROM_SIZE_OFFSET, rom_addr,
    cpu_rom_save1, cpu_rom_wdata1, cpu_rom_waddr1, rom,
    request_for_audio, AUDIO_header_flag, AUDIO_header_count, AUDIO_header_offset,
    AUDIO_data_count, AUDIO_data_size, AUDIO_count, AUDIO_data, AUDIO_wrreq,
    samples

wordVars == <<filer_data, filer_data_ready, filer_delayed, filer_data_delayed>>
loadVars == <<file_num, FILE_SIZE, ROM_SIZE_OFFSET, rom_addr>>
romVars == <<cpu_rom_save1, cpu_rom_wdata1, cpu_rom_waddr1>>
headerVars == <<AUDIO_header_flag, AUDIO_header_count, AUDIO_header_offset,
                AUDIO_data_count>>
streamVars == <<AUDIO_data_size, AUDIO_count, AUDIO_data, AUDIO_wrreq>>
filer1Vars == <<wordVars, system_state, loadVars, romVars, rom, request_for_audio,
                headerVars, streamVars, samples, sound1_reqId_sync>>

Filer1Init ==
    /\ filer_data = Blank /\ filer_data_ready = FALSE
    /\ filer_delayed = FALSE /\ filer_data_delayed = NoSample
    /\ system_state = 0 /\ file_num = 1
    /\ FILE_SIZE = 0 /\ ROM_SIZE_OFFSET = 0 /\ rom_addr = 0
    /\ cpu_rom_save1 = FALSE /\ cpu_rom_wdata1 = Blank /\ cpu_rom_waddr1 = 0
    /\ rom = [a \in 0..(RomSpan - 1) |-> Blank]
    /\ request_for_audio = FALSE
    /\ AUDIO_header_flag = 0 /\ AUDIO_header_count = 0 /\ AUDIO_header_offset = 0
    /\ AUDIO_data_count = 0
    /\ AUDIO_data_size = 0 /\ AUDIO_count = 0 /\ AUDIO_data = NoSample
    /\ AUDIO_wrreq = FALSE
    /\ samples = <<>>

Filer1Type ==
    /\ filer_data \in Word /\ filer_data_ready \in BOOLEAN
    /\ filer_delayed \in BOOLEAN /\ filer_data_delayed \in Sample
    /\ system_state \in 0..3 /\ file_num \in 1..5
    /\ FILE_SIZE \in Nat /\ ROM_SIZE_OFFSET \in Nat /\ rom_addr \in Nat
    /\ cpu_rom_save1 \in BOOLEAN /\ cpu_rom_wdata1 \in Word
    /\ cpu_rom_waddr1 \in 0..(RomSpan - 1)
    /\ rom \in [0..(RomSpan - 1) -> Word]
    /\ request_for_audio \in BOOLEAN
    /\ AUDIO_header_flag \in 0..3 /\ AUDIO_header_count \in Nat
    /\ AUDIO_header_offset \in Nat /\ AUDIO_data_count \in Nat
    /\ AUDIO_data_size \in Nat /\ AUDIO_count \in Nat /\ AUDIO_data \in Sample
    /\ AUDIO_wrreq \in BOOLEAN
    /\ samples \in Seq(Sample) /\ Len(samples) <= AudioDepth

----------------------------------------------------------------------------
(* What every cycle does beside the word in hand. *)

AUDIO_fifo_full == Len(samples) = AudioDepth

\* fifo_audio refuses a write when it is full; otherwise a raised AUDIO_wrreq stores
\* AUDIO_data at every edge.
StoreSample ==
    samples' = IF AUDIO_wrreq /\ ~AUDIO_fifo_full THEN Append(samples, AUDIO_data) ELSE samples

\* cpu.v writes the ROM only while the game does not run.
StoreRom ==
    rom' = IF cpu_rom_save1 /\ system_state # 3
           THEN [rom EXCEPT ![cpu_rom_waddr1] = cpu_rom_wdata1] ELSE rom

\* The last position of a file, in unsigned arithmetic.
Last(size) == IF size = 0 THEN MaxSize ELSE size - 1

sound1_inProgress == AUDIO_header_flag = 3 /\ filer_cmd = 9

Ask(cmd, arg) == fpga_cmd' = cmd /\ fpga_data' = arg

----------------------------------------------------------------------------
(* The word in hand, by the operation filer_cmd holds NOW.  Each action is a   *)
(* branch of the block; the guards repeat the order of its tests.              *)

\* Mutant of SdReady: the header state of an interrupted sound is kept.
SdReadyKeepsHeader ==
    /\ filer_cmd = 1
    /\ file_num' = 1
    /\ system_state' = 1
    /\ Ask(1, fpga_data)
    /\ UNCHANGED <<FILE_SIZE, ROM_SIZE_OFFSET, rom_addr, romVars, request_for_audio,
                   headerVars, streamVars, sound1_reqId_sync>>

\* 1: the HPS program has started.
SdReady ==
    /\ filer_cmd = 1
    /\ file_num' = 1
    /\ AUDIO_header_flag' = 0
    /\ system_state' = 1
    /\ Ask(1, fpga_data)
    /\ UNCHANGED <<FILE_SIZE, ROM_SIZE_OFFSET, rom_addr, romVars, request_for_audio,
                   AUDIO_header_count, AUDIO_header_offset, AUDIO_data_count, streamVars,
                   sound1_reqId_sync>>

SoundPending ==
    filer_cmd # 1 /\ system_state = 3 /\ sound1_changed /\ ~sound1_inProgress

\* A new sound is wanted while a file is being read: have it closed first.
Interrupt ==
    /\ SoundPending /\ filer_cmd \in {5, 10, 9}
    /\ Ask(4, fpga_data)
    /\ UNCHANGED <<loadVars, system_state, romVars, request_for_audio, headerVars, streamVars,
                   sound1_reqId_sync>>

\* Take the request (sound1_bits_handle is not 0 when one is pending).
TakeSound ==
    /\ SoundPending /\ filer_cmd \notin {5, 10, 9}
    /\ request_for_audio' = TRUE
    /\ sound1_reqId_sync' = sound1_reqId
    /\ Ask(6, sound1_wav)
    /\ UNCHANGED <<loadVars, system_state, romVars, headerVars, streamVars>>

\* The remaining branches are reached when no sound has to be taken.
Serving(op) == filer_cmd = op /\ ~SoundPending

\* 2: number of files in the directory; none while the card is not there.
NbFiles ==
    /\ Serving(2)
    /\ IF filer_data.at = 0 THEN Ask(1, fpga_data) ELSE Ask(6, file_num)
    /\ UNCHANGED <<loadVars, system_state, romVars, request_for_audio, headerVars, streamVars,
                   sound1_reqId_sync>>

\* 8: size of the selected file.
SoundSize ==
    /\ Serving(8) /\ request_for_audio
    /\ FILE_SIZE' = filer_data.at
    /\ AUDIO_data_size' = 0
    /\ AUDIO_header_flag' = 0 /\ AUDIO_header_count' = 0 /\ AUDIO_data_count' = 0
    /\ Ask(31, 0)
    /\ UNCHANGED <<file_num, ROM_SIZE_OFFSET, rom_addr, system_state, romVars,
                   request_for_audio, AUDIO_header_offset, AUDIO_count, AUDIO_data,
                   AUDIO_wrreq, sound1_reqId_sync>>

\* Mutant of RomSizeReceived: the offset of the first image is not 0.
RomSizeAccumulated ==
    /\ Serving(8) /\ ~request_for_audio
    /\ FILE_SIZE' = filer_data.at
    /\ ROM_SIZE_OFFSET' = ROM_SIZE_OFFSET + FILE_SIZE
    /\ rom_addr' = 0
    /\ Ask(31, 0)
    /\ UNCHANGED <<file_num, system_state, romVars, request_for_audio, headerVars, streamVars,
                   sound1_reqId_sync>>

RomSizeReceived ==
    /\ Serving(8) /\ ~request_for_audio
    /\ FILE_SIZE' = filer_data.at
    /\ ROM_SIZE_OFFSET' = IF file_num = 1 THEN 0 ELSE ROM_SIZE_OFFSET + FILE_SIZE
    /\ rom_addr' = 0
    /\ Ask(31, 0)
    /\ UNCHANGED <<file_num, system_state, romVars, request_for_audio, headerVars, streamVars,
                   sound1_reqId_sync>>

\* 9 in a sound whose header is parsed (5 and 10 carry more bytes; the FPGA, whose
\* AUDIO_BYTES is 1, never asks for them, but the test is the block's).
Streaming == Serving(filer_cmd) /\ (filer_cmd \in {5, 10} \/ sound1_inProgress)

\* A new sound is waiting: the current one ends Fade samples from here.
FadeEarly == sound1_changed /\ AUDIO_data_size - AUDIO_count > Fade

\* Bits 16 and 17 mark the sample at which the volume ramps up, or down.
Marked(w) ==
    [file |-> w.file, at |-> w.at,
     first |-> ~FadeEarly /\ AUDIO_count = 0,
     fade |-> FadeEarly \/ AUDIO_data_size - AUDIO_count = Fade]

NextSample == IF filer_delayed THEN filer_data_delayed ELSE Marked(filer_data)

StreamSample ==
    /\ Streaming /\ ~AUDIO_fifo_full
    /\ AUDIO_data' = NextSample
    /\ AUDIO_wrreq' = TRUE
    /\ AUDIO_data_size' = IF FadeEarly /\ ~filer_delayed
                          THEN AUDIO_count + Fade ELSE AUDIO_data_size
    /\ \/ /\ AUDIO_count < Last(AUDIO_data_size)
          /\ AUDIO_count' = AUDIO_count + 1
          /\ Ask(31, AUDIO_count + 1 + AUDIO_header_offset)
       \/ /\ AUDIO_count >= Last(AUDIO_data_size)
          /\ Ask(4, AUDIO_data_size)
          /\ UNCHANGED AUDIO_count
    /\ filer_delayed' = FALSE
    /\ UNCHANGED <<filer_data_delayed, loadVars, system_state, romVars, request_for_audio,
                   headerVars, sound1_reqId_sync>>

\* Mutant of DelaySample: a refused sample is dropped.
DropSample ==
    /\ Streaming /\ AUDIO_fifo_full
    /\ AUDIO_wrreq' = FALSE
    /\ filer_delayed' = FALSE
    /\ UNCHANGED <<fpga_cmd, fpga_data, filer_data_delayed, loadVars, system_state, romVars,
                   request_for_audio, headerVars, AUDIO_data_size, AUDIO_count, AUDIO_data,
                   sound1_reqId_sync>>

\* The audio queue is full: keep the sample and try again at the next cycle.
DelaySample ==
    /\ Streaming /\ AUDIO_fifo_full
    /\ AUDIO_data' = NextSample
    /\ AUDIO_wrreq' = FALSE
    /\ AUDIO_data_size' = IF FadeEarly THEN AUDIO_count + Fade ELSE AUDIO_data_size
    /\ filer_delayed' = TRUE
    /\ filer_data_delayed' = Marked(filer_data)
    /\ UNCHANGED <<fpga_cmd, fpga_data, loadVars, system_state, romVars, request_for_audio,
                   headerVars, AUDIO_count, sound1_reqId_sync>>

\* 9 in the header of a sound: look for "fmt ", then "data", then take the size.
InHeader == Serving(9) /\ ~sound1_inProgress /\ request_for_audio

EndsWith(p) == filer_data.file \in WavFiles /\ filer_data.at = p

\* The four bytes after "data".  Only a sound's bytes get there.
SizeField == IF filer_data.file \in WavFiles THEN WavSize[filer_data.file] ELSE 0

NextFlag ==
    CASE AUDIO_header_flag = 2 /\ AUDIO_data_count = 3 -> 3
      [] AUDIO_header_flag = 1 /\ EndsWith(DataEnd)    -> 2
      [] AUDIO_header_flag = 0 /\ EndsWith(FmtEnd)     -> 1
      [] OTHER                                         -> AUDIO_header_flag

ParseHeader ==
    /\ InHeader
    /\ AUDIO_data_count' = AUDIO_data_count + (IF AUDIO_header_flag = 2 THEN 1 ELSE 0)
    /\ AUDIO_header_flag' = NextFlag
    /\ \/ /\ NextFlag = 3
          /\ AUDIO_data_size' = SizeField
          /\ AUDIO_header_offset' = AUDIO_header_count + 1
          /\ AUDIO_count' = 0
          /\ Ask(31, AUDIO_header_count + 1)
          /\ UNCHANGED AUDIO_header_count
       \/ /\ NextFlag # 3
          /\ NextFlag # AUDIO_header_flag \/ AUDIO_header_count < Last(FILE_SIZE)
          /\ AUDIO_header_count' = AUDIO_header_count + 1
          /\ Ask(31, AUDIO_header_count + 1)
          /\ UNCHANGED <<AUDIO_data_size, AUDIO_header_offset, AUDIO_count>>
       \/ /\ NextFlag = AUDIO_header_flag /\ AUDIO_header_count >= Last(FILE_SIZE)
          /\ Ask(4, AUDIO_header_flag)
          /\ UNCHANGED <<AUDIO_header_count, AUDIO_data_size, AUDIO_header_offset, AUDIO_count>>
    /\ UNCHANGED <<loadVars, system_state, romVars, request_for_audio, AUDIO_data, AUDIO_wrreq,
                   sound1_reqId_sync>>

\* Mutant of RomByte: the last image is not written.
RomByteOfThree ==
    /\ Serving(9) /\ ~sound1_inProgress /\ ~request_for_audio
    /\ cpu_rom_save1' = (file_num <= 3)
    /\ cpu_rom_wdata1' = filer_data
    /\ cpu_rom_waddr1' = (ROM_SIZE_OFFSET + rom_addr) % RomSpan
    /\ \/ /\ rom_addr = Last(FILE_SIZE)
          /\ Ask(4, fpga_data)
          /\ UNCHANGED rom_addr
       \/ /\ rom_addr # Last(FILE_SIZE)
          /\ rom_addr' = (rom_addr + 1) % AddrSpan
          /\ Ask(31, rom_addr + 1)
    /\ UNCHANGED <<file_num, FILE_SIZE, ROM_SIZE_OFFSET, system_state, request_for_audio,
                   headerVars, streamVars, sound1_reqId_sync>>

\* 9 otherwise: a byte of a program image.
RomByte ==
    /\ Serving(9) /\ ~sound1_inProgress /\ ~request_for_audio
    /\ cpu_rom_save1' = (file_num <= 4)
    /\ cpu_rom_wdata1' = filer_data
    /\ cpu_rom_waddr1' = (ROM_SIZE_OFFSET + rom_addr) % RomSpan
    /\ \/ /\ rom_addr = Last(FILE_SIZE)
          /\ Ask(4, fpga_data)
          /\ UNCHANGED rom_addr
       \/ /\ rom_addr # Last(FILE_SIZE)
          /\ rom_addr' = (rom_addr + 1) % AddrSpan
          /\ Ask(31, rom_addr + 1)
    /\ UNCHANGED <<file_num, FILE_SIZE, ROM_SIZE_OFFSET, system_state, request_for_audio,
                   headerVars, streamVars, sound1_reqId_sync>>

\* Mutant of SoundClosed: every sound repeats.
SoundRepeated ==
    /\ Serving(6) /\ request_for_audio
    /\ AUDIO_count' = 0
    /\ Ask(31, AUDIO_header_offset)
    /\ UNCHANGED <<loadVars, system_state, romVars, request_for_audio, headerVars,
                   AUDIO_data_size, AUDIO_data, AUDIO_wrreq, sound1_reqId_sync>>

\* 6: the file is closed.
SoundClosed ==
    /\ Serving(6) /\ request_for_audio
    /\ \/ /\ sound1_loop
          /\ AUDIO_count' = 0
          /\ Ask(31, AUDIO_header_offset)
          /\ UNCHANGED <<request_for_audio, AUDIO_wrreq>>
       \/ /\ ~sound1_loop
          /\ request_for_audio' = FALSE
          /\ AUDIO_wrreq' = FALSE
          /\ Ask(5, fpga_data)
          /\ UNCHANGED AUDIO_count
    /\ UNCHANGED <<loadVars, system_state, romVars, headerVars, AUDIO_data_size, AUDIO_data,
                   sound1_reqId_sync>>

\* Mutants of RomClosed: a fifth file is asked for; the end of a file is never recognised.
FifthFileAsked ==
    /\ Serving(6) /\ ~request_for_audio
    /\ cpu_rom_save1' = FALSE
    /\ IF file_num <= 4 THEN Ask(6, file_num + 1) ELSE Ask(5, fpga_data)
    /\ file_num' = IF file_num <= 4 /\ FILE_SIZE # 0 /\ rom_addr = Last(FILE_SIZE)
                   THEN file_num + 1 ELSE file_num
    /\ UNCHANGED <<FILE_SIZE, ROM_SIZE_OFFSET, rom_addr, system_state, cpu_rom_wdata1,
                   cpu_rom_waddr1, request_for_audio, headerVars, streamVars,
                   sound1_reqId_sync>>

EndNeverSeen ==
    /\ Serving(6) /\ ~request_for_audio
    /\ cpu_rom_save1' = FALSE
    /\ IF file_num <= 3 THEN Ask(6, file_num + 1) ELSE Ask(5, fpga_data)
    /\ file_num' = IF file_num <= 4 /\ rom_addr = FILE_SIZE THEN file_num + 1 ELSE file_num
    /\ UNCHANGED <<FILE_SIZE, ROM_SIZE_OFFSET, rom_addr, system_state, cpu_rom_wdata1,
                   cpu_rom_waddr1, request_for_audio, headerVars, streamVars,
                   sound1_reqId_sync>>

RomClosed ==
    /\ Serving(6) /\ ~request_for_audio
    /\ cpu_rom_save1' = FALSE
    /\ IF file_num <= 3 THEN Ask(6, file_num + 1) ELSE Ask(5, fpga_data)
    /\ file_num' = IF file_num <= 4 /\ FILE_SIZE # 0 /\ rom_addr = Last(FILE_SIZE)
                   THEN file_num + 1 ELSE file_num
    /\ UNCHANGED <<FILE_SIZE, ROM_SIZE_OFFSET, rom_addr, system_state, cpu_rom_wdata1,
                   cpu_rom_waddr1, request_for_audio, headerVars, streamVars,
                   sound1_reqId_sync>>

\* 7: the HPS has nothing to do; the game starts once the four images are in.
HpsWaiting ==
    /\ Serving(7)
    /\ IF file_num > 4 THEN Ask(5, fpga_data) ELSE Ask(1, fpga_data)
    /\ system_state' = IF file_num > 4 THEN 3 ELSE 2
    /\ UNCHANGED <<loadVars, romVars, request_for_audio, headerVars, streamVars,
                   sound1_reqId_sync>>

Ignored ==
    /\ \A op \in {2, 6, 7, 8, 9} : ~Serving(op)
    /\ filer_cmd # 1 /\ ~SoundPending /\ ~Streaming
    /\ UNCHANGED <<fpga_cmd, fpga_data, loadVars, system_state, romVars, request_for_audio,
                   headerVars, streamVars, sound1_reqId_sync>>

----------------------------------------------------------------------------
(* The cycles of clockCPU. *)

\* While the queue is not empty a word is taken at every cycle and none is served.
TakeWord ==
    /\ fifo0 # <<>>
    /\ fifo0' = Tail(fifo0)
    /\ filer_data' = Head(fifo0)
    /\ filer_data_ready' = TRUE
    /\ StoreSample /\ StoreRom
    /\ UNCHANGED <<filer_cmd, fpga_cmd, fpga_data, filer_delayed, filer_data_delayed,
                   system_state, loadVars, romVars, request_for_audio, headerVars, streamVars,
                   sound1_reqId_sync>>

OtherBranch ==
    \/ SdReady \/ Interrupt \/ TakeSound \/ NbFiles \/ SoundSize \/ RomSizeReceived
    \/ ParseHeader \/ RomByte \/ SoundClosed \/ RomClosed \/ HpsWaiting \/ Ignored

ServeWord ==
    /\ fifo0 = <<>>
    /\ filer_data_ready \/ filer_delayed
    /\ filer_data_ready' = FALSE
    /\ \/ StreamSample
       \/ DelaySample
       \/ OtherBranch /\ filer_delayed' = FALSE /\ UNCHANGED filer_data_delayed
    /\ StoreSample /\ StoreRom
    /\ UNCHANGED <<filer_cmd, fifo0, filer_data>>

IdleCycle ==
    /\ fifo0 = <<>> /\ ~filer_data_ready /\ ~filer_delayed
    /\ StoreSample /\ StoreRom
    /\ UNCHANGED <<bridgeVars, wordVars, system_state, loadVars, romVars, request_for_audio,
                   headerVars, streamVars, sound1_reqId_sync>>

Filer1Cycle == TakeWord \/ ServeWord \/ IdleCycle

\* The audio interface takes one sample per period of rdclkAudio.
PlaySample ==
    /\ request_for_audio /\ samples # <<>>
    /\ samples' = Tail(samples)

=============================================================================
