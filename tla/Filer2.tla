------------------------------- MODULE Filer2 --------------------------------
(***************************************************************************)
(* The FPGA's end of the second channel (SPACE_INVADERS.v, 1153-1334): it   *)
(* takes the requests of port 5, has the HPS open the file, looks for the   *)
(* sound in it, and feeds the samples to fifo_audio2.  One step is one      *)
(* cycle of clockCPU, in which a word is served while the next is taken     *)
(* from the queue.                                                          *)
(*                                                                          *)
(* Left out, as in Filer1: sounds of two channels, the LED; "fmt " and      *)
(* "data" are recognised by their position.                                 *)
(***************************************************************************)
EXTENDS HpsFiler2, Sound2Request

CONSTANTS
    Audio2Depth,  \* samples fifo_audio2 holds (8)
    Max2Size      \* the largest file size, 2^24 - 1

ASSUME Filer2Assumption ==
    /\ Audio2Depth \in Nat \ {0}
    /\ Max2Size \in Nat
    /\ {Wav2Of[b] : b \in Sound2Bits} \subseteq WavFiles

VARIABLES
    filer2_data, filer2_data_ready, filer2_read,   \* the queue's read port
    filer2_delayed, filer2_data_delayed,           \* a sample fifo_audio2 refused
    sound2_inProgress, FILE2_size,
    AUDIO2_header_flag, AUDIO2_header_count, AUDIO2_header_offset, AUDIO2_data_count,
    AUDIO2_data_size, AUDIO2_count, AUDIO2_data, AUDIO2_wrreq,
    samples2,                                      \* fifo_audio2
    player        \* history: what the block has read, see Player in Channel2

word2Vars == <<filer2_data, filer2_data_ready, filer2_read>>
header2Vars == <<FILE2_size, AUDIO2_header_flag, AUDIO2_header_count, AUDIO2_header_offset,
                 AUDIO2_data_count>>
stream2Vars == <<AUDIO2_data_size, AUDIO2_count, AUDIO2_data, AUDIO2_wrreq>>
delay2Vars == <<filer2_delayed, filer2_data_delayed>>
filer2Vars == <<word2Vars, header2Vars, stream2Vars, delay2Vars, sound2_inProgress,
                samples2, sound2_reqId_sync, player>>

NoWord == OpWord(0, 0)

Filer2Init ==
    /\ filer2_data = NoWord /\ filer2_data_ready = FALSE /\ filer2_read = FALSE
    /\ filer2_delayed = FALSE /\ filer2_data_delayed = NoWord
    /\ sound2_inProgress = FALSE /\ FILE2_size = 0
    /\ AUDIO2_header_flag = 0 /\ AUDIO2_header_count = 0 /\ AUDIO2_header_offset = 0
    /\ AUDIO2_data_count = 0
    /\ AUDIO2_data_size = 0 /\ AUDIO2_count = 0
    /\ AUDIO2_data = NoWord /\ AUDIO2_wrreq = FALSE
    /\ samples2 = <<>>
    /\ player = [sound |-> 0, next |-> 0, hand |-> NoWord, breaks |-> 0, on |-> FALSE]

Filer2Type ==
    /\ filer2_data \in Word2 /\ filer2_data_ready \in BOOLEAN /\ filer2_read \in BOOLEAN
    /\ filer2_delayed \in BOOLEAN /\ filer2_data_delayed \in Word2
    /\ sound2_inProgress \in BOOLEAN /\ FILE2_size \in Nat
    /\ AUDIO2_header_flag \in 0..3 /\ AUDIO2_header_count \in Nat
    /\ AUDIO2_header_offset \in Nat /\ AUDIO2_data_count \in Nat
    /\ AUDIO2_data_size \in Nat /\ AUDIO2_count \in Nat
    /\ AUDIO2_data \in Word2 /\ AUDIO2_wrreq \in BOOLEAN
    /\ samples2 \in Seq(Word2) /\ Len(samples2) <= Audio2Depth

----------------------------------------------------------------------------
(* What every cycle does beside the word in hand. *)

AUDIO2_fifo_full == Len(samples2) = Audio2Depth

\* Mutant of StoreSample2: the queue does not refuse.
StoreAnySample2 == samples2' = IF AUDIO2_wrreq THEN Append(samples2, AUDIO2_data) ELSE samples2

\* fifo_audio2 refuses a write when it is full; otherwise a raised AUDIO2_wrreq stores
\* AUDIO2_data at every edge.
StoreSample2 ==
    samples2' = IF AUDIO2_wrreq /\ ~AUDIO2_fifo_full
                THEN Append(samples2, AUDIO2_data) ELSE samples2

\* filer2_read stays up once it was raised, so that a word is taken at every edge at which
\* the queue holds one, and is served at the next.
TakeWord2 ==
    /\ filer2_data_ready' = (fifo2 # <<>>)
    /\ filer2_read' = (filer2_read \/ fifo2 # <<>>)
    /\ \/ /\ filer2_read /\ fifo2 # <<>>
          /\ filer2_data' = Head(fifo2)
          /\ fifo2' = Tail(fifo2)
       \/ /\ ~(filer2_read /\ fifo2 # <<>>)
          /\ UNCHANGED <<filer2_data, fifo2>>

----------------------------------------------------------------------------
(* The word in hand, by its operation. *)

Ask2(cmd, arg) == fpga2_req' = [cmd |-> cmd, arg |-> arg]
Serving2(op) == filer2_data.op = op /\ filer2_delayed' = FALSE /\ UNCHANGED filer2_data_delayed

\* The last position in unsigned arithmetic.
Last2(size) == IF size = 0 THEN Max2Size ELSE size - 1

\* 1: the thread has started.
Filer2Ready ==
    /\ Serving2(1)
    /\ Ask2(5, 0)
    /\ player' = [player EXCEPT !.sound = 0, !.breaks = @ + 1, !.on = TRUE]
    /\ UNCHANGED <<header2Vars, stream2Vars, sound2_inProgress, sound2_reqId_sync>>

\* 8: the size of the file.
Size2Received ==
    /\ Serving2(8)
    /\ FILE2_size' = filer2_data.at
    /\ AUDIO2_data_size' = 0
    /\ AUDIO2_header_flag' = 0 /\ AUDIO2_header_count' = 0 /\ AUDIO2_data_count' = 0
    /\ Ask2(31, 0)
    /\ UNCHANGED <<AUDIO2_header_offset, AUDIO2_count, AUDIO2_data, AUDIO2_wrreq,
                   sound2_inProgress, sound2_reqId_sync, player>>

\* 6: the file is closed.
Closed2 ==
    /\ Serving2(6)
    /\ sound2_inProgress' = FALSE
    /\ AUDIO2_wrreq' = FALSE
    /\ Ask2(5, fpga2_req.arg)
    /\ player' = [player EXCEPT !.sound = 0]
    /\ UNCHANGED <<header2Vars, AUDIO2_data_size, AUDIO2_count, AUDIO2_data,
                   sound2_reqId_sync>>

\* 9 once the header is parsed.
Streaming2 == filer2_data.op = 9 /\ AUDIO2_header_flag = 3

NextSample2 == IF filer2_delayed THEN filer2_data_delayed ELSE filer2_data

\* Mutant of StreamSample2: it stops one sample early.
StreamSampleShort2 ==
    /\ Streaming2 /\ ~AUDIO2_fifo_full
    /\ AUDIO2_data' = NextSample2
    /\ AUDIO2_wrreq' = TRUE
    /\ \/ /\ AUDIO2_count + 1 < Last2(AUDIO2_data_size)
          /\ AUDIO2_count' = AUDIO2_count + 1
          /\ Ask2(31, AUDIO2_count + 1 + AUDIO2_header_offset)
       \/ /\ AUDIO2_count + 1 >= Last2(AUDIO2_data_size)
          /\ Ask2(4, AUDIO2_data_size)
          /\ UNCHANGED AUDIO2_count
    /\ filer2_delayed' = FALSE
    /\ player' = [player EXCEPT !.hand = NextSample2, !.next = @ + 1]
    /\ UNCHANGED <<filer2_data_delayed, header2Vars, AUDIO2_data_size, sound2_inProgress,
                   sound2_reqId_sync>>

StreamSample2 ==
    /\ Streaming2 /\ ~AUDIO2_fifo_full
    /\ AUDIO2_data' = NextSample2
    /\ AUDIO2_wrreq' = TRUE
    /\ \/ /\ AUDIO2_count < Last2(AUDIO2_data_size)
          /\ AUDIO2_count' = AUDIO2_count + 1
          /\ Ask2(31, AUDIO2_count + 1 + AUDIO2_header_offset)
       \/ /\ AUDIO2_count >= Last2(AUDIO2_data_size)
          /\ Ask2(4, AUDIO2_data_size)
          /\ UNCHANGED AUDIO2_count
    /\ filer2_delayed' = FALSE
    /\ player' = [player EXCEPT !.hand = NextSample2, !.next = @ + 1]
    /\ UNCHANGED <<filer2_data_delayed, header2Vars, AUDIO2_data_size, sound2_inProgress,
                   sound2_reqId_sync>>

\* Mutant of DelaySample2: a refused sample is dropped.
DropSample2 ==
    /\ Streaming2 /\ AUDIO2_fifo_full
    /\ AUDIO2_data' = NextSample2
    /\ AUDIO2_wrreq' = FALSE
    /\ filer2_delayed' = FALSE
    /\ filer2_data_delayed' = filer2_data
    /\ UNCHANGED <<fpga2_req, header2Vars, AUDIO2_data_size, AUDIO2_count, sound2_inProgress,
                   sound2_reqId_sync, player>>

\* The audio queue is full: keep the sample and try again at the next cycle.
DelaySample2 ==
    /\ Streaming2 /\ AUDIO2_fifo_full
    /\ AUDIO2_data' = NextSample2
    /\ AUDIO2_wrreq' = FALSE
    /\ filer2_delayed' = TRUE
    /\ filer2_data_delayed' = filer2_data
    /\ UNCHANGED <<fpga2_req, header2Vars, AUDIO2_data_size, AUDIO2_count, sound2_inProgress,
                   sound2_reqId_sync, player>>

EndsWith2(p) == filer2_data.file \in WavFiles /\ filer2_data.at = p

\* The four bytes after "data".
SizeField2 == IF filer2_data.file \in WavFiles THEN WavSize[filer2_data.file] ELSE 0

NextFlag2 ==
    CASE AUDIO2_header_flag = 2 /\ AUDIO2_data_count = 3 -> 3
      [] AUDIO2_header_flag = 1 /\ EndsWith2(DataEnd)    -> 2
      [] AUDIO2_header_flag = 0 /\ EndsWith2(FmtEnd)     -> 1
      [] OTHER                                           -> AUDIO2_header_flag

\* 9 in the header: look for "fmt ", then "data", then take the size.
ParseHeader2 ==
    /\ Serving2(9) /\ AUDIO2_header_flag # 3
    /\ AUDIO2_data_count' = AUDIO2_data_count + (IF AUDIO2_header_flag = 2 THEN 1 ELSE 0)
    /\ AUDIO2_header_flag' = NextFlag2
    /\ \/ /\ NextFlag2 = 3
          /\ AUDIO2_data_size' = SizeField2
          /\ AUDIO2_header_offset' = AUDIO2_header_count + 1
          /\ AUDIO2_count' = 0
          /\ Ask2(31, AUDIO2_header_count + 1)
          /\ UNCHANGED AUDIO2_header_count
       \/ /\ NextFlag2 # 3
          /\ NextFlag2 # AUDIO2_header_flag \/ AUDIO2_header_count < Last2(FILE2_size)
          /\ AUDIO2_header_count' = AUDIO2_header_count + 1
          /\ Ask2(31, AUDIO2_header_count + 1)
          /\ UNCHANGED <<AUDIO2_data_size, AUDIO2_header_offset, AUDIO2_count>>
       \/ /\ NextFlag2 = AUDIO2_header_flag /\ AUDIO2_header_count >= Last2(FILE2_size)
          /\ Ask2(4, AUDIO2_header_flag)
          /\ UNCHANGED <<AUDIO2_header_count, AUDIO2_data_size, AUDIO2_header_offset,
                         AUDIO2_count>>
    /\ UNCHANGED <<FILE2_size, AUDIO2_data, AUDIO2_wrreq, sound2_inProgress,
                   sound2_reqId_sync, player>>

\* Any other operation (7, and 0 before the first word): the HPS has nothing to do.
Waiting2 == filer2_data.op \notin {1, 6, 8, 9} /\ Serving2(filer2_data.op)

TakeSound2(ready) ==
    /\ Waiting2 /\ ready /\ sound2_changed
    /\ sound2_inProgress' = TRUE
    /\ sound2_reqId_sync' = sound2_reqId
    /\ Ask2(6, sound2_wav)
    /\ player' = [player EXCEPT !.sound = sound2_wav, !.next = 0]
    /\ UNCHANGED <<header2Vars, stream2Vars>>

NoSound2(ready) ==
    /\ Waiting2
    /\ \/ ready /\ ~sound2_changed /\ Ask2(5, sound2_reqId_sync)
       \/ ~ready /\ Ask2(5, 0)
    /\ UNCHANGED <<header2Vars, stream2Vars, sound2_inProgress, sound2_reqId_sync, player>>

----------------------------------------------------------------------------
(* The cycles of clockCPU.  ready: system_state is 3. *)

ServeWord2(ready) ==
    /\ filer2_data_ready \/ filer2_delayed
    /\ \/ Filer2Ready \/ Size2Received \/ Closed2 \/ StreamSample2 \/ DelaySample2
       \/ ParseHeader2 \/ TakeSound2(ready) \/ NoSound2(ready)

IdleCycle2 ==
    /\ ~filer2_data_ready /\ ~filer2_delayed
    /\ UNCHANGED <<fpga2_req, header2Vars, stream2Vars, delay2Vars, sound2_inProgress,
                   sound2_reqId_sync, player>>

Filer2Cycle(ready) ==
    /\ ServeWord2(ready) \/ IdleCycle2
    /\ TakeWord2 /\ StoreSample2

\* The audio interface takes one sample per period of rdclkAudio, while a sound plays.
PlaySample2 ==
    /\ sound2_inProgress /\ samples2 # <<>>
    /\ samples2' = Tail(samples2)

=============================================================================
