------------------------------- MODULE AudioIf -------------------------------
(***************************************************************************)
(* The audio interface (AUDIO_IF.v): it reads one sample of channel 1 for   *)
(* each period of lrclk, shifts it out bit by bit on the left, the sample   *)
(* of channel 2 on the right, and lets the volume rise and fall where the   *)
(* player has marked the samples.  One step is a falling edge of sclk.      *)
(*                                                                          *)
(* The player (Filer1) is reduced to what decides which samples the queue   *)
(* gets, and with which marks: the write enable that stays up, the copies   *)
(* it makes, the sample that waits for room, and the one that is lost when  *)
(* a copy takes the last place.  A sample is its place in the sound,        *)
(* counted from both ends, and its marks; a bit on the line is where it     *)
(* comes from.                                                              *)
(*                                                                          *)
(* Left out: the board's reset, and the byte beyond the end of a sound that *)
(* the HPS may send (RightSound in Channel1), which is marked as the last   *)
(* sample and so is one more copy of it.                                    *)
(***************************************************************************)
EXTENDS Integers, Sequences

CONSTANTS
    DataWidth,    \* DATA_WIDTH: bits shifted out for each channel (16)
    FullVolume,   \* the highest volume (255)
    FadeOut,      \* samples before its end a sound is marked to fade (255)
    QueueSize,    \* samples fifo_audio1 holds (8)
    Lengths       \* samples a sound may have

ASSUME AudioAssumption ==
    /\ DataWidth \in Nat \ {0, 1} /\ FullVolume \in Nat \ {0} /\ QueueSize \in Nat \ {0}
    /\ FadeOut \in Nat \ {0} /\ Lengths \subseteq Nat \ {0}

\* No sound is shorter than a ramp, and no fade shorter than the way from the highest volume to 0.
ASSUME SoundsFade == FadeOut >= FullVolume /\ \A n \in Lengths : n >= FadeOut

VARIABLES
    size, count, request_for_audio,                  \* the player
    AUDIO_data, AUDIO_wrreq, filer_delayed,
    stored,       \* history: the sample in AUDIO_data was stored
    broken,       \* history: the sound broke off since the last sample was taken
    queue, audio_sample,                             \* fifo_audio1 and its read port
    sound2_on, audio2_sample,                        \* channel 2
    lrclk, sclk_Count, Data_Count, volume, volume_incdec,
    left, right,  \* history: the bits, one or none at a time, of the word being sent on each channel
    heard         \* history: a sample was sent since the start

soundVars == <<size, count, request_for_audio>>
handVars == <<AUDIO_data, AUDIO_wrreq, filer_delayed, stored, broken>>
playerVars == <<soundVars, handVars>>
clockVars == <<lrclk, sclk_Count, Data_Count>>
volumeVars == <<volume, volume_incdec>>
lineVars == <<left, right, heard>>
serialVars == <<audio_sample, audio2_sample, clockVars, volumeVars, lineVars>>
audioVars == <<playerVars, queue, sound2_on, serialVars>>

\* torn (history): samples before it, back to the last mark in the queue, were lost.
Sample == [at : Nat, rest : Nat, first : BOOLEAN, fade : BOOLEAN, torn : BOOLEAN]
NoneYet == [at |-> 0, rest |-> 0, first |-> FALSE, fade |-> FALSE, torn |-> FALSE]
HasMark(s) == s.first \/ s.fade

\* After the PLL has locked.
AudioInit ==
    /\ size = 0 /\ count = 0 /\ request_for_audio = FALSE
    /\ AUDIO_data = NoneYet /\ AUDIO_wrreq = FALSE /\ filer_delayed = FALSE
    /\ stored = TRUE /\ broken = FALSE
    /\ queue = <<>> /\ audio_sample = NoneYet
    /\ sound2_on = FALSE /\ audio2_sample = 0
    /\ lrclk = 0 /\ sclk_Count = 0 /\ Data_Count = 0
    /\ volume = FullVolume /\ volume_incdec = 1
    /\ left = <<>> /\ right = <<>> /\ heard = FALSE

AudioType ==
    /\ size \in Nat /\ count \in 0..size /\ request_for_audio \in BOOLEAN
    /\ AUDIO_data \in Sample
    /\ {AUDIO_wrreq, filer_delayed, stored, broken} \subseteq BOOLEAN
    /\ queue \in Seq(Sample) /\ Len(queue) <= QueueSize /\ audio_sample \in Sample
    /\ sound2_on \in BOOLEAN /\ audio2_sample \in {0, 1}
    /\ lrclk \in {0, 1} /\ sclk_Count \in 0..(DataWidth - 1)
    /\ Data_Count = sclk_Count
    /\ volume \in 0..FullVolume /\ volume_incdec \in {0, 1}
    /\ Len(left) <= DataWidth /\ Len(right) <= DataWidth

----------------------------------------------------------------------------
(* The player.  Each step is a cycle of clockCPU. *)

AUDIO_fifo_full == Len(queue) = QueueSize

\* At every edge a raised AUDIO_wrreq stores AUDIO_data, unless the queue is full.
Storing == AUDIO_wrreq /\ ~AUDIO_fifo_full
Stored == stored \/ Storing
StoreSample == queue' = IF Storing THEN Append(queue, AUDIO_data) ELSE queue

\* All samples of a sound are taken: the next sound is, and its header is read.
TakeSound ==
    /\ count = size
    /\ request_for_audio' = TRUE
    /\ size' = 0 /\ count' = 0 /\ stored' = Stored
    /\ UNCHANGED <<AUDIO_data, AUDIO_wrreq, filer_delayed, broken>>

\* The header is at its end; the samples come.
HeaderRead ==
    /\ request_for_audio /\ size = 0
    /\ size' \in Lengths /\ count' = 0 /\ stored' = Stored
    /\ UNCHANGED <<request_for_audio, AUDIO_data, AUDIO_wrreq, filer_delayed, broken>>

\* A sound whose bit is still up begins anew, as long as it was cut to.
RepeatSound ==
    /\ request_for_audio /\ count = size /\ size > 0
    /\ count' = 0 /\ stored' = Stored
    /\ UNCHANGED <<size, request_for_audio, AUDIO_data, AUDIO_wrreq, filer_delayed, broken>>

\* Something was lost between the last mark that was stored and the next sample.
Torn ==
    IF filer_delayed THEN AUDIO_data.torn
    ELSE broken \/ ~Stored \/ (AUDIO_data.torn /\ ~HasMark(AUDIO_data))

\* Mutant of Mark: a sound that is interrupted is cut, not marked.
MarkNatural(end) ==
    [at |-> count, rest |-> end - count,
     first |-> count = 0,
     fade |-> end = size /\ size - count = FadeOut,
     torn |-> Torn]

\* The next sample of a sound that ends at "end": bit 16 at its first, unless the fade of a sound
\* cut short begins there, and bit 17 where the fade begins.
Mark(end) ==
    [at |-> count, rest |-> end - count,
     first |-> end = size /\ count = 0,
     fade |-> end - count = FadeOut,
     torn |-> Torn]

\* If another sound is wanted, and the rest of this one is longer than a fade, it ends after a
\* fade that begins with this sample.
Ends == {size} \cup (IF size - count > FadeOut THEN {count + FadeOut} ELSE {})

MarkNext == \E end \in Ends : AUDIO_data' = Mark(end) /\ size' = end

\* A sample comes while the queue has room.  It is stored at the next edge, if there is room
\* then: a copy of the sample before may take the last place now.
AcceptSample ==
    /\ request_for_audio /\ count < size /\ ~AUDIO_fifo_full
    /\ \/ filer_delayed /\ UNCHANGED <<AUDIO_data, size>>
       \/ ~filer_delayed /\ MarkNext
    /\ AUDIO_wrreq' = TRUE /\ filer_delayed' = FALSE
    /\ count' = count + 1
    /\ stored' = FALSE /\ broken' = FALSE
    /\ UNCHANGED request_for_audio

\* The queue is full: the sample waits, and takes the place of the one before it, stored or not.
DelaySample ==
    /\ request_for_audio /\ count < size /\ AUDIO_fifo_full
    /\ MarkNext
    /\ AUDIO_wrreq' = FALSE /\ filer_delayed' = TRUE
    /\ stored' = FALSE /\ broken' = FALSE
    /\ UNCHANGED <<count, request_for_audio>>

\* A cycle without a sample to serve.
IdleCycle ==
    /\ Storing /\ ~filer_delayed
    /\ stored' = TRUE
    /\ UNCHANGED <<soundVars, AUDIO_data, AUDIO_wrreq, filer_delayed, broken>>

\* The file is closed; what is in the queue stays there until the next sound.
EndSound ==
    /\ request_for_audio /\ count = size
    /\ request_for_audio' = FALSE /\ AUDIO_wrreq' = FALSE /\ stored' = Stored
    /\ UNCHANGED <<size, count, AUDIO_data, filer_delayed, broken>>

\* The HPS program is started anew: AUDIO_header_flag falls, and no sample of the sound is taken
\* any more, the one that waits included.
BreakOff ==
    /\ request_for_audio /\ count < size
    /\ size' = 0 /\ count' = 0 /\ filer_delayed' = FALSE
    /\ stored' = Stored /\ broken' = TRUE
    /\ UNCHANGED <<request_for_audio, AUDIO_data, AUDIO_wrreq>>

PlayerCycle ==
    /\ \/ TakeSound \/ HeaderRead \/ RepeatSound \/ AcceptSample \/ DelaySample \/ IdleCycle
       \/ EndSound \/ BreakOff
    /\ StoreSample
    /\ UNCHANGED <<sound2_on, serialVars>>

\* The first sound of port 5 raises sound2_on, and nothing clears it.
BeginSound2 ==
    /\ sound2_on' = TRUE
    /\ UNCHANGED <<playerVars, queue, serialVars>>

Player == PlayerCycle \/ BeginSound2

----------------------------------------------------------------------------
(* A falling edge of sclk. *)

LastBit == sclk_Count >= DataWidth - 1

\* Mutant of Count: one bit more on one side of the comparison.
CountOneMore ==
    /\ sclk_Count' = IF sclk_Count > DataWidth - 1 THEN 0 ELSE sclk_Count + 1
    /\ Data_Count' = IF Data_Count >= DataWidth - 1 THEN 0 ELSE Data_Count + 1
    /\ lrclk' = IF sclk_Count > DataWidth - 1 THEN 1 - lrclk ELSE lrclk

\* Both counters, each by itself, and the channel.
Count ==
    /\ sclk_Count' = IF LastBit THEN 0 ELSE sclk_Count + 1
    /\ Data_Count' = IF Data_Count >= DataWidth - 1 THEN 0 ELSE Data_Count + 1
    /\ lrclk' = IF LastBit THEN 1 - lrclk ELSE lrclk

\* Between the marks the volume goes on to its highest, or to 0, and stays there.
Ramp ==
    /\ volume' = IF volume_incdec = 1
                 THEN (IF volume < FullVolume THEN volume + 1 ELSE volume)
                 ELSE (IF volume > 0 THEN volume - 1 ELSE volume)
    /\ UNCHANGED volume_incdec

\* Mutant of Fade: the volume moves while lrclk is low, not when it falls.
FadeWhileLow ==
    \/ lrclk = 1 /\ UNCHANGED volumeVars
    \/ /\ lrclk = 0
       /\ \/ audio_sample.fade /\ volume' = FullVolume /\ volume_incdec' = 0
          \/ ~audio_sample.fade /\ audio_sample.first /\ volume' = 0 /\ volume_incdec' = 1
          \/ ~audio_sample.fade /\ ~audio_sample.first /\ Ramp

\* Once a period, when the left word is about to begin: bit 17 lets the volume fall from its
\* highest, bit 16 lets it rise from 0.
Fade ==
    \/ ~(LastBit /\ lrclk = 1) /\ UNCHANGED volumeVars
    \/ /\ LastBit /\ lrclk = 1
       /\ \/ audio_sample.fade /\ volume' = FullVolume /\ volume_incdec' = 0
          \/ ~audio_sample.fade /\ audio_sample.first /\ volume' = 0 /\ volume_incdec' = 1
          \/ ~audio_sample.fade /\ ~audio_sample.first /\ Ramp

\* Mutant of ReadSample: the queue is read at both edges of lrclk.
ReadTwice ==
    IF LastBit
    THEN /\ audio2_sample' \in {0, 1}
         /\ IF request_for_audio /\ queue # <<>>
            THEN audio_sample' = Head(queue) /\ queue' = Tail(queue)
            ELSE UNCHANGED <<audio_sample, queue>>
    ELSE UNCHANGED <<audio_sample, audio2_sample, queue>>

\* readclk is lrclk: when it rises the queues put their next sample on their ports.
ReadSample ==
    IF LastBit /\ lrclk = 0
    THEN /\ audio2_sample' \in {0, 1}
         /\ IF request_for_audio /\ queue # <<>>
            THEN audio_sample' = Head(queue) /\ queue' = Tail(queue)
            ELSE UNCHANGED <<audio_sample, queue>>
    ELSE UNCHANGED <<audio_sample, audio2_sample, queue>>

\* The word a bit is taken from, as it is before the edge, and the bit: the highest first.
\* (The index ~Data_Count is wider than the word; synthesis takes its low bits.)
Data_Bit == [sample |-> audio_sample, volume |-> volume, bit |-> DataWidth - 1 - Data_Count]
Data_Bit2 == [sample |-> audio2_sample, bit |-> DataWidth - 1 - Data_Count]

\* The word so far, with one bit more; or with none, but time for one, while both sounds are off
\* and the line keeps the bit it has.
Shifted(word, bit) ==
    (IF Data_Count = 0 THEN <<>> ELSE word)
        \o <<IF request_for_audio \/ sound2_on THEN {bit} ELSE {}>>

ShiftOut ==
    /\ left' = IF lrclk = 0 THEN Shifted(left, Data_Bit) ELSE <<>>
    /\ right' = IF lrclk = 1 THEN Shifted(right, Data_Bit2) ELSE <<>>
    /\ heard' = (heard \/ (lrclk = 0 /\ request_for_audio /\ audio_sample # NoneYet))

SerialEdge ==
    /\ Count /\ Fade /\ ReadSample /\ ShiftOut
    /\ UNCHANGED <<playerVars, sound2_on>>

AudioNext == Player \/ SerialEdge

AudioSpec == AudioInit /\ [][AudioNext]_audioVars

----------------------------------------------------------------------------

\* A word on the line is of one sample, and on the left of one volume, its bits in falling
\* order, although the sample and the volume change while the clocks go on and the sounds
\* are switched on and off in the middle of a word.
WholeWords ==
    /\ \A i, j \in DOMAIN left : \A b \in left[i], c \in left[j] :
          b.sample = c.sample /\ b.volume = c.volume /\ (i < j => b.bit > c.bit)
    /\ \A i, j \in DOMAIN right : \A b \in right[i], c \in right[j] :
          b.sample = c.sample /\ (i < j => b.bit > c.bit)

\* A sample is replaced in the read port only when the last bit of its word goes out, all others
\* before it having been its own, but for those at whose time both sounds were off.
SampleSent ==
    [][audio_sample' # audio_sample =>
          /\ Len(left) = DataWidth - 1
          /\ \A i \in DOMAIN left : \A b \in left[i] : b.sample = audio_sample]_audioVars

\* "Les bits 16 et 17 est utilise pour le smoothing" (SPACE_INVADERS.v:819): the volume moves
\* by one step at most, where sounds end, begin, repeat, are interrupted or break off, and where
\* the queue runs empty, with two exceptions.  At a mark it may jump if a sample was lost since
\* the mark before, by a copy that took its place in the queue or with the end of the program.
\* And it may jump up where a fade begins while the volume still rises: that of a sound cut short,
\* or of one shorter than both its ramps.
VolumeSmooth ==
    [][heard =>
          \/ audio_sample.torn /\ HasMark(audio_sample)
          \/ /\ volume' >= volume - 1
             /\ volume' <= volume + 1 \/ (audio_sample.fade /\ audio_sample.at < FullVolume)
      ]_audioVars

=============================================================================
