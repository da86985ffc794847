---------------------------- MODULE AudioIf_proof ----------------------------
(***************************************************************************)
(* The audio interface for every width of a word, every ramp, every depth   *)
(* of the queue and every set of sounds no shorter than a ramp.             *)
(***************************************************************************)
EXTENDS AudioIf, SequenceTheorems, TLAPS

USE AudioAssumption, SoundsFade

(* What the proof says of the queue: the sample on its port and those in it *)
(* follow one another, but where samples were lost.                         *)

\* A sample as the player marks it.
Marked(s) ==
    /\ s \in Sample /\ s.rest > 0
    /\ s.fade <=> s.rest = FadeOut
    /\ s.first => s.at = 0
    /\ s.at = 0 => HasMark(s) /\ s.rest >= FadeOut

\* No sample is missing between the last mark and s.
Intact(s) == ~s.torn \/ HasMark(s)

\* t is the first of a sound behind the last of another, or the next of the same sound, at which
\* the sound may be cut to a fade.
Succeeds(s, t) ==
    \/ s.rest <= 1 /\ t.at = 0 /\ t.rest > 0
    \/ /\ s.rest > 1 /\ t.at = s.at + 1
       /\ t.rest = s.rest - 1 \/ (s.rest - 1 > FadeOut /\ t.rest = FadeOut)

\* t may be stored behind s.
Joins(s, t) == t.torn \/ (Intact(s) /\ Succeeds(s, t))
Follows(s, t) == t = s \/ Joins(s, t)

\* The samples from the port on.
At(i) == IF i = 0 THEN audio_sample ELSE queue[i]
Latest == At(Len(queue))

PlayerInv ==
    /\ size = 0 \/ size >= FadeOut
    /\ ~request_for_audio => count = size
    /\ filer_delayed => /\ count < size /\ ~AUDIO_wrreq /\ ~stored
                        /\ AUDIO_data.at = count /\ AUDIO_data.rest = size - count
    /\ ~filer_delayed /\ ~broken =>
          /\ count = 0 => AUDIO_data.rest <= 1
          /\ count > 0 => AUDIO_data.at = count - 1 /\ AUDIO_data.rest = size - count + 1
    /\ AUDIO_wrreq => Marked(AUDIO_data)
    /\ stored => AUDIO_data = Latest
    /\ ~stored => Marked(AUDIO_data) /\ Joins(Latest, AUDIO_data)

QueueInv ==
    /\ audio_sample = NoneYet \/ Marked(audio_sample)
    /\ \A i \in 1..Len(queue) : Marked(queue[i]) /\ Follows(At(i - 1), queue[i])

\* The volume v and its direction d after the period in which s was looked at.
Settled(s, v, d) ==
    /\ s = NoneYet => v = FullVolume /\ d = 1
    /\ s # NoneYet =>
          /\ s.fade => v = FullVolume /\ d = 0
          /\ s.first /\ ~s.fade => v = 0 /\ d = 1
          /\ Intact(s) =>
                /\ d = 1 => s.rest > FadeOut /\ (v = FullVolume \/ v >= s.at)
                /\ d = 0 => s.rest <= FadeOut /\ (v = 0 \/ v <= FullVolume - FadeOut + s.rest)

\* While the right word is sent the sample on the port may be one the volume does not know yet.
VolumeInv ==
    /\ lrclk = 0 => Settled(audio_sample, volume, volume_incdec) /\ (heard => audio_sample # NoneYet)
    /\ lrclk = 1 =>
          \E s \in Sample :
             /\ s = NoneYet \/ Marked(s)
             /\ Settled(s, volume, volume_incdec)
             /\ Follows(s, audio_sample)
             /\ heard => s # NoneYet

LeftBit == [sample : Sample, volume : 0..FullVolume, bit : 0..(DataWidth - 1)]
RightBit == [sample : {0, 1}, bit : 0..(DataWidth - 1)]

\* A word under way is of what its bits are taken from, and its bits are above those to come.
LeftInv ==
    /\ left \in Seq(SUBSET LeftBit)
    /\ lrclk = 0 /\ Data_Count > 0 =>
          /\ Len(left) = Data_Count
          /\ \A i \in 1..Len(left) : \A b \in left[i] :
                b.sample = audio_sample /\ b.volume = volume /\ b.bit >= DataWidth - Data_Count
RightInv ==
    /\ right \in Seq(SUBSET RightBit)
    /\ lrclk = 1 /\ Data_Count > 0 =>
          /\ Len(right) = Data_Count
          /\ \A i \in 1..Len(right) : \A b \in right[i] :
                b.sample = audio2_sample /\ b.bit >= DataWidth - Data_Count

AudioInv ==
    AudioType /\ PlayerInv /\ QueueInv /\ VolumeInv /\ LeftInv /\ RightInv /\ WholeWords


----------------------------------------------------------------------------
(* The samples. *)

LEMMA FadeSettles ==
    ASSUME NEW s \in Sample, s = NoneYet \/ Marked(s), NEW t \in Sample, t = NoneYet \/ Marked(t),
           NEW v \in 0..FullVolume, NEW d \in {0, 1}, Settled(s, v, d), Follows(s, t),
           NEW v2, NEW d2,
           \/ t.fade /\ v2 = FullVolume /\ d2 = 0
           \/ ~t.fade /\ t.first /\ v2 = 0 /\ d2 = 1
           \/ /\ ~t.fade /\ ~t.first /\ d2 = d
              /\ v2 = IF d = 1 THEN (IF v < FullVolume THEN v + 1 ELSE v)
                      ELSE (IF v > 0 THEN v - 1 ELSE v)
    PROVE  /\ v2 \in 0..FullVolume /\ d2 \in {0, 1}
           /\ Settled(t, v2, d2)
           /\ s # NoneYet =>
                 /\ t # NoneYet
                 /\ \/ t.torn /\ HasMark(t)
                    \/ v2 >= v - 1 /\ (v2 <= v + 1 \/ (t.fade /\ t.at < FullVolume))
<1>1. v2 \in 0..FullVolume /\ d2 \in {0, 1}
  OBVIOUS
<1>2. CASE t = NoneYet
  <2>1. s = NoneYet
    BY <1>2 DEF Follows, Joins, Succeeds, NoneYet, Marked, Sample
  <2> QED  BY <1>1, <1>2, <2>1 DEF Settled, NoneYet
<1>3. CASE Marked(t) /\ t.torn
  <2>1. t # NoneYet
    BY <1>3 DEF NoneYet
  <2>2. CASE HasMark(t)
    BY <1>1, <1>3, <2>1, <2>2 DEF Settled, Marked, Sample, HasMark
  <2>3. CASE ~HasMark(t)
    BY <1>1, <1>3, <2>1, <2>3 DEF Settled, Intact, HasMark
  <2> QED  BY <2>2, <2>3
<1>4. CASE Marked(t) /\ ~t.torn /\ s = NoneYet
  <2>1. t # NoneYet /\ t.at = 0
    BY <1>4 DEF Follows, Joins, Succeeds, NoneYet, Marked, Sample
  <2> QED  BY <1>1, <1>4, <2>1 DEF Settled, Marked, Sample, HasMark
<1>5. CASE Marked(t) /\ ~t.torn /\ s # NoneYet /\ t = s
  <2>1. t # NoneYet /\ Intact(s)
    BY <1>5 DEF Intact
  <2> QED  BY <1>1, <1>5, <2>1 DEF Settled, Marked, Sample, Intact
<1>6. CASE Marked(t) /\ ~t.torn /\ s # NoneYet /\ t # s
  <2>1. t # NoneYet /\ Marked(s) /\ Intact(s) /\ Succeeds(s, t)
    BY <1>6 DEF NoneYet, Marked, Sample, Follows, Joins
  <2> QED  BY <1>1, <1>6, <2>1 DEF Settled, Marked, Sample, Succeeds, HasMark
<1> QED  BY <1>2, <1>3, <1>4, <1>5, <1>6

LEMMA NextIsMarked ==
    ASSUME AudioType, PlayerInv, count < size, NEW end \in Ends
    PROVE  /\ Marked(Mark(end))
           /\ end \in Nat /\ end >= FadeOut /\ count + 1 <= end
           /\ end # size => end = count + FadeOut /\ size - count > FadeOut
           /\ Mark(end).at = count /\ Mark(end).rest = end - count /\ Mark(end).torn = Torn
<1>1. size \in Nat /\ count \in Nat /\ size >= FadeOut
  BY DEF AudioType, PlayerInv
<1>2. /\ end \in Nat /\ end >= FadeOut /\ count + 1 <= end
      /\ end # size => end = count + FadeOut /\ size - count > FadeOut
  BY <1>1 DEF Ends
<1> DEFINE first == end = size /\ count = 0
           fade == end - count = FadeOut
<1>a. Mark(end) = [at |-> count, rest |-> end - count, first |-> first, fade |-> fade,
                   torn |-> Torn]
  BY DEF Mark
<1>b. first \in BOOLEAN /\ fade \in BOOLEAN
  OBVIOUS
<1>c. end - count \in Nat
  BY <1>1, <1>2
<1>t. Torn \in BOOLEAN
  BY DEF Torn, AudioType, Sample
<1> HIDE DEF first, fade
<1>d. /\ Mark(end) \in Sample /\ Mark(end).at = count /\ Mark(end).rest = end - count
      /\ Mark(end).first = first /\ Mark(end).fade = fade /\ Mark(end).torn = Torn
  BY <1>1, <1>a, <1>b, <1>c, <1>t DEF Sample
<1>3. /\ (Mark(end).first <=> end = size /\ count = 0)
      /\ (Mark(end).fade <=> end - count = FadeOut)
  BY <1>d DEF first, fade
<1>4. Marked(Mark(end))
  <2>1. Mark(end).rest > 0 /\ (Mark(end).fade <=> Mark(end).rest = FadeOut)
    BY <1>1, <1>2, <1>3, <1>d
  <2>2. Mark(end).first => Mark(end).at = 0
    BY <1>3, <1>d
  <2>3. Mark(end).at = 0 =>
           (Mark(end).first \/ Mark(end).fade) /\ Mark(end).rest >= FadeOut
    BY <1>1, <1>2, <1>3, <1>d
  <2> QED  BY <1>d, <2>1, <2>2, <2>3 DEF Marked, HasMark
<1> QED  BY <1>2, <1>4, <1>d

\* The next sample joins the one that is the latest after this edge.
LEMMA NextJoins ==
    ASSUME AudioType, PlayerInv, count < size, NEW end \in Ends, NEW l,
           filer_delayed => l = Latest, ~filer_delayed /\ Stored => l = AUDIO_data
    PROVE  Joins(l, Mark(end))
<1>1. size \in Nat /\ count \in Nat /\ size >= FadeOut
  BY DEF AudioType, PlayerInv
<1>2. /\ end \in Nat /\ end >= FadeOut /\ count + 1 <= end
      /\ end # size => end = count + FadeOut /\ size - count > FadeOut
      /\ Mark(end).at = count /\ Mark(end).rest = end - count /\ Mark(end).torn = Torn
  BY NextIsMarked
<1>3. CASE Torn
  BY <1>2, <1>3 DEF Joins
<1>4. CASE ~Torn /\ filer_delayed
  <2>1. Intact(l) /\ Succeeds(l, AUDIO_data)
    BY <1>4 DEF Torn, PlayerInv, Joins
  <2>2. AUDIO_data.at = count /\ AUDIO_data.rest = size - count
    BY <1>4 DEF PlayerInv
  <2>3. Succeeds(l, Mark(end))
    BY <1>1, <1>2, <2>1, <2>2 DEF Succeeds
  <2> QED  BY <2>1, <2>3 DEF Joins
<1>5. CASE ~Torn /\ ~filer_delayed
  <2>1. l = AUDIO_data /\ ~broken /\ Intact(l)
    BY <1>5 DEF Torn, Intact
  <2>2. Succeeds(l, Mark(end))
    BY <1>1, <1>2, <1>5, <2>1 DEF Succeeds, PlayerInv
  <2> QED  BY <2>1, <2>2 DEF Joins
<1> QED  BY <1>3, <1>4, <1>5

\* A marked sample is stored behind the latest.
LEMMA StoreKeeps ==
    ASSUME AudioType, QueueInv, NEW t, Marked(t), Follows(Latest, t),
           queue' = Append(queue, t), UNCHANGED audio_sample
    PROVE  QueueInv' /\ Latest' = t
<1>1. /\ t \in Sample /\ queue' \in Seq(Sample) /\ Len(queue') = Len(queue) + 1 /\ Len(queue) \in Nat
      /\ queue'[Len(queue) + 1] = t
      /\ \A i \in 1..Len(queue) : queue'[i] = queue[i]
  BY DEF AudioType, Marked
<1>2. \A i \in 0..Len(queue) : At(i)' = At(i)
  BY <1>1 DEF At
<1>3. Latest' = t
  BY <1>1 DEF Latest, At
<1>4. ASSUME NEW i \in 1..Len(queue')
      PROVE  Marked(queue'[i]) /\ Follows(At(i - 1)', queue'[i])
  <2>1. CASE i = Len(queue) + 1
    BY <1>1, <1>2, <2>1 DEF Latest
  <2>2. CASE i # Len(queue) + 1
    <3>1. i \in 1..Len(queue) /\ i - 1 \in 0..Len(queue)
      BY <1>1, <2>2
    <3> QED  BY <1>1, <1>2, <3>1 DEF QueueInv
  <2> QED  BY <2>1, <2>2
<1> QED  BY <1>3, <1>4 DEF QueueInv

----------------------------------------------------------------------------
(* The steps of the player. *)

\* What the player does not touch.
LEMMA LineKept ==
    ASSUME VolumeInv, LeftInv, RightInv, WholeWords, UNCHANGED serialVars
    PROVE  VolumeInv' /\ LeftInv' /\ RightInv' /\ WholeWords'
BY DEF VolumeInv, LeftInv, RightInv, WholeWords, serialVars, clockVars, volumeVars, lineVars

LEMMA QueueKept ==
    ASSUME QueueInv, UNCHANGED <<queue, audio_sample>>
    PROVE  QueueInv' /\ Latest' = Latest
BY DEF QueueInv, Latest, At

\* What the queue holds after a step of the player.
LEMMA QueueStores ==
    ASSUME AudioType, PlayerInv, QueueInv, StoreSample, UNCHANGED audio_sample
    PROVE  /\ QueueInv' /\ queue' \in Seq(Sample) /\ Len(queue') <= QueueSize
           /\ Stored => Latest' = AUDIO_data
           /\ ~Storing => Latest' = Latest
<1>1. CASE Storing
  <2>1. queue' = Append(queue, AUDIO_data) /\ Len(queue) < QueueSize
    BY <1>1 DEF StoreSample, Storing, AUDIO_fifo_full, AudioType
  <2>2. Marked(AUDIO_data) /\ Follows(Latest, AUDIO_data)
    BY <1>1 DEF Storing, PlayerInv, Follows, AudioType
  <2>3. QueueInv' /\ Latest' = AUDIO_data
    BY <2>1, <2>2, StoreKeeps
  <2> QED  BY <1>1, <2>1, <2>3 DEF AudioType
<1>2. CASE ~Storing
  <2>1. queue' = queue
    BY <1>2 DEF StoreSample
  <2>2. QueueInv' /\ Latest' = Latest
    BY <2>1, QueueKept
  <2> QED  BY <1>2, <2>1, <2>2 DEF Stored, PlayerInv, AudioType
<1> QED  BY <1>1, <1>2

\* The sample in AUDIO_data stays, and is stored now or not.
LEMMA HandKept ==
    ASSUME AudioType, PlayerInv, QueueInv, StoreSample, UNCHANGED <<audio_sample, AUDIO_data>>,
           stored' = Stored
    PROVE  /\ stored' => AUDIO_data' = Latest'
           /\ ~stored' => Marked(AUDIO_data') /\ Joins(Latest', AUDIO_data')
<1>1. CASE Stored
  BY <1>1, QueueStores
<1>2. CASE ~Stored
  <2>1. ~stored /\ ~Storing
    BY <1>2 DEF Stored
  <2>2. Latest' = Latest
    BY <2>1, QueueStores
  <2> QED  BY <1>2, <2>1, <2>2 DEF PlayerInv
<1> QED  BY <1>1, <1>2

\* A cycle without a sample.
LEMMA PlayerWaits ==
    ASSUME AudioType, PlayerInv, QueueInv, StoreSample, UNCHANGED audio_sample,
           TakeSound \/ HeaderRead \/ RepeatSound \/ IdleCycle \/ EndSound \/ BreakOff
    PROVE  /\ PlayerInv'
           /\ size' \in Nat /\ count' \in 0..size' /\ request_for_audio' \in BOOLEAN
           /\ AUDIO_data' \in Sample
           /\ {AUDIO_wrreq', filer_delayed', stored', broken'} \subseteq BOOLEAN
<1>1. UNCHANGED AUDIO_data /\ stored' = Stored /\ AUDIO_data \in Sample /\ Stored \in BOOLEAN
  BY DEF TakeSound, HeaderRead, RepeatSound, IdleCycle, EndSound, BreakOff, soundVars, Stored,
         Storing, AUDIO_fifo_full, AudioType
<1>2. /\ stored' => AUDIO_data' = Latest'
      /\ ~stored' => Marked(AUDIO_data') /\ Joins(Latest', AUDIO_data')
  BY <1>1, HandKept
<1>3. /\ size \in Nat /\ count \in 0..size
      /\ {request_for_audio, AUDIO_wrreq, filer_delayed, stored, broken} \subseteq BOOLEAN
  BY DEF AudioType
<1>4. CASE TakeSound
  BY <1>1, <1>2, <1>3, <1>4 DEF TakeSound, PlayerInv
<1>5. CASE HeaderRead
  BY <1>1, <1>2, <1>3, <1>5 DEF HeaderRead, PlayerInv
<1>6. CASE RepeatSound
  BY <1>1, <1>2, <1>3, <1>6 DEF RepeatSound, PlayerInv
<1>7. CASE IdleCycle
  BY <1>1, <1>2, <1>3, <1>7 DEF IdleCycle, soundVars, PlayerInv
<1>8. CASE EndSound
  <2>1. /\ count = size /\ ~request_for_audio' /\ ~AUDIO_wrreq' /\ UNCHANGED <<size, count, broken>>
        /\ ~filer_delayed' /\ ~filer_delayed
    BY <1>3, <1>8 DEF EndSound, PlayerInv
  <2>2. PlayerInv'
    BY <1>1, <1>2, <1>3, <2>1 DEF PlayerInv
  <2>3. {request_for_audio', AUDIO_wrreq', filer_delayed', stored', broken'} \subseteq BOOLEAN
    BY <1>1, <1>3, <1>8, Zenon DEF EndSound
  <2> QED  BY <1>1, <1>3, <2>1, <2>2, <2>3
<1>9. CASE BreakOff
  <2>1. /\ size' = 0 /\ count' = 0 /\ ~filer_delayed' /\ broken'
        /\ UNCHANGED <<request_for_audio, AUDIO_wrreq>>
    BY <1>9 DEF BreakOff
  <2>2. PlayerInv'
    BY <1>1, <1>2, <2>1 DEF PlayerInv
  <2>3. {request_for_audio', AUDIO_wrreq', filer_delayed', stored', broken'} \subseteq BOOLEAN
    BY <1>1, <1>3, <1>9, Zenon DEF BreakOff
  <2> QED  BY <1>1, <1>3, <2>1, <2>2, <2>3
<1> QED  BY <1>4, <1>5, <1>6, <1>7, <1>8, <1>9

\* A cycle with a sample, which is served or waits.
LEMMA PlayerServes ==
    ASSUME AudioType, PlayerInv, QueueInv, StoreSample, UNCHANGED audio_sample,
           AcceptSample \/ DelaySample
    PROVE  /\ PlayerInv'
           /\ size' \in Nat /\ count' \in 0..size' /\ request_for_audio' \in BOOLEAN
           /\ AUDIO_data' \in Sample
           /\ {AUDIO_wrreq', filer_delayed', stored', broken'} \subseteq BOOLEAN
<1>1. /\ count < size /\ stored' = FALSE /\ broken' = FALSE
      /\ request_for_audio /\ UNCHANGED request_for_audio
      /\ size \in Nat /\ count \in 0..size /\ request_for_audio \in BOOLEAN /\ size >= FadeOut
  BY DEF AcceptSample, DelaySample, AudioType, PlayerInv
<1>2. CASE DelaySample \/ ~filer_delayed
  <2>1. PICK end \in Ends : AUDIO_data' = Mark(end) /\ size' = end
    BY <1>2 DEF AcceptSample, DelaySample, MarkNext
  <2>2. /\ Marked(Mark(end)) /\ end \in Nat /\ end >= FadeOut /\ count + 1 <= end
        /\ Mark(end).at = count /\ Mark(end).rest = end - count
    BY <1>1, NextIsMarked
  <2>3. filer_delayed => Latest' = Latest
    <3>1. filer_delayed => ~Storing
      BY DEF PlayerInv, Storing
    <3> QED  BY <3>1, QueueStores
  <2>4. Joins(Latest', AUDIO_data')
    BY <1>1, <2>1, <2>3, NextJoins, QueueStores
  <2>5. AUDIO_data' \in Sample
    BY <2>1, <2>2 DEF Marked
  <2>6. CASE DelaySample
    <3>1. count' = count /\ ~AUDIO_wrreq' /\ filer_delayed'
      BY <2>6 DEF DelaySample
    <3>2. PlayerInv'
      BY <1>1, <2>1, <2>2, <2>4, <3>1 DEF PlayerInv
    <3>3. {request_for_audio', AUDIO_wrreq', filer_delayed', stored', broken'} \subseteq BOOLEAN
      BY <1>1, <2>6, Zenon DEF DelaySample
    <3> QED  BY <1>1, <2>1, <2>2, <2>5, <3>1, <3>2, <3>3
  <2>7. CASE AcceptSample
    <3>1. count' = count + 1 /\ AUDIO_wrreq' /\ ~filer_delayed'
      BY <2>7 DEF AcceptSample
    <3>2. PlayerInv'
      BY <1>1, <2>1, <2>2, <2>4, <3>1 DEF PlayerInv
    <3>3. {request_for_audio', AUDIO_wrreq', filer_delayed', stored', broken'} \subseteq BOOLEAN
      BY <1>1, <2>7, Zenon DEF AcceptSample
    <3> QED  BY <1>1, <2>1, <2>2, <2>5, <3>1, <3>2, <3>3
  <2> QED  BY <2>6, <2>7
<1>3. CASE AcceptSample /\ filer_delayed
  <2>1. UNCHANGED <<AUDIO_data, size>> /\ count' = count + 1 /\ AUDIO_wrreq' /\ ~filer_delayed'
    BY <1>3 DEF AcceptSample
  <2>2. ~Storing /\ ~stored /\ AUDIO_data.at = count /\ AUDIO_data.rest = size - count
    BY <1>3 DEF PlayerInv, Storing
  <2>3. Latest' = Latest
    BY <2>2, QueueStores
  <2>4. Marked(AUDIO_data) /\ Joins(Latest', AUDIO_data')
    BY <2>1, <2>2, <2>3 DEF PlayerInv
  <2>5. PlayerInv'
    BY <1>1, <2>1, <2>2, <2>4 DEF PlayerInv
  <2>6. {request_for_audio', AUDIO_wrreq', filer_delayed', stored', broken'} \subseteq BOOLEAN
    BY <1>1, <1>3, Zenon DEF AcceptSample
  <2> QED  BY <1>1, <2>1, <2>4, <2>5, <2>6 DEF Marked
<1> QED  BY <1>2, <1>3

LEMMA PlayerSteps ==
    ASSUME AudioInv, Player
    PROVE  AudioInv'
<1> USE DEF AudioInv
<1>1. UNCHANGED serialVars
  BY DEF Player, PlayerCycle, BeginSound2
<1>2. VolumeInv' /\ LeftInv' /\ RightInv' /\ WholeWords'
  BY <1>1, LineKept
<1>3. UNCHANGED audio_sample
  BY <1>1 DEF serialVars
<1>4. CASE PlayerCycle
  <2>1. StoreSample /\ UNCHANGED sound2_on
    BY <1>4 DEF PlayerCycle
  <2>2. QueueInv' /\ queue' \in Seq(Sample) /\ Len(queue') <= QueueSize
    BY <1>3, <2>1, QueueStores
  <2>3. /\ PlayerInv'
        /\ size' \in Nat /\ count' \in 0..size' /\ request_for_audio' \in BOOLEAN
        /\ AUDIO_data' \in Sample
        /\ {AUDIO_wrreq', filer_delayed', stored', broken'} \subseteq BOOLEAN
    BY <1>3, <1>4, <2>1, PlayerWaits, PlayerServes DEF PlayerCycle
  <2>4. AudioType'
    BY <1>1, <2>1, <2>2, <2>3 DEF AudioType, serialVars, clockVars, volumeVars, lineVars
  <2> QED  BY <1>2, <2>2, <2>3, <2>4
<1>5. CASE BeginSound2
  <2>1. QueueInv' /\ Latest' = Latest
    BY <1>3, <1>5, QueueKept DEF BeginSound2
  <2>2. PlayerInv'
    BY <1>5, <2>1 DEF PlayerInv, BeginSound2, playerVars, soundVars, handVars
  <2>3. AudioType'
    BY <1>1, <1>5 DEF AudioType, BeginSound2, playerVars, soundVars, handVars, serialVars,
                      clockVars, volumeVars, lineVars
  <2> QED  BY <1>2, <2>1, <2>2, <2>3
<1> QED  BY <1>4, <1>5 DEF Player

----------------------------------------------------------------------------
(* An edge of sclk. *)

\* The sample on the port is kept, or the next takes its place.
LEMMA ReadKeeps ==
    ASSUME AudioType, QueueInv, ReadSample
    PROVE  /\ QueueInv' /\ Latest' = Latest
           /\ queue' \in Seq(Sample) /\ Len(queue') <= Len(queue) /\ audio_sample' \in Sample
           /\ Follows(audio_sample, audio_sample')
           /\ audio_sample' # audio_sample => LastBit /\ lrclk = 0
           /\ audio2_sample' # audio2_sample => LastBit /\ lrclk = 0
           /\ audio2_sample' \in {0, 1}
<1>1. CASE LastBit /\ lrclk = 0 /\ request_for_audio /\ queue # <<>>
  <2>1. audio_sample' = Head(queue) /\ queue' = Tail(queue) /\ audio2_sample' \in {0, 1}
    BY <1>1 DEF ReadSample
  <2>2. /\ queue \in Seq(Sample) /\ Len(queue) \in Nat \ {0}
        /\ queue' \in Seq(Sample) /\ Len(queue') = Len(queue) - 1
        /\ audio_sample' = queue[1]
        /\ \A i \in 1..Len(queue') : queue'[i] = queue[i + 1]
    BY <1>1, <2>1 DEF AudioType
  <2>3. Marked(queue[1]) /\ Follows(audio_sample, queue[1])
    BY <2>2 DEF QueueInv, At
  <2>4. \A i \in 0..Len(queue') : At(i)' = At(i + 1)
    BY <2>2 DEF At
  <2>5. Latest' = Latest
    BY <2>2, <2>4 DEF Latest
  <2>6. ASSUME NEW i \in 1..Len(queue')
        PROVE  Marked(queue'[i]) /\ Follows(At(i - 1)', queue'[i])
    <3>1. i + 1 \in 1..Len(queue) /\ i - 1 \in 0..Len(queue') /\ (i - 1) + 1 = i /\ (i + 1) - 1 = i
      BY <2>2
    <3>2. Marked(queue[i + 1]) /\ Follows(At((i + 1) - 1), queue[i + 1])
      BY <3>1 DEF QueueInv
    <3>3. At(i - 1)' = At((i + 1) - 1)
      BY <2>4, <3>1
    <3> QED  BY <2>2, <3>2, <3>3
  <2>7. QueueInv'
    BY <2>2, <2>3, <2>6 DEF QueueInv
  <2> QED  BY <1>1, <2>1, <2>2, <2>3, <2>5, <2>7 DEF Marked
<1>2. CASE ~(LastBit /\ lrclk = 0 /\ request_for_audio /\ queue # <<>>)
  <2>1. UNCHANGED <<audio_sample, queue>>
    BY <1>2 DEF ReadSample
  <2>2. audio2_sample' \in {0, 1} /\ (audio2_sample' # audio2_sample => LastBit /\ lrclk = 0)
    BY DEF ReadSample, AudioType
  <2> QED  BY <2>1, <2>2, QueueKept DEF AudioType, Follows
<1> QED  BY <1>1, <1>2

\* What VolumeSmooth says of a step.
SmoothStep ==
    \/ audio_sample.torn /\ HasMark(audio_sample)
    \/ /\ volume' >= volume - 1
       /\ volume' <= volume + 1 \/ (audio_sample.fade /\ audio_sample.at < FullVolume)

\* The volume moves when a left word begins, and then as VolumeSmooth says.
LEMMA FadeKeeps ==
    ASSUME AudioType, QueueInv, VolumeInv, SerialEdge
    PROVE  /\ VolumeInv' /\ volume' \in 0..FullVolume /\ volume_incdec' \in {0, 1}
           /\ volume' # volume => LastBit /\ lrclk = 1
           /\ heard => SmoothStep
<1>1. /\ Fade /\ ReadSample
      /\ lrclk' = IF LastBit THEN 1 - lrclk ELSE lrclk
      /\ heard' => heard \/ (lrclk = 0 /\ audio_sample # NoneYet)
  BY DEF SerialEdge, Count, ShiftOut
<1>2. /\ volume \in 0..FullVolume /\ volume_incdec \in {0, 1} /\ lrclk \in {0, 1}
      /\ audio_sample \in Sample
  BY DEF AudioType
<1>3. /\ Follows(audio_sample, audio_sample') /\ audio_sample' \in Sample
      /\ audio_sample' # audio_sample => LastBit /\ lrclk = 0
  BY <1>1, ReadKeeps
<1>4. CASE ~LastBit
  <2>1. UNCHANGED <<volume, volume_incdec, lrclk, audio_sample>>
    BY <1>1, <1>3, <1>4 DEF Fade, volumeVars
  <2>2. lrclk = 1 => (heard' => heard)
    BY <1>1
  <2>3. lrclk = 0 => (heard' => audio_sample # NoneYet)
    BY <1>1 DEF VolumeInv
  <2>4. VolumeInv'
    BY <2>1, <2>2, <2>3, <1>2 DEF VolumeInv
  <2> QED  BY <1>2, <2>1, <2>4 DEF SmoothStep
<1>5. CASE LastBit /\ lrclk = 0
  <2>1. UNCHANGED <<volume, volume_incdec>> /\ lrclk' = 1
    BY <1>1, <1>5 DEF Fade, volumeVars
  <2>2. /\ audio_sample = NoneYet \/ Marked(audio_sample)
        /\ Settled(audio_sample, volume, volume_incdec)
        /\ heard' => audio_sample # NoneYet
    BY <1>1, <1>5 DEF VolumeInv, QueueInv
  <2>3. VolumeInv'
    BY <1>2, <1>3, <2>1, <2>2 DEF VolumeInv
  <2> QED  BY <1>2, <2>1, <2>3 DEF SmoothStep
<1>6. CASE LastBit /\ lrclk = 1
  <2>1. PICK s \in Sample : /\ s = NoneYet \/ Marked(s)
                            /\ Settled(s, volume, volume_incdec)
                            /\ Follows(s, audio_sample)
                            /\ heard => s # NoneYet
    BY <1>6 DEF VolumeInv
  <2>2. audio_sample = NoneYet \/ Marked(audio_sample)
    BY DEF QueueInv
  <2>3. \/ audio_sample.fade /\ volume' = FullVolume /\ volume_incdec' = 0
        \/ ~audio_sample.fade /\ audio_sample.first /\ volume' = 0 /\ volume_incdec' = 1
        \/ /\ ~audio_sample.fade /\ ~audio_sample.first /\ volume_incdec' = volume_incdec
           /\ volume' = IF volume_incdec = 1
                        THEN (IF volume < FullVolume THEN volume + 1 ELSE volume)
                        ELSE (IF volume > 0 THEN volume - 1 ELSE volume)
    BY <1>1, <1>6 DEF Fade, Ramp
  <2>4. /\ volume' \in 0..FullVolume /\ volume_incdec' \in {0, 1}
        /\ Settled(audio_sample, volume', volume_incdec')
        /\ s # NoneYet => audio_sample # NoneYet /\ SmoothStep
    BY <1>2, <2>1, <2>2, <2>3, FadeSettles DEF SmoothStep
  <2>5. audio_sample' = audio_sample /\ lrclk' = 0 /\ (heard' => heard)
    BY <1>1, <1>3, <1>6
  <2>6. VolumeInv'
    BY <2>1, <2>4, <2>5 DEF VolumeInv
  <2> QED  BY <1>6, <2>1, <2>4, <2>6
<1> QED  BY <1>2, <1>4, <1>5, <1>6

\* A sequence is one over any set its elements are in.
LEMMA SeqOver ==
    ASSUME NEW S, NEW T, NEW s \in Seq(S), \A i \in 1..Len(s) : s[i] \in T
    PROVE  s \in Seq(T)
<1>1. Len(s) \in Nat /\ s \in [1..Len(s) -> S]
  BY LenProperties
<1>2. s \in [1..Len(s) -> T]
  BY <1>1
<1> QED  BY <1>1, <1>2

\* The bits of a word fall.
Falling(word) ==
    \A i, j \in 1..Len(word) : \A b \in word[i], c \in word[j] : i < j => b.bit > c.bit

\* A word of bits in E, all above those to come, gets its next bit or, with both sounds off, none.
LEMMA ShiftedWord ==
    ASSUME NEW E, \A e \in E : e.bit \in Int, NEW word, AudioType,
           Data_Count > 0 =>
              /\ word \in Seq(SUBSET E) /\ Len(word) = Data_Count /\ Falling(word)
              /\ \A i \in 1..Len(word) : \A b \in word[i] : b.bit >= DataWidth - Data_Count,
           NEW e \in E, e.bit = DataWidth - 1 - Data_Count
    PROVE  LET w == Shifted(word, e)
           IN  /\ w \in Seq(SUBSET E) /\ Len(w) = Data_Count + 1 /\ Falling(w)
               /\ \A i \in 1..Len(w) : \A b \in w[i] : b.bit >= DataWidth - (Data_Count + 1)
<1> DEFINE base == IF Data_Count = 0 THEN <<>> ELSE word
           next == IF request_for_audio \/ sound2_on THEN {e} ELSE {}
           w == Shifted(word, e)
<1>1. Data_Count \in Nat /\ DataWidth \in Nat
  BY AudioAssumption DEF AudioType, AudioAssumption
<1>2. /\ base \in Seq(SUBSET E) /\ Len(base) = Data_Count /\ Falling(base)
      /\ \A i \in 1..Len(base) : \A b \in base[i] : b.bit >= DataWidth - Data_Count
  <2>1. CASE Data_Count = 0
    <3>1. base = <<>> /\ Len(base) = 0 /\ base \in Seq(SUBSET E)
      BY <2>1
    <3> QED  BY <2>1, <3>1 DEF Falling
  <2>2. CASE Data_Count > 0
    BY <1>1, <2>2
  <2> QED  BY <1>1, <2>1, <2>2
<1>3. w = base \o <<next>> /\ next \in SUBSET E /\ \A b \in next : b = e
  BY DEF Shifted
<1> HIDE DEF base, next, w
<1>4. /\ w \in Seq(SUBSET E) /\ Len(w) = Data_Count + 1 /\ w[Data_Count + 1] = next
      /\ \A i \in 1..Data_Count : w[i] = base[i]
  BY <1>1, <1>2, <1>3
<1>5. ASSUME NEW i \in 1..Len(w), NEW b \in w[i]
      PROVE  /\ b \in E /\ b.bit \in Int
             /\ b.bit >= DataWidth - (Data_Count + 1)
             /\ i \in 1..Data_Count => b.bit >= DataWidth - Data_Count
             /\ i \notin 1..Data_Count => b = e
  <2>1. CASE i \in 1..Data_Count
    <3>1. b \in base[i] /\ i \in 1..Len(base)
      BY <1>2, <1>4, <1>5, <2>1
    <3>2. b \in E /\ b.bit >= DataWidth - Data_Count
      BY <1>2, <3>1
    <3>3. b.bit \in Int
      BY <3>2
    <3> QED  BY <1>1, <2>1, <3>2, <3>3
  <2>2. CASE i \notin 1..Data_Count
    <3>1. i = Data_Count + 1
      BY <1>1, <1>4, <2>2
    <3>2. b = e
      BY <1>3, <1>4, <1>5, <3>1
    <3> QED  BY <1>1, <2>2, <3>2
  <2> QED  BY <2>1, <2>2
<1>6. ASSUME NEW i \in 1..Len(w), NEW j \in 1..Len(w), NEW b \in w[i], NEW c \in w[j], i < j
      PROVE  b.bit > c.bit
  <2>1. i \in 1..Data_Count
    BY <1>1, <1>4, <1>6
  <2>2. CASE j \in 1..Data_Count
    <3>1. b \in base[i] /\ c \in base[j] /\ i \in 1..Len(base) /\ j \in 1..Len(base)
      BY <1>2, <1>4, <1>6, <2>1, <2>2
    <3> QED  BY <1>2, <1>6, <3>1 DEF Falling
  <2>3. CASE j \notin 1..Data_Count
    <3>1. c = e /\ b.bit >= DataWidth - Data_Count /\ b.bit \in Int
      BY <1>5, <1>6, <2>1, <2>3
    <3> QED  BY <1>1, <3>1
  <2> QED  BY <2>2, <2>3
<1>7. Falling(w)
  BY <1>6 DEF Falling
<1> QED  BY <1>4, <1>5, <1>7 DEF w

\* The two halves of WholeWords.
WholeLeft ==
    /\ Falling(left)
    /\ \A i, j \in 1..Len(left) : \A b \in left[i], c \in left[j] :
          b.sample = c.sample /\ b.volume = c.volume
WholeRight ==
    /\ Falling(right)
    /\ \A i, j \in 1..Len(right) : \A b \in right[i], c \in right[j] : b.sample = c.sample

LEMMA WholeSplits ==
    ASSUME LeftInv, RightInv
    PROVE  WholeWords <=> WholeLeft /\ WholeRight
<1>1. DOMAIN left = 1..Len(left) /\ DOMAIN right = 1..Len(right)
  BY DEF LeftInv, RightInv
<1> QED  BY <1>1 DEF WholeWords, WholeLeft, WholeRight, Falling

LEMMA EdgeCounts ==
    ASSUME AudioType, SerialEdge
    PROVE  /\ lrclk' \in {0, 1} /\ sclk_Count' \in 0..(DataWidth - 1) /\ Data_Count' = sclk_Count'
           /\ Data_Count \in 0..(DataWidth - 1) /\ lrclk \in {0, 1}
           /\ \/ LastBit /\ Data_Count' = 0 /\ lrclk' = 1 - lrclk
              \/ ~LastBit /\ Data_Count' = Data_Count + 1 /\ lrclk' = lrclk
BY DEF AudioType, SerialEdge, Count, LastBit

LEMMA LeftKeeps ==
    ASSUME AudioType, QueueInv, VolumeInv, LeftInv, WholeLeft, SerialEdge
    PROVE  LeftInv' /\ Len(left') <= DataWidth /\ WholeLeft'
<1>1. /\ ~LastBit => audio_sample' = audio_sample
      /\ ~LastBit => volume' = volume
      /\ left' = IF lrclk = 0 THEN Shifted(left, Data_Bit) ELSE <<>>
  BY ReadKeeps, FadeKeeps DEF SerialEdge, ShiftOut
<1>2. CASE lrclk = 1
  <2>1. left' = <<>> /\ ~(lrclk' = 0 /\ Data_Count' > 0)
    BY <1>1, <1>2, EdgeCounts
  <2> QED  BY <2>1 DEF LeftInv, WholeLeft, Falling
<1>3. CASE lrclk = 0
  <2> DEFINE E == [sample : {audio_sample}, volume : {volume}, bit : 0..(DataWidth - 1)]
  <2>1. /\ Data_Bit \in E /\ Data_Bit.bit = DataWidth - 1 - Data_Count
        /\ \A e \in E : e.bit \in Int
    BY EdgeCounts DEF Data_Bit
  <2>2. ASSUME Data_Count > 0
        PROVE  /\ left \in Seq(SUBSET E) /\ Len(left) = Data_Count /\ Falling(left)
               /\ \A i \in 1..Len(left) : \A b \in left[i] : b.bit >= DataWidth - Data_Count
    <3>1. /\ Len(left) = Data_Count
          /\ \A i \in 1..Len(left) : \A b \in left[i] :
                b.sample = audio_sample /\ b.volume = volume /\ b.bit >= DataWidth - Data_Count
      BY <1>3, <2>2 DEF LeftInv
    <3>2. \A i \in 1..Len(left) : left[i] \in SUBSET LeftBit
      BY DEF LeftInv
    <3>3. \A i \in 1..Len(left) : left[i] \in SUBSET E
      BY <3>1, <3>2 DEF LeftBit
    <3>4. left \in Seq(SUBSET E)
      BY <3>3, SeqOver DEF LeftInv
    <3> QED  BY <3>1, <3>4 DEF WholeLeft
  <2> HIDE DEF E
  <2>3. /\ left' \in Seq(SUBSET E) /\ Len(left') = Data_Count + 1 /\ Falling(left')
        /\ \A i \in 1..Len(left') : \A b \in left'[i] : b.bit >= DataWidth - (Data_Count + 1)
    BY <1>1, <1>3, <2>1, <2>2, ShiftedWord
  <2>4. \A i \in 1..Len(left') : \A b \in left'[i] : b.sample = audio_sample /\ b.volume = volume
    <3>1. \A i \in 1..Len(left') : left'[i] \in SUBSET E
      BY <2>3
    <3> QED  BY <3>1 DEF E
  <2>5. left' \in Seq(SUBSET LeftBit)
    <3>1. E \subseteq LeftBit
      BY DEF E, LeftBit, AudioType
    <3>2. \A i \in 1..Len(left') : left'[i] \in SUBSET LeftBit
      BY <2>3, <3>1
    <3> QED  BY <2>3, <3>2, SeqOver
  <2>6. CASE LastBit
    <3>1. lrclk' = 1
      BY <1>3, <2>6, EdgeCounts
    <3> QED  BY <2>3, <2>4, <2>5, <3>1, EdgeCounts DEF LeftInv, WholeLeft, Falling
  <2>7. CASE ~LastBit
    <3>1. Data_Count' = Data_Count + 1 /\ audio_sample' = audio_sample /\ volume' = volume
      BY <1>1, <2>7, EdgeCounts
    <3> QED  BY <2>3, <2>4, <2>5, <3>1, EdgeCounts DEF LeftInv, WholeLeft, Falling
  <2> QED  BY <2>6, <2>7
<1> QED  BY <1>2, <1>3, EdgeCounts

LEMMA RightKeeps ==
    ASSUME AudioType, QueueInv, RightInv, WholeRight, SerialEdge
    PROVE  RightInv' /\ Len(right') <= DataWidth /\ WholeRight'
<1>1. /\ ~LastBit => audio2_sample' = audio2_sample
      /\ right' = IF lrclk = 1 THEN Shifted(right, Data_Bit2) ELSE <<>>
  BY ReadKeeps DEF SerialEdge, ShiftOut
<1>2. CASE lrclk = 0
  <2>1. right' = <<>> /\ ~(lrclk' = 1 /\ Data_Count' > 0)
    BY <1>1, <1>2, EdgeCounts
  <2> QED  BY <2>1 DEF RightInv, WholeRight, Falling
<1>3. CASE lrclk = 1
  <2> DEFINE E == [sample : {audio2_sample}, bit : 0..(DataWidth - 1)]
  <2>1. /\ Data_Bit2 \in E /\ Data_Bit2.bit = DataWidth - 1 - Data_Count
        /\ \A e \in E : e.bit \in Int
    BY EdgeCounts DEF Data_Bit2
  <2>2. ASSUME Data_Count > 0
        PROVE  /\ right \in Seq(SUBSET E) /\ Len(right) = Data_Count /\ Falling(right)
               /\ \A i \in 1..Len(right) : \A b \in right[i] : b.bit >= DataWidth - Data_Count
    <3>1. /\ Len(right) = Data_Count
          /\ \A i \in 1..Len(right) : \A b \in right[i] :
                b.sample = audio2_sample /\ b.bit >= DataWidth - Data_Count
      BY <1>3, <2>2 DEF RightInv
    <3>2. \A i \in 1..Len(right) : right[i] \in SUBSET RightBit
      BY DEF RightInv
    <3>3. \A i \in 1..Len(right) : right[i] \in SUBSET E
      BY <3>1, <3>2 DEF RightBit
    <3>4. right \in Seq(SUBSET E)
      BY <3>3, SeqOver DEF RightInv
    <3> QED  BY <3>1, <3>4 DEF WholeRight
  <2> HIDE DEF E
  <2>3. /\ right' \in Seq(SUBSET E) /\ Len(right') = Data_Count + 1 /\ Falling(right')
        /\ \A i \in 1..Len(right') : \A b \in right'[i] : b.bit >= DataWidth - (Data_Count + 1)
    BY <1>1, <1>3, <2>1, <2>2, ShiftedWord
  <2>4. \A i \in 1..Len(right') : \A b \in right'[i] : b.sample = audio2_sample
    <3>1. \A i \in 1..Len(right') : right'[i] \in SUBSET E
      BY <2>3
    <3> QED  BY <3>1 DEF E
  <2>5. right' \in Seq(SUBSET RightBit)
    <3>1. E \subseteq RightBit
      BY DEF E, RightBit, AudioType
    <3>2. \A i \in 1..Len(right') : right'[i] \in SUBSET RightBit
      BY <2>3, <3>1
    <3> QED  BY <2>3, <3>2, SeqOver
  <2>6. CASE LastBit
    <3>1. lrclk' = 0
      BY <1>3, <2>6, EdgeCounts
    <3> QED  BY <2>3, <2>4, <2>5, <3>1, EdgeCounts DEF RightInv, WholeRight, Falling
  <2>7. CASE ~LastBit
    <3>1. Data_Count' = Data_Count + 1 /\ audio2_sample' = audio2_sample
      BY <1>1, <2>7, EdgeCounts
    <3> QED  BY <2>3, <2>4, <2>5, <3>1, EdgeCounts DEF RightInv, WholeRight, Falling
  <2> QED  BY <2>6, <2>7
<1> QED  BY <1>2, <1>3, EdgeCounts

LEMMA EdgeKeeps ==
    ASSUME AudioInv, SerialEdge
    PROVE  AudioInv'
<1> USE DEF AudioInv
<1>1. WholeLeft /\ WholeRight
  BY WholeSplits
<1>2. /\ LeftInv' /\ Len(left') <= DataWidth /\ WholeLeft'
      /\ RightInv' /\ Len(right') <= DataWidth /\ WholeRight'
  BY <1>1, LeftKeeps, RightKeeps
<1>3. WholeWords'
  BY <1>2, WholeSplits, PTL
<1>4. /\ QueueInv' /\ Latest' = Latest
      /\ queue' \in Seq(Sample) /\ Len(queue') <= Len(queue) /\ audio_sample' \in Sample
      /\ audio2_sample' \in {0, 1}
  BY ReadKeeps DEF SerialEdge
<1>5. VolumeInv' /\ volume' \in 0..FullVolume /\ volume_incdec' \in {0, 1}
  BY FadeKeeps
<1>6. PlayerInv'
  BY <1>4 DEF PlayerInv, SerialEdge, playerVars, soundVars, handVars
<1>7. AudioType'
  BY <1>2, <1>4, <1>5, EdgeCounts DEF AudioType, SerialEdge, playerVars, soundVars, handVars
<1> QED  BY <1>2, <1>3, <1>4, <1>5, <1>6, <1>7

----------------------------------------------------------------------------

\* The inductive invariant: which samples follow one another from the port to the player, those
\* that were lost told by the mark "torn" of the one after them, what the volume is for the sample
\* it last looked at, and what the words under way are taken from.
THEOREM AudioInvariant == AudioSpec => []AudioInv
<1>1. AudioInit => AudioInv
  <2> SUFFICES ASSUME AudioInit PROVE AudioInv
    OBVIOUS
  <2>1. AudioType
    <3>1. NoneYet \in Sample /\ <<>> \in Seq(Sample) /\ Len(<<>>) = 0
      BY DEF NoneYet, Sample
    <3>2. /\ size \in Nat /\ count \in 0..size /\ audio2_sample \in {0, 1}
          /\ lrclk \in {0, 1} /\ sclk_Count \in 0..(DataWidth - 1) /\ Data_Count = sclk_Count
          /\ volume \in 0..FullVolume /\ volume_incdec \in {0, 1}
      BY DEF AudioInit
    <3>3. /\ queue \in Seq(Sample) /\ Len(queue) <= QueueSize
          /\ Len(left) <= DataWidth /\ Len(right) <= DataWidth
      BY <3>1 DEF AudioInit
    <3>4. /\ {AUDIO_wrreq, filer_delayed, stored, broken} \subseteq BOOLEAN
          /\ request_for_audio \in BOOLEAN /\ sound2_on \in BOOLEAN
      BY DEF AudioInit
    <3>5. AUDIO_data \in Sample /\ audio_sample \in Sample
      BY <3>1 DEF AudioInit
    <3> QED  BY <3>2, <3>3, <3>4, <3>5 DEF AudioType
  <2>2. PlayerInv /\ QueueInv
    BY DEF AudioInit, PlayerInv, QueueInv, Latest, At, NoneYet
  <2>3. VolumeInv
    BY DEF AudioInit, VolumeInv, Settled, NoneYet
  <2>4. LeftInv /\ RightInv /\ WholeWords
    BY DEF AudioInit, LeftInv, RightInv, WholeWords
  <2> QED  BY <2>1, <2>2, <2>3, <2>4 DEF AudioInv
<1>2. AudioInv /\ [AudioNext]_audioVars => AudioInv'
  <2> SUFFICES ASSUME AudioInv, [AudioNext]_audioVars PROVE AudioInv'
    OBVIOUS
  <2>1. CASE AudioNext
    BY <2>1, PlayerSteps, EdgeKeeps DEF AudioNext
  <2>2. CASE UNCHANGED audioVars
    <3>1. VolumeInv' /\ LeftInv' /\ RightInv' /\ WholeWords' /\ QueueInv' /\ Latest' = Latest
      BY <2>2, LineKept, QueueKept DEF audioVars, serialVars, AudioInv
    <3>2. PlayerInv'
      BY <2>2, <3>1 DEF audioVars, playerVars, soundVars, handVars, PlayerInv, AudioInv
    <3> QED
      BY <2>2, <3>1, <3>2 DEF audioVars, playerVars, soundVars, handVars, serialVars, clockVars,
                              volumeVars, lineVars, AudioInv, AudioType
  <2> QED  BY <2>1, <2>2
<1> QED  BY <1>1, <1>2, PTL DEF AudioSpec

\* The counters, the volume and the queue keep to their ranges.
THEOREM AudioTypeCorrect == AudioSpec => []AudioType
BY AudioInvariant, PTL DEF AudioInv

\* Each word on the line is of one sample and, on the left, of one volume.
THEOREM WordsAreWhole == AudioSpec => []WholeWords
BY AudioInvariant, PTL DEF AudioInv

\* A sample is replaced in the read port only with the last bit of its word, and all bits of the word
\* before it were its own.
THEOREM SamplesAreSent == AudioSpec => SampleSent
<1> DEFINE Sent == /\ Len(left) = DataWidth - 1
                   /\ \A i \in DOMAIN left : \A b \in left[i] : b.sample = audio_sample
<1>1. ASSUME AudioInv, [AudioNext]_audioVars, audio_sample' # audio_sample
      PROVE  Sent
  <2>1. CASE SerialEdge
    <3>1. LastBit /\ lrclk = 0
      BY <1>1, <2>1, ReadKeeps DEF SerialEdge, AudioInv
    <3>2. Data_Count = DataWidth - 1 /\ Data_Count > 0
      BY <1>1, <3>1, AudioAssumption DEF LastBit, AudioInv, AudioType, AudioAssumption
    <3>3. DOMAIN left = 1..Len(left)
      BY <1>1 DEF AudioInv, LeftInv
    <3> QED  BY <1>1, <3>1, <3>2, <3>3 DEF AudioInv, LeftInv
  <2>2. CASE ~SerialEdge
    <3>1. audio_sample' = audio_sample
      BY <1>1, <2>2 DEF AudioNext, Player, PlayerCycle, BeginSound2, audioVars, serialVars
    <3> QED  BY <1>1, <3>1
  <2> QED  BY <2>1, <2>2
<1>2. AudioInv /\ [AudioNext]_audioVars => [audio_sample' # audio_sample => Sent]_audioVars
  BY <1>1
<1> QED  BY <1>2, AudioInvariant, PTL DEF AudioSpec, SampleSent

\* The volume moves by one step at most, whatever samples are lost, but at a mark before which
\* samples were lost, and up where a fade begins while the volume still rises.
THEOREM VolumeIsSmooth == AudioSpec => VolumeSmooth
<1>1. ASSUME AudioInv, [AudioNext]_audioVars
      PROVE  heard => SmoothStep
  <2>1. CASE SerialEdge
    BY <1>1, <2>1, FadeKeeps DEF AudioInv
  <2>2. CASE ~SerialEdge
    <3>1. volume' = volume /\ volume \in Nat
      BY <1>1, <2>2 DEF AudioNext, Player, PlayerCycle, BeginSound2, audioVars, serialVars,
                        volumeVars, AudioInv, AudioType
    <3> QED  BY <3>1 DEF SmoothStep
  <2> QED  BY <2>1, <2>2
<1>2. AudioInv /\ [AudioNext]_audioVars => [heard => SmoothStep]_audioVars
  BY <1>1
<1> QED  BY <1>2, AudioInvariant, PTL DEF AudioSpec, VolumeSmooth, SmoothStep

=============================================================================
