---------------------------- MODULE Gamepad_proof ----------------------------
(***************************************************************************)
(* The gamepad for every set of buttons, every depth of the bridge queue    *)
(* and any number of events under way: its types, that it implements the    *)
(* safety part of EventOrder, and that the game sees the buttons that are   *)
(* down and the directions the pad was pushed in.  The last two follow from *)
(* the order alone: the argument uses InFlight and gamepad_key, and nothing *)
(* of how a word travels.                                                   *)
(***************************************************************************)
EXTENDS Gamepad, SequenceTheorems, TLAPS

\* The queue's read port is decoded in the cycle after a word came to it, and decoding it
\* again, however much later, changes nothing.
DecodeInv ==
    /\ unread => gamepad_evt_read /\ q \in Words
    /\ ~unread => Decode(q, gamepad_key) = gamepad_key

\* The words that press and release button c.
Press(c) == Encode(EV_KEY(c, 1))
Release(c) == Encode(EV_KEY(c, 0))
Concerns(w, c) == w \in {Press(c), Release(c)}

\* A button is as its last event under way will leave it, or as the game sees it.
ButtonInv(seq, keys, down) ==
    \A c \in BtnCodes :
        /\ (\A i \in DOMAIN seq : ~Concerns(seq[i], c)) => (KeyOf(c) \in keys <=> c \in down)
        /\ \A i \in DOMAIN seq :
               Concerns(seq[i], c) /\ (\A j \in DOMAIN seq : j > i => ~Concerns(seq[j], c))
                   => (seq[i] = Press(c) <=> c \in down)

\* Words of the axes, and those among them that say an axis is at its centre.
AxisWord(w) == w \in 0..1023
Centre(w) == w \in {0, 512}

\* The word that pushes the pad in direction d, and all words that turn the direction on or off.
PushWord(d) == CASE d = 4 -> 511 [] d = 6 -> 1 [] d = 2 -> 1023 [] OTHER -> 513
Turns(w, d) == w = PushWord(d) \/ Centre(w)

\* A direction is as the last word under way that turns it says, or as the game sees it.
DirectionInv(seq, keys, dirs) ==
    \A d \in Directions :
        /\ (\A i \in DOMAIN seq : ~Turns(seq[i], d)) => (d \in keys <=> d \in dirs)
        /\ \A i \in DOMAIN seq :
               Turns(seq[i], d) /\ (\A j \in DOMAIN seq : j > i => ~Turns(seq[j], d))
                   => (seq[i] = PushWord(d) <=> d \in dirs)

GamepadInv == GamepadType /\ DecodeInv

----------------------------------------------------------------------------
(* Facts about words and keys. *)

\* No two buttons share a bit, and no button has the bit of a direction.
LEMMA KeyOfFacts ==
    /\ \A c \in 304..315 : KeyOf(c) \in 0..15 \ Directions
    /\ \A c, d \in 304..315 : KeyOf(c) = KeyOf(d) => c = d
  BY DEF KeyOf, Directions

LEMMA EncodeFacts ==
    /\ \A c \in BtnCodes : Press(c) = 1536 + c /\ Release(c) = 1024 + c
    /\ \A c \in HatCodes, v \in {-1, 0, 1} : Encode(EV_ABS(c, v)) \in 0..1023
  BY GamepadAssumption DEF GamepadAssumption, Press, Release, Encode, EV_KEY, EV_ABS

LEMMA WordsAre ==
    \A w \in Words : \/ \E c \in BtnCodes : w = Press(c) \/ w = Release(c)
                     \/ w \in 0..1023
  BY EncodeFacts DEF Words, Event, Press, Release

LEMMA WordsOf ==
    /\ \A c \in BtnCodes : Press(c) \in Words /\ Release(c) \in Words
    /\ \A c \in HatCodes, v \in {-1, 0, 1} : Encode(EV_ABS(c, v)) \in Words
  BY DEF Words, Event, Press, Release

\* What the block makes of each word.
LEMMA DecodePress ==
    ASSUME NEW c \in BtnCodes, NEW keys
    PROVE  /\ Decode(Press(c), keys) = keys \cup {KeyOf(c)}
           /\ Decode(Release(c), keys) = keys \ {KeyOf(c)}
  <1>1. c \in 304..315
    BY GamepadAssumption DEF GamepadAssumption
  <1>2. /\ ((1536 + c) \div 512) % 4 = 3 /\ (1536 + c) % 512 = c
        /\ ((1024 + c) \div 512) % 4 = 2 /\ (1024 + c) % 512 = c
    BY <1>1
  <1> QED BY <1>2, EncodeFacts DEF Decode

LEMMA DecodeAxis ==
    ASSUME NEW w \in 0..1023, NEW keys
    PROVE  /\ Decode(w, keys) \subseteq keys \cup Directions
           /\ keys \ Directions \subseteq Decode(w, keys)
           /\ Decode(w, Decode(w, keys)) = Decode(w, keys)
  <1>1. w \div 512 \in {0, 1}
    OBVIOUS
  <1>2. (w \div 512) % 4 \in {0, 1}
    BY <1>1
  <1> DEFINE kind == (w \div 512) % 4
             value == w % 512
             out(low, high, k) == Axis(value, low, high, k)
  <1>3. \A low, high, k : {low, high} \subseteq Directions =>
            /\ out(low, high, k) \subseteq k \cup Directions
            /\ k \ Directions \subseteq out(low, high, k)
            /\ out(low, high, out(low, high, k)) = out(low, high, k)
    <2> HIDE DEF value
    <2> QED BY DEF Axis
  <1>4. \A k : Decode(w, k) = IF kind = 0 THEN out(4, 6, k) ELSE out(2, 8, k)
    BY <1>2 DEF Decode
  <1>5. {4, 6} \subseteq Directions /\ {2, 8} \subseteq Directions
    BY DEF Directions
  <1> HIDE DEF kind, out
  <1> QED BY <1>3, <1>4, <1>5

\* A word decoded twice in a row has the effect of once.
LEMMA DecodeTwice ==
    ASSUME NEW w \in Words, NEW keys
    PROVE  Decode(w, Decode(w, keys)) = Decode(w, keys)
  <1>1. CASE \E c \in BtnCodes : w = Press(c) \/ w = Release(c)
    BY <1>1, DecodePress
  <1>2. CASE w \in 0..1023
    BY <1>2, DecodeAxis
  <1> QED BY <1>1, <1>2, WordsAre

----------------------------------------------------------------------------
(* Facts about sequences. *)

LEMMA ConcatHead ==
    ASSUME NEW S, NEW a \in S, NEW s \in Seq(S)
    PROVE  /\ <<a>> \o s \in Seq(S)
           /\ <<a>> \o s # <<>>
           /\ Head(<<a>> \o s) = a
           /\ Tail(<<a>> \o s) = s
  <1>1. /\ <<a>> \in Seq(S) /\ Len(<<a>>) = 1 /\ <<a>>[1] = a
    OBVIOUS
  <1> DEFINE t == <<a>> \o s
  <1>2. /\ t \in Seq(S) /\ Len(t) = 1 + Len(s)
        /\ \A i \in 1..(1 + Len(s)) : t[i] = IF i <= 1 THEN <<a>>[i] ELSE s[i - 1]
    BY <1>1, ConcatProperties
  <1>3. Len(s) \in Nat
    BY LenProperties
  <1>4. t # <<>> /\ Head(t) = a
    BY <1>1, <1>2, <1>3
  <1>5. Tail(t) \in Seq(S) /\ Len(Tail(t)) = Len(s)
    BY <1>2, <1>3, <1>4, HeadTailProperties
  <1>6. \A i \in 1..Len(Tail(t)) : Tail(t)[i] = s[i]
    BY <1>2, <1>3, <1>4, <1>5, HeadTailProperties
  <1>7. Tail(t) = s
    BY <1>5, <1>6, SeqEqual
  <1> QED BY <1>2, <1>4, <1>7

LEMMA HeadTailConcat ==
    ASSUME NEW S, NEW s \in Seq(S), s # <<>>
    PROVE  <<Head(s)>> \o Tail(s) = s
  <1>1. Head(s) \in S /\ Tail(s) \in Seq(S) /\ Len(Tail(s)) = Len(s) - 1
    BY HeadTailProperties
  <1> DEFINE t == <<Head(s)>> \o Tail(s)
  <1>2. /\ <<Head(s)>> \in Seq(S) /\ Len(<<Head(s)>>) = 1 /\ <<Head(s)>>[1] = Head(s)
    BY <1>1
  <1>3. Len(s) \in Nat \ {0}
    BY EmptySeq
  <1>4. /\ t \in Seq(S) /\ Len(t) = Len(s)
        /\ \A i \in 1..Len(s) : t[i] = IF i <= 1 THEN Head(s) ELSE Tail(s)[i - 1]
    BY <1>1, <1>2, <1>3, ConcatProperties
  <1>5. \A i \in 1..Len(s) : t[i] = s[i]
    BY <1>1, <1>3, <1>4, HeadTailProperties
  <1> QED BY <1>4, <1>5, SeqEqual

LEMMA ConcatAppend ==
    ASSUME NEW S, NEW s \in Seq(S), NEW t \in Seq(S), NEW a \in S
    PROVE  s \o Append(t, a) = Append(s \o t, a)
  <1>1. <<a>> \in Seq(S) /\ s \o t \in Seq(S)
    BY ConcatProperties
  <1>2. Append(t, a) = t \o <<a>> /\ Append(s \o t, a) = (s \o t) \o <<a>>
    BY <1>1, AppendIsConcat
  <1> QED BY <1>1, <1>2, ConcatAssociative

LEMMA EncodeAllFacts ==
    ASSUME NEW s \in Seq(Event)
    PROVE  /\ EncodeAll(s) \in Seq(Words)
           /\ \A e \in Event : EncodeAll(Append(s, e)) = Append(EncodeAll(s), Encode(e))
           /\ s # <<>> => /\ Encode(Head(s)) \in Words
                          /\ EncodeAll(s) = <<Encode(Head(s))>> \o EncodeAll(Tail(s))
  <1>1. \A t \in Seq(Event) : /\ EncodeAll(t) \in Seq(Words)
                              /\ Len(EncodeAll(t)) = Len(t)
                              /\ \A i \in 1..Len(t) : EncodeAll(t)[i] = Encode(t[i])
    BY DEF EncodeAll, Words
  <1>2. ASSUME NEW e \in Event
        PROVE  EncodeAll(Append(s, e)) = Append(EncodeAll(s), Encode(e))
    <2>1. /\ Append(s, e) \in Seq(Event) /\ Len(Append(s, e)) = Len(s) + 1
          /\ \A i \in 1..(Len(s) + 1) : Append(s, e)[i] = IF i <= Len(s) THEN s[i] ELSE e
      BY AppendProperties
    <2>2. Encode(e) \in Words
      BY DEF Words
    <2>3. /\ Append(EncodeAll(s), Encode(e)) \in Seq(Words)
          /\ Len(Append(EncodeAll(s), Encode(e))) = Len(s) + 1
          /\ \A i \in 1..(Len(s) + 1) : Append(EncodeAll(s), Encode(e))[i]
                     = IF i <= Len(s) THEN EncodeAll(s)[i] ELSE Encode(e)
      BY <1>1, <2>2, AppendProperties
    <2>4. \A i \in 1..(Len(s) + 1) :
              EncodeAll(Append(s, e))[i] = Append(EncodeAll(s), Encode(e))[i]
      <3> TAKE i \in 1..(Len(s) + 1)
      <3>1. EncodeAll(Append(s, e))[i] = Encode(Append(s, e)[i])
        BY <1>1, <2>1
      <3>2. CASE i = Len(s) + 1
        BY <2>1, <2>3, <3>1, <3>2, LenProperties
      <3>3. CASE i # Len(s) + 1
        <4>1. i \in 1..Len(s) /\ i <= Len(s)
          BY <3>3, LenProperties
        <4>2. EncodeAll(s)[i] = Encode(s[i])
          BY <1>1, <4>1
        <4> QED BY <2>1, <2>3, <3>1, <4>1, <4>2
      <3> QED BY <3>2, <3>3
    <2> QED BY <1>1, <2>1, <2>3, <2>4, SeqEqual
  <1>3. ASSUME s # <<>>
        PROVE  /\ Encode(Head(s)) \in Words
               /\ EncodeAll(s) = <<Encode(Head(s))>> \o EncodeAll(Tail(s))
    <2>1. Head(s) \in Event /\ Tail(s) \in Seq(Event) /\ Len(Tail(s)) = Len(s) - 1
      BY <1>3, HeadTailProperties
    <2>2. Encode(Head(s)) \in Words
      BY <2>1 DEF Words
    <2>3. EncodeAll(s) # <<>> /\ Head(EncodeAll(s)) = Encode(Head(s))
      BY <1>1, <1>3, EmptySeq
    <2>4. /\ Tail(EncodeAll(s)) \in Seq(Words)
          /\ Len(Tail(EncodeAll(s))) = Len(s) - 1
          /\ \A i \in 1..(Len(s) - 1) : Tail(EncodeAll(s))[i] = EncodeAll(s)[i + 1]
      BY <1>1, <2>3, HeadTailProperties
    <2>5. \A i \in 1..(Len(s) - 1) : EncodeAll(Tail(s))[i] = Tail(EncodeAll(s))[i]
      <3> TAKE i \in 1..(Len(s) - 1)
      <3>1. i \in 1..Len(Tail(s)) /\ i + 1 \in 1..Len(s)
        BY <2>1, LenProperties
      <3>2. Tail(s)[i] = s[i + 1]
        BY <1>3, <3>1, HeadTailProperties
      <3>3. EncodeAll(Tail(s))[i] = Encode(Tail(s)[i])
        BY <1>1, <2>1, <3>1
      <3>4. EncodeAll(s)[i + 1] = Encode(s[i + 1])
        BY <1>1, <3>1
      <3> QED BY <2>4, <3>2, <3>3, <3>4
    <2>6. EncodeAll(Tail(s)) = Tail(EncodeAll(s))
      BY <1>1, <2>1, <2>4, <2>5, SeqEqual
    <2> QED BY <1>1, <2>2, <2>3, <2>6, HeadTailConcat
  <1> QED BY <1>1, <1>2, <1>3

----------------------------------------------------------------------------
(* The inductive invariant. *)

LEMMA InitGamepadInv == GamepadInit => GamepadInv
  <1> SUFFICES ASSUME GamepadInit PROVE GamepadInv
    OBVIOUS
  <1> USE DEF GamepadInit
  <1>1. unread = FALSE /\ gamepad_evt_read = FALSE
    OBVIOUS
  <1>2. /\ input \in Seq(Event) /\ fifo \in Seq(Words) /\ Len(fifo) = 0
        /\ hat \in [HatCodes -> {-1, 0, 1}]
    BY EmptySeq
  <1>3. GamepadType
    <2>1. gamepad_evt_read \in BOOLEAN /\ unread \in BOOLEAN
      BY <1>1
    <2>2. Len(fifo) <= QueueDepth
      BY <1>2, GamepadAssumption DEF GamepadAssumption
    <2> QED BY <1>2, <2>1, <2>2 DEF GamepadType
  <1>4. Decode(0, {}) = {}
    <2>1. (0 \div 512) % 4 = 0 /\ 0 % 512 = 0 /\ 0 # 511 /\ 0 # 1
      OBVIOUS
    <2>2. Axis(0, 4, 6, {}) = {}
      BY <2>1 DEF Axis
    <2>3. Decode(0, {}) = Axis(0, 4, 6, {})
      BY <2>1 DEF Decode
    <2> QED BY <2>2, <2>3
  <1>5. DecodeInv
    BY <1>1, <1>4 DEF DecodeInv
  <1> QED BY <1>3, <1>5 DEF GamepadInv

\* Every word leaves the keys among those that have a meaning.
LEMMA DecodeType ==
    ASSUME GamepadType, NEW w \in {0} \cup Words
    PROVE  Decode(w, gamepad_key) \subseteq {KeyOf(c) : c \in BtnCodes} \cup Directions
  <1>1. gamepad_key \subseteq {KeyOf(c) : c \in BtnCodes} \cup Directions
    BY DEF GamepadType
  <1>2. CASE \E c \in BtnCodes : w = Press(c) \/ w = Release(c)
    BY <1>1, <1>2, DecodePress
  <1>3. CASE w \in 0..1023
    BY <1>1, <1>3, DecodeAxis
  <1> QED BY <1>2, <1>3, WordsAre

LEMMA PadType == GamepadType /\ Pad => GamepadType'
  <1> SUFFICES ASSUME GamepadType, Pad PROVE GamepadType'
    OBVIOUS
  <1>1. ASSUME NEW c \in BtnCodes, Button(c) PROVE GamepadType'
    <2>1. EV_KEY(c, 0) \in Event /\ EV_KEY(c, 1) \in Event
      BY DEF Event
    <2>2. pressed' \subseteq BtnCodes
      BY <1>1 DEF Button, GamepadType
    <2>3. input' \in {Append(input, EV_KEY(c, 0)), Append(input, EV_KEY(c, 1))}
      BY <1>1 DEF Button
    <2>4. input' \in Seq(Event)
      BY <2>1, <2>3, AppendProperties DEF GamepadType
    <2>5. steered' \subseteq Directions
      BY <1>1 DEF Button, GamepadType
    <2> QED BY <1>1, <2>2, <2>4, <2>5 DEF Button, GamepadType, fifoVars
  <1>2. ASSUME NEW c \in HatCodes, NEW v \in {-1, 0, 1}, Hat(c, v) PROVE GamepadType'
    <2>1. EV_ABS(c, v) \in Event
      BY DEF Event
    <2>2. input' \in Seq(Event) /\ hat' \in [HatCodes -> {-1, 0, 1}]
      BY <1>2, <2>1, AppendProperties DEF Hat, GamepadType
    <2>3. steered' \subseteq Directions
      BY <1>2 DEF Hat, GamepadType, Directions, DirectionOf
    <2> QED BY <1>2, <2>2, <2>3 DEF Hat, GamepadType, fifoVars
  <1> QED BY <1>1, <1>2 DEF Pad

LEMMA ThreadType == GamepadType /\ Thread => GamepadType'
  <1> SUFFICES ASSUME GamepadType, Thread PROVE GamepadType'
    OBVIOUS
  <1>1. CASE ReadEvent
    <2>1. input' \in Seq(Event) /\ Head(input) \in Event
      BY <1>1, HeadTailProperties DEF ReadEvent, GamepadType
    <2>2. ev_word' \in {<<w>> : w \in Words}
      BY <1>1, <2>1 DEF ReadEvent, Words
    <2> QED BY <1>1, <2>1, <2>2 DEF ReadEvent, GamepadType, padVars, fifoVars
  <1>2. CASE WriteEvent
    <2>1. PICK w \in Words : ev_word = <<w>>
      BY <1>2 DEF WriteEvent, GamepadType
    <2>2. ev_word \in Seq(Words) /\ Len(ev_word) = 1
      BY <2>1
    <2>3. fifo' \in Seq(Words) /\ Len(fifo') = Len(fifo) + 1
      BY <1>2, <2>2, ConcatProperties DEF WriteEvent, GamepadType
    <2>4. Len(fifo') <= QueueDepth
      BY <1>2, <2>3, LenProperties, GamepadAssumption
         DEF WriteEvent, GamepadAssumption, GamepadType
    <2> QED BY <1>2, <2>3, <2>4 DEF WriteEvent, GamepadType, padVars
  <1> QED BY <1>1, <1>2 DEF Thread

LEMMA ClockType == GamepadType /\ ClockEdge => GamepadType'
  <1> SUFFICES ASSUME GamepadType, ClockEdge PROVE GamepadType'
    OBVIOUS
  <1>1. gamepad_key' \subseteq {KeyOf(c) : c \in BtnCodes} \cup Directions
    BY DecodeType DEF ClockEdge, GamepadType
  <1>2. gamepad_evt_read' \in BOOLEAN /\ unread' \in BOOLEAN
    BY Zenon DEF ClockEdge
  <1>3. /\ fifo' \in Seq(Words) /\ Len(fifo') <= QueueDepth
        /\ q' \in {0} \cup Words
    <2>1. CASE Popping
      BY <2>1, HeadTailProperties, LenProperties, GamepadAssumption
         DEF ClockEdge, Popping, GamepadType, GamepadAssumption
    <2>2. CASE ~Popping
      BY <2>2 DEF ClockEdge, GamepadType
    <2> QED BY <2>1, <2>2
  <1> QED BY <1>1, <1>2, <1>3 DEF ClockEdge, GamepadType, padVars

\* One edge: the word in the port takes effect if it is new, and nothing else does.
LEMMA ClockDecodes ==
    ASSUME GamepadInv, ClockEdge
    PROVE  /\ DecodeInv'
           /\ unread => gamepad_key' = Decode(q, gamepad_key) /\ q \in Words
           /\ ~unread => gamepad_key' = gamepad_key
  <1> USE DEF GamepadInv, DecodeInv
  <1>1. unread => gamepad_key' = Decode(q, gamepad_key) /\ q \in Words
    BY DEF ClockEdge
  <1>2. ~unread => gamepad_key' = gamepad_key
    BY DEF ClockEdge
  <1>3. CASE Popping
    <2>1. Head(fifo) \in Words
      BY <1>3, HeadTailProperties DEF Popping, GamepadType
    <2> QED BY <1>1, <1>2, <1>3, <2>1 DEF ClockEdge, Popping
  <1>4. CASE ~Popping
    <2>1. q' = q /\ ~unread'
      BY <1>4, Zenon DEF ClockEdge
    <2>2. Decode(q, gamepad_key') = gamepad_key'
      BY <1>1, <1>2, DecodeTwice
    <2> QED BY <1>1, <1>2, <2>1, <2>2
  <1> QED BY <1>1, <1>2, <1>3, <1>4

LEMMA StepGamepadInv == GamepadInv /\ [GamepadNext]_gamepadVars => GamepadInv'
  <1> SUFFICES ASSUME GamepadInv, [GamepadNext]_gamepadVars PROVE GamepadInv'
    OBVIOUS
  <1>1. CASE Pad
    <2>1. UNCHANGED fifoVars
      BY <1>1 DEF Pad, Button, Hat
    <2> QED BY <1>1, <2>1, PadType DEF GamepadInv, DecodeInv, fifoVars
  <1>2. CASE Thread
    <2>1. UNCHANGED <<q, gamepad_evt_read, gamepad_key, unread>>
      BY <1>2 DEF Thread, ReadEvent, WriteEvent, fifoVars
    <2> QED BY <1>2, <2>1, ThreadType DEF GamepadInv, DecodeInv
  <1>3. CASE ClockEdge
    BY <1>3, ClockType, ClockDecodes DEF GamepadInv
  <1>4. CASE UNCHANGED gamepadVars
    BY <1>4 DEF GamepadInv, GamepadType, DecodeInv, gamepadVars, padVars, fifoVars
  <1> QED BY <1>1, <1>2, <1>3, <1>4 DEF GamepadNext, Thread

----------------------------------------------------------------------------
(* What a step does to the events under way. *)

\* Everything behind the word in the port.
Behind == fifo \o ev_word \o EncodeAll(input)

LEMMA FlightSplits ==
    ASSUME NEW f \in Seq(Words), NEW e \in Seq(Words), NEW i \in Seq(Words)
    PROVE  /\ f \o e \o i \in Seq(Words)
           /\ f \o e \o i = f \o (e \o i)
           /\ <<>> \o f \o e \o i = f \o e \o i
  <1>1. f \o e \in Seq(Words) /\ f \o e \o i \in Seq(Words)
    BY ConcatProperties
  <1>2. f \o e \o i = f \o (e \o i)
    BY ConcatAssociative
  <1>3. <<>> \o f = f
    BY ConcatEmptySeq
  <1> QED BY <1>1, <1>2, <1>3

LEMMA FirstSplits ==
    ASSUME NEW w \in Words,
           NEW f \in Seq(Words), NEW e \in Seq(Words), NEW i \in Seq(Words)
    PROVE  <<w>> \o f \o e \o i = <<w>> \o (f \o e \o i)
  <1>1. <<w>> \in Seq(Words) /\ f \o e \in Seq(Words)
    BY ConcatProperties
  <1>2. (<<w>> \o f) \o e = <<w>> \o (f \o e)
    BY <1>1, ConcatAssociative
  <1>3. (<<w>> \o (f \o e)) \o i = <<w>> \o (f \o e \o i)
    BY <1>1, ConcatAssociative
  <1> QED BY <1>2, <1>3

LEMMA FlightParts ==
    ASSUME GamepadInv
    PROVE  /\ fifo \in Seq(Words) /\ ev_word \in Seq(Words) /\ EncodeAll(input) \in Seq(Words)
           /\ unread => q \in Words
           /\ Behind \in Seq(Words) /\ InFlight \in Seq(Words)
           /\ unread => InFlight = <<q>> \o Behind
           /\ ~unread => InFlight = Behind
  <1>1. fifo \in Seq(Words) /\ EncodeAll(input) \in Seq(Words)
    BY EncodeAllFacts DEF GamepadInv, GamepadType
  <1>2. ev_word \in Seq(Words)
    <2>1. CASE ev_word = <<>>
      BY <2>1
    <2>2. CASE ev_word # <<>>
      <3>1. PICK w \in Words : ev_word = <<w>>
        BY <2>2 DEF GamepadInv, GamepadType
      <3> QED BY <3>1
    <2> QED BY <2>1, <2>2
  <1>3. unread => q \in Words
    BY DEF GamepadInv, DecodeInv
  <1>4. Behind \in Seq(Words)
    BY <1>1, <1>2, FlightSplits DEF Behind
  <1>5. CASE unread
    <2>1. InFlight = <<q>> \o fifo \o ev_word \o EncodeAll(input)
      BY <1>5 DEF InFlight
    <2>2. InFlight = <<q>> \o Behind
      BY <1>1, <1>2, <1>3, <1>5, <2>1, FlightSplits DEF Behind
    <2>3. InFlight \in Seq(Words)
      BY <1>3, <1>4, <1>5, <2>2, ConcatHead
    <2> QED BY <1>1, <1>2, <1>3, <1>4, <1>5, <2>2, <2>3
  <1>6. CASE ~unread
    <2>1. InFlight = <<>> \o fifo \o ev_word \o EncodeAll(input)
      BY <1>6 DEF InFlight
    <2>2. InFlight = Behind
      BY <1>1, <1>2, <2>1, FlightSplits DEF Behind
    <2> QED BY <1>1, <1>2, <1>4, <1>6, <2>2
  <1> QED BY <1>5, <1>6

\* An event of the pad joins the events under way at their end.
LEMMA PadAppends ==
    ASSUME GamepadInv, NEW e \in Event, input' = Append(input, e),
           UNCHANGED <<ev_word, fifoVars>>
    PROVE  InFlight' = Append(InFlight, Encode(e)) /\ Encode(e) \in Words
  <1>1. Encode(e) \in Words
    BY DEF Words
  <1>2. EncodeAll(input') = Append(EncodeAll(input), Encode(e))
    BY EncodeAllFacts DEF GamepadInv, GamepadType
  <1>3. InFlight' = (IF unread THEN <<q>> ELSE <<>>) \o fifo \o ev_word \o EncodeAll(input')
    BY DEF InFlight, fifoVars
  <1> DEFINE front == (IF unread THEN <<q>> ELSE <<>>) \o fifo \o ev_word
             all == EncodeAll(input)
             w == Encode(e)
  <1>4. front \in Seq(Words)
    <2>1. (IF unread THEN <<q>> ELSE <<>>) \in Seq(Words)
      BY FlightParts
    <2> QED BY <2>1, FlightParts, ConcatProperties
  <1>5. all \in Seq(Words)
    BY FlightParts
  <1>6. InFlight = front \o all /\ InFlight' = front \o Append(all, w)
    BY <1>2, <1>3 DEF InFlight
  <1>7. front \o Append(all, w) = Append(front \o all, w)
    <2> HIDE DEF front, all, w
    <2> QED BY <1>1, <1>4, <1>5, ConcatAppend DEF w
  <1> QED BY <1>1, <1>6, <1>7

\* The thread hands words on and changes none.
LEMMA ThreadKeeps ==
    ASSUME GamepadInv, Thread
    PROVE  InFlight' = InFlight /\ UNCHANGED <<gamepad_key, pressed>>
  <1>1. UNCHANGED <<gamepad_key, pressed, q, unread>>
    BY DEF Thread, ReadEvent, WriteEvent, fifoVars, padVars
  <1>2. ASSUME fifo' \in Seq(Words), ev_word' \in Seq(Words), EncodeAll(input') \in Seq(Words),
               Behind' = Behind
        PROVE  InFlight' = InFlight
    <2>1. CASE unread
      <3>1. InFlight' = <<q>> \o fifo' \o ev_word' \o EncodeAll(input')
        BY <1>1, <2>1 DEF InFlight
      <3>2. q \in Words
        BY <2>1, FlightParts
      <3>3. <<q>> \o fifo' \o ev_word' \o EncodeAll(input')
                = <<q>> \o (fifo' \o ev_word' \o EncodeAll(input'))
        BY <1>2, <3>2, FirstSplits
      <3>4. InFlight' = <<q>> \o Behind'
        BY <3>1, <3>3 DEF Behind
      <3> QED BY <1>2, <2>1, <3>4, FlightParts
    <2>2. CASE ~unread
      <3>1. InFlight' = <<>> \o fifo' \o ev_word' \o EncodeAll(input')
        BY <1>1, <2>2 DEF InFlight
      <3>2. InFlight' = Behind'
        BY <1>2, <3>1, FlightSplits DEF Behind
      <3> QED BY <1>2, <2>2, <3>2, FlightParts
    <2> QED BY <2>1, <2>2
  <1>3. CASE ReadEvent
    <2>1. input \in Seq(Event) /\ input # <<>> /\ ev_word = <<>>
      BY <1>3 DEF ReadEvent, GamepadInv, GamepadType
    <2>2. fifo' = fifo /\ ev_word' = <<Encode(Head(input))>> /\ input' = Tail(input)
      BY <1>3 DEF ReadEvent, fifoVars
    <2>3. /\ Encode(Head(input)) \in Words
          /\ EncodeAll(input) = ev_word' \o EncodeAll(input')
      BY <2>1, <2>2, EncodeAllFacts
    <2>4. input' \in Seq(Event)
      BY <2>1, <2>2, HeadTailProperties
    <2>5. ev_word' \in Seq(Words) /\ EncodeAll(input') \in Seq(Words)
      <3>1. <<Encode(Head(input))>> \in Seq(Words)
        BY <2>3
      <3>2. \A t \in Seq(Event) : EncodeAll(t) \in Seq(Words)
        BY EncodeAllFacts
      <3> QED BY <2>2, <2>4, <3>1, <3>2
    <2>6. fifo \o ev_word' \o EncodeAll(input') = fifo \o EncodeAll(input)
      <3>1. fifo \o ev_word' \o EncodeAll(input') = fifo \o (ev_word' \o EncodeAll(input'))
        BY <2>5, FlightParts, FlightSplits
      <3> QED BY <2>3, <3>1
    <2>7. fifo \o ev_word = fifo
      BY <2>1, FlightParts, ConcatEmptySeq
    <2>8. Behind' = Behind
      BY <2>2, <2>6, <2>7 DEF Behind
    <2> QED BY <1>1, <1>2, <2>2, <2>5, <2>8, FlightParts
  <1>4. CASE WriteEvent
    <2>1. /\ fifo' = fifo \o ev_word /\ ev_word' = <<>> /\ EncodeAll(input') = EncodeAll(input)
          /\ fifo' \in Seq(Words)
      BY <1>4, FlightParts, ConcatProperties DEF WriteEvent
    <2>2. fifo' \o ev_word' = fifo \o ev_word
      BY <2>1, ConcatEmptySeq
    <2>3. Behind' = Behind
      BY <2>1, <2>2 DEF Behind
    <2>4. ev_word' \in Seq(Words)
      BY <2>1
    <2> QED BY <1>1, <1>2, <2>1, <2>3, <2>4, FlightParts
  <1> QED BY <1>1, <1>3, <1>4 DEF Thread

\* An edge of the clock leaves what is behind the word in the port.
LEMMA ClockTakes ==
    ASSUME GamepadInv, ClockEdge
    PROVE  InFlight' = Behind /\ pressed' = pressed
  <1>1. /\ pressed' = pressed /\ ev_word' = ev_word /\ input' = input
    BY DEF ClockEdge, padVars
  <1>2. EncodeAll(input') = EncodeAll(input)
    BY <1>1
  <1>3. CASE Popping
    <2>1. /\ unread' = TRUE /\ q' = Head(fifo) /\ fifo' = Tail(fifo) /\ fifo # <<>>
      BY <1>3 DEF ClockEdge, Popping
    <2>2. /\ q' \in Words /\ fifo' \in Seq(Words) /\ <<q'>> \o fifo' = fifo
      BY <2>1, FlightParts, HeadTailProperties, HeadTailConcat
    <2>3. InFlight' = <<q'>> \o fifo' \o ev_word \o EncodeAll(input)
      BY <1>1, <1>2, <2>1 DEF InFlight
    <2> QED BY <1>1, <2>2, <2>3 DEF Behind
  <1>4. CASE ~Popping
    <2>1. ~unread' /\ fifo' = fifo
      BY <1>4, Zenon DEF ClockEdge, GamepadInv, DecodeInv
    <2>2. InFlight' = <<>> \o fifo \o ev_word \o EncodeAll(input)
      BY <1>1, <1>2, <2>1 DEF InFlight
    <2> QED BY <1>1, <2>2, FlightParts, ConcatEmptySeq DEF Behind
  <1> QED BY <1>3, <1>4

----------------------------------------------------------------------------
(* Buttons, seen from the events under way only. *)

LEMMA OnlyItsWords ==
    \A c, d \in BtnCodes :
        /\ Concerns(Press(c), d) => c = d
        /\ Concerns(Release(c), d) => c = d
        /\ Press(c) # Release(d)
        /\ \A w \in 0..1023 : ~Concerns(w, d)
  <1> TAKE c, d \in BtnCodes
  <1>1. c \in 304..315 /\ d \in 304..315
    BY GamepadAssumption DEF GamepadAssumption
  <1>2. /\ Press(c) = 1536 + c /\ Release(c) = 1024 + c
        /\ Press(d) = 1536 + d /\ Release(d) = 1024 + d
    BY EncodeFacts
  <1>3. \A w : Concerns(w, d) <=> w = 1536 + d \/ w = 1024 + d
    BY <1>2 DEF Concerns
  <1> QED BY <1>1, <1>2, <1>3

\* A button is pressed or released behind the events under way.
LEMMA AppendKeepsButtons ==
    ASSUME NEW seq \in Seq(Words), NEW keys, NEW down, ButtonInv(seq, keys, down),
           NEW w \in Words, NEW now,
           \A c \in BtnCodes : IF Concerns(w, c) THEN w = Press(c) <=> c \in now
                                               ELSE c \in down <=> c \in now
    PROVE  ButtonInv(Append(seq, w), keys, now)
  <1> DEFINE n == Len(seq)
             longer == Append(seq, w)
  <1>1. /\ n \in Nat /\ DOMAIN seq = 1..n /\ DOMAIN longer = 1..(n + 1)
        /\ longer[n + 1] = w /\ \A i \in 1..n : longer[i] = seq[i]
    BY AppendProperties, LenProperties
  <1> HIDE DEF n, longer
  <1>2. SUFFICES ASSUME NEW c \in BtnCodes
        PROVE /\ (\A i \in 1..(n + 1) : ~Concerns(longer[i], c))
                    => (KeyOf(c) \in keys <=> c \in now)
              /\ \A i \in 1..(n + 1) :
                    Concerns(longer[i], c)
                        /\ (\A j \in 1..(n + 1) : j > i => ~Concerns(longer[j], c))
                      => (longer[i] = Press(c) <=> c \in now)
    BY <1>1 DEF ButtonInv, longer
  <1>3. /\ (\A i \in 1..n : ~Concerns(seq[i], c)) => (KeyOf(c) \in keys <=> c \in down)
        /\ \A i \in 1..n :
              Concerns(seq[i], c) /\ (\A j \in 1..n : j > i => ~Concerns(seq[j], c))
                => (seq[i] = Press(c) <=> c \in down)
    BY <1>1 DEF ButtonInv
  <1>4. ASSUME \A i \in 1..(n + 1) : ~Concerns(longer[i], c)
        PROVE  KeyOf(c) \in keys <=> c \in now
    <2>1. ~Concerns(w, c) /\ \A i \in 1..n : ~Concerns(seq[i], c)
      BY <1>1, <1>4
    <2> QED BY <1>3, <2>1
  <1>5. ASSUME NEW i \in 1..(n + 1), Concerns(longer[i], c),
               \A j \in 1..(n + 1) : j > i => ~Concerns(longer[j], c)
        PROVE  longer[i] = Press(c) <=> c \in now
    <2>1. CASE i = n + 1
      BY <1>1, <1>5, <2>1
    <2>2. CASE i # n + 1
      <3>1. i \in 1..n /\ i < n + 1 /\ n + 1 \in 1..(n + 1)
        BY <1>1, <2>2
      <3>2. ~Concerns(w, c)
        BY <1>1, <1>5, <3>1
      <3>3. \A j \in 1..n : j > i => ~Concerns(seq[j], c)
        BY <1>1, <1>5
      <3>4. seq[i] = Press(c) <=> c \in down
        BY <1>1, <1>3, <1>5, <3>1, <3>3
      <3> QED BY <1>1, <3>1, <3>2, <3>4
    <2> QED BY <2>1, <2>2
  <1> QED BY <1>4, <1>5

\* What the block makes of a word for a button: only its own words count.
LEMMA DecodeOfButton ==
    ASSUME NEW w \in Words, NEW keys, NEW c \in BtnCodes
    PROVE  /\ ~Concerns(w, c) => (KeyOf(c) \in Decode(w, keys) <=> KeyOf(c) \in keys)
           /\ Concerns(w, c) => (KeyOf(c) \in Decode(w, keys) <=> w = Press(c))
  <1>1. c \in 304..315 /\ BtnCodes \subseteq 304..315
    BY GamepadAssumption DEF GamepadAssumption
  <1>2. CASE w \in 0..1023
    <2>1. KeyOf(c) \notin Directions
      BY <1>1, KeyOfFacts
    <2>2. Decode(w, keys) \subseteq keys \cup Directions /\ keys \ Directions \subseteq Decode(w, keys)
      BY <1>2, DecodeAxis
    <2>3. ~Concerns(w, c)
      BY <1>2, OnlyItsWords
    <2> QED BY <2>1, <2>2, <2>3
  <1>3. CASE \E d \in BtnCodes : w = Press(d) \/ w = Release(d)
    <2>1. PICK d \in BtnCodes : w = Press(d) \/ w = Release(d)
      BY <1>3
    <2>2. KeyOf(c) = KeyOf(d) => c = d
      BY <1>1, KeyOfFacts
    <2>3. CASE w = Press(d)
      <3>1. Decode(w, keys) = keys \cup {KeyOf(d)}
        BY <2>3, DecodePress
      <3>2. Concerns(w, c) <=> c = d
        BY <2>3, OnlyItsWords DEF Concerns
      <3> QED BY <2>2, <2>3, <3>1, <3>2
    <2>4. CASE w = Release(d)
      <3>1. Decode(w, keys) = keys \ {KeyOf(d)}
        BY <2>4, DecodePress
      <3>2. Concerns(w, c) <=> c = d
        BY <2>4, OnlyItsWords DEF Concerns
      <3>3. w # Press(c)
        BY <2>4, OnlyItsWords
      <3> QED BY <2>2, <3>1, <3>2, <3>3
    <2> QED BY <2>1, <2>3, <2>4
  <1> QED BY <1>2, <1>3, WordsAre

\* The oldest event takes effect.
LEMMA TailKeepsButtons ==
    ASSUME NEW seq \in Seq(Words), seq # <<>>, NEW keys, NEW down, ButtonInv(seq, keys, down)
    PROVE  ButtonInv(Tail(seq), Decode(Head(seq), keys), down)
  <1> DEFINE n == Len(seq)
             rest == Tail(seq)
             w == Head(seq)
             seen == Decode(w, keys)
  <1>1. /\ n \in Nat \ {0} /\ DOMAIN seq = 1..n /\ DOMAIN rest = 1..(n - 1)
        /\ seq[1] = w /\ w \in Words /\ \A i \in 1..(n - 1) : rest[i] = seq[i + 1]
    BY HeadTailProperties, LenProperties, EmptySeq
  <1>2. \A c \in BtnCodes :
          /\ ~Concerns(w, c) => (KeyOf(c) \in seen <=> KeyOf(c) \in keys)
          /\ Concerns(w, c) => (KeyOf(c) \in seen <=> w = Press(c))
    BY <1>1, DecodeOfButton
  <1> HIDE DEF n, rest, w, seen
  <1>3. SUFFICES ASSUME NEW c \in BtnCodes
        PROVE /\ (\A i \in 1..(n - 1) : ~Concerns(rest[i], c))
                    => (KeyOf(c) \in seen <=> c \in down)
              /\ \A i \in 1..(n - 1) :
                    Concerns(rest[i], c)
                        /\ (\A j \in 1..(n - 1) : j > i => ~Concerns(rest[j], c))
                      => (rest[i] = Press(c) <=> c \in down)
    BY <1>1 DEF ButtonInv, rest, seen, w
  <1>4. /\ (\A i \in 1..n : ~Concerns(seq[i], c)) => (KeyOf(c) \in keys <=> c \in down)
        /\ \A i \in 1..n :
              Concerns(seq[i], c) /\ (\A j \in 1..n : j > i => ~Concerns(seq[j], c))
                => (seq[i] = Press(c) <=> c \in down)
    BY <1>1 DEF ButtonInv
  <1>5. ASSUME \A i \in 1..(n - 1) : ~Concerns(rest[i], c)
        PROVE  KeyOf(c) \in seen <=> c \in down
    <2>1. \A j \in 1..n : j > 1 => ~Concerns(seq[j], c)
      <3> TAKE j \in 1..n
      <3> HAVE j > 1
      <3>1. j - 1 \in 1..(n - 1) /\ (j - 1) + 1 = j
        BY <1>1
      <3> QED BY <1>1, <1>5, <3>1
    <2>2. CASE Concerns(w, c)
      <3>1. w = Press(c) <=> c \in down
        BY <1>1, <1>4, <2>1, <2>2
      <3> QED BY <1>2, <2>2, <3>1
    <2>3. CASE ~Concerns(w, c)
      <3>1. \A j \in 1..n : ~Concerns(seq[j], c)
        BY <1>1, <2>1, <2>3
      <3> QED BY <1>2, <1>4, <2>3, <3>1
    <2> QED BY <2>2, <2>3
  <1>6. ASSUME NEW i \in 1..(n - 1), Concerns(rest[i], c),
               \A j \in 1..(n - 1) : j > i => ~Concerns(rest[j], c)
        PROVE  rest[i] = Press(c) <=> c \in down
    <2>1. i + 1 \in 1..n /\ rest[i] = seq[i + 1]
      BY <1>1
    <2>2. \A j \in 1..n : j > i + 1 => ~Concerns(seq[j], c)
      <3> TAKE j \in 1..n
      <3> HAVE j > i + 1
      <3>1. j - 1 \in 1..(n - 1) /\ (j - 1) + 1 = j /\ j - 1 > i
        BY <1>1
      <3> QED BY <1>1, <1>6, <3>1
    <2> QED BY <1>4, <1>6, <2>1, <2>2
  <1> QED BY <1>5, <1>6

----------------------------------------------------------------------------
(* The same for the axes. *)

LEMMA AxisWords ==
    /\ \A c \in BtnCodes : ~AxisWord(Press(c)) /\ ~AxisWord(Release(c))
    /\ \A c \in HatCodes, v \in {-1, 0, 1} :
           AxisWord(Encode(EV_ABS(c, v))) /\ (v = 0 => Centre(Encode(EV_ABS(c, v))))
  <1>1. BtnCodes \subseteq 304..315
    BY GamepadAssumption DEF GamepadAssumption
  <1>2. \A c \in HatCodes : Encode(EV_ABS(c, 0)) \in {0, 512}
    BY DEF Encode, EV_ABS
  <1>3. \A c \in BtnCodes : Press(c) \notin 0..1023 /\ Release(c) \notin 0..1023
    <2> SUFFICES ASSUME NEW c \in BtnCodes
                 PROVE  Press(c) \notin 0..1023 /\ Release(c) \notin 0..1023
      OBVIOUS
    <2>1. c \in 304..315 /\ Press(c) = 1536 + c /\ Release(c) = 1024 + c
      BY <1>1, EncodeFacts
    <2> QED BY <2>1
  <1>4. \A c \in HatCodes, v \in {-1, 0, 1} : v = 0 => Encode(EV_ABS(c, v)) \in {0, 512}
    BY <1>2
  <1>5. \A c \in BtnCodes : ~AxisWord(Press(c)) /\ ~AxisWord(Release(c))
    BY <1>3 DEF AxisWord
  <1>6. ASSUME NEW c \in HatCodes, NEW v \in {-1, 0, 1}
        PROVE  AxisWord(Encode(EV_ABS(c, v))) /\ (v = 0 => Centre(Encode(EV_ABS(c, v))))
    <2>1. Encode(EV_ABS(c, v)) \in 0..1023
      BY EncodeFacts
    <2>2. v = 0 => Encode(EV_ABS(c, v)) \in {0, 512}
      BY <1>4
    <2> QED BY <2>1, <2>2 DEF AxisWord, Centre
  <1> QED BY <1>5, <1>6

\* A centre clears all directions; a button leaves them alone.
LEMMA DecodeOfAxis ==
    ASSUME NEW w \in Words, NEW keys
    PROVE  /\ Centre(w) => Decode(w, keys) \cap Directions = {}
           /\ ~AxisWord(w) => Decode(w, keys) \cap Directions = keys \cap Directions
  <1>1. ASSUME Centre(w)
        PROVE  Decode(w, keys) \cap Directions = {}
    <2>1. /\ (0 \div 512) % 4 = 0 /\ 0 % 512 = 0
          /\ (512 \div 512) % 4 = 1 /\ 512 % 512 = 0
      OBVIOUS
    <2>2. Decode(w, keys) = keys \ Directions
      BY <1>1, <2>1 DEF Centre, Decode, Axis
    <2> QED BY <2>2
  <1>2. ASSUME ~AxisWord(w)
        PROVE  Decode(w, keys) \cap Directions = keys \cap Directions
    <2>1. PICK c \in BtnCodes : w = Press(c) \/ w = Release(c)
      BY <1>2, WordsAre DEF AxisWord
    <2>2. KeyOf(c) \notin Directions
      BY KeyOfFacts, GamepadAssumption DEF GamepadAssumption
    <2>3. Decode(w, keys) \in {keys \cup {KeyOf(c)}, keys \ {KeyOf(c)}}
      BY <2>1, DecodePress
    <2> QED BY <2>2, <2>3
  <1> QED BY <1>1, <1>2

LEMMA AxisWordsAre ==
    /\ \A w \in Words : AxisWord(w) => w \in {0, 512} \cup {PushWord(d) : d \in Directions}
    /\ \A c \in HatCodes, v \in {-1, 1} : /\ DirectionOf(c, v) \in Directions
                                         /\ Encode(EV_ABS(c, v)) = PushWord(DirectionOf(c, v))
  <1>1. ASSUME NEW c \in HatCodes, NEW v \in {-1, 1}
        PROVE  /\ DirectionOf(c, v) \in Directions
               /\ Encode(EV_ABS(c, v)) = PushWord(DirectionOf(c, v))
    BY GamepadAssumption
       DEF GamepadAssumption, DirectionOf, Directions, Encode, EV_ABS, PushWord
  <1>2. ASSUME NEW w \in Words, AxisWord(w)
        PROVE  w \in {0, 512} \cup {PushWord(d) : d \in Directions}
    <2>1. PICK e \in Event : w = Encode(e)
      BY DEF Words
    <2>2. CASE \E c \in BtnCodes, v \in {0, 1} : e = EV_KEY(c, v)
      BY <1>2, <2>1, <2>2, AxisWords DEF Press, Release
    <2>3. CASE \E c \in HatCodes, v \in {-1, 0, 1} : e = EV_ABS(c, v)
      <3>1. PICK c \in HatCodes, v \in {-1, 0, 1} : e = EV_ABS(c, v)
        BY <2>3
      <3>2. CASE v = 0
        BY <2>1, <3>1, <3>2, AxisWords DEF Centre
      <3>3. CASE v # 0
        BY <1>1, <2>1, <3>1, <3>3
      <3> QED BY <3>2, <3>3
    <2> QED BY <2>2, <2>3 DEF Event
  <1> QED BY <1>1, <1>2

\* Directions have words of their own, and none of them is a centre.
LEMMA PushWords ==
    \A d \in Directions : /\ AxisWord(PushWord(d)) /\ ~Centre(PushWord(d))
                          /\ \A e \in Directions : Turns(PushWord(e), d) <=> e = d
  BY DEF Directions, AxisWord, Centre, PushWord, Turns

\* What the block makes of the word of a direction.
LEMMA DecodePush ==
    ASSUME NEW d \in Directions, NEW keys
    PROVE  Decode(PushWord(d), keys) = keys \cup {d}
  <1>1. /\ (511 \div 512) % 4 = 0 /\ 511 % 512 = 511
        /\ (1 \div 512) % 4 = 0 /\ 1 % 512 = 1
        /\ (1023 \div 512) % 4 = 1 /\ 1023 % 512 = 511
        /\ (513 \div 512) % 4 = 1 /\ 513 % 512 = 1
    OBVIOUS
  <1>2. CASE d = 4
    <2>1. PushWord(d) = 511
      BY <1>2 DEF PushWord
    <2> QED BY <1>1, <1>2, <2>1 DEF Decode, Axis
  <1>3. CASE d = 6
    <2>1. PushWord(d) = 1
      BY <1>3 DEF PushWord
    <2> QED BY <1>1, <1>3, <2>1 DEF Decode, Axis
  <1>4. CASE d = 2
    <2>1. PushWord(d) = 1023
      BY <1>4 DEF PushWord
    <2> QED BY <1>1, <1>4, <2>1 DEF Decode, Axis
  <1>5. CASE d = 8
    <2>1. PushWord(d) = 513
      BY <1>5 DEF PushWord
    <2> QED BY <1>1, <1>5, <2>1 DEF Decode, Axis
  <1> QED BY <1>2, <1>3, <1>4, <1>5 DEF Directions

\* Only the words that turn a direction count for it.
LEMMA DecodeOfDirection ==
    ASSUME NEW w \in Words, NEW keys, NEW d \in Directions
    PROVE  /\ ~Turns(w, d) => (d \in Decode(w, keys) <=> d \in keys)
           /\ Turns(w, d) => (d \in Decode(w, keys) <=> w = PushWord(d))
  <1>1. CASE ~AxisWord(w)
    <2>1. ~Turns(w, d)
      BY <1>1, PushWords DEF Turns, Centre, AxisWord
    <2> QED BY <1>1, <2>1, DecodeOfAxis
  <1>2. CASE Centre(w)
    <2>1. w # PushWord(d) /\ Turns(w, d)
      BY <1>2, PushWords DEF Turns
    <2> QED BY <1>2, <2>1, DecodeOfAxis
  <1>3. CASE \E e \in Directions : w = PushWord(e)
    <2>1. PICK e \in Directions : w = PushWord(e)
      BY <1>3
    <2>2. /\ Turns(w, d) <=> e = d
          /\ Decode(w, keys) = keys \cup {e}
      BY <2>1, PushWords, DecodePush
    <2> QED BY <2>1, <2>2
  <1> QED BY <1>1, <1>2, <1>3, AxisWordsAre DEF Centre

\* An axis moves, or a button, behind the events under way.
LEMMA AppendKeepsDirections ==
    ASSUME NEW seq \in Seq(Words), NEW keys, NEW dirs, DirectionInv(seq, keys, dirs),
           NEW w \in Words, NEW now,
           \A d \in Directions : IF Turns(w, d) THEN w = PushWord(d) <=> d \in now
                                               ELSE d \in dirs <=> d \in now
    PROVE  DirectionInv(Append(seq, w), keys, now)
  <1> DEFINE n == Len(seq)
             longer == Append(seq, w)
  <1>1. /\ n \in Nat /\ DOMAIN seq = 1..n /\ DOMAIN longer = 1..(n + 1)
        /\ longer[n + 1] = w /\ \A i \in 1..n : longer[i] = seq[i]
    BY AppendProperties, LenProperties
  <1> HIDE DEF n, longer
  <1>2. SUFFICES ASSUME NEW d \in Directions
        PROVE /\ (\A i \in 1..(n + 1) : ~Turns(longer[i], d))
                    => (d \in keys <=> d \in now)
              /\ \A i \in 1..(n + 1) :
                    Turns(longer[i], d)
                        /\ (\A j \in 1..(n + 1) : j > i => ~Turns(longer[j], d))
                      => (longer[i] = PushWord(d) <=> d \in now)
    BY <1>1 DEF DirectionInv, longer
  <1>3. /\ (\A i \in 1..n : ~Turns(seq[i], d)) => (d \in keys <=> d \in dirs)
        /\ \A i \in 1..n :
              Turns(seq[i], d) /\ (\A j \in 1..n : j > i => ~Turns(seq[j], d))
                => (seq[i] = PushWord(d) <=> d \in dirs)
    BY <1>1 DEF DirectionInv
  <1>4. ASSUME \A i \in 1..(n + 1) : ~Turns(longer[i], d)
        PROVE  d \in keys <=> d \in now
    <2>1. ~Turns(w, d) /\ \A i \in 1..n : ~Turns(seq[i], d)
      BY <1>1, <1>4
    <2> QED BY <1>3, <2>1
  <1>5. ASSUME NEW i \in 1..(n + 1), Turns(longer[i], d),
               \A j \in 1..(n + 1) : j > i => ~Turns(longer[j], d)
        PROVE  longer[i] = PushWord(d) <=> d \in now
    <2>1. CASE i = n + 1
      BY <1>1, <1>5, <2>1
    <2>2. CASE i # n + 1
      <3>1. i \in 1..n /\ i < n + 1 /\ n + 1 \in 1..(n + 1)
        BY <1>1, <2>2
      <3>2. ~Turns(w, d)
        BY <1>1, <1>5, <3>1
      <3>3. \A j \in 1..n : j > i => ~Turns(seq[j], d)
        BY <1>1, <1>5
      <3>4. seq[i] = PushWord(d) <=> d \in dirs
        BY <1>1, <1>3, <1>5, <3>1, <3>3
      <3> QED BY <1>1, <3>1, <3>2, <3>4
    <2> QED BY <2>1, <2>2
  <1> QED BY <1>4, <1>5

\* The oldest event takes effect.
LEMMA TailKeepsDirections ==
    ASSUME NEW seq \in Seq(Words), seq # <<>>, NEW keys, NEW dirs, DirectionInv(seq, keys, dirs)
    PROVE  DirectionInv(Tail(seq), Decode(Head(seq), keys), dirs)
  <1> DEFINE n == Len(seq)
             rest == Tail(seq)
             w == Head(seq)
             seen == Decode(w, keys)
  <1>1. /\ n \in Nat \ {0} /\ DOMAIN seq = 1..n /\ DOMAIN rest = 1..(n - 1)
        /\ seq[1] = w /\ w \in Words /\ \A i \in 1..(n - 1) : rest[i] = seq[i + 1]
    BY HeadTailProperties, LenProperties, EmptySeq
  <1>2. \A d \in Directions :
          /\ ~Turns(w, d) => (d \in seen <=> d \in keys)
          /\ Turns(w, d) => (d \in seen <=> w = PushWord(d))
    BY <1>1, DecodeOfDirection
  <1> HIDE DEF n, rest, w, seen
  <1>3. SUFFICES ASSUME NEW d \in Directions
        PROVE /\ (\A i \in 1..(n - 1) : ~Turns(rest[i], d))
                    => (d \in seen <=> d \in dirs)
              /\ \A i \in 1..(n - 1) :
                    Turns(rest[i], d)
                        /\ (\A j \in 1..(n - 1) : j > i => ~Turns(rest[j], d))
                      => (rest[i] = PushWord(d) <=> d \in dirs)
    BY <1>1 DEF DirectionInv, rest, seen, w
  <1>4. /\ (\A i \in 1..n : ~Turns(seq[i], d)) => (d \in keys <=> d \in dirs)
        /\ \A i \in 1..n :
              Turns(seq[i], d) /\ (\A j \in 1..n : j > i => ~Turns(seq[j], d))
                => (seq[i] = PushWord(d) <=> d \in dirs)
    BY <1>1 DEF DirectionInv
  <1>5. ASSUME \A i \in 1..(n - 1) : ~Turns(rest[i], d)
        PROVE  d \in seen <=> d \in dirs
    <2>1. \A j \in 1..n : j > 1 => ~Turns(seq[j], d)
      <3> TAKE j \in 1..n
      <3> HAVE j > 1
      <3>1. j - 1 \in 1..(n - 1) /\ (j - 1) + 1 = j
        BY <1>1
      <3> QED BY <1>1, <1>5, <3>1
    <2>2. CASE Turns(w, d)
      <3>1. w = PushWord(d) <=> d \in dirs
        BY <1>1, <1>4, <2>1, <2>2
      <3> QED BY <1>2, <2>2, <3>1
    <2>3. CASE ~Turns(w, d)
      <3>1. \A j \in 1..n : ~Turns(seq[j], d)
        BY <1>1, <2>1, <2>3
      <3> QED BY <1>2, <1>4, <2>3, <3>1
    <2> QED BY <2>2, <2>3
  <1>6. ASSUME NEW i \in 1..(n - 1), Turns(rest[i], d),
               \A j \in 1..(n - 1) : j > i => ~Turns(rest[j], d)
        PROVE  rest[i] = PushWord(d) <=> d \in dirs
    <2>1. i + 1 \in 1..n /\ rest[i] = seq[i + 1]
      BY <1>1
    <2>2. \A j \in 1..n : j > i + 1 => ~Turns(seq[j], d)
      <3> TAKE j \in 1..n
      <3> HAVE j > i + 1
      <3>1. j - 1 \in 1..(n - 1) /\ (j - 1) + 1 = j /\ j - 1 > i
        BY <1>1
      <3> QED BY <1>1, <1>6, <3>1
    <2> QED BY <1>4, <1>6, <2>1, <2>2
  <1> QED BY <1>5, <1>6

----------------------------------------------------------------------------
(* The steps of the model, seen from the events under way. *)

ButtonsAgree == ButtonInv(InFlight, gamepad_key, pressed)

LEMMA ButtonsInit == GamepadInit => ButtonsAgree
  <1> SUFFICES ASSUME GamepadInit PROVE ButtonsAgree
    OBVIOUS
  <1>1. input = <<>> /\ EncodeAll(<<>>) = <<>>
    BY DEF GamepadInit, EncodeAll
  <1>2. InFlight = <<>> /\ DOMAIN InFlight = {}
    BY <1>1 DEF GamepadInit, InFlight
  <1> QED BY <1>2 DEF GamepadInit, ButtonsAgree, ButtonInv

LEMMA ClockSteps ==
    ASSUME GamepadInv, ClockEdge
    PROVE  \/ /\ InFlight # <<>> /\ InFlight' = Tail(InFlight)
              /\ gamepad_key' = Decode(Head(InFlight), gamepad_key)
           \/ InFlight' = InFlight /\ gamepad_key' = gamepad_key
  <1>1. CASE unread
    <2>1. q \in Words /\ gamepad_key' = Decode(q, gamepad_key)
      BY <1>1, ClockDecodes
    <2>2. InFlight = <<q>> \o Behind /\ Behind \in Seq(Words)
      BY <1>1, FlightParts
    <2>3. InFlight # <<>> /\ Head(InFlight) = q /\ Tail(InFlight) = Behind
      BY <2>1, <2>2, ConcatHead
    <2> QED BY <2>1, <2>3, ClockTakes
  <1>2. CASE ~unread
    BY <1>2, ClockDecodes, ClockTakes, FlightParts
  <1> QED BY <1>1, <1>2

LEMMA StepButtons ==
    ASSUME GamepadInv, ButtonsAgree, [GamepadNext]_gamepadVars
    PROVE  ButtonsAgree'
  <1> SUFFICES ButtonInv(InFlight', gamepad_key', pressed')
    BY DEF ButtonsAgree, ButtonInv
  <1>1. InFlight \in Seq(Words)
    BY FlightParts
  <1>2. ASSUME NEW c \in BtnCodes, Button(c)
        PROVE  ButtonInv(InFlight', gamepad_key', pressed')
    <2> DEFINE w == IF c \in pressed THEN Release(c) ELSE Press(c)
    <2>1. /\ InFlight' = Append(InFlight, w) /\ w \in Words
      <3>1. EV_KEY(c, 0) \in Event /\ EV_KEY(c, 1) \in Event
        BY DEF Event
      <3>2. CASE c \in pressed
        BY <1>2, <3>1, <3>2, PadAppends DEF Button, Release
      <3>3. CASE c \notin pressed
        BY <1>2, <3>1, <3>3, PadAppends DEF Button, Press
      <3> QED BY <3>2, <3>3
    <2>2. gamepad_key' = gamepad_key
      BY <1>2 DEF Button, fifoVars
    <2>3. pressed' = IF c \in pressed THEN pressed \ {c} ELSE pressed \cup {c}
      BY <1>2 DEF Button
    <2>4. \A d \in BtnCodes : Concerns(w, d) <=> c = d
      BY OnlyItsWords DEF Concerns
    <2>5. w = Press(c) <=> c \notin pressed
      BY OnlyItsWords
    <2> HIDE DEF w
    <2>6. \A d \in BtnCodes : IF Concerns(w, d) THEN w = Press(d) <=> d \in pressed'
                                                ELSE d \in pressed <=> d \in pressed'
      BY <2>3, <2>4, <2>5
    <2> QED BY <1>1, <2>1, <2>2, <2>6, AppendKeepsButtons DEF ButtonsAgree
  <1>3. ASSUME NEW c \in HatCodes, NEW v \in {-1, 0, 1}, Hat(c, v)
        PROVE  ButtonInv(InFlight', gamepad_key', pressed')
    <2> DEFINE w == Encode(EV_ABS(c, v))
    <2>1. EV_ABS(c, v) \in Event
      BY DEF Event
    <2>2. InFlight' = Append(InFlight, w) /\ w \in Words
      BY <1>3, <2>1, PadAppends DEF Hat
    <2>3. gamepad_key' = gamepad_key /\ pressed' = pressed
      BY <1>3 DEF Hat, fifoVars
    <2>4. w \in 0..1023
      BY EncodeFacts
    <2> HIDE DEF w
    <2>5. \A d \in BtnCodes : ~Concerns(w, d)
      BY <2>4, OnlyItsWords
    <2> QED BY <1>1, <2>2, <2>3, <2>5, AppendKeepsButtons DEF ButtonsAgree
  <1>4. CASE Thread
    BY <1>4, ThreadKeeps DEF ButtonsAgree
  <1>5. CASE ClockEdge
    <2>1. pressed' = pressed
      BY <1>5, ClockTakes
    <2> QED BY <1>1, <1>5, <2>1, ClockSteps, TailKeepsButtons DEF ButtonsAgree
  <1>6. CASE UNCHANGED gamepadVars
    <2>1. InFlight' = InFlight /\ UNCHANGED <<gamepad_key, pressed>>
      BY <1>6 DEF gamepadVars, padVars, fifoVars, InFlight
    <2> QED BY <2>1 DEF ButtonsAgree
  <1> QED BY <1>2, <1>3, <1>4, <1>5, <1>6 DEF GamepadNext, Pad, Thread

DirectionsAgree == DirectionInv(InFlight, gamepad_key, steered)

\* With both axes at their centre the last thing that happened to either was its centre.
RestAgrees == (\A c \in HatCodes : hat[c] = 0) => steered = {}

LEMMA DirectionsInit == GamepadInit => DirectionsAgree /\ RestAgrees
  <1> SUFFICES ASSUME GamepadInit PROVE DirectionsAgree /\ RestAgrees
    OBVIOUS
  <1>1. input = <<>> /\ EncodeAll(<<>>) = <<>>
    BY DEF GamepadInit, EncodeAll
  <1>2. InFlight = <<>> /\ DOMAIN InFlight = {} /\ gamepad_key = {} /\ steered = {}
    BY <1>1 DEF GamepadInit, InFlight
  <1> QED BY <1>2 DEF DirectionsAgree, DirectionInv, RestAgrees

LEMMA StepRest ==
    ASSUME GamepadInv, RestAgrees, [GamepadNext]_gamepadVars
    PROVE  RestAgrees'
  <1>1. ASSUME NEW c \in HatCodes, NEW v \in {-1, 0, 1}, Hat(c, v)
        PROVE  RestAgrees'
    <2>1. hat \in [HatCodes -> {-1, 0, 1}] /\ hat' = [hat EXCEPT ![c] = v]
      BY <1>1 DEF Hat, GamepadInv, GamepadType
    <2>2. hat'[c] = v
      BY <2>1
    <2>3. v = 0 => steered' = {}
      BY <1>1 DEF Hat
    <2> QED BY <2>2, <2>3 DEF RestAgrees
  <1>2. CASE UNCHANGED <<hat, steered>>
    BY <1>2 DEF RestAgrees
  <1>3. ASSUME NEW c \in BtnCodes, Button(c)
        PROVE  UNCHANGED <<hat, steered>>
    BY <1>3 DEF Button
  <1>4. Thread \/ ClockEdge \/ UNCHANGED gamepadVars => UNCHANGED <<hat, steered>>
    BY DEF Thread, ReadEvent, WriteEvent, ClockEdge, gamepadVars, padVars
  <1> QED BY <1>1, <1>2, <1>3, <1>4 DEF GamepadNext, Pad, Thread

LEMMA StepDirections ==
    ASSUME GamepadInv, DirectionsAgree, [GamepadNext]_gamepadVars
    PROVE  DirectionsAgree'
  <1> SUFFICES DirectionInv(InFlight', gamepad_key', steered')
    BY DEF DirectionsAgree, DirectionInv
  <1>1. InFlight \in Seq(Words)
    BY FlightParts
  <1>2. ASSUME NEW c \in BtnCodes, Button(c)
        PROVE  DirectionInv(InFlight', gamepad_key', steered')
    <2>1. PICK v \in {0, 1} : input' = Append(input, EV_KEY(c, v))
      BY <1>2 DEF Button
    <2>2. EV_KEY(c, v) \in Event
      BY DEF Event
    <2> DEFINE w == Encode(EV_KEY(c, v))
    <2>3. InFlight' = Append(InFlight, w) /\ w \in Words
      BY <1>2, <2>1, <2>2, PadAppends DEF Button
    <2>4. UNCHANGED <<gamepad_key, steered>>
      BY <1>2 DEF Button, fifoVars
    <2>5. ~AxisWord(w)
      BY AxisWords DEF Press, Release
    <2> HIDE DEF w
    <2>6. \A d \in Directions : ~Turns(w, d)
      BY <2>5, PushWords DEF Turns, Centre, AxisWord
    <2> QED BY <1>1, <2>3, <2>4, <2>6, AppendKeepsDirections DEF DirectionsAgree
  <1>3. ASSUME NEW c \in HatCodes, NEW v \in {-1, 0, 1}, Hat(c, v)
        PROVE  DirectionInv(InFlight', gamepad_key', steered')
    <2>1. EV_ABS(c, v) \in Event
      BY DEF Event
    <2> DEFINE w == Encode(EV_ABS(c, v))
    <2>2. InFlight' = Append(InFlight, w) /\ w \in Words
      BY <1>3, <2>1, PadAppends DEF Hat
    <2>3. gamepad_key' = gamepad_key
      BY <1>3 DEF Hat, fifoVars
    <2>4. steered' = IF v = 0 THEN {} ELSE steered \cup {DirectionOf(c, v)}
      BY <1>3 DEF Hat
    <2>5. /\ v = 0 => Centre(w)
          /\ v # 0 => DirectionOf(c, v) \in Directions /\ w = PushWord(DirectionOf(c, v))
      BY AxisWords, AxisWordsAre
    <2> HIDE DEF w
    <2>6. \A d \in Directions : IF Turns(w, d) THEN w = PushWord(d) <=> d \in steered'
                                               ELSE d \in steered <=> d \in steered'
      <3>1. CASE v = 0
        BY <2>4, <2>5, <3>1, PushWords DEF Turns
      <3>2. CASE v # 0
        <4>1. steered' = steered \cup {DirectionOf(c, v)}
          BY <2>4, <3>2
        <4>2. \A d \in Directions : /\ Turns(w, d) <=> DirectionOf(c, v) = d
                                    /\ Turns(w, d) => w = PushWord(d)
          BY <2>5, <3>2, PushWords
        <4> QED BY <4>1, <4>2
      <3> QED BY <3>1, <3>2
    <2> QED BY <1>1, <2>2, <2>3, <2>6, AppendKeepsDirections DEF DirectionsAgree
  <1>4. CASE Thread
    <2>1. steered' = steered
      BY <1>4 DEF Thread, ReadEvent, WriteEvent, padVars
    <2> QED BY <1>4, <2>1, ThreadKeeps DEF DirectionsAgree
  <1>5. CASE ClockEdge
    <2>1. steered' = steered
      BY <1>5 DEF ClockEdge, padVars
    <2> QED BY <1>1, <1>5, <2>1, ClockSteps, TailKeepsDirections DEF DirectionsAgree
  <1>6. CASE UNCHANGED gamepadVars
    <2>1. InFlight' = InFlight /\ UNCHANGED <<gamepad_key, steered>>
      BY <1>6 DEF gamepadVars, padVars, fifoVars, InFlight
    <2> QED BY <2>1 DEF DirectionsAgree
  <1> QED BY <1>2, <1>3, <1>4, <1>5, <1>6 DEF GamepadNext, Pad, Thread

\* A step of the model is a step of EventOrder, or changes nothing there.
LEMMA StepOrder ==
    ASSUME GamepadInv, [GamepadNext]_gamepadVars
    PROVE  [Order!OrderNext]_(Order!orderVars)
  <1> USE DEF Order!OrderNext, Order!Happen, Order!TakeEffect, Order!orderVars
  <1>1. ASSUME NEW c \in BtnCodes, Button(c)
        PROVE  Order!OrderNext
    <2>1. EV_KEY(c, 0) \in Event /\ EV_KEY(c, 1) \in Event
      BY DEF Event
    <2>2. PICK e \in Event : input' = Append(input, e)
      BY <1>1, <2>1 DEF Button
    <2>3. InFlight' = Append(InFlight, Encode(e)) /\ Encode(e) \in Words
      BY <1>1, <2>2, PadAppends DEF Button
    <2>4. gamepad_key' = gamepad_key
      BY <1>1 DEF Button, fifoVars
    <2> QED BY <2>3, <2>4
  <1>2. ASSUME NEW c \in HatCodes, NEW v \in {-1, 0, 1}, Hat(c, v)
        PROVE  Order!OrderNext
    <2>1. EV_ABS(c, v) \in Event /\ input' = Append(input, EV_ABS(c, v))
      BY <1>2 DEF Event, Hat
    <2>2. /\ InFlight' = Append(InFlight, Encode(EV_ABS(c, v)))
          /\ Encode(EV_ABS(c, v)) \in Words
      BY <1>2, <2>1, PadAppends DEF Hat
    <2>3. gamepad_key' = gamepad_key
      BY <1>2 DEF Hat, fifoVars
    <2> QED BY <2>2, <2>3
  <1>3. CASE Thread
    BY <1>3, ThreadKeeps
  <1>4. CASE ClockEdge
    BY <1>4, ClockSteps
  <1>5. CASE UNCHANGED gamepadVars
    BY <1>5 DEF gamepadVars, padVars, fifoVars, InFlight
  <1> QED BY <1>1, <1>2, <1>3, <1>4, <1>5 DEF GamepadNext, Pad, Thread

----------------------------------------------------------------------------

\* The invariant: types, a word in the port that was decoded has no effect left, and each
\* button and each direction is as the last event under way that concerns it will leave it.
THEOREM GamepadInvariant ==
    GamepadSpec => [](GamepadInv /\ ButtonsAgree /\ DirectionsAgree /\ RestAgrees)
  <1> DEFINE All == GamepadInv /\ ButtonsAgree /\ DirectionsAgree /\ RestAgrees
  <1>1. GamepadInit => All
    BY InitGamepadInv, ButtonsInit, DirectionsInit
  <1>2. All /\ [GamepadNext]_gamepadVars => All'
    BY StepGamepadInv, StepButtons, StepDirections, StepRest
  <1> QED BY <1>1, <1>2, PTL DEF GamepadSpec

\* The registers, the bridge queue and its words keep to their ranges.
THEOREM GamepadTypeCorrect == GamepadSpec => []GamepadType
  <1>1. GamepadInv => GamepadType
    BY DEF GamepadInv
  <1> QED BY <1>1, GamepadInvariant, PTL

\* The game sees exactly the buttons that are down once nothing is on its way, although
\* the block decodes words twice and the queue makes the thread wait.
THEOREM ButtonsAreShown == GamepadSpec => []ButtonsShown
  <1>1. GamepadInv /\ ButtonsAgree => ButtonsShown
    <2> SUFFICES ASSUME ButtonsAgree, InFlight = <<>> PROVE
                    \A c \in BtnCodes : KeyOf(c) \in gamepad_key <=> c \in pressed
      BY DEF ButtonsShown, Quiet
    <2>1. DOMAIN InFlight = {}
      OBVIOUS
    <2> QED BY <2>1 DEF ButtonsAgree, ButtonInv
  <1> QED BY <1>1, GamepadInvariant, PTL

\* Once nothing is on its way the game sees the directions pushed since an axis last came to its
\* centre, which clears those of both; a pad that is left alone steers nowhere.
THEOREM DirectionsAreShown == GamepadSpec => []DirectionsShown
  <1>1. GamepadInv /\ DirectionsAgree /\ RestAgrees => DirectionsShown
    <2> SUFFICES ASSUME GamepadInv, DirectionsAgree, RestAgrees, InFlight = <<>>
                 PROVE  /\ gamepad_key \cap Directions = steered
                        /\ (\A c \in HatCodes : hat[c] = 0) => steered = {}
      BY DEF DirectionsShown, Quiet
    <2>1. DOMAIN InFlight = {}
      OBVIOUS
    <2>2. \A d \in Directions : d \in gamepad_key <=> d \in steered
      BY <2>1 DEF DirectionsAgree, DirectionInv
    <2>3. steered \subseteq Directions
      BY DEF GamepadInv, GamepadType
    <2> QED BY <2>2, <2>3 DEF RestAgrees
  <1> QED BY <1>1, GamepadInvariant, PTL

\* Thread, bridge queue and block implement the safety part of EventOrder: events take effect
\* in order, each once.
THEOREM EventsInOrder ==
    GamepadSpec => Order!OrderInit /\ [][Order!OrderNext]_(Order!orderVars)
  <1>1. GamepadInit => Order!OrderInit
    <2>1. EncodeAll(<<>>) = <<>>
      BY DEF EncodeAll
    <2> QED BY <2>1 DEF GamepadInit, Order!OrderInit, InFlight
  <1>2. GamepadInv /\ [GamepadNext]_gamepadVars => [Order!OrderNext]_(Order!orderVars)
    BY StepOrder
  <1> QED BY <1>1, <1>2, GamepadInvariant, PTL DEF GamepadSpec

=============================================================================
