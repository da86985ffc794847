------------------------------ MODULE Gamepad -------------------------------
(***************************************************************************)
(* The way of a key press: the pad, the kernel's event queue, the HPS       *)
(* thread (thread_gamepad), the bridge queue of eight words, and the block   *)
(* of the FPGA that keeps gamepad_key, which the CPU's input ports show.     *)
(*                                                                          *)
(* gamepad_key is the set of its bits that are up.                          *)
(***************************************************************************)
EXTENDS Integers, Sequences

CONSTANTS
    BtnCodes,     \* codes of the pad's buttons (304..315)
    HatCodes,     \* codes of its direction axes (16 and 17)
    HatJumps,     \* an axis may go from one end to the other without its centre
    QueueDepth,   \* words the bridge queue holds (8)
    MaxEvents     \* bound: events of the pad that did not take effect yet

ASSUME GamepadAssumption ==
    /\ BtnCodes \subseteq 304..315 /\ HatCodes \subseteq {16, 17}
    /\ HatJumps \in BOOLEAN
    /\ QueueDepth \in Nat \ {0} /\ MaxEvents \in Nat \ {0}

VARIABLES
    pressed, hat,                         \* the pad: its buttons and axes
    input,                                \* events the thread has not read
    ev_word,                              \* <<>>, or the word the thread is writing
    fifo, q,                              \* the bridge queue and its read port
    gamepad_evt_read, gamepad_key,
    unread,                               \* history: q has not been decoded yet
    steered                               \* history: see DirectionsShown

padVars == <<pressed, hat, steered>>
fifoVars == <<fifo, q, gamepad_evt_read, gamepad_key, unread>>
gamepadVars == <<padVars, input, ev_word, fifoVars>>

EV_KEY(c, v) == [type |-> "key", code |-> c, value |-> v]
EV_ABS(c, v) == [type |-> "abs", code |-> c, value |-> v]
Event == {EV_KEY(c, v) : c \in BtnCodes, v \in {0, 1}}
            \cup {EV_ABS(c, v) : c \in HatCodes, v \in {-1, 0, 1}}

\* Mutant of Encode: a release is written as kind 1, the vertical axis.
EncodePlain(e) ==
    IF e.type = "key" THEN (1 + 2 * e.value) * 512 + e.code
    ELSE (IF e.code = 16 THEN 0 ELSE 1) * 512
            + (IF e.value < 0 THEN e.value + 512 ELSE e.value)

\* What thread_gamepad writes for an event: two bits of kind above nine of value.
Encode(e) ==
    IF e.type = "key" THEN (2 + e.value) * 512 + e.code
    ELSE (IF e.code = 16 THEN 0 ELSE 1) * 512
            + (IF e.value < 0 THEN e.value + 512 ELSE e.value)

\* The words of all events, and those of a sequence of events.
Words == {Encode(e) : e \in Event}
EncodeAll(s) == [i \in DOMAIN s |-> Encode(s[i])]

Directions == {2, 4, 6, 8}

\* The bit of gamepad_key a button stands for: B 305, A 306, X 307, Y 304, L1 308, R1 309,
\* L2 310, R2 311, select 312, start 313, L3 314, R3 315.
KeyOf(c) == <<0, 3, 5, 9, 1, 12, 7, 13, 11, 15, 10, 14>>[c - 303]

\* Mutant of Axis: the centre is not looked at.
AxisHolds(value, low, high, keys) ==
    CASE value = 511 -> keys \cup {low}
      [] value = 1   -> keys \cup {high}
      [] OTHER       -> keys

\* A value on the left (top) end, the right (bottom) end, or anywhere else: the centre of
\* one axis clears the directions of both.
Axis(value, low, high, keys) ==
    CASE value = 511 -> keys \cup {low}
      [] value = 1   -> keys \cup {high}
      [] OTHER       -> keys \ Directions

Decode(word, keys) ==
    LET kind == (word \div 512) % 4
        value == word % 512
    IN  CASE kind = 0 -> Axis(value, 4, 6, keys)
          [] kind = 1 -> Axis(value, 2, 8, keys)
          [] kind = 3 -> IF value \in BtnCodes THEN keys \cup {KeyOf(value)} ELSE keys
          [] OTHER    -> IF value \in BtnCodes THEN keys \ {KeyOf(value)} ELSE keys

GamepadInit ==
    /\ pressed = {} /\ hat = [c \in HatCodes |-> 0] /\ steered = {}
    /\ input = <<>> /\ ev_word = <<>>
    /\ fifo = <<>> /\ q = 0 /\ gamepad_evt_read = FALSE
    /\ gamepad_key = {} /\ unread = FALSE

GamepadType ==
    /\ pressed \subseteq BtnCodes /\ hat \in [HatCodes -> {-1, 0, 1}]
    /\ steered \subseteq Directions
    /\ input \in Seq(Event)
    /\ ev_word \in {<<>>} \cup {<<w>> : w \in Words}
    /\ fifo \in Seq(Words) /\ Len(fifo) <= QueueDepth
    /\ q \in {0} \cup Words
    /\ gamepad_evt_read \in BOOLEAN /\ unread \in BOOLEAN
    /\ gamepad_key \subseteq {KeyOf(c) : c \in BtnCodes} \cup Directions

----------------------------------------------------------------------------

\* Events that did not take effect yet, as words, oldest first.
InFlight ==
    (IF unread THEN <<q>> ELSE <<>>) \o fifo \o ev_word \o EncodeAll(input)
Room == Len(InFlight) < MaxEvents

Button(c) ==
    /\ Room
    /\ IF c \in pressed
       THEN pressed' = pressed \ {c} /\ input' = Append(input, EV_KEY(c, 0))
       ELSE pressed' = pressed \cup {c} /\ input' = Append(input, EV_KEY(c, 1))
    /\ UNCHANGED <<hat, steered, ev_word, fifoVars>>

\* The direction an end of an axis stands for: up 2, left 4, right 6, down 8.
DirectionOf(c, v) ==
    IF c = 16 THEN (IF v < 0 THEN 4 ELSE 6) ELSE (IF v < 0 THEN 2 ELSE 8)

Hat(c, v) ==
    /\ Room
    /\ v # hat[c]
    /\ HatJumps \/ v = 0 \/ hat[c] = 0
    /\ hat' = [hat EXCEPT ![c] = v]
    /\ steered' = IF v = 0 THEN {} ELSE steered \cup {DirectionOf(c, v)}
    /\ input' = Append(input, EV_ABS(c, v))
    /\ UNCHANGED <<pressed, ev_word, fifoVars>>

Pad == (\E c \in BtnCodes : Button(c)) \/ (\E c \in HatCodes, v \in {-1, 0, 1} : Hat(c, v))

\* read(fd2, &ev, sizeof(ev))
ReadEvent ==
    /\ ev_word = <<>> /\ input # <<>>
    /\ ev_word' = <<Encode(Head(input))>>
    /\ input' = Tail(input)
    /\ UNCHANGED <<padVars, fifoVars>>

\* Mutant of WriteEvent: the write does not wait.
WriteEventAnyway ==
    /\ ev_word # <<>>
    /\ fifo' = fifo \o ev_word
    /\ ev_word' = <<>>
    /\ UNCHANGED <<padVars, input, q, gamepad_evt_read, gamepad_key, unread>>

\* *((uint32_t *)gamepad_map) = word : waits while the queue is full.
WriteEvent ==
    /\ ev_word # <<>> /\ Len(fifo) < QueueDepth
    /\ fifo' = fifo \o ev_word
    /\ ev_word' = <<>>
    /\ UNCHANGED <<padVars, input, q, gamepad_evt_read, gamepad_key, unread>>

\* One edge of clockCPU.  The block decodes the read port as it was before the edge, while
\* the queue puts its next word there: the word before is decoded a second time.
Popping == gamepad_evt_read /\ fifo # <<>>

\* Mutant of ClockEdge: the read request is dropped after each word.
ClockEdgeReleases ==
    /\ gamepad_key' = IF gamepad_evt_read THEN Decode(q, gamepad_key) ELSE gamepad_key
    /\ gamepad_evt_read' = (fifo # <<>> /\ ~gamepad_evt_read)
    /\ q' = IF Popping THEN Head(fifo) ELSE q
    /\ fifo' = IF Popping THEN Tail(fifo) ELSE fifo
    /\ unread' = (Popping \/ (unread /\ ~gamepad_evt_read))
    /\ UNCHANGED <<padVars, input, ev_word>>

ClockEdge ==
    /\ gamepad_key' = IF gamepad_evt_read THEN Decode(q, gamepad_key) ELSE gamepad_key
    /\ gamepad_evt_read' = (fifo # <<>>)
    /\ q' = IF Popping THEN Head(fifo) ELSE q
    /\ fifo' = IF Popping THEN Tail(fifo) ELSE fifo
    /\ unread' = (Popping \/ (unread /\ ~gamepad_evt_read))
    /\ UNCHANGED <<padVars, input, ev_word>>

Thread == ReadEvent \/ WriteEvent

GamepadNext == Pad \/ ReadEvent \/ WriteEvent \/ ClockEdge

GamepadSpec == GamepadInit /\ [][GamepadNext]_gamepadVars

\* The thread is scheduled and the clock runs; nobody has to touch the pad.
GamepadFair == GamepadSpec /\ WF_gamepadVars(Thread) /\ WF_gamepadVars(ClockEdge)

----------------------------------------------------------------------------

Quiet == InFlight = <<>>

\* Once nothing is on its way the game sees exactly the buttons that are down.
ButtonsShown ==
    Quiet => \A c \in BtnCodes : KeyOf(c) \in gamepad_key <=> c \in pressed

\* Once nothing is on its way the game sees the directions the pad was pushed in since one of
\* the axes last came to its centre, and no other: 1031 and 1036 clear those of both axes, so
\* that the direction of an axis still held goes too.  A pad that is left alone steers nowhere,
\* whatever the order its axes came back in.
DirectionsShown ==
    Quiet =>
        /\ gamepad_key \cap Directions = steered
        /\ (\A c \in HatCodes : hat[c] = 0) => steered = {}

\* A button that is held down reaches the game.
PressShown ==
    \A c \in BtnCodes : (c \in pressed) ~> (KeyOf(c) \in gamepad_key \/ c \notin pressed)

\* Events take effect in order, each once, although the queue's read port is decoded again
\* with the word before: thread, bridge queue and block implement the simple order.
Order == INSTANCE EventOrder WITH
             Event <- Words,
             Effect <- Decode,
             waiting <- InFlight,
             keys <- gamepad_key

InOrder == Order!OrderSpec

=============================================================================
