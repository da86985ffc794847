---------------------------- MODULE Sound2Request ----------------------------
(***************************************************************************)
(* Output port 5 of the arcade board (SPACE_INVADERS.v, 1336-1380): as      *)
(* Sound1Request, with another order of the bits and nothing that repeats.  *)
(* A bit that is still up hides those behind it, but the chain of tests     *)
(* ends there; sound2_on is up from the first change, so whenever a request *)
(* is pending, and is left out.                                             *)
(***************************************************************************)
EXTENDS Integers

CONSTANTS
    Sound2Bits,   \* the bits of port 5 the game uses (0..4 on the board)
    Req2IdSpan    \* values of the request counter (2^8 in the code)

ASSUME Sound2Assumption ==
    /\ Sound2Bits \subseteq 0..4
    /\ Req2IdSpan \in Nat \ {0, 1}

VARIABLES cpu_sound2_bits, sound2_prev, sound2_reqId, sound2_reqId_sync, sound2_wav

sound2Vars == <<cpu_sound2_bits, sound2_prev, sound2_reqId, sound2_wav>>

\* invadermove1..4, ufohit
Wav2Of == [b \in 0..4 |-> IF b = 4 THEN 13 ELSE 5 + b]

Sound2Init ==
    /\ cpu_sound2_bits = {} /\ sound2_prev = {}
    /\ sound2_reqId = 0 /\ sound2_reqId_sync = 0
    /\ sound2_wav = 0

Sound2Type ==
    /\ cpu_sound2_bits \in SUBSET Sound2Bits
    /\ sound2_prev \in SUBSET Sound2Bits
    /\ sound2_reqId \in 0..(Req2IdSpan - 1)
    /\ sound2_reqId_sync \in 0..(Req2IdSpan - 1)
    /\ sound2_wav \in {0} \cup {Wav2Of[b] : b \in Sound2Bits}

sound2_changed == sound2_reqId # sound2_reqId_sync

\* Bits that hide bit b in the chain of tests: 4, 0, 1, 2, 3.
Hiding2(b) == IF b = 4 THEN {} ELSE {4} \cup 0..(b - 1)

\* OUT 5: the running game writes its sound latch (cpu.v).
OutPort5(bits) ==
    /\ bits # cpu_sound2_bits
    /\ cpu_sound2_bits' = bits
    /\ UNCHANGED <<sound2_prev, sound2_reqId, sound2_wav>>

\* The branch of the chain that is taken is bit b's, and b has just risen.
Rising2(b) ==
    /\ b \in cpu_sound2_bits \ sound2_prev
    /\ cpu_sound2_bits \cap Hiding2(b) = {}

TakeBits2 ==
    /\ cpu_sound2_bits # sound2_prev
    /\ ~sound2_changed
    /\ \/ \E b \in Sound2Bits :
             /\ Rising2(b)
             /\ sound2_wav' = Wav2Of[b]
             /\ sound2_reqId' = (sound2_reqId + 1) % Req2IdSpan
       \/ /\ \A b \in Sound2Bits : ~Rising2(b)
          /\ UNCHANGED <<sound2_wav, sound2_reqId>>
    /\ sound2_prev' = cpu_sound2_bits
    /\ UNCHANGED cpu_sound2_bits

=============================================================================
