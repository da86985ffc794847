---------------------------- MODULE Sound1Request ----------------------------
(***************************************************************************)
(* Output port 3 of the arcade board: the CPU writes five sound bits, and   *)
(* this block turns a rising bit into a request for the loader, which       *)
(* plays the file.  The two blocks meet in a pair of counters: a request    *)
(* is pending while sound1_reqId # sound1_reqId_sync, and the bits are      *)
(* looked at only when none is.                                             *)
(***************************************************************************)
EXTENDS Integers

CONSTANTS
    SoundBits,    \* the bits of port 3 the game uses (0..4 on the board)
    ReqIdSpan     \* values of the request counter (2^8 in the code)

ASSUME SoundAssumption ==
    /\ SoundBits \subseteq 0..4
    /\ ReqIdSpan \in Nat \ {0, 1}

VARIABLES cpu_sound1_bits, sound1_prev, sound1_reqId, sound1_reqId_sync,
          sound1_wav, sound1_loop

soundVars == <<cpu_sound1_bits, sound1_prev, sound1_reqId, sound1_wav, sound1_loop>>

\* ufo, shot, player died, invader killed, extended play
WavOf == [b \in 0..4 |-> CASE b = 0 -> 12 [] b = 1 -> 9 [] b = 2 -> 11
                           [] b = 3 -> 10 [] b = 4 -> 14]

SoundInit ==
    /\ cpu_sound1_bits = {}
    /\ sound1_prev = {}
    /\ sound1_reqId = 0
    /\ sound1_reqId_sync = 0
    /\ sound1_wav = 0
    /\ sound1_loop = FALSE

SoundType ==
    /\ cpu_sound1_bits \in SUBSET SoundBits
    /\ sound1_prev \in SUBSET SoundBits
    /\ sound1_reqId \in 0..(ReqIdSpan - 1)
    /\ sound1_reqId_sync \in 0..(ReqIdSpan - 1)
    /\ sound1_wav \in {0} \cup {WavOf[b] : b \in SoundBits}
    /\ sound1_loop \in BOOLEAN

sound1_changed == sound1_reqId # sound1_reqId_sync

\* Bits that hide bit b in the chain of tests: 2, 4, 0, (0 falling), 3, 1.
Hiding(b) == CASE b = 2 -> {} [] b = 4 -> {2} [] b = 0 -> {2, 4}
               [] b = 3 -> {2, 4, 0} [] b = 1 -> {2, 4, 0, 3}

\* The branch of the chain that is taken is bit b's.
Selected(b) ==
    /\ b \in cpu_sound1_bits
    /\ cpu_sound1_bits \cap Hiding(b) = {}
    /\ b \in {1, 3} => 0 \notin sound1_prev

\* OUT 3: the running game writes its sound latch (cpu.v).
OutPort3(bits) ==
    /\ bits # cpu_sound1_bits
    /\ cpu_sound1_bits' = bits
    /\ UNCHANGED <<sound1_prev, sound1_reqId, sound1_wav, sound1_loop>>

\* Mutant of Request: the counter does not wrap.
RequestUnwrapped(b) ==
    /\ Selected(b) /\ b \notin sound1_prev
    /\ sound1_wav' = WavOf[b]
    /\ sound1_reqId' = sound1_reqId + 1
    /\ sound1_loop' = (b = 0)

\* A rising bit: ask for its file; only the ufo repeats.
Request(b) ==
    /\ Selected(b) /\ b \notin sound1_prev
    /\ sound1_wav' = WavOf[b]
    /\ sound1_reqId' = (sound1_reqId + 1) % ReqIdSpan
    /\ sound1_loop' = (b = 0)

\* The bit was already up: its sound was asked for before.
StillUp(b) ==
    /\ Selected(b) /\ b \in sound1_prev
    /\ UNCHANGED <<sound1_wav, sound1_reqId, sound1_loop>>

\* The ufo's bit fell, or no bit is up.
StopLoop ==
    /\ \A b \in SoundBits : ~Selected(b)
    /\ sound1_loop' = FALSE
    /\ UNCHANGED <<sound1_wav, sound1_reqId>>

TakeBits ==
    /\ cpu_sound1_bits # sound1_prev
    /\ ~sound1_changed
    /\ \/ \E b \in SoundBits : Request(b) \/ StillUp(b)
       \/ StopLoop
    /\ sound1_prev' = cpu_sound1_bits
    /\ UNCHANGED cpu_sound1_bits

=============================================================================
