----------------------------- MODULE SoundPlayer -----------------------------
(***************************************************************************)
(* What the speaker may rely on: a sound that was taken is read whole, from *)
(* its first sample to its last, before another is taken, and the samples   *)
(* stand in line in the order they were read, the last one perhaps several  *)
(* times.  Only a break (a program started anew, the board reset) cuts a    *)
(* sound short.                                                             *)
(***************************************************************************)
EXTENDS Integers, Sequences

CONSTANTS
    Sounds,             \* the sounds there are
    Length              \* Length[f]: the number of samples of f

NoSound == 0

VARIABLES
    sound,      \* the sound that is being read, or NoSound
    next,       \* the position of its next sample
    hand,       \* the sample read last
    line,       \* the samples waiting for the speaker
    breaks      \* how many breaks there were

playerVars == <<sound, next, hand, line, breaks>>

PlayerInit ==
    /\ sound = NoSound /\ next = 0
    /\ line = <<>>
    /\ breaks = 0

Take(f) == sound = NoSound /\ sound' = f /\ next' = 0 /\ UNCHANGED hand

Read ==
    /\ sound # NoSound /\ next < Length[sound]
    /\ hand' = <<sound, next>>
    /\ next' = next + 1
    /\ UNCHANGED sound

Finish ==
    /\ sound # NoSound /\ next = Length[sound]
    /\ sound' = NoSound
    /\ UNCHANGED <<next, hand>>

Store == line' \in {line, Append(line, hand)}

Hear == line # <<>> /\ line' = Tail(line) /\ UNCHANGED <<sound, next, hand>>

Break == breaks' = breaks + 1 /\ sound' = NoSound

PlayerNext ==
    \/ /\ UNCHANGED breaks
       /\ \/ Hear
          \/ /\ Store
             /\ \/ \E f \in Sounds : Take(f)
                \/ Read \/ Finish
                \/ UNCHANGED <<sound, next, hand>>
    \/ Break

PlayerSpec == PlayerInit /\ [][PlayerNext]_playerVars

=============================================================================
