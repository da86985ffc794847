------------------------------ MODULE GameFiles -------------------------------
(***************************************************************************)
(* The game's files as both halves of the board know them: by their number. *)
(* 1..4 are the program images, 5..14 the sounds.  A byte is known by the    *)
(* file and the position it was read from: what it spells does not matter   *)
(* to the protocols, where it comes from does.                              *)
(***************************************************************************)
EXTENDS Integers

CONSTANTS
    RomSize,      \* sizes of the four program images, files 1..4
    WavSize,      \* number of samples of each sound file
    FmtEnd,       \* position in a sound file of the last byte of "fmt "
    DataEnd       \* position of the last byte of "data", the size follows

RomFiles == 1..4
WavFiles == DOMAIN WavSize
Files == RomFiles \cup WavFiles

\* Position of the first sample: the four bytes of the chunk size come before.
FirstSample == DataEnd + 5
FileSize(f) == IF f \in RomFiles THEN RomSize[f] ELSE FirstSample + WavSize[f]

ASSUME FilesAssumption ==
    /\ RomSize \in [RomFiles -> Nat \ {0}]
    /\ WavFiles \subseteq 5..14
    /\ WavSize \in [WavFiles -> Nat \ {0}]
    /\ FmtEnd \in Nat /\ DataEnd \in Nat /\ FmtEnd < DataEnd

=============================================================================
