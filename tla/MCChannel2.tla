----------------------------- MODULE MCChannel2 -----------------------------
EXTENDS Channel2, TLC

MC2RomSize == <<1, 1, 1, 1>>
MC2WavSize == (5 :> 2) @@ (13 :> 1)
MC2LongWavSize == (5 :> 3) @@ (13 :> 1)
MC2SoundBits == {0, 4}

=============================================================================
