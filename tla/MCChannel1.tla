----------------------------- MODULE MCChannel1 -----------------------------
EXTENDS Channel1, TLC

MCRomSize == <<2, 1, 2, 1>>
MCWavSize == (10 :> 2) @@ (12 :> 2)
MCSoundBits == {0, 3}

=============================================================================
