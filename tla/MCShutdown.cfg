SPECIFICATION Channel2Spec
CONSTANTS
    RomSize <- MC2RomSize
    WavSize <- MC2WavSize
    Sound2Bits <- MC2SoundBits
    FmtEnd = 0
    DataEnd = 1
    Fifo2Depth = 2
    Req2IdSpan = 2
    Audio2Depth = 2
    Max2Size = 1000
    Prompt2 = TRUE
    MaxTurns2 = 2
    MaxResets2 = 0
    MaxOuts2 = 0
INVARIANT NoFault
