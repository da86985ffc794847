SPECIFICATION Channel2Fair
CONSTANTS
    RomSize <- MC2RomSize
    WavSize <- MC2WavSize
    Sound2Bits <- MC2SoundBits
    FmtEnd = 0
    DataEnd = 1
    Fifo2Depth = 2
    Req2IdSpan = 2
    Audio2Depth = 2
    Max2Size = 1000
    Prompt2 = TRUE
    MaxTurns2 = 2
    MaxResets2 = 1
    MaxOuts2 = 2
INVARIANTS Channel2Type
PROPERTIES Sound2Taken Sound2Ends StopsWhenTold PlaysSounds
