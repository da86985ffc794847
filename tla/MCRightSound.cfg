SPECIFICATION Channel1Fair
CONSTANTS
    RomSize <- MCRomSize
    WavSize <- MCWavSize
    SoundBits <- MCSoundBits
    FmtEnd = 0
    DataEnd = 1
    FifoDepth = 2
    ReqIdSpan = 2
    AudioDepth = 1
    Fade = 1
    AddrSpan = 4
    MaxSize = 1000
    Prompt = TRUE
    MaxStarts = 1
    MaxResets = 0
    MaxOuts = 2
INVARIANT RightSound
