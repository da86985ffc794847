SPECIFICATION Channel1Fair
CONSTANTS
    RomSize <- MCRomSize
    WavSize <- MCWavSize
    SoundBits <- MCSoundBits
    FmtEnd = 0
    DataEnd = 1
    FifoDepth = 2
    ReqIdSpan = 2
    AudioDepth = 1
    Fade = 1
    AddrSpan = 4
    MaxSize = 1000
    Prompt = TRUE
    MaxStarts = 2
    MaxResets = 1
    MaxOuts = 2
INVARIANTS TypeOK RomLayout NoMisplacedByte NoAlert OnlySoundsPlayed
PROPERTIES LoadCompletes SoundTaken SoundEnds
