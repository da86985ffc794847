SPECIFICATION VideoFair
CONSTANTS
    INSTRUCTION_MAX = 2
    Bytes = 4
    Bits = 3
    WrenMax = 2
    CutShort = TRUE
INVARIANTS VideoType PlacedRight FrameDrawn
PROPERTIES AddressHeld ReadingEnds ImplementsPort
