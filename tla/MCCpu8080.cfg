SPECIFICATION CpuFair
CONSTANTS
    CYCLE_MULTIPLICATOR = 2
    RAM_START = 8192
    Programs <- MCPrograms
    Keys <- MCKeys
    MinGap = 8
    Asked <- MCAsked
    Reloaded <- MCReloaded
    MaxRestarts = 1
INVARIANTS CpuType WritesAreShort
PROPERTIES ImplementsIsa InstructionEnds
CHECK_DEADLOCK FALSE
