SPECIFICATION CpuSpec
CONSTANTS
    CYCLE_MULTIPLICATOR = 2
    RAM_START = 8192
    Programs <- MCCopy
    Keys <- MCKeys
    MinGap = 3
    Asked <- MCCopy
    Reloaded <- MCCopy
    MaxRestarts = 1
PROPERTIES LoadsItsByte
CHECK_DEADLOCK FALSE
