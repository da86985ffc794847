SPECIFICATION HdmiFair
CONSTANTS
    LUT_SIZE = 4
    Bits = 2
    MaxNacks = 2
    MaxInts = 2
    MaxHdmiResets = 1
INVARIANTS HdmiType CountedIsSet
PROPERTY TableWritten
