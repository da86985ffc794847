SPECIFICATION GamepadFair
CONSTANTS
    BtnCodes <- MCBtnCodes
    HatCodes <- MCHatCodes
    HatJumps = TRUE
    QueueDepth = 2
    MaxEvents = 3
INVARIANTS GamepadType ButtonsShown DirectionsShown
PROPERTIES PressShown InOrder
