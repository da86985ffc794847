SPECIFICATION ScreenFair
CONSTANTS
    INTRO_LETTERS = 4
    ALERT_LETTERS = 3
    Period = 2
INVARIANTS ScreenType TextInPlace OneMessageAtATime
PROPERTIES MessageShown
