SPECIFICATION LedsSpec
CONSTANTS
    Rounds = 2
    FrameDelay = 2
    BlinkDelay = 3
    Debug = TRUE
INVARIANTS
    LedsTypeOK
    ShowsWhatWasTold
PROPERTIES
    Rotates
    Blinks
