SPECIFICATION Spec
CONSTANTS
    Wrap = 4
    LongWrap = 4
    Watched = "log"
    MaxTries = 1
    Answer = 1
    Command = 1
    Pause = 1
    Early = 7
    Late = 8
    MaxSteps = 0
    Order <- MCOrder
    Interval <- MCInterval
    Steps <- MCSteps
PROPERTY NotTooSoon
