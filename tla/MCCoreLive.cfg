SPECIFICATION FairSpec
CONSTANTS
    Wrap = 5
    LongWrap = 5
    Watched = "cfg"
    MaxTries = 1
    Answer = 1
    Command = 1
    Pause = 1
    Early = 5
    Late = 6
    MaxSteps = 1
    Order <- MCThree
    Interval <- MCInterval
    Steps <- MCSteps
PROPERTIES
    AlwaysAlive
    ServesWhenHealthy
