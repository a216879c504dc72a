SPECIFICATION FairSpec
CONSTANTS
    Wrap = 4
    LongWrap = 64
    Timeout = 2
    Size = 4
    StartLost = 1
INVARIANTS
    TypeOK
    PingInTime
    StuckOnlyIfFailed
    LogSurvives
PROPERTIES
    PingWaits
    BoardComesBack
CHECK_DEADLOCK FALSE
