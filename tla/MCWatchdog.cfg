SPECIFICATION Spec
CONSTANTS
    Wrap = 12
    LongWrap = 12
    BeatGap = 2
    Timer = 6
    Poll = 2
    MaxTime = 14
    MaxSteps = 2
    Steps <- MCSteps
    Dawn <- MCDawn
INVARIANTS
    TypeOK
    Accuracy
    Completeness
PROPERTY RefinesDog
CHECK_DEADLOCK FALSE
