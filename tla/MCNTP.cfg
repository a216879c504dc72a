SPECIFICATION Spec
CONSTANTS
    Wrap = 11
    LongWrap = 11
    Start = 9
    Coherent = 7
    SendDelay = 1
    ResponseTimeout = 2
    MaxTime = 14
    MaxRequests = 2
    MaxQueue = 2
    Dawn <- MCDawn
    BadEpochs <- MCBadEpochs
INVARIANTS
    TypeOK
    ClockNeverAhead
    ReportedSettles
PROPERTY FreshUnlessLeftover
CHECK_DEADLOCK FALSE
