SPECIFICATION Spec
CONSTANTS
    Wrap = 5
    LongWrap = 5
    EventHold = 2
    MaxElements = 3
    MaxTime = 7
    MaxSteps = 1
    Readings <- MCReadings
    PowerOn <- MCPowerOn
    Sigmas <- MCSigmas
    Dawn <- MCDawn
    Steps <- MCSteps
INVARIANTS
    TypeOK
    ThresholdIsTwoPass
PROPERTIES
    AlertSpacing
    EventEnds
CHECK_DEADLOCK FALSE
