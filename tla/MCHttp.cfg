SPECIFICATION FairSpec
CONSTANTS
    main = main
    reporter = reporter
    Main = main
    Reporter = reporter
    Reports = {"r1"}
    Size = 4
    Threads <- MCThreads
    Configs <- MCConfigs
INVARIANTS
    TypeOK
    OwnSocket
    ReportKept
    ConfigBegins
PROPERTIES
    OnlySilenceHangs
    BeatsEnd
CHECK_DEADLOCK FALSE
