SPECIFICATION Spec
CONSTANTS
    main = main
    reporter = reporter
    Main = main
    Reporter = reporter
    Reports = {"r1"}
    Size = 4
    Threads <- MCThreads
    Configs <- MCConfigs
INVARIANT ConfigIsWhole
CHECK_DEADLOCK FALSE
