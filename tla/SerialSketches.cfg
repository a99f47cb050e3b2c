\* Three projects of two sketches, a ring for two messages and a half.
SPECIFICATION SketchesFairSpec
CONSTANTS
    main = main
    t1 = t1
    Thread = {main, t1}
    Main = main
    Projects <- MCProjects
    TxSize = 5
    RxSize = 1
    FlagBits = 2
    NoThread = NoThread
    NoBuffer = NoBuffer
    MaxSections = 4
    MaxArrive = 1
    MaxLen = 0
    MaxCalls = 0
    MaxEnds = 0
INVARIANTS
    MessagesWhole
    Wrapped
PROPERTIES
    EveryReaderGets
\* The sketches stop at the bounds.
CHECK_DEADLOCK FALSE
