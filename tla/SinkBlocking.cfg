\* Two pushing and two popping threads on a sink of two cells.
SPECIFICATION FairSpec
CONSTANTS
    Producer = {p1, p2}
    Consumer = {c1, c2}
    Value = {v1, v2}
    Size = 2
    NoValue = NoValue
    NoThread = NoThread
INVARIANTS
    TypeOK
    MutualExclusion
    NoLostWakeup
    TestStillTrue
PROPERTIES
    RefinesFifo
    FifoProgress
