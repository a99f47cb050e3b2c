\* One thread injects, one pops.
SPECIFICATION FairSpec
CONSTANTS
    Producer = {p1}
    Consumer = {c1}
    Value = {v1}
    NoValue = NoValue
    NoThread = NoThread
    MaxCount = 3
\* The number of recursive locks is bounded.
CHECK_DEADLOCK FALSE
PROPERTIES
    InjectReturns
