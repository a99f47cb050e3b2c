\* One thread pushes, one pops, two blocks.
SPECIFICATION FairSpec
CONSTANTS
    Pusher = {p1}
    Popper = {c1}
    QueueSize = 2
    MaxPushes = 4
    NoValue = NoValue
\* The pushes are bounded, and a push may wait for ever.
CHECK_DEADLOCK FALSE
PROPERTIES
    PushInserts
