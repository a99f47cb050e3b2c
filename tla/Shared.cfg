\* Two threads push three times each, two threads pop, two blocks.
SPECIFICATION Spec
CONSTANTS
    Pusher = {p1, p2}
    Popper = {c1, c2}
    QueueSize = 2
    MaxPushes = 3
    NoValue = NoValue
\* The pushes are bounded, and a push may wait for ever.
CHECK_DEADLOCK FALSE
INVARIANTS
    TypeOK
    BlocksAccounted
    OrderKept
    NewestKept
