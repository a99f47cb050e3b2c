\* Two threads that push into the same or different sources, up to three connections.
SPECIFICATION FairSpec
CONSTANTS
    a = a
    src1 = src1
    src2 = src2
    p1 = p1
    p2 = p2
    Ownerships <- OwnOrSame
    b = b
    Sources = {src1, src2}
    Sinks = {a, b}
    Pusher = {p1, p2}
    Capacity <- SinkSizes
    MaxLinks = 3
    MaxPushes = 2
CHECK_DEADLOCK FALSE
INVARIANTS
    EverySinkSeesEveryValue
PROPERTIES
    EveryValueArrives
