\* Three sketches with different flags, one of them with two start flags of its own.
SPECIFICATION FairSpec
CONSTANTS
    s1 = s1
    s2 = s2
    s3 = s3
    f1 = f1
    f2 = f2
    f3 = f3
    Sketch = {s1, s2, s3}
    Flag = {f1, f2, f3}
    StartFlags <- SomeStartFlags
    StopFlags <- SomeStopFlags
    LoopDelays <- SomeDelays
    EventsOf <- SomeEvents
    MaxBroadcasts = 4
    MaxStarts = 3
CHECK_DEADLOCK FALSE
INVARIANTS
    EventsKept
PROPERTIES
    StartsOnItsFlags
    LoopsForever
