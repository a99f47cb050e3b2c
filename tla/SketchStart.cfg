\* Two sketches that wait for the same flag, which is broadcast once.
SPECIFICATION FairSpec
CONSTANTS
    s1 = s1
    s2 = s2
    s3 = s3
    f1 = f1
    f2 = f2
    f3 = f3
    Sketch = {s1, s2}
    Flag = {f1}
    StartFlags <- OneStartFlag
    StopFlags <- NoStopFlags
    LoopDelays <- NoDelays
    EventsOf <- NoEvents
    MaxBroadcasts = 1
    MaxStarts = 2
CHECK_DEADLOCK FALSE
PROPERTIES
    StartTogether
