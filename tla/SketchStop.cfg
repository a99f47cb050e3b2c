\* One sketch with two stop flags.
SPECIFICATION Spec
CONSTANTS
    s1 = s1
    s2 = s2
    s3 = s3
    f1 = f1
    f2 = f2
    f3 = f3
    Sketch = {s1}
    Flag = {f1, f2}
    StartFlags <- NoStartFlags
    StopFlags <- TwoStopFlags
    LoopDelays <- ShortDelays
    EventsOf <- TwoEvents
    MaxBroadcasts = 2
    MaxStarts = 2
CHECK_DEADLOCK FALSE
PROPERTIES
    StopsWhenFlagsSet
