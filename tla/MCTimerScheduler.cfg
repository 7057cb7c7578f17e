SPECIFICATION FairSpec
CONSTANTS
    Requests = {r1, r2}
    Delays <- MCDelays
    MaxTime = 4
    Never = Never
INVARIANTS
    TypeOK
    NeverEarly
    DueOrder
    SleepNeverOutlastsTimer
PROPERTY
    EveryTimerFires
