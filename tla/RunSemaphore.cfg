\* Two slots, four callers that come back any number of times.
SPECIFICATION FairSemSpec
CONSTANTS
    Caller = {c1, c2, c3, c4}
    RequestedMax = 2
INVARIANTS
    TypeOK
    SlotBound
    WorkConserving
PROPERTIES
    NoOvertaking
    EveryQueuedRunStarts
