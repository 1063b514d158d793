\* One run, one loop, one call: a cancellation.
CHECK_DEADLOCK FALSE  \* at rest once every call is made and every loop is over
SPECIFICATION Spec
CONSTANTS
    NRuns = 1
    MaxCalls = 1
    GatedRuns = {}
    Loop = {l1}
    RequestedMax = 1
    MaxAttempts = 1
    RetryLimit = 2
    Person = {lead, other}
    Nobody = Nobody
    RequiredApprovers = {lead}
    NoTask = NoTask
    NoWorker = NoWorker
PROPERTIES
    CancelledRunStops
