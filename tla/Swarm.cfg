\* A run behind an approval: two loops for one slot, four operator calls.
CHECK_DEADLOCK FALSE  \* at rest once every call is made and every loop is over
SPECIFICATION FairSpec
CONSTANTS
    NRuns = 1
    MaxCalls = 4
    GatedRuns = {1}
    Loop = {l1, l2}
    RequestedMax = 1
    MaxAttempts = 1
    RetryLimit = 2
    Person = {lead, other}
    Nobody = Nobody
    RequiredApprovers = {lead}
    NoTask = NoTask
    NoWorker = NoWorker
INVARIANTS
    TypeOK
    ApprovalGate
    StagesInOrder
    LoopsBounded
    CompletionHonest
    SettledStageFreesWorker
PROPERTIES
    EveryLoopEnds
