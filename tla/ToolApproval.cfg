\* Two runs and a stage loop, two calls per reply, one session cleared or resumed.
CHECK_DEADLOCK FALSE  \* at rest once every run is over
SPECIFICATION FairSpec
CONSTANTS
    call = call
    denied = denied
    NRuns = 2
    StageLoop = {w1}
    Signature <- MCSignature
    Batch <- MCBatch
    Refused <- MCRefused
    MaxTurns = 1
    MaxSessions = 1
    NoRun = NoRun
    NoRequest = NoRequest
INVARIANTS
    TypeOK
    Consent
    CancelAnswerStops
PROPERTIES
    EveryRunEnds
    StopsForGood
