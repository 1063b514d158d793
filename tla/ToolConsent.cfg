\* One run of the console and the loop of one swarm stage, which share the one dialog.
CHECK_DEADLOCK FALSE  \* at rest once every loop is over
SPECIFICATION Spec
CONSTANTS
    call = call
    denied = denied
    NRuns = 1
    StageLoop = {w1}
    Signature <- MCSignature
    Batch <- MCBatch
    Refused <- MCRefused
    MaxTurns = 1
    MaxSessions = 0
    NoRun = NoRun
    NoRequest = NoRequest
INVARIANTS
    ApprovedAsShown
