\* One operation at a time.
CHECK_DEADLOCK FALSE  \* at rest once every call is made and is over
SPECIFICATION Spec
CONSTANTS
    Call = {c1}
    NoSnapshot = NoSnapshot
    Left <- LeftGated
    MaxAttempts = 2
    RetryLimit = 3
    MaxCalls = 3
INVARIANTS
    ExecuteNeedsApproval
