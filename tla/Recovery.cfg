\* A run whose process died at work or before its approval; two operations at
\* once, four in all.
CHECK_DEADLOCK FALSE  \* at rest once every call is made and is over
SPECIFICATION Spec
CONSTANTS
    Call = {c1, c2}
    NoSnapshot = NoSnapshot
    Left <- LeftBehind
    MaxAttempts = 2
    RetryLimit = 3
    MaxCalls = 4
INVARIANTS
    TypeOK
    GateOpensOnlyByRetry
    CompletionHonest
PROPERTIES
    CancelIsFinal
