\* One loop that streams from one model.
SPECIFICATION Spec
CONSTANTS
    l1 = l1
    l2 = l2
    m1 = m1
    m2 = m2
    p1 = p1
    p2 = p2
    Loop = {l2}
    Streaming = {l2}
    Model = {m1, m2}
    Provider = {p1, p2}
    ProviderOf <- MCProviderOf
    Route <- MCRoute
    Threshold = 3
    Cooldown = 2
    MaxRetries = 1
    Capacity = 2
    Cost = 1
    MaxWait = 1
INVARIANTS
    OpensAfterFailures
