\* Two loops share the bucket of one model; one of them fails over and streams.
SPECIFICATION FairSpec
CONSTANTS
    l1 = l1
    l2 = l2
    m1 = m1
    m2 = m2
    p1 = p1
    p2 = p2
    Loop = {l1, l2}
    Streaming = {l2}
    Model = {m1, m2}
    Provider = {p1, p2}
    ProviderOf <- MCProviderOf
    Route <- MCRoute
    Threshold = 2
    Cooldown = 2
    MaxRetries = 1
    Capacity = 2
    Cost = 2
    MaxWait = 1
INVARIANTS
    TypeOK
PROPERTIES
    BreakerSpec
    BucketSpec
    EveryCallEnds
