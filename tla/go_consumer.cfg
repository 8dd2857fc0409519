SPECIFICATION FairSpec
CONSTANTS
    Messages = {1, 2}
    Streaming = {sub}
    Polling = {poll}
    Streams = {s1, s2}
    Concurrency = 1
    Window = 1
    BatchSize = 2
    MaxRetries = 2
    BackoffStart = 1
    BackoffMax = 1
    Null = Null
INVARIANTS ClaimHasOneOwner
PROPERTIES ClaimEnds CancelReturns
CHECK_DEADLOCK FALSE
