\* Two requests, one permit, three attempts with waits of at most 3.
SPECIFICATION FairSpec
CONSTANTS
    Requests = {r1, r2}
    Permits = 1
    MaxAttempts = 3
    InitialDelay = 1
    MaximumDelay = 3
    Headers <- SomeHeaders
INVARIANTS
    RetryInv
PROPERTIES
    RequestsEnd
CHECK_DEADLOCK FALSE
