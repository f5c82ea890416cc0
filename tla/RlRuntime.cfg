\* Two rollouts, one worker and one permit: everything is contended. Each rollout
\* measures before, between and after two model turns.
SPECIFICATION FairSpec
CONSTANTS
    Workers = {w1}
    Clients = {r1, r2}
    Cancellable = {r1, r2}
    NoWorker = NoWorker
    WorkerLeaseScope = "measurement"
    MaxRequests = 1
    MaxTurns = 2
    MaxAttempts = 2
    MaxStatements = 1
INVARIANTS
    RuntimeInv
    QuietAfterDrain
    WorkersAreLeased
PROPERTIES
    LaunchedRolloutsEnd
    DrainEnds
CHECK_DEADLOCK FALSE
