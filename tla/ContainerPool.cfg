\* Two workers, three cancellable clients and one that cannot be cancelled.
SPECIFICATION FairPoolSpec
CONSTANTS
    Workers = {w1, w2}
    Clients = {c1, c2, c3, e1}
    Cancellable = {c1, c2, c3}
    NoWorker = NoWorker
INVARIANTS
    PoolInv
PROPERTIES
    ImplementsLease
    CancelledWaiterLeaves
