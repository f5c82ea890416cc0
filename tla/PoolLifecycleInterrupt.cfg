\* A second interrupt ends the wait for the threads.
SPECIFICATION PoolSpec
CONSTANTS
    SlotCount = 2
INVARIANTS
    CleanupIsAlone
CHECK_DEADLOCK FALSE
