\* Three slots, started and stopped by a script that may be interrupted anywhere, or by the
\* environment's coroutine, which may be cancelled.
SPECIFICATION FairSpec
CONSTANTS
    SlotCount = 3
INVARIANTS
    EnvInv
PROPERTIES
    FailedStartCloses
    CancelledStartEnds
CHECK_DEADLOCK FALSE
