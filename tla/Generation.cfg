\* Three attempts in two threads with one slot; two crashes.
SPECIFICATION FairSpec
CONSTANTS
    Attempts = {a1, a2, a3}
    ThreadCount = 2
    SlotCount = 1
    MaxCrashes = 2
INVARIANTS
    GenerationInv
PROPERTIES
    LogSpec
    GenerationFinishes
CHECK_DEADLOCK FALSE
