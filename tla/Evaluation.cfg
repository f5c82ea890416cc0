\* Four rollouts on two workers.
SPECIFICATION FairSpec
CONSTANTS
    Items = {r1, r2, r3, r4}
    WorkerCount = 2
INVARIANTS
    EvaluationInv
PROPERTIES
    EvaluationEnds
CHECK_DEADLOCK FALSE
