\* Three attempts, feedback executions on, every plan identity that matters: the
\* default's, one to repeat and one more.
SPECIFICATION FairSpec
CONSTANTS
    MaxCandidates = 3
    MaxTurns = 5
    InspectionTurns = 2
    DefaultRuns = 1
    FeedbackWarmups = 1
    FeedbackRuns = 1
    PairedRuns = 2
    PairedWarmups = 1
    Keys = {kd, k1, k2}
    DefaultKey = kd
    NoKey = NoKey
INVARIANTS
    RolloutInv
    DecisionHolds
    EvidenceKept
PROPERTIES
    FirstDecisionStands
    RolloutEnds
CHECK_DEADLOCK FALSE
