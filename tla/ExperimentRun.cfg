\* Two invocations beside each other: two in all for SFT and RL, from nothing and from what
\* earlier ones left, three for the others.
SPECIFICATION FairSpec
CONSTANTS
    Processes = {p1, p2}
    Methods = {"sft", "rl", "eval", "calibrate"}
    Commands <- AllCommands
    MaxInvocations <- Invocations
    MaxVersion = 2
    Unusable <- UnusableSplits
    Steps = 1
INVARIANTS
    ExperimentInv
    Provenance
PROPERTIES
    AttemptStands
    InvocationsEnd
CHECK_DEADLOCK FALSE
