\* Two trainers, a service that is restarted once, one episode.
SPECIFICATION Spec
CONSTANTS
    Trainers = {t1, t2}
    Episodes = {e1}
    HealthLimit = 1
    MaxStarts = 2
    NoRun = NoRun
SYMMETRY ControlSymmetry
INVARIANTS
    ControlInv
    AcknowledgedIsFinal
    ClosedByOwner
    TrainingIsBacked
CHECK_DEADLOCK FALSE
