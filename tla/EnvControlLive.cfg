\* One trainer and a service that may be replaced once; two timeouts in a row
\* fail the monitor.
SPECIFICATION FairSpec
CONSTANTS
    Trainers = {t1}
    Episodes = {e1}
    HealthLimit = 2
    MaxStarts = 2
    NoRun = NoRun
PROPERTIES
    CleanupEnds
    LossIsNoticed
CHECK_DEADLOCK FALSE
