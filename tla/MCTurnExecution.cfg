SPECIFICATION FairSpec
CONSTANTS
    NumCalls = 3
    LastStep = 1
    LimitSteps = 1
    MaxFaults = 2
INVARIANTS
    TypeOK
    StepsSettled
    OncePerCall
    GapNeedsFault
    MarkedNeedsResume
PROPERTIES
    ImplementsContract
    TurnRests
    RecoveryCloses
\* A turn whose question was taken off, or that waits in vain, is stuck.
CHECK_DEADLOCK FALSE
