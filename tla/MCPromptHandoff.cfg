CONSTANTS
    s1 = s1
    s2 = s2
    p1 = p1
    r1 = r1
    r2 = r2
    Job = Job
    Servers <- MCOneServer
    Prompts <- MCPrompts
    Requests <- MCTwoRequests
    MaxTries = 2
    MaxFaults = 1
SPECIFICATION Spec
INVARIANTS
    TypeOK
    SoleDispatcher
    TakenOnce
    StrandedNeedsFault
PROPERTIES
    KeepsLedger
SYMMETRY MCSymmetry
CHECK_DEADLOCK FALSE
