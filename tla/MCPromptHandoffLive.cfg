CONSTANTS
    s1 = s1
    s2 = s2
    p1 = p1
    r1 = r1
    r2 = r2
    Job = Job
    Servers <- MCOneServer
    Prompts <- MCPrompts
    Requests <- MCOneRequest
    MaxTries = 2
    MaxFaults = 2
SPECIFICATION FairSpec
PROPERTIES
    SettlesOrStranded
CHECK_DEADLOCK FALSE
