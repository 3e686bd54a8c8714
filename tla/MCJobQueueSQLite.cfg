CONSTANTS
    s1 = s1
    s2 = s2
    a = a
    b = b
    c = c
    d = d
    init = init
    delete = delete
    r1 = r1
    r2 = r2
    NoServer = NoServer
    Gone = Gone
    NoJob = NoJob
    Types <- MCTypes
    Resources <- MCResources
    TypeOf <- MCTypeOf
    ResourceOf <- MCResourceOf
    Priority <- MCPriority
    MaxAttempts <- MCMaxAttempts
    Jobs <- MCFourJobs
    Servers <- MCOneServer
    DuplicateJobs <- MCDuplicates
    DelayedJobs <- MCDelayed
    Limit <- MCLimit
    Window = 2
    SingleNode = TRUE
    TimelyJobs = TRUE
    MaxDisruptions = 1
SPECIFICATION FairSpec
INVARIANTS
    TypeOK
    SerialPerResource
    WithinConcurrencyLimit
PROPERTIES
    ImplementsContract
    EveryJobSettles
