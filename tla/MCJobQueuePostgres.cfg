CONSTANTS
    s1 = s1
    s2 = s2
    a = a
    b = b
    c = c
    d = d
    init = init
    delete = delete
    r1 = r1
    r2 = r2
    NoServer = NoServer
    Gone = Gone
    NoJob = NoJob
    Types <- MCTypes
    Resources <- MCResources
    TypeOf <- MCTypeOf
    ResourceOf <- MCResourceOf
    Priority <- MCPriority
    MaxAttempts <- MCMaxAttempts
    Jobs <- MCTwoJobs
    Servers <- MCTwoServers
    DuplicateJobs <- MCDuplicates
    DelayedJobs <- MCDelayed
    Limit <- MCLimit
    Window = 10
    SingleNode = FALSE
    TimelyJobs = TRUE
    MaxDisruptions = 2
SPECIFICATION Spec
INVARIANT
    SerialUntilExpiry
PROPERTY
    ContractUntilExpiry
