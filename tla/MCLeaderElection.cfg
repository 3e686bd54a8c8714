CONSTANTS
    s1 = s1
    s2 = s2
    s3 = s3
    Servers <- MCServers
    NoServer = NoServer
    Gone = Gone
    MaxDisruptions = 3
SPECIFICATION ElectionSpec
INVARIANTS
    ElectionTypeOK
    SplitBrainNeedsExpiry
PROPERTIES
    LeadershipConverges
