SPECIFICATION Spec
CONSTANTS
    c1 = c1
    c2 = c2
    boot = boot
    Clients = {c1, c2}
    Startup = boot
    StatusesGiven = {"ready"}
    MaxIncidents = 2
PROPERTIES DeletedStaysDeleted
CHECK_DEADLOCK FALSE
