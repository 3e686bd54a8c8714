SPECIFICATION Spec
CONSTANTS
    c1 = c1
    Subs = {c1}
    Contents = {"update"}
    MaxEvents = 3
    BatchSize = 2
    Capacity = 1
    MaxRestarts = 1
    MaxConnects = 2
INVARIANTS TypeOK SentOnce NothingMissed
PROPERTY EventsArrive
CHECK_DEADLOCK FALSE
