SPECIFICATION Spec
CONSTANTS
    NumCalls = 2
    LastStep = 1
    LimitSteps = 1
    MaxFaults = 1
INVARIANTS
    HistoryComplete
\* A turn whose question was taken off, or that waits in vain, is stuck.
CHECK_DEADLOCK FALSE
