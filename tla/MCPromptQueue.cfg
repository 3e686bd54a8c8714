SPECIFICATION FairSpec
CONSTANTS
    p1 = p1
    p2 = p2
    Prompts <- MCPrompts
    HookPrompts <- MCHookPrompts
    MaxWakeups = 2
    MaxFaults = 1
    MaxQuestions = 1
    MaxEdits = 1
INVARIANTS
    TypeOK OnePlace NoLostWakeup
PROPERTIES
    QueueMoves KeepsPromises
CHECK_DEADLOCK FALSE
