SPECIFICATION LiveSpec
CONSTANTS
    MaxLen = 2
    MaxLimit = 3
    QueueCap = 1
    MaxAbandons = 1
INVARIANTS GrantAccounted FinComplete
PROPERTIES WriteEnds FinSent StopAnswered
CHECK_DEADLOCK FALSE
