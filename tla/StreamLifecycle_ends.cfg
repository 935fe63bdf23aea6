\* Both applications write and close, one through poll_shutdown; the other may
\* reset, cancel its reads, and abandon a close_write that waits.
SPECIFICATION LiveSpec
CONSTANTS
    MaxWrites = 2
    DataQ = 1
    Cancellers <- OnlyB
    Resetters <- OnlyB
    Shutdowners <- OnlyA
    Abandoners <- OnlyB
INVARIANTS NoProtocolError TerminalOnItsWay RetiredIsSilent MidStreamWindow
PROPERTIES ImplementsByteStream Retires FinReachesReader
CHECK_DEADLOCK FALSE
