\* Two streams that compete for the connection's credit; the second may be
\* closed, reset, cancelled or dropped while the first goes on, and both fail.
CONSTANTS
    s1 = s1
    s2 = s2
    Streams = {s1, s2}
    MaxStreamData = 1
    MaxData = 2
    MaxOffset = 3
    MaxFrame = 1
    WriteSizes = {1}
    Closing = {s2}
    Cancelling = {s2}
    Abandoning = {s2}
    Failing = TRUE
SPECIFICATION Spec
CHECK_DEADLOCK FALSE
INVARIANTS
    TypeOK NoFalseViolation NoLostWakeup WithinCredit CreditConserved
PROPERTIES
    NoCreditAfterStop
