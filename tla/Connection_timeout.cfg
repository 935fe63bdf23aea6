\* The HELLO timeout races the handshake, and a wait for a slot.
SPECIFICATION LiveSpec
CONSTANTS
    MaxStreams = 1
    MaxOpens = 2
    Openers <- OnlyA
    Closers <- Nobody
    Abandoners <- Nobody
    Impatient <- Nobody
    WireVersions <- OneVersion
    Slow <- OnlyA
PROPERTY OpenEndsAtTeardown
CHECK_DEADLOCK FALSE
