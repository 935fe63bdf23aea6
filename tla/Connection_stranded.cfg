\* A stream that arrives while the handshake completes.
SPECIFICATION Spec
CONSTANTS
    MaxStreams = 1
    MaxOpens = 1
    Openers <- OnlyA
    Closers <- Nobody
    Abandoners <- Nobody
    Impatient <- Nobody
    WireVersions <- OneVersion
    Slow <- Nobody
INVARIANT NoneStranded
CHECK_DEADLOCK FALSE
