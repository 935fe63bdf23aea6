\* One endpoint opens streams, may give one up and may end them unaccepted; the
\* other may find the handshake too slow; their wire versions may differ.
SPECIFICATION Spec
CONSTANTS
    MaxStreams = 1
    MaxOpens = 2
    Openers <- OnlyA
    Closers <- Nobody
    Abandoners <- OnlyA
    Impatient <- OnlyA
    WireVersions <- AnyVersions
    Slow <- OnlyB
INVARIANTS NoFalseAccusation SurfacedAfterHello VersionWindow NoLostAccept NoLostSlotWakeup
CHECK_DEADLOCK FALSE
