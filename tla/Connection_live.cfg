\* One endpoint waits for a slot, the other may close.
SPECIFICATION LiveSpec
CONSTANTS
    MaxStreams = 0
    MaxOpens = 1
    Openers <- OnlyA
    Closers <- OnlyB
    Abandoners <- Nobody
    Impatient <- Nobody
    WireVersions <- OneVersion
    Slow <- Nobody
PROPERTIES Settles TeardownPropagates
CHECK_DEADLOCK FALSE
