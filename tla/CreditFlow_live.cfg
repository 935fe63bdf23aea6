\* One stream, with windows of which half is two bytes, and offsets that take
\* several MAX_DATA and MAX_STREAM_DATA frames to use up; its reader may cancel.
CONSTANTS
    s1 = s1
    s2 = s2
    Streams = {s1}
    MaxStreamData = 4
    MaxData = 5
    MaxOffset = 10
    MaxFrame = 2
    WriteSizes = {2}
    Closing = {}
    Cancelling = {s1}
    Abandoning = {}
    Failing = FALSE
SPECIFICATION LiveSpec
CHECK_DEADLOCK FALSE
INVARIANTS
    NoFalseViolation NoCreditDeadlock BoundedUnread
PROPERTIES
    WriteCompletes
