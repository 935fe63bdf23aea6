\* A connection ended by any of its tasks at once, under an observer.
SPECIFICATION LiveSpec
CONSTANTS
    MaxFrameSize = 30
    MaxOffset = 1
    CreditRange = 3
    CodeRange = 14
    o1 = o1
    d1 = d1
    d2 = d2
    Observers = {o1}
    LateMessages <- Late
    Datagrams = {d1}
    DatagramBuf = 1
    LocalCodes = {2}
    QuicRange = 30
INVARIANTS FirstReasonWins NotifiedKnows CloseNotBlamed DecodersFaithful
PROPERTY EndIsSeen
CHECK_DEADLOCK FALSE
