\* One client and a listener that closes once.
CONSTANTS
    a1 = a1
    a2 = a2
    u1 = u1
    u2 = u2
    Addrs = {a1}
    Ufrags = {u1}
    NoUfrag = NoUfrag
    MaxPcs = 1
    MaxQuic = 0
    MaxCloses = 1
    InboxCap = 1
    AcceptCap = 1
SPECIFICATION LiveSpec
CHECK_DEADLOCK FALSE
PROPERTY CloseStops
