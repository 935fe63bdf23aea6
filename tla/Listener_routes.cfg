\* Two PCs, of one ufrag or two, from two addresses, a QUIC connection, a
\* queue of one, and a listener that closes.
CONSTANTS
    a1 = a1
    a2 = a2
    u1 = u1
    u2 = u2
    Addrs = {a1, a2}
    Ufrags = {u1, u2}
    NoUfrag = NoUfrag
    MaxPcs = 2
    MaxQuic = 1
    MaxCloses = 1
    InboxCap = 1
    AcceptCap = 1
SPECIFICATION Spec
SYMMETRY Symmetry
CHECK_DEADLOCK FALSE
INVARIANTS SurfacedOnce LostOnlyToNamesake
PROPERTIES StaleOnlyByPump BoundAddressKept
