\* Two proxies connect to each other; a slot for the peer and one for an incoming connection
\* each; three connections, one of which may break.
SPECIFICATION Spec
CONSTANTS
    a = a
    b = b
    Proxies = {a, b}
    Peers <- EachOther
    None = None
    MAX_PEERS = 2
    MaxConns = 3
    MaxBreaks = 1
SYMMETRY Symmetric
INVARIANTS
    SlotsAgree
    GreetsOnce
PROPERTIES
    MadeStays
