\* Minutes end inside operations, the clean worker may fall behind, statements to the database fail.
SPECIFICATION SwarmSpec
CONSTANTS
    p1 = p1
    p2 = p2
    Peers = {p1, p2}
    Banks = {p2}
    OT_PEER_TIMEOUT = 2
    OT_TORRENT_TIMEOUT = 4
    Parts = {"all"}
    TicksInside = TRUE
    DbFails = TRUE
    CopiesSaved = FALSE
    CleanGap = 5
    MaxTime = 5
    MaxCompleted = 1
INVARIANTS
    TypeOK
    CountsAgree
PROPERTIES
    NoEarlyEviction
    KeptWhileUseful
