\* The clean worker keeps its pace, statements to the database fail; in one part clients withdraw
\* and publish the torrent and save copies of the record while operations run.
SPECIFICATION SwarmSpec
CONSTANTS
    p1 = p1
    p2 = p2
    Peers = {p1, p2}
    Banks = {p2}
    OT_PEER_TIMEOUT = 2
    OT_TORRENT_TIMEOUT = 4
    Parts = {"record", "pace"}
    TicksInside = FALSE
    DbFails = TRUE
    CopiesSaved = TRUE
    CleanGap = 2
    MaxTime = 5
    MaxCompleted = 2
INVARIANTS
    RecordFollows
    StalePeersGone
    CompletedOnce
