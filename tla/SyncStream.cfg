SPECIFICATION StreamSpec
CONSTANTS
    Hashes <- MCHashes
    Addresses = {1, 2, 3, 4, 5}
    Flags = {0, 1, 2}
    STOPPED = 2
    COUNT_BITS = 2
    OT_BUCKET_COUNT = 16
    MIN_BLOCK = 1
    INDATA = 13
    HEADER = 2
    BUFFSIZE = 17
    SIZES = 65536
    Starts <- MCStarts
    MaxTells = 3
    Announced <- MCAnnounced
    MaxPackets = 2
\* The bounds end a behaviour.
CHECK_DEADLOCK FALSE
INVARIANT
    TorrentsLeft
