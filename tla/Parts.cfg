SPECIFICATION Spec
CONSTANTS
    Hashes <- MCHashes
    Addresses = {1, 2, 3, 4, 5}
    Flags = {0, 1, 2}
    STOPPED = 2
    COUNT_BITS = 2
    OT_BUCKET_COUNT = 16
    MIN_BLOCK = 1
    INDATA = 13
    HEADER = 2
    BUFFSIZE = 17
    SIZES = 65536
    Starts <- MCStarts
    MaxTells = 3
    Announced <- MCAnnounced
    MaxPackets = 2

    HEX = 3
    AMP = 9
    EQ = 10
    PCT = 11
    MINUS = 12
    END = 13
    BAD = 14
    ODD = 15
    keywords_announce <- MCkeywords_announce
    keywords_event <- MCkeywords_event
    OT_HASH_SIZE = 2
    MAXPORT = 3
    MAXNUMWANT = 2
    NUMWANT = 1
    OT_MAXMULTISCRAPE_COUNT = 1
    Before_query <- MCBefore_query
    Texts <- MCTexts

    Buckets <- MCBuckets
    Addresses_of <- MCAddresses_of
    Seeders <- MCSeeders
    NODE_COUNT = 2
    MAXDEPTH = 3
    LIMIT = 2
    amount = 2
    WIDTH = 4
    MaxChanges = 1

    BITS = 3
    BYTES = 2
    Given <- MCGiven
    MaxNets = 3
\* A scan ends, a statistics task is made once, and the bounds end the rest.
CHECK_DEADLOCK FALSE
INVARIANTS
    PartsTypeOK
    StreamExact
    PeersDelivered
    QueryRead
    StatsExact
    LookupExact
