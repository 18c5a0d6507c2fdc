SPECIFICATION PeersSpec
CONSTANTS
    \* Every number of peers a client can ask for, in every layout.
    Layouts <- SomeLayouts
    MaxAmount = 7
    MAXPRECBIT <- TwoTo29

    \* Up to five peers in one, two or four vectors, and allocations that fail.
    Peers <- FivePeers
    Hash <- UnevenHash
    OT_VECTOR_MIN_MEMBERS = 2
    OT_VECTOR_GROW_RATIO = 2
    OT_VECTOR_SHRINK_RATIO = 2
    OT_VECTOR_SHRINK_THRESH = 4
    OT_PEER_BUCKET_MINCOUNT = 1
    FewBuckets = 2
    ManyBuckets = 4
    Limits <- SmallLimits
    AllocFails = TRUE

    \* Chunks of eight bytes in pages of two, entries of one or two.
    Scraped <- FourTorrents
    EntryBucket <- TwoBuckets
    EntryLen <- ShortAndLong
    BucketCount = 2
    OT_SCRAPE_CHUNK_SIZE = 8
    OT_SCRAPE_MAXENTRYLEN = 3
    PageSize = 2
INVARIANTS
    SelectionExact
    VectorsExact
    ScrapeExact
PROPERTIES
    Ends
    NoThrashing
    ImplementsSet
