\* Four threads, as many places as threads: the list never overflows.
SPECIFICATION FairSpec
CONSTANTS
    Threads = {t1, t2, t3, t4}
    h1 = h1
    h2 = h2
    h3 = h3
    b1 = b1
    b2 = b2
    b3 = b3
    Torrents = {h3}
    Buckets <- TwoBuckets
    Bucket <- OneTorrentOf
    NoBucket = NoBucket
    OT_MAX_THREADS = 4
PROPERTIES
    BucketServed
