\* More threads than places in bucket_locklist: requests wait for a bucket and for a place.
SPECIFICATION Spec
CONSTANTS
    Threads = {t1, t2, t3, t4}
    h1 = h1
    h2 = h2
    h3 = h3
    b1 = b1
    b2 = b2
    b3 = b3
    Torrents = {h1, h2, h3}
    Buckets <- ThreeBuckets
    Bucket <- ThreeBucketsOf
    NoBucket = NoBucket
    OT_MAX_THREADS = 2
SYMMETRY Symmetric
INVARIANTS
    TypeOK
    LocksExact
    SleepersBlocked
    TorrentCountExact
PROPERTIES
    SectionsAtomic
