---------------------------- MODULE MCBucketLock ----------------------------
(* Instances of BucketLock for TLC. *)
EXTENDS BucketLock, TLC

CONSTANTS b1, b2, b3, h1, h2, h3

TwoBuckets == {b1, b2}

\* A torrent in one of two buckets.
OneTorrentOf == (h3 :> b2)

\* Two torrents share a bucket, the third has one of its own, one bucket is empty.
ThreeBuckets == {b1, b2, b3}
ThreeBucketsOf == (h1 :> b1) @@ (h2 :> b1) @@ (h3 :> b2)

Symmetric == Permutations(Threads)
=============================================================================
