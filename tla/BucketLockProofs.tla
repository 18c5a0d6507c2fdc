-------------------------- MODULE BucketLockProofs --------------------------
(***************************************************************************)
(* What holds of BucketLock for any threads, buckets, torrents and length  *)
(* of bucket_locklist.  The inductive invariant IInv says of the list that *)
(* it holds the held buckets, each once, and of the counter that it        *)
(* accounts for the torrents in counted, which differ from the resident    *)
(* ones in held buckets only and by the holder's delta.                    *)
(***************************************************************************)
EXTENDS BucketLock, SequenceLemmas, FiniteSetTheorems, TLAPS

-----------------------------------------------------------------------------

\* Only a thread in mutex_bucket_lock or in its section has a bucket.
HolderHasBucket == \A t \in Threads : pc[t] # "idle" => bucket[t] \in Buckets

\* The counter accounts for the torrents in counted; a holder's delta is what its bucket
\* has more than that; a bucket nobody holds is accounted for exactly.
CountedExact ==
    /\ g_torrent_count = Cardinality(counted)
    /\ \A t \in Threads :
           pc[t] = "holding" =>
               delta[t] = Cardinality(In(torrents, bucket[t]))
                            - Cardinality(In(counted, bucket[t]))
    /\ \A t \in Threads : pc[t] # "holding" => delta[t] = 0
    /\ \A h \in Torrents :
           (h \in torrents) # (h \in counted) => \E t \in Threads : Holding(t, Bucket[h])

IInv ==
    /\ TypeOK
    /\ HolderHasBucket
    /\ MutualExclusion
    /\ LocklistExact
    /\ SleepersBlocked
    /\ CountedExact

\* A set of torrents, and the part of it in one bucket, can be counted.
LEMMA InProperties ==
    ASSUME NEW S \in SUBSET Torrents, NEW b
    PROVE  /\ IsFiniteSet(S)
           /\ Cardinality(S) \in Nat
           /\ IsFiniteSet(In(S, b))
           /\ Cardinality(In(S, b)) \in Nat
<1>1. IsFiniteSet(S)
  BY TorrentsAssumption, FS_Subset
<1>2. IsFiniteSet(In(S, b))
  BY <1>1, FS_Subset DEF In
<1>. QED
  BY <1>1, <1>2, FS_CardinalityType

\* What an unlock makes of the set the counter accounts for.
LEMMA CountedAtUnlock ==
    ASSUME NEW C \in SUBSET Torrents, NEW T \in SUBSET Torrents, NEW b
    PROVE  Cardinality((C \ In(C, b)) \cup In(T, b))
             = Cardinality(C) + Cardinality(In(T, b)) - Cardinality(In(C, b))
<1> DEFINE D == C \ In(C, b)
<1>1. /\ IsFiniteSet(C) /\ IsFiniteSet(In(C, b)) /\ IsFiniteSet(In(T, b))
      /\ Cardinality(C) \in Nat /\ Cardinality(In(C, b)) \in Nat
      /\ Cardinality(In(T, b)) \in Nat
  BY InProperties
<1>2. IsFiniteSet(D) /\ Cardinality(D) = Cardinality(C) - Cardinality(C \cap In(C, b))
  BY <1>1, FS_Difference
<1>3. C \cap In(C, b) = In(C, b) /\ D \cap In(T, b) = {}
  BY DEF In
<1>4. Cardinality(D \cup In(T, b))
        = Cardinality(D) + Cardinality(In(T, b)) - Cardinality(D \cap In(T, b))
  BY <1>1, <1>2, FS_Union
<1>5. Cardinality({}) = 0
  BY FS_EmptySet
<1>6. Cardinality(C \cap In(C, b)) = Cardinality(In(C, b)) /\ Cardinality(D \cap In(T, b)) = 0
  BY <1>3, <1>5
<1>. HIDE DEF D
<1>7. Cardinality(D \cup In(T, b))
        = Cardinality(C) - Cardinality(In(C, b)) + Cardinality(In(T, b)) - 0
  BY <1>2, <1>4, <1>6
<1>. QED
  BY <1>1, <1>7 DEF D

\* The tracker starts with no torrent, no lock and everybody idle.
LEMMA InitInv == Init => IInv
<1> SUFFICES ASSUME Init PROVE IInv
  OBVIOUS
<1>1. TypeOK
  BY DEF Init, TypeOK, Places, Jobs
<1>2. HolderHasBucket /\ MutualExclusion /\ SleepersBlocked
  BY DEF Init, HolderHasBucket, MutualExclusion, SleepersBlocked
<1>3. LocklistExact
  BY MaxThreadsAssumption DEF Init, LocklistExact, Holding
<1>4. CountedExact
  BY FS_EmptySet DEF Init, CountedExact
<1>. QED
  BY <1>1, <1>2, <1>3, <1>4 DEF IInv

\* Asking for a bucket changes neither the list nor the counter.
LEMMA RequestInv ==
    ASSUME IInv, NEW t \in Threads, NEW j \in Jobs, NEW b \in Buckets, Request(t, j, b)
    PROVE  IInv'
<1>1. TypeOK' /\ HolderHasBucket'
  BY DEF IInv, Request, TypeOK, HolderHasBucket, Places
<1>2. \A u \in Threads, c \in Buckets : Holding(u, c)' <=> Holding(u, c)
  BY DEF IInv, Request, TypeOK, Holding
<1>3. MutualExclusion'
  BY DEF IInv, Request, TypeOK, MutualExclusion
<1>4. LocklistExact'
  BY <1>2 DEF IInv, Request, LocklistExact
<1>5. SleepersBlocked'
  BY DEF IInv, Request, TypeOK, SleepersBlocked, bucket_check
<1>6. CountedExact'
  BY <1>2, BucketAssumption DEF IInv, Request, TypeOK, CountedExact
<1>. QED
  BY <1>1, <1>3, <1>4, <1>5, <1>6 DEF IInv

\* Taking a bucket: it was in nobody's hands and is accounted for exactly.
LEMMA AcquireInv ==
    ASSUME IInv, NEW t \in Threads, Acquire(t)
    PROVE  IInv'
<1> DEFINE b == bucket[t]
<1>1. b \in Buckets /\ pc[t] = "locking"
  BY DEF IInv, HolderHasBucket, Acquire
<1>2. bucket_locklist \in Seq(Buckets) /\ bucket_locklist' = Append(bucket_locklist, b)
  BY DEF IInv, TypeOK, Acquire, bucket_push
<1>3. \A i \in 1..Len(bucket_locklist) : bucket_locklist[i] # b
  BY DEF Acquire, bucket_check
<1>4. \A u \in Threads, c \in Buckets :
          Holding(u, c)' <=> (Holding(u, c) \/ (u = t /\ c = b))
  BY <1>1 DEF IInv, TypeOK, Acquire, Holding
<1>5. TypeOK' /\ HolderHasBucket'
  BY <1>1, <1>2 DEF IInv, Acquire, TypeOK, HolderHasBucket, Places
<1>6. \A u \in Threads : ~Holding(u, b)
  BY <1>1, <1>3 DEF IInv, LocklistExact
<1>7. MutualExclusion'
  BY <1>1, <1>6 DEF IInv, Acquire, TypeOK, MutualExclusion, Holding
<1>8. LocklistExact'
  <2>1. /\ Len(bucket_locklist') = Len(bucket_locklist) + 1
        /\ \A i \in 1..(Len(bucket_locklist) + 1) :
              bucket_locklist'[i] = IF i <= Len(bucket_locklist) THEN bucket_locklist[i] ELSE b
        /\ Len(bucket_locklist) \in Nat
    BY <1>1, <1>2
  <2>2. Len(bucket_locklist') <= OT_MAX_THREADS
    BY <2>1, MaxThreadsAssumption DEF IInv, LocklistExact, Acquire, bucket_check
  <2>3. \A i, k \in 1..Len(bucket_locklist') :
            bucket_locklist'[i] = bucket_locklist'[k] => i = k
    BY <2>1, <1>3 DEF IInv, LocklistExact
  <2>4. ASSUME NEW c \in Buckets
        PROVE  (\E i \in 1..Len(bucket_locklist') : bucket_locklist'[i] = c)
                 <=> (\E u \in Threads : Holding(u, c)')
    <3>1. (\E i \in 1..Len(bucket_locklist') : bucket_locklist'[i] = c)
            <=> (c = b \/ \E i \in 1..Len(bucket_locklist) : bucket_locklist[i] = c)
      BY <2>1
    <3>2. (\E i \in 1..Len(bucket_locklist) : bucket_locklist[i] = c)
            <=> (\E u \in Threads : Holding(u, c))
      BY DEF IInv, LocklistExact
    <3>. QED
      BY <3>1, <3>2, <1>4
  <2>. QED
    BY <2>2, <2>3, <2>4 DEF LocklistExact
<1>9. SleepersBlocked'
  <2> SUFFICES ASSUME NEW u \in Threads, pc'[u] = "asleep" PROVE ~bucket_check(bucket[u])'
    BY DEF SleepersBlocked
  <2>1. pc[u] = "asleep" /\ bucket'[u] = bucket[u] /\ bucket[u] \in Buckets
    BY <1>1 DEF IInv, TypeOK, HolderHasBucket, Acquire
  <2>2. Len(bucket_locklist) # OT_MAX_THREADS
    BY DEF Acquire, bucket_check
  <2>3. PICK i \in 1..Len(bucket_locklist) : bucket_locklist[i] = bucket[u]
    BY <2>1, <2>2 DEF IInv, SleepersBlocked, bucket_check
  <2>4. i \in 1..Len(bucket_locklist') /\ bucket_locklist'[i] = bucket[u]
    BY <2>3, <1>1, <1>2
  <2>. QED
    BY <2>1, <2>4 DEF bucket_check
<1>10. CountedExact'
  <2>1. In(torrents, b) = In(counted, b)
    BY <1>1, <1>6, BucketAssumption DEF IInv, TypeOK, CountedExact, In
  <2>2. Cardinality(In(torrents, b)) - Cardinality(In(counted, b)) = 0
    <3>1. Cardinality(In(counted, b)) \in Nat
      BY InProperties DEF IInv, TypeOK
    <3>2. Cardinality(In(torrents, b)) = Cardinality(In(counted, b))
      BY <2>1
    <3>. QED
      BY <3>1, <3>2
  <2>3. delta[t] = 0
    BY <1>1 DEF IInv, CountedExact
  <2>. QED
    BY <1>1, <1>4, <2>2, <2>3, BucketAssumption DEF IInv, TypeOK, Acquire, CountedExact
<1>. QED
  BY <1>5, <1>7, <1>8, <1>9, <1>10 DEF IInv

\* Going to sleep: the reason was seen under bucket_mutex.
LEMMA WaitInv ==
    ASSUME IInv, NEW t \in Threads, Wait(t)
    PROVE  IInv'
<1>1. TypeOK' /\ HolderHasBucket'
  BY DEF IInv, Wait, TypeOK, HolderHasBucket, Places
<1>2. \A u \in Threads : \A c : Holding(u, c)' <=> Holding(u, c)
  BY DEF IInv, Wait, TypeOK, Holding
<1>3. MutualExclusion'
  BY DEF IInv, Wait, TypeOK, MutualExclusion
<1>4. LocklistExact'
  BY <1>2 DEF IInv, Wait, LocklistExact
<1>5. SleepersBlocked'
  BY DEF IInv, Wait, TypeOK, SleepersBlocked, bucket_check
<1>6. CountedExact'
  BY <1>2 DEF IInv, Wait, TypeOK, CountedExact
<1>. QED
  BY <1>1, <1>3, <1>4, <1>5, <1>6 DEF IInv

\* A torrent that enters or leaves bucket b concerns no other bucket.
LEMMA OtherBuckets ==
    ASSUME NEW S, NEW h \in Torrents, NEW b, b # Bucket[h]
    PROVE  In(S \cup {h}, b) = In(S, b) /\ In(S \ {h}, b) = In(S, b)
  BY DEF In

\* An insertion under the lock goes to the holder's delta.
LEMMA InsertInv ==
    ASSUME IInv, NEW t \in Threads, NEW h \in Torrents, InsertTorrent(t, h)
    PROVE  IInv'
<1> DEFINE b == bucket[t]
<1>1. TypeOK' /\ HolderHasBucket'
  BY DEF IInv, InsertTorrent, TypeOK, HolderHasBucket
<1>2. \A u \in Threads : \A c : Holding(u, c)' <=> Holding(u, c)
  BY DEF InsertTorrent, Holding
<1>3. MutualExclusion' /\ LocklistExact' /\ SleepersBlocked'
  BY <1>2 DEF IInv, InsertTorrent, MutualExclusion, LocklistExact, SleepersBlocked, bucket_check
<1>4. CountedExact'
  <2>1. In(torrents', b) = In(torrents, b) \cup {h} /\ h \notin In(torrents, b)
    BY DEF InsertTorrent, In
  <2>2. Cardinality(In(torrents', b)) = Cardinality(In(torrents, b)) + 1
    BY <2>1, InProperties, FS_AddElement DEF IInv, TypeOK
  <2>3. Cardinality(In(torrents, b)) \in Nat /\ Cardinality(In(counted, b)) \in Nat
    BY InProperties DEF IInv, TypeOK
  <2>4. \A u \in Threads : pc[u] = "holding" /\ u # t => bucket[u] # Bucket[h]
    BY DEF IInv, MutualExclusion, InsertTorrent
  <2>5. \A u \in Threads : pc[u] = "holding" /\ u # t =>
            In(torrents', bucket[u]) = In(torrents, bucket[u])
    BY <2>4, OtherBuckets DEF InsertTorrent
  <2>6. delta'[t] = delta[t] + 1 /\ \A u \in Threads \ {t} : delta'[u] = delta[u]
    BY DEF IInv, TypeOK, InsertTorrent
  <2>7. Holding(t, Bucket[h])
    BY DEF Holding, InsertTorrent
  <2>8. delta'[t] = Cardinality(In(torrents', b)) - Cardinality(In(counted, b))
    <3>1. delta[t] = Cardinality(In(torrents, b)) - Cardinality(In(counted, b))
      BY DEF IInv, CountedExact, InsertTorrent
    <3>. QED
      BY <3>1, <2>2, <2>3, <2>6
  <2>. HIDE DEF b
  <2>9. ASSUME NEW u \in Threads, pc[u] = "holding"
        PROVE  delta'[u] = Cardinality(In(torrents', bucket[u])) - Cardinality(In(counted, bucket[u]))
    BY <2>5, <2>6, <2>8, <2>9 DEF IInv, CountedExact, b
  <2>10. \A g \in Torrents : (g \in torrents') # (g \in counted) =>
            \E u \in Threads : Holding(u, Bucket[g])
    BY <2>7 DEF IInv, CountedExact, InsertTorrent
  <2>11. \A u \in Threads : pc[u] # "holding" => delta'[u] = 0
    BY <2>6 DEF IInv, CountedExact, InsertTorrent
  <2>. QED
    BY <1>2, <2>9, <2>10, <2>11 DEF IInv, CountedExact, InsertTorrent
<1>. QED
  BY <1>1, <1>3, <1>4 DEF IInv

\* A removal under the lock goes to the holder's delta.
LEMMA RemoveInv ==
    ASSUME IInv, NEW t \in Threads, NEW h \in Torrents, RemoveTorrent(t, h)
    PROVE  IInv'
<1> DEFINE b == bucket[t]
<1>1. TypeOK' /\ HolderHasBucket'
  BY DEF IInv, RemoveTorrent, TypeOK, HolderHasBucket
<1>2. \A u \in Threads : \A c : Holding(u, c)' <=> Holding(u, c)
  BY DEF RemoveTorrent, Holding
<1>3. MutualExclusion' /\ LocklistExact' /\ SleepersBlocked'
  BY <1>2 DEF IInv, RemoveTorrent, MutualExclusion, LocklistExact, SleepersBlocked, bucket_check
<1>4. CountedExact'
  <2>1. In(torrents', b) = In(torrents, b) \ {h} /\ h \in In(torrents, b)
    BY DEF RemoveTorrent, In
  <2>2. Cardinality(In(torrents', b)) = Cardinality(In(torrents, b)) - 1
    <3>1. IsFiniteSet(In(torrents, b))
      BY InProperties DEF IInv, TypeOK
    <3>2. Cardinality(In(torrents, b) \ {h}) = Cardinality(In(torrents, b)) - 1
      BY <2>1, <3>1, FS_RemoveElement
    <3>. QED
      BY <2>1, <3>2
  <2>3. Cardinality(In(torrents, b)) \in Nat /\ Cardinality(In(counted, b)) \in Nat
    BY InProperties DEF IInv, TypeOK
  <2>4. \A u \in Threads : pc[u] = "holding" /\ u # t => bucket[u] # Bucket[h]
    BY DEF IInv, MutualExclusion, RemoveTorrent
  <2>5. \A u \in Threads : pc[u] = "holding" /\ u # t =>
            In(torrents', bucket[u]) = In(torrents, bucket[u])
    BY <2>4, OtherBuckets DEF RemoveTorrent
  <2>6. delta'[t] = delta[t] - 1 /\ \A u \in Threads \ {t} : delta'[u] = delta[u]
    BY DEF IInv, TypeOK, RemoveTorrent
  <2>7. Holding(t, Bucket[h])
    BY DEF Holding, RemoveTorrent
  <2>8. delta'[t] = Cardinality(In(torrents', b)) - Cardinality(In(counted, b))
    <3>1. delta[t] = Cardinality(In(torrents, b)) - Cardinality(In(counted, b))
      BY DEF IInv, CountedExact, RemoveTorrent
    <3>. QED
      BY <3>1, <2>2, <2>3, <2>6
  <2>. HIDE DEF b
  <2>9. ASSUME NEW u \in Threads, pc[u] = "holding"
        PROVE  delta'[u] = Cardinality(In(torrents', bucket[u])) - Cardinality(In(counted, bucket[u]))
    BY <2>5, <2>6, <2>8, <2>9 DEF IInv, CountedExact, b
  <2>10. \A g \in Torrents : (g \in torrents') # (g \in counted) =>
            \E u \in Threads : Holding(u, Bucket[g])
    BY <2>7 DEF IInv, CountedExact, RemoveTorrent
  <2>11. \A u \in Threads : pc[u] # "holding" => delta'[u] = 0
    BY <2>6 DEF IInv, CountedExact, RemoveTorrent
  <2>. QED
    BY <1>2, <2>9, <2>10, <2>11 DEF IInv, CountedExact, RemoveTorrent
<1>. QED
  BY <1>1, <1>3, <1>4 DEF IInv

\* Giving a bucket back: its entry goes, its delta is counted, the sleepers wake.
LEMMA UnlockInv ==
    ASSUME IInv, NEW t \in Threads, Unlock(t)
    PROVE  IInv'
<1> DEFINE b == bucket[t]
           n == Len(bucket_locklist)
<1>1. b \in Buckets /\ Holding(t, b)
  BY DEF IInv, HolderHasBucket, Unlock, Holding
<1>2. PICK k \in 1..n : bucket_locklist[k] = b
  BY <1>1 DEF IInv, LocklistExact
<1>3. /\ bucket_locklist' \in Seq(Buckets)
      /\ Len(bucket_locklist') = n - 1
      /\ n \in Nat
      /\ \A j \in 1..(n - 1) :
            bucket_locklist'[j] = IF j < k THEN bucket_locklist[j] ELSE bucket_locklist[j + 1]
  <2>1. \A i \in 1..n : bucket_locklist[i] = bucket_locklist[k] => i = k
    BY DEF IInv, LocklistExact
  <2>2. bucket_locklist \in Seq(Buckets)
    BY DEF IInv, TypeOK
  <2>3. bucket_locklist' = RemoveAt(bucket_locklist, k)
    BY <1>2, <2>1, <2>2, RemoveFirstProperties DEF Unlock, bucket_remove
  <2>. QED
    BY <2>2, <2>3, RemoveAtProperties, SMTT(30)
<1>4. \A u \in Threads : pc'[u] = IF u = t THEN "idle"
                                  ELSE IF pc[u] = "asleep" THEN "locking" ELSE pc[u]
  BY DEF IInv, TypeOK, Unlock, Woken
<1>5. \A u \in Threads : bucket'[u] = IF u = t THEN NoBucket ELSE bucket[u]
  BY DEF IInv, TypeOK, Unlock
<1>6. \A u \in Threads : \A c : Holding(u, c)' <=> Holding(u, c) /\ u # t
  BY <1>4, <1>5 DEF Holding
<1>7. \A u \in Threads : u # t => ~Holding(u, b)
  BY <1>1 DEF IInv, MutualExclusion, Holding
<1>8. g_torrent_count' = Cardinality(counted') /\ g_torrent_count' \in Nat
  <2>1. /\ Cardinality(counted) \in Nat /\ Cardinality(In(counted, b)) \in Nat
        /\ Cardinality(In(torrents, b)) \in Nat
    BY InProperties DEF IInv, TypeOK
  <2>2. delta[t] = Cardinality(In(torrents, b)) - Cardinality(In(counted, b))
    BY DEF IInv, CountedExact, Unlock
  <2>3. counted' = (counted \ In(counted, b)) \cup In(torrents, b)
    BY DEF Unlock
  <2>4. Cardinality(counted')
          = Cardinality(counted) + Cardinality(In(torrents, b)) - Cardinality(In(counted, b))
    BY <2>3, CountedAtUnlock DEF IInv, TypeOK
  <2>5. g_torrent_count' = Cardinality(counted) + delta[t]
    BY DEF IInv, CountedExact, Unlock
  <2>6. counted' \in SUBSET Torrents
    BY <2>3 DEF IInv, TypeOK, In
  <2>. HIDE DEF b
  <2>7. g_torrent_count' = Cardinality(counted')
    BY <2>1, <2>2, <2>4, <2>5
  <2>. QED
    BY <2>6, <2>7, InProperties
<1>9. TypeOK' /\ HolderHasBucket'
  <2>1. counted' \in SUBSET Torrents
    BY DEF IInv, TypeOK, Unlock, In
  <2>2. pc' \in [Threads -> Places]
    BY DEF IInv, TypeOK, Unlock, Woken, Places
  <2>3. job' \in [Threads -> Jobs] /\ bucket' \in [Threads -> Buckets \cup {NoBucket}]
        /\ delta' \in [Threads -> Int] /\ torrents' \in SUBSET Torrents
    BY DEF IInv, TypeOK, Unlock, Jobs
  <2>. QED
    BY <1>3, <1>4, <1>5, <1>8, <2>1, <2>2, <2>3 DEF IInv, TypeOK, HolderHasBucket
<1>10. MutualExclusion'
  BY <1>4, <1>5 DEF IInv, MutualExclusion
<1>11. LocklistExact'
  <2>1. Len(bucket_locklist') <= OT_MAX_THREADS
    BY <1>3, MaxThreadsAssumption DEF IInv, LocklistExact
  <2>2. \A i, j \in 1..Len(bucket_locklist') :
            bucket_locklist'[i] = bucket_locklist'[j] => i = j
    BY <1>3 DEF IInv, LocklistExact
  <2>3. ASSUME NEW c \in Buckets
        PROVE  (\E i \in 1..Len(bucket_locklist') : bucket_locklist'[i] = c)
                 <=> (\E u \in Threads : Holding(u, c)')
    <3>1. (\E i \in 1..Len(bucket_locklist') : bucket_locklist'[i] = c)
            <=> (c # b /\ \E i \in 1..n : bucket_locklist[i] = c)
      <4>1. ASSUME NEW i \in 1..Len(bucket_locklist'), bucket_locklist'[i] = c
            PROVE  c # b /\ \E j \in 1..n : bucket_locklist[j] = c
        BY <4>1, <1>2, <1>3 DEF IInv, LocklistExact
      <4>2. ASSUME c # b, NEW j \in 1..n, bucket_locklist[j] = c
            PROVE  \E i \in 1..Len(bucket_locklist') : bucket_locklist'[i] = c
        <5>1. CASE j < k
          BY <4>2, <5>1, <1>3
        <5>2. CASE j > k
          <6>1. j - 1 \in 1..(n - 1) /\ ~(j - 1 < k) /\ (j - 1) + 1 = j
            BY <5>2, <1>3
          <6>. QED
            BY <4>2, <6>1, <1>3
        <5>. QED
          BY <4>2, <5>1, <5>2, <1>2, <1>3
      <4>. QED
        BY <4>1, <4>2
    <3>2. (\E i \in 1..n : bucket_locklist[i] = c) <=> (\E u \in Threads : Holding(u, c))
      BY DEF IInv, LocklistExact
    <3>3. c # b => ~Holding(t, c)
      BY DEF Holding
    <3>. QED
      BY <3>1, <3>2, <3>3, <1>6, <1>7
  <2>. QED
    BY <2>1, <2>2, <2>3 DEF LocklistExact
<1>12. SleepersBlocked'
  BY <1>4 DEF SleepersBlocked
<1>13. CountedExact'
  <2>1. ASSUME NEW u \in Threads, pc'[u] = "holding"
        PROVE  delta'[u] = Cardinality(In(torrents, bucket'[u])) - Cardinality(In(counted', bucket'[u]))
    <3>1. u # t /\ pc[u] = "holding" /\ bucket'[u] = bucket[u] /\ bucket[u] # b
      BY <2>1, <1>4, <1>5, <1>7 DEF Holding
    <3>2. In(counted', bucket[u]) = In(counted, bucket[u])
      BY <3>1 DEF Unlock, In
    <3>3. delta'[u] = delta[u]
      BY <3>1 DEF IInv, TypeOK, Unlock
    <3>. QED
      BY <3>1, <3>2, <3>3 DEF IInv, CountedExact
  <2>2. \A u \in Threads : pc'[u] # "holding" => delta'[u] = 0
    BY <1>4 DEF IInv, TypeOK, CountedExact, Unlock
  <2>3. ASSUME NEW h \in Torrents, (h \in torrents) # (h \in counted')
        PROVE  \E u \in Threads : Holding(u, Bucket[h])'
    <3>1. Bucket[h] # b /\ (h \in torrents) # (h \in counted)
      BY <2>3 DEF Unlock, In
    <3>2. PICK u \in Threads : Holding(u, Bucket[h])
      BY <3>1 DEF IInv, CountedExact
    <3>. QED
      BY <3>1, <3>2, <1>6 DEF Holding
  <2>4. torrents' = torrents
    BY DEF Unlock
  <2>. QED
    BY <1>8, <2>1, <2>2, <2>3, <2>4 DEF CountedExact
<1>. QED
  BY <1>9, <1>10, <1>11, <1>12, <1>13 DEF IInv

\* IInv is inductive.
LEMMA NextInv == IInv /\ [Next]_vars => IInv'
<1> SUFFICES ASSUME IInv, [Next]_vars PROVE IInv'
  OBVIOUS
<1>1. CASE UNCHANGED vars
  BY <1>1 DEF vars, IInv, TypeOK, HolderHasBucket, MutualExclusion, LocklistExact,
              SleepersBlocked, CountedExact, Holding, bucket_check
<1>2. CASE Next
  BY <1>2, RequestInv, AcquireInv, WaitInv, InsertInv, RemoveInv, UnlockInv DEF Next
<1>. QED
  BY <1>1, <1>2

\* The inductive invariant holds in every reachable state.
THEOREM Invariance == Spec => []IInv
  BY InitInv, NextInv, PTL DEF Spec

\* Every variable keeps its type; in particular the counter never goes below zero.
THEOREM TypeCorrect == Spec => []TypeOK
<1>1. IInv => TypeOK
  BY DEF IInv
<1>. QED
  BY <1>1, Invariance, PTL

\* However many threads and buckets there are, two threads never hold one bucket, and
\* bucket_locklist is the set of held buckets without repetition and fits its array.
THEOREM LocksCorrect == Spec => []LocksExact
<1>1. IInv => LocksExact
  BY DEF IInv, LocksExact
<1>. QED
  BY <1>1, Invariance, PTL

\* A thread asleep in mutex_bucket_lock is one that would have to wait now.
THEOREM NoLostWakeup == Spec => []SleepersBlocked
<1>1. IInv => SleepersBlocked
  BY DEF IInv
<1>. QED
  BY <1>1, Invariance, PTL

\* With no bucket held, g_torrent_count is the number of torrents of the tracker.
THEOREM TorrentCountCorrect == Spec => []TorrentCountExact
<1>1. IInv => TorrentCountExact
  <2> SUFFICES ASSUME IInv, \A t \in Threads : pc[t] # "holding"
               PROVE  g_torrent_count = Cardinality(torrents)
    BY DEF TorrentCountExact
  <2>1. \A h \in Torrents : (h \in torrents) <=> (h \in counted)
    BY DEF IInv, CountedExact, Holding
  <2>2. torrents = counted
    BY <2>1 DEF IInv, TypeOK
  <2>. QED
    BY <2>2 DEF IInv, CountedExact
<1>. QED
  BY <1>1, Invariance, PTL

-----------------------------------------------------------------------------
(* Sections are atomic *)

\* What a holder has done so far to its bucket is what its job may do, and no one else has
\* done anything to it since the bucket was given back last.
DoneSoFar(t) ==
    LET was == In(counted, bucket[t])
        now == In(torrents, bucket[t])
    IN  /\ job[t] = "announce" => \/ delta[t] = 0 /\ now = was
                                  \/ delta[t] # 0 /\ \E h \in Torrents : now = was \cup {h}
        /\ job[t] = "scrape" => \/ delta[t] = 0 /\ now = was
                                \/ delta[t] # 0 /\ \E h \in Torrents : now = was \ {h}
        /\ job[t] = "clean" => now \subseteq was
        /\ job[t] = "iterate" => now = was
SectionOK == \A t \in Threads : pc[t] = "holding" => DoneSoFar(t)

\* A section begins with what was there, does what its job does, and is disturbed by no other.
LEMMA SectionStep == IInv /\ SectionOK /\ [Next]_vars => SectionOK'
<1> SUFFICES ASSUME IInv, SectionOK, [Next]_vars PROVE SectionOK'
  OBVIOUS
<1>1. /\ pc \in [Threads -> Places] /\ job \in [Threads -> Jobs] /\ delta \in [Threads -> Int]
      /\ bucket \in [Threads -> Buckets \cup {NoBucket}]
      /\ torrents \in SUBSET Torrents /\ counted \in SUBSET Torrents
  BY DEF IInv, TypeOK
<1>2. ASSUME NEW u \in Threads, DoneSoFar(u), job'[u] = job[u], delta'[u] = delta[u],
             In(counted', bucket'[u]) = In(counted, bucket[u]),
             In(torrents', bucket'[u]) = In(torrents, bucket[u])
      PROVE  DoneSoFar(u)'
  BY <1>2 DEF DoneSoFar
<1>3. ASSUME NEW t \in Threads, NEW j \in Jobs, NEW b \in Buckets, Request(t, j, b) PROVE SectionOK'
  <2>1. /\ torrents' = torrents /\ counted' = counted /\ delta' = delta
        /\ \A u \in Threads : pc'[u] = "holding" =>
              pc[u] = "holding" /\ job'[u] = job[u] /\ bucket'[u] = bucket[u]
    BY <1>1, <1>3 DEF Request
  <2> QED
    BY <2>1 DEF SectionOK, DoneSoFar
<1>4. ASSUME NEW t \in Threads, Acquire(t) PROVE SectionOK'
  <2> DEFINE b == bucket[t]
  <2>1. /\ torrents' = torrents /\ counted' = counted /\ delta' = delta /\ job' = job /\ bucket' = bucket
        /\ \A u \in Threads : pc'[u] = "holding" => u = t \/ pc[u] = "holding"
    BY <1>1, <1>4 DEF Acquire
  <2>2. b \in Buckets /\ pc[t] = "locking" /\ \A u \in Threads : ~Holding(u, b)
    BY <1>4 DEF IInv, HolderHasBucket, Acquire, bucket_check, LocklistExact
  <2>3. In(torrents, b) = In(counted, b)
    BY <1>1, <2>2, BucketAssumption DEF IInv, CountedExact, In
  <2>4. delta[t] = 0
    BY <2>2 DEF IInv, CountedExact
  <2> QED
    BY <2>1, <2>3, <2>4 DEF SectionOK, DoneSoFar
<1>5. ASSUME NEW t \in Threads, Wait(t) PROVE SectionOK'
  <2>1. /\ torrents' = torrents /\ counted' = counted /\ delta' = delta /\ job' = job /\ bucket' = bucket
        /\ \A u \in Threads : pc'[u] = "holding" => pc[u] = "holding"
    BY <1>1, <1>5 DEF Wait
  <2> QED
    BY <2>1 DEF SectionOK, DoneSoFar
<1>6. ASSUME NEW t \in Threads, NEW h \in Torrents, InsertTorrent(t, h) PROVE SectionOK'
  <2>1. /\ pc' = pc /\ job' = job /\ bucket' = bucket /\ counted' = counted
        /\ pc[t] = "holding" /\ job[t] = "announce" /\ delta[t] = 0 /\ Bucket[h] = bucket[t]
        /\ torrents' = torrents \cup {h} /\ delta'[t] = 1
        /\ \A u \in Threads : u # t => delta'[u] = delta[u]
    BY <1>1, <1>6 DEF InsertTorrent
  <2>2. \A u \in Threads : pc[u] = "holding" /\ u # t => In(torrents', bucket[u]) = In(torrents, bucket[u])
    <3>1. \A u \in Threads : pc[u] = "holding" /\ u # t => bucket[u] # Bucket[h]
      BY <2>1 DEF IInv, MutualExclusion
    <3> QED
      BY <2>1, <3>1, OtherBuckets
  <2>3. In(torrents', bucket[t]) = In(counted, bucket[t]) \cup {h}
    <3>1. In(torrents, bucket[t]) = In(counted, bucket[t])
      BY <2>1 DEF SectionOK, DoneSoFar
    <3>2. In(torrents', bucket[t]) = In(torrents, bucket[t]) \cup {h}
      BY <2>1 DEF In
    <3> QED
      BY <3>1, <3>2
  <2>4. \A u \in Threads : pc[u] = "holding" /\ u # t => DoneSoFar(u)'
    <3>1. \A u \in Threads : pc[u] = "holding" /\ u # t =>
              /\ DoneSoFar(u) /\ job'[u] = job[u] /\ delta'[u] = delta[u]
              /\ In(counted', bucket'[u]) = In(counted, bucket[u])
              /\ In(torrents', bucket'[u]) = In(torrents, bucket[u])
      BY <2>1, <2>2 DEF SectionOK
    <3> QED
      BY <1>2, <3>1
  <2>5. DoneSoFar(t)'
    BY <2>1, <2>3 DEF DoneSoFar
  <2> QED
    BY <2>1, <2>4, <2>5 DEF SectionOK
<1>7. ASSUME NEW t \in Threads, NEW h \in Torrents, RemoveTorrent(t, h) PROVE SectionOK'
  <2>1. /\ pc' = pc /\ job' = job /\ bucket' = bucket /\ counted' = counted
        /\ pc[t] = "holding" /\ Bucket[h] = bucket[t]
        /\ \/ job[t] = "scrape" /\ delta[t] = 0 /\ delta'[t] # 0
           \/ job[t] = "clean"
        /\ torrents' = torrents \ {h}
        /\ \A u \in Threads : u # t => delta'[u] = delta[u]
    BY <1>1, <1>7 DEF RemoveTorrent
  <2>2. \A u \in Threads : pc[u] = "holding" /\ u # t => In(torrents', bucket[u]) = In(torrents, bucket[u])
    <3>1. \A u \in Threads : pc[u] = "holding" /\ u # t => bucket[u] # Bucket[h]
      BY <2>1 DEF IInv, MutualExclusion
    <3> QED
      BY <2>1, <3>1, OtherBuckets
  <2>3. In(torrents', bucket[t]) = In(torrents, bucket[t]) \ {h}
    BY <2>1 DEF In
  <2>4. job[t] = "scrape" => In(torrents, bucket[t]) = In(counted, bucket[t])
    BY <2>1 DEF SectionOK, DoneSoFar
  <2>5. job[t] = "clean" => In(torrents, bucket[t]) \subseteq In(counted, bucket[t])
    BY <2>1 DEF SectionOK, DoneSoFar
  <2>6. \A u \in Threads : pc[u] = "holding" /\ u # t => DoneSoFar(u)'
    <3>1. \A u \in Threads : pc[u] = "holding" /\ u # t =>
              /\ DoneSoFar(u) /\ job'[u] = job[u] /\ delta'[u] = delta[u]
              /\ In(counted', bucket'[u]) = In(counted, bucket[u])
              /\ In(torrents', bucket'[u]) = In(torrents, bucket[u])
      BY <2>1, <2>2 DEF SectionOK
    <3> QED
      BY <1>2, <3>1
  <2>7. DoneSoFar(t)'
    BY <2>1, <2>3, <2>4, <2>5 DEF DoneSoFar
  <2> QED
    BY <2>1, <2>6, <2>7 DEF SectionOK
<1>8. ASSUME NEW t \in Threads, Unlock(t) PROVE SectionOK'
  <2>1. /\ torrents' = torrents /\ pc[t] = "holding"
        /\ \A u \in Threads : pc'[u] = "holding" =>
              u # t /\ pc[u] = "holding" /\ job'[u] = job[u] /\ bucket'[u] = bucket[u] /\ delta'[u] = delta[u]
        /\ counted' = (counted \ In(counted, bucket[t])) \cup In(torrents, bucket[t])
    BY <1>1, <1>8 DEF Unlock, Woken
  <2>2. \A u \in Threads : u # t /\ pc[u] = "holding" => In(counted', bucket[u]) = In(counted, bucket[u])
    <3>1. \A u \in Threads : pc[u] = "holding" /\ u # t => bucket[u] # bucket[t]
      BY <2>1 DEF IInv, MutualExclusion
    <3>2. \A h \in In(counted, bucket[t]) \cup In(torrents, bucket[t]) : Bucket[h] = bucket[t]
      BY DEF In
    <3>3. ASSUME NEW u \in Threads, pc[u] = "holding", u # t, NEW h
          PROVE  Bucket[h] = bucket[u] => (h \in counted' <=> h \in counted)
      BY <2>1, <3>1, <3>2, <3>3
    <3> QED
      BY <3>3 DEF In
  <2> QED
    <3>1. \A u \in Threads : pc'[u] = "holding" =>
              /\ DoneSoFar(u) /\ job'[u] = job[u] /\ delta'[u] = delta[u]
              /\ In(counted', bucket'[u]) = In(counted, bucket[u])
              /\ In(torrents', bucket'[u]) = In(torrents, bucket[u])
      BY <2>1, <2>2 DEF SectionOK
    <3>2. \A u \in Threads : pc'[u] = "holding" => DoneSoFar(u)'
      BY <1>2, <3>1
    <3> QED
      BY <3>2 DEF SectionOK
<1>9. CASE UNCHANGED vars
  BY <1>9 DEF vars, SectionOK, DoneSoFar
<1> QED
  BY <1>3, <1>4, <1>5, <1>6, <1>7, <1>8, <1>9 DEF Next

\* What giving a bucket back does to the torrents that are counted is what the job does.
LEMMA SectionHappens ==
    ASSUME IInv, SectionOK, NEW t \in Threads, Unlock(t)
    PROVE  counted' \in Abstract!After(t)
<1> DEFINE b == bucket[t]
           was == In(counted, b)
           now == In(torrents, b)
<1>1. pc[t] = "holding" /\ counted' = (counted \ was) \cup now
  BY DEF Unlock
<1>2. job[t] \in Jobs /\ b \in Buckets /\ counted \in SUBSET Torrents
  BY <1>1 DEF IInv, TypeOK, HolderHasBucket
<1>3. was \subseteq counted /\ \A h \in was : Bucket[h] = b
  BY DEF In
<1> HIDE DEF was, now
<1> DEFINE here == {h \in Torrents : Bucket[h] = b}
<1>4. /\ job[t] = "announce" => Abstract!After(t) = {counted} \cup {counted \cup {h} : h \in here}
      /\ job[t] = "scrape"   => Abstract!After(t) = {counted} \cup {counted \ {h} : h \in here}
      /\ job[t] = "clean"    => Abstract!After(t) = {counted \ idle : idle \in SUBSET here}
      /\ job[t] = "iterate"  => Abstract!After(t) = {counted}
  <2>1. [u \in Threads |-> IF pc[u] = "idle" THEN "nothing" ELSE job[u]][t] = job[t]
    BY <1>1
  <2>2. Abstract!Here(t) = here
    BY DEF Abstract!Here
  <2> QED
    BY <2>1, <2>2 DEF Abstract!After
<1>5. CASE now = was
  <2>1. counted' = counted
    BY <1>1, <1>3, <1>5
  <2>2. counted = counted \ {}
    OBVIOUS
  <2>3. {} \in SUBSET here
    OBVIOUS
  <2> QED
    BY <1>2, <1>4, <2>1, <2>2, <2>3 DEF Jobs
<1>6. CASE job[t] = "announce" /\ now # was
  <2>1. PICK h \in Torrents : now = was \cup {h}
    BY <1>1, <1>6 DEF SectionOK, DoneSoFar, was, now
  <2>2. Bucket[h] = b
    BY <2>1 DEF now, In
  <2>3. counted' = counted \cup {h}
    BY <1>1, <1>3, <2>1
  <2> QED
    BY <1>4, <1>6, <2>2, <2>3
<1>7. CASE job[t] = "scrape" /\ now # was
  <2>1. PICK h \in Torrents : now = was \ {h}
    BY <1>1, <1>7 DEF SectionOK, DoneSoFar, was, now
  <2>2. h \in was /\ Bucket[h] = b
    BY <1>3, <1>7, <2>1
  <2>3. counted' = counted \ {h}
    BY <1>1, <1>3, <2>1, <2>2
  <2> QED
    BY <1>4, <1>7, <2>2, <2>3
<1>8. CASE job[t] = "clean"
  <2>1. now \subseteq was
    BY <1>1, <1>8 DEF SectionOK, DoneSoFar, was, now
  <2> DEFINE idle == was \ now
  <2>2. counted' = counted \ idle
    BY <1>1, <1>3, <2>1
  <2>3. idle \in SUBSET here
    BY <1>2, <1>3
  <2> HIDE DEF idle
  <2> QED
    BY <1>4, <1>8, <2>2, <2>3
<1>9. CASE job[t] = "iterate" /\ now # was
  BY <1>1, <1>9 DEF SectionOK, DoneSoFar, was, now
<1> QED
  BY <1>2, <1>5, <1>6, <1>7, <1>8, <1>9 DEF Jobs

\* A request is the beginning of a section, an unlock the section, and everything in between
\* is not seen.
LEMMA SectionSteps ==
    ASSUME IInv, IInv', SectionOK, [Next]_vars
    PROVE  [Abstract!Next]_Abstract!vars
<1> DEFINE doing == [t \in Threads |-> IF pc[t] = "idle" THEN "nothing" ELSE job[t]]
<1>1. /\ pc \in [Threads -> Places] /\ job \in [Threads -> Jobs]
  BY DEF IInv, TypeOK
<1>2. ASSUME NEW t \in Threads, NEW j \in Jobs, NEW b \in Buckets, Request(t, j, b)
      PROVE  Abstract!Next
  <2>1. doing[t] = "nothing" /\ doing' = [doing EXCEPT ![t] = j]
    BY <1>1, <1>2 DEF Request
  <2>2. UNCHANGED <<counted, g_torrent_count>> /\ bucket' = [bucket EXCEPT ![t] = b]
    BY <1>2 DEF Request
  <2>3. j \in Abstract!Jobs
    BY DEF Jobs, Abstract!Jobs
  <2>4. Abstract!Begin(t, j, b)
    BY <2>1, <2>2 DEF Abstract!Begin
  <2> QED
    BY <2>3, <2>4 DEF Abstract!Next
<1>3. ASSUME NEW t \in Threads, Unlock(t) PROVE Abstract!Next
  <2>1. pc[t] = "holding" /\ \A u \in Threads : pc'[u] = "idle" <=> u = t \/ pc[u] = "idle"
    BY <1>1, <1>3 DEF Unlock, Woken
  <2>2. \A u \in Threads : u # t => job'[u] = job[u]
    BY <1>1, <1>3 DEF Unlock
  <2>3. doing[t] = job[t] /\ job[t] \in Abstract!Jobs
    BY <1>1, <2>1 DEF Jobs, Abstract!Jobs
  <2>4. doing' = [doing EXCEPT ![t] = "nothing"]
    BY <2>1, <2>2
  <2>5. /\ counted' \in Abstract!After(t)
        /\ bucket' = [bucket EXCEPT ![t] = NoBucket]
    BY <1>3, <2>3, SectionHappens DEF Unlock
  <2>6. g_torrent_count' = Abstract!Cardinality(counted')
    BY DEF IInv, CountedExact, Cardinality, Abstract!Cardinality
  <2>7. Abstract!Happen(t)
    <3>1. doing[t] \in Abstract!Jobs /\ counted' \in Abstract!After(t)
      BY <2>3, <2>5
    <3> HIDE DEF doing
    <3> QED
      BY <3>1, <2>4, <2>5, <2>6 DEF Abstract!Happen, doing
  <2> QED
    BY <2>7 DEF Abstract!Next
<1>4. ASSUME NEW t \in Threads,
             \/ Acquire(t) \/ Wait(t)
             \/ \E h \in Torrents : InsertTorrent(t, h) \/ RemoveTorrent(t, h)
      PROVE  UNCHANGED Abstract!vars
  <2>1. /\ UNCHANGED <<counted, g_torrent_count, job, bucket>>
        /\ \A u \in Threads : pc'[u] = "idle" <=> pc[u] = "idle"
    BY <1>1, <1>4 DEF Acquire, Wait, InsertTorrent, RemoveTorrent
  <2>2. doing' = doing
    BY <2>1
  <2> QED
    BY <2>1, <2>2 DEF Abstract!vars
<1>5. CASE UNCHANGED vars
  BY <1>5 DEF vars, Abstract!vars
<1> QED
  BY <1>2, <1>3, <1>4, <1>5 DEF Next

\* For any threads, buckets and torrents, whatever sections overlap: each is one step that
\* does what its job is to the torrents, and the counter is always their number.
THEOREM SectionsHappen == Spec => SectionsAtomic
<1>1. Init => Abstract!Init
  BY FS_EmptySet DEF Init, Abstract!Init
<1>2. Init => SectionOK
  BY DEF Init, SectionOK
<1>3. IInv /\ SectionOK /\ [Next]_vars => SectionOK'
  BY SectionStep
<1>4. IInv /\ IInv' /\ SectionOK /\ [Next]_vars => [Abstract!Next]_Abstract!vars
  BY SectionSteps
<1> QED
  BY <1>1, <1>2, <1>3, <1>4, Invariance, PTL DEF Spec, SectionsAtomic, Abstract!Spec
=============================================================================
