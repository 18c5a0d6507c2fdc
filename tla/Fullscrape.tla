------------------------------ MODULE Fullscrape ------------------------------
(***************************************************************************)
(* The worker that answers a full scrape: it walks over all buckets, one   *)
(* locked at a time, and prints one entry per torrent into chunks of       *)
(* memory that grow with the answer (ot_fullscrape.c, ot_iovec.c), through *)
(* zlib if the client asked for that.  Threads that announce add and       *)
(* remove torrents in the buckets that are not locked.                     *)
(***************************************************************************)
EXTENDS Integers, Sequences, FiniteSets

CONSTANTS
    Scraped,                 \* the torrents there can be, numbers from 1
    EntryBucket,             \* the bucket of each of them
    EntryLen,                \* how many bytes its entry takes
    BucketCount,             \* OT_BUCKET_COUNT
    OT_SCRAPE_CHUNK_SIZE,
    OT_SCRAPE_MAXENTRYLEN,
    PageSize                 \* getpagesize()

\* An entry fits, behind what opens the answer; a chunk holds whole pages and more than two entries.
ASSUME ScrapeAssumption ==
    /\ Scraped \subseteq Nat \ {0} /\ IsFiniteSet(Scraped)
    /\ BucketCount \in Nat \ {0} /\ PageSize \in Nat \ {0}
    /\ EntryBucket \in [Scraped -> 1..BucketCount]
    /\ EntryLen \in [Scraped -> 1..(OT_SCRAPE_MAXENTRYLEN - 1)]
    /\ OT_SCRAPE_MAXENTRYLEN \in Nat \ {0, 1}
    /\ OT_SCRAPE_CHUNK_SIZE \in Nat /\ OT_SCRAPE_CHUNK_SIZE > 2 * OT_SCRAPE_MAXENTRYLEN
    /\ OT_SCRAPE_CHUNK_SIZE % PageSize = 0

VARIABLES
    torrents,   \* the torrents there are
    mode,       \* gzip: TASK_FLAG_GZIP; framed: the mode opens and closes a dictionary
    at,         \* where the worker is
    bucket,     \* the bucket it is in or about to lock
    done,       \* how many of its torrents are printed
    iovector,   \* the chunks; of each what is written, iov_len and the pages that are mapped, and,
                \* as history, how much was written to the chunks before it
    re,         \* the low watermark of the last chunk
    input,      \* compress_buffer
    held,       \* what zlib has read and not yet written
    printed,    \* history: everything that was printed
    throughout  \* history: the torrents that have been there since the task began

scrapeVars == <<torrents, mode, at, bucket, done, iovector, re, input, held, printed, throughout>>

Modes == [gzip : BOOLEAN, framed : BOOLEAN]

\* The bytes of an entry, and of what opens and closes a dictionary.
Entry(t) == [i \in 1..EntryLen[t] |-> t]
Opening == <<0>>
Closing == <<0>>

\* The torrents of a bucket, and where each of them is in its vector, which is sorted.
InBucket(b) == {t \in torrents : EntryBucket[t] = b}
tor_offset(t) == Cardinality({u \in InBucket(EntryBucket[t]) : u < t})

Locked(b) == at \in {"bucket", "room"} /\ bucket = b

-----------------------------------------------------------------------------
(* Chunks of memory. *)

Pages(bytes) == bytes \div PageSize

Final(chunks) == chunks[Len(chunks)]
Used(chunks) == Len(Final(chunks).data)

\* iovec_increase: a chunk more.  Only realloc reports that there is no memory; mmap would return
\* MAP_FAILED, which is not the null pointer the code looks for.
iovec_increase(chunks) ==
    Append(chunks, [data |-> <<>>, iov_len |-> OT_SCRAPE_CHUNK_SIZE, pages |-> Pages(OT_SCRAPE_CHUNK_SIZE),
                    from |-> IF chunks = <<>> THEN 0 ELSE Final(chunks).from + Used(chunks)])

\* Mutant: only the pages that are full are kept.
iovec_fixlast_FullPages(chunks) ==
    [chunks EXCEPT ![Len(chunks)].iov_len = Used(chunks), ![Len(chunks)].pages = Pages(Used(chunks))]

\* iovec_fixlast: the pages behind the last one that is written to are given back.
iovec_fixlast(chunks) ==
    LET new_pages == 1 + Pages(Used(chunks)) IN
    [chunks EXCEPT ![Len(chunks)].iov_len = Used(chunks),
                   ![Len(chunks)].pages = IF @ < new_pages THEN @ ELSE new_pages]

\* iovec_length: what the vectors say they hold, byte by byte.
Bytes(chunks) == UNION {{i} \X (1..chunks[i].iov_len) : i \in DOMAIN chunks}
iovec_length(chunks) == Cardinality(Bytes(chunks))

\* More bytes in the last chunk.
Written(chunks, bytes) == [chunks EXCEPT ![Len(chunks)].data = @ \o bytes]

-----------------------------------------------------------------------------
(* zlib: deflate() reads all it is given unless the chunk is full, and writes any part of what it
   has read, with Z_FINISH all of it.  A byte stands for itself. *)
Deflate(chunks, in, finish) ==
    LET all == held \o in
        room == OT_SCRAPE_CHUNK_SIZE - Used(chunks)
    IN \E n \in 0..Len(all), unread \in 0..Len(in) :
         /\ n <= room /\ n + unread <= Len(all)
         /\ unread > 0 => n = room
         /\ finish => n = room \/ n = Len(all)
         /\ iovector' = Written(chunks, SubSeq(all, 1, n))
         /\ held' = SubSeq(all, n + 1, Len(all) - unread)
         /\ input' = SubSeq(all, Len(all) - unread + 1, Len(all))

\* The bytes go to the last chunk, or to the buffer zlib is given to read.
Output(bytes, finish) ==
    /\ printed' = printed \o bytes
    /\ IF mode.gzip THEN Deflate(iovector, input \o bytes, finish)
       ELSE iovector' = Written(iovector, bytes) /\ UNCHANGED <<input, held>>

\* fullscrape_increase: another chunk, or, if there is no memory for it, no answer.
fullscrape_increase(finish) ==
    \/ /\ LET chunks == iovec_increase(iovec_fixlast(iovector)) IN
          IF mode.gzip THEN Deflate(chunks, input, finish) ELSE iovector' = chunks /\ UNCHANGED <<input, held>>
       /\ re' = OT_SCRAPE_CHUNK_SIZE - OT_SCRAPE_MAXENTRYLEN - (IF mode.gzip THEN OT_SCRAPE_MAXENTRYLEN ELSE 0)
       /\ UNCHANGED at
    \/ /\ iovector' = <<>> /\ at' = "made"
       /\ UNCHANGED <<re, input, held>>

-----------------------------------------------------------------------------
(* fullscrape_make *)

\* A task is taken; what opens the dictionary is printed, but not yet compressed.
Start ==
    /\ at = "idle"
    /\ mode' \in Modes
    /\ bucket' = 1 /\ done' = 0 /\ held' = <<>> /\ throughout' = torrents
    /\ LET opening == IF mode'.framed THEN Opening ELSE <<>> IN
       \/ /\ printed' = opening
          /\ input' = IF mode'.gzip THEN opening ELSE <<>>
          /\ iovector' = Written(iovec_increase(<<>>), IF mode'.gzip THEN <<>> ELSE opening)
          /\ re' = OT_SCRAPE_CHUNK_SIZE - (IF mode'.gzip THEN 0 ELSE OT_SCRAPE_MAXENTRYLEN)
          /\ at' = "lock"
       \/ /\ iovector' = <<>> /\ input' = <<>> /\ printed' = <<>> /\ re' = 0
          /\ at' = "made"
    /\ UNCHANGED torrents

Lock ==
    /\ at = "lock"
    /\ at' = "bucket"
    /\ UNCHANGED <<torrents, mode, bucket, done, iovector, re, input, held, printed, throughout>>

PrintEntry ==
    /\ at = "bucket"
    /\ \E t \in InBucket(bucket) : tor_offset(t) = done /\ Output(Entry(t), FALSE)
    /\ done' = done + 1
    /\ at' = "room"
    /\ UNCHANGED <<torrents, mode, bucket, re, throughout>>

\* while( r >= re ); the next entry is printed to the start of compress_buffer.
MakeRoom ==
    /\ at = "room"
    /\ \/ /\ Used(iovector) >= re
          /\ fullscrape_increase(FALSE)
       \/ /\ Used(iovector) < re
          /\ input' = <<>>
          /\ at' = "bucket"
          /\ UNCHANGED <<iovector, re, held>>
    /\ UNCHANGED <<torrents, mode, bucket, done, printed, throughout>>

\* The bucket is done and unlocked; the worker ends here when the program does.
Unlock ==
    /\ at = "bucket" /\ done = Cardinality(InBucket(bucket))
    /\ \/ at' = "stopped" /\ UNCHANGED <<bucket, done>>
       \/ /\ bucket' = bucket + 1 /\ done' = 0
          /\ at' = IF bucket < BucketCount THEN "lock" ELSE "close"
    /\ UNCHANGED <<torrents, mode, iovector, re, input, held, printed, throughout>>

Close ==
    /\ at = "close"
    /\ Output(IF mode.framed THEN Closing ELSE <<>>, TRUE)
    /\ at' = "finish"
    /\ UNCHANGED <<torrents, mode, bucket, done, re, throughout>>

Finish ==
    /\ at = "finish"
    /\ \/ /\ mode.gzip /\ Used(iovector) >= re
          /\ fullscrape_increase(TRUE)
       \/ /\ mode.gzip => Used(iovector) < re
          /\ iovector' = iovec_fixlast(iovector)
          /\ at' = "made"
          /\ UNCHANGED <<re, input, held>>
    /\ UNCHANGED <<torrents, mode, bucket, done, printed, throughout>>

\* fullscrape_worker: the answer is pushed, or freed if nobody waits for it any more.
Deliver ==
    /\ at = "made"
    /\ at' = "idle"
    /\ iovector' = <<>> /\ input' = <<>> /\ held' = <<>> /\ printed' = <<>> /\ throughout' = {}
    /\ bucket' = 1 /\ done' = 0 /\ re' = 0
    /\ UNCHANGED <<torrents, mode>>

\* Another thread adds or removes a torrent of a bucket it could lock.
OtherThread(t) ==
    /\ at # "idle" /\ ~Locked(EntryBucket[t])
    /\ \/ torrents' = torrents \cup {t} /\ UNCHANGED throughout
       \/ torrents' = torrents \ {t} /\ throughout' = throughout \ {t}
    /\ UNCHANGED <<mode, at, bucket, done, iovector, re, input, held, printed>>

ScrapeInit ==
    /\ torrents \in SUBSET Scraped
    /\ mode \in {m \in Modes : ~m.gzip /\ ~m.framed}
    /\ at = "idle" /\ bucket = 1 /\ done = 0
    /\ iovector = <<>> /\ re = 0 /\ input = <<>> /\ held = <<>>
    /\ printed = <<>> /\ throughout = {}

ScrapeNext ==
    \/ Start \/ Lock \/ PrintEntry \/ MakeRoom \/ Unlock \/ Close \/ Finish \/ Deliver
    \/ \E t \in Scraped : OtherThread(t)

ScrapeSpec == ScrapeInit /\ [][ScrapeNext]_scrapeVars

-----------------------------------------------------------------------------
(* Properties *)

\* In all the bytes there are these behind the first ones, as many as from says.
StandsAt(bytes, from, all) ==
    /\ from + Len(bytes) <= Len(all)
    /\ \A i \in 1..Len(bytes) : bytes[i] = all[from + i]

\* How many bytes of entry t were printed.
BytesOf(t) == Cardinality({i \in DOMAIN printed : printed[i] = t})

\* Between its chunks, the state of zlib and compress_buffer nothing that was printed is lost,
\* doubled or out of order, although the same buffer is printed to again for every torrent.
NothingLost ==
    iovector # <<>> =>
      LET end == Final(iovector).from + Used(iovector) IN
      /\ \A i \in DOMAIN iovector :
           /\ iovector[i].from = IF i = 1 THEN 0 ELSE iovector[i - 1].from + Len(iovector[i - 1].data)
           /\ StandsAt(iovector[i].data, iovector[i].from, printed)
      /\ StandsAt(held, end, printed)
      /\ StandsAt(input, end + Len(held), printed)
      /\ Len(printed) = end + Len(held) + Len(input)

\* Nothing is written behind a chunk or compress_buffer, and no page with a part of the answer is
\* given back when a chunk is shortened.
InsideMemory ==
    /\ Len(input) <= OT_SCRAPE_MAXENTRYLEN
    /\ \A i \in DOMAIN iovector :
        /\ Len(iovector[i].data) <= OT_SCRAPE_CHUNK_SIZE
        /\ Len(iovector[i].data) <= iovector[i].pages * PageSize
        /\ i < Len(iovector) => iovector[i].iov_len = Len(iovector[i].data)

\* An answer that is delivered lists every torrent that was there all the time, none twice, in
\* whole entries, and is as long as its vectors say; the memory behind the last byte is not sent.
AnswerWhole ==
    /\ \A t \in Scraped : BytesOf(t) \in {0, EntryLen[t]}
    /\ at = "made" /\ iovector # <<>> =>
        /\ held = <<>> /\ input = <<>>
        /\ iovec_length(iovector) = Len(printed)
        /\ \A t \in throughout : BytesOf(t) = EntryLen[t]
        /\ mode.framed => printed[1] = 0 /\ printed[Len(printed)] = 0

\* A full scrape is exact, whatever is announced while it is made (fullscrape_make).
ScrapeExact == NothingLost /\ InsideMemory /\ AnswerWhole
=============================================================================
