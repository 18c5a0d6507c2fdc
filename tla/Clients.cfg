SPECIFICATION ClientsSpec
CONSTANTS
    \* Two clients and the tracker; four operations, so that a torrent is added, gets a seed bank,
    \* and one more operation overlaps.
    Clients = {c1, c2}
    c1 = c1
    c2 = c2
    Addresses = {a1, a2}
    MaxOps = 4
    MaxAnnounces = 1

    \* Two workers, two clients, two torrents, datagrams that overwrite a part of the buffer.
    UdpWorkers = {w1, w2}
    w1 = w1
    w2 = w2
    Senders = {s1, s2}
    s1 = s1
    s2 = s2
    UdpTorrents = {t1, t2}
    t1 = t1
    t2 = t2
    UdpKinds <- LongAndShort
    Mixed = Mixed
    MaxSent = 2
SYMMETRY Exchanged
INVARIANTS
    SeedbanksAgree
    ExactUnlessStale
    UdpExact
