\* Both workers; two connections on two descriptors, which may be the same one twice.
SPECIFICATION FairSpec
CONSTANTS
    Socks = {s1, s2}
    s1 = s1
    s2 = s2
    Types = {"peers", "fullscrape"}
    MaxConns = 2
    MaxRequests = 2
INVARIANTS
    TypeOK
    OneWorkerPerTask
    NoResultStranded
    AnswersHeldOnce
    RequestKept
PROPERTIES
    WaitingStaysOpen
    EventuallyAnswered
