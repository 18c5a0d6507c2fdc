\* The statistics worker alone, as Jamfile builds it: a descriptor is used again.
SPECIFICATION Spec
CONSTANTS
    Socks = {s1, s2}
    s1 = s1
    s2 = s2
    Types = {"peers"}
    MaxConns = 2
    MaxRequests = 2
INVARIANT AnswerEndsWait
