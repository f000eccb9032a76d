CONSTANTS
    Ids = {d1, d2}
    MaxDirectories = 4
    Names = {8, 9}
    MaxNumber = 2
    MaxAsks = 2
    MaxSaid = 1
    MaxConversations = 2
    MaxActs = 4
    MaxShares = 2
    MaxGestures = 4
    Sessions = {s1, s2}
    Null = Null
    MaxRequests = 4
    MaxFileCalls = 3
    Spans = {p1, p2, p3}
    Root = p1
    Tagged = {p2}
    Recorded = {p2}
    Times <- SpanTimes
    MaxResends = 2
SPECIFICATION ComponentsSpec
INVARIANTS
    KernelAccounted
    PageAccounted
    
    CollectorAccounted
\* A kernel serves until it is disposed of, and a user acts a bounded number of times.
CHECK_DEADLOCK FALSE
