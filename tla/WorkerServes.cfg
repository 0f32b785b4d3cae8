SPECIFICATION MCSpec
CONSTANTS
    c1 = c1
    c2 = c2
    c3 = c3
    k1 = k1
    k2 = k2
    Callers = {c1, c2, c3}
    Keys = {k1, k2}
    MaxCount = 3
    Capacity = 2
    ChanCap = 1
    NoBatch = NoBatch
    NoCapacity = NoCapacity
    Names <- MCNames
    Signatures <- MCSignatures
    Values <- MCLists
    Broadcasts <- MCBroadcasts
    Optional = {"a"}
    Trailing <- MCTrailing
    MaxBatch = 3
INVARIANT Accounted
INVARIANT BatchSound
INVARIANT NeverDropped
INVARIANT Transparent
 
PROPERTY Answered
CHECK_DEADLOCK FALSE
