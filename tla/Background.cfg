SPECIFICATION MCSpec
CONSTANTS
    Paths = {p1}
    Calls = {c1, c2, c3}
    Locks = {l1, l2, l3}
    NoLock = NoLock
    NoCall = NoCall
    Tags = {t1, t2}
    Routed = {t1}
    Relays = {a, b}
    NoRelay = NoRelay
    MaxLoads = 3
    Devices = {d1}
    Engines = {e1, e2}
    Segments = {s1, s2}
    Slots = {k1, k2}
    Policies = {std, plane}
    Default = std
    Unset = Unset
    Free = Free
    Absent = Absent
    Rejected = Rejected
    Unit = 1000000
    Epsilon = 10
    Problems <- MCProblems
    Signals = {TERM, INT}
    Conns = {q1, q2}
    First = q1
    Second = q2
    Loops = {beat}
    Beat = beat
INVARIANT Owned
INVARIANT SharesSplit
INVARIANT NobodyLoses
 
PROPERTY FlightSpec
PROPERTY Returns
PROPERTY Tracks
PROPERTY Stops
PROPERTY Converges
PROPERTY ProcessEnds
CHECK_DEADLOCK FALSE
