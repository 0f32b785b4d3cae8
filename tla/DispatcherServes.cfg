SPECIFICATION LiveSpec
CONSTANTS
    r1 = r1
    r2 = r2
    m1 = m1
    m2 = m2
    k1 = k1
    k2 = k2
    Requests = {r1, r2}
    Models = {m1, m2}
    Locks = {k1, k2}
    NoModel = NoModel
    NoLock = NoLock
    Nobody = Nobody
INVARIANT GuardTravels
INVARIANT SoundAlone
PROPERTY Served
CHECK_DEADLOCK FALSE
