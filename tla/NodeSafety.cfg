SPECIFICATION SafetySpec
CONSTANTS
    t1 = t1
    t2 = t2
    l1 = l1
    d1 = d1
    Tags = {t1, t2}
    Requests = {}
    Loads = {l1}
    Pinned = {}
    Devs = {d1}
    NoDev = NoDev
    NoLoad = NoLoad
INVARIANT CacheHonest
INVARIANT OnlyClearsUnsignalled
 
PROPERTY FleetSpec
CHECK_DEADLOCK FALSE
