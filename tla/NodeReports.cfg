SPECIFICATION LiveSpec
CONSTANTS
    t1 = t1
    t2 = t2
    r1 = r1
    l1 = l1
    Tags = {t1, t2}
    Requests = {r1}
    Loads = {l1}
    Pinned = {t1}
    Devs = {}
    NoDev = NoDev
    NoLoad = NoLoad
PROPERTY StatusReachesPlane
CHECK_DEADLOCK FALSE
