SPECIFICATION LiveSpec
CONSTANTS
    t1 = t1
    r1 = r1
    r2 = r2
    r3 = r3
    l1 = l1
    l2 = l2
    Tags = {t1}
    Requests = {r1, r2, r3}
    Loads = {l1, l2}
    Pinned = {}
    Devs = {}
    NoDev = NoDev
    NoLoad = NoLoad
PROPERTY AnsweredAlone
PROPERTY DeferredUnload
CHECK_DEADLOCK FALSE
