SPECIFICATION SafetySpec
CONSTANTS
    t1 = t1
    r1 = r1
    r2 = r2
    l1 = l1
    l2 = l2
    l3 = l3
    Tags = {t1}
    Requests = {r1, r2}
    Loads = {l1, l2, l3}
    Pinned = {t1}
    Devs = {}
    NoDev = NoDev
    NoLoad = NoLoad
SYMMETRY Symmetry
INVARIANT NoLostWakeup
INVARIANT LoadingHasLoad
INVARIANT GateExact
INVARIANT ReadyIsLive
INVARIANT SingleFlightAlone
CHECK_DEADLOCK FALSE
