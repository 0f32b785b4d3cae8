SPECIFICATION LiveSpec
CONSTANTS
    Requests = {r1, r2}
    Capacity = 1
    MaxItems = 3
    Free = Free
INVARIANT Faithful
INVARIANT CommittedByFirst
INVARIANT SampledOnce
PROPERTY Admitted
CHECK_DEADLOCK FALSE
