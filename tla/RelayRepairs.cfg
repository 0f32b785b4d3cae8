SPECIFICATION MCSpec
CONSTANTS
    MaxEpoch = 2
    MaxSeq = 2
    WireCap = 2
    RecvTimeout = 2
    FlushIntervals = {1, 3}
INVARIANT BatchExact
INVARIANT BaselineFirst
 
PROPERTY CatchesUp
PROPERTY CancelledReturns
CHECK_DEADLOCK FALSE
