\* A reception may fail: is the failure followed by a re-send?
SPECIFICATION Spec
CONSTANTS
    SeqMod = 3
    CounterMod = 6
    MaxReTx = 3
    FaultSets <- ReceiveFault
    Requests <- SomeRequests
INVARIANT
    FailureAwaitsReSend
CHECK_DEADLOCK FALSE
