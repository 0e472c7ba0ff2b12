\* The device may reset the link: does SwTimer_Start's assertion hold?
SPECIFICATION Spec
CONSTANTS
    SeqMod = 3
    CounterMod = 6
    MaxReTx = 3
    FaultSets <- ResetFault
    Requests <- SomeRequests
INVARIANT
    SwTimerAssertion
CHECK_DEADLOCK FALSE
