CONSTANTS
    SeqMod = 3
    CounterMod = 3
    MaxReTx = 1
    FaultSets <- NoFaults
    Requests <- NoRequests
    Trees <- TheTrees
    Cases <- TheCases
    MaxClicks = 3
SPECIFICATION TesterSpec
INVARIANTS
    HandleMatchesThread
    EveryCaseIsRun
    TransmissionsEnd
PROPERTIES
    StopIsNotLost
CHECK_DEADLOCK FALSE
