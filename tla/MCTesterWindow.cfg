CONSTANTS
    ReadSize = 2
    TestSize = 2
    MaxReSendCount = 1
    MaxInputs = 2
    MaxFaults = 1
SPECIFICATION RunningSpec
INVARIANTS
    AnswerFits
PROPERTIES
    HandlesOutliveListener
    BytesAreRead
    CloseEnds
    TestEnds
CHECK_DEADLOCK FALSE
