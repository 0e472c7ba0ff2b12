SPECIFICATION Spec
CONSTANTS
    MaxSeq = 3
    MaxData = 2
    File <- MCFile
    MaxTx = 2
    LineMax = 2
    MaxFaults = 1
    MaxInputs = 3
INVARIANTS
    SlotFreeWhenPosting
PROPERTIES
    SuccessIsComplete
    AnswersAreForTheirRequest
    DownloadEnds
CHECK_DEADLOCK FALSE
