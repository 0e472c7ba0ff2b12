\* Frames may be lost: is the SYN sent again?
SPECIFICATION FairSpec
CONSTANTS
    SeqMod = 3
    CounterMod = 6
    MaxReTx = 3
    FaultSets <- LossFault
    Requests <- SomeRequests
PROPERTY
    LostSynIsReSent
CHECK_DEADLOCK FALSE
