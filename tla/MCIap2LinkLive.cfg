\* Sound environments, and transmissions that may fail: what must happen.
SPECIFICATION FairSpec
CONSTANTS
    SeqMod = 3
    CounterMod = 6
    MaxReTx = 3
    FaultSets <- TransmitFault
    Requests <- SomeRequests
PROPERTIES
    LinkComesUp
    RequestIsAnswered
    DetectionAndSyncGetOut
\* The link stops when the acknowledgement of the device's SYN fails.
CHECK_DEADLOCK FALSE
