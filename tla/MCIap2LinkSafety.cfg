\* Every environment: the safety properties of the iAP2 link.
SPECIFICATION Spec
CONSTANTS
    SeqMod = 3
    CounterMod = 6
    MaxReTx = 3
    FaultSets <- EveryFault
    Requests <- SomeRequests
INVARIANTS
    TypeOK
    NeverSilent
    NeverHangs
    TransferFitsState
    NoRequestOfOurOwn
    AnswerNamesRequest
    DeviceIsAnswered
    NumbersInStep
PROPERTY
    ImplementsExchange
\* With faults the link may stop for good.
CHECK_DEADLOCK FALSE
