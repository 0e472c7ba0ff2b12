SPECIFICATION Spec
CONSTANTS
    Nodes = {1, 2}
    Null = Null
    TickWrap = 5
    Timeouts = {2}
    MaxLag = 1
INVARIANTS
    TypeOK
    ListHoldsUsedTimers
PROPERTIES
    FiresNeitherEarlyNorDead
    NotPassedWhenDue
    KeepsFiring
