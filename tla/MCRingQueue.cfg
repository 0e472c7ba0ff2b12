SPECIFICATION Spec
CONSTANTS
    Capacity = 3
    Elements = {a, b}
    Blank = Blank
    MaxPush = 4
INVARIANTS
    FlagsTellMeeting
    CountsAgree
PROPERTY ImplementsBoundedQueue
