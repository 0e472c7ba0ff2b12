SPECIFICATION Spec
CONSTANTS
    Capacity = 2
    Elements = {m1, m2}
    Blank = Blank
    Nodes = {n1, n2, n3}
    Null = Null
    Bytes <- MCBytes
    Zero = "0"
    Paren = ")"
    Enter = "cr"
    Low <- MCLow
    Word <- MCWord
    MaxLine = 1
    ReadMax = 2
INVARIANTS
    TypeOK
    HeadKept
    InterfacesAreAList
    SilentStaysSilent
PROPERTIES
    DeliversInOrder
    MailIsHandled
    MembersRun
