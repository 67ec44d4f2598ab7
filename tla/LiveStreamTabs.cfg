SPECIFICATION Spec
CONSTANTS
    Tab = {t1, t2}
    Conn = {c1, c2, c3, c4}
    SetObject = {s1, s2}
    NoConn = NoConn
    NoSet = NoSet
    Cap = 2
    MaxHolders = 2
    MaxVisits = 3
    MaxFaults = 1
INVARIANTS
    TypeOK
    HeldTabTries
PROPERTIES
    ImplementsPool
    TabsSettle
CHECK_DEADLOCK FALSE
