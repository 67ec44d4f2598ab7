SPECIFICATION Spec
CONSTANTS
    Guest = {g1, g2}
    Mail = {m1, m2}
    Caller = {c1, c2}
    NoMail = NoMail
    NoGuest = NoGuest
    ViaParent = FALSE
    MaxEdits = 1
SYMMETRY Swaps
INVARIANTS
    TypeOK
    LinkStaysGood
    DeletedTakesNoAnswer
PROPERTIES
    NoTwinCreated
    ImplementsBook
CHECK_DEADLOCK FALSE
