SPECIFICATION Spec
CONSTANTS
    Guest = {g1, g2}
    Mail = {m1, m2}
    Caller = {c1}
    NoMail = NoMail
    NoGuest = NoGuest
    ViaParent = TRUE
    MaxEdits = 2
INVARIANTS
    DeletedTakesNoAnswer
CHECK_DEADLOCK FALSE
