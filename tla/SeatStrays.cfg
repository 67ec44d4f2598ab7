SPECIFICATION Spec
CONSTANTS
    Person = {p1}
    Address = {a1, a2}
    Seat = {s1}
    Caller = {c1}
    NoMail = NoMail
    NoOne = NoOne
    NoSeat = NoSeat
    Overlap = FALSE
    MaxEvents = 2
    MaxTold = 2
INVARIANTS
    NoStrays
CHECK_DEADLOCK FALSE
