SPECIFICATION Spec
CONSTANTS
    Person = {p1}
    Address = {a1, a2}
    Seat = {s1}
    Caller = {c1}
    NoMail = NoMail
    NoOne = NoOne
    NoSeat = NoSeat
    Overlap = TRUE
    MaxEvents = 2
    MaxTold = 2
INVARIANTS
    DeadHoldsNoAddress
CHECK_DEADLOCK FALSE
