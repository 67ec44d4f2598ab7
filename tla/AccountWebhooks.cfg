SPECIFICATION Spec
CONSTANTS
    Person = {p1, p2}
    Address = {a1, a2}
    Seat = {s1}
    Caller = {c1}
    NoMail = NoMail
    NoOne = NoOne
    NoSeat = NoSeat
    Overlap = FALSE
    MaxEvents = 3
    MaxTold = 4
SYMMETRY Swaps
INVARIANTS
    TypeOK
    SeatsFollow
    AccountFollows
PROPERTIES
    ImplementsRegister
CHECK_DEADLOCK FALSE
