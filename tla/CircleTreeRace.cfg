SPECIFICATION Spec
CONSTANTS
    Events = {e1, e2, e3}
    People = {p1}
    Seats = {s1}
    Requests = {r1, r2}
    Terms <- PlainTerms
    Ops = {"attach"}
    Updates <- GrantsOnly
    Faults = TRUE
    NoEvent = NoEvent
    NoSeat = NoSeat
    Nobody = Nobody
SYMMETRY Symmetry
INVARIANTS
    TreeIsFlat
CHECK_DEADLOCK FALSE
