SPECIFICATION Spec
CONSTANTS
    Events = {e1, e2}
    People = {p1}
    Seats = {s1, s2}
    Requests = {r1, r2}
    Terms <- PlainTerms
    Ops = {"add", "attach", "detach", "delete", "invite", "update", "remove", "leave", "accept"}
    Updates <- GrantsOnly
    Faults = TRUE
    NoEvent = NoEvent
    NoSeat = NoSeat
    Nobody = Nobody
SYMMETRY Symmetry
INVARIANTS
    TypeOK
    GrantsAreRooted
CHECK_DEADLOCK FALSE
