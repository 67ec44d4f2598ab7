SPECIFICATION Spec
CONSTANTS
    Events = {e1, e2, e3}
    People = {p1}
    Seats = {s1, s2}
    Requests = {r1}
    Terms <- SiteTerms
    Ops = {"add", "attach", "detach", "delete", "invite", "update", "remove", "leave", "accept"}
    Updates <- OneByOne
    Faults = TRUE
    NoEvent = NoEvent
    NoSeat = NoSeat
    Nobody = Nobody
SYMMETRY Symmetry
INVARIANTS
    TreeIsFlat
    ListedOpens
PROPERTIES
    OnlyGrantsOpen
    ImplementsCircle
CHECK_DEADLOCK FALSE
