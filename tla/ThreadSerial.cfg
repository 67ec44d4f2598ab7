SPECIFICATION Spec
CONSTANTS
    Messages = {m1, m2, m3}
    Requests = {r1}
    Kinds = {"TEXT", "INSPIRATION", "QUOTE"}
    Calls = {"post", "accept", "reject", "book", "decide", "edit", "unsend", "read"}
    Faults = TRUE
    NoMessage = NoMessage
SYMMETRY Symmetry
INVARIANTS
    OneAccepted
    BookedDealStands
PROPERTIES
    ImplementsBoard
CHECK_DEADLOCK FALSE
