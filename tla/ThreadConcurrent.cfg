SPECIFICATION Spec
CONSTANTS
    Messages = {m1, m2}
    Requests = {r1, r2}
    Kinds = {"QUOTE", "TEXT"}
    Calls = {"post", "accept", "reject", "book", "decide", "edit", "unsend"}
    Faults = TRUE
    NoMessage = NoMessage
SYMMETRY Symmetry
INVARIANTS
    TypeOK
    FlagsConsistent
    DealIsPosted
    BookedWasAccepted
CHECK_DEADLOCK FALSE
