SPECIFICATION Spec
CONSTANTS
    Messages = {m1, m2}
    Requests = {r1, r2}
    Kinds = {"QUOTE"}
    Calls = {"post", "accept", "reject", "book", "decide"}
    Faults = FALSE
    NoMessage = NoMessage
PROPERTIES
    BooksAcceptedQuote
CHECK_DEADLOCK FALSE
