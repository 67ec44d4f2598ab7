SPECIFICATION FairSpec
CONSTANTS
    Items = {i1}
    Bookings = {b1, b2}
    Cap = 2
    Concurrency = 1
    Dates = {"none", "today"}
    MaxFaults = 1
INVARIANTS
    TypeOK
    MarkIsEarned
PROPERTIES
    ImplementsNotices
    PendingIsReminded
