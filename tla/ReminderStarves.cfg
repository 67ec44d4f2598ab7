SPECIFICATION FairSpec
CONSTANTS
    Items = {i1, i2}
    Bookings = {}
    Cap = 1
    Concurrency = 1
    Dates = {"later"}
    MaxFaults = 0
PROPERTIES
    PendingIsReminded
