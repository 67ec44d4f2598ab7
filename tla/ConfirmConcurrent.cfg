SPECIFICATION Spec
CONSTANTS
    Sessions = {s1, s2}
    Events = {e1}
    Titles = {n1}
    Tokens = {t1, t2}
    Calls = {c1, c2}
    Jobs = {"publish_site"}
    Cheap = {}
    Faults = TRUE
    Asks = {e1}
    None = None
SYMMETRY Symmetry
INVARIANTS
    TypeOK
    RunsAreGranted
    RetryIsRefused
CHECK_DEADLOCK FALSE
