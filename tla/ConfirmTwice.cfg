SPECIFICATION Spec
CONSTANTS
    Sessions = {s1}
    Events = {e1}
    Titles = {n1}
    Tokens = {t1}
    Calls = {c1, c2}
    Jobs = {"publish_site"}
    Cheap = {}
    Faults = FALSE
    Asks = {e1}
    None = None
INVARIANTS
    SpendsOnce
CHECK_DEADLOCK FALSE
