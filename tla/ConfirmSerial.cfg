SPECIFICATION Spec
CONSTANTS
    Sessions = {s1}
    Events = {e1, e2}
    Titles = {n1, n2}
    Tokens = {t1, t2}
    Calls = {c1}
    Jobs = {"delete_event"}
    Cheap = {"set_current_event", "clear_current_event"}
    Faults = TRUE
    Asks = {e1, e2, n1, n2, None}
    None = None
SYMMETRY Symmetry
INVARIANTS
    IdleSessionForgets
PROPERTIES
    ImplementsGate
CHECK_DEADLOCK FALSE
