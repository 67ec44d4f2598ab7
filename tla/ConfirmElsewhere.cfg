SPECIFICATION Spec
CONSTANTS
    Sessions = {s1}
    Events = {e1, e2}
    Titles = {n1}
    Tokens = {t1}
    Calls = {c1}
    Jobs = {"publish_site"}
    Cheap = {"set_current_event", "clear_current_event"}
    Faults = FALSE
    Asks = {e1, e2, None}
    None = None
INVARIANTS
    RunsOnShownEvent
CHECK_DEADLOCK FALSE
