SPECIFICATION Spec
CONSTANTS
    Item = {i1, i2, i3}
    Event = {e1, e2}
    Text = {t1, t2}
    Person = {host, m1}
    Caller = {c1, c2}
    Host = host
    NoItem = NoItem
    NoEvent = NoEvent
    NoText = NoText
    NoOne = NoOne
    Keep = Keep
    MaxCalls = 3
SYMMETRY Swaps
PROPERTIES
    HiddenRowsStay
CHECK_DEADLOCK FALSE
