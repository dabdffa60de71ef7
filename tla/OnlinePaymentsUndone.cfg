CONSTANTS
    Idle = Idle
    NoSnapshot = NoSnapshot
    Clients = {c1, c2}
    Orders = {o1}
    Intents = {i1}
    OrderOf <- SameOrder
    Payloads = {p1}
    MaxFaults = 0
CHECK_DEADLOCK FALSE
SPECIFICATION Spec
INVARIANT PaidIsNeverUndone
