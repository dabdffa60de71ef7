CONSTANTS
    Idle = Idle
    NoSnapshot = NoSnapshot
    Clients = {c1, c2}
    Orders = {o1}
    Intents = {i1, i2}
    OrderOf <- SameOrder
    Payloads = {p1}
    MaxFaults = 1
SYMMETRY Symmetry
CHECK_DEADLOCK FALSE
SPECIFICATION Spec
INVARIANT TypeOK
INVARIANT PaidOnce
INVARIANT OnlyConfirmedMoney
PROPERTY RejectionStrandsNothing
