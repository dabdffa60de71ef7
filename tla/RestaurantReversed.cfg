\* A check that is paid in two tenders, given back and reversed.
CONSTANTS
    Clients = {c1}
    Prompt = Prompt
    NoSnapshot = NoSnapshot
    Checks = {1, 2}
    Requests = {1, 2, 3}
    Bill = 3
    Orders = {o1}
    Jobs = {k1, k2}
    Riders = {t1, t2}
    NoRider = NoRider
    MaxConcurrent = 1
    Tables = {t1, t2}
    NoTable = NoTable
    Parties = {k1, k2}
    Bookings = {b1}
    Profiles = {1, 2}
    NoProfile = 0
    Phones = {t1, t2}
    NoPhone = NoPhone
    Sales = {s1}
    MaxPoints = 0
    Items = {x1}
    Counts = {k1, k2}
    MaxOnHand = 2
    MaxMoves = 3
    Alerts = {k1, k2}
    Reorders = {o1}
    ReorderPoint = 1
    Closers = {c1, c2}
    MaxRevisions = 3
    Largest = 3
    Receipts = {k1, k2}
    Invoices = {1}
    Payments = {t1, t2}
    Coupons = {x1}
    Uses = {1, 2, 3}
    Limits = {0, 1, 2}
    Sellers = {x1}
    NoSeller = NoSeller
    MaxLegacy = 2
    MaxPrints = 2
SYMMETRY MCSymmetry
CONSTRAINT MCChecksOnly
CHECK_DEADLOCK FALSE
SPECIFICATION Spec
INVARIANT MoneyReversed
