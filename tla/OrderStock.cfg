CONSTANTS
    NoTable = NoTable
    NoMove = NoMove
    NoSnapshot = NoSnapshot
    Branch = b
    Branches = {b}
    Clients = {c1, c2}
    Orders = {o1, o2, o3}
    Placed = {o1, o2}
    Online = {o2}
    Batches = {1, 2}
    ExpiredBlocked = TRUE
    Expiry <- InTurn
    Openings <- ForBothOrEither
    Size <- TwoAtTheTill
    Seat <- OwnTable
SYMMETRY ClientsAlike
CHECK_DEADLOCK FALSE
SPECIFICATION Spec
INVARIANT TypeOK
INVARIANT StockAccounted
INVARIANT SplitChecksReverse
