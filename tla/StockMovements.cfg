CONSTANTS
    b1 = b1
    b2 = b2
    c1 = c1
    c2 = c2
    t1 = t1
    t2 = t2
    NoMove = NoMove
    NoSnapshot = NoSnapshot
    Branches = {b1, b2}
    Clients = {c1, c2}
    Transfers = {t1, t2}
    Batches = {1, 2}
    Supplies = {1, 2}
    Removals = {1, 2}
    ExpiredBlocked = TRUE
    LastDay = 1
    Expiry <- MCExpiry
    Supply <- MCSupply
    Removal <- MCRemoval
    Transfer <- MCTransfer
SYMMETRY MCSymmetry
CHECK_DEADLOCK FALSE
SPECIFICATION Spec
INVARIANT TypeOK
INVARIANT LotsMatchBalance
INVARIANT LedgerExplains
INVARIANT TransferMovesOnce
PROPERTY FefoKept
PROPERTY PlacesSpec
