\* The kitchen display, between its connection and its room.
CONSTANTS
    Parts = {"kds"}
    Requests = {r1, r2}
    NoRequest = NoRequest
    Calls = {r1, r2, r3}
    MaxWait = 1
    MaxEdits = 2
    MaxTime = 6
    RoleTTL = 2
    PlanTTL = 1
    PeriodEnd = 2
    PlanAskers = {NoRequest}
    PlanEdits = 1
    Users = {u1, u2}
    NoUser = NoUser
    Sessions = {u1, u2}
    NoSession = NoSession
    MaxVersion = 2
    Plans = {u1, u2}
    NoPlan = NoPlan
    Trial = 1
    Period = 2
    MaxNow = 3
    Prompt = Prompt
    NoSnapshot = NoSnapshot
    Orders = {u1, u2, o3}
    NoLimit = NoLimit
    MaxMonth = 1
    Kinds = {"purchase_orders", "receipts", "returns", "ledger", "lots", "invoices",
             "payments", "counters", "numbers", "alerts", "deliveries", "catalog",
             "tenants", "completed"}
    MaxStarts = 3
    MaxLive = 3
    MaxRows = 3
    MaxLost = 2
    MaxChanges = 3
    Contents = {u1, u2}
    MaxSubmits = 3
    Docs = {u1, u2}
    NoDoc = NoDoc
    Branches = {b1}
    KeptVersions = 2
    Staff = {NoUser}
    Devices = {NoSession}
SYMMETRY MCSymmetry
CONSTRAINT MCBound
CHECK_DEADLOCK FALSE
SPECIFICATION Spec
INVARIANT LiveIsCurrent
