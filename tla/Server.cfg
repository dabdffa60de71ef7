\* Two requests, accounts, plans and filled-in forms at a time.  The parts share names, so
\* that there are few permutations of them.  One request for the plan, one account and its
\* socket: a second of either doubles what a refresh goes over.
CONSTANTS
    Parts = {"role", "plan", "accounts", "platform", "subscription", "quota", "migration",
             "audit", "page", "form", "pane", "catalogue", "socket"}
    Requests = {r1, r2}
    NoRequest = NoRequest
    Calls = {r1, r2, r3}
    MaxWait = 1
    MaxEdits = 2
    MaxTime = 6
    RoleTTL = 2
    PlanTTL = 1
    PeriodEnd = 2
    PlanAskers = {NoRequest}
    PlanEdits = 1
    Users = {u1, u2}
    NoUser = NoUser
    Sessions = {u1, u2}
    NoSession = NoSession
    MaxVersion = 2
    Plans = {u1, u2}
    NoPlan = NoPlan
    Trial = 1
    Period = 2
    MaxNow = 3
    Prompt = Prompt
    NoSnapshot = NoSnapshot
    Orders = {u1, u2, o3}
    NoLimit = NoLimit
    MaxMonth = 1
    Kinds = {"purchase_orders", "receipts", "returns", "ledger", "lots", "invoices",
             "payments", "counters", "numbers", "alerts", "deliveries", "catalog",
             "tenants", "completed"}
    MaxStarts = 3
    MaxLive = 3
    MaxRows = 3
    MaxLost = 2
    MaxChanges = 3
    Contents = {u1, u2}
    MaxSubmits = 3
    Docs = {u1, u2}
    NoDoc = NoDoc
    Branches = {b1}
    KeptVersions = 2
    Staff = {NoUser}
    Devices = {NoSession}
SYMMETRY MCSymmetry
CONSTRAINT MCBound
CHECK_DEADLOCK FALSE
SPECIFICATION Spec
INVARIANT TypeOK
INVARIANT NoFork
INVARIANT LiveIsCurrent
PROPERTY RevokedStaysOut
PROPERTY PlanKept
PROPERTY ASuperStays
PROPERTY SurvivesRestarts
PROPERTY SentOnceSavedOnce
