CONSTANTS
    Requests = {1, 2, 3}
    Resources = {"users", "staff", "riders"}
    Limited = {"users", "staff"}
    Roles = {"staff", "riders"}
    Limit <- SmallPlan
    Wants <- NewAccounts
    MaxFaults = 1
    MaxOutside = 1
SPECIFICATION Spec
INVARIANTS TypeOK WithinPlan ReservationsCounted AllOrNothing
PROPERTIES RefusedOnlyWhenFull PlanSpec
