------------------------------ MODULE PlanCeiling ------------------------------
(***************************************************************************)
(* What a subscription plan promises about the rows a tenant may hold: one *)
(* row is admitted at a time, and only while every ceiling it counts       *)
(* against has room.  Rows that no reservation stands for (an online       *)
(* order's customer, a change of role) are beyond the promise, but they    *)
(* raise no ceiling by more than themselves.                               *)
(***************************************************************************)
EXTENDS Integers

CONSTANTS
    Resources,   \* what a plan limits: users, users:staff, menuItems, ...
    Kinds,       \* the sets of resources one new row counts against
    Limited,     \* the resources the plan gives a ceiling
    Limit        \* that ceiling

VARIABLES
    rows,        \* how many rows the tenant holds of each
    outside      \* how many of them no reservation stands for

Init ==
    /\ rows = [r \in Resources |-> 0]
    /\ outside = [r \in Resources |-> 0]

Admit(K) ==
    /\ \A r \in K \cap Limited : rows[r] < Limit[r] + outside[r]
    /\ rows' = [r \in Resources |-> IF r \in K THEN rows[r] + 1 ELSE rows[r]]
    /\ outside' = outside

\* Rows come or move without a reservation.
Bypass ==
    \A r \in Resources : /\ outside[r] <= outside'[r]
                         /\ rows'[r] - rows[r] <= outside'[r] - outside[r]

Next == (\E K \in Kinds : Admit(K)) \/ Bypass

Spec == Init /\ [][Next]_<<rows, outside>>
================================================================================
