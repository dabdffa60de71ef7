------------------------------ MODULE QuotaGuard ------------------------------
(***************************************************************************)
(* Plan limits under concurrent creates (services/quotaGuard.js), outside  *)
(* a transaction: staff accounts, menu items, tables, branches, customers. *)
(*                                                                         *)
(* A request reserves its resources one after the other and then inserts   *)
(* its row.  Every database call is a step of its own, so the calls of     *)
(* concurrent requests interleave; a single call is atomic.  withQuota is  *)
(* the case of one resource, withCompoundQuota that of several: a staff    *)
(* account takes "users" and then "users:staff".                           *)
(***************************************************************************)
EXTENDS Integers, Sequences, FiniteSets

CONSTANTS
    Requests,    \* concurrent creates of one tenant
    Resources,   \* the resources its plan knows
    Limited,     \* those with a ceiling; the others are unlimited
    Limit,       \* the ceiling
    Wants,       \* the resources each request reserves, in order
    Roles,       \* the resources that count the accounts of one role
    MaxFaults,   \* bound: failed calls and dead processes
    MaxOutside   \* bound: rows that reach a resource without a reservation

ASSUME RequestAssumption == IsFiniteSet(Requests)
ASSUME LimitAssumption ==
    /\ Limited \subseteq Resources
    /\ Limit \in [Limited -> Nat]
    /\ Roles \subseteq Resources
ASSUME WantsAssumption ==
    \A p \in Requests : /\ Wants[p] \in Seq(Resources)
                        /\ Wants[p] # <<>>
                        /\ \A i, j \in 1..Len(Wants[p]) :
                               Wants[p][i] = Wants[p][j] => i = j
ASSUME BoundAssumption == MaxFaults \in Nat /\ MaxOutside \in Nat

VARIABLES
    counter,   \* the ResourceCounter documents, NoRow where there is none
    rows,      \* the rows the tenant really holds, as countActual sees them
    pc,        \* the next call of each request
    step,      \* which of its reservations a request is at
    seen,      \* what countActual returned to it
    taken,     \* the reservations it holds
    outside,   \* rows that came without a reservation of their own
    faults

vars == <<counter, rows, pc, step, seen, taken, outside, faults>>

NoRow == -1

Steps == {"idle", "count", "settle", "raise", "take", "create", "unwind"}

TypeOK ==
    /\ counter \in [Limited -> Int]
    /\ \A r \in Limited : counter[r] >= NoRow
    /\ rows \in [Resources -> Int]
    /\ pc \in [Requests -> Steps]
    /\ step \in [Requests -> Nat]
    /\ \A p \in Requests : step[p] \in 1..Len(Wants[p])
    /\ seen \in [Requests -> Int]
    /\ taken \in [Requests -> SUBSET Limited]
    /\ outside \in [Resources -> Nat]
    /\ faults \in Nat

Init ==
    /\ counter = [r \in Limited |-> NoRow]
    /\ rows = [r \in Resources |-> 0]
    /\ pc = [p \in Requests |-> "idle"]
    /\ step = [p \in Requests |-> 1]
    /\ seen = [p \in Requests |-> 0]
    /\ taken = [p \in Requests |-> {}]
    /\ outside = [r \in Resources |-> 0]
    /\ faults = 0

-------------------------------------------------------------------------------
(* The counter document of one resource.                                   *)

\* {$setOnInsert: {count: 0}} with upsert
Settled(c) == IF c = NoRow THEN 0 ELSE c

\* Mutant: the counter is set to what was counted.
SetTo(c, actual) == actual

\* {$max: {count: actual}}: a counter is only ever pulled up to reality.
Raised(c, actual) == IF c < actual THEN actual ELSE c

\* Mutants: the ceiling itself is not room any more, or one less is all there is.
HasRoomAtLimit(r) == counter[r] # NoRow /\ counter[r] <= Limit[r]
HasRoomBelow(r) == counter[r] # NoRow /\ counter[r] < Limit[r] - 1

\* findOneAndUpdate({count: {$lte: limit - 1}}, {$inc: {count: 1}})
HasRoom(r) == counter[r] # NoRow /\ counter[r] <= Limit[r] - 1

\* updateOne({count: {$gte: 1}}, {$inc: {count: -1}})
Released(c) == IF c >= 1 THEN c - 1 ELSE c

-------------------------------------------------------------------------------
Target(p) == Wants[p][step[p]]

WantSet(p) == {Wants[p][i] : i \in 1..Len(Wants[p])}

\* The requests that hold a unit of r.
Holders(r) == {p \in Requests : r \in taken[p]}

\* Mutant: the list of reservations is run past its end.
ContinuePastEnd(p) ==
    IF step[p] <= Len(Wants[p])
    THEN /\ step' = [step EXCEPT ![p] = step[p] + 1]
         /\ pc' = [pc EXCEPT ![p] = "count"]
    ELSE /\ step' = step
         /\ pc' = [pc EXCEPT ![p] = "create"]

\* After a reservation: on to the next one, or to the insert.
Continue(p) ==
    IF step[p] < Len(Wants[p])
    THEN /\ step' = [step EXCEPT ![p] = step[p] + 1]
         /\ pc' = [pc EXCEPT ![p] = "count"]
    ELSE /\ step' = step
         /\ pc' = [pc EXCEPT ![p] = "create"]

Goto(p, s) == pc' = [pc EXCEPT ![p] = s]

Fault == /\ faults < MaxFaults
         /\ faults' = faults + 1

\* The request is over; its locals mean nothing any more.
Return(p) ==
    /\ Goto(p, "idle")
    /\ step' = [step EXCEPT ![p] = 1]
    /\ seen' = [seen EXCEPT ![p] = 0]
    /\ taken' = [taken EXCEPT ![p] = {}]

-------------------------------------------------------------------------------
(* reserveQuota, for the resource the request is at.                       *)

Begin(p) ==
    /\ pc[p] = "idle"
    /\ Goto(p, "count")
    /\ UNCHANGED <<counter, rows, step, seen, taken, outside, faults>>

\* No ceiling to enforce: no counter, and nothing to give back.
SkipUnlimited(p) ==
    /\ pc[p] = "count"
    /\ Target(p) \notin Limited
    /\ Continue(p)
    /\ UNCHANGED <<counter, rows, seen, taken, outside, faults>>

\* countActual()
CountActual(p) ==
    /\ pc[p] = "count"
    /\ Target(p) \in Limited
    /\ seen' = [seen EXCEPT ![p] = rows[Target(p)]]
    /\ Goto(p, "settle")
    /\ UNCHANGED <<counter, rows, step, taken, outside, faults>>

Settle(p) ==
    /\ pc[p] = "settle"
    /\ counter' = [counter EXCEPT ![Target(p)] = Settled(@)]
    /\ Goto(p, "raise")
    /\ UNCHANGED <<rows, step, seen, taken, outside, faults>>

Raise(p) ==
    /\ pc[p] = "raise"
    /\ counter' = [counter EXCEPT ![Target(p)] = Raised(@, seen[p])]
    /\ Goto(p, "take")
    /\ UNCHANGED <<rows, step, seen, taken, outside, faults>>

Take(p) ==
    /\ pc[p] = "take"
    /\ HasRoom(Target(p))
    /\ counter' = [counter EXCEPT ![Target(p)] = @ + 1]
    /\ taken' = [taken EXCEPT ![p] = @ \cup {Target(p)}]
    /\ Continue(p)
    /\ UNCHANGED <<rows, seen, outside, faults>>

\* Mutant: the refusal leaves what is already held counted.
RefuseWithoutUnwind(p) ==
    /\ pc[p] = "take"
    /\ ~HasRoom(Target(p))
    /\ Return(p)
    /\ UNCHANGED <<counter, rows, outside, faults>>

\* 402 limit_reached: whatever the request already holds is handed back.
Refuse(p) ==
    /\ pc[p] = "take"
    /\ ~HasRoom(Target(p))
    /\ Goto(p, "unwind")
    /\ UNCHANGED <<counter, rows, step, seen, taken, outside, faults>>

\* One of the calls throws.  The increment may have been applied all the same,
\* and is then in nobody's list.
ReserveError(p) ==
    /\ pc[p] \in {"count", "settle", "raise", "take"}
    /\ Fault
    /\ \/ counter' = counter
       \/ /\ pc[p] = "take" /\ HasRoom(Target(p))
          /\ counter' = [counter EXCEPT ![Target(p)] = @ + 1]
    /\ Goto(p, "unwind")
    /\ UNCHANGED <<rows, step, seen, taken, outside>>

-------------------------------------------------------------------------------
(* The insert, and the compensation when something failed.                 *)

Insert(p) == rows' = [r \in Resources |->
                         IF r \in WantSet(p) THEN rows[r] + 1 ELSE rows[r]]

Create(p) ==
    /\ pc[p] = "create"
    /\ Insert(p)
    /\ Return(p)
    /\ UNCHANGED <<counter, outside, faults>>

\* The insert is refused: a duplicate, a validation error.
CreateFails(p) ==
    /\ pc[p] = "create"
    /\ Goto(p, "unwind")
    /\ UNCHANGED <<counter, rows, step, seen, taken, outside, faults>>

\* The insert was applied but its answer is lost, so the reservation of a row
\* that exists is about to be handed back.
CreateUnanswered(p) ==
    /\ pc[p] = "create"
    /\ Fault
    /\ \A r \in WantSet(p) : outside[r] < MaxOutside
    /\ Insert(p)
    /\ outside' = [r \in Resources |->
                      IF r \in WantSet(p) THEN outside[r] + 1 ELSE outside[r]]
    /\ Goto(p, "unwind")
    /\ UNCHANGED <<counter, step, seen, taken>>

\* taken.reverse(): the last reservation goes back first.
LastTaken(p, r) ==
    /\ r \in taken[p]
    /\ \E i \in 1..Len(Wants[p]) :
           /\ Wants[p][i] = r
           /\ \A j \in i+1..Len(Wants[p]) : Wants[p][j] \notin taken[p]

\* releaseQuota() swallows its own failure, and then the unit stays counted.
Unwind(p) ==
    /\ pc[p] = "unwind"
    /\ \E r \in taken[p] :
        /\ LastTaken(p, r)
        /\ taken' = [taken EXCEPT ![p] = @ \ {r}]
        /\ \/ /\ counter' = [counter EXCEPT ![r] = Released(@)]
              /\ faults' = faults
           \/ Fault /\ counter' = counter
    /\ UNCHANGED <<rows, pc, step, seen, outside>>

Throw(p) ==
    /\ pc[p] = "unwind"
    /\ taken[p] = {}
    /\ Return(p)
    /\ UNCHANGED <<counter, rows, outside, faults>>

-------------------------------------------------------------------------------
(* The environment.                                                        *)

\* The process dies with whatever it holds.
Crash(p) ==
    /\ pc[p] # "idle"
    /\ Fault
    /\ Return(p)
    /\ UNCHANGED <<counter, rows, outside>>

\* A row is written by a path that reserves nothing: the customer of an online
\* order, the first owner, the tables of the onboarding wizard.
UnguardedInsert(r) ==
    /\ outside[r] < MaxOutside
    /\ rows' = [rows EXCEPT ![r] = @ + 1]
    /\ outside' = [outside EXCEPT ![r] = @ + 1]
    /\ UNCHANGED <<counter, pc, step, seen, taken, faults>>

\* assignUserRole moves an account from one role's seats to another's.
AssignRole(from, to) ==
    /\ from # to
    /\ rows[from] > 0
    /\ outside[to] < MaxOutside
    /\ rows' = [rows EXCEPT ![from] = @ - 1, ![to] = @ + 1]
    /\ outside' = [outside EXCEPT ![to] = @ + 1]
    /\ UNCHANGED <<counter, pc, step, seen, taken, faults>>

Step(p) ==
    \/ Begin(p)        \/ SkipUnlimited(p) \/ CountActual(p)
    \/ Settle(p)       \/ Raise(p)         \/ Take(p)
    \/ Refuse(p)       \/ ReserveError(p)  \/ Create(p)
    \/ CreateFails(p)  \/ CreateUnanswered(p)
    \/ Unwind(p)       \/ Throw(p)         \/ Crash(p)

Next ==
    \/ \E p \in Requests : Step(p)
    \/ \E r \in Resources \ Roles : UnguardedInsert(r)
    \/ \E from, to \in Roles : AssignRole(from, to)

Spec == Init /\ [][Next]_vars

-------------------------------------------------------------------------------
(* Properties.                                                             *)

Count(r) == IF counter[r] = NoRow THEN 0 ELSE counter[r]

\* However the calls of concurrent creates interleave and whatever fails or
\* dies, a tenant holds no more rows than its plan sells, beyond those that
\* never went through a reservation.
WithinPlan == \A r \in Limited : rows[r] <= Limit[r] + outside[r]

\* What the gate rests on: the counter covers the rows and the reservations
\* still held, and both together fit the plan.
ReservationsCounted ==
    \A r \in Limited :
        /\ rows[r] + Cardinality(Holders(r)) <= Count(r) + outside[r]
        /\ rows[r] + Cardinality(Holders(r)) <= Limit[r] + outside[r]

Undisturbed == faults = 0 /\ \A r \in Resources : outside[r] = 0

\* "The caller either holds all of them or none" (withCompoundQuota): once
\* every request is answered, no seat is left counted that no row occupies.
AllOrNothing ==
    Undisturbed /\ (\A p \in Requests : pc[p] = "idle")
        => \A r \in Limited : Count(r) = rows[r]

\* A 402 is never given while the plan has room that nobody else is using.
RefusedOnlyWhenFull ==
    [][\A p \in Requests : Refuse(p) /\ Undisturbed =>
           rows[Target(p)] + Cardinality(Holders(Target(p))) >= Limit[Target(p)]]_vars

\* "A lost release is self-correcting: the next reservation reconciles against
\* the real count" (releaseQuota): a create that meets nobody else's is
\* refused only if the rows themselves fill the plan.
DriftHeals ==
    [][\A p \in Requests :
           Refuse(p) /\ (\A q \in Requests \ {p} : pc[q] = "idle")
               => rows[Target(p)] >= Limit[Target(p)]]_vars

\* "a plan may sell 10 users, of whom 2 may be managers" (createStaffAccount):
\* no role has more accounts than its ceiling.
RoleCeiling == \A r \in Roles \cap Limited : rows[r] <= Limit[r]

\* The guard implements the plan: the insert of a request, several calls after
\* its reservations, finds room under every ceiling its row counts against.
Plan == INSTANCE PlanCeiling WITH Kinds <- {WantSet(p) : p \in Requests}
PlanSpec == Plan!Spec

-------------------------------------------------------------------------------
(* For the model checker: two staff accounts and a rider's are created at  *)
(* once.  There is room for two of the three, one of them staff; the plan  *)
(* puts no ceiling on riders.                                              *)

NewAccounts == <<<<"users", "staff">>, <<"users", "staff">>, <<"users", "riders">>>>

SmallPlan == [users |-> 2, staff |-> 1]
===============================================================================
