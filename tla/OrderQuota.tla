------------------------------- MODULE OrderQuota -------------------------------
(***************************************************************************)
(* The orders a plan allows a restaurant in a month, and the web orders    *)
(* among them (services/orderQuota.js over quotaGuard.js and usage.js).    *)
(*                                                                         *)
(* An order is placed in a transaction that also raises the counters of    *)
(* its month; what the counters are raised to is counted outside it.  A    *)
(* cancellation lowers them inside its own.                                *)
(***************************************************************************)
EXTENDS Integers, FiniteSets, FiniteSetsExt, Snapshots

CONSTANTS
    Orders,
    Plans,        \* pairs of allowances, the overall one and that of web orders
    NoLimit,      \* of a plan without the allowance
    MaxMonth      \* bounds the months

VARIABLES
    clock,    \* the month that it is, and the plan
    work      \* what each request has counted

vars == <<db, snap, behind, clock, work>>

Months == 0..MaxMonth

Resources == {"overall", "online"}

Counters == Months \X Resources

\* month: in which the row was written; resource's month: history, the counter it took
OrderDocs ==
    [status : {"absent", "open", "cancelled"}, source : {"pos", "online"},
     month : Months, taken : Months]

Databases ==
    [order : [Orders -> OrderDocs], counter : [Counters -> 0..Cardinality(Orders)]]

\* Counters may be anything that a database holds; NoSnapshot is no database.
OrderQuotaAssumption ==
    /\ NoLimit \notin Nat /\ MaxMonth \in Nat /\ IsFiniteSet(Orders)
    /\ Plans \subseteq [{"overall", "online"} -> Nat \cup {NoLimit}]
    /\ NoSnapshot \notin [order : [Orders -> OrderDocs], counter : [Counters -> Nat]]

\* pc: what comes next; month: in which the request reached its quota
WorkDocs ==
    [pc : {"idle", "overall", "online", "save"}, source : {"pos", "online"}, month : Months,
     overall : 0..Cardinality(Orders), online : 0..Cardinality(Orders)]

Idle == [pc |-> "idle", source |-> "pos", month |-> 0, overall |-> 0, online |-> 0]

-------------------------------------------------------------------------------
\* countableStatusFilter
Countable(d, m) == {o \in Orders : d.order[o].status = "open" /\ d.order[o].month = m}

getOrderUsage(d, m) == Cardinality(Countable(d, m))

getOnlineOrderUsage(d, m) ==
    Cardinality({o \in Countable(d, m) : d.order[o].source = "online"})

isUnlimited(resource) == clock.plan[resource] = NoLimit

\* Enforcement may begin with orders that no counter has counted.
Init ==
    /\ \E rows \in SUBSET Orders, plan \in Plans :
          /\ db = [order |-> [o \in Orders |->
                      [status |-> IF o \in rows THEN "open" ELSE "absent",
                       source |-> "pos", month |-> 0, taken |-> 0]],
                   counter |-> [k \in Counters |-> 0]]
          /\ clock = [month |-> 0, plan |-> plan]
    /\ work = [c \in Clients |-> Idle]
    /\ OutsideTransactions

-------------------------------------------------------------------------------
(* Placing an order                                                        *)

\* The transaction has read the branch and the menu, and reaches the quota.
Reach(c, source) ==
    /\ Begin(c)
    /\ work' = [work EXCEPT ![c] = [Idle EXCEPT !.pc = "overall", !.source = source,
                                                !.month = clock.month]]
    /\ UNCHANGED clock

\* countActual(), outside the session.
CountOverall(c) ==
    /\ work[c].pc = "overall"
    /\ work' = [work EXCEPT ![c].pc = IF work[c].source = "online" THEN "online" ELSE "save",
                            ![c].overall = getOrderUsage(db, work[c].month)]
    /\ UNCHANGED <<db, snap, behind, clock>>

CountOnline(c) ==
    /\ work[c].pc = "online"
    /\ work' = [work EXCEPT ![c].pc = "save",
                            ![c].online = getOnlineOrderUsage(db, work[c].month)]
    /\ UNCHANGED <<db, snap, behind, clock>>

\* Mutant: the counter is set to what was counted, as in P2G.5.
Synced(count, actual) == actual

\* $max
Raised(count, actual) == Max({count, actual})

\* count: {$lte: limit - adding}
Fits(count, resource) == ~isUnlimited(resource) => count < clock.plan[resource]

\* reserveQuota, in the session
reserveQuota(d, m, resource, actual) ==
    IF isUnlimited(resource) THEN d
    ELSE [d EXCEPT !.counter[<<m, resource>>] = Raised(@, actual) + 1]

\* withMonthlyOnlineOrderQuota: of a web order both
Resourced(source) == IF source = "online" THEN Resources ELSE {"overall"}

Allowed(d, w) ==
    \A resource \in Resourced(w.source) :
        Fits(Raised(d.counter[<<w.month, resource>>], w[resource]), resource)

withMonthlyOrderQuota(d, w) ==
    LET overall == reserveQuota(d, w.month, "overall", w.overall)
    IN  IF w.source = "online" THEN reserveQuota(overall, w.month, "online", w.online)
        ELSE overall

\* The row is stamped with the time it is saved at.
Place(c, o) ==
    LET w == work[c]
    IN  /\ w.pc = "save"
        /\ snap[c].order[o].status = "absent" /\ db.order[o].status = "absent"
        /\ Allowed(snap[c], w)
        /\ Commit(c, [withMonthlyOrderQuota(snap[c], w) EXCEPT
                         !.order[o] = [status |-> "open", source |-> w.source,
                                       month |-> clock.month, taken |-> w.month]])
        /\ work' = [work EXCEPT ![c] = Idle]
        /\ UNCHANGED clock

\* Refused, failed, or overtaken: the transaction takes its increments with it.
Abort(c) ==
    /\ work[c].pc # "idle"
    /\ End(c)
    /\ work' = [work EXCEPT ![c] = Idle]
    /\ UNCHANGED clock

-------------------------------------------------------------------------------
(* Cancelling one: by the till, the web queue, or a merge of two checks    *)

syncQuotaCounter(d, resource, actual) ==
    [d EXCEPT !.counter[<<clock.month, resource>>] = IF @ > actual THEN actual ELSE @]

\* Of the month that it is now, whenever the order was placed.
reconcileMonthlyOrderQuota(d) ==
    syncQuotaCounter(syncQuotaCounter(d, "overall", getOrderUsage(d, clock.month)),
                     "online", getOnlineOrderUsage(d, clock.month))

BeginCancel(c) ==
    /\ work[c].pc = "idle"
    /\ Begin(c)
    /\ UNCHANGED <<clock, work>>

Cancel(c, o) ==
    /\ work[c].pc = "idle"
    /\ snap[c] # NoSnapshot /\ snap[c].order[o].status = "open"
    /\ Commit(c, reconcileMonthlyOrderQuota([snap[c] EXCEPT !.order[o].status = "cancelled"]))
    /\ UNCHANGED <<clock, work>>

GiveUp(c) ==
    /\ work[c].pc = "idle"
    /\ End(c)
    /\ UNCHANGED <<clock, work>>

-------------------------------------------------------------------------------
\* monthKey: the counters of the next month are other documents.
Turn ==
    /\ clock.month < MaxMonth
    /\ clock' = [clock EXCEPT !.month = @ + 1]
    /\ UNCHANGED <<db, snap, behind, work>>

Next ==
    \/ \E c \in Clients :
          \/ \E source \in {"pos", "online"} : Reach(c, source)
          \/ CountOverall(c) \/ CountOnline(c) \/ Abort(c)
          \/ BeginCancel(c) \/ GiveUp(c)
          \/ \E o \in Orders : Place(c, o) \/ Cancel(c, o)
    \/ Turn

-------------------------------------------------------------------------------
TypeOK ==
    /\ db \in Databases
    /\ snap \in [Clients -> Databases \cup {NoSnapshot}]
    /\ clock \in [month : Months, plan : Plans]
    /\ work \in [Clients -> WorkDocs]

\* The orders of a month that were written in the month whose counter they took.
Kept(d, m, resource) ==
    {o \in Countable(d, m) : /\ d.order[o].taken = m
                             /\ resource = "online" => d.order[o].source = "online"}

\* quotaGuard.js header of reserveQuota: concurrent callers serialise on the counter.  Every
\* order that is accepted fits under each allowance it needs, with whatever was placed or
\* cancelled while it was on its way.
AcceptedUnderCeiling ==
    \A o \in Orders :
        LET was == db.order[o]
            row == db'.order[o]
        IN  (was.status = "absent" /\ row.status = "open") =>
                \A resource \in Resourced(row.source) :
                    ~isUnlimited(resource) =>
                        Cardinality(Kept(db', row.taken, resource)) <= clock.plan[resource]

\* orderQuota.js:161 "a cancelled order stops counting immediately": no counter of this month
\* stands above the orders it counts once it was ever in step with them.
SeatsComeBack ==
    \A resource \in Resources :
        db.counter[<<clock.month, resource>>] <=
            Cardinality({o \in Countable(db, clock.month) :
                            resource = "online" => db.order[o].source = "online"})
===============================================================================
