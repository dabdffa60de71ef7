------------------------------ MODULE Deliveries -------------------------------
(***************************************************************************)
(* Delivery jobs and riders (services/deliveries.js): dispatching an       *)
(* order, assigning and reassigning riders, what riders and staff report,  *)
(* and the riders' shifts, beside a kitchen that goes on with the orders.  *)
(*                                                                         *)
(* Jobs change in transactions; rider profiles are read and saved without  *)
(* one, the whole profile at a time.                                       *)
(***************************************************************************)
EXTENDS Naturals, FiniteSets, Snapshots

CONSTANTS
    Orders,
    Jobs,         \* deliveries
    Riders,
    NoRider,
    MaxConcurrent

DeliveryAssumption == Orders # {} /\ NoRider \notin Riders /\ MaxConcurrent \in Nat

vars == <<db, snap, behind>>

JobDocs ==
    [status : {"absent", "pending", "assigned", "picked_up", "out_for_delivery",
               "delivered", "failed", "cancelled"},
     order : Orders, rider : Riders \cup {NoRider},
     by : Riders \cup {NoRider}]   \* proofBy, NoRider for staff

RiderDocs == [active : BOOLEAN, available : BOOLEAN]

\* "open": the dispatchable statuses before ready.
Databases ==
    [order : [Orders -> [status : {"open", "ready", "out_for_delivery", "completed",
                                   "cancelled"}]],
     job : [Jobs -> JobDocs],
     rider : [Riders -> [rider : RiderDocs]]]

LIVE_DELIVERY_STATUSES == {"pending", "assigned", "picked_up", "out_for_delivery"}

DISPATCHABLE_ORDER_STATUSES == {"open", "ready", "out_for_delivery"}

DELIVERY_TRANSITIONS ==
    {<<"pending", "assigned">>, <<"pending", "cancelled">>,
     <<"assigned", "picked_up">>, <<"assigned", "pending">>, <<"assigned", "failed">>,
     <<"assigned", "cancelled">>, <<"picked_up", "out_for_delivery">>,
     <<"picked_up", "failed">>, <<"picked_up", "cancelled">>,
     <<"out_for_delivery", "delivered">>, <<"out_for_delivery", "failed">>}

Init ==
    /\ db = [order |-> [o \in Orders |-> [status |-> "open"]],
             job |-> [j \in Jobs |-> [status |-> "absent", order |-> CHOOSE o \in Orders : TRUE,
                                      rider |-> NoRider, by |-> NoRider]],
             rider |-> [r \in Riders |-> [rider |-> [active |-> TRUE, available |-> TRUE]]]]
    /\ OutsideTransactions

\* Mutant: dispatched when nothing in the snapshot says otherwise.
IndexUnenforced(c, o) ==
    \A j \in Jobs : View(c).job[j].order = o => View(c).job[j].status \in {"absent", "cancelled"}

\* The unique partial index delivery_order_unique.
NotDispatched(c, o) ==
    \A j \in Jobs : db.job[j].order = o => db.job[j].status \in {"absent", "cancelled"}

Load(d, r, others) ==
    Cardinality({j \in others : d.job[j].rider = r
                                   /\ d.job[j].status \in LIVE_DELIVERY_STATUSES})

assertRiderAssignable(d, r, others) ==
    /\ d.rider[r].rider.active
    /\ Load(d, r, others) < MaxConcurrent

\* createDelivery, with a rider or without
CreateDelivery(c, j, o, r) ==
    LET d == View(c)
    IN  /\ d.job[j].status = "absent"
        /\ d.order[o].status \in DISPATCHABLE_ORDER_STATUSES
        /\ r # NoRider => assertRiderAssignable(d, r, Jobs)
        /\ NotDispatched(c, o)
        /\ Commit(c, [d EXCEPT !.job[j] =
              [status |-> IF r = NoRider THEN "pending" ELSE "assigned",
               order |-> o, rider |-> r, by |-> NoRider]])

\* assignRider
AssignRider(c, j, r) ==
    LET d == View(c)
    IN  /\ d.job[j].status \in LIVE_DELIVERY_STATUSES
        /\ d.job[j].rider # r
        /\ assertRiderAssignable(d, r, Jobs \ {j})
        /\ Commit(c, [d EXCEPT !.job[j].rider = r, !.job[j].status = "assigned"])

\* The order follows the job.
OrderAfter(doc, status) ==
    CASE status = "out_for_delivery" /\ doc.status = "ready" ->
            [doc EXCEPT !.status = "out_for_delivery"]
      [] status = "delivered" -> [doc EXCEPT !.status = "completed"]
      [] OTHER -> doc

\* updateDeliveryStatus; "who" is a rider, who only sees jobs of his own, or staff.
UpdateDelivery(c, j, status, who) ==
    LET d == View(c)
        job == d.job[j]
    IN  /\ who # NoRider =>
              /\ job.rider = who
              /\ status \in {"picked_up", "out_for_delivery", "delivered", "failed"}
        /\ <<job.status, status>> \in DELIVERY_TRANSITIONS
        /\ status \notin {"cancelled", "pending"} => job.rider # NoRider
        /\ Commit(c, [d EXCEPT
              !.job[j].status = status,
              !.job[j].by = IF status = "delivered" THEN who ELSE @,
              !.order[job.order] = OrderAfter(@, status)])

\* rider.rider = profile, markModified: the whole profile is set.
SetProfile(c, r, profile) == profile

SaveProfile(c, r, profile) ==
    /\ db' = [db EXCEPT !.rider[r].rider = SetProfile(c, r, profile)]
    /\ snap' = Ended(c)
    /\ behind' = Overtaken(c, Written(db, db'))

\* setOwnAvailability
SetOwnAvailability(c, r, available) ==
    LET profile == View(c).rider[r].rider
    IN  /\ available => profile.active
        /\ SaveProfile(c, r, [profile EXCEPT !.available = available])

\* updateRiderProfile: hired or let go, on shift or off.
UpdateRider(c, r, active, available) ==
    /\ available => active
    /\ SaveProfile(c, r, [active |-> active, available |-> available])

\* The kitchen and the till: PATCH /orders/:id/status
AdvanceOrder(o, status) ==
    /\ <<db.order[o].status, status>> \in
          {<<"open", "ready">>, <<"open", "cancelled">>, <<"ready", "out_for_delivery">>,
           <<"ready", "completed">>, <<"out_for_delivery", "completed">>}
    /\ Commit(Prompt, [db EXCEPT !.order[o].status = status])

Refused(c) == End(c)

JobStep(c, j) ==
    \/ \E o \in Orders, r \in Riders \cup {NoRider} : CreateDelivery(c, j, o, r)
    \/ \E r \in Riders : AssignRider(c, j, r)
    \/ \E status \in LIVE_DELIVERY_STATUSES \cup {"delivered", "failed", "cancelled"},
          who \in Riders \cup {NoRider} : UpdateDelivery(c, j, status, who)

RiderStep(c, r) ==
    \E available \in BOOLEAN :
        \/ SetOwnAvailability(c, r, available)
        \/ \E active \in BOOLEAN : UpdateRider(c, r, active, available)

Next ==
    \/ \E c \in Clients : Begin(c) \/ Refused(c)
    \/ \E o \in Orders, status \in {"ready", "cancelled", "out_for_delivery", "completed"} :
          AdvanceOrder(o, status)
    \/ \E c \in {d \in Callers : Reads(d)} :
          (\E j \in Jobs : JobStep(c, j)) \/ (\E r \in Riders : RiderStep(c, r))

Spec == Init /\ [][Next]_vars

-------------------------------------------------------------------------------
TypeOK ==
    /\ db \in Databases
    /\ snap \in [Clients -> Databases \cup {NoSnapshot}]

\* However dispatchers, riders and managers overlap: an order is on the road once, what
\* a rider delivered was his to deliver, and nobody who was let go is left on shift.
DispatchKept ==
    /\ \A i, j \in Jobs :
          i # j /\ db.job[i].order = db.job[j].order
             => {db.job[i].status, db.job[j].status} \cap {"absent", "cancelled"} # {}
    /\ \A j \in Jobs : db.job[j].by # NoRider => db.job[j].by = db.job[j].rider
    /\ \A r \in Riders : db.rider[r].rider.available => db.rider[r].rider.active

\* README:3347: assignment refuses a rider "already at maxConcurrent live deliveries".
RidersWithinLimit == \A r \in Riders : Load(db, r, Jobs) <= MaxConcurrent

\* README:3337: "a failed attempt can legitimately be re-dispatched".
FailedIsRedispatched ==
    \A o \in Orders :
        db.order[o].status \in DISPATCHABLE_ORDER_STATUSES
        /\ (\A j \in Jobs : db.job[j].order = o => db.job[j].status \in {"absent", "failed"})
           => NotDispatched(Prompt, o)

\* An order that was cancelled does not come back.
CancelledStays ==
    \A o \in Orders : db.order[o].status = "cancelled" => db'.order[o].status = "cancelled"
===============================================================================
