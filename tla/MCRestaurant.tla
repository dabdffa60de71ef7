------------------------------ MODULE MCRestaurant ------------------------------
(***************************************************************************)
(* A restaurant's floor, tills, deliveries and customers, and its back     *)
(* office, for TLC.  They share no document that is modelled, so a         *)
(* behaviour is about one part, which its initial state chooses.           *)
(***************************************************************************)
EXTENDS Integers, FiniteSets, TLC

CONSTANTS
    Clients, Prompt, NoSnapshot,
    Checks, Requests, Bill,
    Orders, Jobs, Riders, NoRider, MaxConcurrent,
    Tables, NoTable, Parties, Bookings,
    Profiles, NoProfile, Phones, NoPhone, Sales, MaxPoints,
    Items, Counts, MaxOnHand, MaxMoves,
    Alerts, Reorders, ReorderPoint,
    Closers, MaxRevisions,
    Largest, Receipts, Invoices, Payments,
    Coupons, Uses, Limits,
    Sellers, NoSeller, MaxLegacy, MaxPrints

VARIABLES part, db, snap, behind

vars == <<part, db, snap, behind>>

\* One check of Bill units, or two of one.
MCBills == {[k \in Checks |-> IF k = 1 THEN Bill ELSE 0], [k \in Checks |-> 1]}

\* One window that may be booked.
MCWindows == {<<0, 2>>}

B == INSTANCE CheckMoney WITH Bills <- MCBills
D == INSTANCE Deliveries
F == INSTANCE Seating WITH Checks <- Parties, Windows <- MCWindows
G == INSTANCE Customers
C == INSTANCE StockCounts
A == INSTANCE InventoryAlerts
M == INSTANCE MonthClose WITH Clients <- Closers
P == INSTANCE Procurement
U == INSTANCE Coupons WITH Sales <- Uses
T == INSTANCE TaxInvoices WITH Bills <- MCBills

ASSUME RestaurantAssumption ==
    /\ B!PromptAssumption /\ B!MoneyAssumption /\ D!DeliveryAssumption /\ G!CustomersAssumption
    /\ C!CountsAssumption /\ A!ReorderAssumption /\ M!MonthAssumption
    /\ P!ProcurementAssumption
    /\ U!CouponsAssumption /\ T!InvoicesAssumption

Init ==
    \/ part = "money" /\ B!Init
    \/ part = "dispatch" /\ D!Init
    \/ part = "floor" /\ F!Init
    \/ part = "customers" /\ G!Init
    \/ part = "counts" /\ C!Init
    \/ part = "alerts" /\ A!Init
    \/ part = "month" /\ M!Init
    \/ part = "purchasing" /\ P!Init
    \/ part = "coupons" /\ U!Init
    \/ part = "invoices" /\ T!Init

Next ==
    /\ UNCHANGED part
    /\ \/ part = "money" /\ B!Next
       \/ part = "dispatch" /\ D!Next
       \/ part = "floor" /\ F!Next
       \/ part = "customers" /\ G!Next
       \/ part = "counts" /\ C!Next
       \/ part = "alerts" /\ A!Next
       \/ part = "month" /\ M!Next
       \/ part = "purchasing" /\ P!Next
       \/ part = "coupons" /\ U!Next
       \/ part = "invoices" /\ T!Next

Spec == Init /\ [][Next]_vars

MCSymmetry == Permutations(Parties) \cup Permutations(Tables)

\* How far others get ahead of an open request: two documents, on the floor a check and
\* another, of a customer one.  What is over is not followed, a check that is cancelled
\* or a booking, nor one that is confirmed: what may happen to it may to one that is booked.
MCBound ==
    /\ part \in {"money", "dispatch", "floor", "customers", "invoices"} =>
          \A c \in Clients : Cardinality(behind[c]) <= IF part = "customers" THEN 1 ELSE 2
    /\ part = "floor" =>
          /\ \A c \in Clients : Cardinality({doc \in behind[c] : doc[1] # "check"}) <= 1
          /\ \A k \in Parties : db.check[k].status # "gone"
          /\ \A b \in Bookings : db.booking[b].status \in {"absent", "booked", "seated"}

\* The checks alone.
MCChecksOnly == MCBound /\ part = "money"

\* Each part's documents have their shapes.
TypeOK ==
    /\ part = "money" => B!TypeOK
    /\ part = "dispatch" => D!TypeOK
    /\ part = "floor" => F!TypeOK
    /\ part = "customers" => G!TypeOK
    /\ part = "counts" => C!TypeOK
    /\ part = "alerts" => A!TypeOK
    /\ part = "month" => M!TypeOK
    /\ part = "purchasing" => P!TypeOK
    /\ part = "coupons" => U!TypeOK
    /\ part = "invoices" => T!TypeOK

\* CheckMoney: no tender is given back twice, nobody pays more than the bills say, and no
\* check is closed with the guest's money left on it.
MoneyKept ==
    part = "money" => B!RefundsCovered /\ B!ClosedHoldsNothing /\ B!NoOvercharge

\* CheckMoney: "Anything already given back against this tender makes a reversal ambiguous,
\* so it is refused" (refunds.js:302).  A reversal that finds the check's paidAmount at zero
\* saves an order it did not change, so nothing tells it that a refund came in between.
MoneyReversed == part = "money" => B!ReversedWasNotReturned

\* Deliveries: an order is on the road once, the rider who delivered it was its rider,
\* and nobody who was let go is on shift.
DispatchKept == part = "dispatch" => D!DispatchKept

\* Seating, Customers, Coupons: a party is given a table only when no other party has a
\* check there that wrote the table, a phone number finds one profile, and a coupon is redeemed
\* as often as its limits allow when it is, which its counter knows.
GivenOnce ==
    /\ [](/\ part = "customers" => G!OneCustomerPerPhone
         /\ part = "coupons" => U!CounterCountsRows)
    /\ [][/\ part = "floor" => F!SeatedAlone
          /\ part = "coupons" => U!RedeemedWithinLimits]_vars

\* StockCounts, MonthClose, TaxInvoices: one sheet at a time is open in the branch, an
\* approval corrects the books by what was missing when it was counted, and the revisions of
\* a closed month and the tax invoices are numbered without a gap and keep their figures, and
\* the invoice of an order that is cancelled is void.
BooksKept ==
    /\ [](part = "counts" => C!OneActiveCount)
    /\ [][/\ part = "counts" => C!ApprovalExplains
          /\ part = "month" => M!KeepsRevisions
          /\ part = "invoices" => T!NumberedInSequence /\ T!CancellationVoids]_vars

\* InventoryAlerts: the movement that leaves an item low leaves an unresolved alert.
LowIsAlerted == [][part = "alerts" => A!LowAlerts]_vars

\* Procurement: receipts and returns never exceed what was ordered and accepted, and an
\* invoice's paidAmount is what its posted payments add up to.
SuppliesAccounted == part = "purchasing" => P!GoodsAccounted /\ P!InvoicesPaidOnce
===============================================================================
