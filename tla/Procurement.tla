----------------------------- MODULE Procurement ------------------------------
(***************************************************************************)
(* From a purchase order to the supplier's money: orders and their         *)
(* approval, goods receipts, returns to the supplier, supplier invoices    *)
(* matched three ways, and payments (services/purchaseOrders.js,           *)
(* receiving.js, returns.js, invoices.js, supplierPayments.js).            *)
(*                                                                         *)
(* An order has one line, priced 1, so that units are also money.  Every   *)
(* operation runs in a transaction (routes/purchasing.js).  Receipts are   *)
(* numbered by time of creation, and so are invoices.                      *)
(***************************************************************************)
EXTENDS Naturals, FiniteSets, Functions, Snapshots

CONSTANTS
    Orders,
    Largest,      \* the largest quantity ordered
    Receipts,     \* idempotency keys of goods receipts and of returns
    Invoices,     \* a supplier invoice and its number
    Payments      \* idempotency keys of supplier payments

ProcurementAssumption ==
    /\ Orders # {} /\ Invoices # {} /\ Invoices \subseteq Nat /\ Largest \in Nat
    /\ IsFiniteSet(Receipts) /\ IsFiniteSet(Payments)

vars == <<db, snap, behind>>

Quantities == 1..Largest

OrderDocs ==
    [status : {"absent", "draft", "pending", "approved", "rejected", "sent",
               "partially_received", "received", "closed_short", "closed", "cancelled"},
     ordered : Nat, received : Nat, damaged : Nat, returned : Nat,
     stock : Nat]      \* what is left of the batches that its receipts brought

\* A receipt, or a return: received and damaged, or returned.
ReceiptDocs ==
    [order : Orders, received : Nat, damaged : Nat, returned : Nat, used : BOOLEAN]

InvoiceDocs ==
    [status : {"absent", "unpaid", "partial", "paid", "void"},
     order : Orders, total : Nat, paid : Nat,
     match : {"awaiting_receipt", "over_billed", "matched", "partial"}]

PaymentDocs ==
    [status : {"absent", "posted", "reversed"}, invoice : Invoices, amount : Nat]

Databases ==
    [order : [Orders -> OrderDocs], receipt : [Receipts -> ReceiptDocs],
     invoice : [Invoices -> InvoiceDocs], payment : [Payments -> PaymentDocs]]

Least(m, n) == IF m < n THEN m ELSE n
Minus(m, n) == IF m > n THEN m - n ELSE 0

-------------------------------------------------------------------------------
(* Purchase orders.                                                        *)

PO_TRANSITIONS ==
    {<<"draft", "pending">>, <<"draft", "cancelled">>, <<"pending", "approved">>,
     <<"pending", "rejected">>, <<"pending", "cancelled">>, <<"approved", "sent">>,
     <<"approved", "cancelled">>, <<"rejected", "pending">>,
     <<"rejected", "cancelled">>, <<"sent", "cancelled">>, <<"received", "closed">>,
     <<"closed_short", "closed">>}

RECEIVABLE_STATUSES == {"approved", "sent", "partially_received"}

INVOICEABLE_PO_STATUSES ==
    {"approved", "sent", "partially_received", "received", "closed_short"}

OpenInvoices(d, o) ==
    {i \in Invoices : d.invoice[i].order = o /\ d.invoice[i].status \in {"unpaid", "partial"}}

SetOrder(d, o, doc) == [d EXCEPT !.order = [@ EXCEPT ![o] = doc]]

CreateOrder(c, o, qty) ==
    /\ View(c).order[o].status = "absent"
    /\ Commit(c, SetOrder(View(c), o,
          [status |-> "draft", ordered |-> qty, received |-> 0, damaged |-> 0,
           returned |-> 0, stock |-> 0]))

UpdateOrder(c, o, qty) ==
    LET doc == View(c).order[o]
    IN  /\ doc.status \in {"draft", "rejected"}
        /\ Commit(c, SetOrder(View(c), o, [doc EXCEPT !.ordered = qty]))

\* transitionPurchaseOrder
TransitionOrder(c, o, status) ==
    LET doc == View(c).order[o]
    IN  /\ <<doc.status, status>> \in PO_TRANSITIONS
        /\ status = "cancelled" => doc.received = 0
        /\ status = "closed" => OpenInvoices(View(c), o) = {}
        /\ Commit(c, SetOrder(View(c), o, [doc EXCEPT !.status = status]))

CloseShort(c, o) ==
    LET doc == View(c).order[o]
    IN  /\ doc.status = "partially_received"
        /\ doc.received \in 1..(doc.ordered - 1)
        /\ Commit(c, SetOrder(View(c), o, [doc EXCEPT !.status = "closed_short"]))

-------------------------------------------------------------------------------
(* Three-way matching.                                                     *)

\* The value of the receipts and returns, which the order's line adds up.
NetReceived(d, o) ==
    Minus(d.order[o].received - d.order[o].damaged, d.order[o].returned)

Billed(d, o, invoices) ==
    SumFunction([i \in {j \in invoices : d.invoice[j].order = o
                                            /\ d.invoice[j].status \notin {"absent", "void"}} |->
                    d.invoice[i].total])

\* buildInvoiceMatching
Matching(d, o, total, previous) ==
    LET available == Minus(NetReceived(d, o), Billed(d, o, previous))
    IN  CASE NetReceived(d, o) = 0 -> "awaiting_receipt"
          [] NetReceived(d, o) > 0 /\ total > available -> "over_billed"
          [] NetReceived(d, o) > 0 /\ total = available -> "matched"
          [] OTHER -> "partial"

\* refreshSupplierInvoiceMatching: each against those created before it.
Refreshed(d, o) ==
    [d EXCEPT !.invoice = [i \in Invoices |->
        IF @[i].order = o /\ @[i].status \notin {"absent", "void"}
        THEN [@[i] EXCEPT !.match =
                  Matching(d, o, d.invoice[i].total, {j \in Invoices : j < i})]
        ELSE @[i]]]

-------------------------------------------------------------------------------
(* Goods in and out.                                                       *)

\* Mutant: more than what is still open may arrive.
Uncounted(doc) == doc.ordered

remainingQty(doc) == Minus(doc.ordered, doc.received)

validateLine(doc, qty, damaged) == damaged <= qty /\ qty <= remainingQty(doc)

\* findReceiptReplay, findReturnReplay: a key that was used is answered with what it
\* recorded.
IsNew(d, r) == ~d.receipt[r].used

\* receivePurchaseOrder and the refresh in its transaction
Receive(c, o, r, qty, damaged) ==
    LET doc == View(c).order[o]
        now == [doc EXCEPT !.received = @ + qty, !.damaged = @ + damaged,
                           !.stock = @ + (qty - damaged),
                           !.status = IF doc.received + qty >= doc.ordered THEN "received"
                                      ELSE "partially_received"]
        row == [order |-> o, received |-> qty, damaged |-> damaged, returned |-> 0,
                used |-> TRUE]
    IN  /\ doc.status \in RECEIVABLE_STATUSES
        /\ validateLine(doc, qty, damaged)
        /\ IsNew(View(c), r)
        /\ Commit(c, Refreshed([SetOrder(View(c), o, now) EXCEPT !.receipt[r] = row], o))

returnableQty(doc) == Minus(doc.received - doc.damaged, doc.returned)

\* loadReturnAllocationState, prepareAllocations: from the batches its own receipts
\* brought.
CanReturn(doc, qty) == qty <= returnableQty(doc) /\ qty <= doc.stock

\* returnPurchaseOrder
Return(c, o, r, qty) ==
    LET doc == View(c).order[o]
        now == [doc EXCEPT !.returned = @ + qty, !.stock = @ - qty]
        row == [order |-> o, received |-> 0, damaged |-> 0, returned |-> qty, used |-> TRUE]
    IN  /\ doc.status \notin {"absent", "cancelled"}
        /\ CanReturn(doc, qty)
        /\ IsNew(View(c), r)
        /\ Commit(c, Refreshed([SetOrder(View(c), o, now) EXCEPT !.receipt[r] = row], o))

\* The stock that came is sold, wasted or transferred.
Consume(c, o) ==
    LET doc == View(c).order[o]
    IN  /\ doc.stock > 0
        /\ Commit(c, SetOrder(View(c), o, [doc EXCEPT !.stock = @ - 1]))

-------------------------------------------------------------------------------
(* Supplier invoices and payments.                                         *)

CreateInvoice(c, i, o, total) ==
    LET d == View(c)
    IN  /\ d.invoice[i].status = "absent"
        /\ d.order[o].status \in INVOICEABLE_PO_STATUSES
        /\ Commit(c, [d EXCEPT !.invoice[i] =
              [status |-> "unpaid", order |-> o, total |-> total, paid |-> 0,
               match |-> Matching(d, o, total, Invoices \ {i})]])

HasPayments(d, i) ==
    d.invoice[i].paid > 0
    \/ \E p \in Payments : d.payment[p].status # "absent" /\ d.payment[p].invoice = i

\* updateSupplierInvoice: amounts; the invoices after it are matched again.
UpdateInvoice(c, i, total) ==
    LET d == View(c)
        o == d.invoice[i].order
    IN  /\ d.invoice[i].status \notin {"absent", "void"}
        /\ ~HasPayments(d, i)
        /\ d.order[o].status \in INVOICEABLE_PO_STATUSES
        /\ Commit(c, Refreshed([d EXCEPT !.invoice[i].total = total], o))

VoidInvoice(c, i) ==
    LET d == View(c)
    IN  /\ d.invoice[i].status \notin {"absent", "void"}
        /\ ~HasPayments(d, i)
        /\ Commit(c, Refreshed([d EXCEPT !.invoice[i].status = "void"],
                               d.invoice[i].order))

Posted(d, i) == {p \in Payments : d.payment[p].status = "posted" /\ d.payment[p].invoice = i}

\* activePaymentTotal, which assertAggregateConsistent compares with paidAmount
ActiveTotal(d, i) == SumFunction([p \in Posted(d, i) |-> d.payment[p].amount])

invoicePaymentStatus(paid, total) ==
    CASE paid = 0 -> "unpaid"
      [] paid > 0 /\ paid >= total -> "paid"
      [] OTHER -> "partial"

PaidUp(doc, paid) ==
    [doc EXCEPT !.paid = paid, !.status = invoicePaymentStatus(paid, doc.total)]

\* createSupplierPayment
PayInvoice(c, i, p, amount) ==
    LET d == View(c)
        paid == ActiveTotal(d, i)
    IN  /\ d.invoice[i].status \notin {"absent", "void"}
        /\ d.payment[p].status = "absent"
        /\ d.invoice[i].paid = paid
        /\ amount <= Minus(d.invoice[i].total, paid)
        /\ Commit(c, [d EXCEPT
              !.payment[p] = [status |-> "posted", invoice |-> i, amount |-> amount],
              !.invoice[i] = PaidUp(@, paid + amount)])

\* Mutant: the reversed payment is still in the sum that is saved.
StillPaid(paid, amount) == paid

PaidWithout(paid, amount) == Minus(paid, amount)

\* reverseSupplierPayment
ReversePayment(c, p) ==
    LET d == View(c)
        i == d.payment[p].invoice
        paid == ActiveTotal(d, i)
    IN  /\ d.payment[p].status = "posted"
        /\ d.invoice[i].status # "void"
        /\ d.invoice[i].paid = paid
        /\ Commit(c, [d EXCEPT !.payment[p].status = "reversed",
                               !.invoice[i] = PaidUp(@, PaidWithout(paid, d.payment[p].amount))])

-------------------------------------------------------------------------------
Init ==
    /\ db = [order |-> [o \in Orders |->
                 [status |-> "absent", ordered |-> 0, received |-> 0, damaged |-> 0,
                  returned |-> 0, stock |-> 0]],
             receipt |-> [r \in Receipts |->
                 [order |-> CHOOSE o \in Orders : TRUE, received |-> 0, damaged |-> 0,
                  returned |-> 0, used |-> FALSE]],
             invoice |-> [i \in Invoices |->
                 [status |-> "absent", order |-> CHOOSE o \in Orders : TRUE, total |-> 0,
                  paid |-> 0, match |-> "awaiting_receipt"]],
             payment |-> [p \in Payments |->
                 [status |-> "absent", invoice |-> CHOOSE i \in Invoices : TRUE,
                  amount |-> 0]]]
    /\ OutsideTransactions

Refused(c) == End(c)

Statuses == {"pending", "approved", "rejected", "sent", "closed", "cancelled"}

OrderStep(c, o) ==
    \/ \E qty \in Quantities : CreateOrder(c, o, qty) \/ UpdateOrder(c, o, qty)
    \/ \E status \in Statuses : TransitionOrder(c, o, status)
    \/ CloseShort(c, o)

GoodsStep(c, o) ==
    \/ Consume(c, o)
    \/ \E r \in Receipts, qty \in Quantities :
          \/ Return(c, o, r, qty)
          \/ \E damaged \in 0..1 : Receive(c, o, r, qty, damaged)

InvoiceStep(c, i) ==
    \/ \E o \in Orders, total \in Quantities : CreateInvoice(c, i, o, total)
    \/ \E total \in Quantities : UpdateInvoice(c, i, total)
    \/ VoidInvoice(c, i)

PaymentStep(c, p) ==
    \/ \E i \in Invoices, amount \in Quantities : PayInvoice(c, i, p, amount)
    \/ ReversePayment(c, p)

Next ==
    \/ \E c \in Clients : Begin(c) \/ Refused(c)
    \/ \E c \in Callers :
        /\ Reads(c)
        /\ \/ \E o \in Orders : OrderStep(c, o) \/ GoodsStep(c, o)
           \/ \E i \in Invoices : InvoiceStep(c, i)
           \/ \E p \in Payments : PaymentStep(c, p)

Spec == Init /\ [][Next]_vars

-------------------------------------------------------------------------------
TypeOK ==
    /\ db \in Databases
    /\ snap \in [Clients -> Databases \cup {NoSnapshot}]

\* However receipts and returns overlap, no more comes in than was ordered, no more
\* goes back than was accepted and is still there, and the documents add up to it.
GoodsAccounted ==
    \A o \in Orders :
        LET doc == db.order[o]
            Sum(field) == SumFunction([r \in {q \in Receipts : db.receipt[q].order = o} |->
                                          db.receipt[r][field]])
        IN  /\ doc.received <= doc.ordered
            /\ doc.returned + doc.stock <= doc.received - doc.damaged
            /\ doc.received = Sum("received")
            /\ doc.returned = Sum("returned")

\* An invoice's paidAmount is what its posted payments add up to, never more than its
\* total, and a void invoice has none.
InvoicesPaidOnce ==
    \A i \in Invoices :
        /\ db.invoice[i].paid = ActiveTotal(db, i)
        /\ db.invoice[i].paid <= db.invoice[i].total
        /\ db.invoice[i].status = "void" => Posted(db, i) = {}

\* purchaseOrders.js:424 and README:2602: "Closing is refused while an invoice against
\* the order is still outstanding" (an invoice with a reversed payment is set apart).
ClosedOwesNothing ==
    \A o \in Orders :
        db.order[o].status = "closed" =>
            \A i \in OpenInvoices(db, o) : HasPayments(db, i)

\* Matching never vouches for more than came and stayed.
MatchedWasReceived ==
    \A o \in Orders :
        LET vouched == {i \in Invoices : db.invoice[i].match \in {"matched", "partial"}}
        IN  Billed(db, o, vouched) <= NetReceived(db, o)
===============================================================================
