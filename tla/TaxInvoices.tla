------------------------------ MODULE TaxInvoices ------------------------------
(***************************************************************************)
(* The numbered tax invoices of one branch in one year                     *)
(* (services/receipts.js): the first printing of an order's receipt takes  *)
(* the next number and pins the total and the seller; later printings are  *)
(* counted; a cancellation voids.  Meanwhile checks are split, merged,     *)
(* completed and reopened, and the restaurant's profile is edited.         *)
(*                                                                         *)
(* Everything about orders runs in transactions.  Tenders are in           *)
(* CheckMoney, the stock behind a check in OrderStock.                     *)
(***************************************************************************)
EXTENDS Naturals, FiniteSets, FiniteSetsExt, Snapshots

CONSTANTS
    Checks,
    Bills,        \* the totals checks may start with, 0 for one not opened yet
    Sellers,      \* who a profile may say sells, with the PAN
    NoSeller,     \* a profile without a PAN
    MaxLegacy,    \* bound on the numbers given before the index
    MaxPrints     \* bound on the printings of one receipt

InvoicesAssumption ==
    /\ Bills \subseteq [Checks -> Nat] /\ NoSeller \notin Sellers
    /\ MaxLegacy \in Nat /\ MaxPrints \in Nat

vars == <<db, snap, behind>>

\* "pending" is a web order nobody accepted, "open" any status up to preparing, "ready"
\* also out_for_delivery, and "completed" also refunded.
OrderDocs ==
    [status : {"absent", "pending", "open", "ready", "completed", "cancelled"},
     total : Nat, invoiceNo : Nat, invoicedTotal : Nat,
     seller : Sellers \cup {NoSeller}, printCount : Nat, voided : BOOLEAN]

Databases ==
    [order : [Checks -> OrderDocs], counter : [{"value"} -> [value : Nat]],
     profile : [{"seller"} -> [pan : Sellers \cup {NoSeller}]]]

IsOpen(doc) == doc.status \in {"pending", "open", "ready"}

Uninvoiced(status, total) ==
    [status |-> status, total |-> total, invoiceNo |-> 0, invoicedTotal |-> 0,
     seller |-> NoSeller, printCount |-> 0, voided |-> FALSE]

\* Mutant: the first of the counters survives.
LowestKept(counters) == IF counters = {} THEN 0 ELSE Min(counters)

\* consolidateSalesInvoiceCounters
Consolidated(counters) == IF counters = {} THEN 0 ELSE Max(counters)

\* A start: what was printed before counters had an index pinned nothing, may share its
\* number with other orders, and left several counters.
Init ==
    /\ \E bill \in Bills, status \in {"pending", "open"}, counters \in SUBSET (1..MaxLegacy) :
       \E given \in [{k \in Checks : bill[k] > 0} -> {0} \cup counters] :
          db = [order |-> [k \in Checks |->
                    IF bill[k] = 0 THEN Uninvoiced("absent", 0)
                    ELSE [Uninvoiced(status, bill[k]) EXCEPT
                             !.invoiceNo = given[k],
                             !.printCount = IF given[k] = 0 THEN 0 ELSE 1]],
                counter |-> [v \in {"value"} |-> [value |-> Consolidated(counters)]],
                profile |-> [p \in {"seller"} |-> [pan |-> NoSeller]]]
    /\ OutsideTransactions

\* A frozen invoice path is only ever written where there is no number yet.
Frozen(old, new) ==
    old.invoiceNo > 0 =>
        /\ new.invoiceNo = old.invoiceNo /\ new.invoicedTotal = old.invoicedTotal
        /\ new.seller = old.seller /\ new.printCount >= old.printCount

\* order.save in a transaction, with the hook in front of it
SaveOrders(c, new) ==
    /\ \A k \in Checks : Frozen(View(c).order[k], new.order[k])
    /\ Commit(c, new)

\* assertTaxConfig, before the counter is touched
TaxConfigured(d) == d.profile["seller"].pan # NoSeller

nextInvoiceNumber(d) == d.counter["value"].value + 1

captureInvoiceIdentity(d) == d.profile["seller"].pan

\* What the first printing pins, with its number.
Issued(d, doc) ==
    [doc EXCEPT !.invoiceNo = nextInvoiceNumber(d), !.invoicedTotal = doc.total,
                !.seller = captureInvoiceIdentity(d), !.printCount = @ + 1]

\* getReceipt with issue, for an order that has no number.
IssueInvoice(c, k) ==
    LET d == View(c)
    IN  /\ d.order[k].status \notin {"absent", "cancelled"}
        /\ d.order[k].invoiceNo = 0
        /\ TaxConfigured(d)
        /\ SaveOrders(c, [d EXCEPT !.counter["value"].value = nextInvoiceNumber(d),
                                   !.order[k] = Issued(d, @)])

\* getReceipt with issue, for one that has.
Reprint(c, k) ==
    LET d == View(c)
    IN  /\ d.order[k].invoiceNo > 0
        /\ TaxConfigured(d)
        /\ d.order[k].printCount < MaxPrints
        /\ SaveOrders(c, [d EXCEPT !.order[k].printCount = @ + 1])

\* Mutant: a cancellation does not look for an invoice.
Forgotten(doc) == doc

\* voidInvoiceForOrder
Voided(doc) == [doc EXCEPT !.voided = doc.invoiceNo > 0]

\* PATCH /orders/:id/status, where there is no guest's money left.
CancelOrder(c, k) ==
    /\ View(c).order[k].status \in {"pending", "open"}
    /\ SaveOrders(c, [View(c) EXCEPT !.order[k] =
                         [Voided(@) EXCEPT !.status = "cancelled"]])

\* POST /online-orders/:id/reject
RejectOrder(c, k) ==
    /\ View(c).order[k].status = "pending"
    /\ SaveOrders(c, [View(c) EXCEPT !.order[k].status = "cancelled"])

\* POST /online-orders/:id/accept, the kitchen's and the till's transitions, reopenOrder
AdvanceOrder(c, k, status) ==
    LET doc == View(c).order[k]
    IN  /\ \/ doc.status = "pending" /\ status = "open"
           \/ doc.status = "open" /\ status = "ready"
           \/ IsOpen(doc) /\ status = "completed"
           \/ doc.status = "completed" /\ status = "ready"
        /\ SaveOrders(c, [View(c) EXCEPT !.order[k].status = status])

\* splitOrder
SplitOrder(c, k, child, units) ==
    LET doc == View(c).order[k]
    IN  /\ IsOpen(doc) /\ units < doc.total
        /\ View(c).order[child].status = "absent"
        /\ SaveOrders(c, [View(c) EXCEPT
              !.order[k].total = doc.total - units,
              !.order[child] = Uninvoiced(IF doc.status = "pending" THEN "open" ELSE doc.status,
                                          units)])

\* mergeTableOrders: the checks of two tables
MergeOrders(c, from, into) ==
    LET d == View(c)
    IN  /\ from # into
        /\ {d.order[from].status, d.order[into].status} \subseteq {"open", "ready"}
        /\ SaveOrders(c, [d EXCEPT !.order[into].total = @ + d.order[from].total,
                                   !.order[from].status = "cancelled"])

\* The restaurant's own pages.
EditProfile(pan) ==
    /\ pan # db.profile["seller"].pan
    /\ Update(Prompt, [db EXCEPT !.profile["seller"].pan = pan])

Refused(c) == End(c)

OrderStep(c, k) ==
    \/ IssueInvoice(c, k) \/ Reprint(c, k)
    \/ CancelOrder(c, k) \/ RejectOrder(c, k)
    \/ \E status \in {"open", "ready", "completed"} : AdvanceOrder(c, k, status)
    \/ \E other \in Checks :
          \/ MergeOrders(c, k, other)
          \/ \E units \in 1..View(c).order[k].total : SplitOrder(c, k, other, units)

Next ==
    \/ \E c \in Clients : Begin(c) \/ Refused(c)
    \/ \E c \in {d \in Callers : Reads(d)}, k \in Checks : OrderStep(c, k)
    \/ \E pan \in Sellers \cup {NoSeller} : EditProfile(pan)

Spec == Init /\ [][Next]_vars

-------------------------------------------------------------------------------
TypeOK ==
    /\ db \in Databases
    /\ snap \in [Clients -> Databases \cup {NoSnapshot}]

Invoiced(d) == {k \in Checks : d.order[k].invoiceNo > 0}

\* The numbers go on by one, each to one order that never had one, however printings,
\* cancellations, splits and merges interleave; and once given, the number stays with what
\* was sold and by whom, a void is not undone, and no reprint becomes an original again.
NumberedInSequence ==
    LET last == db.counter["value"].value
        issued == Invoiced(db') \ Invoiced(db)
    IN  /\ Invoiced(db) \subseteq Invoiced(db')
        /\ Cardinality(issued) = db'.counter["value"].value - last
        /\ \A k \in issued :
              db'.order[k].invoiceNo = last + 1 /\ db'.order[k].invoicedTotal = db.order[k].total
        /\ \A k \in issued, other \in Invoiced(db) :
              db.order[other].invoiceNo # db'.order[k].invoiceNo
        /\ \A k \in Invoiced(db) :
              Frozen(db.order[k], db'.order[k]) /\ (db.order[k].voided => db'.order[k].voided)

\* An accepted order that is cancelled, and not merged into another, has no valid invoice,
\* even if the receipt was printed after the cancellation read the order.
CancellationVoids ==
    \A k \in Invoiced(db') :
        db.order[k].status = "open" /\ db'.order[k].status = "cancelled"
        /\ (\A other \in Checks : db'.order[other].total = db.order[other].total)
           => db'.order[k].voided

\* receipts.js:302: an order cancelled after its invoice used to have "nothing to say it had
\* been voided".
CancelledIsVoid ==
    \A k \in Invoiced(db) : db.order[k].status = "cancelled" => db.order[k].voided
===============================================================================
