------------------------------ MODULE CheckMoney ------------------------------
(***************************************************************************)
(* The money on checks: tenders and refunds (the append-only Payment rows, *)
(* services/billing.js and refunds.js) beside the amounts stored on the    *)
(* check, while checks are split, merged, cancelled and reopened           *)
(* (services/tables.js, routes/operations.js).                             *)
(*                                                                         *)
(* Every operation runs in a transaction.  What is due is total - paid; a  *)
(* check's items are as many units of its total.  The stock behind a check *)
(* is in OrderStock, gateway payments in OnlinePayments.                   *)
(***************************************************************************)
EXTENDS Naturals, FiniteSets, Functions, Snapshots

CONSTANTS
    Checks,
    Requests,     \* idempotency keys of payments and refunds, by time of creation
    Bills         \* the totals checks may start with, 0 for one not opened yet

MoneyAssumption ==
    /\ Checks # {} /\ IsFiniteSet(Checks)
    /\ Requests \subseteq Nat /\ IsFiniteSet(Requests)
    /\ Bills \subseteq [Checks -> Nat]

vars == <<db, snap, behind>>

\* "open" stands for the statuses up to preparing, "ready" for ready and
\* out_for_delivery, "merged" for cancelled by mergeTableOrders.
CheckDocs ==
    [status : {"absent", "open", "ready", "completed", "cancelled", "merged",
               "refunded"},
     total : Nat, paid : Nat, refunded : Nat]

\* OPEN_ORDER_STATUSES
IsOpen(doc) == doc.status \in {"open", "ready"}

\* A refund request writes one row for each tender it draws on: "back" says how
\* much from which.
RowDocs ==
    [status : {"absent", "paid", "refunded", "reversed", "refund"},
     check : Checks, amount : Nat, back : [Requests -> Nat]]

NoBack == [r \in Requests |-> 0]

Databases == [check : [Checks -> CheckDocs], row : [Requests -> RowDocs]]

Total(f) == SumFunction(f)

-------------------------------------------------------------------------------
(* What the rows say.                                                      *)

\* Mutant: a reversed tender still counts as money taken.
AlsoReversed(d, k) ==
    {t \in Requests : d.row[t].check = k
                         /\ d.row[t].status \in {"paid", "refunded", "reversed"}}

\* settledPayments
Tenders(d, k) ==
    {t \in Requests : d.row[t].check = k /\ d.row[t].status \in {"paid", "refunded"}}

Refunds(d, k) ==
    {r \in Requests : d.row[r].check = k /\ d.row[r].status = "refund"}

\* refundedAgainst
Returned(d, k, t) ==
    Total([r \in Refunds(d, k) |-> d.row[r].back[t]])

Taken(d, k) == Total([t \in Tenders(d, k) |-> d.row[t].amount])

Given(d, k) == Total([r \in Refunds(d, k) |-> d.row[r].amount])

\* Mutant: the difference is taken as it is.
Unfloored(m, n) == m - n

Minus(m, n) == IF m > n THEN m - n ELSE 0

\* refundableAmount
Refundable(d, k) == Minus(Taken(d, k), Given(d, k))

Left(d, k, t) == d.row[t].amount - Returned(d, k, t)

Least(m, n) == IF m < n THEN m ELSE n

\* allocateRefund: the newest tender first.
Allocation(d, k, amount) ==
    [t \in Requests |->
        IF t \notin Tenders(d, k) THEN 0
        ELSE Least(Left(d, k, t),
                   Minus(amount, Total([u \in {v \in Tenders(d, k) : v > t} |->
                                            Left(d, k, u)])))]

Due(doc) == Minus(doc.total, doc.paid)

-------------------------------------------------------------------------------
Open(total) == [status |-> "open", total |-> total, paid |-> 0,
                refunded |-> 0]
Unused == [status |-> "absent", total |-> 0, paid |-> 0, refunded |-> 0]

NoRow ==
    [status |-> "absent", check |-> CHOOSE k \in Checks : TRUE, amount |-> 0,
     back |-> NoBack]

Init ==
    /\ db \in {[check |-> [k \in Checks |-> IF bill[k] = 0 THEN Unused
                                           ELSE Open(bill[k])],
                row |-> [r \in Requests |-> NoRow]] : bill \in Bills}
    /\ OutsideTransactions

\* applyPayment; a key that was used is answered with its payment.
Pay(c, k, r, amount) ==
    LET d == View(c)
        doc == d.check[k]
        paid == doc.paid + amount
    IN  /\ IsOpen(doc) \/ doc.status = "completed"
        /\ amount <= Due(doc)
        /\ d.row[r].status = "absent"
        /\ Commit(c, [check |-> [d.check EXCEPT ![k] =
                         [doc EXCEPT !.paid = paid,
                                     !.status = IF paid >= doc.total THEN "completed"
                                                ELSE @]],
                      row |-> [d.row EXCEPT ![r] =
                         [status |-> "paid", check |-> k, amount |-> amount,
                          back |-> NoBack]]])

\* The rows after a refund: those drawn on in full are marked.
RowsAfter(d, k, r, amount) ==
    LET back == Allocation(d, k, amount)
    IN  [q \in Requests |->
            IF q = r
            THEN [status |-> "refund", check |-> k, amount |-> amount, back |-> back]
            ELSE IF back[q] > 0 /\ back[q] = Left(d, k, q)
                 THEN [status |-> "refunded", check |-> d.row[q].check,
                       amount |-> d.row[q].amount, back |-> d.row[q].back]
                 ELSE d.row[q]]

\* refundOrder: only a completed check closes, and only when all went back.
Refund(c, k, r, amount) ==
    LET d == View(c)
        doc == d.check[k]
        closes == amount = Refundable(d, k) /\ doc.status \in {"completed", "refunded"}
    IN  /\ doc.status # "absent"
        /\ amount <= Refundable(d, k)
        /\ d.row[r].status = "absent"
        /\ Commit(c, [check |-> [d.check EXCEPT ![k] =
                         [doc EXCEPT !.paid = Minus(@, amount),
                                     !.refunded = Given(d, k) + amount,
                                     !.status = IF closes THEN "refunded" ELSE @]],
                      row |-> RowsAfter(d, k, r, amount)])

\* reversePayment: the tender was never taken.
Reverse(c, t) ==
    LET d == View(c)
        k == d.row[t].check
        doc == d.check[k]
        paid == Minus(doc.paid, d.row[t].amount)
    IN  /\ d.row[t].status = "paid"
        /\ Returned(d, k, t) = 0
        /\ Commit(c, [check |-> [d.check EXCEPT ![k] =
                         [doc EXCEPT !.paid = paid,
                                     !.status = IF @ = "completed" /\ paid < doc.total
                                                THEN "open" ELSE @]],
                      row |-> [d.row EXCEPT ![t].status = "reversed"]])

\* splitOrder: money beyond what is left of the parent follows the child.
Split(c, k, child, units) ==
    LET d == View(c)
        doc == d.check[k]
        rest == doc.total - units
        stays == Least(doc.paid, rest)
        over == Least(doc.paid - stays, units)
    IN  /\ IsOpen(doc) /\ units < doc.total
        /\ d.check[child].status = "absent"
        /\ Commit(c, [row |-> d.row, check |-> [d.check EXCEPT
              ![k] = [doc EXCEPT !.total = rest, !.paid = stays,
                                 !.status = IF stays = rest THEN "completed" ELSE @],
              ![child] = [status |-> IF over = units THEN "completed" ELSE doc.status,
                          total |-> units, paid |-> over, refunded |-> 0]]])

\* Payment.updateMany, reparentPayments
Reparented(d, from, into) ==
    [r \in Requests |->
        IF d.row[r].check = from /\ d.row[r].status # "absent"
        THEN [d.row[r] EXCEPT !.check = into] ELSE d.row[r]]

\* mergeTableOrders
Merge(c, from, into) ==
    LET d == View(c)
        a == d.check[from]
        b == d.check[into]
    IN  /\ from # into
        /\ IsOpen(a) /\ IsOpen(b)
        /\ Commit(c, [row |-> Reparented(d, from, into), check |-> [d.check EXCEPT
              ![into] = [b EXCEPT !.total = a.total + b.total, !.paid = a.paid + b.paid],
              ![from] = [a EXCEPT !.status = "merged"]]])

\* reopenOrder
Reopen(c, k) ==
    /\ View(c).check[k].status = "completed"
    /\ Commit(c, [View(c) EXCEPT !.check[k].status = "ready"])

\* PATCH /orders/:id/status; only a cancellation looks for the guest's money.
Advance(c, k, status) ==
    LET doc == View(c).check[k]
    IN  /\ \/ doc.status = "open" /\ status = "ready"
           \/ doc.status = "ready" /\ status = "completed"
           \/ doc.status = "completed" /\ status = "refunded"
           \/ doc.status = "open" /\ status = "cancelled" /\ Refundable(View(c), k) = 0
        /\ Commit(c, [View(c) EXCEPT !.check[k].status = status])

Refused(c) == End(c)

Amounts == 1..Total([k \in Checks |-> db.check[k].total])

Next ==
    \/ \E c \in Clients : Begin(c) \/ Refused(c)
    \/ \E c \in Callers :
        /\ Reads(c)
        /\ \/ \E k \in Checks, r \in Requests, amount \in Amounts :
                Pay(c, k, r, amount) \/ Refund(c, k, r, amount)
           \/ \E t \in Requests : Reverse(c, t)
           \/ \E k, child \in Checks, units \in Amounts : Split(c, k, child, units)
           \/ \E from, into \in Checks : Merge(c, from, into)
           \/ \E k \in Checks : Reopen(c, k)
           \/ \E k \in Checks, status \in {"ready", "completed", "cancelled", "refunded"} :
                 Advance(c, k, status)

Spec == Init /\ [][Next]_vars

-------------------------------------------------------------------------------
TypeOK ==
    /\ db \in Databases
    /\ snap \in [Clients -> Databases \cup {NoSnapshot}]

\* No tender is given back twice, whatever refunds, splits and merges race.
RefundsCovered ==
    \A t \in Requests : Returned(db, db.row[t].check, t) <= db.row[t].amount

\* No check is cancelled, or merged away, with the guest's money left on it.
ClosedHoldsNothing ==
    \A k \in Checks :
        db.check[k].status \in {"cancelled", "merged"} => Refundable(db, k) = 0

\* Nobody pays more than the bills say, in however many tenders, splits and merges:
\* the till holds no more than the checks say was paid, nor those than their totals.
NoOvercharge ==
    LET bills == {k \in Checks : db.check[k].status # "merged"}
        paid == Total([k \in bills |-> db.check[k].paid])
    IN  /\ Total([k \in Checks |-> Refundable(db, k)]) <= paid
        /\ paid <= Total([k \in bills |-> db.check[k].total])

\* refunds.js:13: "the sum of all rows for an order always equals what the guest is
\* currently out of pocket"; refunds.js:212: rows and paidAmount, "the two agree".
RowsSayPaid ==
    \A k \in Checks : db.check[k].status # "merged"
                         => db.check[k].paid = Refundable(db, k)

\* refunds.js:302: "Anything already given back against this tender makes a reversal
\* ambiguous, so it is refused".
ReversedWasNotReturned ==
    \A t \in Requests :
        db.row[t].status = "reversed" => Returned(db, db.row[t].check, t) = 0

\* refunds.js:112: "The order only becomes 'refunded' once every rupee taken has been
\* returned".
RefundedWasReturned ==
    \A k \in Checks : db.check[k].status = "refunded" => Refundable(db, k) = 0
===============================================================================
