------------------------------ MODULE OrderStock ------------------------------
(***************************************************************************)
(* The stock behind the checks of one branch: deduction when an order is   *)
(* placed at the till or an online order is accepted, splitting and        *)
(* merging of checks, and the reversal of the stock when a check is        *)
(* cancelled or refunded (routes/operations.js, routes/storefront.js,      *)
(* services/billing.js, tables.js, refunds.js, inventoryLedger.js).        *)
(*                                                                         *)
(* A check is measured in the units of the ingredient its lines require.   *)
(* Money is left out: whether a check is paid, or still holds money, is    *)
(* either way here.                                                        *)
(***************************************************************************)
EXTENDS StockStore, Transactions, TLC

CONSTANTS
    Branch,             \* the branch of the checks
    Orders,
    Placed,             \* orders with a request of their own; others are split off
    Online,             \* those that may come from the storefront instead
    Size,               \* what a placed order requires
    Seat,               \* the table it is placed at
    NoTable,            \* takeaway, delivery and storefront orders
    Openings            \* what the lots may hold before the first order

ASSUME OrderAssumption ==
    /\ Branch \in Branches
    /\ Online \subseteq Placed /\ Placed \subseteq Orders
    /\ IsFiniteSet(Orders)
    /\ \A o \in Placed : Size[o] \in Nat \ {0}
ASSUME OpeningAssumption == Openings \subseteq [Batches -> Nat]

vars == <<db, snap>>

OpeningKey(l) == <<"opening", l>>
OrderKey(o) == <<"order", o>>
ReverseKey(o) == <<"reverse", o>>

Keys == {OpeningKey(l) : l \in Batches}
        \cup {OrderKey(o) : o \in Orders} \cup {ReverseKey(o) : o \in Orders}

\* "cooking" stands for confirmed, accepted and preparing.
Statuses == {"absent", "pending", "cooking", "ready", "completed", "refunded",
             "cancelled"}

OPEN_ORDER_STATUSES == {"pending", "cooking", "ready"}

\* deducted, reversed: inventoryDeducted, inventoryReversed;
\* sources: inventorySourceOrders, empty until the check is split or merged.
Checks ==
    [status : Statuses, qty : Nat, sources : SUBSET Orders,
     deducted : BOOLEAN, reversed : BOOLEAN, online : BOOLEAN,
     table : {Seat[o] : o \in Placed} \cup {NoTable}]

NoCheck ==
    [status |-> "absent", qty |-> 0, sources |-> {},
     deducted |-> FALSE, reversed |-> FALSE, online |-> FALSE,
     table |-> NoTable]

Databases ==
    [balance : Balances,
     lots    : Lots,
     rows    : [Keys -> Moves \cup {NoMove}],
     check   : [Orders -> Checks]]

\* Stock was received, and nothing sold.
Opened(opening) ==
    [balance |-> [EmptyBalance EXCEPT ![Branch] =
                    [qty |-> SumFunction(opening), ver |-> Cardinality(Batches)]],
     lots    |-> [p \in Branches \X Batches |->
                    IF p[1] = Branch THEN opening[p[2]] ELSE 0],
     rows    |-> [key \in Keys |->
                    IF key[1] = "opening"
                    THEN [branch |-> Branch, change |-> opening[key[2]],
                          alloc |-> OneLot(key[2], opening[key[2]]),
                          ver |-> Cardinality({l \in Batches : l <= key[2]})]
                    ELSE NoMove],
     check   |-> [o \in Orders |-> NoCheck]]

Init ==
    /\ db \in {Opened(opening) : opening \in Openings}
    /\ snap = [c \in Clients |-> NoSnapshot]

-------------------------------------------------------------------------------
IsOpen(s, o) == s.check[o].status \in OPEN_ORDER_STATUSES

TableFree(s, t) ==
    t = NoTable \/ \A o \in Orders : IsOpen(s, o) => s.check[o].table # t

SetStatus(s, o, status) == [s EXCEPT !.check[o].status = status]

\* Expiry plays no part here: the lots of these checks are all fresh.
CanDeduct(s, o, n) ==
    /\ s.rows[OrderKey(o)] = NoMove
    /\ CanTake(s, Branch, Batches, n)

Deduct(s, o, n) ==
    Post(s, OrderKey(o), Branch, -n, Fefo(s, Branch, Batches, n))

-------------------------------------------------------------------------------
(* reverseOrderStock.                                                      *)

\* Mutant: a split check does not know the order it came from.
SourceIsItself(s, o) == {o}

\* The orders whose deduction rows the check draws on.
SourcesOf(s, o) ==
    IF s.check[o].sources = {} THEN {o} ELSE s.check[o].sources

\* Every check that has one of o's sources.
Related(s, o) ==
    SourcesOf(s, o)
    \cup {x \in Orders : s.check[x].sources \cap SourcesOf(s, o) # {}}

Originals(s, o) ==
    {OrderKey(x) : x \in {y \in SourcesOf(s, o) : s.rows[OrderKey(y)] # NoMove}}

Reversals(s, o) ==
    {ReverseKey(x) : x \in {y \in Related(s, o) : s.rows[ReverseKey(y)] # NoMove}}

\* "Order reversal exceeds its original inventory allocation" otherwise.
Fits(s, o) ==
    TotalChange(s, Reversals(s, o)) + s.check[o].qty
        <= -TotalChange(s, Originals(s, o))

\* Mutant: what other checks put back is not subtracted.
TakenFrom(s, o, l) == -LotChange(s, Originals(s, o), l)

\* originalBatchAvailability: what of a lot has not been put back yet.
Available(s, o, l) ==
    LET left == -LotChange(s, Originals(s, o), l) - LotChange(s, Reversals(s, o), l)
    IN  IF left > 0 THEN left ELSE 0

\* The lots in the order the original rows name them.
Rank(s, o, l) ==
    LET vers == {s.rows[key].ver :
                    key \in {k \in Originals(s, o) : s.rows[k].alloc[l] # 0}}
    IN  CHOOSE v \in vers : \A w \in vers : v <= w

Named(s, o) == {l \in Batches : Available(s, o, l) > 0}

Precedes(s, o, k, l) ==
    \/ Rank(s, o, k) < Rank(s, o, l)
    \/ Rank(s, o, k) = Rank(s, o, l) /\ k < l

AvailableIn(s, o, ls) ==
    SumFunctionOnSet([l \in Batches |-> Available(s, o, l)], ls)

\* The lots the stock goes back to.
Restored(s, o) ==
    [l \in Batches |->
        IF l \in Named(s, o)
        THEN Clip(s.check[o].qty
                  - AvailableIn(s, o, {k \in Named(s, o) : Precedes(s, o, k, l)}),
                  Available(s, o, l))
        ELSE 0]

\* Stock was taken for the check and has not gone back.
ToReverse(s, o) == s.check[o].deducted /\ ~s.check[o].reversed

CanReverse(s, o) ==
    /\ Originals(s, o) # {}
    /\ Fits(s, o)
    /\ AvailableIn(s, o, Batches) >= s.check[o].qty
    /\ s.rows[ReverseKey(o)] = NoMove
    /\ Covered(s, Branch)

Reverse(s, o) ==
    [Post(s, ReverseKey(o), Branch, s.check[o].qty, Restored(s, o))
        EXCEPT !.check[o].reversed = TRUE]

-------------------------------------------------------------------------------
\* POST /orders: the order and its stock, or neither.
PlaceAtTill(c, o) ==
    LET s == snap[c]
    IN  /\ s # NoSnapshot
        /\ o \in Placed
        /\ s.check[o].status = "absent"
        /\ TableFree(s, Seat[o])
        /\ CanDeduct(s, o, Size[o])
        /\ Commit(c, [Deduct(s, o, Size[o]) EXCEPT
                        !.check[o] = [NoCheck EXCEPT !.status = "pending",
                                                     !.qty = Size[o],
                                                     !.deducted = TRUE,
                                                     !.table = Seat[o]]])

\* placePublicOrder: a request, no stock yet.
PlaceOnline(c, o) ==
    LET s == snap[c]
    IN  /\ s # NoSnapshot
        /\ o \in Online
        /\ s.check[o].status = "absent"
        /\ Commit(c, [s EXCEPT !.check[o] = [NoCheck EXCEPT !.status = "pending",
                                                            !.qty = Size[o],
                                                            !.online = TRUE]])

\* The order as acceptance leaves it.
Accepted(s, o) ==
    IF s.check[o].deducted
    THEN SetStatus(s, o, "cooking")
    ELSE [SetStatus(Deduct(s, o, s.check[o].qty), o, "cooking")
            EXCEPT !.check[o].deducted = TRUE]

\* POST /online-orders/:id/accept
AcceptOnline(c, o) ==
    LET s == snap[c]
    IN  /\ s # NoSnapshot
        /\ s.check[o].online
        /\ s.check[o].status = "pending"
        /\ ~s.check[o].deducted => CanDeduct(s, o, s.check[o].qty)
        /\ Commit(c, Accepted(s, o))

\* POST /online-orders/:id/reject
RejectOnline(c, o) ==
    LET s == snap[c]
    IN  /\ s # NoSnapshot
        /\ s.check[o].online
        /\ s.check[o].status = "pending"
        /\ Commit(c, SetStatus(s, o, "cancelled"))

\* PATCH /orders/:id/status through the kitchen; who placed the order is not
\* looked at.
Advance(c, o) ==
    LET s == snap[c]
    IN  /\ s # NoSnapshot
        /\ \E step \in {<<"pending", "cooking">>, <<"cooking", "ready">>,
                        <<"ready", "completed">>} :
              /\ s.check[o].status = step[1]
              /\ Commit(c, SetStatus(s, o, step[2]))

\* applyPayment: what is due is paid.
Settle(c, o) ==
    LET s == snap[c]
    IN  /\ s # NoSnapshot
        /\ IsOpen(s, o)
        /\ Commit(c, SetStatus(s, o, "completed"))

\* A check ends as cancelled or refunded, and its stock goes back.
Close(c, o, status) ==
    LET s == snap[c]
    IN  /\ ToReverse(s, o) => CanReverse(s, o)
        /\ Commit(c, SetStatus(IF ToReverse(s, o) THEN Reverse(s, o) ELSE s,
                               o, status))

\* PATCH /orders/:id/status to cancelled
Cancel(c, o) ==
    /\ snap[c] # NoSnapshot
    /\ snap[c].check[o].status \in {"pending", "cooking"}
    /\ Close(c, o, "cancelled")

\* refundOrder of all that was paid, or the PATCH from completed to refunded
Refund(c, o) ==
    /\ snap[c] # NoSnapshot
    /\ snap[c].check[o].status = "completed"
    /\ Close(c, o, "refunded")

\* reopenOrder: back to the pass, if its table has no other open check
Reopen(c, o) ==
    LET s == snap[c]
    IN  /\ s # NoSnapshot
        /\ s.check[o].status = "completed"
        /\ TableFree(s, s.check[o].table)
        /\ Commit(c, SetStatus(s, o, "ready"))

\* splitOrder: n units move to a new check.  What was paid may settle the
\* parent, and what is left of it the child too.
Split(c, o, x) ==
    LET s == snap[c]
        open == s.check[o].status
    IN  /\ s # NoSnapshot
        /\ IsOpen(s, o)
        /\ s.check[x].status = "absent"
        /\ \E n \in 1..(s.check[o].qty - 1),
              settled \in {<<open, open>>, <<"completed", open>>,
                           <<"completed", "completed">>} :
              Commit(c, [s EXCEPT
                  !.check[o].qty = @ - n,
                  !.check[o].status = settled[1],
                  !.check[x] = [s.check[o] EXCEPT !.qty = n,
                                                  !.status = settled[2],
                                                  !.sources = SourcesOf(s, o),
                                                  !.online = FALSE,
                                                  !.reversed = FALSE]])

\* Mutant: the check that was merged away keeps its claim on the stock.
MergedUnreversed(s, o, d) ==
    [s EXCEPT !.check[d].qty = @ + s.check[o].qty,
              !.check[d].sources = SourcesOf(s, d) \cup SourcesOf(s, o),
              !.check[d].deducted = @ \/ s.check[o].deducted,
              !.check[o].status = "cancelled"]

\* mergeTableOrders: o's lines and sources go to d, and o is cancelled.
MergeInto(s, o, d) ==
    [s EXCEPT !.check[d].qty = @ + s.check[o].qty,
              !.check[d].sources = SourcesOf(s, d) \cup SourcesOf(s, o),
              !.check[d].deducted = @ \/ s.check[o].deducted,
              !.check[o].status = "cancelled",
              !.check[o].reversed = TRUE]

Merge(c, o, d) ==
    LET s == snap[c]
    IN  /\ s # NoSnapshot
        /\ IsOpen(s, o) /\ IsOpen(s, d)
        /\ s.check[o].table # NoTable /\ s.check[d].table # NoTable
        /\ s.check[o].table # s.check[d].table
        /\ Commit(c, MergeInto(s, o, d))

Request(c) ==
    \/ Begin(c)
    \/ End(c)
    \/ \E o \in Orders : PlaceAtTill(c, o)
    \/ \E o \in Orders : PlaceOnline(c, o)
    \/ \E o \in Orders : AcceptOnline(c, o)
    \/ \E o \in Orders : RejectOnline(c, o)
    \/ \E o \in Orders : Advance(c, o)
    \/ \E o \in Orders : Settle(c, o)
    \/ \E o \in Orders : Cancel(c, o)
    \/ \E o \in Orders : Refund(c, o)
    \/ \E o \in Orders : Reopen(c, o)
    \/ \E o, x \in Orders : Split(c, o, x)
    \/ \E o, d \in Orders : Merge(c, o, d)

Next == \E c \in Clients : Request(c)

Spec == Init /\ [][Next]_vars

-------------------------------------------------------------------------------
\* The documents and the snapshots have their shape; no lot and no aggregate
\* is below zero.
TypeOK ==
    /\ db \in Databases
    /\ snap \in [Clients -> Databases \cup {NoSnapshot}]

\* The lots add up to the aggregate, or the branch could no longer trade the
\* ingredient.
LotsMatchBalance == LotsCover(db)

\* What the ledger says was taken for orders, less what went back, is what the
\* checks stand for: nothing sold twice, nothing given back twice, however
\* checks were split, merged, paid, reopened, cancelled and refunded.
ChecksMatchLedger ==
    SumFunctionOnSet([o \in Orders |-> db.check[o].qty],
                     {o \in Orders : ToReverse(db, o)})
        = -TotalChange(db, {key \in Keys : /\ key[1] \in {"order", "reverse"}
                                           /\ db.rows[key] # NoMove})

\* A lot never holds more than was delivered into it: reversals put back into
\* each lot no more than was taken from it.
LotsNeverOverfilled ==
    \A l \in Batches : db.lots[<<Branch, l>>] <= db.rows[OpeningKey(l)].change

\* The three together: what is on the shelf, in the ledger and on the checks agrees.
StockAccounted == LotsMatchBalance /\ ChecksMatchLedger /\ LotsNeverOverfilled

\* Checks that share no merged check with others.
Unmerged(o) ==
    \A x \in Related(db, o) : Cardinality(SourcesOf(db, x)) = 1

\* Split checks can all be cancelled or refunded, in any order: each finds its
\* share of the allocation of the order it was split from.
SplitChecksReverse ==
    \A o \in Orders : ToReverse(db, o) /\ Unmerged(o) => CanReverse(db, o)

\* inventoryLedger.js:413: "Reverse the immutable allocation recorded for an
\* order, including split and merged checks."
EveryCheckReverses ==
    \A o \in Orders : ToReverse(db, o) => CanReverse(db, o)

\* README.md:399-404: only acceptance commits the ticket, and stock is deducted
\* on acceptance, so a branch cannot accept more orders than it can cook.
CookedHasStock ==
    \A o \in Orders :
        db.check[o].status \in {"cooking", "ready", "completed"}
            => db.check[o].deducted

-------------------------------------------------------------------------------
(* For the model checker: two lots, each order at a table of its own; stock  *)
(* enough for both orders, or for either but not both.                       *)

InTurn == [l \in Batches |-> l]

ForBothOrEither == {<<1, 3>>, <<1, 1>>}

TwoAtTheTill == [o \in Placed |-> IF o \in Online THEN 1 ELSE 2]

OwnTable == [o \in Placed |-> o]

ClientsAlike == Permutations(Clients)
===============================================================================
