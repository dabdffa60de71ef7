------------------------------ MODULE StockStore ------------------------------
(***************************************************************************)
(* The stock of one ingredient in the documents that hold it, and the one  *)
(* way to change it (services/inventoryLedger.js, inventoryBatches.js).    *)
(*                                                                         *)
(* A store s has three collections: s.balance, the aggregate of each       *)
(* branch with its ledgerVersion; s.lots, the InventoryBatch documents;    *)
(* s.rows, the InventoryTransaction rows by idempotency key.  A handler    *)
(* loops over the ingredients it needs inside one transaction, so a single *)
(* ingredient stands for each of them.                                     *)
(***************************************************************************)
EXTENDS Integers, FiniteSets, Functions

CONSTANTS
    Branches,
    Batches,         \* lots, numbered in the order FEFO takes them
    Expiry,          \* the last day a lot may be sold
    ExpiredBlocked,  \* restaurant.expiryPolicy is 'block'
    NoMove           \* no ledger row under a key

ASSUME BatchAssumption ==
    /\ Batches \subseteq Nat
    /\ IsFiniteSet(Batches)
    /\ Expiry \in [Batches -> Nat]
    /\ \A k, l \in Batches : k < l => Expiry[k] <= Expiry[l]
ASSUME PolicyAssumption == ExpiredBlocked \in BOOLEAN

Allocations == [Batches -> Int]

\* A ledger row: changeQty, batchMovements, and its place in the ledger.
Moves == [branch : Branches, change : Int, alloc : Allocations, ver : Nat]

ASSUME NoMoveAssumption == NoMove \notin Moves

Balances == [Branches -> [qty : Nat, ver : Nat]]
Lots == [Branches \X Batches -> Nat]

EmptyBalance == [b \in Branches |-> [qty |-> 0, ver |-> 0]]
EmptyLots == [p \in Branches \X Batches |-> 0]

-------------------------------------------------------------------------------
\* What is asked of a lot, between nothing and all it has.
Clip(x, most) ==
    IF x \in 0..most THEN x ELSE IF x > most THEN most ELSE 0

\* The quantity in the lots ls of branch b.
InLots(s, b, ls) == SumFunctionOnSet([l \in Batches |-> s.lots[<<b, l>>]], ls)

\* The lots account for the aggregate; without this nothing may move.
Covered(s, b) == InLots(s, b, Batches) = s.balance[b].qty

\* The lots a sale or a transfer may take from on a day.
Sellable(day) ==
    IF ExpiredBlocked THEN {l \in Batches : Expiry[l] >= day} ELSE Batches

\* Mutant: the sort compares the wrong way round.
LastExpiryFirst(s, b, ls, n) ==
    [l \in Batches |->
        IF l \in ls
        THEN -Clip(n - InLots(s, b, {k \in ls : k > l}), s.lots[<<b, l>>])
        ELSE 0]

\* First expired, first out: each lot gives what the earlier ones could not.
Fefo(s, b, ls, n) ==
    [l \in Batches |->
        IF l \in ls
        THEN -Clip(n - InLots(s, b, {k \in ls : k < l}), s.lots[<<b, l>>])
        ELSE 0]

OneLot(l, n) == [k \in Batches |-> IF k = l THEN n ELSE 0]

\* Mutant: neither the aggregate nor the lots are checked.
TakeUnchecked(s, b, ls, n) == Covered(s, b)

CanTake(s, b, ls, n) ==
    /\ n <= s.balance[b].qty
    /\ Covered(s, b)
    /\ n <= InLots(s, b, ls)

\* The three documents of a movement.
Aggregated(s, b, n) ==
    [s EXCEPT !.balance = [s.balance EXCEPT ![b] =
        [qty |-> s.balance[b].qty + n, ver |-> s.balance[b].ver + 1]]]

Allocated(s, b, alloc) ==
    [s EXCEPT !.lots = [p \in Branches \X Batches |->
        IF p[1] = b THEN s.lots[p] + alloc[p[2]] ELSE s.lots[p]]]

Recorded(s, key, row) == [s EXCEPT !.rows = [s.rows EXCEPT ![key] = row]]

Row(s, b, n, alloc) ==
    [branch |-> b, change |-> n, alloc |-> alloc, ver |-> s.balance[b].ver + 1]

\* moveStock after its guards: the aggregate, the lots and the row together.
Post(s, key, b, n, alloc) ==
    Recorded(Allocated(Aggregated(s, b, n), b, alloc), key, Row(s, b, n, alloc))

-------------------------------------------------------------------------------
\* The keys under which a row of branch b stands.
Posted(s, b) ==
    {key \in DOMAIN s.rows : s.rows[key] # NoMove /\ s.rows[key].branch = b}

TotalChange(s, keys) ==
    SumFunctionOnSet([key \in keys |-> s.rows[key].change], keys)

LotChange(s, keys, l) ==
    SumFunctionOnSet([key \in keys |-> s.rows[key].alloc[l]], keys)

LotsCover(s) == \A b \in Branches : Covered(s, b)

\* The immutable rows account for the aggregate, for every lot and, one
\* ledgerVersion each, for all the movements there were.
Explained(s) ==
    \A b \in Branches :
        /\ s.balance[b].qty = TotalChange(s, Posted(s, b))
        /\ s.balance[b].ver = Cardinality(Posted(s, b))
        /\ \A l \in Batches : s.lots[<<b, l>>] = LotChange(s, Posted(s, b), l)
        /\ \A i, j \in Posted(s, b) : s.rows[i].ver = s.rows[j].ver => i = j
===============================================================================
