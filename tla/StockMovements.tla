---------------------------- MODULE StockMovements ----------------------------
(***************************************************************************)
(* Goods in, goods out and transfers between branches: receipts of         *)
(* purchase orders (services/receiving.js), adjustments (inventory.js),    *)
(* waste (waste.js) and the life cycle of a StockTransfer (transfers.js).  *)
(*                                                                         *)
(* Every handler runs in a transaction of Transactions and may be sent     *)
(* again by a client that lost the answer.  A lot keeps its identity when  *)
(* it travels: the lots a transfer makes carry the batch number and expiry *)
(* of the ones it took from.                                               *)
(***************************************************************************)
EXTENDS StockStore, Transactions

CONSTANTS
    Supplies, Supply,      \* goods in: [branch, batch, qty]
    Removals, Removal,     \* goods out: [branch, from (the lots asked for), qty]
    Transfers, Transfer,   \* transfers: [from, to, qty]
    LastDay                \* bound: days that pass

ASSUME RequestAssumption ==
    /\ Supply \in [Supplies ->
            [branch : Branches, batch : Batches, qty : Nat \ {0}]]
    /\ Removal \in [Removals ->
            [branch : Branches, from : SUBSET Batches, qty : Nat \ {0}]]
    /\ Transfer \in [Transfers ->
            [from : Branches, to : Branches, qty : Nat \ {0}]]
    /\ \A t \in Transfers : Transfer[t].from # Transfer[t].to
ASSUME DayAssumption == LastDay \in Nat

VARIABLE today

vars == <<db, snap, today>>

\* Idempotency keys of the movements.
SupplyKey(k) == <<"supply", k>>
RemovalKey(k) == <<"removal", k>>
OutKey(t) == <<"transfer-out", t>>
InKey(t) == <<"transfer-in", t>>

Keys == {SupplyKey(k) : k \in Supplies} \cup {RemovalKey(k) : k \in Removals}
        \cup {OutKey(t) : t \in Transfers} \cup {InKey(t) : t \in Transfers}

Statuses == {"absent", "requested", "approved", "in_transit", "received",
             "cancelled"}

Databases ==
    [balance  : Balances,
     lots     : Lots,
     rows     : [Keys -> Moves \cup {NoMove}],
     transfer : [Transfers -> Statuses]]

EmptyDb ==
    [balance  |-> EmptyBalance,
     lots     |-> EmptyLots,
     rows     |-> [key \in Keys |-> NoMove],
     transfer |-> [t \in Transfers |-> "absent"]]

Init ==
    /\ db = EmptyDb
    /\ snap = [c \in Clients |-> NoSnapshot]
    /\ today = 0

-------------------------------------------------------------------------------
\* Mutant: goods on their way can still be called off.
RecallTransitions ==
    [s \in Statuses |-> CASE s = "requested" -> {"approved", "cancelled"}
                          [] s = "approved" -> {"in_transit", "cancelled"}
                          [] s = "in_transit" -> {"received", "cancelled"}
                          [] OTHER -> {}]

TransferTransitions ==
    [s \in Statuses |-> CASE s = "requested" -> {"approved", "cancelled"}
                          [] s = "approved" -> {"in_transit", "cancelled"}
                          [] s = "in_transit" -> {"received"}
                          [] OTHER -> {}]

CanTransition(s, t, status) == status \in TransferTransitions[s.transfer[t]]

SetStatus(s, t, status) == [s EXCEPT !.transfer[t] = status]

\* Mutant: the key is not looked up before the movement is posted.
EvenIfPosted(s, key) == TRUE

\* No row under the key: otherwise the handler answers with that row.
Fresh(s, key) == s.rows[key] = NoMove

\* A handler's transaction: it read s and leaves new.
Answer(c, new) == Commit(c, new) /\ UNCHANGED today

-------------------------------------------------------------------------------
\* A receipt line, or an adjustment upwards: stock into one lot.
BringIn(c, k) ==
    LET s == snap[c]
        r == Supply[k]
    IN  /\ s # NoSnapshot
        /\ Fresh(s, SupplyKey(k))
        /\ Covered(s, r.branch)
        /\ Answer(c, Post(s, SupplyKey(k), r.branch, r.qty,
                          OneLot(r.batch, r.qty)))

\* Waste, or an adjustment downwards: expired lots may be taken too.
TakeOut(c, k) ==
    LET s == snap[c]
        r == Removal[k]
    IN  /\ s # NoSnapshot
        /\ Fresh(s, RemovalKey(k))
        /\ CanTake(s, r.branch, r.from, r.qty)
        /\ Answer(c, Post(s, RemovalKey(k), r.branch, -r.qty,
                          Fefo(s, r.branch, r.from, r.qty)))

CreateTransfer(c, t) ==
    LET s == snap[c]
    IN  /\ s # NoSnapshot
        /\ s.transfer[t] = "absent"
        /\ Answer(c, SetStatus(s, t, "requested"))

\* approved or cancelled: no stock moves.
Decide(c, t) ==
    LET s == snap[c]
    IN  /\ s # NoSnapshot
        /\ \E status \in {"approved", "cancelled"} :
              /\ CanTransition(s, t, status)
              /\ Answer(c, SetStatus(s, t, status))

\* in_transit: the goods leave the source branch, first expired first.
Send(c, t) ==
    LET s == snap[c]
        r == Transfer[t]
        ls == Sellable(today)
    IN  /\ s # NoSnapshot
        /\ CanTransition(s, t, "in_transit")
        /\ Fresh(s, OutKey(t))
        /\ CanTake(s, r.from, ls, r.qty)
        /\ Answer(c, SetStatus(Post(s, OutKey(t), r.from, -r.qty,
                                    Fefo(s, r.from, ls, r.qty)),
                               t, "in_transit"))

\* received: the same lots arrive at the destination.
Receive(c, t) ==
    LET s == snap[c]
        r == Transfer[t]
        out == s.rows[OutKey(t)]
    IN  /\ s # NoSnapshot
        /\ CanTransition(s, t, "received")
        /\ out # NoMove
        /\ Fresh(s, InKey(t))
        /\ Covered(s, r.to)
        /\ Answer(c, SetStatus(Post(s, InKey(t), r.to, r.qty,
                                    [l \in Batches |-> -out.alloc[l]]),
                               t, "received"))

Midnight ==
    /\ today < LastDay
    /\ today' = today + 1
    /\ UNCHANGED <<db, snap>>

Request(c) ==
    \/ Begin(c) /\ UNCHANGED today
    \/ End(c) /\ UNCHANGED today
    \/ \E k \in Supplies : BringIn(c, k)
    \/ \E k \in Removals : TakeOut(c, k)
    \/ \E t \in Transfers : CreateTransfer(c, t)
    \/ \E t \in Transfers : Decide(c, t)
    \/ \E t \in Transfers : Send(c, t)
    \/ \E t \in Transfers : Receive(c, t)

Next == Midnight \/ \E c \in Clients : Request(c)

Spec == Init /\ [][Next]_vars

-------------------------------------------------------------------------------
\* The documents and the snapshots have their shape: in particular no
\* aggregate and no lot is ever below zero.
TypeOK ==
    /\ db \in Databases
    /\ snap \in [Clients -> Databases \cup {NoSnapshot}]
    /\ today \in 0..LastDay

\* The lots add up to the aggregate: otherwise ensureBatchCoverage refuses
\* every later movement of the ingredient and the branch cannot trade it.
LotsMatchBalance == LotsCover(db)

\* The immutable ledger accounts for every balance and lot, whatever was sent
\* twice or ran at the same time: no movement is lost, none counts twice.
LedgerExplains == Explained(db)

\* A transfer's status and its two ledger rows say the same: goods left the
\* source exactly when it is in transit or received, arrived exactly when it
\* is received, in the quantity asked for, and the lots that arrived are the
\* lots that left.
TransferMovesOnce ==
    \A t \in Transfers :
        LET out == db.rows[OutKey(t)]
            in == db.rows[InKey(t)]
        IN  /\ (db.transfer[t] \in {"in_transit", "received"}) <=> (out # NoMove)
            /\ (db.transfer[t] = "received") <=> (in # NoMove)
            /\ out # NoMove => /\ out.branch = Transfer[t].from
                               /\ out.change = -Transfer[t].qty
            /\ in # NoMove => /\ in.branch = Transfer[t].to
                              /\ in.change = Transfer[t].qty
                              /\ in.alloc = [l \in Batches |-> -out.alloc[l]]

\* The lots a movement out may take from.
Allowed(key) == IF key[1] = "removal" THEN Removal[key[2]].from
                                      ELSE Sellable(today)

\* Whatever else commits meanwhile, a movement out never takes from a lot
\* while one that expires earlier, and that it may use, is left with stock.
FefoKept ==
    [][\A key \in Keys :
        db.rows[key] = NoMove /\ db'.rows[key] # NoMove =>
            LET row == db'.rows[key]
            IN  \A k, l \in Allowed(key) :
                    k < l /\ row.alloc[l] < 0 => db'.lots[row.branch, k] = 0]_vars

\* The documents implement goods that are in one place at a time.
Places == INSTANCE StockPlaces WITH
    shelf   <- [b \in Branches |-> db.balance[b].qty],
    transit <- [t \in Transfers |->
                   IF db.transfer[t] = "in_transit" THEN Transfer[t].qty ELSE 0],
    From    <- [t \in Transfers |-> Transfer[t].from],
    To      <- [t \in Transfers |-> Transfer[t].to],
    Size    <- [t \in Transfers |-> Transfer[t].qty]

\* Every history of the documents is a history of goods that are on one shelf
\* or in one transfer, and travel whole.
PlacesSpec == Places!Spec
===============================================================================
