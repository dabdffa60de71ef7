--------------------------- MODULE OrderStockProofs ---------------------------
(***************************************************************************)
(* Proofs about OrderStock, for every set of orders, lots, tables and      *)
(* clients: what is on the shelf, in the ledger and on the checks agrees,  *)
(* reversals put back into each lot no more than was taken from it, and    *)
(* checks that were split but not merged can always be reversed.           *)
(*                                                                         *)
(* A commit that moves stock writes the branch's aggregate, so it read the *)
(* stock and the rows as they are; and a check that is reversed never      *)
(* changes again, so it read those as they are too.  Every handler so does *)
(* to the database what it would have done in one step, and what remains   *)
(* is an invariant of one database (Sound).                                *)
(***************************************************************************)
EXTENDS OrderStock, Sums

-------------------------------------------------------------------------------
(* What a row says, for each order.                                        *)

IsPosted(d, key) == d.rows[key] # NoMove

Changed(d, key) == IF IsPosted(d, key) THEN d.rows[key].change ELSE 0

ChangedLot(d, key, l) == IF IsPosted(d, key) THEN d.rows[key].alloc[l] ELSE 0

\* What was taken for an order, and what came back when its check was reversed.
Used(d) == [o \in Orders |-> -Changed(d, OrderKey(o))]

Back(d) == [o \in Orders |-> Changed(d, ReverseKey(o))]

UsedLot(d, l) == [o \in Orders |-> -ChangedLot(d, OrderKey(o), l)]

BackLot(d, l) == [o \in Orders |-> ChangedLot(d, ReverseKey(o), l)]

\* What a check stands for: the stock it still claims, or gave back.
Draws(d) == [o \in Orders |-> Back(d)[o] + IF ToReverse(d, o) THEN d.check[o].qty ELSE 0]

\* The checks that draw on one order alone, and those whose stock went back.
Solo(d, x) == {o \in Orders : SourcesOf(d, o) = {x}}

Reversed(d) == {o \in Orders : IsPosted(d, ReverseKey(o))}

SourcesOfAll(d, os) == UNION {SourcesOf(d, o) : o \in os}

-------------------------------------------------------------------------------
(* The invariant of a database.                                            *)

Ended == {"cancelled", "refunded"}

Consistent(check) ==
    /\ check.status = "absent" => check = NoCheck
    /\ check.status # "absent" => check.qty > 0
    /\ check.reversed => check.status \in Ended
    /\ check.table # NoTable => check.deducted
    /\ check.online => check.sources = {} /\ check.table = NoTable

ChecksConsistent(d) == \A o \in Orders : Consistent(d.check[o])

\* Stock was taken for what a check draws on; what was given back is marked so.
ChecksPosted(d) ==
    /\ \A o \in Orders : IsPosted(d, OrderKey(o)) =>
           o \in SourcesOf(d, o) /\ d.check[o].status # "absent"
    /\ \A o \in Orders : d.check[o].deducted =>
           \A x \in SourcesOf(d, o) : IsPosted(d, OrderKey(x))
    /\ \A o \in Orders : IsPosted(d, ReverseKey(o)) => d.check[o].reversed

\* Orders take, reversals give, and the lots of a row add up.
RowsAddUp(d) ==
    \A o \in Orders :
        /\ IsPosted(d, OrderKey(o)) =>
              /\ \A l \in Batches : d.rows[OrderKey(o)].alloc[l] <= 0
              /\ SumFunctionOnSet(d.rows[OrderKey(o)].alloc, Batches)
                    = d.rows[OrderKey(o)].change
        /\ IsPosted(d, ReverseKey(o)) =>
              /\ \A l \in Batches : d.rows[ReverseKey(o)].alloc[l] >= 0
              /\ SumFunctionOnSet(d.rows[ReverseKey(o)].alloc, Batches)
                    = d.rows[ReverseKey(o)].change

\* A lot holds what was delivered into it, less what is used, and what came back.
LotsExplained(d) ==
    \A l \in Batches :
        /\ IsPosted(d, OpeningKey(l))
        /\ d.lots[<<Branch, l>>] = d.rows[OpeningKey(l)].change
                                    - SumFunctionOnSet(UsedLot(d, l), Orders)
                                    + SumFunctionOnSet(BackLot(d, l), Orders)

\* The checks stand for what was taken.
ChecksStand(d) ==
    SumFunctionOnSet(Draws(d), Orders) = SumFunctionOnSet(Used(d), Orders)

\* Any number of reversed checks gave back, into each lot, at most what was
\* taken for the orders that they draw on between them.
BackIsCovered(d) ==
    \A l \in Batches : \A os \in SUBSET Reversed(d) :
        SumFunctionOnSet(BackLot(d, l), os)
            <= SumFunctionOnSet(UsedLot(d, l), SourcesOfAll(d, os))

\* The checks that draw on one order alone stand for at most what it took.
SharesFit(d) ==
    \A x \in Orders : SumFunctionOnSet(Draws(d), Solo(d, x)) <= Used(d)[x]

Sound(d) ==
    /\ ChecksConsistent(d) /\ ChecksPosted(d)
    /\ RowsAddUp(d) /\ LotsExplained(d) /\ LotsCover(d)
    /\ ChecksStand(d) /\ BackIsCovered(d) /\ SharesFit(d)

-------------------------------------------------------------------------------
(* Shapes.                                                                 *)

\* The keys of different rows differ.
LEMMA KeysDiffer ==
    /\ \A o \in Orders : OrderKey(o) \in Keys /\ ReverseKey(o) \in Keys
    /\ \A l \in Batches : OpeningKey(l) \in Keys
    /\ \A x, y : /\ OrderKey(x) # ReverseKey(y)
                 /\ OrderKey(x) # OpeningKey(y) /\ ReverseKey(x) # OpeningKey(y)
                 /\ OrderKey(x) = OrderKey(y) => x = y
                 /\ ReverseKey(x) = ReverseKey(y) => x = y
BY DEF Keys, OpeningKey, OrderKey, ReverseKey

\* A row that is posted has the shape of one.
LEMMA RowShape ==
    ASSUME NEW d \in Databases, NEW key \in Keys
    PROVE  /\ IsPosted(d, key) => /\ d.rows[key] \in Moves
                                  /\ d.rows[key].change \in Int
                                  /\ \A l \in Batches : d.rows[key].alloc[l] \in Int
           /\ Changed(d, key) \in Int
           /\ \A l \in Batches : ChangedLot(d, key, l) \in Int
<1>1. IsPosted(d, key) => d.rows[key] \in Moves
  BY DEF IsPosted, Databases
<1> QED
  BY <1>1 DEF Moves, Allocations, Changed, ChangedLot

\* A check's fields have their types.
LEMMA CheckShape ==
    ASSUME NEW d \in Databases, NEW o \in Orders
    PROVE  /\ d.check[o] \in Checks
           /\ d.check[o].qty \in Nat /\ d.check[o].sources \in SUBSET Orders
           /\ d.check[o].deducted \in BOOLEAN /\ d.check[o].reversed \in BOOLEAN
           /\ SourcesOf(d, o) \in SUBSET Orders
BY DEF Databases, Checks, SourcesOf

\* The functions of the invariant are functions to the integers.
LEMMA FunctionShapes ==
    ASSUME NEW d \in Databases, NEW o \in Orders
    PROVE  /\ Used(d)[o] = -Changed(d, OrderKey(o)) /\ Used(d)[o] \in Int
           /\ Back(d)[o] = Changed(d, ReverseKey(o)) /\ Back(d)[o] \in Int
           /\ Draws(d)[o] = Back(d)[o] + (IF ToReverse(d, o) THEN d.check[o].qty ELSE 0)
           /\ Draws(d)[o] \in Int
           /\ \A l \in Batches :
                 /\ UsedLot(d, l)[o] = -ChangedLot(d, OrderKey(o), l) /\ UsedLot(d, l)[o] \in Int
                 /\ BackLot(d, l)[o] = ChangedLot(d, ReverseKey(o), l) /\ BackLot(d, l)[o] \in Int
<1>1. OrderKey(o) \in Keys /\ ReverseKey(o) \in Keys
  BY KeysDiffer
<1>2. /\ Changed(d, OrderKey(o)) \in Int /\ Changed(d, ReverseKey(o)) \in Int
      /\ \A l \in Batches : /\ ChangedLot(d, OrderKey(o), l) \in Int
                            /\ ChangedLot(d, ReverseKey(o), l) \in Int
  BY <1>1, RowShape
<1>3. d.check[o].qty \in Nat
  BY CheckShape
<1> QED
  BY <1>2, <1>3 DEF Used, Back, UsedLot, BackLot, Draws

\* No order takes less than nothing, and no reversal gives less.
LEMMA NothingNegative ==
    ASSUME NEW d \in Databases, RowsAddUp(d), NEW o \in Orders
    PROVE  /\ Used(d)[o] \in Nat /\ Back(d)[o] \in Nat /\ Draws(d)[o] \in Nat
           /\ \A l \in Batches : UsedLot(d, l)[o] \in Nat /\ BackLot(d, l)[o] \in Nat
<1>1. OrderKey(o) \in Keys /\ ReverseKey(o) \in Keys
  BY KeysDiffer
<1>2. \A l \in Batches : UsedLot(d, l)[o] \in Nat /\ BackLot(d, l)[o] \in Nat
  BY <1>1, RowShape, FunctionShapes DEF RowsAddUp, ChangedLot
<1>3. IsFiniteSet(Batches)
  BY BatchAssumption
<1>4. Back(d)[o] \in Nat
  <2>1. CASE IsPosted(d, ReverseKey(o))
    <3> DEFINE alloc == d.rows[ReverseKey(o)].alloc
    <3>1. \A l \in Batches : alloc[l] \in Nat
      BY <1>1, <2>1, RowShape DEF RowsAddUp
    <3>2. SumFunctionOnSet(alloc, Batches) = Back(d)[o]
      BY <2>1, FunctionShapes DEF RowsAddUp, Changed
    <3> HIDE DEF alloc
    <3> QED
      BY <1>3, <3>1, <3>2, SumGrows
  <2> QED
    BY <2>1, FunctionShapes DEF Changed
<1>5. Used(d)[o] \in Nat
  <2>1. CASE IsPosted(d, OrderKey(o))
    <3> DEFINE alloc == d.rows[OrderKey(o)].alloc
               taken == [l \in Batches |-> -alloc[l]]
    <3>1. \A l \in Batches : alloc[l] \in Int /\ taken[l] \in Nat /\ taken[l] = -alloc[l]
      BY <1>1, <2>1, RowShape DEF RowsAddUp
    <3>2. SumFunctionOnSet(alloc, Batches) = -Used(d)[o]
      BY <2>1, FunctionShapes, RowShape, <1>1 DEF RowsAddUp, Changed
    <3> HIDE DEF alloc, taken
    <3>3. SumFunctionOnSet(taken, Batches) = -SumFunctionOnSet(alloc, Batches)
      BY <1>3, <3>1, SumNegative
    <3>4. SumFunctionOnSet(taken, Batches) \in Nat
      BY <1>3, <3>1, SumGrows
    <3> QED
      BY <3>2, <3>3, <3>4, FunctionShapes
  <2> QED
    BY <2>1, FunctionShapes DEF Changed
<1>6. Draws(d)[o] \in Nat
  BY <1>4, FunctionShapes, CheckShape
<1> QED
  BY <1>2, <1>4, <1>5, <1>6
-------------------------------------------------------------------------------
(* What a handler does to the documents.                                   *)

\* The stock of the branch before and after one movement.
StockMoved(d, e, key, n, alloc) ==
    /\ e.balance[Branch].qty = d.balance[Branch].qty + n
    /\ e.balance[Branch].ver = d.balance[Branch].ver + 1
    /\ \A b \in Branches \ {Branch} : e.balance[b] = d.balance[b]
    /\ \A l \in Batches : e.lots[<<Branch, l>>] = d.lots[<<Branch, l>>] + alloc[l]
    /\ \A b \in Branches \ {Branch}, l \in Batches : e.lots[<<b, l>>] = d.lots[<<b, l>>]
    /\ e.rows[key] \in Moves /\ e.rows[key].change = n /\ e.rows[key].alloc = alloc
    /\ \A k \in Keys \ {key} : e.rows[k] = d.rows[k]

SameStock(d, e) == e.balance = d.balance /\ e.lots = d.lots /\ e.rows = d.rows

OthersSame(d, e, os) == \A x \in Orders \ os : e.check[x] = d.check[x]

\* The three documents of a movement, and the checks as they were.
LEMMA PostEffect ==
    ASSUME NEW s \in Databases, NEW key \in Keys, NEW n \in Int, NEW alloc \in Allocations,
           s.balance[Branch].qty + n \in Nat,
           \A l \in Batches : s.lots[<<Branch, l>>] + alloc[l] \in Nat
    PROVE  /\ Post(s, key, Branch, n, alloc) \in Databases
           /\ Post(s, key, Branch, n, alloc).check = s.check
           /\ StockMoved(s, Post(s, key, Branch, n, alloc), key, n, alloc)
<1> DEFINE row == Row(s, Branch, n, alloc)
           bal == [qty |-> s.balance[Branch].qty + n, ver |-> s.balance[Branch].ver + 1]
           lot == [p \in Branches \X Batches |->
                     IF p[1] = Branch THEN s.lots[p] + alloc[p[2]] ELSE s.lots[p]]
           new == [balance |-> [s.balance EXCEPT ![Branch] = bal], lots |-> lot,
                   rows |-> [s.rows EXCEPT ![key] = row], check |-> s.check]
<1>0. Branch \in Branches
  BY OrderAssumption
<1>1. s = [balance |-> s.balance, lots |-> s.lots, rows |-> s.rows, check |-> s.check]
  BY DEF Databases
<1>2. Aggregated(s, Branch, n) = [balance |-> [s.balance EXCEPT ![Branch] = bal],
          lots |-> s.lots, rows |-> s.rows, check |-> s.check]
  BY <1>1 DEF Aggregated
<1>3. bal \in [qty : Nat, ver : Nat]
  BY <1>0 DEF Databases, Balances
<1>4. row \in Moves
  BY <1>0 DEF Row, Moves, Databases, Balances
<1>5. lot \in Lots
  BY DEF Lots, Databases, Allocations
<1>6. /\ \A l \in Batches : lot[<<Branch, l>>] = s.lots[<<Branch, l>>] + alloc[l]
      /\ \A b \in Branches \ {Branch}, l \in Batches : lot[<<b, l>>] = s.lots[<<b, l>>]
  BY <1>0
<1> DEFINE s1 == [balance |-> [s.balance EXCEPT ![Branch] = bal],
                  lots |-> s.lots, rows |-> s.rows, check |-> s.check]
           s2 == [balance |-> [s.balance EXCEPT ![Branch] = bal],
                  lots |-> lot, rows |-> s.rows, check |-> s.check]
<1>11. Allocated(s1, Branch, alloc) = s2
  BY DEF Allocated
<1> HIDE DEF bal, lot, row
<1>12. Recorded(s2, key, row) = new
  BY DEF Recorded
<1>7. Post(s, key, Branch, n, alloc) = new
  BY <1>2, <1>11, <1>12 DEF Post, row
<1>8. new \in Databases
  BY <1>3, <1>4, <1>5 DEF Databases, Balances
<1>9. /\ new.rows[key] = row /\ new.balance[Branch] = bal /\ new.lots = lot
      /\ \A k \in Keys \ {key} : new.rows[k] = s.rows[k]
      /\ \A b \in Branches \ {Branch} : new.balance[b] = s.balance[b]
      /\ new.check = s.check
  BY <1>0 DEF Databases, Balances
<1>10. /\ row.change = n /\ row.alloc = alloc
       /\ bal.qty = s.balance[Branch].qty + n /\ bal.ver = s.balance[Branch].ver + 1
  BY DEF Row, row, bal
<1> HIDE DEF new
<1> QED
  BY <1>4, <1>6, <1>7, <1>8, <1>9, <1>10 DEF StockMoved

\* A document after a commit: the transaction's, if it wrote it, and then
\* nobody had changed it since the snapshot; otherwise what it was.
Kept(old, new, cur, next) ==
    IF new = old THEN next = cur ELSE next = new /\ cur = old

\* What a commit does to the documents, and to the snapshots.
LEMMA CommitEffect ==
    ASSUME TypeOK, NEW c \in Clients, snap[c] \in Databases,
           NEW new \in Databases, Commit(c, new)
    PROVE  /\ db' \in Databases
           /\ \A b \in Branches :
                 Kept(snap[c].balance[b], new.balance[b], db.balance[b], db'.balance[b])
           /\ \A key \in Keys :
                 Kept(snap[c].rows[key], new.rows[key], db.rows[key], db'.rows[key])
           /\ \A o \in Orders :
                 Kept(snap[c].check[o], new.check[o], db.check[o], db'.check[o])
           /\ \A p \in Branches \X Batches :
                 Kept(snap[c].lots[p], new.lots[p], db.lots[p], db'.lots[p])
           /\ snap' = [snap EXCEPT ![c] = NoSnapshot]
<1> DEFINE s == snap[c]
<1>1. db \in Databases /\ s \in Databases
  BY DEF TypeOK
<1>2. DOMAIN db = {"balance", "lots", "rows", "check"}
  BY <1>1 DEF Databases
<1>3. db' = [coll \in DOMAIN db |-> Merged(s[coll], new[coll], db[coll])]
  BY DEF Commit
<1>4. \A coll \in DOMAIN db : \A doc \in DOMAIN db[coll] :
        db[coll][doc] # s[coll][doc] => new[coll][doc] = s[coll][doc]
  BY DEF Commit, NoConflict, Unwritten
<1> HIDE DEF s
<1>5. db' = [balance |-> Merged(s.balance, new.balance, db.balance),
             lots |-> Merged(s.lots, new.lots, db.lots),
             rows |-> Merged(s.rows, new.rows, db.rows),
             check |-> Merged(s.check, new.check, db.check)]
  BY <1>2, <1>3
<1>6. /\ \A b \in Branches : db.balance[b] # s.balance[b]
                                => new.balance[b] = s.balance[b]
      /\ \A key \in Keys : db.rows[key] # s.rows[key]
                                => new.rows[key] = s.rows[key]
      /\ \A o \in Orders : db.check[o] # s.check[o]
                                => new.check[o] = s.check[o]
      /\ \A p \in Branches \X Batches : db.lots[p] # s.lots[p]
                                => new.lots[p] = s.lots[p]
  BY <1>1, <1>2, <1>4 DEF Databases, Balances, Lots
<1>7. Merged(s.balance, new.balance, db.balance) \in Balances
  BY <1>1 DEF Merged, Databases, Balances
<1>8. Merged(s.lots, new.lots, db.lots) \in Lots
  BY <1>1 DEF Merged, Databases, Lots
<1>9. Merged(s.rows, new.rows, db.rows) \in [Keys -> Moves \cup {NoMove}]
  BY <1>1 DEF Merged, Databases
<1>10. Merged(s.check, new.check, db.check) \in [Orders -> Checks]
  BY <1>1 DEF Merged, Databases
<1>11. db' \in Databases
  BY <1>5, <1>7, <1>8, <1>9, <1>10 DEF Databases
<1>12. \A b \in Branches :
         Kept(s.balance[b], new.balance[b], db.balance[b], db'.balance[b])
  BY <1>1, <1>5, <1>6 DEF Merged, Unwritten, Kept, Databases, Balances
<1>13. \A key \in Keys :
         Kept(s.rows[key], new.rows[key], db.rows[key], db'.rows[key])
  BY <1>1, <1>5, <1>6 DEF Merged, Unwritten, Kept, Databases
<1>14. \A o \in Orders :
         Kept(s.check[o], new.check[o], db.check[o], db'.check[o])
  BY <1>1, <1>5, <1>6 DEF Merged, Unwritten, Kept, Databases
<1>15. \A p \in Branches \X Batches :
         Kept(s.lots[p], new.lots[p], db.lots[p], db'.lots[p])
  BY <1>1, <1>5, <1>6 DEF Merged, Unwritten, Kept, Databases, Lots
<1> QED
  BY <1>11, <1>12, <1>13, <1>14, <1>15 DEF Commit, s

\* A snapshot against the database: it is older, it shows the stock as it is if no
\* movement came since, and a check that was reversed by then is as it was.
Behind(s, d) ==
    /\ s.balance[Branch].ver <= d.balance[Branch].ver
    /\ s.balance[Branch].ver = d.balance[Branch].ver => SameStock(s, d)
    /\ \A x \in Orders : s.check[x].reversed => d.check[x] = s.check[x]

\* A movement that commits does to the database what it did to its snapshot.
LEMMA StockCommitted ==
    ASSUME TypeOK, NEW c \in Clients, snap[c] \in Databases, Behind(snap[c], db),
           NEW new \in Databases, Commit(c, new),
           NEW key \in Keys, NEW n, NEW alloc, StockMoved(snap[c], new, key, n, alloc),
           NEW o \in Orders, OthersSame(snap[c], new, {o}), new.check[o] # snap[c].check[o]
    PROVE  /\ db' \in Databases
           /\ SameStock(snap[c], db)
           /\ StockMoved(db, db', key, n, alloc)
           /\ OthersSame(db, db', {o})
           /\ db.check[o] = snap[c].check[o] /\ db'.check[o] = new.check[o]
<1> DEFINE s == snap[c]
<1>1. /\ db' \in Databases
      /\ \A b \in Branches : Kept(s.balance[b], new.balance[b], db.balance[b], db'.balance[b])
      /\ \A k \in Keys : Kept(s.rows[k], new.rows[k], db.rows[k], db'.rows[k])
      /\ \A x \in Orders : Kept(s.check[x], new.check[x], db.check[x], db'.check[x])
      /\ \A p \in Branches \X Batches : Kept(s.lots[p], new.lots[p], db.lots[p], db'.lots[p])
  BY CommitEffect
<1>2. Branch \in Branches /\ db \in Databases /\ s \in Databases
  BY OrderAssumption DEF TypeOK
<1>3. SameStock(s, db)
  <2>1. new.balance[Branch] # s.balance[Branch]
    BY <1>2 DEF StockMoved, Databases, Balances
  <2>2. db.balance[Branch] = s.balance[Branch]
    BY <1>1, <1>2, <2>1 DEF Kept
  <2> QED
    BY <2>2 DEF Behind
<1>4. /\ \A b \in Branches : db'.balance[b] = new.balance[b]
      /\ \A k \in Keys : db'.rows[k] = new.rows[k]
      /\ \A p \in Branches \X Batches : db'.lots[p] = new.lots[p]
  BY <1>1, <1>3 DEF Kept, SameStock
<1>5. /\ db.check[o] = s.check[o] /\ db'.check[o] = new.check[o]
      /\ \A x \in Orders \ {o} : db'.check[x] = db.check[x]
  BY <1>1 DEF Kept, OthersSame
<1>6. StockMoved(s, db', key, n, alloc)
  <2>1. \A b \in Branches, l \in Batches : db'.lots[<<b, l>>] = new.lots[<<b, l>>]
    BY <1>4
  <2> QED
    BY <1>2, <1>4, <2>1 DEF StockMoved
<1>7. StockMoved(db, db', key, n, alloc)
  BY <1>3, <1>6 DEF StockMoved, SameStock
<1> QED
  BY <1>1, <1>3, <1>5, <1>7 DEF OthersSame

\* A commit that moves no stock leaves the stock alone, and writes the checks it
\* changed as it read them.
LEMMA PaperCommitted ==
    ASSUME TypeOK, NEW c \in Clients, snap[c] \in Databases,
           NEW new \in Databases, Commit(c, new), SameStock(snap[c], new),
           NEW os \in SUBSET Orders, OthersSame(snap[c], new, os),
           \A x \in os : new.check[x] # snap[c].check[x]
    PROVE  /\ db' \in Databases
           /\ SameStock(db, db')
           /\ OthersSame(db, db', os)
           /\ \A x \in os : db.check[x] = snap[c].check[x] /\ db'.check[x] = new.check[x]
<1> DEFINE s == snap[c]
<1>1. /\ db' \in Databases
      /\ \A b \in Branches : Kept(s.balance[b], new.balance[b], db.balance[b], db'.balance[b])
      /\ \A k \in Keys : Kept(s.rows[k], new.rows[k], db.rows[k], db'.rows[k])
      /\ \A x \in Orders : Kept(s.check[x], new.check[x], db.check[x], db'.check[x])
      /\ \A p \in Branches \X Batches : Kept(s.lots[p], new.lots[p], db.lots[p], db'.lots[p])
  BY CommitEffect
<1>2. db \in Databases /\ s \in Databases
  BY DEF TypeOK
<1>3. /\ \A b \in Branches : db'.balance[b] = db.balance[b]
      /\ \A k \in Keys : db'.rows[k] = db.rows[k]
      /\ \A p \in Branches \X Batches : db'.lots[p] = db.lots[p]
  BY <1>1 DEF Kept, SameStock
<1>4. SameStock(db, db')
  BY <1>1, <1>2, <1>3 DEF SameStock, Databases, Balances, Lots
<1>5. /\ \A x \in os : db.check[x] = s.check[x] /\ db'.check[x] = new.check[x]
      /\ \A x \in Orders \ os : db'.check[x] = db.check[x]
  BY <1>1 DEF Kept, OthersSame
<1> QED
  BY <1>1, <1>4, <1>5 DEF OthersSame

-------------------------------------------------------------------------------
(* What a movement leaves alone.                                           *)

\* There are finitely many orders and lots to sum over.
LEMMA Finite == IsFiniteSet(Orders) /\ IsFiniteSet(Batches) /\ Branch \in Branches
BY OrderAssumption, BatchAssumption

\* Every check draws on something.
LEMMA SourcesExist ==
    ASSUME NEW d, NEW o
    PROVE  SourcesOf(d, o) # {}
BY DEF SourcesOf

\* The rows under the other keys say what they said.
LEMMA OtherRows ==
    ASSUME NEW d, NEW e, NEW key, NEW n, NEW alloc, StockMoved(d, e, key, n, alloc),
           NEW k \in Keys, k # key
    PROVE  /\ e.rows[k] = d.rows[k] /\ IsPosted(e, k) = IsPosted(d, k)
           /\ Changed(e, k) = Changed(d, k)
           /\ \A l \in Batches : ChangedLot(e, k, l) = ChangedLot(d, k, l)
<1>1. e.rows[k] = d.rows[k]
  BY DEF StockMoved
<1> QED
  BY <1>1 DEF IsPosted, Changed, ChangedLot

\* The new row is there and says what was moved.
LEMMA NewRow ==
    ASSUME NEW d, NEW e, NEW key, NEW n, NEW alloc, StockMoved(d, e, key, n, alloc)
    PROVE  /\ e.rows[key].change = n /\ e.rows[key].alloc = alloc
           /\ IsPosted(e, key) /\ Changed(e, key) = n
           /\ \A l \in Batches : ChangedLot(e, key, l) = alloc[l]
<1>1. e.rows[key] # NoMove /\ e.rows[key].change = n /\ e.rows[key].alloc = alloc
  BY NoMoveAssumption DEF StockMoved
<1> QED
  BY <1>1 DEF IsPosted, Changed, ChangedLot

\* What the lots hold, as a function of the lot.
Held(s, b) == [l \in Batches |-> s.lots[<<b, l>>]]

\* A lot holds a natural number.
LEMMA HeldType ==
    ASSUME NEW s \in Databases, NEW b \in Branches
    PROVE  \A l \in Batches : Held(s, b)[l] = s.lots[<<b, l>>] /\ Held(s, b)[l] \in Nat
BY DEF Held, Databases, Lots

\* What a branch has in its lots is a sum over them.
LEMMA InLotsIsSum ==
    ASSUME NEW s, NEW b, NEW ls
    PROVE  InLots(s, b, ls) = SumFunctionOnSet(Held(s, b), ls)
BY DEF InLots, Held

\* A movement whose lots add up keeps the lots in step with the aggregate.
LEMMA CoverKept ==
    ASSUME NEW d \in Databases, NEW e \in Databases, NEW key, NEW n \in Int,
           NEW alloc \in Allocations, StockMoved(d, e, key, n, alloc),
           SumFunctionOnSet(alloc, Batches) = n, LotsCover(d)
    PROVE  LotsCover(e)
<1> SUFFICES ASSUME NEW b \in Branches PROVE Covered(e, b)
  BY DEF LotsCover
<1>1. SumFunctionOnSet(Held(d, b), Batches) = d.balance[b].qty
  BY InLotsIsSum DEF LotsCover, Covered
<1>2. IsFiniteSet(Batches)
  BY Finite
<1> SUFFICES SumFunctionOnSet(Held(e, b), Batches) = e.balance[b].qty
  BY InLotsIsSum DEF Covered
<1>3. CASE b # Branch
  <2>1. e.balance[b] = d.balance[b]
    BY <1>3 DEF StockMoved
  <2>2. ASSUME NEW l \in Batches PROVE Held(e, b)[l] = Held(d, b)[l]
    <3>1. e.lots[<<b, l>>] = d.lots[<<b, l>>]
      BY <1>3 DEF StockMoved
    <3> QED
      BY <3>1, HeldType
  <2>3. SumFunctionOnSet(Held(e, b), Batches) = SumFunctionOnSet(Held(d, b), Batches)
    BY <1>2, <2>2, SumEqual
  <2> QED
    BY <1>1, <2>1, <2>3
<1>4. CASE b = Branch
  <2>1. e.balance[b].qty = d.balance[b].qty + n
    BY <1>4 DEF StockMoved
  <2>2. ASSUME NEW l \in Batches
        PROVE  /\ Held(d, b)[l] \in Int /\ alloc[l] \in Int
               /\ Held(e, b)[l] = Held(d, b)[l] + alloc[l]
    <3>1. e.lots[<<b, l>>] = d.lots[<<b, l>>] + alloc[l]
      BY <1>4 DEF StockMoved
    <3>2. alloc[l] \in Int
      BY DEF Allocations
    <3> QED
      BY <3>1, <3>2, HeldType
  <2>3. SumFunctionOnSet(Held(e, b), Batches)
          = SumFunctionOnSet(Held(d, b), Batches) + SumFunctionOnSet(alloc, Batches)
    BY <1>2, <2>2, SumPlus
  <2> QED
    BY <1>1, <2>1, <2>3
<1> QED
  BY <1>3, <1>4

\* A check that is as it was draws on what it drew on.
LEMMA SameClaim ==
    ASSUME NEW d, NEW e, NEW o, e.check[o] = d.check[o]
    PROVE  SourcesOf(e, o) = SourcesOf(d, o) /\ (ToReverse(e, o) <=> ToReverse(d, o))
BY DEF SourcesOf, ToReverse

-------------------------------------------------------------------------------
(* Taking stock for an order.                                              *)

\* Stock was taken for o, lot by lot, and its check claims it.
TakenFor(d, e, o, n, alloc) ==
    /\ StockMoved(d, e, OrderKey(o), -n, alloc)
    /\ OthersSame(d, e, {o})
    /\ n \in Nat \ {0} /\ alloc \in Allocations
    /\ \A l \in Batches : alloc[l] <= 0
    /\ SumFunctionOnSet(alloc, Batches) = -n
    /\ ~IsPosted(d, OrderKey(o))
    /\ d.check[o].sources = {} /\ ~d.check[o].deducted /\ ~d.check[o].reversed
    /\ e.check[o].sources = {} /\ e.check[o].deducted /\ ~e.check[o].reversed
    /\ e.check[o].qty = n /\ e.check[o].status # "absent" /\ Consistent(e.check[o])

\* What it changes in the functions of the invariant.
LEMMA TakenValues ==
    ASSUME NEW d \in Databases, NEW e \in Databases, NEW o \in Orders, NEW n, NEW alloc,
           TakenFor(d, e, o, n, alloc), ChecksPosted(d), NEW x \in Orders
    PROVE  /\ SourcesOf(e, x) = SourcesOf(d, x)
           /\ IsPosted(e, OrderKey(x)) <=> (x = o \/ IsPosted(d, OrderKey(x)))
           /\ IsPosted(e, ReverseKey(x)) <=> IsPosted(d, ReverseKey(x))
           /\ e.rows[ReverseKey(x)] = d.rows[ReverseKey(x)]
           /\ x # o => e.rows[OrderKey(x)] = d.rows[OrderKey(x)]
           /\ Used(e)[x] = Used(d)[x] + (IF x = o THEN n ELSE 0)
           /\ Draws(e)[x] = Draws(d)[x] + (IF x = o THEN n ELSE 0)
           /\ \A l \in Batches :
                 /\ UsedLot(e, l)[x] = UsedLot(d, l)[x] - (IF x = o THEN alloc[l] ELSE 0)
                 /\ BackLot(e, l)[x] = BackLot(d, l)[x]
<1>0. /\ StockMoved(d, e, OrderKey(o), -n, alloc)
      /\ n \in Nat /\ \A l \in Batches : alloc[l] \in Int
  BY DEF TakenFor, Allocations
<1>1. OrderKey(x) \in Keys /\ ReverseKey(x) \in Keys /\ ReverseKey(x) # OrderKey(o)
      /\ (x # o => OrderKey(x) # OrderKey(o))
  BY KeysDiffer
<1>2. /\ e.rows[ReverseKey(x)] = d.rows[ReverseKey(x)]
      /\ IsPosted(e, ReverseKey(x)) = IsPosted(d, ReverseKey(x))
      /\ Changed(e, ReverseKey(x)) = Changed(d, ReverseKey(x))
      /\ \A l \in Batches : ChangedLot(e, ReverseKey(x), l) = ChangedLot(d, ReverseKey(x), l)
  BY <1>0, <1>1, OtherRows
<1>3. Back(e)[x] = Back(d)[x] /\ Back(d)[x] \in Int
      /\ \A l \in Batches : BackLot(e, l)[x] = BackLot(d, l)[x]
  BY <1>2, FunctionShapes
<1>4. CASE x # o
  <2>1. /\ e.rows[OrderKey(x)] = d.rows[OrderKey(x)]
        /\ IsPosted(e, OrderKey(x)) = IsPosted(d, OrderKey(x))
        /\ Changed(e, OrderKey(x)) = Changed(d, OrderKey(x))
        /\ \A l \in Batches : ChangedLot(e, OrderKey(x), l) = ChangedLot(d, OrderKey(x), l)
    BY <1>0, <1>1, <1>4, OtherRows
  <2>2. Used(e)[x] = Used(d)[x] /\ Used(d)[x] \in Int
        /\ \A l \in Batches : UsedLot(e, l)[x] = UsedLot(d, l)[x] /\ UsedLot(d, l)[x] \in Int
    BY <2>1, FunctionShapes
  <2>3. e.check[x] = d.check[x]
    BY <1>4 DEF TakenFor, OthersSame
  <2>4. Draws(e)[x] = Draws(d)[x] /\ Draws(d)[x] \in Int
    <3>1. ToReverse(e, x) <=> ToReverse(d, x)
      BY <2>3, SameClaim
    <3>2. Draws(e)[x] = Back(e)[x] + (IF ToReverse(e, x) THEN e.check[x].qty ELSE 0)
      BY FunctionShapes
    <3>3. /\ Draws(d)[x] = Back(d)[x] + (IF ToReverse(d, x) THEN d.check[x].qty ELSE 0)
          /\ Draws(d)[x] \in Int
      BY FunctionShapes
    <3> QED
      BY <1>3, <2>3, <3>1, <3>2, <3>3
  <2>5. SourcesOf(e, x) = SourcesOf(d, x)
    BY <2>3, SameClaim
  <2>6. \A l \in Batches : UsedLot(e, l)[x] = UsedLot(d, l)[x] - (IF x = o THEN alloc[l] ELSE 0)
    BY <1>4, <2>2
  <2>7. /\ Used(e)[x] = Used(d)[x] + (IF x = o THEN n ELSE 0)
        /\ Draws(e)[x] = Draws(d)[x] + (IF x = o THEN n ELSE 0)
    BY <1>4, <2>2, <2>4
  <2> QED
    BY <1>2, <1>3, <1>4, <2>1, <2>5, <2>6, <2>7
<1>5. CASE x = o
  <2>1. /\ IsPosted(e, OrderKey(o)) /\ Changed(e, OrderKey(o)) = -n
        /\ \A l \in Batches : ChangedLot(e, OrderKey(o), l) = alloc[l]
    BY <1>0, NewRow
  <2>2. /\ Changed(d, OrderKey(o)) = 0
        /\ \A l \in Batches : ChangedLot(d, OrderKey(o), l) = 0
    BY DEF TakenFor, Changed, ChangedLot
  <2>3. Used(e)[o] = n /\ Used(d)[o] = 0
        /\ \A l \in Batches : UsedLot(e, l)[o] = -alloc[l] /\ UsedLot(d, l)[o] = 0
    BY <1>0, <2>1, <2>2, FunctionShapes
  <2>4. SourcesOf(e, o) = SourcesOf(d, o)
    BY DEF TakenFor, SourcesOf
  <2>5. ~ToReverse(d, o) /\ ToReverse(e, o) /\ e.check[o].qty = n
    BY DEF TakenFor, ToReverse
  <2>6. Draws(e)[o] = Back(e)[o] + n /\ Draws(d)[o] = Back(d)[o] + 0
    BY <2>5, FunctionShapes
  <2>7. Draws(e)[o] = Draws(d)[o] + n
    BY <1>0, <1>3, <1>5, <2>6
  <2>8. ASSUME NEW l \in Batches
        PROVE  UsedLot(e, l)[x] = UsedLot(d, l)[x] - (IF x = o THEN alloc[l] ELSE 0)
    BY <1>0, <1>5, <2>3
  <2>9. /\ Used(e)[x] = Used(d)[x] + (IF x = o THEN n ELSE 0)
        /\ Draws(e)[x] = Draws(d)[x] + (IF x = o THEN n ELSE 0)
    BY <1>0, <1>5, <2>3, <2>7
  <2> QED
    BY <1>2, <1>3, <1>5, <2>1, <2>4, <2>8, <2>9
<1> QED
  BY <1>4, <1>5

\* Stock deducted for a check, with the check written, leaves the books sound.
LEMMA TakenSound ==
    ASSUME NEW d \in Databases, NEW e \in Databases, NEW o \in Orders, NEW n, NEW alloc,
           TakenFor(d, e, o, n, alloc), Sound(d)
    PROVE  Sound(e)
<1>0. ChecksPosted(d) /\ RowsAddUp(d) /\ ChecksConsistent(d)
  BY DEF Sound
<1>1. /\ IsFiniteSet(Orders) /\ IsFiniteSet(Batches) /\ Branch \in Branches
      /\ n \in Nat /\ n > 0 /\ alloc \in Allocations
      /\ StockMoved(d, e, OrderKey(o), -n, alloc)
      /\ \A l \in Batches : alloc[l] \in Int /\ alloc[l] <= 0
      /\ SumFunctionOnSet(alloc, Batches) = -n
      /\ ~IsPosted(d, OrderKey(o))
  BY Finite DEF TakenFor, Allocations
<1>2. \A x \in Orders \ {o} : e.check[x] = d.check[x]
  BY DEF TakenFor, OthersSame
<1>3. SourcesOf(d, o) = {o} /\ SourcesOf(e, o) = {o}
  BY DEF TakenFor, SourcesOf
<1>4. ChecksConsistent(e)
  BY <1>0, <1>2 DEF ChecksConsistent, TakenFor
<1>5. ChecksPosted(e)
  <2> SUFFICES ASSUME NEW x \in Orders
               PROVE  /\ IsPosted(e, OrderKey(x)) =>
                            x \in SourcesOf(e, x) /\ e.check[x].status # "absent"
                      /\ e.check[x].deducted =>
                            \A y \in SourcesOf(e, x) : IsPosted(e, OrderKey(y))
                      /\ IsPosted(e, ReverseKey(x)) => e.check[x].reversed
    BY DEF ChecksPosted
  <2>1. SourcesOf(d, x) \in SUBSET Orders
    BY CheckShape
  <2>2. \A y \in SourcesOf(d, x) : IsPosted(d, OrderKey(y)) => IsPosted(e, OrderKey(y))
    BY <1>0, <2>1, TakenValues
  <2>3. /\ SourcesOf(e, x) = SourcesOf(d, x)
        /\ IsPosted(e, OrderKey(x)) <=> (x = o \/ IsPosted(d, OrderKey(x)))
        /\ IsPosted(e, ReverseKey(x)) <=> IsPosted(d, ReverseKey(x))
    BY <1>0, TakenValues
  <2>4. CASE x = o
    <3>1. e.check[o].status # "absent" /\ ~d.check[o].reversed
      BY DEF TakenFor
    <3>2. ~IsPosted(d, ReverseKey(o))
      BY <1>0, <3>1 DEF ChecksPosted
    <3> QED
      BY <1>3, <2>3, <2>4, <3>1, <3>2
  <2>5. CASE x # o
    BY <1>0, <1>2, <2>2, <2>3, <2>5 DEF ChecksPosted
  <2> QED
    BY <2>4, <2>5
<1>6. RowsAddUp(e)
  <2> SUFFICES ASSUME NEW x \in Orders
               PROVE  /\ IsPosted(e, OrderKey(x)) =>
                            /\ \A l \in Batches : e.rows[OrderKey(x)].alloc[l] <= 0
                            /\ SumFunctionOnSet(e.rows[OrderKey(x)].alloc, Batches)
                                  = e.rows[OrderKey(x)].change
                      /\ IsPosted(e, ReverseKey(x)) =>
                            /\ \A l \in Batches : e.rows[ReverseKey(x)].alloc[l] >= 0
                            /\ SumFunctionOnSet(e.rows[ReverseKey(x)].alloc, Batches)
                                  = e.rows[ReverseKey(x)].change
    BY DEF RowsAddUp
  <2>1. /\ IsPosted(e, OrderKey(x)) <=> (x = o \/ IsPosted(d, OrderKey(x)))
        /\ IsPosted(e, ReverseKey(x)) <=> IsPosted(d, ReverseKey(x))
        /\ e.rows[ReverseKey(x)] = d.rows[ReverseKey(x)]
        /\ x # o => e.rows[OrderKey(x)] = d.rows[OrderKey(x)]
    BY <1>0, TakenValues
  <2>2. e.rows[OrderKey(o)].change = -n /\ e.rows[OrderKey(o)].alloc = alloc
    BY <1>1, NewRow
  <2>3. CASE x = o
    BY <1>0, <1>1, <2>1, <2>2, <2>3 DEF RowsAddUp
  <2>4. CASE x # o
    BY <1>0, <2>1, <2>4 DEF RowsAddUp
  <2> QED
    BY <2>3, <2>4
<1>7. LotsExplained(e)
  <2> SUFFICES ASSUME NEW l \in Batches
               PROVE  /\ IsPosted(e, OpeningKey(l))
                      /\ e.lots[<<Branch, l>>] = e.rows[OpeningKey(l)].change
                             - SumFunctionOnSet(UsedLot(e, l), Orders)
                             + SumFunctionOnSet(BackLot(e, l), Orders)
    BY DEF LotsExplained
  <2>1. e.lots[<<Branch, l>>] = d.lots[<<Branch, l>>] + alloc[l]
    BY <1>1 DEF StockMoved
  <2>2. /\ e.rows[OpeningKey(l)] = d.rows[OpeningKey(l)]
        /\ IsPosted(d, OpeningKey(l)) /\ IsPosted(e, OpeningKey(l))
    <3>1. OpeningKey(l) \in Keys /\ OpeningKey(l) # OrderKey(o)
      BY KeysDiffer
    <3>2. IsPosted(d, OpeningKey(l))
      BY DEF Sound, LotsExplained
    <3> QED
      BY <1>1, <3>1, <3>2, OtherRows
  <2>3. SumFunctionOnSet(BackLot(e, l), Orders) = SumFunctionOnSet(BackLot(d, l), Orders)
    <3>1. \A x \in Orders : BackLot(e, l)[x] = BackLot(d, l)[x]
      BY <1>0, TakenValues
    <3> QED
      BY <1>1, <3>1, SumEqual
  <2>4. SumFunctionOnSet(UsedLot(e, l), Orders)
          = SumFunctionOnSet(UsedLot(d, l), Orders) + UsedLot(e, l)[o] - UsedLot(d, l)[o]
    <3>1. SameOn(Orders \ {o}, UsedLot(d, l), UsedLot(e, l))
      <4>1. ASSUME NEW x \in Orders \ {o} PROVE UsedLot(d, l)[x] = UsedLot(e, l)[x]
        <5>1. UsedLot(e, l)[x] = UsedLot(d, l)[x] - (IF x = o THEN alloc[l] ELSE 0)
          BY <1>0, TakenValues
        <5>2. UsedLot(d, l)[x] \in Int
          BY FunctionShapes
        <5> QED
          BY <5>1, <5>2
      <4> QED
        BY <4>1 DEF SameOn
    <3>2. \A x \in Orders : UsedLot(d, l)[x] \in Int /\ UsedLot(e, l)[x] \in Int
      BY FunctionShapes
    <3> QED
      BY <1>1, <3>1, <3>2, SumUpdate
  <2>5. UsedLot(e, l)[o] = UsedLot(d, l)[o] - alloc[l] /\ UsedLot(d, l)[o] \in Int
    BY <1>0, TakenValues, FunctionShapes
  <2>6. d.lots[<<Branch, l>>] = d.rows[OpeningKey(l)].change
            - SumFunctionOnSet(UsedLot(d, l), Orders) + SumFunctionOnSet(BackLot(d, l), Orders)
    BY DEF Sound, LotsExplained
  <2>7. /\ SumFunctionOnSet(UsedLot(d, l), Orders) \in Int
        /\ SumFunctionOnSet(BackLot(d, l), Orders) \in Int
    <3>1. \A x \in Orders : UsedLot(d, l)[x] \in Int
      BY FunctionShapes
    <3>2. \A x \in Orders : BackLot(d, l)[x] \in Int
      BY FunctionShapes
    <3>3. SumFunctionOnSet(UsedLot(d, l), Orders) \in Int
      BY <1>1, <3>1, SumType
    <3>4. SumFunctionOnSet(BackLot(d, l), Orders) \in Int
      BY <1>1, <3>2, SumType
    <3> QED
      BY <3>3, <3>4
  <2>8. d.lots[<<Branch, l>>] \in Int /\ alloc[l] \in Int
    BY <1>1 DEF Databases, Lots
  <2> DEFINE opening == d.rows[OpeningKey(l)].change
             used == SumFunctionOnSet(UsedLot(d, l), Orders)
             back == SumFunctionOnSet(BackLot(d, l), Orders)
  <2> SUFFICES d.lots[<<Branch, l>>] + alloc[l] = opening - (used - alloc[l]) + back
    BY <2>1, <2>2, <2>3, <2>4, <2>5, <2>7, <2>8
  <2>9. opening \in Int
    BY <2>2, KeysDiffer, RowShape
  <2> QED
    BY <2>6, <2>7, <2>8, <2>9
<1>8. LotsCover(e)
  <2>1. -n \in Int /\ LotsCover(d)
    BY <1>1 DEF Sound
  <2> QED
    BY <1>1, <2>1, CoverKept
<1>12. /\ \A x \in Orders : Used(d)[x] \in Int /\ Used(e)[x] \in Int
       /\ \A x \in Orders : Draws(d)[x] \in Int /\ Draws(e)[x] \in Int
  BY FunctionShapes
<1>13. SameOn(Orders \ {o}, Used(d), Used(e)) /\ Used(e)[o] = Used(d)[o] + n
  <2>1. ASSUME NEW x \in Orders PROVE Used(e)[x] = Used(d)[x] + (IF x = o THEN n ELSE 0)
    BY <1>0, TakenValues
  <2>2. ASSUME NEW x \in Orders \ {o} PROVE Used(d)[x] = Used(e)[x]
    BY <1>12, <2>1
  <2> QED
    BY <2>1, <2>2 DEF SameOn
<1>14. SameOn(Orders \ {o}, Draws(d), Draws(e)) /\ Draws(e)[o] = Draws(d)[o] + n
  <2>1. ASSUME NEW x \in Orders PROVE Draws(e)[x] = Draws(d)[x] + (IF x = o THEN n ELSE 0)
    BY <1>0, TakenValues
  <2>2. ASSUME NEW x \in Orders \ {o} PROVE Draws(d)[x] = Draws(e)[x]
    BY <1>12, <2>1
  <2> QED
    BY <2>1, <2>2 DEF SameOn
<1>9. ChecksStand(e)
  <2>1. SumFunctionOnSet(Used(e), Orders) = SumFunctionOnSet(Used(d), Orders) + Used(e)[o] - Used(d)[o]
    BY <1>1, <1>12, <1>13, SumUpdate
  <2>2. SumFunctionOnSet(Draws(e), Orders) = SumFunctionOnSet(Draws(d), Orders) + Draws(e)[o] - Draws(d)[o]
    BY <1>1, <1>12, <1>14, SumUpdate
  <2>3. SumFunctionOnSet(Used(d), Orders) \in Int
    BY <1>1, <1>12, SumType
  <2>4. SumFunctionOnSet(Draws(d), Orders) = SumFunctionOnSet(Used(d), Orders)
    BY DEF Sound, ChecksStand
  <2>5. Used(d)[o] \in Int /\ Draws(d)[o] \in Int
    BY <1>12
  <2> QED
    BY <1>1, <1>13, <1>14, <2>1, <2>2, <2>3, <2>4, <2>5 DEF ChecksStand
<1>10. BackIsCovered(e)
  <2> SUFFICES ASSUME NEW l \in Batches, NEW os \in SUBSET Reversed(e)
               PROVE  SumFunctionOnSet(BackLot(e, l), os)
                        <= SumFunctionOnSet(UsedLot(e, l), SourcesOfAll(e, os))
    BY DEF BackIsCovered
  <2>1. os \subseteq Reversed(d) /\ os \subseteq Orders
    <3>1. ASSUME NEW x \in os PROVE x \in Orders /\ IsPosted(d, ReverseKey(x))
      <4>1. x \in Orders /\ IsPosted(e, ReverseKey(x))
        BY DEF Reversed
      <4> QED
        BY <1>0, <4>1, TakenValues
    <3> QED
      BY <3>1 DEF Reversed
  <2>2. SourcesOfAll(e, os) = SourcesOfAll(d, os) /\ SourcesOfAll(d, os) \in SUBSET Orders
    <3>1. \A x \in os : SourcesOf(e, x) = SourcesOf(d, x)
      BY <1>0, <2>1, TakenValues
    <3>2. \A x \in os : SourcesOf(d, x) \in SUBSET Orders
      BY <2>1, CheckShape
    <3> QED
      BY <3>1, <3>2 DEF SourcesOfAll
  <2> DEFINE all == SourcesOfAll(d, os)
  <2>3. IsFiniteSet(os) /\ IsFiniteSet(all)
    BY <1>1, <2>1, <2>2, FS_Subset
  <2>4. SumFunctionOnSet(BackLot(e, l), os) = SumFunctionOnSet(BackLot(d, l), os)
    <3>1. \A x \in os : BackLot(e, l)[x] = BackLot(d, l)[x]
      BY <1>0, <2>1, TakenValues
    <3> QED
      BY <2>3, <3>1, SumEqual
  <2>5. SumFunctionOnSet(UsedLot(d, l), all) <= SumFunctionOnSet(UsedLot(e, l), all)
    <3>1. ASSUME NEW x \in all
          PROVE  /\ UsedLot(d, l)[x] \in Int /\ UsedLot(e, l)[x] \in Int
                 /\ UsedLot(d, l)[x] <= UsedLot(e, l)[x]
      <4>1. x \in Orders
        BY <2>2
      <4>2. UsedLot(e, l)[x] = UsedLot(d, l)[x] - (IF x = o THEN alloc[l] ELSE 0)
        BY <1>0, <4>1, TakenValues
      <4>3. UsedLot(d, l)[x] \in Int /\ UsedLot(e, l)[x] \in Int
        BY <4>1, FunctionShapes
      <4>4. alloc[l] \in Int /\ alloc[l] <= 0
        BY <1>1
      <4> QED
        BY <4>2, <4>3, <4>4
    <3> HIDE DEF all
    <3> QED
      BY <2>3, <3>1, SumOrder
  <2>6. SumFunctionOnSet(BackLot(d, l), os) <= SumFunctionOnSet(UsedLot(d, l), all)
    BY <2>1 DEF Sound, BackIsCovered
  <2>7. /\ SumFunctionOnSet(BackLot(d, l), os) \in Int
        /\ SumFunctionOnSet(UsedLot(d, l), all) \in Int
        /\ SumFunctionOnSet(UsedLot(e, l), all) \in Int
    <3>1. \A x \in os : BackLot(d, l)[x] \in Int
      BY <2>1, FunctionShapes
    <3>2. \A x \in all : UsedLot(d, l)[x] \in Int
      BY <2>2, FunctionShapes
    <3>3. \A x \in all : UsedLot(e, l)[x] \in Int
      BY <2>2, FunctionShapes
    <3> HIDE DEF all
    <3>4. SumFunctionOnSet(BackLot(d, l), os) \in Int
      BY <2>3, <3>1, SumType
    <3>5. SumFunctionOnSet(UsedLot(d, l), all) \in Int
      BY <2>3, <3>2, SumType
    <3>6. SumFunctionOnSet(UsedLot(e, l), all) \in Int
      BY <2>3, <3>3, SumType
    <3> QED
      BY <3>4, <3>5, <3>6
  <2> QED
    BY <2>2, <2>4, <2>5, <2>6, <2>7
<1>11. SharesFit(e)
  <2> SUFFICES ASSUME NEW x \in Orders
               PROVE  SumFunctionOnSet(Draws(e), Solo(e, x)) <= Used(e)[x]
    BY DEF SharesFit
  <2>1. Solo(e, x) = Solo(d, x) /\ Solo(d, x) \in SUBSET Orders
    <3>1. \A y \in Orders : SourcesOf(e, y) = SourcesOf(d, y)
      BY <1>0, TakenValues
    <3> QED
      BY <3>1 DEF Solo
  <2>2. IsFiniteSet(Solo(d, x))
    BY <1>1, <2>1, FS_Subset
  <2>3. SumFunctionOnSet(Draws(d), Solo(d, x)) <= Used(d)[x]
    BY DEF Sound, SharesFit
  <2>4. SumFunctionOnSet(Draws(d), Solo(d, x)) \in Int
    BY <1>12, <2>1, <2>2, SumType
  <2>5. CASE x = o
    <3>1. o \in Solo(d, x)
      BY <1>3, <2>5 DEF Solo
    <3>2. SameOn(Solo(d, x) \ {o}, Draws(d), Draws(e))
      BY <1>14, <2>1 DEF SameOn
    <3>3. SumFunctionOnSet(Draws(e), Solo(d, x))
            = SumFunctionOnSet(Draws(d), Solo(d, x)) + Draws(e)[o] - Draws(d)[o]
      BY <1>12, <2>1, <2>2, <3>1, <3>2, SumUpdate
    <3>4. Used(d)[o] \in Int /\ Draws(d)[o] \in Int
      BY <1>12
    <3> QED
      BY <1>1, <1>13, <1>14, <2>1, <2>3, <2>4, <2>5, <3>3, <3>4
  <2>6. CASE x # o
    <3>1. \A y \in Solo(d, x) : Draws(e)[y] = Draws(d)[y]
      <4>1. o \notin Solo(d, x)
        BY <1>3, <2>6 DEF Solo
      <4> QED
        BY <1>14, <2>1, <4>1 DEF SameOn
    <3>2. SumFunctionOnSet(Draws(e), Solo(d, x)) = SumFunctionOnSet(Draws(d), Solo(d, x))
      BY <2>2, <3>1, SumEqual
    <3>3. Used(e)[x] = Used(d)[x]
      BY <1>13, <2>6 DEF SameOn
    <3> QED
      BY <2>1, <2>3, <3>2, <3>3
  <2> QED
    BY <2>5, <2>6
<1> QED
  BY <1>4, <1>5, <1>6, <1>7, <1>8, <1>9, <1>10, <1>11 DEF Sound

-------------------------------------------------------------------------------
(* Putting the stock of a check back.                                      *)

\* The stock of o went back, into each lot no more than is left of what was taken
\* for the orders it draws on, and the check is marked.
GivenBack(d, e, o, n, alloc) ==
    /\ StockMoved(d, e, ReverseKey(o), n, alloc)
    /\ OthersSame(d, e, {o})
    /\ n \in Nat /\ n = d.check[o].qty /\ alloc \in Allocations
    /\ \A l \in Batches :
          /\ alloc[l] >= 0
          /\ alloc[l] # 0 =>
                alloc[l] + SumFunctionOnSet(BackLot(d, l), Related(d, o))
                    <= SumFunctionOnSet(UsedLot(d, l), SourcesOf(d, o))
    /\ SumFunctionOnSet(alloc, Batches) = n
    /\ ToReverse(d, o)
    /\ e.check[o].sources = d.check[o].sources /\ e.check[o].deducted /\ e.check[o].reversed
    /\ e.check[o].status # "absent" /\ Consistent(e.check[o])

\* What it changes in the functions of the invariant.
LEMMA GivenValues ==
    ASSUME NEW d \in Databases, NEW e \in Databases, NEW o \in Orders, NEW n, NEW alloc,
           GivenBack(d, e, o, n, alloc), ChecksPosted(d), NEW x \in Orders
    PROVE  /\ SourcesOf(e, x) = SourcesOf(d, x)
           /\ IsPosted(e, OrderKey(x)) <=> IsPosted(d, OrderKey(x))
           /\ IsPosted(e, ReverseKey(x)) <=> (x = o \/ IsPosted(d, ReverseKey(x)))
           /\ e.rows[OrderKey(x)] = d.rows[OrderKey(x)]
           /\ x # o => e.rows[ReverseKey(x)] = d.rows[ReverseKey(x)]
           /\ Used(e)[x] = Used(d)[x]
           /\ Draws(e)[x] = Draws(d)[x]
           /\ \A l \in Batches :
                 /\ UsedLot(e, l)[x] = UsedLot(d, l)[x]
                 /\ BackLot(e, l)[x] = BackLot(d, l)[x] + (IF x = o THEN alloc[l] ELSE 0)
<1>0. /\ StockMoved(d, e, ReverseKey(o), n, alloc)
      /\ n \in Nat /\ \A l \in Batches : alloc[l] \in Int
  BY DEF GivenBack, Allocations
<1>1. OrderKey(x) \in Keys /\ ReverseKey(x) \in Keys /\ OrderKey(x) # ReverseKey(o)
      /\ (x # o => ReverseKey(x) # ReverseKey(o))
  BY KeysDiffer
<1>2. /\ e.rows[OrderKey(x)] = d.rows[OrderKey(x)]
      /\ IsPosted(e, OrderKey(x)) = IsPosted(d, OrderKey(x))
      /\ Changed(e, OrderKey(x)) = Changed(d, OrderKey(x))
      /\ \A l \in Batches : ChangedLot(e, OrderKey(x), l) = ChangedLot(d, OrderKey(x), l)
  BY <1>0, <1>1, OtherRows
<1>3. Used(e)[x] = Used(d)[x] /\ Used(d)[x] \in Int
      /\ \A l \in Batches : UsedLot(e, l)[x] = UsedLot(d, l)[x]
  BY <1>2, FunctionShapes
<1>6. ~IsPosted(d, ReverseKey(o))
  BY DEF ChecksPosted, GivenBack, ToReverse
<1>4. CASE x # o
  <2>1. /\ e.rows[ReverseKey(x)] = d.rows[ReverseKey(x)]
        /\ IsPosted(e, ReverseKey(x)) = IsPosted(d, ReverseKey(x))
        /\ Changed(e, ReverseKey(x)) = Changed(d, ReverseKey(x))
        /\ \A l \in Batches : ChangedLot(e, ReverseKey(x), l) = ChangedLot(d, ReverseKey(x), l)
    BY <1>0, <1>1, <1>4, OtherRows
  <2>2. Back(e)[x] = Back(d)[x] /\ Back(d)[x] \in Int
        /\ \A l \in Batches : BackLot(e, l)[x] = BackLot(d, l)[x] /\ BackLot(d, l)[x] \in Int
    BY <2>1, FunctionShapes
  <2>3. e.check[x] = d.check[x]
    BY <1>4 DEF GivenBack, OthersSame
  <2>4. Draws(e)[x] = Draws(d)[x]
    <3>1. ToReverse(e, x) <=> ToReverse(d, x)
      BY <2>3, SameClaim
    <3>2. Draws(e)[x] = Back(e)[x] + (IF ToReverse(e, x) THEN e.check[x].qty ELSE 0)
      BY FunctionShapes
    <3>3. Draws(d)[x] = Back(d)[x] + (IF ToReverse(d, x) THEN d.check[x].qty ELSE 0)
      BY FunctionShapes
    <3> QED
      BY <2>2, <2>3, <3>1, <3>2, <3>3
  <2>5. SourcesOf(e, x) = SourcesOf(d, x)
    BY <2>3, SameClaim
  <2>6. \A l \in Batches : BackLot(e, l)[x] = BackLot(d, l)[x] + (IF x = o THEN alloc[l] ELSE 0)
    BY <1>4, <2>2
  <2> QED
    BY <1>2, <1>3, <1>4, <2>1, <2>4, <2>5, <2>6
<1>5. CASE x = o
  <2>1. /\ IsPosted(e, ReverseKey(o)) /\ Changed(e, ReverseKey(o)) = n
        /\ \A l \in Batches : ChangedLot(e, ReverseKey(o), l) = alloc[l]
    BY <1>0, NewRow
  <2>2. /\ Changed(d, ReverseKey(o)) = 0
        /\ \A l \in Batches : ChangedLot(d, ReverseKey(o), l) = 0
    BY <1>6 DEF Changed, ChangedLot
  <2>3. Back(e)[o] = n /\ Back(d)[o] = 0
        /\ \A l \in Batches : BackLot(e, l)[o] = alloc[l] /\ BackLot(d, l)[o] = 0
    BY <1>0, <2>1, <2>2, FunctionShapes
  <2>4. SourcesOf(e, o) = SourcesOf(d, o)
    BY DEF GivenBack, SourcesOf
  <2>5. ToReverse(d, o) /\ ~ToReverse(e, o) /\ d.check[o].qty = n
    BY DEF GivenBack, ToReverse
  <2>6. Draws(e)[o] = Back(e)[o] + 0 /\ Draws(d)[o] = Back(d)[o] + n
    BY <2>5, FunctionShapes
  <2>7. Draws(e)[x] = Draws(d)[x]
    BY <1>0, <1>5, <2>3, <2>6
  <2>8. ASSUME NEW l \in Batches
        PROVE  BackLot(e, l)[x] = BackLot(d, l)[x] + (IF x = o THEN alloc[l] ELSE 0)
    BY <1>0, <1>5, <2>3
  <2> QED
    BY <1>2, <1>3, <1>5, <2>1, <2>4, <2>7, <2>8
<1> QED
  BY <1>4, <1>5

\* Into a lot that gets something back, the orders that o draws on still have it to give;
\* the reversed checks that are not related to o draw on others.
LEMMA BackStaysCovered ==
    ASSUME NEW d \in Databases, NEW e \in Databases, NEW o \in Orders, NEW n, NEW alloc,
           GivenBack(d, e, o, n, alloc), Sound(d)
    PROVE  BackIsCovered(e)
<1> SUFFICES ASSUME NEW l \in Batches, NEW os \in SUBSET Reversed(e)
             PROVE  SumFunctionOnSet(BackLot(e, l), os)
                      <= SumFunctionOnSet(UsedLot(e, l), SourcesOfAll(e, os))
  BY DEF BackIsCovered
<1> DEFINE used == UsedLot(d, l)
           back == BackLot(d, l)
           put == BackLot(e, l)
           all == SourcesOfAll(d, os)
           rest == os \ {o}
           near == rest \cap Related(d, o)
           far == rest \ Related(d, o)
<1>0. ChecksPosted(d) /\ RowsAddUp(d)
  BY DEF Sound
<1>1. IsFiniteSet(Orders) /\ alloc[l] \in Int /\ alloc[l] >= 0
  BY Finite DEF GivenBack, Allocations
<1>2. /\ \A x \in Orders : used[x] \in Nat /\ back[x] \in Nat
      /\ \A x \in Orders : put[x] = back[x] + (IF x = o THEN alloc[l] ELSE 0)
  <2>1. \A x \in Orders : used[x] \in Nat /\ back[x] \in Nat
    BY <1>0, NothingNegative
  <2>2. \A x \in Orders : put[x] = back[x] + (IF x = o THEN alloc[l] ELSE 0)
    BY <1>0, GivenValues
  <2> QED
    BY <2>1, <2>2
<1>3. os \subseteq Orders /\ rest \subseteq Reversed(d)
  <2>1. os \subseteq Orders
    BY DEF Reversed
  <2>2. ASSUME NEW x \in rest PROVE x \in Reversed(d)
    <3>1. x \in Orders /\ x # o /\ IsPosted(e, ReverseKey(x))
      BY DEF Reversed
    <3> QED
      BY <1>0, <3>1, GivenValues DEF Reversed
  <2> QED
    BY <2>1, <2>2
<1>4. /\ SourcesOfAll(e, os) = all
      /\ \A x \in Orders : SourcesOf(d, x) \in SUBSET Orders
  <2>1. \A x \in Orders : SourcesOf(e, x) = SourcesOf(d, x)
    BY <1>0, GivenValues
  <2>2. \A x \in Orders : SourcesOf(d, x) \in SUBSET Orders
    BY CheckShape
  <2> QED
    BY <1>3, <2>1, <2>2 DEF SourcesOfAll
<1>5. \A part \in SUBSET os : SourcesOfAll(d, part) \in SUBSET all /\ all \in SUBSET Orders
  BY <1>3, <1>4 DEF SourcesOfAll
<1>6. \A part \in SUBSET rest :
        SumFunctionOnSet(back, part) <= SumFunctionOnSet(used, SourcesOfAll(d, part))
  BY <1>3 DEF Sound, BackIsCovered
<1>7. SumFunctionOnSet(UsedLot(e, l), all) = SumFunctionOnSet(used, all)
  <2>1. \A x \in Orders : UsedLot(e, l)[x] = used[x]
    BY <1>0, GivenValues
  <2>2. all \in SUBSET Orders
    BY <1>5
  <2>3. IsFiniteSet(all)
    BY <1>1, <2>2, FS_Subset
  <2> HIDE DEF all, used
  <2>4. \A x \in all : UsedLot(e, l)[x] = used[x]
    BY <2>1, <2>2
  <2> QED
    BY <2>3, <2>4, SumEqual
<1>8. Related(d, o) \in SUBSET Orders
  BY <1>4 DEF Related
<1> HIDE DEF used, back, put, all
<1>9. \A part \in SUBSET Orders :
         /\ IsFiniteSet(part)
         /\ SumFunctionOnSet(used, part) \in Nat /\ SumFunctionOnSet(back, part) \in Nat
  <2> SUFFICES ASSUME NEW part \in SUBSET Orders
               PROVE  /\ IsFiniteSet(part)
                      /\ SumFunctionOnSet(used, part) \in Nat
                      /\ SumFunctionOnSet(back, part) \in Nat
    OBVIOUS
  <2>1. \A x \in Orders : used[x] \in Nat
    BY <1>2
  <2>2. \A x \in Orders : back[x] \in Nat
    BY <1>2
  <2>3. SumFunctionOnSet(used, part) \in Nat
    BY <1>1, <2>1, SumGrows
  <2>4. SumFunctionOnSet(back, part) \in Nat
    BY <1>1, <2>2, SumGrows
  <2> QED
    BY <1>1, <2>3, <2>4, FS_Subset
<1>10. \A part \in SUBSET all : SumFunctionOnSet(used, part) <= SumFunctionOnSet(used, all)
  <2> SUFFICES ASSUME NEW part \in SUBSET all
               PROVE  SumFunctionOnSet(used, part) <= SumFunctionOnSet(used, all)
    OBVIOUS
  <2>1. IsFiniteSet(all) /\ \A x \in all : used[x] \in Nat
    BY <1>2, <1>5, <1>9
  <2> QED
    BY <2>1, SumGrows
<1>11. SumFunctionOnSet(put, rest) = SumFunctionOnSet(back, rest)
  <2>1. rest \in SUBSET Orders
    BY <1>3
  <2>2. \A x \in rest : put[x] = back[x]
    <3>1. ASSUME NEW x \in rest PROVE put[x] = back[x]
      <4>1. x \in Orders /\ x # o
        BY <2>1
      <4> QED
        BY <1>2, <4>1
    <3> QED
      BY <3>1
  <2> HIDE DEF rest
  <2> QED
    BY <1>9, <2>1, <2>2, SumEqual
<1>12. CASE o \notin os
  <2>1. rest = os
    BY <1>12
  <2>2. SumFunctionOnSet(back, os) <= SumFunctionOnSet(used, SourcesOfAll(d, os))
    BY <1>6, <2>1
  <2> QED
    BY <1>4, <1>7, <1>11, <2>1, <2>2 DEF all, put
<1>13. CASE o \in os
  <2>0. rest \in SUBSET Orders /\ near \in SUBSET Orders /\ far \in SUBSET Orders
    BY <1>3
  <2>1. SumFunctionOnSet(put, os) = back[o] + alloc[l] + SumFunctionOnSet(back, rest)
    <3>1. IsFiniteSet(os) /\ \A x \in os : put[x] \in Int
      <4>1. ASSUME NEW x \in os PROVE put[x] \in Int
        <5>1. x \in Orders
          BY <1>3
        <5>2. put[x] = back[x] + (IF x = o THEN alloc[l] ELSE 0) /\ back[x] \in Nat
          BY <1>2, <5>1
        <5> QED
          BY <1>1, <5>2
      <4> QED
        BY <1>3, <1>9, <4>1
    <3>2. SumFunctionOnSet(put, os) = put[o] + SumFunctionOnSet(put, rest)
      BY <1>13, <3>1, SumRemove
    <3> QED
      BY <1>2, <1>11, <3>2
  <2>2. back[o] = 0
    <3>1. ~IsPosted(d, ReverseKey(o))
      BY <1>0 DEF ChecksPosted, GivenBack, ToReverse
    <3> QED
      BY <3>1, FunctionShapes DEF back, ChangedLot
  <2>3. CASE alloc[l] = 0
    <3>1. SumFunctionOnSet(back, rest) <= SumFunctionOnSet(used, SourcesOfAll(d, rest))
      BY <1>6
    <3>2. SumFunctionOnSet(used, SourcesOfAll(d, rest)) <= SumFunctionOnSet(used, all)
      <4>1. SourcesOfAll(d, rest) \in SUBSET all
        BY <1>5
      <4> QED
        BY <1>10, <4>1
    <3>3. /\ SumFunctionOnSet(back, rest) \in Nat
          /\ SumFunctionOnSet(used, SourcesOfAll(d, rest)) \in Nat
          /\ SumFunctionOnSet(used, all) \in Nat
      <4>1. SourcesOfAll(d, rest) \in SUBSET Orders /\ all \in SUBSET Orders
        BY <1>5
      <4> QED
        BY <1>9, <2>0, <4>1
    <3> QED
      BY <1>4, <1>7, <2>1, <2>2, <2>3, <3>1, <3>2, <3>3 DEF put
  <2>4. CASE alloc[l] # 0
    <3> DEFINE own == SourcesOf(d, o)
               other == SourcesOfAll(d, far)
    <3>1. alloc[l] + SumFunctionOnSet(back, Related(d, o)) <= SumFunctionOnSet(used, own)
      BY <2>4 DEF GivenBack, back, used
    <3>2. SumFunctionOnSet(back, near) <= SumFunctionOnSet(back, Related(d, o))
      <4>1. IsFiniteSet(Related(d, o)) /\ \A x \in Related(d, o) : back[x] \in Nat
        BY <1>2, <1>8, <1>9
      <4>2. near \in SUBSET Related(d, o)
        OBVIOUS
      <4> HIDE DEF near
      <4> QED
        BY <4>1, <4>2, SumGrows
    <3>3. SumFunctionOnSet(back, far) <= SumFunctionOnSet(used, other)
      BY <1>6
    <3>4. SumFunctionOnSet(back, rest) = SumFunctionOnSet(back, near) + SumFunctionOnSet(back, far)
      <4>1. near \cup far = rest /\ near \cap far = {}
        OBVIOUS
      <4>2. \A x \in Orders : back[x] \in Int
        BY <1>2
      <4> HIDE DEF near, far, rest
      <4>3. SumFunctionOnSet(back, near \cup far)
              = SumFunctionOnSet(back, near) + SumFunctionOnSet(back, far)
        BY <1>1, <2>0, <4>1, <4>2, SumOfBoth
      <4> QED
        BY <4>1, <4>3
    <3>5. own \in SUBSET Orders /\ other \in SUBSET Orders /\ own \cap other = {}
      <4>1. own \in SUBSET Orders /\ other \in SUBSET Orders
        BY <1>4, <2>0 DEF SourcesOfAll
      <4>2. ASSUME NEW x \in far PROVE SourcesOf(d, x) \cap own = {}
        <5>1. x \in Orders /\ x \notin Related(d, o)
          BY <2>0
        <5>2. x \notin own /\ d.check[x].sources \cap own = {}
          BY <5>1 DEF Related
        <5> QED
          BY <5>2 DEF SourcesOf
      <4> QED
        BY <4>1, <4>2 DEF SourcesOfAll
    <3>6. SumFunctionOnSet(used, own \cup other)
            = SumFunctionOnSet(used, own) + SumFunctionOnSet(used, other)
      <4>1. \A x \in Orders : used[x] \in Int
        BY <1>2
      <4> HIDE DEF own, other
      <4> QED
        BY <1>1, <3>5, <4>1, SumOfBoth
    <3>7. SumFunctionOnSet(used, own \cup other) <= SumFunctionOnSet(used, all)
      <4>1. own \cup other \in SUBSET all
        BY <1>13 DEF SourcesOfAll, all
      <4> QED
        BY <1>10, <4>1
    <3>8. /\ SumFunctionOnSet(back, Related(d, o)) \in Nat
          /\ SumFunctionOnSet(back, near) \in Nat /\ SumFunctionOnSet(back, far) \in Nat
          /\ SumFunctionOnSet(used, own) \in Nat /\ SumFunctionOnSet(used, other) \in Nat
          /\ SumFunctionOnSet(used, all) \in Nat
      BY <1>5, <1>8, <1>9, <2>0, <3>5
    <3> HIDE DEF own, other, near, far, rest
    <3> QED
      BY <1>1, <1>4, <1>7, <2>1, <2>2, <3>1, <3>2, <3>3, <3>4, <3>6, <3>7, <3>8 DEF put
  <2> QED
    BY <2>3, <2>4
<1> QED
  BY <1>12, <1>13

\* Stock given back for a check that closes leaves the books sound.
LEMMA GivenSound ==
    ASSUME NEW d \in Databases, NEW e \in Databases, NEW o \in Orders, NEW n, NEW alloc,
           GivenBack(d, e, o, n, alloc), Sound(d)
    PROVE  Sound(e)
<1>0. ChecksPosted(d) /\ RowsAddUp(d) /\ ChecksConsistent(d)
  BY DEF Sound
<1>1. /\ IsFiniteSet(Orders) /\ IsFiniteSet(Batches)
      /\ n \in Nat /\ alloc \in Allocations
      /\ StockMoved(d, e, ReverseKey(o), n, alloc)
      /\ \A l \in Batches : alloc[l] \in Int /\ alloc[l] >= 0
      /\ SumFunctionOnSet(alloc, Batches) = n
  BY Finite DEF GivenBack, Allocations
<1>2. \A x \in Orders \ {o} : e.check[x] = d.check[x]
  BY DEF GivenBack, OthersSame
<1>4. ChecksConsistent(e)
  BY <1>0, <1>2 DEF ChecksConsistent, GivenBack
<1>5. ChecksPosted(e)
  <2> SUFFICES ASSUME NEW x \in Orders
               PROVE  /\ IsPosted(e, OrderKey(x)) =>
                            x \in SourcesOf(e, x) /\ e.check[x].status # "absent"
                      /\ e.check[x].deducted =>
                            \A y \in SourcesOf(e, x) : IsPosted(e, OrderKey(y))
                      /\ IsPosted(e, ReverseKey(x)) => e.check[x].reversed
    BY DEF ChecksPosted
  <2>1. SourcesOf(d, x) \in SUBSET Orders
    BY CheckShape
  <2>2. \A y \in SourcesOf(d, x) : IsPosted(d, OrderKey(y)) => IsPosted(e, OrderKey(y))
    BY <1>0, <2>1, GivenValues
  <2>3. /\ SourcesOf(e, x) = SourcesOf(d, x)
        /\ IsPosted(e, OrderKey(x)) <=> IsPosted(d, OrderKey(x))
        /\ IsPosted(e, ReverseKey(x)) <=> (x = o \/ IsPosted(d, ReverseKey(x)))
    BY <1>0, GivenValues
  <2>4. CASE x = o
    <3>1. e.check[o].status # "absent" /\ e.check[o].reversed /\ d.check[o].deducted
      BY DEF GivenBack, ToReverse
    <3> QED
      BY <1>0, <2>2, <2>3, <2>4, <3>1 DEF ChecksPosted
  <2>5. CASE x # o
    BY <1>0, <1>2, <2>2, <2>3, <2>5 DEF ChecksPosted
  <2> QED
    BY <2>4, <2>5
<1>6. RowsAddUp(e)
  <2> SUFFICES ASSUME NEW x \in Orders
               PROVE  /\ IsPosted(e, OrderKey(x)) =>
                            /\ \A l \in Batches : e.rows[OrderKey(x)].alloc[l] <= 0
                            /\ SumFunctionOnSet(e.rows[OrderKey(x)].alloc, Batches)
                                  = e.rows[OrderKey(x)].change
                      /\ IsPosted(e, ReverseKey(x)) =>
                            /\ \A l \in Batches : e.rows[ReverseKey(x)].alloc[l] >= 0
                            /\ SumFunctionOnSet(e.rows[ReverseKey(x)].alloc, Batches)
                                  = e.rows[ReverseKey(x)].change
    BY DEF RowsAddUp
  <2>1. /\ IsPosted(e, OrderKey(x)) <=> IsPosted(d, OrderKey(x))
        /\ IsPosted(e, ReverseKey(x)) <=> (x = o \/ IsPosted(d, ReverseKey(x)))
        /\ e.rows[OrderKey(x)] = d.rows[OrderKey(x)]
        /\ x # o => e.rows[ReverseKey(x)] = d.rows[ReverseKey(x)]
    BY <1>0, GivenValues
  <2>2. e.rows[ReverseKey(o)].change = n /\ e.rows[ReverseKey(o)].alloc = alloc
    BY <1>1, NewRow
  <2>3. CASE x = o
    BY <1>0, <1>1, <2>1, <2>2, <2>3 DEF RowsAddUp
  <2>4. CASE x # o
    BY <1>0, <2>1, <2>4 DEF RowsAddUp
  <2> QED
    BY <2>3, <2>4
<1>7. LotsExplained(e)
  <2> SUFFICES ASSUME NEW l \in Batches
               PROVE  /\ IsPosted(e, OpeningKey(l))
                      /\ e.lots[<<Branch, l>>] = e.rows[OpeningKey(l)].change
                             - SumFunctionOnSet(UsedLot(e, l), Orders)
                             + SumFunctionOnSet(BackLot(e, l), Orders)
    BY DEF LotsExplained
  <2>1. e.lots[<<Branch, l>>] = d.lots[<<Branch, l>>] + alloc[l]
    BY <1>1 DEF StockMoved
  <2>2. /\ e.rows[OpeningKey(l)] = d.rows[OpeningKey(l)]
        /\ IsPosted(d, OpeningKey(l)) /\ IsPosted(e, OpeningKey(l))
    <3>1. OpeningKey(l) \in Keys /\ OpeningKey(l) # ReverseKey(o)
      BY KeysDiffer
    <3>2. IsPosted(d, OpeningKey(l))
      BY DEF Sound, LotsExplained
    <3> QED
      BY <1>1, <3>1, <3>2, OtherRows
  <2>3. SumFunctionOnSet(UsedLot(e, l), Orders) = SumFunctionOnSet(UsedLot(d, l), Orders)
    <3>1. \A x \in Orders : UsedLot(e, l)[x] = UsedLot(d, l)[x]
      BY <1>0, GivenValues
    <3> QED
      BY <1>1, <3>1, SumEqual
  <2>4. SumFunctionOnSet(BackLot(e, l), Orders)
          = SumFunctionOnSet(BackLot(d, l), Orders) + BackLot(e, l)[o] - BackLot(d, l)[o]
    <3>1. SameOn(Orders \ {o}, BackLot(d, l), BackLot(e, l))
      <4>1. ASSUME NEW x \in Orders \ {o} PROVE BackLot(d, l)[x] = BackLot(e, l)[x]
        <5>1. BackLot(e, l)[x] = BackLot(d, l)[x] + (IF x = o THEN alloc[l] ELSE 0)
          BY <1>0, GivenValues
        <5>2. BackLot(d, l)[x] \in Int
          BY FunctionShapes
        <5> QED
          BY <5>1, <5>2
      <4> QED
        BY <4>1 DEF SameOn
    <3>2. \A x \in Orders : BackLot(d, l)[x] \in Int /\ BackLot(e, l)[x] \in Int
      BY FunctionShapes
    <3> QED
      BY <1>1, <3>1, <3>2, SumUpdate
  <2>5. BackLot(e, l)[o] = BackLot(d, l)[o] + alloc[l] /\ BackLot(d, l)[o] \in Int
    BY <1>0, GivenValues, FunctionShapes
  <2>6. d.lots[<<Branch, l>>] = d.rows[OpeningKey(l)].change
            - SumFunctionOnSet(UsedLot(d, l), Orders) + SumFunctionOnSet(BackLot(d, l), Orders)
    BY DEF Sound, LotsExplained
  <2>7. /\ SumFunctionOnSet(UsedLot(d, l), Orders) \in Int
        /\ SumFunctionOnSet(BackLot(d, l), Orders) \in Int
    <3>1. \A x \in Orders : UsedLot(d, l)[x] \in Int
      BY FunctionShapes
    <3>2. \A x \in Orders : BackLot(d, l)[x] \in Int
      BY FunctionShapes
    <3>3. SumFunctionOnSet(UsedLot(d, l), Orders) \in Int
      BY <1>1, <3>1, SumType
    <3>4. SumFunctionOnSet(BackLot(d, l), Orders) \in Int
      BY <1>1, <3>2, SumType
    <3> QED
      BY <3>3, <3>4
  <2>8. alloc[l] \in Int /\ d.rows[OpeningKey(l)].change \in Int
    BY <1>1, <2>2, KeysDiffer, RowShape
  <2> QED
    BY <2>1, <2>2, <2>3, <2>4, <2>5, <2>6, <2>7, <2>8
<1>8. LotsCover(e)
  <2>1. n \in Int /\ LotsCover(d)
    BY <1>1 DEF Sound
  <2> QED
    BY <1>1, <2>1, CoverKept
<1>9. ASSUME NEW os \in SUBSET Orders
      PROVE  /\ SumFunctionOnSet(Used(e), os) = SumFunctionOnSet(Used(d), os)
             /\ SumFunctionOnSet(Draws(e), os) = SumFunctionOnSet(Draws(d), os)
  <2>1. IsFiniteSet(os)
    BY <1>1, FS_Subset
  <2>2. \A x \in os : Used(e)[x] = Used(d)[x]
    BY <1>0, GivenValues
  <2>3. \A x \in os : Draws(e)[x] = Draws(d)[x]
    BY <1>0, GivenValues
  <2>4. SumFunctionOnSet(Used(e), os) = SumFunctionOnSet(Used(d), os)
    BY <2>1, <2>2, SumEqual
  <2>5. SumFunctionOnSet(Draws(e), os) = SumFunctionOnSet(Draws(d), os)
    BY <2>1, <2>3, SumEqual
  <2> QED
    BY <2>4, <2>5
<1>10. ChecksStand(e)
  BY <1>9 DEF Sound, ChecksStand
<1>11. SharesFit(e)
  <2> SUFFICES ASSUME NEW x \in Orders
               PROVE  SumFunctionOnSet(Draws(e), Solo(e, x)) <= Used(e)[x]
    BY DEF SharesFit
  <2>1. Solo(e, x) = Solo(d, x) /\ Solo(d, x) \in SUBSET Orders
    <3>1. \A y \in Orders : SourcesOf(e, y) = SourcesOf(d, y)
      BY <1>0, GivenValues
    <3> QED
      BY <3>1 DEF Solo
  <2>2. SumFunctionOnSet(Draws(e), Solo(d, x)) = SumFunctionOnSet(Draws(d), Solo(d, x))
    BY <1>9, <2>1
  <2>3. Used(e)[x] = Used(d)[x]
    BY <1>0, GivenValues
  <2>4. SumFunctionOnSet(Draws(d), Solo(d, x)) <= Used(d)[x]
    BY DEF Sound, SharesFit
  <2> QED
    BY <2>1, <2>2, <2>3, <2>4
<1>12. BackIsCovered(e)
  BY BackStaysCovered
<1> QED
  BY <1>4, <1>5, <1>6, <1>7, <1>8, <1>10, <1>11, <1>12 DEF Sound

-------------------------------------------------------------------------------
(* Changing checks and no stock.                                           *)

\* Checks that are reversed never change.
Frozen(d, e) == \A x \in Orders : d.check[x].reversed => e.check[x] = d.check[x]

\* With the same stock, what the rows say is the same.
LEMMA SameValues ==
    ASSUME NEW d, NEW e, SameStock(d, e)
    PROVE  /\ Used(e) = Used(d) /\ Back(e) = Back(d)
           /\ \A l \in Batches : UsedLot(e, l) = UsedLot(d, l) /\ BackLot(e, l) = BackLot(d, l)
           /\ \A key : IsPosted(e, key) = IsPosted(d, key)
BY DEF SameStock, Used, Back, UsedLot, BackLot, Changed, ChangedLot, IsPosted

\* A write that moves no stock leaves the books sound, if the checks still agree
\* with the rows.
LEMMA PaperSound ==
    ASSUME NEW d \in Databases, NEW e \in Databases, SameStock(d, e), Sound(d), Frozen(d, e),
           ChecksConsistent(e), ChecksPosted(e), ChecksStand(e), SharesFit(e)
    PROVE  Sound(e)
<1>1. RowsAddUp(e)
  <2>1. e.rows = d.rows /\ RowsAddUp(d)
    BY DEF SameStock, Sound
  <2> QED
    BY <2>1 DEF RowsAddUp, IsPosted
<1>2. LotsExplained(e)
  <2>1. e.rows = d.rows /\ e.lots = d.lots /\ LotsExplained(d)
    BY DEF SameStock, Sound
  <2>2. \A l \in Batches : UsedLot(e, l) = UsedLot(d, l) /\ BackLot(e, l) = BackLot(d, l)
    BY SameValues
  <2> QED
    BY <2>1, <2>2 DEF LotsExplained, IsPosted
<1>3. LotsCover(e)
  BY DEF SameStock, Sound, LotsCover, Covered, InLots
<1>4. BackIsCovered(e)
  <2> SUFFICES ASSUME NEW l \in Batches, NEW os \in SUBSET Reversed(e)
               PROVE  SumFunctionOnSet(BackLot(e, l), os)
                        <= SumFunctionOnSet(UsedLot(e, l), SourcesOfAll(e, os))
    BY DEF BackIsCovered
  <2>1. UsedLot(e, l) = UsedLot(d, l) /\ BackLot(e, l) = BackLot(d, l)
    BY SameValues
  <2>2. os \in SUBSET Reversed(d)
    BY SameValues DEF Reversed
  <2>3. \A x \in os : SourcesOf(e, x) = SourcesOf(d, x)
    <3> SUFFICES ASSUME NEW x \in os PROVE SourcesOf(e, x) = SourcesOf(d, x)
      OBVIOUS
    <3>1. x \in Orders /\ IsPosted(d, ReverseKey(x))
      BY <2>2 DEF Reversed
    <3>2. d.check[x].reversed
      BY <3>1 DEF Sound, ChecksPosted
    <3> QED
      BY <3>1, <3>2, SameClaim DEF Frozen
  <2>4. SourcesOfAll(e, os) = SourcesOfAll(d, os)
    BY <2>3 DEF SourcesOfAll
  <2> QED
    BY <2>1, <2>2, <2>4 DEF Sound, BackIsCovered
<1> QED
  BY <1>1, <1>2, <1>3, <1>4 DEF Sound

\* The checks claim what they claimed.
ClaimsSame(d, e) ==
    \A x \in Orders :
        /\ e.check[x].sources = d.check[x].sources
        /\ e.check[x].deducted <=> d.check[x].deducted
        /\ e.check[x].reversed <=> d.check[x].reversed
        /\ ToReverse(d, x) => e.check[x].qty = d.check[x].qty
        /\ d.check[x].status # "absent" => e.check[x].status # "absent"

\* It does, where no check's claim on the stock changes.
LEMMA ClaimsSound ==
    ASSUME NEW d \in Databases, NEW e \in Databases, SameStock(d, e), Sound(d), Frozen(d, e),
           ClaimsSame(d, e), ChecksConsistent(e)
    PROVE  Sound(e)
<1>1. \A x \in Orders : SourcesOf(e, x) = SourcesOf(d, x) /\ (ToReverse(e, x) <=> ToReverse(d, x))
  BY DEF ClaimsSame, SourcesOf, ToReverse
<1>2. Used(e) = Used(d) /\ Back(e) = Back(d) /\ \A key : IsPosted(e, key) = IsPosted(d, key)
  BY SameValues
<1>3. ChecksPosted(e)
  <2> SUFFICES ASSUME NEW x \in Orders
               PROVE  /\ IsPosted(e, OrderKey(x)) =>
                            x \in SourcesOf(e, x) /\ e.check[x].status # "absent"
                      /\ e.check[x].deducted =>
                            \A y \in SourcesOf(e, x) : IsPosted(e, OrderKey(y))
                      /\ IsPosted(e, ReverseKey(x)) => e.check[x].reversed
    BY DEF ChecksPosted
  <2> QED
    BY <1>1, <1>2 DEF Sound, ChecksPosted, ClaimsSame
<1>4. Draws(e) = Draws(d)
  <2>1. \A x \in Orders : ToReverse(d, x) => e.check[x].qty = d.check[x].qty
    BY DEF ClaimsSame
  <2> QED
    BY <1>1, <1>2, <2>1 DEF Draws
<1>5. ChecksStand(e)
  BY <1>2, <1>4 DEF Sound, ChecksStand
<1>6. SharesFit(e)
  <2>1. \A x \in Orders : Solo(e, x) = Solo(d, x)
    BY <1>1 DEF Solo
  <2> QED
    BY <1>2, <1>4, <2>1 DEF Sound, SharesFit
<1> QED
  BY <1>3, <1>5, <1>6, PaperSound

\* What one check gives another, the checks together keep.
LEMMA SumMoved ==
    ASSUME NEW S, IsFiniteSet(S), NEW f, NEW g, NEW from \in S, NEW to \in S, from # to,
           \A y \in S : f[y] \in Int /\ g[y] \in Int,
           SameOn(S \ {from, to}, f, g), g[from] + g[to] = f[from] + f[to]
    PROVE  SumFunctionOnSet(g, S) = SumFunctionOnSet(f, S)
<1> DEFINE h == [y \in S |-> IF y = from THEN g[from] ELSE f[y]]
<1>1. /\ \A y \in S : h[y] \in Int
      /\ SameOn(S \ {from}, f, h) /\ SameOn(S \ {to}, h, g)
      /\ h[from] = g[from] /\ h[to] = f[to]
  BY DEF SameOn
<1> HIDE DEF h
<1>2. SumFunctionOnSet(h, S) = SumFunctionOnSet(f, S) + h[from] - f[from]
  BY <1>1, SumUpdate
<1>6. \A y \in S : h[y] \in Int /\ g[y] \in Int
  BY <1>1
<1>3. SumFunctionOnSet(g, S) = SumFunctionOnSet(h, S) + g[to] - h[to]
  <2>1. IsFiniteSet(S) /\ to \in S /\ SameOn(S \ {to}, h, g)
    BY <1>1
  <2> QED
    BY ONLY <1>6, <2>1, SumUpdate
<1>4. SumFunctionOnSet(f, S) \in Int
  BY SumType
<1>5. f[from] \in Int /\ f[to] \in Int /\ g[from] \in Int /\ g[to] \in Int
  OBVIOUS
<1> QED
  BY <1>1, <1>2, <1>3, <1>4, <1>5

\* n units of o move to the new check x, which draws on what o draws on.
SplitInto(d, e, o, x, n) ==
    /\ SameStock(d, e) /\ OthersSame(d, e, {o, x})
    /\ o # x /\ IsOpen(d, o) /\ d.check[x].status = "absent"
    /\ n \in 1..(d.check[o].qty - 1)
    /\ e.check[o].qty = d.check[o].qty - n /\ e.check[x].qty = n
    /\ e.check[o].sources = d.check[o].sources /\ e.check[x].sources = SourcesOf(d, o)
    /\ e.check[o].deducted = d.check[o].deducted /\ e.check[x].deducted = d.check[o].deducted
    /\ e.check[o].reversed = d.check[o].reversed /\ e.check[x].reversed = FALSE
    /\ e.check[o].status # "absent" /\ e.check[x].status # "absent"
    /\ Consistent(e.check[o]) /\ Consistent(e.check[x])

\* A split leaves the books sound and touches no check that was given back.
LEMMA SplitSound ==
    ASSUME NEW d \in Databases, NEW e \in Databases, NEW o \in Orders, NEW x \in Orders, NEW n,
           SplitInto(d, e, o, x, n), Sound(d)
    PROVE  Sound(e) /\ Frozen(d, e)
<1>1. /\ IsFiniteSet(Orders) /\ SameStock(d, e) /\ o # x
      /\ n \in Nat /\ n > 0 /\ d.check[o].qty \in Nat
      /\ ChecksConsistent(d) /\ ChecksPosted(d) /\ RowsAddUp(d)
  <2>1. n \in 1..(d.check[o].qty - 1)
    BY DEF SplitInto
  <2>2. d.check[o].qty \in Nat
    BY CheckShape
  <2> QED
    BY <2>1, <2>2, Finite DEF SplitInto, Sound
<1>2. \A y \in Orders \ {o, x} : e.check[y] = d.check[y]
  BY DEF SplitInto, OthersSame
<1>3. ~d.check[o].reversed /\ d.check[x] = NoCheck
  BY <1>1 DEF SplitInto, IsOpen, OPEN_ORDER_STATUSES, ChecksConsistent, Consistent, Ended
<1>4. Frozen(d, e)
  BY <1>2, <1>3 DEF Frozen, NoCheck
<1>5. ChecksConsistent(e)
  BY <1>1, <1>2 DEF SplitInto, ChecksConsistent
<1>6. /\ SourcesOf(e, o) = SourcesOf(d, o) /\ SourcesOf(e, x) = SourcesOf(d, o)
      /\ SourcesOf(d, x) = {x}
      /\ \A y \in Orders \ {x} : SourcesOf(e, y) = SourcesOf(d, y)
  <2>1. SourcesOf(e, o) = SourcesOf(d, o) /\ SourcesOf(e, x) = SourcesOf(d, o)
    BY SourcesExist DEF SplitInto, SourcesOf
  <2>2. SourcesOf(d, x) = {x}
    BY <1>3 DEF SourcesOf, NoCheck
  <2> QED
    BY <1>2, <2>1, <2>2, SameClaim
<1>7. Used(e) = Used(d) /\ Back(e) = Back(d) /\ \A key : IsPosted(e, key) = IsPosted(d, key)
  BY <1>1, SameValues
<1>8. ~IsPosted(d, OrderKey(x)) /\ ~IsPosted(d, ReverseKey(x)) /\ ~IsPosted(d, ReverseKey(o))
  BY <1>1, <1>3 DEF ChecksPosted, NoCheck
<1>9. ChecksPosted(e)
  <2> SUFFICES ASSUME NEW y \in Orders
               PROVE  /\ IsPosted(e, OrderKey(y)) =>
                            y \in SourcesOf(e, y) /\ e.check[y].status # "absent"
                      /\ e.check[y].deducted =>
                            \A z \in SourcesOf(e, y) : IsPosted(e, OrderKey(z))
                      /\ IsPosted(e, ReverseKey(y)) => e.check[y].reversed
    BY DEF ChecksPosted
  <2>1. CASE y \notin {o, x}
    BY <1>1, <1>2, <1>6, <1>7, <2>1 DEF ChecksPosted
  <2>2. CASE y = o
    BY <1>1, <1>6, <1>7, <1>8, <2>2 DEF ChecksPosted, SplitInto
  <2>3. CASE y = x
    BY <1>1, <1>6, <1>7, <1>8, <2>3 DEF ChecksPosted, SplitInto
  <2> QED
    BY <2>1, <2>2, <2>3
<1>10. /\ \A y \in Orders : Draws(d)[y] \in Nat /\ Draws(e)[y] \in Int
       /\ \A y \in Orders \ {o, x} : Draws(e)[y] = Draws(d)[y]
       /\ Draws(e)[o] + Draws(e)[x] = Draws(d)[o] + Draws(d)[x] /\ Draws(d)[x] = 0
  <2>1. \A y \in Orders : Draws(d)[y] \in Nat /\ Draws(e)[y] \in Int
    BY <1>1, NothingNegative, FunctionShapes
  <2>2. ASSUME NEW y \in Orders
        PROVE  /\ Draws(d)[y] = Back(d)[y] + (IF ToReverse(d, y) THEN d.check[y].qty ELSE 0)
               /\ Draws(e)[y] = Back(d)[y] + (IF ToReverse(e, y) THEN e.check[y].qty ELSE 0)
               /\ Back(d)[y] \in Int
    BY <1>7, FunctionShapes
  <2>3. ASSUME NEW y \in Orders \ {o, x} PROVE Draws(e)[y] = Draws(d)[y]
    <3>1. e.check[y] = d.check[y]
      BY <1>2
    <3> QED
      BY <2>2, <3>1 DEF ToReverse
  <2>4. ~ToReverse(d, x) /\ (ToReverse(e, o) <=> ToReverse(d, o))
        /\ (ToReverse(e, x) <=> ToReverse(d, o))
    BY <1>3 DEF ToReverse, SplitInto, NoCheck
  <2>5. Back(d)[x] = 0
    BY <1>8, FunctionShapes DEF Changed
  <2>6. e.check[o].qty = d.check[o].qty - n /\ e.check[x].qty = n
    BY DEF SplitInto
  <2>7. /\ Draws(d)[o] = Back(d)[o] + (IF ToReverse(d, o) THEN d.check[o].qty ELSE 0)
        /\ Draws(e)[o] = Back(d)[o] + (IF ToReverse(d, o) THEN d.check[o].qty - n ELSE 0)
        /\ Draws(e)[x] = 0 + (IF ToReverse(d, o) THEN n ELSE 0)
        /\ Draws(d)[x] = 0 /\ Back(d)[o] \in Int
    BY <2>2, <2>4, <2>5, <2>6
  <2>8. Draws(e)[o] + Draws(e)[x] = Draws(d)[o] + Draws(d)[x]
    BY <1>1, <2>7
  <2> QED
    BY <2>1, <2>3, <2>7, <2>8
<1>11. ASSUME NEW os \in SUBSET Orders, o \in os, x \in os
       PROVE  SumFunctionOnSet(Draws(e), os) = SumFunctionOnSet(Draws(d), os)
  <2>1. IsFiniteSet(os)
    BY <1>1, FS_Subset
  <2>2. SameOn(os \ {o, x}, Draws(d), Draws(e))
    BY <1>10 DEF SameOn
  <2>3. \A y \in os : Draws(d)[y] \in Int /\ Draws(e)[y] \in Int
    BY <1>10
  <2> QED
    BY <1>1, <1>10, <1>11, <2>1, <2>2, <2>3, SumMoved
<1>12. ChecksStand(e)
  BY <1>7, <1>11 DEF Sound, ChecksStand
<1>13. SharesFit(e)
  <2> SUFFICES ASSUME NEW y \in Orders
               PROVE  SumFunctionOnSet(Draws(e), Solo(e, y)) <= Used(d)[y]
    BY <1>7 DEF SharesFit
  <2> DEFINE old == Solo(d, y)
  <2>0. old \in SUBSET Orders /\ IsFiniteSet(old) /\ IsFiniteSet(old \cup {x})
    <3>1. old \in SUBSET Orders /\ old \cup {x} \in SUBSET Orders
      BY DEF Solo
    <3> QED
      BY <1>1, <3>1, FS_Subset
  <2>1. SumFunctionOnSet(Draws(d), old) <= Used(d)[y]
    BY DEF Sound, SharesFit
  <2>2. Solo(e, y) = IF o \in old THEN old \cup {x} ELSE old \ {x}
    <3>1. \A z \in Orders \ {x} : z \in Solo(e, y) <=> z \in old
      BY <1>6 DEF Solo
    <3>2. x \in Solo(e, y) <=> o \in old
      BY <1>6 DEF Solo
    <3>3. Solo(e, y) \subseteq Orders
      BY DEF Solo
    <3> HIDE DEF old
    <3> QED
      BY <2>0, <3>1, <3>2, <3>3
  <2> HIDE DEF old
  <2>3. CASE o \in old
    <3>1. SumFunctionOnSet(Draws(e), old \cup {x}) = SumFunctionOnSet(Draws(d), old \cup {x})
      BY <1>11, <2>0, <2>3
    <3>2. SumFunctionOnSet(Draws(d), old \cup {x}) = SumFunctionOnSet(Draws(d), old)
      <4>1. \A z \in old \cup {x} : Draws(d)[z] \in Int
        BY <1>10, <2>0
      <4>2. old \in SUBSET (old \cup {x}) /\ \A z \in (old \cup {x}) \ old : Draws(d)[z] = 0
        BY <1>10
      <4> QED
        BY <2>0, <4>1, <4>2, SumOfSupport
    <3> QED
      BY <2>1, <2>2, <2>3, <3>1, <3>2
  <2>4. CASE o \notin old
    <3>1. old \ {x} \in SUBSET old /\ IsFiniteSet(old \ {x})
      BY <2>0, FS_RemoveElement, FS_Subset
    <3>2. \A z \in old \ {x} : Draws(e)[z] = Draws(d)[z]
      BY <1>10, <2>0, <2>4
    <3>3. SumFunctionOnSet(Draws(e), old \ {x}) = SumFunctionOnSet(Draws(d), old \ {x})
      BY <3>1, <3>2, SumEqual
    <3>4. \A z \in old : Draws(d)[z] \in Nat
      BY <1>10, <2>0
    <3>5. /\ SumFunctionOnSet(Draws(d), old \ {x}) <= SumFunctionOnSet(Draws(d), old)
          /\ SumFunctionOnSet(Draws(d), old \ {x}) \in Nat
      BY <2>0, <3>1, <3>4, SumGrows
    <3>6. SumFunctionOnSet(Draws(d), old) \in Nat /\ Used(d)[y] \in Nat
      <4>1. old \in SUBSET old
        OBVIOUS
      <4>2. SumFunctionOnSet(Draws(d), old) \in Nat
        BY <2>0, <3>4, <4>1, SumGrows
      <4> QED
        BY <1>1, <4>2, NothingNegative
    <3> QED
      BY <2>1, <2>2, <2>4, <3>3, <3>5, <3>6
  <2> QED
    BY <2>3, <2>4
<1> QED
  BY <1>1, <1>4, <1>5, <1>9, <1>12, <1>13, PaperSound

\* The units and the sources of o go to m, and o is cancelled.
MergedWith(d, e, o, m) ==
    /\ SameStock(d, e) /\ OthersSame(d, e, {o, m})
    /\ o # m /\ IsOpen(d, o) /\ IsOpen(d, m)
    /\ d.check[o].deducted /\ d.check[m].deducted
    /\ e.check[m].qty = d.check[m].qty + d.check[o].qty
    /\ e.check[m].sources = SourcesOf(d, m) \cup SourcesOf(d, o)
    /\ e.check[m].deducted /\ e.check[m].reversed = d.check[m].reversed
    /\ e.check[o].sources = d.check[o].sources
    /\ e.check[o].deducted /\ e.check[o].reversed
    /\ e.check[o].status # "absent" /\ e.check[m].status # "absent"
    /\ Consistent(e.check[o]) /\ Consistent(e.check[m])

\* So does a merge.
LEMMA MergeSound ==
    ASSUME NEW d \in Databases, NEW e \in Databases, NEW o \in Orders, NEW m \in Orders,
           MergedWith(d, e, o, m), Sound(d)
    PROVE  Sound(e) /\ Frozen(d, e)
<1>1. /\ IsFiniteSet(Orders) /\ SameStock(d, e) /\ o # m
      /\ d.check[o].qty \in Nat /\ d.check[m].qty \in Nat
      /\ ChecksConsistent(d) /\ ChecksPosted(d) /\ RowsAddUp(d)
  BY CheckShape, Finite DEF MergedWith, Sound
<1>2. \A y \in Orders \ {o, m} : e.check[y] = d.check[y]
  BY DEF MergedWith, OthersSame
<1>3. ~d.check[o].reversed /\ ~d.check[m].reversed
  BY <1>1 DEF MergedWith, IsOpen, OPEN_ORDER_STATUSES, ChecksConsistent, Consistent, Ended
<1>4. Frozen(d, e)
  BY <1>2, <1>3 DEF Frozen
<1>5. ChecksConsistent(e)
  BY <1>1, <1>2 DEF MergedWith, ChecksConsistent
<1>6. /\ SourcesOf(e, m) = SourcesOf(d, m) \cup SourcesOf(d, o)
      /\ \A y \in Orders \ {m} : SourcesOf(e, y) = SourcesOf(d, y)
  <2>1. SourcesOf(e, m) = SourcesOf(d, m) \cup SourcesOf(d, o)
    <3>1. SourcesOf(d, m) \cup SourcesOf(d, o) # {}
      BY SourcesExist
    <3>2. e.check[m].sources = SourcesOf(d, m) \cup SourcesOf(d, o)
      BY DEF MergedWith
    <3>3. SourcesOf(e, m) = e.check[m].sources
      BY <3>1, <3>2 DEF SourcesOf
    <3> QED
      BY <3>2, <3>3
  <2>2. SourcesOf(e, o) = SourcesOf(d, o)
    BY DEF MergedWith, SourcesOf
  <2> QED
    BY <1>2, <2>1, <2>2, SameClaim
<1>7. Used(e) = Used(d) /\ Back(e) = Back(d) /\ \A key : IsPosted(e, key) = IsPosted(d, key)
  BY <1>1, SameValues
<1>8. ~IsPosted(d, ReverseKey(o)) /\ ~IsPosted(d, ReverseKey(m))
  BY <1>1, <1>3 DEF ChecksPosted
<1>9. ChecksPosted(e)
  <2> SUFFICES ASSUME NEW y \in Orders
               PROVE  /\ IsPosted(e, OrderKey(y)) =>
                            y \in SourcesOf(e, y) /\ e.check[y].status # "absent"
                      /\ e.check[y].deducted =>
                            \A z \in SourcesOf(e, y) : IsPosted(e, OrderKey(z))
                      /\ IsPosted(e, ReverseKey(y)) => e.check[y].reversed
    BY DEF ChecksPosted
  <2>1. CASE y \notin {o, m}
    BY <1>1, <1>2, <1>6, <1>7, <2>1 DEF ChecksPosted
  <2>2. CASE y = o
    BY <1>1, <1>6, <1>7, <1>8, <2>2 DEF ChecksPosted, MergedWith
  <2>3. CASE y = m
    BY <1>1, <1>6, <1>7, <1>8, <2>3 DEF ChecksPosted, MergedWith
  <2> QED
    BY <2>1, <2>2, <2>3
<1>10. /\ \A y \in Orders : Draws(d)[y] \in Nat /\ Draws(e)[y] \in Int
       /\ \A y \in Orders \ {o, m} : Draws(e)[y] = Draws(d)[y]
       /\ Draws(e)[o] + Draws(e)[m] = Draws(d)[o] + Draws(d)[m] /\ Draws(e)[o] = 0
  <2>1. \A y \in Orders : Draws(d)[y] \in Nat /\ Draws(e)[y] \in Int
    BY <1>1, NothingNegative, FunctionShapes
  <2>2. ASSUME NEW y \in Orders
        PROVE  /\ Draws(d)[y] = Back(d)[y] + (IF ToReverse(d, y) THEN d.check[y].qty ELSE 0)
               /\ Draws(e)[y] = Back(d)[y] + (IF ToReverse(e, y) THEN e.check[y].qty ELSE 0)
               /\ Back(d)[y] \in Int
    BY <1>7, FunctionShapes
  <2>3. ASSUME NEW y \in Orders \ {o, m} PROVE Draws(e)[y] = Draws(d)[y]
    <3>1. e.check[y] = d.check[y]
      BY <1>2
    <3> QED
      BY <2>2, <3>1 DEF ToReverse
  <2>4. ToReverse(d, o) /\ ToReverse(d, m) /\ ~ToReverse(e, o) /\ ToReverse(e, m)
    BY <1>3 DEF ToReverse, MergedWith
  <2>5. Back(d)[o] = 0 /\ Back(d)[m] = 0
    BY <1>8, FunctionShapes DEF Changed
  <2>6. e.check[m].qty = d.check[m].qty + d.check[o].qty
    BY DEF MergedWith
  <2>7. /\ Draws(d)[o] = 0 + d.check[o].qty /\ Draws(d)[m] = 0 + d.check[m].qty
        /\ Draws(e)[o] = 0 + 0 /\ Draws(e)[m] = 0 + (d.check[m].qty + d.check[o].qty)
    BY <2>2, <2>4, <2>5, <2>6
  <2>8. Draws(e)[o] + Draws(e)[m] = Draws(d)[o] + Draws(d)[m] /\ Draws(e)[o] = 0
    BY <1>1, <2>7
  <2> QED
    BY <2>1, <2>3, <2>8
<1>11. ASSUME NEW os \in SUBSET Orders, o \in os, m \in os
       PROVE  SumFunctionOnSet(Draws(e), os) = SumFunctionOnSet(Draws(d), os)
  <2>1. IsFiniteSet(os)
    BY <1>1, FS_Subset
  <2>2. SameOn(os \ {o, m}, Draws(d), Draws(e))
    BY <1>10 DEF SameOn
  <2>3. \A y \in os : Draws(d)[y] \in Int /\ Draws(e)[y] \in Int
    BY <1>10
  <2> QED
    BY <1>1, <1>10, <1>11, <2>1, <2>2, <2>3, SumMoved
<1>12. ChecksStand(e)
  BY <1>7, <1>11 DEF Sound, ChecksStand
<1>13. SharesFit(e)
  <2> SUFFICES ASSUME NEW y \in Orders
               PROVE  SumFunctionOnSet(Draws(e), Solo(e, y)) <= Used(d)[y]
    BY <1>7 DEF SharesFit
  <2> DEFINE old == Solo(d, y)
  <2>0. old \in SUBSET Orders /\ IsFiniteSet(old)
    <3>1. old \in SUBSET Orders
      BY DEF Solo
    <3> QED
      BY <1>1, <3>1, FS_Subset
  <2>1. SumFunctionOnSet(Draws(d), old) <= Used(d)[y]
    BY DEF Sound, SharesFit
  <2>2. Solo(e, y) = IF o \in old /\ m \in old THEN old ELSE old \ {m}
    <3>1. \A z \in Orders \ {m} : z \in Solo(e, y) <=> z \in old
      BY <1>6 DEF Solo
    <3>2. m \in Solo(e, y) <=> o \in old /\ m \in old
      <4>1. SourcesOf(d, m) # {} /\ SourcesOf(d, o) # {}
        BY SourcesExist
      <4> QED
        BY <1>6, <4>1 DEF Solo
    <3>3. Solo(e, y) \subseteq Orders
      BY DEF Solo
    <3> HIDE DEF old
    <3> QED
      BY <2>0, <3>1, <3>2, <3>3
  <2> HIDE DEF old
  <2>3. CASE o \in old /\ m \in old
    BY <1>11, <2>0, <2>1, <2>2, <2>3
  <2>4. CASE ~(o \in old /\ m \in old)
    <3>1. old \ {m} \in SUBSET old /\ IsFiniteSet(old \ {m})
      BY <2>0, FS_RemoveElement, FS_Subset
    <3>2. ASSUME NEW z \in old \ {m}
          PROVE  /\ Draws(e)[z] \in Int /\ Draws(d)[z] \in Int
                 /\ Draws(e)[z] <= Draws(d)[z]
      <4>1. z \in Orders /\ z # m
        BY <2>0
      <4>2. Draws(d)[z] \in Nat /\ Draws(e)[z] \in Int
        BY <1>10, <4>1
      <4>3. CASE z = o
        <5>1. Draws(e)[z] = 0
          BY <1>10, <4>3
        <5> QED
          BY <4>2, <5>1
      <4>4. CASE z # o
        <5>1. Draws(e)[z] = Draws(d)[z]
          BY <1>10, <4>1, <4>4
        <5> QED
          BY <4>2, <5>1
      <4> QED
        BY <4>3, <4>4
    <3>3. SumFunctionOnSet(Draws(e), old \ {m}) <= SumFunctionOnSet(Draws(d), old \ {m})
      BY <3>1, <3>2, SumOrder
    <3>4. \A z \in old : Draws(d)[z] \in Nat
      BY <1>10, <2>0
    <3>5. /\ SumFunctionOnSet(Draws(d), old \ {m}) <= SumFunctionOnSet(Draws(d), old)
          /\ SumFunctionOnSet(Draws(d), old \ {m}) \in Nat
      BY <2>0, <3>1, <3>4, SumGrows
    <3>6. SumFunctionOnSet(Draws(d), old) \in Nat /\ Used(d)[y] \in Nat
      <4>1. old \in SUBSET old
        OBVIOUS
      <4>2. SumFunctionOnSet(Draws(d), old) \in Nat
        BY <2>0, <3>4, <4>1, SumGrows
      <4> QED
        BY <1>1, <4>2, NothingNegative
    <3>7. SumFunctionOnSet(Draws(e), old \ {m}) \in Int
      <4>1. \A z \in old \ {m} : Draws(e)[z] \in Int
        BY <3>2
      <4> QED
        BY <3>1, <4>1, SumType
    <3> QED
      BY <2>1, <2>2, <2>4, <3>3, <3>5, <3>6, <3>7
  <2> QED
    BY <2>3, <2>4
<1> QED
  BY <1>1, <1>4, <1>5, <1>9, <1>12, <1>13, PaperSound

-------------------------------------------------------------------------------
(* What the rows under some orders' keys add up to.                        *)

\* The rows posted under the names of some orders.
RowsNamed(d, name, os) == {name[x] : x \in {y \in os : IsPosted(d, name[y])}}

\* They add up as the orders do.
LEMMA RowsTotal ==
    ASSUME NEW d \in Databases, NEW name, \A x \in Orders : name[x] \in Keys,
           \A x, y \in Orders : name[x] = name[y] => x = y,
           NEW f, \A x \in Orders : f[x] = Changed(d, name[x]),
           NEW os \in SUBSET Orders
    PROVE  /\ IsFiniteSet(RowsNamed(d, name, os))
           /\ TotalChange(d, RowsNamed(d, name, os)) = SumFunctionOnSet(f, os)
<1> DEFINE S == {y \in os : IsPosted(d, name[y])}
           keys == {name[x] : x \in S}
           g == [key \in keys |-> d.rows[key].change]
<1>1. IsFiniteSet(os) /\ IsFiniteSet(S) /\ S \in SUBSET os
  BY Finite, FS_Subset
<1>2. \A x \in os : f[x] \in Int
  BY RowShape
<1>3. \A x \in S : f[x] \in Int /\ g[name[x]] = f[x]
  BY <1>2 DEF Changed
<1>4. \A x \in os \ S : f[x] = 0
  BY DEF Changed
<1>5. \A x, y \in S : name[x] = name[y] => x = y
  OBVIOUS
<1> HIDE DEF S, g
<1>6. IsFiniteSet(keys) /\ SumFunctionOnSet(g, keys) = SumFunctionOnSet(f, S)
  BY <1>1, <1>3, <1>5, SumRenamed
<1>7. SumFunctionOnSet(f, os) = SumFunctionOnSet(f, S)
  BY <1>1, <1>2, <1>4, SumOfSupport
<1> QED
  BY <1>6, <1>7 DEF TotalChange, RowsNamed, S, g

\* The same for what they say of a lot.
LEMMA RowsLot ==
    ASSUME NEW d \in Databases, NEW name, \A x \in Orders : name[x] \in Keys,
           \A x, y \in Orders : name[x] = name[y] => x = y, NEW l \in Batches,
           NEW f, \A x \in Orders : f[x] = ChangedLot(d, name[x], l),
           NEW os \in SUBSET Orders
    PROVE  LotChange(d, RowsNamed(d, name, os), l) = SumFunctionOnSet(f, os)
<1> DEFINE S == {y \in os : IsPosted(d, name[y])}
           keys == {name[x] : x \in S}
           g == [key \in keys |-> d.rows[key].alloc[l]]
<1>1. IsFiniteSet(os) /\ IsFiniteSet(S) /\ S \in SUBSET os
  BY Finite, FS_Subset
<1>2. \A x \in os : f[x] \in Int
  BY RowShape
<1>3. \A x \in S : f[x] \in Int /\ g[name[x]] = f[x]
  BY <1>2 DEF ChangedLot
<1>4. \A x \in os \ S : f[x] = 0
  BY DEF ChangedLot
<1>5. \A x, y \in S : name[x] = name[y] => x = y
  OBVIOUS
<1> HIDE DEF S, g
<1>6. SumFunctionOnSet(g, keys) = SumFunctionOnSet(f, S)
  BY <1>1, <1>3, <1>5, SumRenamed
<1>7. SumFunctionOnSet(f, os) = SumFunctionOnSet(f, S)
  BY <1>1, <1>2, <1>4, SumOfSupport
<1> QED
  BY <1>6, <1>7 DEF LotChange, RowsNamed, S, g

OrderRows(d, os) == {OrderKey(x) : x \in {y \in os : d.rows[OrderKey(y)] # NoMove}}

ReverseRows(d, os) == {ReverseKey(x) : x \in {y \in os : d.rows[ReverseKey(y)] # NoMove}}

\* The deductions of some orders add up to what was taken for them.
LEMMA OrdersTotal ==
    ASSUME NEW d \in Databases, NEW os \in SUBSET Orders
    PROVE  /\ IsFiniteSet(OrderRows(d, os))
           /\ TotalChange(d, OrderRows(d, os)) = -SumFunctionOnSet(Used(d), os)
           /\ \A l \in Batches :
                 LotChange(d, OrderRows(d, os), l) = -SumFunctionOnSet(UsedLot(d, l), os)
<1> DEFINE name == [x \in Orders |-> OrderKey(x)]
           f == [x \in Orders |-> Changed(d, OrderKey(x))]
<1>1. OrderRows(d, os) = RowsNamed(d, name, os)
  <2>1. \A x \in os : name[x] = OrderKey(x)
    OBVIOUS
  <2> HIDE DEF name
  <2> QED
    BY <2>1 DEF OrderRows, RowsNamed, IsPosted
<1>2. /\ \A x \in Orders : name[x] \in Keys
      /\ \A x, y \in Orders : name[x] = name[y] => x = y
  BY KeysDiffer
<1>3. \A x \in Orders : f[x] = Changed(d, name[x])
  OBVIOUS
<1>4. \A x \in os : f[x] = -Used(d)[x] /\ Used(d)[x] \in Int
  BY FunctionShapes, RowShape, KeysDiffer
<1>5. IsFiniteSet(os)
  BY Finite, FS_Subset
<1>9. ASSUME NEW x \in Orders PROVE name[x] = OrderKey(x)
  OBVIOUS
<1> HIDE DEF name, f
<1>6. IsFiniteSet(OrderRows(d, os)) /\ TotalChange(d, OrderRows(d, os)) = SumFunctionOnSet(f, os)
  BY <1>1, <1>2, <1>3, RowsTotal
<1>7. SumFunctionOnSet(f, os) = -SumFunctionOnSet(Used(d), os)
  BY <1>4, <1>5, SumNegative
<1>8. ASSUME NEW l \in Batches
      PROVE  LotChange(d, OrderRows(d, os), l) = -SumFunctionOnSet(UsedLot(d, l), os)
  <2> DEFINE g == [x \in Orders |-> ChangedLot(d, OrderKey(x), l)]
  <2>1. \A x \in Orders : g[x] = ChangedLot(d, name[x], l)
    BY <1>9
  <2>2. \A x \in os : UsedLot(d, l)[x] \in Int /\ g[x] = -UsedLot(d, l)[x]
    BY FunctionShapes, RowShape, KeysDiffer
  <2> HIDE DEF g
  <2>3. LotChange(d, OrderRows(d, os), l) = SumFunctionOnSet(g, os)
    BY <1>1, <1>2, <2>1, RowsLot
  <2>4. SumFunctionOnSet(g, os) = -SumFunctionOnSet(UsedLot(d, l), os)
    BY <1>5, <2>2, SumNegative
  <2> QED
    BY <2>3, <2>4
<1> QED
  BY <1>6, <1>7, <1>8

\* The reversals of some checks add up to what came back from them.
LEMMA ReversalsTotal ==
    ASSUME NEW d \in Databases, NEW os \in SUBSET Orders
    PROVE  /\ IsFiniteSet(ReverseRows(d, os))
           /\ TotalChange(d, ReverseRows(d, os)) = SumFunctionOnSet(Back(d), os)
           /\ \A l \in Batches :
                 LotChange(d, ReverseRows(d, os), l) = SumFunctionOnSet(BackLot(d, l), os)
<1> DEFINE name == [x \in Orders |-> ReverseKey(x)]
<1>1. ReverseRows(d, os) = RowsNamed(d, name, os)
  <2>1. \A x \in os : name[x] = ReverseKey(x)
    OBVIOUS
  <2> HIDE DEF name
  <2> QED
    BY <2>1 DEF ReverseRows, RowsNamed, IsPosted
<1>2. /\ \A x \in Orders : name[x] \in Keys
      /\ \A x, y \in Orders : name[x] = name[y] => x = y
  BY KeysDiffer
<1>3. ASSUME NEW x \in Orders
      PROVE  /\ Back(d)[x] = Changed(d, name[x])
             /\ \A l \in Batches : BackLot(d, l)[x] = ChangedLot(d, name[x], l)
  BY FunctionShapes
<1> HIDE DEF name
<1>4. /\ IsFiniteSet(ReverseRows(d, os))
      /\ TotalChange(d, ReverseRows(d, os)) = SumFunctionOnSet(Back(d), os)
  BY <1>1, <1>2, <1>3, RowsTotal
<1>5. ASSUME NEW l \in Batches
      PROVE  LotChange(d, ReverseRows(d, os), l) = SumFunctionOnSet(BackLot(d, l), os)
  <2>1. \A x \in Orders : BackLot(d, l)[x] = ChangedLot(d, name[x], l)
    BY <1>3
  <2> QED
    BY <1>1, <1>2, <2>1, RowsLot
<1> QED
  BY <1>4, <1>5

\* The checks a check draws on, and those beside it, are orders.
LEMMA RelatedOrders ==
    ASSUME NEW d \in Databases, NEW o \in Orders
    PROVE  SourcesOf(d, o) \in SUBSET Orders /\ Related(d, o) \in SUBSET Orders
BY CheckShape DEF Related

\* What the handler reads off the rows.
LEMMA RowsOfCheck ==
    ASSUME NEW d \in Databases, NEW o \in Orders
    PROVE  /\ Originals(d, o) = OrderRows(d, SourcesOf(d, o))
           /\ Reversals(d, o) = ReverseRows(d, Related(d, o))
           /\ TotalChange(d, Originals(d, o)) = -SumFunctionOnSet(Used(d), SourcesOf(d, o))
           /\ TotalChange(d, Reversals(d, o)) = SumFunctionOnSet(Back(d), Related(d, o))
           /\ \A l \in Batches :
                 /\ LotChange(d, Originals(d, o), l)
                      = -SumFunctionOnSet(UsedLot(d, l), SourcesOf(d, o))
                 /\ LotChange(d, Reversals(d, o), l)
                      = SumFunctionOnSet(BackLot(d, l), Related(d, o))
<1>1. Originals(d, o) = OrderRows(d, SourcesOf(d, o))
  BY DEF Originals, OrderRows
<1>2. Reversals(d, o) = ReverseRows(d, Related(d, o))
  BY DEF Reversals, ReverseRows
<1>3. SourcesOf(d, o) \in SUBSET Orders /\ Related(d, o) \in SUBSET Orders
  BY RelatedOrders
<1> QED
  BY <1>1, <1>2, <1>3, OrdersTotal, ReversalsTotal

-------------------------------------------------------------------------------
(* How much each lot gives, and gets back.                                 *)

\* The code's clip is the part that ordered taking is about.
LEMMA ClipIsPart ==
    ASSUME NEW x, NEW most
    PROVE  Clip(x, most) = Part(x, most)
BY DEF Clip, Part

\* A part lies between nothing and the most there is.
LEMMA PartBounds ==
    ASSUME NEW x, NEW most \in Nat
    PROVE  Part(x, most) \in 0..most
BY DEF Part

\* FEFO takes what was asked for, from each lot at most what is in it.
LEMMA FefoGives ==
    ASSUME NEW s \in Databases, NEW n \in Nat, n <= InLots(s, Branch, Batches)
    PROVE  /\ Fefo(s, Branch, Batches, n) \in Allocations
           /\ \A l \in Batches : /\ Fefo(s, Branch, Batches, n)[l] <= 0
                                 /\ s.lots[<<Branch, l>>] + Fefo(s, Branch, Batches, n)[l] \in Nat
           /\ SumFunctionOnSet(Fefo(s, Branch, Batches, n), Batches) = -n
<1> DEFINE held == Held(s, Branch)
           before == [l \in Batches |-> {k \in Batches : k < l}]
           take == [l \in Batches |-> Part(n - SumFunctionOnSet(held, before[l]), held[l])]
           alloc == Fefo(s, Branch, Batches, n)
<1>1. IsFiniteSet(Batches) /\ Batches \subseteq Nat /\ Branch \in Branches
  BY BatchAssumption, Finite
<1>2. \A l \in Batches : held[l] = s.lots[<<Branch, l>>] /\ held[l] \in Nat
  BY <1>1, HeldType
<1>3. ASSUME NEW l \in Batches PROVE alloc[l] = -take[l]
  <2>1. alloc[l] = -Clip(n - InLots(s, Branch, {k \in Batches : k < l}), s.lots[<<Branch, l>>])
    BY DEF Fefo
  <2>2. InLots(s, Branch, before[l]) = SumFunctionOnSet(held, before[l])
    BY InLotsIsSum
  <2> QED
    BY <1>2, <2>1, <2>2, ClipIsPart
<1>4. IsOrder(before, Batches)
  <2>1. \A k, l \in Batches : k \in before[l] <=> k < l
    OBVIOUS
  <2>2. \A l \in Batches : before[l] \subseteq Batches
    OBVIOUS
  <2> HIDE DEF before
  <2>3. \A l \in Batches : l \notin before[l]
    BY <1>1, <2>1
  <2>4. ASSUME NEW k \in Batches, NEW l \in Batches, k \in before[l], NEW j \in before[k]
        PROVE  j \in before[l]
    <3>1. j \in Batches /\ j < k /\ k < l
      BY <2>1, <2>2, <2>4
    <3>2. j \in Nat /\ k \in Nat /\ l \in Nat
      BY <1>1, <3>1
    <3> QED
      BY <2>1, <3>1, <3>2
  <2>5. \A k, l \in Batches : k = l \/ k \in before[l] \/ l \in before[k]
    BY <1>1, <2>1
  <2> QED
    BY <2>2, <2>3, <2>4, <2>5 DEF IsOrder
<1>5. \A l \in Batches : take[l] = Part(n - SumFunctionOnSet(held, before[l]), held[l])
  OBVIOUS
<1>6. n <= SumFunctionOnSet(held, Batches)
  BY InLotsIsSum
<1>7. alloc = [l \in Batches |-> alloc[l]]
  BY DEF Fefo
<1> HIDE DEF held, before, take, alloc
<1>8. ASSUME NEW l \in Batches PROVE take[l] \in 0..held[l]
  BY <1>2, <1>5, PartBounds
<1>9. SumFunctionOnSet(take, Batches) = n
  <2>1. \A l \in Batches : held[l] \in Nat
    BY <1>2
  <2> QED
    BY <1>1, <1>4, <1>5, <1>6, <2>1, TakenInOrder
<1>10. \A l \in Batches : /\ alloc[l] \in Int /\ alloc[l] <= 0
                          /\ s.lots[<<Branch, l>>] + alloc[l] \in Nat
  BY <1>2, <1>3, <1>8
<1>11. SumFunctionOnSet(alloc, Batches) = -n
  <2>1. \A l \in Batches : take[l] \in Int /\ alloc[l] = -take[l]
    BY <1>2, <1>3, <1>8
  <2> QED
    BY <1>1, <1>9, <2>1, SumNegative
<1>12. alloc \in Allocations
  BY <1>7, <1>10 DEF Allocations
<1> QED
  BY <1>10, <1>11, <1>12 DEF alloc

\* What of a lot has not gone back, of what was taken for the orders of a check.
LEMMA AvailableIs ==
    ASSUME NEW s \in Databases, RowsAddUp(s), NEW o \in Orders, NEW l \in Batches
    PROVE  /\ Available(s, o, l) \in Nat
           /\ SumFunctionOnSet(UsedLot(s, l), SourcesOf(s, o)) \in Nat
           /\ SumFunctionOnSet(BackLot(s, l), Related(s, o)) \in Nat
           /\ Available(s, o, l) > 0 =>
                Available(s, o, l) = SumFunctionOnSet(UsedLot(s, l), SourcesOf(s, o))
                                        - SumFunctionOnSet(BackLot(s, l), Related(s, o))
           /\ Available(s, o, l) >= SumFunctionOnSet(UsedLot(s, l), SourcesOf(s, o))
                                        - SumFunctionOnSet(BackLot(s, l), Related(s, o))
<1> DEFINE used == SumFunctionOnSet(UsedLot(s, l), SourcesOf(s, o))
           back == SumFunctionOnSet(BackLot(s, l), Related(s, o))
<1>1. LotChange(s, Originals(s, o), l) = -used /\ LotChange(s, Reversals(s, o), l) = back
  BY RowsOfCheck
<1>2. used \in Nat
  <2>1. \A x \in Orders : UsedLot(s, l)[x] \in Nat
    BY NothingNegative
  <2> QED
    BY <2>1, RelatedOrders, Finite, SumGrows
<1>3. back \in Nat
  <2>1. \A x \in Orders : BackLot(s, l)[x] \in Nat
    BY NothingNegative
  <2> QED
    BY <2>1, RelatedOrders, Finite, SumGrows
<1>4. Available(s, o, l) = IF -(-used) - back > 0 THEN -(-used) - back ELSE 0
  BY <1>1 DEF Available
<1> HIDE DEF used, back
<1>5. /\ Available(s, o, l) \in Nat /\ Available(s, o, l) >= used - back
      /\ Available(s, o, l) > 0 => Available(s, o, l) = used - back
  BY <1>2, <1>3, <1>4
<1> QED
  BY <1>2, <1>3, <1>5 DEF used, back

\* A lot that has something left was named by a row.
LEMMA RankIs ==
    ASSUME NEW s \in Databases, RowsAddUp(s), NEW o \in Orders, NEW l \in Named(s, o)
    PROVE  l \in Batches /\ Rank(s, o, l) \in Nat
<1> DEFINE keys == Originals(s, o)
           naming == {k \in keys : s.rows[k].alloc[l] # 0}
           vers == {s.rows[key].ver : key \in naming}
           f == [key \in keys |-> s.rows[key].alloc[l]]
<1>1. l \in Batches /\ Available(s, o, l) > 0
  BY DEF Named
<1>2. keys = OrderRows(s, SourcesOf(s, o)) /\ SourcesOf(s, o) \in SUBSET Orders
  BY RowsOfCheck, RelatedOrders
<1>3. IsFiniteSet(keys) /\ \A key \in keys : s.rows[key] \in Moves
  <2>1. IsFiniteSet(keys)
    BY <1>2, OrdersTotal
  <2>2. \A key \in keys : key \in Keys /\ s.rows[key] # NoMove
    BY <1>2, KeysDiffer DEF OrderRows
  <2> QED
    BY <2>1, <2>2 DEF Databases
<1>4. vers # {}
  <2> SUFFICES ASSUME naming = {} PROVE FALSE
    OBVIOUS
  <2>1. \A key \in keys : f[key] = 0
    OBVIOUS
  <2>2. LotChange(s, keys, l) = SumFunctionOnSet(f, keys)
    BY DEF LotChange
  <2> HIDE DEF f, keys
  <2>3. LotChange(s, keys, l) = 0
    BY <1>3, <2>1, <2>2, SumZero
  <2>4. LotChange(s, keys, l) = -SumFunctionOnSet(UsedLot(s, l), SourcesOf(s, o))
    BY <1>1, RowsOfCheck DEF keys
  <2> QED
    BY <1>1, <2>3, <2>4, AvailableIs
<1>5. vers \subseteq Nat
  BY <1>3 DEF Moves
<1>6. Rank(s, o, l) = CHOOSE v \in vers : \A w \in vers : v <= w
  BY DEF Rank
<1> HIDE DEF vers
<1>7. \E v \in vers : \A w \in vers : v <= w
  BY <1>4, <1>5, Least
<1>8. Rank(s, o, l) \in vers
  BY <1>6, <1>7
<1> QED
  BY <1>1, <1>5, <1>8

\* All of the check's stock goes back, into each lot at most what is left there.
LEMMA RestoredGives ==
    ASSUME NEW s \in Databases, RowsAddUp(s), NEW o \in Orders,
           AvailableIn(s, o, Batches) >= s.check[o].qty
    PROVE  /\ Restored(s, o) \in Allocations
           /\ \A l \in Batches :
                 /\ Restored(s, o)[l] >= 0
                 /\ Restored(s, o)[l] # 0 =>
                       Restored(s, o)[l] + SumFunctionOnSet(BackLot(s, l), Related(s, o))
                           <= SumFunctionOnSet(UsedLot(s, l), SourcesOf(s, o))
           /\ SumFunctionOnSet(Restored(s, o), Batches) = s.check[o].qty
<1> DEFINE n == s.check[o].qty
           held == [l \in Batches |-> Available(s, o, l)]
           lots == Named(s, o)
           before == [l \in lots |-> {k \in lots : Precedes(s, o, k, l)}]
           put == Restored(s, o)
<1>1. IsFiniteSet(Batches) /\ Batches \subseteq Nat /\ n \in Nat
  BY BatchAssumption, CheckShape
<1>2. /\ \A l \in Batches : held[l] = Available(s, o, l) /\ held[l] \in Nat
      /\ \A l \in Batches \ lots : held[l] = 0
  BY AvailableIs DEF Named
<1>3. lots \in SUBSET Batches /\ IsFiniteSet(lots)
  <2>1. lots \in SUBSET Batches
    BY DEF Named
  <2> QED
    BY <1>1, <2>1, FS_Subset
<1>4. /\ \A ls : AvailableIn(s, o, ls) = SumFunctionOnSet(held, ls)
      /\ n <= SumFunctionOnSet(held, Batches)
  BY <1>1 DEF AvailableIn
<1>5. ASSUME NEW l \in lots
      PROVE  put[l] = Part(n - SumFunctionOnSet(held, before[l]), held[l])
  <2>1. before[l] = {k \in Named(s, o) : Precedes(s, o, k, l)} /\ held[l] = Available(s, o, l)
    BY <1>3
  <2>2. l \in Batches /\ l \in Named(s, o)
    BY <1>3
  <2>3. put[l] = Clip(n - AvailableIn(s, o, {k \in Named(s, o) : Precedes(s, o, k, l)}),
                      Available(s, o, l))
    BY <2>2 DEF Restored
  <2>4. AvailableIn(s, o, before[l]) = SumFunctionOnSet(held, before[l])
    BY <1>4
  <2> HIDE DEF before, held, n
  <2> QED
    BY <2>1, <2>3, <2>4, ClipIsPart
<1>6. /\ \A l \in Batches \ lots : put[l] = 0
      /\ put = [l \in Batches |-> put[l]]
  BY DEF Restored
<1>7. IsOrder(before, lots)
  <2>1. \A k, l \in lots : k \in before[l] <=> Precedes(s, o, k, l)
    OBVIOUS
  <2>2. \A l \in lots : before[l] \subseteq lots
    OBVIOUS
  <2> HIDE DEF before
  <2>3. ASSUME NEW l \in lots PROVE l \in Nat /\ Rank(s, o, l) \in Nat
    BY <1>1, RankIs
  <2> HIDE DEF lots
  <2>4. \A l \in lots : l \notin before[l]
    BY <2>1, <2>3 DEF Precedes
  <2>5. ASSUME NEW k \in lots, NEW l \in lots, k \in before[l], NEW j \in before[k]
        PROVE  j \in before[l]
    <3>1. j \in lots /\ Precedes(s, o, j, k) /\ Precedes(s, o, k, l)
      BY <2>1, <2>2, <2>5
    <3>2. /\ j \in Nat /\ k \in Nat /\ l \in Nat
          /\ Rank(s, o, j) \in Nat /\ Rank(s, o, k) \in Nat /\ Rank(s, o, l) \in Nat
      BY <2>3, <3>1
    <3>3. Precedes(s, o, j, l)
      BY <3>1, <3>2 DEF Precedes
    <3> QED
      BY <2>1, <3>1, <3>3
  <2>6. ASSUME NEW k \in lots, NEW l \in lots
        PROVE  k = l \/ k \in before[l] \/ l \in before[k]
    <3>1. k \in Nat /\ l \in Nat /\ Rank(s, o, k) \in Nat /\ Rank(s, o, l) \in Nat
      BY <2>3
    <3>2. k = l \/ Precedes(s, o, k, l) \/ Precedes(s, o, l, k)
      BY <3>1 DEF Precedes
    <3> QED
      BY <2>1, <3>2
  <2> QED
    BY <2>2, <2>4, <2>5, <2>6 DEF IsOrder
<1>8. SumFunctionOnSet(held, Batches) = SumFunctionOnSet(held, lots)
  <2>1. \A l \in Batches : held[l] \in Int
    BY <1>2
  <2> HIDE DEF held, lots
  <2> QED
    BY <1>1, <1>2, <1>3, <2>1, SumOfSupport
<1> HIDE DEF held, before, put, n, lots
<1>9. SumFunctionOnSet(put, lots) = n
  <2>1. \A l \in lots : held[l] \in Nat
    BY <1>2, <1>3
  <2> QED
    <3>1. n \in Nat /\ n <= SumFunctionOnSet(held, lots) /\ IsFiniteSet(lots)
      BY <1>1, <1>3, <1>4, <1>8
    <3>2. \A l \in lots : put[l] = Part(n - SumFunctionOnSet(held, before[l]), held[l])
      BY <1>5
    <3> QED
      BY ONLY <1>7, <2>1, <3>1, <3>2, TakenInOrder
<1>10. ASSUME NEW l \in Batches
       PROVE  put[l] \in 0..held[l]
  <2>1. CASE l \in lots
    BY <1>2, <1>5, <2>1, PartBounds
  <2>2. CASE l \notin lots
    BY <1>2, <1>6, <2>2
  <2> QED
    BY <2>1, <2>2
<1>11. ASSUME NEW l \in Batches PROVE put[l] \in Int /\ put[l] >= 0
  BY <1>2, <1>10
<1>12. put \in Allocations
  BY <1>6, <1>11 DEF Allocations
<1>13. SumFunctionOnSet(put, Batches) = n
  <2>1. \A l \in Batches : put[l] \in Int
    BY <1>11
  <2>2. \A l \in Batches \ lots : put[l] = 0
    BY <1>6
  <2> QED
    BY <1>1, <1>3, <1>9, <2>1, <2>2, SumOfSupport
<1>14. ASSUME NEW l \in Batches, put[l] # 0
       PROVE  put[l] + SumFunctionOnSet(BackLot(s, l), Related(s, o))
                  <= SumFunctionOnSet(UsedLot(s, l), SourcesOf(s, o))
  <2>1. held[l] = Available(s, o, l) /\ held[l] \in Nat /\ put[l] \in 0..held[l]
    BY <1>2, <1>10
  <2>2. Available(s, o, l) > 0
    BY <1>14, <2>1
  <2>3. /\ Available(s, o, l) = SumFunctionOnSet(UsedLot(s, l), SourcesOf(s, o))
                                  - SumFunctionOnSet(BackLot(s, l), Related(s, o))
        /\ SumFunctionOnSet(UsedLot(s, l), SourcesOf(s, o)) \in Nat
        /\ SumFunctionOnSet(BackLot(s, l), Related(s, o)) \in Nat
    BY <2>2, AvailableIs
  <2> QED
    BY <2>1, <2>3
<1> QED
  BY <1>11, <1>12, <1>13, <1>14 DEF put, n

-------------------------------------------------------------------------------
(* What each handler does to the database.                                 *)

\* A client inside a transaction, with all that is known of its snapshot.
Ready(c) ==
    /\ TypeOK /\ Sound(db)
    /\ snap[c] \in Databases /\ Sound(snap[c]) /\ Behind(snap[c], db)

\* What every step keeps: the stock stays or has a new version, reversed checks stay.
Keeps(d, e) ==
    /\ e \in Databases /\ Sound(e) /\ Frozen(d, e)
    /\ SameStock(d, e) \/ e.balance[Branch].ver = d.balance[Branch].ver + 1

\* One check is written.
LEMMA CheckWritten ==
    ASSUME NEW s \in Databases, NEW o \in Orders, NEW k \in Checks
    PROVE  /\ [s EXCEPT !.check[o] = k] \in Databases
           /\ SameStock(s, [s EXCEPT !.check[o] = k])
           /\ [s EXCEPT !.check[o] = k].check[o] = k
           /\ OthersSame(s, [s EXCEPT !.check[o] = k], {o})
<1>1. s = [balance |-> s.balance, lots |-> s.lots, rows |-> s.rows, check |-> s.check]
      /\ s.check \in [Orders -> Checks]
  BY DEF Databases
<1>2. [s EXCEPT !.check[o] = k]
         = [balance |-> s.balance, lots |-> s.lots, rows |-> s.rows,
            check |-> [s.check EXCEPT ![o] = k]]
  BY <1>1
<1>3. [s.check EXCEPT ![o] = k] \in [Orders -> Checks]
  BY <1>1
<1> QED
  BY <1>1, <1>2, <1>3 DEF Databases, SameStock, OthersSame

\* The check and the movement are written together.
LEMMA MovementWritten ==
    ASSUME NEW s \in Databases, NEW post \in Databases, post.check = s.check,
           NEW key, NEW n, NEW alloc, StockMoved(s, post, key, n, alloc),
           NEW new \in Databases, SameStock(post, new),
           NEW o \in Orders, OthersSame(post, new, {o})
    PROVE  StockMoved(s, new, key, n, alloc) /\ OthersSame(s, new, {o})
<1>1. StockMoved(s, new, key, n, alloc)
  BY DEF StockMoved, SameStock
<1>2. OthersSame(s, new, {o})
  BY DEF OthersSame
<1> QED
  BY <1>1, <1>2

\* A commit ends its own transaction and no other.
LEMMA SnapshotEnds ==
    ASSUME NEW c, NEW new, Commit(c, new)
    PROVE  snap' = [snap EXCEPT ![c] = NoSnapshot]
BY DEF Commit

\* Stock is deducted for an order and its check written: at the till, or on acceptance.
LEMMA DeductStep ==
    ASSUME NEW c \in Clients, Ready(c), NEW o \in Orders, NEW n \in Nat \ {0}, NEW k \in Checks,
           CanDeduct(snap[c], o, n), Commit(c, [Deduct(snap[c], o, n) EXCEPT !.check[o] = k]),
           snap[c].check[o].sources = {}, ~snap[c].check[o].deducted, ~snap[c].check[o].reversed,
           k.sources = {}, k.deducted, ~k.reversed, k.qty = n, k.status # "absent", Consistent(k)
    PROVE  Keeps(db, db')
<1> DEFINE s == snap[c]
           alloc == Fefo(s, Branch, Batches, n)
           post == Deduct(s, o, n)
           new == [post EXCEPT !.check[o] = k]
<1>1. TypeOK /\ Sound(db) /\ s \in Databases /\ Behind(s, db) /\ Sound(s) /\ db \in Databases
  BY DEF Ready, TypeOK
<1>2. n <= s.balance[Branch].qty /\ n <= InLots(s, Branch, Batches) /\ ~IsPosted(s, OrderKey(o))
  BY DEF CanDeduct, CanTake, IsPosted
<1>3. /\ alloc \in Allocations
      /\ \A l \in Batches : alloc[l] <= 0 /\ s.lots[<<Branch, l>>] + alloc[l] \in Nat
      /\ SumFunctionOnSet(alloc, Batches) = -n
  BY <1>1, <1>2, FefoGives
<1>4. s.balance[Branch].qty + (-n) \in Nat /\ -n \in Int /\ OrderKey(o) \in Keys
  BY <1>1, <1>2, Finite, KeysDiffer DEF Databases, Balances
<1>5. post = Post(s, OrderKey(o), Branch, -n, alloc)
  BY DEF Deduct
<1> HIDE DEF alloc, post
<1>6. post \in Databases /\ post.check = s.check /\ StockMoved(s, post, OrderKey(o), -n, alloc)
  BY <1>1, <1>3, <1>4, <1>5, PostEffect
<1>15. Commit(c, new)
  BY DEF post
<1>16. /\ new \in Databases /\ SameStock(post, new)
       /\ new.check[o] = k /\ OthersSame(post, new, {o})
  BY <1>6, CheckWritten
<1> HIDE DEF new
<1>7. StockMoved(s, new, OrderKey(o), -n, alloc) /\ OthersSame(s, new, {o})
  BY <1>1, <1>6, <1>16, MovementWritten
<1>8. new.check[o] # s.check[o]
  BY <1>16
<1>9. /\ db' \in Databases /\ SameStock(s, db)
      /\ StockMoved(db, db', OrderKey(o), -n, alloc) /\ OthersSame(db, db', {o})
      /\ db.check[o] = s.check[o] /\ db'.check[o] = k
  BY <1>1, <1>4, <1>7, <1>8, <1>15, <1>16, StockCommitted
<1>10. ~IsPosted(db, OrderKey(o))
  BY <1>2, <1>9 DEF IsPosted, SameStock
<1>11. TakenFor(db, db', o, n, alloc)
  BY <1>3, <1>9, <1>10 DEF TakenFor
<1>12. Sound(db')
  BY <1>1, <1>9, <1>11, TakenSound
<1>13. Frozen(db, db')
  BY <1>9 DEF Frozen, OthersSame
<1>14. db'.balance[Branch].ver = db.balance[Branch].ver + 1
  BY <1>9 DEF StockMoved
<1> QED
  BY <1>9, <1>12, <1>13, <1>14 DEF Keeps

\* A check is written and no stock is moved.
LEMMA PaperStep ==
    ASSUME NEW c \in Clients, Ready(c), NEW o \in Orders, NEW k \in Checks,
           Commit(c, [snap[c] EXCEPT !.check[o] = k]), k # snap[c].check[o]
    PROVE  /\ db' \in Databases /\ SameStock(db, db') /\ OthersSame(db, db', {o})
           /\ db.check[o] = snap[c].check[o] /\ db'.check[o] = k
<1> DEFINE s == snap[c]
           new == [s EXCEPT !.check[o] = k]
<1>1. TypeOK /\ s \in Databases
  BY DEF Ready
<1>2. new \in Databases /\ SameStock(s, new) /\ new.check[o] = k /\ OthersSame(s, new, {o})
  BY <1>1, CheckWritten
<1>3. Commit(c, new) /\ {o} \in SUBSET Orders /\ \A x \in {o} : new.check[x] # s.check[x]
  BY <1>2
<1> HIDE DEF new
<1>4. /\ db' \in Databases /\ SameStock(db, db') /\ OthersSame(db, db', {o})
      /\ \A x \in {o} : db.check[x] = s.check[x] /\ db'.check[x] = new.check[x]
  BY <1>1, <1>2, <1>3, PaperCommitted
<1> QED
  BY <1>2, <1>4

\* A check that changes, and claims what it claimed.
LEMMA StatusStep ==
    ASSUME NEW c \in Clients, Ready(c), NEW o \in Orders, NEW k \in Checks,
           Commit(c, [snap[c] EXCEPT !.check[o] = k]), k # snap[c].check[o],
           k.sources = snap[c].check[o].sources, k.deducted = snap[c].check[o].deducted,
           k.reversed = snap[c].check[o].reversed, ~k.reversed,
           k.deducted => k.qty = snap[c].check[o].qty,
           k.status # "absent", Consistent(k)
    PROVE  Keeps(db, db')
<1>1. /\ db' \in Databases /\ SameStock(db, db') /\ OthersSame(db, db', {o})
      /\ db.check[o] = snap[c].check[o] /\ db'.check[o] = k
  BY PaperStep
<1>2. db \in Databases /\ Sound(db)
  BY DEF Ready, TypeOK
<1>3. Frozen(db, db')
  BY <1>1 DEF Frozen, OthersSame
<1>4. ClaimsSame(db, db')
  BY <1>1 DEF ClaimsSame, OthersSame, ToReverse
<1>5. ChecksConsistent(db')
  BY <1>1, <1>2 DEF Sound, ChecksConsistent, OthersSame
<1>6. Sound(db')
  BY <1>1, <1>2, <1>3, <1>4, <1>5, ClaimsSound
<1> QED
  BY <1>1, <1>3, <1>6 DEF Keeps

\* The reversals of the related checks are those of the database, not only of the
\* snapshot: a check that was reversed does not change its sources.
LEMMA RelatedAgree ==
    ASSUME NEW s \in Databases, NEW d \in Databases, Sound(s), Behind(s, d), SameStock(s, d),
           NEW o \in Orders, d.check[o] = s.check[o], NEW l \in Batches
    PROVE  SumFunctionOnSet(BackLot(d, l), Related(d, o))
              = SumFunctionOnSet(BackLot(s, l), Related(s, o))
<1>1. SourcesOf(d, o) = SourcesOf(s, o)
  BY SameClaim
<1>2. BackLot(d, l) = BackLot(s, l)
  BY SameValues
<1> DEFINE back == BackLot(s, l)
           both == Related(s, o) \cap Related(d, o)
<1>3. Related(s, o) \in SUBSET Orders /\ Related(d, o) \in SUBSET Orders
      /\ IsFiniteSet(Related(s, o)) /\ IsFiniteSet(Related(d, o))
  <2>1. Related(s, o) \in SUBSET Orders /\ Related(d, o) \in SUBSET Orders
    BY RelatedOrders
  <2> QED
    BY <2>1, Finite, FS_Subset
<1>4. ASSUME NEW x \in Orders, x \notin both, x \in Related(s, o) \cup Related(d, o)
      PROVE  back[x] = 0
  <2>1. ~s.check[x].reversed
    <3> SUFFICES ASSUME s.check[x].reversed PROVE FALSE
      OBVIOUS
    <3>1. d.check[x] = s.check[x]
      BY DEF Behind
    <3> QED
      BY <1>1, <1>4, <3>1 DEF Related
  <2>2. ~IsPosted(s, ReverseKey(x))
    BY <2>1 DEF Sound, ChecksPosted
  <2> QED
    BY <2>2, FunctionShapes DEF ChangedLot
<1>5. \A x \in Orders : back[x] \in Int
  BY FunctionShapes
<1>6. SumFunctionOnSet(back, Related(s, o)) = SumFunctionOnSet(back, both)
  <2>1. both \in SUBSET Related(s, o) /\ \A x \in Related(s, o) : back[x] \in Int
    BY <1>3, <1>5
  <2>2. \A x \in Related(s, o) \ both : back[x] = 0
    BY <1>3, <1>4
  <2> HIDE DEF back, both
  <2> QED
    BY <1>3, <2>1, <2>2, SumOfSupport
<1>7. SumFunctionOnSet(back, Related(d, o)) = SumFunctionOnSet(back, both)
  <2>1. both \in SUBSET Related(d, o) /\ \A x \in Related(d, o) : back[x] \in Int
    BY <1>3, <1>5
  <2>2. \A x \in Related(d, o) \ both : back[x] = 0
    BY <1>3, <1>4
  <2> HIDE DEF back, both
  <2> QED
    BY <1>3, <2>1, <2>2, SumOfSupport
<1> QED
  BY <1>2, <1>6, <1>7

\* The stock of a check goes back and its check is written, as cancelled or refunded.
LEMMA ReverseStep ==
    ASSUME NEW c \in Clients, Ready(c), NEW o \in Orders, NEW k \in Checks,
           ToReverse(snap[c], o), CanReverse(snap[c], o),
           Commit(c, [Post(snap[c], ReverseKey(o), Branch, snap[c].check[o].qty,
                           Restored(snap[c], o)) EXCEPT !.check[o] = k]),
           k.sources = snap[c].check[o].sources, k.deducted, k.reversed,
           k.status # "absent", Consistent(k)
    PROVE  Keeps(db, db')
<1> DEFINE s == snap[c]
           n == s.check[o].qty
           alloc == Restored(s, o)
           post == Post(s, ReverseKey(o), Branch, n, alloc)
           new == [post EXCEPT !.check[o] = k]
<1>1. /\ TypeOK /\ Sound(db) /\ s \in Databases /\ Behind(s, db) /\ Sound(s)
      /\ db \in Databases /\ RowsAddUp(s)
  BY DEF Ready, TypeOK, Sound
<1>2. AvailableIn(s, o, Batches) >= n /\ n \in Nat /\ ReverseKey(o) \in Keys
  BY <1>1, CheckShape, KeysDiffer DEF CanReverse
<1>3. /\ alloc \in Allocations
      /\ \A l \in Batches :
            /\ alloc[l] >= 0
            /\ alloc[l] # 0 =>
                  alloc[l] + SumFunctionOnSet(BackLot(s, l), Related(s, o))
                      <= SumFunctionOnSet(UsedLot(s, l), SourcesOf(s, o))
      /\ SumFunctionOnSet(alloc, Batches) = n
  BY <1>1, <1>2, RestoredGives
<1> HIDE DEF alloc, n
<1>4. /\ s.balance[Branch].qty + n \in Nat
      /\ \A l \in Batches : s.lots[<<Branch, l>>] + alloc[l] \in Nat
  <2>1. s.balance[Branch].qty \in Nat /\ \A l \in Batches : s.lots[<<Branch, l>>] \in Nat
    BY <1>1, Finite DEF Databases, Balances, Lots
  <2>2. ASSUME NEW l \in Batches PROVE s.lots[<<Branch, l>>] + alloc[l] \in Nat
    <3>1. alloc[l] \in Int /\ alloc[l] >= 0 /\ s.lots[<<Branch, l>>] \in Nat
      BY <1>3, <2>1 DEF Allocations
    <3> QED
      BY <3>1
  <2> QED
    BY <1>2, <2>1, <2>2
<1>5. post \in Databases /\ post.check = s.check /\ StockMoved(s, post, ReverseKey(o), n, alloc)
  BY <1>1, <1>2, <1>3, <1>4, PostEffect
<1>8. Commit(c, new)
  BY DEF n, alloc
<1> HIDE DEF post
<1>15. /\ new \in Databases /\ SameStock(post, new)
       /\ new.check[o] = k /\ OthersSame(post, new, {o})
  BY <1>5, CheckWritten
<1> HIDE DEF new
<1>7. StockMoved(s, new, ReverseKey(o), n, alloc) /\ OthersSame(s, new, {o})
  BY <1>1, <1>5, <1>15, MovementWritten
<1>6. new.check[o] # s.check[o]
  BY <1>15 DEF ToReverse
<1>9. /\ db' \in Databases /\ SameStock(s, db)
      /\ StockMoved(db, db', ReverseKey(o), n, alloc) /\ OthersSame(db, db', {o})
      /\ db.check[o] = s.check[o] /\ db'.check[o] = k
  BY <1>1, <1>2, <1>6, <1>7, <1>8, <1>15, StockCommitted
<1>10. ASSUME NEW l \in Batches
       PROVE  /\ alloc[l] >= 0
              /\ alloc[l] # 0 =>
                    alloc[l] + SumFunctionOnSet(BackLot(db, l), Related(db, o))
                        <= SumFunctionOnSet(UsedLot(db, l), SourcesOf(db, o))
  <2>1. SumFunctionOnSet(BackLot(db, l), Related(db, o))
          = SumFunctionOnSet(BackLot(s, l), Related(s, o))
    BY <1>1, <1>9, RelatedAgree
  <2>2. UsedLot(db, l) = UsedLot(s, l) /\ SourcesOf(db, o) = SourcesOf(s, o)
    BY <1>9, SameValues, SameClaim
  <2> QED
    BY <1>3, <2>1, <2>2
<1>11. GivenBack(db, db', o, n, alloc)
  <2>1. ToReverse(db, o) /\ n = db.check[o].qty
    BY <1>9, SameClaim DEF n
  <2> QED
    BY <1>2, <1>3, <1>9, <1>10, <2>1 DEF GivenBack
<1>12. Sound(db')
  BY <1>1, <1>9, <1>11, GivenSound
<1>13. Frozen(db, db')
  BY <1>9 DEF Frozen, OthersSame, ToReverse
<1>14. db'.balance[Branch].ver = db.balance[Branch].ver + 1
  BY <1>9 DEF StockMoved
<1> QED
  BY <1>9, <1>12, <1>13, <1>14 DEF Keeps

-------------------------------------------------------------------------------
(* The handlers.                                                           *)

\* The check with another status.
Marked(check, status) == [check EXCEPT !.status = status]

\* What SetStatus writes.
LEMMA StatusWritten ==
    ASSUME NEW s \in Databases, NEW o \in Orders, NEW status \in Statuses
    PROVE  /\ SetStatus(s, o, status) = [s EXCEPT !.check[o] = Marked(s.check[o], status)]
           /\ Marked(s.check[o], status) \in Checks
           /\ Marked(s.check[o], status).status = status
           /\ Marked(s.check[o], status).qty = s.check[o].qty
           /\ Marked(s.check[o], status).sources = s.check[o].sources
           /\ Marked(s.check[o], status).deducted = s.check[o].deducted
           /\ Marked(s.check[o], status).reversed = s.check[o].reversed
           /\ Marked(s.check[o], status).online = s.check[o].online
           /\ Marked(s.check[o], status).table = s.check[o].table
<1>1. s.check \in [Orders -> Checks] /\ s.check[o] \in Checks
  BY DEF Databases
<1>2. SetStatus(s, o, status) = [s EXCEPT !.check[o] = Marked(s.check[o], status)]
  BY <1>1 DEF SetStatus, Marked
<1> QED
  BY <1>1, <1>2 DEF Marked, Checks

\* A check that is not reversed and stands for something takes another status.
LEMMA StatusChange ==
    ASSUME NEW c \in Clients, Ready(c), NEW o \in Orders, NEW status \in Statuses \ {"absent"},
           Commit(c, SetStatus(snap[c], o, status)), snap[c].check[o].status # status,
           snap[c].check[o].status # "absent", ~snap[c].check[o].reversed
    PROVE  Keeps(db, db')
<1> DEFINE s == snap[c]
           k == Marked(s.check[o], status)
<1>1. s \in Databases /\ Consistent(s.check[o])
  BY DEF Ready, Sound, ChecksConsistent
<1>2. /\ SetStatus(s, o, status) = [s EXCEPT !.check[o] = k]
      /\ k \in Checks /\ k.status = status /\ k.qty = s.check[o].qty
      /\ k.sources = s.check[o].sources /\ k.deducted = s.check[o].deducted
      /\ k.reversed = s.check[o].reversed /\ k.online = s.check[o].online
      /\ k.table = s.check[o].table
  BY <1>1, StatusWritten
<1> HIDE DEF k
<1>3. Commit(c, [s EXCEPT !.check[o] = k]) /\ k # s.check[o]
  BY <1>2
<1>4. Consistent(k)
  BY <1>1, <1>2 DEF Consistent
<1> QED
  BY <1>2, <1>3, <1>4, StatusStep

\* The check of an order whose request was never made.
LEMMA NoRequestYet ==
    ASSUME NEW c \in Clients, Ready(c), NEW o \in Orders, snap[c].check[o].status = "absent"
    PROVE  /\ snap[c].check[o] = NoCheck
           /\ NoCheck.sources = {} /\ ~NoCheck.deducted /\ ~NoCheck.reversed /\ NoCheck.qty = 0
BY DEF Ready, Sound, ChecksConsistent, Consistent, NoCheck

\* An open check is not reversed.
LEMMA OpenUnreversed ==
    ASSUME NEW c \in Clients, Ready(c), NEW o \in Orders,
           snap[c].check[o].status \notin Ended
    PROVE  ~snap[c].check[o].reversed
BY DEF Ready, Sound, ChecksConsistent, Consistent

\* An order placed at the till keeps the books.
LEMMA PlaceAtTillKeeps ==
    ASSUME NEW c \in Clients, Ready(c), NEW o \in Orders, PlaceAtTill(c, o)
    PROVE  Keeps(db, db')
<1> DEFINE s == snap[c]
           k == [NoCheck EXCEPT !.status = "pending", !.qty = Size[o],
                                !.deducted = TRUE, !.table = Seat[o]]
<1>1. /\ s.check[o].status = "absent" /\ CanDeduct(s, o, Size[o]) /\ o \in Placed
      /\ Commit(c, [Deduct(s, o, Size[o]) EXCEPT !.check[o] = k])
  BY DEF PlaceAtTill
<1>2. Size[o] \in Nat \ {0}
  BY <1>1, OrderAssumption
<1>3. /\ s.check[o] = NoCheck /\ NoCheck.sources = {}
      /\ ~NoCheck.deducted /\ ~NoCheck.reversed
  BY <1>1, NoRequestYet
<1>4. /\ k \in Checks /\ k.sources = {} /\ k.deducted /\ ~k.reversed /\ k.qty = Size[o]
      /\ k.status = "pending" /\ k.online = FALSE
  BY <1>1, <1>2 DEF Checks, NoCheck, Statuses
<1> HIDE DEF k
<1>5. Consistent(k)
  BY <1>2, <1>4 DEF Consistent
<1> QED
  BY <1>1, <1>2, <1>3, <1>4, <1>5, DeductStep

\* An order placed on the web keeps them: no stock moves yet.
LEMMA PlaceOnlineKeeps ==
    ASSUME NEW c \in Clients, Ready(c), NEW o \in Orders, PlaceOnline(c, o)
    PROVE  Keeps(db, db')
<1> DEFINE s == snap[c]
           k == [NoCheck EXCEPT !.status = "pending", !.qty = Size[o], !.online = TRUE]
<1>1. /\ s.check[o].status = "absent" /\ o \in Online
      /\ Commit(c, [s EXCEPT !.check[o] = k])
  BY DEF PlaceOnline
<1>2. Size[o] \in Nat \ {0}
  BY <1>1, OrderAssumption
<1>3. /\ s.check[o] = NoCheck /\ NoCheck.sources = {}
      /\ ~NoCheck.deducted /\ ~NoCheck.reversed /\ NoCheck.status = "absent"
  BY <1>1, NoRequestYet
<1>4. /\ k \in Checks /\ k.sources = {} /\ ~k.deducted /\ ~k.reversed /\ k.qty = Size[o]
      /\ k.status = "pending" /\ k.table = NoTable
      /\ k.deducted = FALSE /\ k.reversed = FALSE
      /\ NoCheck.deducted = FALSE /\ NoCheck.reversed = FALSE
  BY <1>1, <1>2 DEF Checks, NoCheck, Statuses
<1> HIDE DEF k
<1>5. Consistent(k) /\ k # s.check[o]
  BY <1>2, <1>3, <1>4 DEF Consistent
<1> QED
  BY <1>1, <1>2, <1>3, <1>4, <1>5, StatusStep

\* A rejected web order keeps them.
LEMMA RejectKeeps ==
    ASSUME NEW c \in Clients, Ready(c), NEW o \in Orders, RejectOnline(c, o)
    PROVE  Keeps(db, db')
<1>1. snap[c].check[o].status = "pending" /\ Commit(c, SetStatus(snap[c], o, "cancelled"))
  BY DEF RejectOnline
<1> QED
  BY <1>1, OpenUnreversed, StatusChange DEF Ended, Statuses

\* The kitchen's steps keep them.
LEMMA AdvanceKeeps ==
    ASSUME NEW c \in Clients, Ready(c), NEW o \in Orders, Advance(c, o)
    PROVE  Keeps(db, db')
<1>1. PICK step \in {<<"pending", "cooking">>, <<"cooking", "ready">>, <<"ready", "completed">>} :
          snap[c].check[o].status = step[1] /\ Commit(c, SetStatus(snap[c], o, step[2]))
  BY DEF Advance
<1>2. step[1] \notin Ended \cup {"absent"} /\ step[2] \in Statuses \ {"absent"} /\ step[1] # step[2]
  BY DEF Ended, Statuses
<1> QED
  BY <1>1, <1>2, OpenUnreversed, StatusChange

\* A check that is paid keeps them.
LEMMA SettleKeeps ==
    ASSUME NEW c \in Clients, Ready(c), NEW o \in Orders, Settle(c, o)
    PROVE  Keeps(db, db')
<1>1. /\ snap[c].check[o].status \in OPEN_ORDER_STATUSES
      /\ Commit(c, SetStatus(snap[c], o, "completed"))
  BY DEF Settle, IsOpen
<1> QED
  BY <1>1, OpenUnreversed, StatusChange DEF Ended, Statuses, OPEN_ORDER_STATUSES

\* A check that is opened again keeps them.
LEMMA ReopenKeeps ==
    ASSUME NEW c \in Clients, Ready(c), NEW o \in Orders, Reopen(c, o)
    PROVE  Keeps(db, db')
<1>1. snap[c].check[o].status = "completed" /\ Commit(c, SetStatus(snap[c], o, "ready"))
  BY DEF Reopen
<1> QED
  BY <1>1, OpenUnreversed, StatusChange DEF Ended, Statuses

\* A check is replaced.
Put(d, o, check) == [d EXCEPT !.check[o] = check]

\* The four collections.
Store(balance, lots, rows, checks) ==
    [balance |-> balance, lots |-> lots, rows |-> rows, check |-> checks]

\* Of two writes to the same check the second one stands.
LEMMA PutTwice ==
  ASSUME NEW b, NEW ls, NEW rs, NEW f, f \in [Orders -> Checks], NEW o \in Orders, NEW k \in Checks, NEW m
  PROVE  /\ Put(Store(b, ls, rs, f), o, k).check[o] = k
         /\ Put(Put(Store(b, ls, rs, f), o, k), o, m) = Put(Store(b, ls, rs, f), o, m)
<1>1. Put(Store(b, ls, rs, f), o, k) = Store(b, ls, rs, [f EXCEPT ![o] = k])
  BY DEF Put, Store
<1>2. Put(Store(b, ls, rs, f), o, m) = Store(b, ls, rs, [f EXCEPT ![o] = m])
  BY DEF Put, Store
<1> DEFINE g == [f EXCEPT ![o] = k]
<1>3. g \in [Orders -> Checks] /\ \A x \in Orders \ {o} : g[x] = f[x]
  OBVIOUS
<1>4. g[o] = k
  OBVIOUS
<1> HIDE DEF g
<1>5. Put(Store(b, ls, rs, g), o, m) = Store(b, ls, rs, [g EXCEPT ![o] = m])
  BY <1>3 DEF Put, Store
<1>6. [g EXCEPT ![o] = m] = [f EXCEPT ![o] = m]
  BY <1>3
<1>7. Store(b, ls, rs, g).check[o] = k
  BY <1>4 DEF Store
<1> QED
  BY <1>1, <1>2, <1>5, <1>6, <1>7 DEF g

\* A movement leaves the checks as they are.
LEMMA PostIsStore ==
    ASSUME NEW s \in Databases, NEW key, NEW n, NEW alloc
    PROVE  \E b, ls, rs : Post(s, key, Branch, n, alloc) = Store(b, ls, rs, s.check)
<1>1. s = Store(s.balance, s.lots, s.rows, s.check)
  BY DEF Databases, Store
<1> DEFINE bal == [s.balance EXCEPT ![Branch] = [qty |-> s.balance[Branch].qty + n, ver |-> s.balance[Branch].ver + 1]]
           lot == [p \in Branches \X Batches |->
                     IF p[1] = Branch THEN s.lots[p] + alloc[p[2]] ELSE s.lots[p]]
           row == [s.rows EXCEPT ![key] = Row(s, Branch, n, alloc)]
           s1 == Store(bal, s.lots, s.rows, s.check)
           s2 == Store(bal, lot, s.rows, s.check)
<1>2. Aggregated(s, Branch, n) = s1
  BY <1>1 DEF Aggregated, Store
<1>3. Allocated(s1, Branch, alloc) = s2
  BY DEF Allocated, Store
<1> HIDE DEF bal, lot
<1>4. Recorded(s2, key, Row(s, Branch, n, alloc)) = Store(bal, lot, row, s.check)
  BY DEF Recorded, Store
<1> QED
  BY <1>2, <1>3, <1>4 DEF Post

\* Acceptance deducts, unless the order was deducted before.
LEMMA AcceptKeeps ==
    ASSUME NEW c \in Clients, Ready(c), NEW o \in Orders, AcceptOnline(c, o)
    PROVE  Keeps(db, db')
<1> DEFINE s == snap[c]
           n == s.check[o].qty
<1>1. /\ s.check[o].online /\ s.check[o].status = "pending"
      /\ ~s.check[o].deducted => CanDeduct(s, o, n)
      /\ Commit(c, Accepted(s, o))
  BY DEF AcceptOnline
<1>2. s \in Databases /\ Consistent(s.check[o])
  BY DEF Ready, Sound, ChecksConsistent
<1>3. ~s.check[o].reversed
  BY <1>1, OpenUnreversed DEF Ended
<1>4. CASE s.check[o].deducted
  <2>1. Commit(c, SetStatus(s, o, "cooking"))
    BY <1>1, <1>4 DEF Accepted
  <2> QED
    BY <1>1, <1>3, <2>1, StatusChange DEF Statuses
<1>5. CASE ~s.check[o].deducted
  <2> DEFINE post == Deduct(s, o, n)
             k == [s.check[o] EXCEPT !.status = "cooking", !.deducted = TRUE]
  <2>1. /\ s.check[o].sources = {} /\ s.check[o].table = NoTable /\ n \in Nat \ {0}
        /\ s.check[o] \in Checks
    BY <1>1, <1>2, CheckShape DEF Consistent
  <2>2. k \in Checks /\ k.status = "cooking" /\ k.sources = {} /\ k.deducted
        /\ ~k.reversed /\ k.qty = n /\ k.table = NoTable
    BY <1>3, <2>1 DEF Checks, Statuses
  <2>3. Consistent(k)
    BY <2>1, <2>2 DEF Consistent
  <2>4. PICK b, ls, rs : post = Store(b, ls, rs, s.check)
    BY <1>2, PostIsStore DEF Deduct
  <2>5. [SetStatus(post, o, "cooking") EXCEPT !.check[o].deducted = TRUE] = Put(post, o, k)
    <3> DEFINE k1 == [s.check[o] EXCEPT !.status = "cooking"]
               mid == Put(post, o, k1)
    <3>1. s.check \in [Orders -> Checks] /\ post.check = s.check /\ k1 \in Checks
      BY <1>2, <2>1, <2>4 DEF Databases, Checks, Statuses, Store
    <3>2. [k1 EXCEPT !.deducted = TRUE] = k
      BY <2>1 DEF Checks
    <3> HIDE DEF post, k1, k
    <3>3. mid.check[o] = k1 /\ Put(mid, o, k) = Put(post, o, k)
      BY <2>4, <3>1, PutTwice
    <3>4. SetStatus(post, o, "cooking") = mid
      BY <3>1 DEF SetStatus, Put, k1
    <3> HIDE DEF mid
    <3>5. [mid EXCEPT !.check[o].deducted = TRUE]
            = Put(mid, o, [mid.check[o] EXCEPT !.deducted = TRUE])
      BY DEF Put
    <3> QED
      BY <3>2, <3>3, <3>4, <3>5
  <2>6. Commit(c, [Deduct(s, o, n) EXCEPT !.check[o] = k])
    BY <1>1, <1>5, <2>5 DEF Accepted, Put
  <2> HIDE DEF k
  <2> QED
    BY <1>1, <1>3, <1>5, <2>1, <2>2, <2>3, <2>6, DeductStep
<1> QED
  BY <1>4, <1>5

\* A check ends, and what was taken for it goes back.
LEMMA CloseKeeps ==
    ASSUME NEW c \in Clients, Ready(c), NEW o \in Orders, NEW status \in Ended,
           snap[c].check[o].status \notin Ended \cup {"absent"}, Close(c, o, status)
    PROVE  Keeps(db, db')
<1> DEFINE s == snap[c]
<1>1. s \in Databases /\ Consistent(s.check[o]) /\ status \in Statuses \ {"absent"}
  BY DEF Ready, Sound, ChecksConsistent, Ended, Statuses
<1>2. ~s.check[o].reversed
  BY OpenUnreversed
<1>3. CASE ~ToReverse(s, o)
  <2>1. Commit(c, SetStatus(s, o, status))
    BY <1>3 DEF Close
  <2> QED
    BY <1>1, <1>2, <2>1, StatusChange
<1>4. CASE ToReverse(s, o)
  <2> DEFINE post == Post(s, ReverseKey(o), Branch, s.check[o].qty, Restored(s, o))
             k == [s.check[o] EXCEPT !.reversed = TRUE, !.status = status]
  <2>1. CanReverse(s, o) /\ Commit(c, SetStatus(Reverse(s, o), o, status))
    BY <1>4 DEF Close
  <2>2. s.check \in [Orders -> Checks] /\ s.check[o] \in Checks
    BY <1>1 DEF Databases
  <2>7. PICK b, ls, rs : post = Store(b, ls, rs, s.check)
    BY <1>1, PostIsStore
  <2>3. SetStatus([post EXCEPT !.check[o].reversed = TRUE], o, status) = Put(post, o, k)
    <3> DEFINE k1 == [s.check[o] EXCEPT !.reversed = TRUE]
               mid == Put(post, o, k1)
    <3>2. k1 \in Checks /\ [k1 EXCEPT !.status = status] = k
      BY <2>2 DEF Checks
    <3> HIDE DEF post, k1, k
    <3>1. post.check = s.check /\ k1 \in Checks
      BY <2>7, <3>2 DEF Store
    <3>3. mid.check[o] = k1 /\ Put(mid, o, k) = Put(post, o, k)
      BY <2>2, <2>7, <3>1, PutTwice
    <3>4. [post EXCEPT !.check[o].reversed = TRUE] = mid
      BY <3>1 DEF Put, k1
    <3> HIDE DEF mid
    <3>5. SetStatus(mid, o, status) = Put(mid, o, [mid.check[o] EXCEPT !.status = status])
      BY DEF SetStatus, Put
    <3> QED
      BY <3>2, <3>3, <3>4, <3>5
  <2>4. Commit(c, [post EXCEPT !.check[o] = k])
    BY <2>1, <2>3 DEF Reverse, Put
  <2>5. /\ k \in Checks /\ k.sources = s.check[o].sources /\ k.deducted /\ k.reversed
        /\ k.status = status /\ k.qty = s.check[o].qty /\ k.table = s.check[o].table
        /\ k.online = s.check[o].online
    BY <1>1, <1>4, <2>2 DEF Checks, ToReverse
  <2> HIDE DEF k
  <2>6. Consistent(k)
    BY <1>1, <2>5 DEF Consistent
  <2> QED
    BY <1>1, <1>4, <2>1, <2>4, <2>5, <2>6, ReverseStep
<1> QED
  BY <1>3, <1>4

\* A cancelled check keeps them, with what it gives back.
LEMMA CancelKeeps ==
    ASSUME NEW c \in Clients, Ready(c), NEW o \in Orders, Cancel(c, o)
    PROVE  Keeps(db, db')
BY CloseKeeps DEF Cancel, Ended

\* So does a refunded one.
LEMMA RefundKeeps ==
    ASSUME NEW c \in Clients, Ready(c), NEW o \in Orders, Refund(c, o)
    PROVE  Keeps(db, db')
BY CloseKeeps DEF Refund, Ended

\* Two checks are written and no stock is moved.
LEMMA TwoWritten ==
    ASSUME NEW s \in Databases, NEW o \in Orders, NEW x \in Orders, o # x,
           NEW k \in Checks, NEW m \in Checks
    PROVE  /\ Put(Put(s, o, k), x, m) \in Databases
           /\ SameStock(s, Put(Put(s, o, k), x, m))
           /\ OthersSame(s, Put(Put(s, o, k), x, m), {o, x})
           /\ Put(Put(s, o, k), x, m).check[o] = k
           /\ Put(Put(s, o, k), x, m).check[x] = m
<1> DEFINE mid == Put(s, o, k)
           new == Put(mid, x, m)
<1>1. mid \in Databases /\ SameStock(s, mid) /\ OthersSame(s, mid, {o}) /\ mid.check[o] = k
  BY CheckWritten DEF Put
<1> HIDE DEF mid
<1>2. new \in Databases /\ SameStock(mid, new) /\ OthersSame(mid, new, {x}) /\ new.check[x] = m
  BY <1>1, CheckWritten DEF Put
<1> HIDE DEF new
<1>3. SameStock(s, new) /\ OthersSame(s, new, {o, x}) /\ new.check[o] = k
  BY <1>1, <1>2 DEF SameStock, OthersSame
<1> QED
  BY <1>2, <1>3 DEF new, mid

\* Two writes to a check, and one to another.
LEMMA ThirdWrite ==
    ASSUME NEW s \in Databases, NEW o \in Orders, NEW k \in Checks, NEW j \in Checks,
           NEW x, NEW m
    PROVE  /\ Put(s, o, k).check[o] = k
           /\ Put(Put(Put(s, o, k), o, j), x, m) = Put(Put(s, o, j), x, m)
<1>1. s = Store(s.balance, s.lots, s.rows, s.check) /\ s.check \in [Orders -> Checks]
  BY DEF Databases, Store
<1> QED
  BY <1>1, PutTwice

\* A split check keeps them, and so does its new half.
LEMMA SplitKeeps ==
    ASSUME NEW c \in Clients, Ready(c), NEW o \in Orders, NEW x \in Orders, Split(c, o, x)
    PROVE  Keeps(db, db')
<1> DEFINE s == snap[c]
           open == s.check[o].status
           k(n, status) == [s.check[o] EXCEPT !.qty = @ - n, !.status = status]
           m(n, status) == [s.check[o] EXCEPT !.qty = n, !.status = status,
                                !.sources = SourcesOf(s, o), !.online = FALSE,
                                !.reversed = FALSE]
           new(n, first, second) ==
              [s EXCEPT !.check[o].qty = @ - n,
                        !.check[o].status = first,
                        !.check[x] = [s.check[o] EXCEPT !.qty = n, !.status = second,
                                         !.sources = SourcesOf(s, o), !.online = FALSE,
                                         !.reversed = FALSE]]
<1>1. PICK n \in 1..(s.check[o].qty - 1),
           settled \in {<<open, open>>, <<"completed", open>>, <<"completed", "completed">>} :
              Commit(c, new(n, settled[1], settled[2]))
  BY DEF Split
<1>2. /\ open \in OPEN_ORDER_STATUSES /\ s.check[x].status = "absent"
      /\ s \in Databases /\ db \in Databases /\ Sound(db) /\ TypeOK
      /\ Consistent(s.check[o])
  BY DEF Split, IsOpen, Ready, TypeOK, Sound, ChecksConsistent
<1>3. o # x /\ ~s.check[o].reversed
  BY <1>2, OpenUnreversed DEF OPEN_ORDER_STATUSES, Ended
<1> DEFINE first == settled[1]
           second == settled[2]
<1>4. /\ first \in Statuses \ {"absent"} /\ second \in Statuses \ {"absent"}
      /\ Commit(c, new(n, first, second))
  BY <1>1, <1>2 DEF OPEN_ORDER_STATUSES, Statuses
<1> HIDE DEF first, second
<1>5. /\ s.check \in [Orders -> Checks] /\ s.check[o] \in Checks /\ s.check[o].qty \in Nat
      /\ s = [balance |-> s.balance, lots |-> s.lots, rows |-> s.rows, check |-> s.check]
      /\ SourcesOf(s, o) \in SUBSET Orders
  BY <1>2, CheckShape DEF Databases
<1>6. n \in Nat /\ n > 0 /\ s.check[o].qty - n \in Nat /\ s.check[o].qty - n > 0
  BY <1>1, <1>5
<1>8. /\ k(n, first) \in Checks /\ k(n, first).qty = s.check[o].qty - n
      /\ k(n, first).status = first /\ k(n, first).sources = s.check[o].sources
      /\ k(n, first).deducted = s.check[o].deducted /\ k(n, first).reversed = s.check[o].reversed
      /\ k(n, first).online = s.check[o].online /\ k(n, first).table = s.check[o].table
  BY <1>4, <1>5, <1>6 DEF Checks
<1>9. /\ m(n, second) \in Checks /\ m(n, second).qty = n
      /\ m(n, second).status = second /\ m(n, second).sources = SourcesOf(s, o)
      /\ m(n, second).deducted = s.check[o].deducted /\ m(n, second).reversed = FALSE
      /\ m(n, second).online = FALSE /\ m(n, second).table = s.check[o].table
  BY <1>4, <1>5, <1>6 DEF Checks
<1>7. new(n, first, second) = Put(Put(s, o, k(n, first)), x, m(n, second))
  <2> DEFINE k1 == [s.check[o] EXCEPT !.qty = @ - n]
             k2 == k(n, first)
             m2 == m(n, second)
             s1 == Put(s, o, k1)
             s2 == Put(s1, o, [s1.check[o] EXCEPT !.status = first])
  <2>1. k1 \in Checks /\ [k1 EXCEPT !.status = first] = k2
    BY <1>5, <1>6 DEF Checks
  <2>3. new(n, first, second) = Put(s2, x, m2)
    BY DEF Put
  <2>6. k2 \in Checks
    BY <1>8
  <2> HIDE DEF k1, k2, m2
  <2>2. s1.check[o] = k1 /\ k2 \in Checks
    BY <1>2, <2>1, <2>6, CheckWritten DEF Put
  <2>4. s2 = Put(Put(s, o, k1), o, k2)
    BY <2>1, <2>2
  <2> HIDE DEF s1, s2
  <2>5. Put(s2, x, m2) = Put(Put(s, o, k2), x, m2)
    BY <1>2, <2>1, <2>2, <2>4, ThirdWrite
  <2> QED
    BY <2>3, <2>5 DEF k2, m2
<1> DEFINE e == new(n, first, second)
           p == k(n, first)
           q == m(n, second)
<1>10. Commit(c, e)
  BY <1>4
<1> HIDE DEF e, p, q
<1>11. /\ e \in Databases /\ SameStock(s, e) /\ OthersSame(s, e, {o, x})
       /\ e.check[o] = p /\ e.check[x] = q
  <2>1. e = Put(Put(s, o, p), x, q) /\ p \in Checks /\ q \in Checks
    BY <1>7, <1>8, <1>9 DEF e, p, q
  <2> QED
    BY <1>2, <1>3, <2>1, TwoWritten
<1>12. e.check[o] # s.check[o] /\ e.check[x] # s.check[x]
  <2>1. p.qty # s.check[o].qty
    BY <1>5, <1>6, <1>8 DEF p
  <2>2. q.status # s.check[x].status
    BY <1>2, <1>4, <1>9 DEF q
  <2> QED
    BY <1>11, <2>1, <2>2
<1>13. /\ db' \in Databases /\ SameStock(db, db') /\ OthersSame(db, db', {o, x})
       /\ db.check[o] = s.check[o] /\ db'.check[o] = p
       /\ db.check[x] = s.check[x] /\ db'.check[x] = q
  <2>1. {o, x} \in SUBSET Orders /\ \A y \in {o, x} : e.check[y] # s.check[y]
    BY <1>12
  <2>2. /\ db' \in Databases /\ SameStock(db, db') /\ OthersSame(db, db', {o, x})
        /\ \A y \in {o, x} : db.check[y] = s.check[y] /\ db'.check[y] = e.check[y]
    BY <1>2, <1>10, <1>11, <2>1, PaperCommitted
  <2> QED
    BY <1>11, <2>2
<1>14. Consistent(p) /\ Consistent(q)
  BY <1>2, <1>3, <1>4, <1>6, <1>8, <1>9 DEF Consistent, p, q
<1>15. SplitInto(db, db', o, x, n)
  <2>1. SourcesOf(db, o) = SourcesOf(s, o) /\ IsOpen(db, o)
    BY <1>2, <1>13, SameClaim DEF IsOpen
  <2> QED
    BY <1>1, <1>2, <1>3, <1>4, <1>8, <1>9, <1>13, <1>14, <2>1 DEF SplitInto, p, q
<1>16. Sound(db') /\ Frozen(db, db')
  BY <1>2, <1>13, <1>15, SplitSound
<1> QED
  BY <1>13, <1>16 DEF Keeps

\* Merged checks keep them.
LEMMA MergeKeeps ==
    ASSUME NEW c \in Clients, Ready(c), NEW o \in Orders, NEW m \in Orders, Merge(c, o, m)
    PROVE  Keeps(db, db')
<1> DEFINE s == snap[c]
           e == MergeInto(s, o, m)
           p == [s.check[o] EXCEPT !.status = "cancelled", !.reversed = TRUE]
           sum == s.check[m].qty + s.check[o].qty
           both == SourcesOf(s, m) \cup SourcesOf(s, o)
           q == [s.check[m] EXCEPT !.qty = sum, !.sources = both, !.deducted = TRUE]
<1>1. /\ s.check[o].status \in OPEN_ORDER_STATUSES /\ s.check[m].status \in OPEN_ORDER_STATUSES
      /\ s.check[o].table # NoTable /\ s.check[m].table # NoTable
      /\ s.check[o].table # s.check[m].table /\ Commit(c, e)
  BY DEF Merge, IsOpen
<1>2. /\ s \in Databases /\ db \in Databases /\ Sound(db) /\ TypeOK
      /\ Consistent(s.check[o]) /\ Consistent(s.check[m])
  BY DEF Ready, TypeOK, Sound, ChecksConsistent
<1>3. /\ o # m /\ ~s.check[o].reversed /\ ~s.check[m].reversed
      /\ s.check[o].deducted /\ s.check[m].deducted
  BY <1>1, <1>2, OpenUnreversed DEF OPEN_ORDER_STATUSES, Ended, Consistent
<1>4. /\ s.check \in [Orders -> Checks] /\ s.check[o] \in Checks /\ s.check[m] \in Checks
      /\ s.check[o].qty \in Nat /\ s.check[m].qty \in Nat
      /\ s = [balance |-> s.balance, lots |-> s.lots, rows |-> s.rows, check |-> s.check]
      /\ SourcesOf(s, o) \in SUBSET Orders /\ SourcesOf(s, m) \in SUBSET Orders
  BY <1>2, CheckShape DEF Databases
<1>5. s.check[o].qty > 0 /\ s.check[m].qty > 0
  BY <1>1, <1>2 DEF Consistent, OPEN_ORDER_STATUSES
<1>7. /\ p \in Checks /\ p.qty = s.check[o].qty /\ p.status = "cancelled"
      /\ p.sources = s.check[o].sources /\ p.deducted = s.check[o].deducted /\ p.reversed
      /\ p.online = s.check[o].online /\ p.table = s.check[o].table
  BY <1>4 DEF Checks, Statuses
<1>8. /\ q \in Checks /\ q.qty = sum /\ q.status = s.check[m].status
      /\ q.sources = both /\ q.deducted
      /\ q.reversed = s.check[m].reversed
      /\ q.online = s.check[m].online /\ q.table = s.check[m].table
  <2>1. sum \in Nat /\ both \in SUBSET Orders
    BY <1>4
  <2> HIDE DEF sum, both
  <2> QED
    BY <1>4, <2>1 DEF Checks
<1>9. /\ e \in Databases /\ SameStock(s, e) /\ OthersSame(s, e, {o, m})
      /\ e.check[o] = p /\ e.check[m] = q
  <2> DEFINE ded == s.check[m].deducted \/ s.check[o].deducted
             q1 == [s.check[m] EXCEPT !.qty = sum]
             q2 == [q1 EXCEPT !.sources = both]
             p1 == [s.check[o] EXCEPT !.status = "cancelled"]
             e1 == Put(s, m, q1)
             e2 == Put(e1, m, [e1.check[m] EXCEPT !.sources = both])
             e3 == Put(e2, m, [e2.check[m] EXCEPT !.deducted = ded])
             e4 == Put(e3, o, [e3.check[o] EXCEPT !.status = "cancelled"])
  <2>1. e = Put(e4, o, [e4.check[o] EXCEPT !.reversed = TRUE])
    BY DEF MergeInto, Put
  <2>18. sum \in Nat /\ both \in SUBSET Orders
    BY <1>4
  <2> HIDE DEF sum, both
  <2>2. q1 \in Checks /\ p1 \in Checks /\ [p1 EXCEPT !.reversed = TRUE] = p
    BY <1>4, <2>18 DEF Checks, Statuses
  <2>19. q2 \in Checks /\ [q2 EXCEPT !.deducted = TRUE] = q
    BY <1>4, <2>18 DEF Checks
  <2>3. ded = TRUE
    BY <1>3, <1>4 DEF Checks
  <2>4. [q1 EXCEPT !.sources = both] = q2 /\ [s.check[o] EXCEPT !.status = "cancelled"] = p1
    OBVIOUS
  <2>5. p \in Checks /\ q \in Checks
    BY <1>7, <1>8
  <2> HIDE DEF q1, q2, p1, p, q, e, ded
  <2>6. e1 \in Databases /\ SameStock(s, e1) /\ OthersSame(s, e1, {m}) /\ e1.check[m] = q1
    BY <1>2, <2>2, CheckWritten DEF Put
  <2> HIDE DEF e1
  <2>7. e2 = Put(e1, m, q2)
    BY <2>4, <2>6
  <2> HIDE DEF e2
  <2>8. e2 \in Databases /\ SameStock(e1, e2) /\ OthersSame(e1, e2, {m}) /\ e2.check[m] = q2
    BY <2>6, <2>7, <2>19, CheckWritten DEF Put
  <2>9. e3 = Put(e2, m, q)
    BY <2>3, <2>8, <2>19
  <2> HIDE DEF e3
  <2>10. e3 \in Databases /\ SameStock(e2, e3) /\ OthersSame(e2, e3, {m}) /\ e3.check[m] = q
    BY <2>5, <2>8, <2>9, CheckWritten DEF Put
  <2>11. e3.check[o] = s.check[o]
    BY <1>3, <2>6, <2>8, <2>10 DEF OthersSame
  <2>12. e4 = Put(e3, o, p1)
    BY <2>4, <2>11
  <2> HIDE DEF e4
  <2>13. e4 \in Databases /\ SameStock(e3, e4) /\ OthersSame(e3, e4, {o}) /\ e4.check[o] = p1
    BY <2>2, <2>10, <2>12, CheckWritten DEF Put
  <2>14. e = Put(e4, o, p)
    BY <2>1, <2>2, <2>13
  <2>15. e \in Databases /\ SameStock(e4, e) /\ OthersSame(e4, e, {o}) /\ e.check[o] = p
    BY <2>5, <2>13, <2>14, CheckWritten DEF Put
  <2>16. SameStock(s, e)
    BY <2>6, <2>8, <2>10, <2>13, <2>15 DEF SameStock
  <2>17. OthersSame(s, e, {o, m}) /\ e.check[m] = q
    BY <1>3, <2>6, <2>8, <2>10, <2>13, <2>15 DEF OthersSame
  <2> QED
    BY <2>15, <2>16, <2>17
<1> HIDE DEF e, p, q, both
<1>10. e.check[o] # s.check[o] /\ e.check[m] # s.check[m]
  <2>1. p.reversed # s.check[o].reversed
    BY <1>3, <1>7
  <2>2. q.qty # s.check[m].qty
    BY <1>4, <1>5, <1>8
  <2> QED
    BY <1>9, <2>1, <2>2
<1>11. /\ db' \in Databases /\ SameStock(db, db') /\ OthersSame(db, db', {o, m})
       /\ db.check[o] = s.check[o] /\ db'.check[o] = p
       /\ db.check[m] = s.check[m] /\ db'.check[m] = q
  <2>1. {o, m} \in SUBSET Orders /\ \A y \in {o, m} : e.check[y] # s.check[y]
    BY <1>10
  <2>2. /\ db' \in Databases /\ SameStock(db, db') /\ OthersSame(db, db', {o, m})
        /\ \A y \in {o, m} : db.check[y] = s.check[y] /\ db'.check[y] = e.check[y]
    BY <1>1, <1>2, <1>9, <2>1, PaperCommitted
  <2> QED
    BY <1>9, <2>2
<1>12. Consistent(p) /\ Consistent(q)
  <2>1. ~s.check[m].online
    BY <1>1, <1>2 DEF Consistent
  <2>2. q.qty > 0
    BY <1>4, <1>5, <1>8
  <2> QED
    BY <1>1, <1>2, <1>3, <1>5, <1>7, <1>8, <2>1, <2>2 DEF Consistent, OPEN_ORDER_STATUSES, Ended
<1>13. MergedWith(db, db', o, m)
  <2>1. /\ SourcesOf(db, o) = SourcesOf(s, o) /\ SourcesOf(db, m) = SourcesOf(s, m)
        /\ IsOpen(db, o) /\ IsOpen(db, m)
    BY <1>1, <1>11, SameClaim DEF IsOpen
  <2>2. p.status # "absent" /\ q.status # "absent"
    BY <1>1, <1>7, <1>8 DEF OPEN_ORDER_STATUSES
  <2> QED
    BY <1>3, <1>7, <1>8, <1>11, <1>12, <2>1, <2>2 DEF MergedWith, both
<1>14. Sound(db') /\ Frozen(db, db')
  BY <1>2, <1>11, <1>13, MergeSound
<1> QED
  BY <1>11, <1>14 DEF Keeps

-------------------------------------------------------------------------------
(* The inductive invariant.                                                *)

IInv ==
    /\ TypeOK /\ Sound(db)
    /\ \A c \in Clients : snap[c] # NoSnapshot => Sound(snap[c]) /\ Behind(snap[c], db)

\* A snapshot is no less behind after a step.
LEMMA StillBehind ==
    ASSUME NEW s \in Databases, NEW d \in Databases, NEW e, Behind(s, d), Keeps(d, e)
    PROVE  Behind(s, e)
<1>1. /\ e \in Databases /\ Branch \in Branches
      /\ s.balance[Branch].ver \in Nat /\ d.balance[Branch].ver \in Nat
  BY Finite DEF Keeps, Databases, Balances
<1>2. \A x \in Orders : s.check[x].reversed => e.check[x] = s.check[x]
  BY DEF Behind, Keeps, Frozen
<1>3. CASE SameStock(d, e)
  BY <1>2, <1>3 DEF Behind, SameStock
<1>4. CASE e.balance[Branch].ver = d.balance[Branch].ver + 1
  BY <1>1, <1>2, <1>4 DEF Behind
<1> QED
  BY <1>3, <1>4 DEF Keeps

\* Every request begins, gives up, or keeps what is claimed and ends.
LEMMA RequestKeeps ==
    ASSUME IInv, NEW c \in Clients, Request(c), ~Begin(c), ~End(c)
    PROVE  Keeps(db, db') /\ snap' = [snap EXCEPT ![c] = NoSnapshot]
<1>1. ASSUME snap[c] # NoSnapshot PROVE Ready(c)
  BY <1>1 DEF IInv, TypeOK, Ready
<1>2. ASSUME NEW o \in Orders, PlaceAtTill(c, o)
      PROVE  Keeps(db, db') /\ snap' = [snap EXCEPT ![c] = NoSnapshot]
  BY <1>1, <1>2, PlaceAtTillKeeps, SnapshotEnds DEF PlaceAtTill
<1>3. ASSUME NEW o \in Orders, PlaceOnline(c, o)
      PROVE  Keeps(db, db') /\ snap' = [snap EXCEPT ![c] = NoSnapshot]
  BY <1>1, <1>3, PlaceOnlineKeeps, SnapshotEnds DEF PlaceOnline
<1>4. ASSUME NEW o \in Orders, AcceptOnline(c, o)
      PROVE  Keeps(db, db') /\ snap' = [snap EXCEPT ![c] = NoSnapshot]
  BY <1>1, <1>4, AcceptKeeps, SnapshotEnds DEF AcceptOnline
<1>5. ASSUME NEW o \in Orders, RejectOnline(c, o)
      PROVE  Keeps(db, db') /\ snap' = [snap EXCEPT ![c] = NoSnapshot]
  BY <1>1, <1>5, RejectKeeps, SnapshotEnds DEF RejectOnline
<1>6. ASSUME NEW o \in Orders, Advance(c, o)
      PROVE  Keeps(db, db') /\ snap' = [snap EXCEPT ![c] = NoSnapshot]
  BY <1>1, <1>6, AdvanceKeeps, SnapshotEnds DEF Advance
<1>7. ASSUME NEW o \in Orders, Settle(c, o)
      PROVE  Keeps(db, db') /\ snap' = [snap EXCEPT ![c] = NoSnapshot]
  BY <1>1, <1>7, SettleKeeps, SnapshotEnds DEF Settle
<1>8. ASSUME NEW o \in Orders, Cancel(c, o)
      PROVE  Keeps(db, db') /\ snap' = [snap EXCEPT ![c] = NoSnapshot]
  BY <1>1, <1>8, CancelKeeps, SnapshotEnds DEF Cancel, Close
<1>9. ASSUME NEW o \in Orders, Refund(c, o)
      PROVE  Keeps(db, db') /\ snap' = [snap EXCEPT ![c] = NoSnapshot]
  BY <1>1, <1>9, RefundKeeps, SnapshotEnds DEF Refund, Close
<1>10. ASSUME NEW o \in Orders, Reopen(c, o)
       PROVE  Keeps(db, db') /\ snap' = [snap EXCEPT ![c] = NoSnapshot]
  BY <1>1, <1>10, ReopenKeeps, SnapshotEnds DEF Reopen
<1>11. ASSUME NEW o \in Orders, NEW x \in Orders, Split(c, o, x)
       PROVE  Keeps(db, db') /\ snap' = [snap EXCEPT ![c] = NoSnapshot]
  BY <1>1, <1>11, SplitKeeps, SnapshotEnds DEF Split
<1>12. ASSUME NEW o \in Orders, NEW m \in Orders, Merge(c, o, m)
       PROVE  Keeps(db, db') /\ snap' = [snap EXCEPT ![c] = NoSnapshot]
  BY <1>1, <1>12, MergeKeeps, SnapshotEnds DEF Merge
<1> QED
  BY <1>2, <1>3, <1>4, <1>5, <1>6, <1>7, <1>8, <1>9, <1>10, <1>11, <1>12 DEF Request

\* The invariant holds of what has just been opened: stock came in, and nothing was sold.
LEMMA OpenedSound ==
    ASSUME NEW opening \in [Batches -> Nat]
    PROVE  Opened(opening) \in Databases /\ Sound(Opened(opening))
<1> DEFINE d == Opened(opening)
<1>1. IsFiniteSet(Orders) /\ IsFiniteSet(Batches) /\ Batches \subseteq Nat /\ Branch \in Branches
  BY Finite, BatchAssumption
<1>2. SumFunction(opening) = SumFunctionOnSet(opening, Batches)
      /\ SumFunctionOnSet(opening, Batches) \in Nat
  BY <1>1, SumOfAll, SumGrows
<1>3. /\ d.check = [o \in Orders |-> NoCheck]
      /\ \A o \in Orders : d.check[o] = NoCheck
      /\ d.lots = [p \in Branches \X Batches |-> IF p[1] = Branch THEN opening[p[2]] ELSE 0]
      /\ \A b \in Branches, l \in Batches :
            d.lots[<<b, l>>] = IF b = Branch THEN opening[l] ELSE 0
      /\ d.balance[Branch].qty = SumFunctionOnSet(opening, Batches)
      /\ \A b \in Branches \ {Branch} : d.balance[b].qty = 0
  BY <1>1, <1>2 DEF Opened, EmptyBalance
<1>4. /\ \A o \in Orders : ~IsPosted(d, OrderKey(o)) /\ ~IsPosted(d, ReverseKey(o))
      /\ \A l \in Batches : d.rows[OpeningKey(l)] \in Moves
                            /\ d.rows[OpeningKey(l)].change = opening[l]
  <2>1. \A l \in Batches : Cardinality({k \in Batches : k <= l}) \in Nat
    <3> SUFFICES ASSUME NEW l \in Batches PROVE Cardinality({k \in Batches : k <= l}) \in Nat
      OBVIOUS
    <3>1. {k \in Batches : k <= l} \in SUBSET Batches
      OBVIOUS
    <3> QED
      BY <1>1, <3>1, FS_Subset, FS_CardinalityType
  <2>2. \A l \in Batches : OneLot(l, opening[l]) \in Allocations
    BY DEF OneLot, Allocations
  <2>3. ASSUME NEW l \in Batches
        PROVE  d.rows[OpeningKey(l)] = [branch |-> Branch, change |-> opening[l],
                   alloc |-> OneLot(l, opening[l]),
                   ver |-> Cardinality({k \in Batches : k <= l})]
    <3>1. OpeningKey(l) \in Keys /\ OpeningKey(l)[1] = "opening" /\ OpeningKey(l)[2] = l
      BY KeysDiffer DEF OpeningKey
    <3> QED
      BY <3>1 DEF Opened
  <2>4. ASSUME NEW o \in Orders
        PROVE  d.rows[OrderKey(o)] = NoMove /\ d.rows[ReverseKey(o)] = NoMove
    <3>1. /\ OrderKey(o) \in Keys /\ OrderKey(o)[1] # "opening"
          /\ ReverseKey(o) \in Keys /\ ReverseKey(o)[1] # "opening"
      BY KeysDiffer DEF OrderKey, ReverseKey
    <3> QED
      BY <3>1 DEF Opened
  <2> HIDE DEF d
  <2>5. ASSUME NEW l \in Batches
        PROVE  /\ d.rows[OpeningKey(l)] \in Moves
               /\ d.rows[OpeningKey(l)].change = opening[l]
    <3> DEFINE v == Cardinality({k \in Batches : k <= l})
               alloc == OneLot(l, opening[l])
               row == d.rows[OpeningKey(l)]
    <3>1. v \in Nat /\ alloc \in Allocations /\ opening[l] \in Int
      BY <2>1, <2>2
    <3>2. row = [branch |-> Branch, change |-> opening[l], alloc |-> alloc, ver |-> v]
      BY <2>3
    <3> HIDE DEF v, alloc, row
    <3>3. row \in Moves /\ row.change = opening[l]
      BY <1>1, <3>1, <3>2 DEF Moves
    <3> QED
      BY <3>3 DEF row
  <2> QED
    BY <2>4, <2>5 DEF IsPosted
<1>5. d \in Databases
  <2>1. d.balance \in Balances
    <3>1. Cardinality(Batches) \in Nat
      BY <1>1, FS_CardinalityType
    <3>2. [qty |-> SumFunction(opening), ver |-> Cardinality(Batches)] \in [qty : Nat, ver : Nat]
      BY <1>2, <3>1
    <3> QED
      BY <1>1, <3>2 DEF Opened, EmptyBalance, Balances
  <2>2. d.lots \in Lots
    BY <1>3 DEF Lots
  <2>3. d.check \in [Orders -> Checks]
    BY <1>3 DEF Checks, NoCheck, Statuses
  <2>4. d.rows \in [Keys -> Moves \cup {NoMove}]
    <3>1. ASSUME NEW key \in Keys PROVE d.rows[key] \in Moves \cup {NoMove}
      <4>1. CASE \E l \in Batches : key = OpeningKey(l)
        BY <1>4, <4>1
      <4>2. CASE \E o \in Orders : key = OrderKey(o) \/ key = ReverseKey(o)
        BY <1>4, <4>2 DEF IsPosted
      <4> QED
        BY <4>1, <4>2 DEF Keys
    <3>2. d.rows = [key \in Keys |-> d.rows[key]]
      BY DEF Opened
    <3> HIDE DEF d
    <3> QED
      BY <3>1, <3>2
  <2>5. d = [balance |-> d.balance, lots |-> d.lots, rows |-> d.rows, check |-> d.check]
    BY DEF Opened
  <2> HIDE DEF d
  <2> QED
    BY <2>1, <2>2, <2>3, <2>4, <2>5 DEF Databases
<1> HIDE DEF d
<1>6. ChecksConsistent(d)
  BY <1>3 DEF ChecksConsistent, Consistent, NoCheck
<1>7. ChecksPosted(d)
  BY <1>3, <1>4 DEF ChecksPosted, NoCheck
<1>8. RowsAddUp(d)
  BY <1>4 DEF RowsAddUp
<1>9. ASSUME NEW o \in Orders
      PROVE  /\ Used(d)[o] = 0 /\ Draws(d)[o] = 0
             /\ \A l \in Batches : UsedLot(d, l)[o] = 0 /\ BackLot(d, l)[o] = 0
  <2>1. ~ToReverse(d, o)
    BY <1>3 DEF ToReverse, NoCheck
  <2> QED
    BY <1>4, <1>5, <2>1, FunctionShapes DEF Changed, ChangedLot
<1>10. LotsExplained(d)
  <2> SUFFICES ASSUME NEW l \in Batches
               PROVE  /\ IsPosted(d, OpeningKey(l))
                      /\ d.lots[<<Branch, l>>] = d.rows[OpeningKey(l)].change
                                    - SumFunctionOnSet(UsedLot(d, l), Orders)
                                    + SumFunctionOnSet(BackLot(d, l), Orders)
    BY DEF LotsExplained
  <2>1. SumFunctionOnSet(UsedLot(d, l), Orders) = 0 /\ SumFunctionOnSet(BackLot(d, l), Orders) = 0
    BY <1>1, <1>9, SumZero
  <2>2. IsPosted(d, OpeningKey(l))
    BY <1>4, NoMoveAssumption DEF IsPosted
  <2>3. d.lots[<<Branch, l>>] = opening[l] /\ opening[l] \in Nat
    BY <1>1, <1>3
  <2> QED
    BY <1>4, <2>1, <2>2, <2>3
<1>11. LotsCover(d)
  <2> SUFFICES ASSUME NEW b \in Branches PROVE InLots(d, b, Batches) = d.balance[b].qty
    BY DEF LotsCover, Covered
  <2>1. InLots(d, b, Batches) = SumFunctionOnSet(Held(d, b), Batches)
    BY InLotsIsSum
  <2>2. \A l \in Batches : Held(d, b)[l] = IF b = Branch THEN opening[l] ELSE 0
    BY <1>3 DEF Held
  <2>3. CASE b = Branch
    <3>1. \A l \in Batches : Held(d, b)[l] = opening[l]
      BY <2>2, <2>3
    <3>2. SumFunctionOnSet(Held(d, b), Batches) = SumFunctionOnSet(opening, Batches)
      BY <1>1, <3>1, SumEqual
    <3> QED
      BY <1>3, <2>1, <2>3, <3>2
  <2>4. CASE b # Branch
    BY <1>1, <1>3, <2>1, <2>2, <2>4, SumZero
  <2> QED
    BY <2>3, <2>4
<1>12. ChecksStand(d)
  <2>1. SumFunctionOnSet(Draws(d), Orders) = 0 /\ SumFunctionOnSet(Used(d), Orders) = 0
    BY <1>1, <1>9, SumZero
  <2> QED
    BY <2>1 DEF ChecksStand
<1>13. BackIsCovered(d)
  <2> SUFFICES ASSUME NEW l \in Batches, NEW os \in SUBSET Reversed(d)
               PROVE  SumFunctionOnSet(BackLot(d, l), os)
                        <= SumFunctionOnSet(UsedLot(d, l), SourcesOfAll(d, os))
    BY DEF BackIsCovered
  <2>1. os = {} /\ SourcesOfAll(d, os) = {}
    BY <1>4 DEF Reversed, SourcesOfAll
  <2> QED
    BY <2>1, SumEmpty
<1>14. SharesFit(d)
  <2> SUFFICES ASSUME NEW x \in Orders
               PROVE  SumFunctionOnSet(Draws(d), Solo(d, x)) <= Used(d)[x]
    BY DEF SharesFit
  <2>1. Solo(d, x) \in SUBSET Orders /\ IsFiniteSet(Solo(d, x))
    <3>1. Solo(d, x) \in SUBSET Orders
      BY DEF Solo
    <3> QED
      BY <1>1, <3>1, FS_Subset
  <2>2. SumFunctionOnSet(Draws(d), Solo(d, x)) = 0
    BY <1>9, <2>1, SumZero
  <2> QED
    BY <1>9, <2>2
<1> QED
  BY <1>5, <1>6, <1>7, <1>8, <1>10, <1>11, <1>12, <1>13, <1>14 DEF Sound, d

\* The invariant is inductive.
LEMMA Inductive == Spec => []IInv
<1>1. Init => IInv
  <2> SUFFICES ASSUME Init PROVE IInv
    OBVIOUS
  <2>1. PICK opening \in Openings : db = Opened(opening)
    BY DEF Init
  <2>2. opening \in [Batches -> Nat]
    BY OpeningAssumption
  <2>3. db \in Databases /\ Sound(db)
    BY <2>1, <2>2, OpenedSound
  <2>4. snap = [c \in Clients |-> NoSnapshot]
    BY DEF Init
  <2> QED
    BY <2>3, <2>4 DEF IInv, TypeOK
<1>2. IInv /\ [Next]_vars => IInv'
  <2> SUFFICES ASSUME IInv, [Next]_vars PROVE IInv'
    OBVIOUS
  <2>1. db \in Databases /\ snap \in [Clients -> Databases \cup {NoSnapshot}] /\ Sound(db)
    BY DEF IInv, TypeOK
  <2>2. CASE UNCHANGED vars
    BY <2>2 DEF IInv, TypeOK, vars
  <2>3. ASSUME NEW c \in Clients, Request(c) PROVE IInv'
    <3>1. CASE Begin(c)
      <4>1. snap' = [snap EXCEPT ![c] = db] /\ db' = db
        BY <3>1 DEF Begin
      <4>2. Behind(db, db)
        BY <2>1, Finite DEF Behind, SameStock, Databases, Balances
      <4>3. TypeOK'
        BY <2>1, <4>1 DEF TypeOK
      <4>4. ASSUME NEW e \in Clients, snap'[e] # NoSnapshot
            PROVE  Sound(snap'[e]) /\ Behind(snap'[e], db')
        <5>1. CASE e = c
          BY <2>1, <4>1, <4>2, <5>1
        <5>2. CASE e # c
          BY <2>1, <4>1, <4>4, <5>2 DEF IInv
        <5> QED
          BY <5>1, <5>2
      <4> QED
        BY <2>1, <4>1, <4>3, <4>4 DEF IInv
    <3>2. CASE End(c)
      <4>1. snap' = [snap EXCEPT ![c] = NoSnapshot] /\ db' = db
        BY <3>2 DEF End
      <4>2. TypeOK'
        BY <2>1, <4>1 DEF TypeOK
      <4>3. ASSUME NEW e \in Clients, snap'[e] # NoSnapshot
            PROVE  Sound(snap'[e]) /\ Behind(snap'[e], db')
        BY <2>1, <4>1, <4>3 DEF IInv
      <4> QED
        BY <2>1, <4>1, <4>2, <4>3 DEF IInv
    <3>3. CASE ~Begin(c) /\ ~End(c)
      <4>1. Keeps(db, db') /\ snap' = [snap EXCEPT ![c] = NoSnapshot]
        BY <2>3, <3>3, RequestKeeps
      <4>2. db' \in Databases /\ Sound(db')
        BY <4>1 DEF Keeps
      <4>3. TypeOK'
        BY <2>1, <4>1, <4>2 DEF TypeOK
      <4>4. ASSUME NEW e \in Clients, snap'[e] # NoSnapshot
            PROVE  Sound(snap'[e]) /\ Behind(snap'[e], db')
        <5>1. /\ snap'[e] = snap[e] /\ snap[e] \in Databases
              /\ Sound(snap[e]) /\ Behind(snap[e], db)
          BY <2>1, <4>1, <4>4 DEF IInv
        <5>2. Behind(snap[e], db')
          BY <2>1, <4>1, <5>1, StillBehind
        <5> QED
          BY <5>1, <5>2
      <4> QED
        BY <4>2, <4>3, <4>4 DEF IInv
    <3> QED
      BY <3>1, <3>2, <3>3
  <2> QED
    BY <2>2, <2>3 DEF Next
<1> QED
  BY <1>1, <1>2, PTL DEF Spec

-------------------------------------------------------------------------------
(* What the invariant shows.                                               *)

\* The lots of the rows of an order, and of a reversal, add up.
LEMMA LotsOfOrder ==
    ASSUME NEW d \in Databases, RowsAddUp(d), NEW o \in Orders
    PROVE  /\ SumFunctionOnSet([l \in Batches |-> UsedLot(d, l)[o]], Batches) = Used(d)[o]
           /\ SumFunctionOnSet([l \in Batches |-> BackLot(d, l)[o]], Batches) = Back(d)[o]
<1> DEFINE used == [l \in Batches |-> UsedLot(d, l)[o]]
           back == [l \in Batches |-> BackLot(d, l)[o]]
<1>1. OrderKey(o) \in Keys /\ ReverseKey(o) \in Keys /\ IsFiniteSet(Batches)
  BY KeysDiffer, Finite
<1>2. \A l \in Batches : /\ used[l] = -ChangedLot(d, OrderKey(o), l)
                         /\ back[l] = ChangedLot(d, ReverseKey(o), l)
  BY FunctionShapes
<1> HIDE DEF used, back
<1>3. SumFunctionOnSet(used, Batches) = Used(d)[o]
  <2>1. CASE IsPosted(d, OrderKey(o))
    <3> DEFINE alloc == d.rows[OrderKey(o)].alloc
    <3>1. /\ \A l \in Batches : alloc[l] \in Int /\ used[l] = -alloc[l]
          /\ SumFunctionOnSet(alloc, Batches) = -Used(d)[o] /\ Used(d)[o] \in Int
      BY <1>1, <1>2, <2>1, RowShape, FunctionShapes DEF RowsAddUp, Changed, ChangedLot
    <3> HIDE DEF alloc
    <3>2. SumFunctionOnSet(used, Batches) = -SumFunctionOnSet(alloc, Batches)
      BY <1>1, <3>1, SumNegative
    <3> QED
      BY <3>1, <3>2
  <2>2. CASE ~IsPosted(d, OrderKey(o))
    <3>1. \A l \in Batches : used[l] = 0
      BY <1>2, <2>2 DEF ChangedLot
    <3>2. Used(d)[o] = 0
      BY <2>2, FunctionShapes DEF Changed
    <3> QED
      BY <1>1, <3>1, <3>2, SumZero
  <2> QED
    BY <2>1, <2>2
<1>4. SumFunctionOnSet(back, Batches) = Back(d)[o]
  <2>1. CASE IsPosted(d, ReverseKey(o))
    <3> DEFINE alloc == d.rows[ReverseKey(o)].alloc
    <3>1. /\ \A l \in Batches : back[l] = alloc[l]
          /\ SumFunctionOnSet(alloc, Batches) = Back(d)[o]
      BY <1>1, <1>2, <2>1, RowShape, FunctionShapes DEF RowsAddUp, Changed, ChangedLot
    <3> HIDE DEF alloc
    <3> QED
      BY <1>1, <3>1, SumEqual
  <2>2. CASE ~IsPosted(d, ReverseKey(o))
    <3>1. \A l \in Batches : back[l] = 0
      BY <1>2, <2>2 DEF ChangedLot
    <3>2. Back(d)[o] = 0
      BY <2>2, FunctionShapes DEF Changed
    <3> QED
      BY <1>1, <3>1, <3>2, SumZero
  <2> QED
    BY <2>1, <2>2
<1> QED
  BY <1>3, <1>4 DEF used, back

\* What several orders took of each lot is what they took, and so for reversals.
LEMMA LotsOfOrders ==
    ASSUME NEW d \in Databases, RowsAddUp(d), NEW os \in SUBSET Orders,
           NEW used, \A l \in Batches : used[l] = SumFunctionOnSet(UsedLot(d, l), os),
           NEW back, \A l \in Batches : back[l] = SumFunctionOnSet(BackLot(d, l), os)
    PROVE  /\ SumFunctionOnSet(used, Batches) = SumFunctionOnSet(Used(d), os)
           /\ SumFunctionOnSet(back, Batches) = SumFunctionOnSet(Back(d), os)
<1>1. IsFiniteSet(os) /\ IsFiniteSet(Batches)
  BY Finite, FS_Subset
<1>2. SumFunctionOnSet(used, Batches) = SumFunctionOnSet(Used(d), os)
  <2> DEFINE entry == [l \in Batches |-> UsedLot(d, l)]
             row == [o \in os |-> [l \in Batches |-> UsedLot(d, l)[o]]]
             total == Used(d)
  <2>1. /\ \A l \in Batches : \A o \in os : entry[l][o] \in Int
        /\ \A o \in os : \A l \in Batches : row[o][l] = entry[l][o]
        /\ \A l \in Batches : used[l] = SumFunctionOnSet(entry[l], os)
    BY FunctionShapes
  <2>2. ASSUME NEW o \in os PROVE total[o] = SumFunctionOnSet(row[o], Batches)
    <3>1. row[o] = [l \in Batches |-> UsedLot(d, l)[o]]
      OBVIOUS
    <3> QED
      BY <3>1, LotsOfOrder
  <2> HIDE DEF entry, row, total
  <2>3. IsTable(Batches, os, entry, row, used, total)
    BY ONLY <2>1, <2>2 DEF IsTable
  <2>4. SumFunctionOnSet(used, Batches) = SumFunctionOnSet(total, os)
    BY <1>1, <2>3, SumByColumns
  <2> QED
    BY <2>4 DEF total
<1>3. SumFunctionOnSet(back, Batches) = SumFunctionOnSet(Back(d), os)
  <2> DEFINE entry == [l \in Batches |-> BackLot(d, l)]
             row == [o \in os |-> [l \in Batches |-> BackLot(d, l)[o]]]
             total == Back(d)
  <2>1. /\ \A l \in Batches : \A o \in os : entry[l][o] \in Int
        /\ \A o \in os : \A l \in Batches : row[o][l] = entry[l][o]
        /\ \A l \in Batches : back[l] = SumFunctionOnSet(entry[l], os)
    BY FunctionShapes
  <2>2. ASSUME NEW o \in os PROVE total[o] = SumFunctionOnSet(row[o], Batches)
    <3>1. row[o] = [l \in Batches |-> BackLot(d, l)[o]]
      OBVIOUS
    <3> QED
      BY <3>1, LotsOfOrder
  <2> HIDE DEF entry, row, total
  <2>3. IsTable(Batches, os, entry, row, back, total)
    BY ONLY <2>1, <2>2 DEF IsTable
  <2>4. SumFunctionOnSet(back, Batches) = SumFunctionOnSet(total, os)
    BY <1>1, <2>3, SumByColumns
  <2> QED
    BY <2>4 DEF total
<1> QED
  BY <1>2, <1>3

\* The rows of orders and of reversals, as the property reads them.
LEMMA LedgerOfChecks ==
    ASSUME NEW d \in Databases, NEW keys,
           keys = {key \in Keys : key[1] \in {"order", "reverse"} /\ d.rows[key] # NoMove}
    PROVE  TotalChange(d, keys)
              = SumFunctionOnSet(Back(d), Orders) - SumFunctionOnSet(Used(d), Orders)
<1> DEFINE A == OrderRows(d, Orders)
           B == ReverseRows(d, Orders)
           f == [key \in keys |-> d.rows[key].change]
           fa == [key \in A |-> d.rows[key].change]
           fb == [key \in B |-> d.rows[key].change]
<1>1. /\ IsFiniteSet(A) /\ TotalChange(d, A) = -SumFunctionOnSet(Used(d), Orders)
      /\ IsFiniteSet(B) /\ TotalChange(d, B) = SumFunctionOnSet(Back(d), Orders)
  BY OrdersTotal, ReversalsTotal
<1>2. keys = A \cup B
  <2>1. ASSUME NEW key \in keys PROVE key \in A \cup B
    <3>1. PICK o \in Orders : key = OrderKey(o) \/ key = ReverseKey(o)
      <4>1. \A l \in Batches : OpeningKey(l)[1] = "opening"
        BY DEF OpeningKey
      <4> QED
        BY <2>1, <4>1 DEF Keys
    <3> QED
      BY <2>1, <3>1 DEF OrderRows, ReverseRows
  <2>2. ASSUME NEW key \in A \cup B PROVE key \in keys
    <3>1. PICK o \in Orders : /\ key = OrderKey(o) \/ key = ReverseKey(o)
                              /\ d.rows[key] # NoMove
      BY <2>2 DEF OrderRows, ReverseRows
    <3>2. key \in Keys
      BY <3>1, KeysDiffer
    <3>3. key[1] \in {"order", "reverse"}
      BY <3>1 DEF OrderKey, ReverseKey
    <3> QED
      BY <3>1, <3>2, <3>3
  <2> QED
    BY <2>1, <2>2
<1>3. A \cap B = {}
  BY KeysDiffer DEF OrderRows, ReverseRows
<1>4. \A key \in keys : f[key] \in Int
  BY RowShape DEF IsPosted
<1>5. TotalChange(d, keys) = SumFunctionOnSet(f, keys)
  BY DEF TotalChange
<1>6. TotalChange(d, A) = SumFunctionOnSet(fa, A) /\ TotalChange(d, B) = SumFunctionOnSet(fb, B)
  BY DEF TotalChange
<1>7. (\A key \in A : f[key] = fa[key]) /\ (\A key \in B : f[key] = fb[key])
  BY <1>2
<1> HIDE DEF A, B, f, fa, fb
<1>8. SumFunctionOnSet(f, A) = SumFunctionOnSet(fa, A)
  BY <1>1, <1>7, SumEqual
<1>9. SumFunctionOnSet(f, B) = SumFunctionOnSet(fb, B)
  BY <1>1, <1>7, SumEqual
<1>10. SumFunctionOnSet(f, keys) = SumFunctionOnSet(f, A) + SumFunctionOnSet(f, B)
  <2>1. IsFiniteSet(keys)
    <3>1. IsFiniteSet(A \cup B)
      BY <1>1, FS_Union
    <3> QED
      BY <1>2, <3>1
  <2> QED
    BY <1>2, <1>3, <1>4, <2>1, SumOfBoth
<1>11. /\ SumFunctionOnSet(Used(d), Orders) \in Int /\ SumFunctionOnSet(Back(d), Orders) \in Int
  BY Finite, FunctionShapes, SumType
<1> QED
  BY <1>1, <1>5, <1>6, <1>8, <1>9, <1>10, <1>11

\* What the checks still claim is what was taken and has not come back.
LEMMA ClaimsAreOutstanding ==
    ASSUME NEW d \in Databases, Sound(d), NEW qty, NEW os,
           qty = [o \in Orders |-> d.check[o].qty], os = {o \in Orders : ToReverse(d, o)}
    PROVE  SumFunctionOnSet(qty, os)
              = SumFunctionOnSet(Used(d), Orders) - SumFunctionOnSet(Back(d), Orders)
<1> DEFINE claim == [o \in Orders |-> IF ToReverse(d, o) THEN d.check[o].qty ELSE 0]
<1>1. IsFiniteSet(Orders) /\ os \in SUBSET Orders /\ IsFiniteSet(os)
  BY Finite, FS_Subset
<1>2. ASSUME NEW o \in Orders
      PROVE  /\ claim[o] \in Int /\ Back(d)[o] \in Int
             /\ Draws(d)[o] = Back(d)[o] + claim[o]
             /\ o \notin os => claim[o] = 0
             /\ o \in os => qty[o] = claim[o]
  BY FunctionShapes, CheckShape
<1> HIDE DEF claim
<1>3. SumFunctionOnSet(Draws(d), Orders)
        = SumFunctionOnSet(Back(d), Orders) + SumFunctionOnSet(claim, Orders)
  BY <1>1, <1>2, SumPlus
<1>4. SumFunctionOnSet(claim, Orders) = SumFunctionOnSet(claim, os)
  BY <1>1, <1>2, SumOfSupport
<1>5. SumFunctionOnSet(qty, os) = SumFunctionOnSet(claim, os)
  BY <1>1, <1>2, SumEqual
<1>6. SumFunctionOnSet(Draws(d), Orders) = SumFunctionOnSet(Used(d), Orders)
  BY DEF Sound, ChecksStand
<1>7. /\ SumFunctionOnSet(Back(d), Orders) \in Int /\ SumFunctionOnSet(claim, Orders) \in Int
  BY <1>1, <1>2, SumType
<1> QED
  BY <1>3, <1>4, <1>5, <1>6, <1>7

\* No lot holds more than came in: what came back is covered by what was taken.
LEMMA NeverOverfilled ==
    ASSUME NEW d \in Databases, Sound(d), NEW l \in Batches
    PROVE  d.lots[<<Branch, l>>] <= d.rows[OpeningKey(l)].change
<1> DEFINE os == Reversed(d)
           all == SourcesOfAll(d, os)
           used == UsedLot(d, l)
           back == BackLot(d, l)
<1>1. IsFiniteSet(Orders) /\ os \in SUBSET Orders /\ all \in SUBSET Orders
  BY Finite, CheckShape DEF Reversed, SourcesOfAll
<1>2. \A o \in Orders : used[o] \in Nat /\ back[o] \in Nat
  BY NothingNegative DEF Sound
<1>3. \A o \in Orders \ os : back[o] = 0
  BY FunctionShapes DEF Reversed, ChangedLot
<1>4. SumFunctionOnSet(back, os) <= SumFunctionOnSet(used, all)
  BY <1>1 DEF Sound, BackIsCovered
<1>5. d.lots[<<Branch, l>>] = d.rows[OpeningKey(l)].change
          - SumFunctionOnSet(used, Orders) + SumFunctionOnSet(back, Orders)
  BY DEF Sound, LotsExplained
<1>6. d.rows[OpeningKey(l)].change \in Int
  BY KeysDiffer, RowShape DEF Sound, LotsExplained
<1> HIDE DEF os, all, used, back
<1>7. SumFunctionOnSet(back, Orders) = SumFunctionOnSet(back, os)
  BY <1>1, <1>2, <1>3, SumOfSupport
<1>8. /\ SumFunctionOnSet(used, all) \in Nat
      /\ SumFunctionOnSet(used, all) <= SumFunctionOnSet(used, Orders)
  BY <1>1, <1>2, SumGrows
<1>9. /\ SumFunctionOnSet(back, os) \in Nat /\ SumFunctionOnSet(used, Orders) \in Nat
  BY <1>1, <1>2, SumGrows
<1> QED
  BY <1>4, <1>5, <1>6, <1>7, <1>8, <1>9

\* Checks that draw on one order: what is left of it is enough for this one.
LEMMA SplitCanReverse ==
    ASSUME NEW d \in Databases, Sound(d), NEW o \in Orders, ToReverse(d, o),
           \A x \in Related(d, o) : Cardinality(SourcesOf(d, x)) = 1
    PROVE  CanReverse(d, o)
<1> DEFINE related == Related(d, o)
           sources == SourcesOf(d, o)
           n == d.check[o].qty
<1>1. /\ IsFiniteSet(Orders) /\ IsFiniteSet(Batches) /\ Branch \in Branches
      /\ related \in SUBSET Orders /\ sources \in SUBSET Orders /\ n \in Nat
      /\ RowsAddUp(d) /\ ChecksPosted(d)
  BY Finite, RelatedOrders, CheckShape DEF Sound
<1>2. IsFiniteSet(related) /\ IsFiniteSet(sources)
  BY <1>1, FS_Subset
<1>3. o \in related /\ sources \subseteq related
  BY DEF Related, SourcesOf
<1>4. PICK x \in Orders : sources = {x}
  <2>1. Cardinality(sources) = 1
    BY <1>3
  <2>2. PICK x : sources = {x}
    BY <1>2, <2>1, FS_Singleton
  <2> QED
    BY <1>1, <2>2
<1>5. IsPosted(d, OrderKey(x))
  BY <1>1, <1>4 DEF ChecksPosted, ToReverse
<1>6. ASSUME NEW y \in related PROVE SourcesOf(d, y) = {x}
  <2>1. y \in Orders /\ Cardinality(SourcesOf(d, y)) = 1
    BY <1>1
  <2>2. x \in SourcesOf(d, y)
    <3>1. CASE y \in sources
      BY <1>1, <1>4, <1>5, <3>1 DEF ChecksPosted
    <3>2. CASE d.check[y].sources \cap sources # {}
      BY <1>4, <3>2 DEF SourcesOf
    <3> QED
      BY <1>6, <3>1, <3>2 DEF Related
  <2>3. IsFiniteSet(SourcesOf(d, y))
    BY <1>1, <2>1, CheckShape, FS_Subset
  <2>4. PICK z : SourcesOf(d, y) = {z}
    BY <2>1, <2>3, FS_Singleton
  <2> QED
    BY <2>2, <2>4
<1>7. related \in SUBSET Solo(d, x) /\ Solo(d, x) \in SUBSET Orders
  BY <1>1, <1>6 DEF Solo
<1> DEFINE used == SumFunctionOnSet(Used(d), sources)
           back == SumFunctionOnSet(Back(d), related)
<1>8. used \in Int /\ back \in Int /\ back + n <= used
  <2>1. ASSUME NEW y \in Orders
        PROVE  /\ Used(d)[y] \in Nat /\ Back(d)[y] \in Nat /\ Draws(d)[y] \in Nat
               /\ Draws(d)[y] >= Back(d)[y]
               /\ Draws(d)[y] = Back(d)[y] + IF ToReverse(d, y) THEN d.check[y].qty ELSE 0
    BY <1>1, NothingNegative, FunctionShapes, CheckShape
  <2> DEFINE f == Draws(d)
             g == Back(d)
             rest == related \ {o}
  <2>2. used = Used(d)[x]
    <3>1. \A y \in sources : Used(d)[y] \in Int
      BY <1>4, <2>1
    <3> QED
      BY <1>2, <1>4, <3>1, SumOfOne
  <2>3. SumFunctionOnSet(f, Solo(d, x)) <= Used(d)[x]
    BY DEF Sound, SharesFit
  <2>4. f[o] = g[o] + n
    BY <2>1
  <2>5. /\ \A y \in Orders : f[y] \in Nat /\ g[y] \in Nat /\ g[y] <= f[y]
        /\ \A y \in Orders : f[y] \in Int /\ g[y] \in Int
        /\ rest \in SUBSET related /\ IsFiniteSet(rest) /\ IsFiniteSet(Solo(d, x))
        /\ Used(d)[x] \in Int
    <3>1. IsFiniteSet(rest) /\ IsFiniteSet(Solo(d, x))
      BY <1>1, <1>2, <1>7, FS_Subset
    <3> QED
      BY <2>1, <3>1
  <2> HIDE DEF f, g, rest
  <2>6. /\ SumFunctionOnSet(f, related) <= SumFunctionOnSet(f, Solo(d, x))
        /\ SumFunctionOnSet(f, related) \in Nat
    BY <1>1, <1>7, <2>5, SumGrows
  <2>7. SumFunctionOnSet(f, related) = f[o] + SumFunctionOnSet(f, rest)
    BY <1>1, <1>2, <1>3, <2>5, SumRemove DEF rest
  <2>8. SumFunctionOnSet(g, related) = g[o] + SumFunctionOnSet(g, rest)
    BY <1>1, <1>2, <1>3, <2>5, SumRemove DEF rest
  <2>9. /\ SumFunctionOnSet(g, rest) <= SumFunctionOnSet(f, rest)
        /\ SumFunctionOnSet(g, rest) \in Int /\ SumFunctionOnSet(f, rest) \in Int
        /\ SumFunctionOnSet(f, Solo(d, x)) \in Int
    <3>1. \A y \in rest : f[y] \in Int /\ g[y] \in Int /\ g[y] <= f[y]
      BY <1>1, <2>5
    <3>2. \A y \in Solo(d, x) : f[y] \in Int
      BY <1>7, <2>5
    <3>3. SumFunctionOnSet(g, rest) <= SumFunctionOnSet(f, rest)
      BY <2>5, <3>1, SumOrder
    <3>4. SumFunctionOnSet(g, rest) \in Int /\ SumFunctionOnSet(f, rest) \in Int
      BY <2>5, <3>1, SumType
    <3> QED
      BY <2>5, <3>2, <3>3, <3>4, SumType
  <2>10. back = SumFunctionOnSet(g, related)
    BY DEF g
  <2>11. f[o] \in Int /\ g[o] \in Int
    BY <2>5
  <2> HIDE DEF used, back
  <2> QED
    BY <1>1, <2>2, <2>3, <2>4, <2>5, <2>6, <2>7, <2>8, <2>9, <2>10, <2>11
<1>9. Originals(d, o) # {}
  BY <1>4, <1>5 DEF Originals, IsPosted
<1>10. Fits(d, o)
  BY <1>8, RowsOfCheck DEF Fits
<1>11. AvailableIn(d, o, Batches) >= n
  <2> DEFINE held == [l \in Batches |-> Available(d, o, l)]
             u == [l \in Batches |-> SumFunctionOnSet(UsedLot(d, l), sources)]
             b == [l \in Batches |-> SumFunctionOnSet(BackLot(d, l), related)]
             ub == [l \in Batches |-> SumFunctionOnSet(UsedLot(d, l), related)]
             bs == [l \in Batches |-> SumFunctionOnSet(BackLot(d, l), sources)]
             w == [l \in Batches |-> u[l] - b[l]]
  <2>1. ASSUME NEW l \in Batches
        PROVE  /\ held[l] \in Int /\ u[l] \in Int /\ b[l] \in Int
               /\ w[l] <= held[l] /\ u[l] = w[l] + b[l] /\ w[l] \in Int
    <3>1. held[l] = Available(d, o, l) /\ u[l] = SumFunctionOnSet(UsedLot(d, l), sources)
          /\ b[l] = SumFunctionOnSet(BackLot(d, l), related) /\ w[l] = u[l] - b[l]
      OBVIOUS
    <3> HIDE DEF held, u, b, w
    <3>2. held[l] \in Nat /\ u[l] \in Nat /\ b[l] \in Nat /\ held[l] >= u[l] - b[l]
      BY <1>1, <3>1, AvailableIs
    <3> QED
      BY <3>1, <3>2
  <2>2. /\ \A l \in Batches : u[l] = SumFunctionOnSet(UsedLot(d, l), sources)
        /\ \A l \in Batches : bs[l] = SumFunctionOnSet(BackLot(d, l), sources)
        /\ \A l \in Batches : ub[l] = SumFunctionOnSet(UsedLot(d, l), related)
        /\ \A l \in Batches : b[l] = SumFunctionOnSet(BackLot(d, l), related)
    OBVIOUS
  <2>3. AvailableIn(d, o, Batches) = SumFunctionOnSet(held, Batches)
    BY DEF AvailableIn
  <2> HIDE DEF held, u, b, w, ub, bs
  <2>4. SumFunctionOnSet(u, Batches) = used
    BY <1>1, <2>2, LotsOfOrders
  <2>5. SumFunctionOnSet(b, Batches) = back
    BY <1>1, <2>2, LotsOfOrders
  <2>6. SumFunctionOnSet(w, Batches) <= SumFunctionOnSet(held, Batches)
    BY <1>1, <2>1, SumOrder
  <2>7. SumFunctionOnSet(u, Batches) = SumFunctionOnSet(w, Batches) + SumFunctionOnSet(b, Batches)
    BY <1>1, <2>1, SumPlus
  <2>8. SumFunctionOnSet(w, Batches) \in Int /\ SumFunctionOnSet(held, Batches) \in Int
    BY <1>1, <2>1, SumType
  <2> HIDE DEF used, back
  <2> QED
    BY <1>1, <1>8, <2>3, <2>4, <2>5, <2>6, <2>7, <2>8
<1>12. d.rows[ReverseKey(o)] = NoMove
  BY <1>1 DEF ChecksPosted, IsPosted, ToReverse
<1>13. Covered(d, Branch)
  BY <1>1 DEF Sound, LotsCover
<1> QED
  BY <1>9, <1>10, <1>11, <1>12, <1>13 DEF CanReverse

-------------------------------------------------------------------------------
(* The theorems.                                                           *)

\* The documents keep their shape, in the database and in every snapshot.
THEOREM TypeCorrect == Spec => []TypeOK
<1>1. IInv => TypeOK
  BY DEF IInv
<1> QED
  BY <1>1, Inductive, PTL

\* What is on the shelf, in the ledger and on the checks agrees, and a lot never
\* holds more than was delivered into it.
THEOREM StockTheorem == Spec => []StockAccounted
<1>1. IInv => StockAccounted
  <2> SUFFICES ASSUME IInv PROVE StockAccounted
    OBVIOUS
  <2>1. db \in Databases /\ Sound(db)
    BY DEF IInv, TypeOK
  <2>2. LotsMatchBalance
    BY <2>1 DEF Sound, LotsMatchBalance
  <2>3. ChecksMatchLedger
    <3> DEFINE qty == [o \in Orders |-> db.check[o].qty]
               os == {o \in Orders : ToReverse(db, o)}
               keys == {key \in Keys : key[1] \in {"order", "reverse"} /\ db.rows[key] # NoMove}
    <3>1. SumFunctionOnSet(qty, os)
            = SumFunctionOnSet(Used(db), Orders) - SumFunctionOnSet(Back(db), Orders)
      BY <2>1, ClaimsAreOutstanding
    <3>2. TotalChange(db, keys)
            = SumFunctionOnSet(Back(db), Orders) - SumFunctionOnSet(Used(db), Orders)
      BY <2>1, LedgerOfChecks
    <3>3. /\ SumFunctionOnSet(Used(db), Orders) \in Int
          /\ SumFunctionOnSet(Back(db), Orders) \in Int
      BY <2>1, Finite, FunctionShapes, SumType
    <3>4. SumFunctionOnSet(qty, os) = -TotalChange(db, keys)
      <4> HIDE DEF qty, os, keys
      <4> QED
        BY <3>1, <3>2, <3>3
    <3> QED
      BY <3>4 DEF ChecksMatchLedger
  <2>4. LotsNeverOverfilled
    BY <2>1, NeverOverfilled DEF LotsNeverOverfilled
  <2> QED
    BY <2>2, <2>3, <2>4 DEF StockAccounted
<1> QED
  BY <1>1, Inductive, PTL

\* Checks that were split and not merged can be cancelled or refunded in any
\* order: none finds its share of the allocation gone.
THEOREM SplitTheorem == Spec => []SplitChecksReverse
<1>1. IInv => SplitChecksReverse
  <2> SUFFICES ASSUME IInv, NEW o \in Orders, ToReverse(db, o), Unmerged(o)
               PROVE  CanReverse(db, o)
    BY DEF SplitChecksReverse
  <2>1. db \in Databases /\ Sound(db)
    BY DEF IInv, TypeOK
  <2> QED
    BY <2>1, SplitCanReverse DEF Unmerged
<1> QED
  BY <1>1, Inductive, PTL
===============================================================================
