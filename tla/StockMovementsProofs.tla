-------------------------- MODULE StockMovementsProofs ------------------------
(***************************************************************************)
(* Proofs about StockMovements, for every set of branches, lots, requests  *)
(* and clients: no aggregate or lot goes below zero, the ledger's rows     *)
(* account for every aggregate and every lot, a transfer moves its goods   *)
(* once, lots go first expired, first out, and the documents implement     *)
(* StockPlaces.                                                            *)
(*                                                                         *)
(* A movement writes the aggregate it read, so the commit fails unless the *)
(* snapshot's aggregate is still the database's; and while the aggregate's *)
(* version stands, so do the branch's lots (LotsBehind).  Every step then  *)
(* does to the database what its handler did to its snapshot (Effect).     *)
(***************************************************************************)
EXTENDS StockMovements, Sums

-------------------------------------------------------------------------------
(* The helpers.                                                            *)

\* What a lot is asked for lies between nothing and what it has.
LEMMA ClipBounds ==
    ASSUME NEW x, NEW most \in Nat
    PROVE  Clip(x, most) \in 0..most
BY DEF Clip

\* FEFO takes from a lot at most what is in it.
LEMMA FefoTakes ==
    ASSUME NEW s \in Databases, NEW b \in Branches,
           NEW ls \in SUBSET Batches, NEW n
    PROVE  /\ Fefo(s, b, ls, n) \in Allocations
           /\ \A l \in Batches : s.lots[<<b, l>>] + Fefo(s, b, ls, n)[l] \in Nat
<1> DEFINE x(l) == n - InLots(s, b, {k \in ls : k < l})
<1>1. \A l \in Batches : s.lots[<<b, l>>] \in Nat
  BY DEF Databases, Lots
<1>2. \A l \in Batches : Clip(x(l), s.lots[<<b, l>>]) \in 0..s.lots[<<b, l>>]
  BY <1>1, ClipBounds
<1>3. \A l \in Batches :
        Fefo(s, b, ls, n)[l] = IF l \in ls THEN -Clip(x(l), s.lots[<<b, l>>]) ELSE 0
  BY DEF Fefo
<1> HIDE DEF x
<1>4. \A l \in Batches : /\ Fefo(s, b, ls, n)[l] \in Int
                         /\ s.lots[<<b, l>>] + Fefo(s, b, ls, n)[l] \in Nat
  BY <1>1, <1>2, <1>3
<1>5. Fefo(s, b, ls, n) = [l \in Batches |-> Fefo(s, b, ls, n)[l]]
  BY DEF Fefo
<1> QED
  BY <1>4, <1>5 DEF Allocations

\* What the lots hold, as a function of the lot.
Held(s, b) == [l \in Batches |-> s.lots[<<b, l>>]]

\* A lot holds a natural number.
LEMMA HeldType ==
    ASSUME NEW s \in Databases, NEW b \in Branches
    PROVE  \A l \in Batches : Held(s, b)[l] = s.lots[<<b, l>>] /\ Held(s, b)[l] \in Nat
BY DEF Held, Databases, Lots

\* What a branch has in its lots is a sum over them.
LEMMA InLotsIsSum ==
    ASSUME NEW s, NEW b, NEW ls
    PROVE  InLots(s, b, ls) = SumFunctionOnSet(Held(s, b), ls)
BY DEF InLots, Held

Earlier(ls, l) == {k \in ls : k < l}

\* What FEFO takes from a lot depends on the earlier ones.
LEMMA FefoOf ==
    ASSUME NEW s \in Databases, NEW b \in Branches, NEW ls \in SUBSET Batches,
           NEW n, NEW l \in Batches
    PROVE  Fefo(s, b, ls, n)[l] =
               IF l \in ls
               THEN -Clip(n - SumFunctionOnSet(Held(s, b), Earlier(ls, l)), Held(s, b)[l])
               ELSE 0
BY InLotsIsSum, HeldType DEF Fefo, Earlier

\* The lots before an earlier lot, and that lot, come before a later one.
LEMMA EarlierOrder ==
    ASSUME NEW ls, ls \subseteq Nat, NEW k \in ls, NEW l \in ls, k < l
    PROVE  k \notin Earlier(ls, k) /\ Earlier(ls, k) \cup {k} \subseteq Earlier(ls, l)
<1>1. k \notin Earlier(ls, k) /\ k \in Earlier(ls, l)
  BY DEF Earlier
<1>2. \A j \in Earlier(ls, k) : j \in Earlier(ls, l)
  BY DEF Earlier
<1> QED
  BY <1>1, <1>2

\* The lots up to the last of a prefix, without it.
LEMMA EarlierPrefix ==
    ASSUME NEW ls, ls \subseteq Nat, NEW t, t \subseteq ls, NEW m \in t,
           \A l \in t : Earlier(ls, l) \subseteq t, \A l \in t : l <= m
    PROVE  /\ Earlier(ls, m) = t \ {m}
           /\ \A l \in t \ {m} : Earlier(ls, l) \subseteq t \ {m}
<1>1. \A j \in t \ {m} : j \in Nat /\ m \in Nat /\ j <= m /\ j # m
  OBVIOUS
<1>2. \A j \in t \ {m} : j < m
  BY <1>1
<1>3. \A j \in t \ {m} : j \in Earlier(ls, m)
  BY <1>2 DEF Earlier
<1>4. \A l \in t : m \notin Earlier(ls, l)
  <2> SUFFICES ASSUME NEW l \in t, m < l PROVE FALSE
    BY DEF Earlier
  <2>1. l \in Nat /\ m \in Nat /\ l <= m
    OBVIOUS
  <2> QED
    BY <2>1
<1> QED
  BY <1>3, <1>4

\* Each lot gives what the earlier ones could not: once the lots hold enough,
\* FEFO takes exactly what was asked for.
LEMMA FefoTakesAll ==
    ASSUME NEW s \in Databases, NEW b \in Branches, NEW ls \in SUBSET Batches,
           NEW n \in Nat
    PROVE  n <= InLots(s, b, ls) => SumFunctionOnSet(Fefo(s, b, ls, n), Batches) = -n
<1> DEFINE held == Held(s, b)
           take == Fefo(s, b, ls, n)
           Total(t) == SumFunctionOnSet(held, t)
           Taken(t) == SumFunctionOnSet(take, t)
           Prefix(t) == \A l \in t : Earlier(ls, l) \subseteq t
           Exact(t) == Taken(t) = -(IF n <= Total(t) THEN n ELSE Total(t))
           Family == {t \in SUBSET ls : Prefix(t) => Exact(t)}
<1>1. IsFiniteSet(Batches) /\ Batches \subseteq Nat /\ IsFiniteSet(ls)
  BY BatchAssumption, FS_Subset
<1>2. \A l \in Batches : held[l] \in Nat /\ take[l] \in Int
  BY HeldType, FefoTakes DEF Allocations
<1>3. /\ \A l \in ls : take[l] = -Clip(n - Total(Earlier(ls, l)), held[l])
      /\ \A l \in Batches \ ls : take[l] = 0
  <2> HIDE DEF Prefix, Exact
  <2>1. ASSUME NEW l \in Batches
        PROVE  take[l] = IF l \in ls THEN -Clip(n - Total(Earlier(ls, l)), held[l]) ELSE 0
    BY FefoOf
  <2> HIDE DEF take, held, Total
  <2> QED
    BY <2>1
<1> HIDE DEF held, take
<1>5. \A t \in SUBSET ls : Total(t) \in Nat /\ Taken(t) \in Int
  BY <1>1, <1>2, SumGrows, SumPartType
<1>6. {} \in Family
  BY SumEmpty
<1>7. ASSUME NEW t \in SUBSET ls, t # {}, \A l \in t : t \ {l} \in Family
      PROVE  t \in Family
  <2> SUFFICES ASSUME Prefix(t) PROVE Exact(t)
    OBVIOUS
  <2>0. t # {} /\ ls \in SUBSET Nat
    BY <1>1, <1>7
  <2>1. IsFiniteSet(t) /\ t \subseteq Int
    <3> HIDE DEF Prefix
    <3>1. IsFiniteSet(t)
      BY <1>1, FS_Subset
    <3> QED
      BY <2>0, <3>1
  <2>2. PICK m \in t : \A l \in t : l <= m
    <3> HIDE DEF Prefix
    <3> QED
      BY <2>0, <2>1, Greatest
  <2> DEFINE rest == t \ {m}
  <2>3. Prefix(rest) /\ Earlier(ls, m) = rest
    <3>1. ls \subseteq Nat /\ t \subseteq ls
      BY <2>0
    <3> QED
      BY <2>2, <3>1, EarlierPrefix
  <2>5. Exact(rest)
    <3> HIDE DEF Prefix, Exact
    <3>1. rest \in Family
      BY <1>7, <2>2
    <3> QED
      BY <2>3, <3>1
  <2>6. Total(t) = held[m] + Total(rest) /\ Taken(t) = take[m] + Taken(rest)
    <3>1. \A l \in t : held[l] \in Int /\ take[l] \in Int
      BY <1>2
    <3>2. Total(t) = held[m] + Total(rest)
      BY <2>1, <2>2, <3>1, SumRemove
    <3>3. Taken(t) = take[m] + Taken(rest)
      BY <2>1, <2>2, <3>1, SumRemove
    <3> QED
      BY <3>2, <3>3
  <2>7. take[m] = -Clip(n - Total(rest), held[m])
    BY <1>3, <2>2, <2>3
  <2>8. held[m] \in Nat /\ Total(rest) \in Nat
    BY <1>2, <1>5, <2>2
  <2> HIDE DEF Total, Taken, rest
  <2> QED
    BY <2>5, <2>6, <2>7, <2>8 DEF Clip
<1> HIDE DEF Family
<1>8. \A t \in SUBSET ls : t \in Family
  BY <1>1, <1>6, <1>7, SubsetInduction
<1>9. Exact(ls)
  <2>1. Prefix(ls)
    BY DEF Earlier
  <2> HIDE DEF Prefix, Exact
  <2> QED
    BY <1>8, <2>1 DEF Family
<1>10. InLots(s, b, ls) = Total(ls)
  BY InLotsIsSum DEF held
<1>11. Taken(Batches) = Taken(ls)
  BY <1>1, <1>2, <1>3, SumOfSupport
<1> HIDE DEF Total, Taken
<1> QED
  BY <1>9, <1>10, <1>11 DEF Taken, take

\* A lot gives something only when the earlier ones the movement may use give
\* all they have.
LEMMA FefoEmptiesEarlier ==
    ASSUME NEW s \in Databases, NEW b \in Branches, NEW ls \in SUBSET Batches,
           NEW n \in Nat, NEW k \in ls, NEW l \in ls, k < l
    PROVE  Fefo(s, b, ls, n)[l] < 0 => s.lots[<<b, k>>] + Fefo(s, b, ls, n)[k] = 0
<1> DEFINE held == Held(s, b)
           Total(t) == SumFunctionOnSet(held, t)
           early == Earlier(ls, k)
           late == Earlier(ls, l)
<1>1. IsFiniteSet(ls) /\ ls \in SUBSET Nat
  BY BatchAssumption, FS_Subset
<1>0. held[k] = s.lots[<<b, k>>]
  BY HeldType
<1>2. \A m \in ls : held[m] \in Nat
  BY HeldType
<1>3. /\ Fefo(s, b, ls, n)[l] = -Clip(n - Total(late), held[l])
      /\ Fefo(s, b, ls, n)[k] = -Clip(n - Total(early), held[k])
  BY FefoOf, BatchAssumption
<1>4. /\ k \notin early /\ early \cup {k} \subseteq late
      /\ late \subseteq ls
  BY <1>1, EarlierOrder DEF Earlier
<1> HIDE DEF held, early, late
<1>5. IsFiniteSet(late) /\ IsFiniteSet(early)
  BY <1>1, <1>4, FS_Subset
<1>6. /\ \A m \in late : held[m] \in Nat
      /\ \A m \in early \cup {k} : held[m] \in Int
  <2>1. \A m \in late : m \in ls
    BY <1>4
  <2>2. \A m \in early \cup {k} : m \in late
    BY <1>4
  <2> QED
    BY <1>2, <2>1, <2>2
<1>7. Total(early \cup {k}) <= Total(late) /\ Total(early) \in Nat /\ Total(late) \in Nat
  BY <1>4, <1>5, <1>6, SumGrows
<1>8. Total(early \cup {k}) = held[k] + Total(early)
  BY <1>4, <1>5, <1>6, SumAdd
<1> HIDE DEF Total
<1>9. held[k] \in Nat /\ held[l] \in Nat /\ held[k] = s.lots[<<b, k>>]
  BY <1>0, <1>2
<1> QED
  BY <1>3, <1>7, <1>8, <1>9 DEF Clip

\* The keys of different movements differ.
LEMMA KeysDiffer ==
    /\ \A k : /\ SupplyKey(k) \in Keys <=> k \in Supplies
              /\ RemovalKey(k) \in Keys <=> k \in Removals
              /\ OutKey(k) \in Keys <=> k \in Transfers
              /\ InKey(k) \in Keys <=> k \in Transfers
    /\ \A k, t : /\ SupplyKey(k) # OutKey(t) /\ SupplyKey(k) # InKey(t)
                 /\ RemovalKey(k) # OutKey(t) /\ RemovalKey(k) # InKey(t)
                 /\ OutKey(k) # InKey(t)
                 /\ OutKey(k) = OutKey(t) => k = t
                 /\ InKey(k) = InKey(t) => k = t
BY DEF Keys, SupplyKey, RemovalKey, OutKey, InKey

\* Recording a row changes the rows alone.
LEMMA Recording ==
    ASSUME NEW s \in Databases, NEW key, NEW row
    PROVE  Recorded(s, key, row) =
              [balance |-> s.balance, lots |-> s.lots,
               rows |-> [s.rows EXCEPT ![key] = row], transfer |-> s.transfer]
BY DEF Recorded, Databases

\* A movement that leaves nothing below zero yields a database: one balance,
\* one row and some lots are new.
LEMMA PostEffect ==
    ASSUME NEW s \in Databases, NEW key \in Keys, NEW b \in Branches,
           NEW n \in Int, NEW alloc \in Allocations,
           s.balance[b].qty + n \in Nat,
           \A l \in Batches : s.lots[<<b, l>>] + alloc[l] \in Nat
    PROVE  /\ Post(s, key, b, n, alloc) \in Databases
           /\ Post(s, key, b, n, alloc).transfer = s.transfer
           /\ Post(s, key, b, n, alloc).rows[key] \in Moves
           /\ Post(s, key, b, n, alloc).rows[key].branch = b
           /\ Post(s, key, b, n, alloc).rows[key].change = n
           /\ Post(s, key, b, n, alloc).rows[key].alloc = alloc
           /\ \A k \in Keys \ {key} :
                 Post(s, key, b, n, alloc).rows[k] = s.rows[k]
           /\ Post(s, key, b, n, alloc).balance[b].qty = s.balance[b].qty + n
           /\ Post(s, key, b, n, alloc).balance[b].ver = s.balance[b].ver + 1
           /\ Post(s, key, b, n, alloc).rows[key].ver = s.balance[b].ver + 1
           /\ Post(s, key, b, n, alloc).balance[b] # s.balance[b]
           /\ \A l \in Batches : Post(s, key, b, n, alloc).lots[<<b, l>>]
                                     = s.lots[<<b, l>>] + alloc[l]
           /\ \A d \in Branches \ {b}, l \in Batches :
                 Post(s, key, b, n, alloc).lots[<<d, l>>] = s.lots[<<d, l>>]
           /\ \A d \in Branches \ {b} :
                 Post(s, key, b, n, alloc).balance[d] = s.balance[d]
<1> DEFINE row == Row(s, b, n, alloc)
           bal == [qty |-> s.balance[b].qty + n, ver |-> s.balance[b].ver + 1]
           lot == [p \in Branches \X Batches |->
                     IF p[1] = b THEN s.lots[p] + alloc[p[2]] ELSE s.lots[p]]
           s1 == [balance |-> [s.balance EXCEPT ![b] = bal], lots |-> s.lots,
                  rows |-> s.rows, transfer |-> s.transfer]
           s2 == [balance |-> [s.balance EXCEPT ![b] = bal], lots |-> lot,
                  rows |-> s.rows, transfer |-> s.transfer]
           new == [balance |-> [s.balance EXCEPT ![b] = bal], lots |-> lot,
                   rows |-> [s.rows EXCEPT ![key] = row], transfer |-> s.transfer]
<1>1. Aggregated(s, b, n) = s1
  BY DEF Aggregated, Databases
<1>2. Allocated(s1, b, alloc) = s2
  BY DEF Allocated
<1>3. bal \in [qty : Nat, ver : Nat] /\ bal # s.balance[b]
  BY DEF Databases, Balances
<1>4. row \in Moves
  BY DEF Row, Moves, Databases, Balances
<1>5. lot \in Lots
  BY DEF Lots, Databases, Allocations
<1>6. s2 \in Databases /\ new \in Databases
  BY <1>3, <1>4, <1>5 DEF Databases, Balances
<1>9. /\ \A l \in Batches : lot[<<b, l>>] = s.lots[<<b, l>>] + alloc[l]
      /\ \A d \in Branches \ {b}, l \in Batches : lot[<<d, l>>] = s.lots[<<d, l>>]
  OBVIOUS
<1> HIDE DEF row, bal, lot
<1>7. Recorded(s2, key, row) = new
  BY <1>6, Recording
<1>8. Post(s, key, b, n, alloc) = new
  BY <1>1, <1>2, <1>7 DEF Post, row
<1> QED
  <2>1. /\ new.rows[key] = row /\ new.balance[b] = bal /\ new.lots = lot
        /\ \A k \in Keys \ {key} : new.rows[k] = s.rows[k]
        /\ \A d \in Branches \ {b} : new.balance[d] = s.balance[d]
    BY DEF Databases, Balances
  <2>2. /\ row.branch = b /\ row.change = n /\ row.alloc = alloc
        /\ row.ver = s.balance[b].ver + 1
        /\ bal.qty = s.balance[b].qty + n /\ bal.ver = s.balance[b].ver + 1
    BY DEF Row, row, bal
  <2> HIDE DEF new
  <2>3. Post(s, key, b, n, alloc).transfer = s.transfer
    BY <1>8 DEF new
  <2>4. Post(s, key, b, n, alloc).lots = lot
    BY <1>8, <2>1
  <2> QED
    BY <1>3, <1>4, <1>6, <1>8, <1>9, <2>1, <2>2, <2>3, <2>4

\* A transfer's status is one field of one document.
LEMMA StatusEffect ==
    ASSUME NEW s \in Databases, NEW t \in Transfers, NEW status \in Statuses
    PROVE  /\ SetStatus(s, t, status) \in Databases
           /\ SetStatus(s, t, status).balance = s.balance
           /\ SetStatus(s, t, status).lots = s.lots
           /\ SetStatus(s, t, status).rows = s.rows
           /\ SetStatus(s, t, status).transfer
                = [s.transfer EXCEPT ![t] = status]
<1>1. SetStatus(s, t, status) =
        [balance |-> s.balance, lots |-> s.lots, rows |-> s.rows,
         transfer |-> [s.transfer EXCEPT ![t] = status]]
  BY DEF SetStatus, Databases
<1> QED
  BY <1>1 DEF Databases

-------------------------------------------------------------------------------
(* Transactions.                                                           *)

\* A document after a commit: the transaction's, if it wrote it, and then
\* nobody had changed it since the snapshot; otherwise what it was.
Kept(old, new, cur, next) ==
    IF new = old THEN next = cur ELSE next = new /\ cur = old

\* What a commit does to the documents, and to the snapshots.
LEMMA CommitEffect ==
    ASSUME TypeOK, NEW c \in Clients, snap[c] \in Databases,
           NEW new \in Databases, Commit(c, new)
    PROVE  /\ db' \in Databases
           /\ \A b \in Branches :
                 Kept(snap[c].balance[b], new.balance[b], db.balance[b], db'.balance[b])
           /\ \A key \in Keys :
                 Kept(snap[c].rows[key], new.rows[key], db.rows[key], db'.rows[key])
           /\ \A t \in Transfers :
                 Kept(snap[c].transfer[t], new.transfer[t], db.transfer[t], db'.transfer[t])
           /\ \A p \in Branches \X Batches :
                 Kept(snap[c].lots[p], new.lots[p], db.lots[p], db'.lots[p])
           /\ snap' = [snap EXCEPT ![c] = NoSnapshot]
<1> DEFINE s == snap[c]
<1>1. db \in Databases /\ s \in Databases
  BY DEF TypeOK
<1>2. DOMAIN db = {"balance", "lots", "rows", "transfer"}
  BY <1>1 DEF Databases
<1>3. db' = [coll \in DOMAIN db |-> Merged(s[coll], new[coll], db[coll])]
  BY DEF Commit
<1>4. \A coll \in DOMAIN db : \A doc \in DOMAIN db[coll] :
        db[coll][doc] # s[coll][doc] => new[coll][doc] = s[coll][doc]
  BY DEF Commit, NoConflict, Unwritten
<1> HIDE DEF s
<1>5. db' = [balance |-> Merged(s.balance, new.balance, db.balance),
             lots |-> Merged(s.lots, new.lots, db.lots),
             rows |-> Merged(s.rows, new.rows, db.rows),
             transfer |-> Merged(s.transfer, new.transfer, db.transfer)]
  BY <1>2, <1>3
<1>6. /\ \A b \in Branches : db.balance[b] # s.balance[b]
                                => new.balance[b] = s.balance[b]
      /\ \A key \in Keys : db.rows[key] # s.rows[key]
                                => new.rows[key] = s.rows[key]
      /\ \A t \in Transfers : db.transfer[t] # s.transfer[t]
                                => new.transfer[t] = s.transfer[t]
      /\ \A p \in Branches \X Batches : db.lots[p] # s.lots[p]
                                => new.lots[p] = s.lots[p]
  BY <1>1, <1>2, <1>4 DEF Databases, Balances, Lots
<1>7. Merged(s.balance, new.balance, db.balance) \in Balances
  BY <1>1 DEF Merged, Databases, Balances
<1>8. Merged(s.lots, new.lots, db.lots) \in Lots
  BY <1>1 DEF Merged, Databases, Lots
<1>9. Merged(s.rows, new.rows, db.rows) \in [Keys -> Moves \cup {NoMove}]
  BY <1>1 DEF Merged, Databases
<1>10. Merged(s.transfer, new.transfer, db.transfer) \in [Transfers -> Statuses]
  BY <1>1 DEF Merged, Databases
<1>11. db' \in Databases
  BY <1>5, <1>7, <1>8, <1>9, <1>10 DEF Databases
<1>12. \A b \in Branches :
         Kept(s.balance[b], new.balance[b], db.balance[b], db'.balance[b])
  BY <1>1, <1>5, <1>6 DEF Merged, Unwritten, Kept, Databases, Balances
<1>13. \A key \in Keys :
         Kept(s.rows[key], new.rows[key], db.rows[key], db'.rows[key])
  BY <1>1, <1>5, <1>6 DEF Merged, Unwritten, Kept, Databases
<1>14. \A t \in Transfers :
         Kept(s.transfer[t], new.transfer[t], db.transfer[t], db'.transfer[t])
  BY <1>1, <1>5, <1>6 DEF Merged, Unwritten, Kept, Databases
<1>15. \A p \in Branches \X Batches :
         Kept(s.lots[p], new.lots[p], db.lots[p], db'.lots[p])
  BY <1>1, <1>5, <1>6 DEF Merged, Unwritten, Kept, Databases, Lots
<1> QED
  BY <1>11, <1>12, <1>13, <1>14, <1>15 DEF Commit, s

-------------------------------------------------------------------------------
(* What each handler writes, read from its snapshot.                       *)

Writes(c, new) ==
    /\ snap[c] \in Databases /\ snap[c] # NoSnapshot
    /\ new \in Databases
    /\ Commit(c, new)
    /\ UNCHANGED today

\* One movement of n at branch b, under a key that had no row.
Moved(s, new, key, b, n) ==
    /\ key \in Keys
    /\ s.rows[key] = NoMove
    /\ new.rows[key] \in Moves
    /\ new.rows[key].branch = b /\ new.rows[key].change = n
    /\ \A k \in Keys \ {key} : new.rows[k] = s.rows[k]
    /\ new.balance[b].qty = s.balance[b].qty + n
    /\ new.balance[b] # s.balance[b]
    /\ \A d \in Branches \ {b} : new.balance[d] = s.balance[d]

\* The lots of the movement, its row and the version they get add up.
Booked(s, new, key, b, n) ==
    /\ new.balance[b].ver = s.balance[b].ver + 1
    /\ new.rows[key].ver = s.balance[b].ver + 1
    /\ SumFunctionOnSet(new.rows[key].alloc, Batches) = n
    /\ \A l \in Batches : new.lots[<<b, l>>] = s.lots[<<b, l>>] + new.rows[key].alloc[l]
    /\ \A d \in Branches \ {b}, l \in Batches : new.lots[<<d, l>>] = s.lots[<<d, l>>]

\* A posted movement is booked once, on its branch, with lots that add up.
LEMMA PostBooks ==
    ASSUME NEW s \in Databases, NEW key \in Keys, NEW b \in Branches,
           NEW n \in Int, NEW alloc \in Allocations,
           s.balance[b].qty + n \in Nat,
           \A l \in Batches : s.lots[<<b, l>>] + alloc[l] \in Nat,
           SumFunctionOnSet(alloc, Batches) = n
    PROVE  Booked(s, Post(s, key, b, n, alloc), key, b, n)
BY PostEffect DEF Booked

\* It stays booked when a document's status is written with it.
LEMMA StatusBooks ==
    ASSUME NEW s, NEW post, NEW new, NEW key, NEW b, NEW n,
           Booked(s, post, key, b, n),
           new.balance = post.balance, new.rows = post.rows, new.lots = post.lots
    PROVE  Booked(s, new, key, b, n)
BY DEF Booked

\* Of the lots it may use, a movement out leaves the earlier ones empty.
Drains(new, key, b, ls) ==
    \A k, l \in ls : k < l /\ new.rows[key].alloc[l] < 0 => new.lots[<<b, k>>] = 0

\* A delivery of goods writes one movement, and into lots only.
LEMMA BringInWrites ==
    ASSUME TypeOK, NEW c \in Clients, NEW k \in Supplies, BringIn(c, k)
    PROVE  \E new \in Databases :
              /\ Writes(c, new)
              /\ Moved(snap[c], new, SupplyKey(k), Supply[k].branch, Supply[k].qty)
              /\ Booked(snap[c], new, SupplyKey(k), Supply[k].branch, Supply[k].qty)
              /\ \A l \in Batches : new.rows[SupplyKey(k)].alloc[l] \in Nat
              /\ new.transfer = snap[c].transfer
<1> DEFINE s == snap[c]
           r == Supply[k]
           new == Post(s, SupplyKey(k), r.branch, r.qty, OneLot(r.batch, r.qty))
<1>1. s \in Databases /\ s # NoSnapshot
  BY DEF BringIn, TypeOK
<1>2. r.branch \in Branches /\ r.batch \in Batches /\ r.qty \in Nat \ {0}
  BY RequestAssumption
<1>3. OneLot(r.batch, r.qty) \in Allocations
  BY <1>2 DEF OneLot, Allocations
<1>4. \A l \in Batches : s.lots[<<r.branch, l>>] + OneLot(r.batch, r.qty)[l] \in Nat
  BY <1>1, <1>2 DEF OneLot, Databases, Lots
<1>5. s.balance[r.branch].qty + r.qty \in Nat
  BY <1>1, <1>2 DEF Databases, Balances
<1>6. s.rows[SupplyKey(k)] = NoMove /\ Commit(c, new) /\ UNCHANGED today
  BY DEF BringIn, Answer, Fresh
<1>7. SupplyKey(k) \in Keys
  BY KeysDiffer
<1> DEFINE alloc == OneLot(r.batch, r.qty)
<1>8. SumFunctionOnSet(alloc, Batches) = r.qty /\ \A l \in Batches : alloc[l] \in Nat
  <2>1. /\ IsFiniteSet(Batches) /\ alloc[r.batch] = r.qty /\ r.qty \in Int
        /\ \A l \in Batches \ {r.batch} : alloc[l] = 0
    BY <1>2, BatchAssumption DEF OneLot
  <2>2. \A l \in Batches : alloc[l] \in Nat
    BY <1>2 DEF OneLot
  <2> HIDE DEF alloc, r
  <2> QED
    BY <1>2, <2>1, <2>2, SumOfOne
<1> HIDE DEF s, r, alloc
<1>9. new \in Databases /\ new.transfer = s.transfer
      /\ Moved(s, new, SupplyKey(k), r.branch, r.qty)
      /\ new.rows[SupplyKey(k)].alloc = alloc
  BY <1>1, <1>2, <1>3, <1>4, <1>5, <1>6, <1>7, PostEffect DEF Moved, alloc
<1>10. Booked(s, new, SupplyKey(k), r.branch, r.qty)
  BY <1>1, <1>2, <1>3, <1>4, <1>5, <1>7, <1>8, PostBooks DEF alloc
<1> HIDE DEF new
<1> QED
  BY <1>1, <1>6, <1>8, <1>9, <1>10 DEF Writes, s, r

\* A removal writes one movement, and drains the earlier lots first.
LEMMA TakeOutWrites ==
    ASSUME TypeOK, NEW c \in Clients, NEW k \in Removals, TakeOut(c, k)
    PROVE  \E new \in Databases :
              /\ Writes(c, new)
              /\ Moved(snap[c], new, RemovalKey(k), Removal[k].branch, -Removal[k].qty)
              /\ Booked(snap[c], new, RemovalKey(k), Removal[k].branch, -Removal[k].qty)
              /\ Drains(new, RemovalKey(k), Removal[k].branch, Removal[k].from)
              /\ new.transfer = snap[c].transfer
<1> DEFINE s == snap[c]
           r == Removal[k]
           alloc == Fefo(s, r.branch, r.from, r.qty)
           new == Post(s, RemovalKey(k), r.branch, -r.qty, alloc)
<1>1. s \in Databases /\ s # NoSnapshot
  BY DEF TakeOut, TypeOK
<1>2. r.branch \in Branches /\ r.from \in SUBSET Batches /\ r.qty \in Nat \ {0}
  BY RequestAssumption
<1>3. /\ s.rows[RemovalKey(k)] = NoMove /\ Commit(c, new) /\ UNCHANGED today
      /\ r.qty <= s.balance[r.branch].qty
      /\ r.qty <= InLots(s, r.branch, r.from)
  BY DEF TakeOut, Answer, Fresh, CanTake
<1>4. RemovalKey(k) \in Keys
  BY KeysDiffer
<1> HIDE DEF s, r
<1>5. /\ alloc \in Allocations
      /\ \A l \in Batches : s.lots[<<r.branch, l>>] + alloc[l] \in Nat
  BY <1>1, <1>2, FefoTakes
<1>6. -r.qty \in Int /\ s.balance[r.branch].qty + (-r.qty) \in Nat
  BY <1>1, <1>2, <1>3 DEF Databases, Balances
<1>7. r.qty \in Nat
  BY <1>2
<1>8. SumFunctionOnSet(alloc, Batches) = -r.qty
  BY <1>1, <1>2, <1>3, <1>7, FefoTakesAll
<1>9. \A j, l \in r.from : j < l /\ alloc[l] < 0 => s.lots[<<r.branch, j>>] + alloc[j] = 0
  BY <1>1, <1>2, <1>7, FefoEmptiesEarlier
<1> HIDE DEF alloc
<1>10. new \in Databases /\ new.transfer = s.transfer
      /\ Moved(s, new, RemovalKey(k), r.branch, -r.qty)
      /\ new.rows[RemovalKey(k)].alloc = alloc
  BY <1>1, <1>2, <1>3, <1>4, <1>5, <1>6, PostEffect DEF Moved
<1>11. Booked(s, new, RemovalKey(k), r.branch, -r.qty)
  BY <1>1, <1>2, <1>4, <1>5, <1>6, <1>8, PostBooks
<1> HIDE DEF new
<1>12. Drains(new, RemovalKey(k), r.branch, r.from)
  BY <1>2, <1>9, <1>10, <1>11 DEF Drains, Booked
<1> QED
  BY <1>1, <1>3, <1>10, <1>11, <1>12 DEF Writes, s, r

\* A transfer that leaves does, from the lots that may be sold.
LEMMA SendWrites ==
    ASSUME TypeOK, NEW c \in Clients, NEW t \in Transfers, Send(c, t)
    PROVE  \E new \in Databases :
              /\ Writes(c, new)
              /\ Moved(snap[c], new, OutKey(t), Transfer[t].from, -Transfer[t].qty)
              /\ Booked(snap[c], new, OutKey(t), Transfer[t].from, -Transfer[t].qty)
              /\ Drains(new, OutKey(t), Transfer[t].from, Sellable(today))
              /\ \A l \in Batches : -new.rows[OutKey(t)].alloc[l] \in Nat
              /\ snap[c].transfer[t] = "approved"
              /\ new.transfer = [snap[c].transfer EXCEPT ![t] = "in_transit"]
              /\ Transfer[t].qty <= snap[c].balance[Transfer[t].from].qty
<1> DEFINE s == snap[c]
           r == Transfer[t]
           alloc == Fefo(s, r.from, Sellable(today), r.qty)
           post == Post(s, OutKey(t), r.from, -r.qty, alloc)
           new == SetStatus(post, t, "in_transit")
<1>1. s \in Databases /\ s # NoSnapshot
  BY DEF Send, TypeOK
<1>2. r.from \in Branches /\ r.qty \in Nat \ {0}
  BY RequestAssumption
<1>3. /\ s.rows[OutKey(t)] = NoMove /\ Commit(c, new) /\ UNCHANGED today
      /\ r.qty <= s.balance[r.from].qty
      /\ r.qty <= InLots(s, r.from, Sellable(today))
  BY DEF Send, Answer, Fresh, CanTake
<1>4. OutKey(t) \in Keys
  BY KeysDiffer
<1>5. s.transfer[t] = "approved"
  BY <1>1 DEF Send, CanTransition, TransferTransitions, Databases, Statuses
<1>6. Sellable(today) \in SUBSET Batches
  BY DEF Sellable
<1> HIDE DEF s, r
<1>7. /\ alloc \in Allocations
      /\ \A l \in Batches : s.lots[<<r.from, l>>] + alloc[l] \in Nat
  BY <1>1, <1>2, <1>6, FefoTakes
<1>8. \A l \in Batches : -alloc[l] \in Nat
  BY <1>1, <1>2, ClipBounds DEF alloc, Fefo, Databases, Lots
<1>9. r.qty \in Nat /\ -r.qty \in Int /\ s.balance[r.from].qty + (-r.qty) \in Nat
  BY <1>1, <1>2, <1>3 DEF Databases, Balances
<1>13. SumFunctionOnSet(alloc, Batches) = -r.qty
  BY <1>1, <1>2, <1>3, <1>6, <1>9, FefoTakesAll
<1>14. \A j, l \in Sellable(today) :
          j < l /\ alloc[l] < 0 => s.lots[<<r.from, j>>] + alloc[j] = 0
  BY <1>1, <1>2, <1>6, <1>9, FefoEmptiesEarlier
<1> HIDE DEF alloc
<1>15. Booked(s, post, OutKey(t), r.from, -r.qty)
  BY <1>1, <1>2, <1>4, <1>7, <1>9, <1>13, PostBooks
<1>10. post \in Databases /\ post.transfer = s.transfer
       /\ Moved(s, post, OutKey(t), r.from, -r.qty)
       /\ post.rows[OutKey(t)].alloc = alloc
  BY <1>1, <1>2, <1>3, <1>4, <1>7, <1>9, PostEffect DEF Moved
<1> HIDE DEF post
<1>11. /\ new \in Databases
       /\ new.balance = post.balance /\ new.rows = post.rows /\ new.lots = post.lots
       /\ new.transfer = [s.transfer EXCEPT ![t] = "in_transit"]
<2>1. post \in Databases /\ "in_transit" \in Statuses /\ post.transfer = s.transfer
  BY <1>10 DEF Statuses
<2>2. /\ new \in Databases
      /\ new.balance = post.balance /\ new.rows = post.rows /\ new.lots = post.lots
      /\ new.transfer = [post.transfer EXCEPT ![t] = "in_transit"]
  BY <2>1, StatusEffect
<2> QED
  BY <2>1, <2>2
<1> HIDE DEF new
<1>12. Moved(s, new, OutKey(t), r.from, -r.qty)
  BY <1>10, <1>11 DEF Moved
<1>16. Booked(s, new, OutKey(t), r.from, -r.qty)
  BY <1>11, <1>15, StatusBooks
<1>17. Drains(new, OutKey(t), r.from, Sellable(today))
  BY <1>6, <1>10, <1>11, <1>14, <1>16 DEF Drains, Booked
<1> QED
  BY <1>1, <1>3, <1>5, <1>8, <1>10, <1>11, <1>12, <1>16, <1>17 DEF Writes, s, r

\* What left and has not arrived, in the row that recorded it.
OutRowsTake ==
    \A t \in Transfers :
        db.rows[OutKey(t)] # NoMove =>
            \A l \in Batches : -db.rows[OutKey(t)].alloc[l] \in Nat

\* A snapshot's rows are still there.
SnapshotsBehind ==
    \A c \in Clients : snap[c] # NoSnapshot =>
        \A key \in Keys :
            snap[c].rows[key] # NoMove => db.rows[key] = snap[c].rows[key]

\* What a row takes from the lots, or puts there, is its change.
RowsBalance ==
    \A key \in Keys :
        db.rows[key] # NoMove =>
            SumFunctionOnSet(db.rows[key].alloc, Batches) = db.rows[key].change

\* A transfer that arrives brings in the lots that its row took out.
LEMMA ReceiveWrites ==
    ASSUME TypeOK, OutRowsTake, SnapshotsBehind, TransferMovesOnce, RowsBalance,
           NEW c \in Clients, NEW t \in Transfers, Receive(c, t)
    PROVE  \E new \in Databases :
              /\ Writes(c, new)
              /\ Moved(snap[c], new, InKey(t), Transfer[t].to, Transfer[t].qty)
              /\ Booked(snap[c], new, InKey(t), Transfer[t].to, Transfer[t].qty)
              /\ new.rows[InKey(t)].alloc
                    = [l \in Batches |-> -db.rows[OutKey(t)].alloc[l]]
              /\ snap[c].transfer[t] = "in_transit"
              /\ new.transfer = [snap[c].transfer EXCEPT ![t] = "received"]
<1> DEFINE s == snap[c]
           r == Transfer[t]
           alloc == [l \in Batches |-> -s.rows[OutKey(t)].alloc[l]]
           post == Post(s, InKey(t), r.to, r.qty, alloc)
           new == SetStatus(post, t, "received")
<1>1. s \in Databases /\ s # NoSnapshot
  BY DEF Receive, TypeOK
<1>2. r.to \in Branches /\ r.qty \in Nat \ {0}
  BY RequestAssumption
<1>3. /\ s.rows[InKey(t)] = NoMove /\ Commit(c, new) /\ UNCHANGED today
      /\ s.rows[OutKey(t)] # NoMove
  BY DEF Receive, Answer, Fresh
<1>4. InKey(t) \in Keys /\ OutKey(t) \in Keys
  BY KeysDiffer
<1>5. s.transfer[t] = "in_transit"
  BY <1>1 DEF Receive, CanTransition, TransferTransitions, Databases, Statuses
<1>6. db.rows[OutKey(t)] = s.rows[OutKey(t)] /\ s # NoSnapshot
  BY <1>3, <1>4 DEF SnapshotsBehind, Receive
<1>15. /\ s.rows[OutKey(t)] \in Moves
       /\ SumFunctionOnSet(s.rows[OutKey(t)].alloc, Batches) = -r.qty
  BY <1>1, <1>3, <1>4, <1>6 DEF Databases, TransferMovesOnce, RowsBalance
<1> HIDE DEF s, r
<1>7. \A l \in Batches : -s.rows[OutKey(t)].alloc[l] \in Nat
  BY <1>3, <1>6 DEF OutRowsTake
<1>16. SumFunctionOnSet(alloc, Batches) = r.qty
  <2> DEFINE out == s.rows[OutKey(t)].alloc
  <2>1. \A l \in Batches : out[l] \in Int /\ alloc[l] = -out[l]
    BY <1>15 DEF Moves, Allocations
  <2>2. IsFiniteSet(Batches)
    BY BatchAssumption
  <2> HIDE DEF alloc, out
  <2>3. SumFunctionOnSet(alloc, Batches) = -SumFunctionOnSet(out, Batches)
    BY <2>1, <2>2, SumNegative
  <2> QED
    BY <1>2, <1>15, <2>3 DEF out
<1>8. alloc \in Allocations
  BY <1>7 DEF Allocations
<1>9. \A l \in Batches : s.lots[<<r.to, l>>] + alloc[l] \in Nat
  BY <1>1, <1>2, <1>7 DEF Databases, Lots
<1>10. r.qty \in Int /\ s.balance[r.to].qty + r.qty \in Nat
  BY <1>1, <1>2 DEF Databases, Balances
<1>11. alloc = [l \in Batches |-> -db.rows[OutKey(t)].alloc[l]]
  BY <1>6
<1> HIDE DEF alloc
<1>12. post \in Databases /\ post.transfer = s.transfer
       /\ Moved(s, post, InKey(t), r.to, r.qty)
       /\ post.rows[InKey(t)].alloc = alloc
  BY <1>1, <1>2, <1>3, <1>4, <1>8, <1>9, <1>10, PostEffect DEF Moved
<1>17. Booked(s, post, InKey(t), r.to, r.qty)
  BY <1>1, <1>2, <1>4, <1>8, <1>9, <1>10, <1>16, PostBooks
<1> HIDE DEF post
<1>13. /\ new \in Databases
       /\ new.balance = post.balance /\ new.rows = post.rows /\ new.lots = post.lots
       /\ new.transfer = [s.transfer EXCEPT ![t] = "received"]
<2>1. post \in Databases /\ "received" \in Statuses /\ post.transfer = s.transfer
  BY <1>12 DEF Statuses
<2>2. /\ new \in Databases
      /\ new.balance = post.balance /\ new.rows = post.rows /\ new.lots = post.lots
      /\ new.transfer = [post.transfer EXCEPT ![t] = "received"]
  BY <2>1, StatusEffect
<2> QED
  BY <2>1, <2>2
<1> HIDE DEF new
<1>14. Moved(s, new, InKey(t), r.to, r.qty)
  BY <1>12, <1>13 DEF Moved
<1>18. Booked(s, new, InKey(t), r.to, r.qty)
  BY <1>13, <1>17, StatusBooks
<1> QED
  BY <1>1, <1>3, <1>5, <1>11, <1>12, <1>13, <1>14, <1>18 DEF Writes, s, r

\* Creating a transfer and deciding on it move nothing.
LEMMA PaperWrites ==
    ASSUME TypeOK, NEW c \in Clients, NEW t \in Transfers,
           CreateTransfer(c, t) \/ Decide(c, t)
    PROVE  \E new \in Databases :
              /\ Writes(c, new)
              /\ new.balance = snap[c].balance /\ new.rows = snap[c].rows
              /\ new.lots = snap[c].lots
              /\ snap[c].transfer[t] \in {"absent", "requested", "approved"}
              /\ \E status \in {"requested", "approved", "cancelled"} :
                    /\ snap[c].transfer[t] # status
                    /\ new.transfer = [snap[c].transfer EXCEPT ![t] = status]
<1> DEFINE s == snap[c]
<1>1. s \in Databases /\ s # NoSnapshot
  BY DEF CreateTransfer, Decide, TypeOK
<1>2. PICK status \in {"requested", "approved", "cancelled"} :
        /\ s.transfer[t] \in {"absent", "requested", "approved"}
        /\ s.transfer[t] # status
        /\ Commit(c, SetStatus(s, t, status)) /\ UNCHANGED today
<2>1. CASE CreateTransfer(c, t)
  BY <2>1 DEF CreateTransfer, Answer
<2>2. CASE Decide(c, t)
<3>1. s.transfer[t] \in Statuses
  BY <1>1 DEF Databases
<3>2. PICK status \in {"approved", "cancelled"} :
        CanTransition(s, t, status) /\ Answer(c, SetStatus(s, t, status))
  BY <2>2 DEF Decide
<3>3. s.transfer[t] \in {"requested", "approved"} /\ s.transfer[t] # status
  BY <3>1, <3>2 DEF CanTransition, TransferTransitions, Statuses
<3> QED
  BY <3>2, <3>3 DEF Answer
<2> QED
  BY <2>1, <2>2
<1> DEFINE new == SetStatus(s, t, status)
<1>3. status \in Statuses
  BY DEF Statuses
<1> HIDE DEF s
<1>4. /\ new \in Databases /\ new.balance = s.balance /\ new.rows = s.rows
      /\ new.lots = s.lots
      /\ new.transfer = [s.transfer EXCEPT ![t] = status]
  BY <1>1, <1>3, StatusEffect
<1> HIDE DEF new
<1>5. Writes(c, new)
  BY <1>1, <1>2, <1>4 DEF Writes, new, s
<1> QED
  BY <1>2, <1>4, <1>5 DEF s

-------------------------------------------------------------------------------
(* The same, read from the database the handler's commit meets.            *)

\* A movement takes effect on the balance its snapshot saw, or not at all.
LEMMA MovedCommitted ==
    ASSUME TypeOK, NEW c \in Clients, NEW new \in Databases, Writes(c, new),
           NEW key \in Keys, NEW b \in Branches, NEW n,
           Moved(snap[c], new, key, b, n), Booked(snap[c], new, key, b, n)
    PROVE  /\ Moved(db, db', key, b, n)
           /\ Booked(db, db', key, b, n)
           /\ db.balance[b] = snap[c].balance[b]
           /\ db'.rows[key] = new.rows[key]
<1> DEFINE s == snap[c]
<1>1. /\ \A d \in Branches :
            Kept(s.balance[d], new.balance[d], db.balance[d], db'.balance[d])
      /\ \A k \in Keys : Kept(s.rows[k], new.rows[k], db.rows[k], db'.rows[k])
      /\ \A p \in Branches \X Batches :
            Kept(s.lots[p], new.lots[p], db.lots[p], db'.lots[p])
  BY CommitEffect DEF Writes
<1>0. s \in Databases /\ db \in Databases
  BY DEF Writes, TypeOK
<1> HIDE DEF s
<1>2. Moved(s, new, key, b, n) /\ Booked(s, new, key, b, n)
  BY DEF s
<1>3. db'.balance[b] = new.balance[b] /\ db.balance[b] = s.balance[b]
  BY <1>1, <1>2 DEF Kept, Moved
<1>4. \A d \in Branches \ {b} : db'.balance[d] = db.balance[d]
  BY <1>1, <1>2 DEF Kept, Moved
<1>5. new.rows[key] # s.rows[key]
  BY <1>2, NoMoveAssumption DEF Moved
<1>6. db'.rows[key] = new.rows[key] /\ db.rows[key] = s.rows[key]
  BY <1>1, <1>5 DEF Kept
<1>7. \A k \in Keys \ {key} : db'.rows[k] = db.rows[k]
  BY <1>1, <1>2 DEF Kept, Moved
<1>8. \A l \in Batches : db'.lots[<<b, l>>] = db.lots[<<b, l>>] + new.rows[key].alloc[l]
  <2> SUFFICES ASSUME NEW l \in Batches
               PROVE  db'.lots[<<b, l>>] = db.lots[<<b, l>>] + new.rows[key].alloc[l]
    OBVIOUS
  <2>1. new.lots[<<b, l>>] = s.lots[<<b, l>>] + new.rows[key].alloc[l]
    BY <1>2 DEF Booked
  <2>2. s.lots[<<b, l>>] \in Nat /\ db.lots[<<b, l>>] \in Nat /\ new.rows[key].alloc[l] \in Int
    BY <1>0, <1>2 DEF Databases, Lots, Moved, Moves, Allocations
  <2>3. Kept(s.lots[<<b, l>>], new.lots[<<b, l>>], db.lots[<<b, l>>], db'.lots[<<b, l>>])
    BY <1>1
  <2> QED
    BY <2>1, <2>2, <2>3 DEF Kept
<1>9. \A d \in Branches \ {b}, l \in Batches : db'.lots[<<d, l>>] = db.lots[<<d, l>>]
  <2> SUFFICES ASSUME NEW d \in Branches \ {b}, NEW l \in Batches
               PROVE  db'.lots[<<d, l>>] = db.lots[<<d, l>>]
    OBVIOUS
  <2>1. new.lots[<<d, l>>] = s.lots[<<d, l>>]
    BY <1>2 DEF Booked
  <2>2. Kept(s.lots[<<d, l>>], new.lots[<<d, l>>], db.lots[<<d, l>>], db'.lots[<<d, l>>])
    BY <1>1
  <2> QED
    BY <2>1, <2>2 DEF Kept
<1>10. Moved(db, db', key, b, n)
  BY <1>2, <1>3, <1>4, <1>6, <1>7 DEF Moved
<1>11. Booked(db, db', key, b, n)
  BY <1>2, <1>3, <1>6, <1>8, <1>9 DEF Booked
<1> QED
  BY <1>3, <1>6, <1>10, <1>11 DEF s

\* While a branch's version is the snapshot's, so are its lots.
LotsBehind ==
    \A c \in Clients : snap[c] # NoSnapshot => \A b \in Branches :
        /\ snap[c].balance[b].ver <= db.balance[b].ver
        /\ snap[c].balance[b].ver = db.balance[b].ver =>
              \A l \in Batches : snap[c].lots[<<b, l>>] = db.lots[<<b, l>>]

\* A movement whose commit stands found the lots as its snapshot saw them, so
\* the earlier ones are empty still.
LEMMA DrainsCommitted ==
    ASSUME TypeOK, LotsBehind, NEW c \in Clients, NEW new \in Databases,
           Writes(c, new), NEW key \in Keys, NEW b \in Branches, NEW n,
           NEW ls \in SUBSET Batches,
           Moved(snap[c], new, key, b, n), Booked(snap[c], new, key, b, n),
           Drains(new, key, b, ls)
    PROVE  Drains(db', key, b, ls)
<1>1. /\ db.balance[b] = snap[c].balance[b]
      /\ db'.rows[key] = new.rows[key]
      /\ Booked(db, db', key, b, n)
  BY MovedCommitted
<1>2. snap[c] # NoSnapshot
  BY DEF Writes
<1>3. \A l \in Batches : snap[c].lots[<<b, l>>] = db.lots[<<b, l>>]
  BY <1>1, <1>2 DEF LotsBehind
<1>4. \A l \in Batches : db'.lots[<<b, l>>] = new.lots[<<b, l>>]
  BY <1>1, <1>3 DEF Booked
<1> QED
  BY <1>1, <1>4 DEF Drains

\* So does a change of status.
LEMMA StatusCommitted ==
    ASSUME TypeOK, NEW c \in Clients, NEW new \in Databases, Writes(c, new),
           NEW t \in Transfers, NEW status, snap[c].transfer[t] # status,
           new.transfer = [snap[c].transfer EXCEPT ![t] = status]
    PROVE  /\ db.transfer[t] = snap[c].transfer[t]
           /\ db'.transfer[t] = status
           /\ \A u \in Transfers \ {t} : db'.transfer[u] = db.transfer[u]
<1> DEFINE s == snap[c]
<1>1. \A u \in Transfers :
         Kept(s.transfer[u], new.transfer[u], db.transfer[u], db'.transfer[u])
  BY CommitEffect DEF Writes
<1>2. s \in Databases
  BY DEF Writes
<1> HIDE DEF s
<1>3. new.transfer = [s.transfer EXCEPT ![t] = status] /\ s.transfer[t] # status
  BY DEF s
<1>4. /\ new.transfer[t] = status
      /\ \A u \in Transfers \ {t} : new.transfer[u] = s.transfer[u]
  BY <1>2, <1>3 DEF Databases
<1> QED
  BY <1>1, <1>3, <1>4 DEF Kept, s

\* What a handler does not write stays.
LEMMA RestStays ==
    ASSUME TypeOK, NEW c \in Clients, NEW new \in Databases, Writes(c, new)
    PROVE  /\ new.transfer = snap[c].transfer =>
                \A t \in Transfers : db'.transfer[t] = db.transfer[t]
           /\ new.balance = snap[c].balance =>
                \A b \in Branches : db'.balance[b] = db.balance[b]
           /\ new.rows = snap[c].rows =>
                \A k \in Keys : db'.rows[k] = db.rows[k]
           /\ new.lots = snap[c].lots =>
                \A p \in Branches \X Batches : db'.lots[p] = db.lots[p]
BY CommitEffect DEF Writes, Kept

\* The effect of each action on the database.
BroughtIn(k) ==
    /\ Moved(db, db', SupplyKey(k), Supply[k].branch, Supply[k].qty)
    /\ Booked(db, db', SupplyKey(k), Supply[k].branch, Supply[k].qty)
    /\ \A l \in Batches : db'.rows[SupplyKey(k)].alloc[l] \in Nat
    /\ \A t \in Transfers : db'.transfer[t] = db.transfer[t]

TakenOut(k) ==
    /\ Moved(db, db', RemovalKey(k), Removal[k].branch, -Removal[k].qty)
    /\ Booked(db, db', RemovalKey(k), Removal[k].branch, -Removal[k].qty)
    /\ Drains(db', RemovalKey(k), Removal[k].branch, Removal[k].from)
    /\ \A t \in Transfers : db'.transfer[t] = db.transfer[t]

Decided(t) ==
    /\ \A b \in Branches : db'.balance[b] = db.balance[b]
    /\ \A p \in Branches \X Batches : db'.lots[p] = db.lots[p]
    /\ \A k \in Keys : db'.rows[k] = db.rows[k]
    /\ \A u \in Transfers \ {t} : db'.transfer[u] = db.transfer[u]
    /\ db.transfer[t] \in {"absent", "requested", "approved"}
    /\ db'.transfer[t] \in {"requested", "approved", "cancelled"}

Sent(t) ==
    /\ Moved(db, db', OutKey(t), Transfer[t].from, -Transfer[t].qty)
    /\ Booked(db, db', OutKey(t), Transfer[t].from, -Transfer[t].qty)
    /\ Drains(db', OutKey(t), Transfer[t].from, Sellable(today))
    /\ \A l \in Batches : -db'.rows[OutKey(t)].alloc[l] \in Nat
    /\ Transfer[t].qty <= db.balance[Transfer[t].from].qty
    /\ \A u \in Transfers \ {t} : db'.transfer[u] = db.transfer[u]
    /\ db.transfer[t] = "approved" /\ db'.transfer[t] = "in_transit"

Received(t) ==
    /\ Moved(db, db', InKey(t), Transfer[t].to, Transfer[t].qty)
    /\ Booked(db, db', InKey(t), Transfer[t].to, Transfer[t].qty)
    /\ db'.rows[InKey(t)].alloc
          = [l \in Batches |-> -db.rows[OutKey(t)].alloc[l]]
    /\ \A u \in Transfers \ {t} : db'.transfer[u] = db.transfer[u]
    /\ db.transfer[t] = "in_transit" /\ db'.transfer[t] = "received"

\* What a delivery changes, seen from the database before it.
LEMMA BringInEffect ==
    ASSUME TypeOK, NEW c \in Clients, NEW k \in Supplies, BringIn(c, k)
    PROVE  BroughtIn(k) /\ (\E new \in Databases : Writes(c, new))
<1>1. PICK new \in Databases :
        /\ Writes(c, new)
        /\ Moved(snap[c], new, SupplyKey(k), Supply[k].branch, Supply[k].qty)
        /\ Booked(snap[c], new, SupplyKey(k), Supply[k].branch, Supply[k].qty)
        /\ \A l \in Batches : new.rows[SupplyKey(k)].alloc[l] \in Nat
        /\ new.transfer = snap[c].transfer
  BY BringInWrites
<1>2. SupplyKey(k) \in Keys /\ Supply[k].branch \in Branches
  BY KeysDiffer, RequestAssumption
<1>3. /\ Moved(db, db', SupplyKey(k), Supply[k].branch, Supply[k].qty)
      /\ Booked(db, db', SupplyKey(k), Supply[k].branch, Supply[k].qty)
      /\ db'.rows[SupplyKey(k)] = new.rows[SupplyKey(k)]
  BY <1>1, <1>2, MovedCommitted
<1>4. \A t \in Transfers : db'.transfer[t] = db.transfer[t]
  BY <1>1, RestStays
<1> QED
  BY <1>1, <1>3, <1>4 DEF BroughtIn

\* What a removal changes.
LEMMA TakeOutEffect ==
    ASSUME TypeOK, LotsBehind, NEW c \in Clients, NEW k \in Removals, TakeOut(c, k)
    PROVE  TakenOut(k) /\ (\E new \in Databases : Writes(c, new))
<1>1. PICK new \in Databases :
        /\ Writes(c, new)
        /\ Moved(snap[c], new, RemovalKey(k), Removal[k].branch, -Removal[k].qty)
        /\ Booked(snap[c], new, RemovalKey(k), Removal[k].branch, -Removal[k].qty)
        /\ Drains(new, RemovalKey(k), Removal[k].branch, Removal[k].from)
        /\ new.transfer = snap[c].transfer
  BY TakeOutWrites
<1>2. /\ RemovalKey(k) \in Keys /\ Removal[k].branch \in Branches
      /\ Removal[k].from \in SUBSET Batches
  BY KeysDiffer, RequestAssumption
<1>3. /\ Moved(db, db', RemovalKey(k), Removal[k].branch, -Removal[k].qty)
      /\ Booked(db, db', RemovalKey(k), Removal[k].branch, -Removal[k].qty)
  BY <1>1, <1>2, MovedCommitted
<1>4. \A t \in Transfers : db'.transfer[t] = db.transfer[t]
  BY <1>1, RestStays
<1>5. Drains(db', RemovalKey(k), Removal[k].branch, Removal[k].from)
  BY <1>1, <1>2, DrainsCommitted
<1> QED
  BY <1>1, <1>3, <1>4, <1>5 DEF TakenOut

\* What a transfer that is created or decided on changes.
LEMMA PaperEffect ==
    ASSUME TypeOK, NEW c \in Clients, NEW t \in Transfers,
           CreateTransfer(c, t) \/ Decide(c, t)
    PROVE  Decided(t) /\ (\E new \in Databases : Writes(c, new))
<1>1. PICK new \in Databases :
        /\ Writes(c, new)
        /\ new.balance = snap[c].balance /\ new.rows = snap[c].rows
        /\ new.lots = snap[c].lots
        /\ snap[c].transfer[t] \in {"absent", "requested", "approved"}
        /\ \E status \in {"requested", "approved", "cancelled"} :
              /\ snap[c].transfer[t] # status
              /\ new.transfer = [snap[c].transfer EXCEPT ![t] = status]
  BY PaperWrites
<1>2. PICK status \in {"requested", "approved", "cancelled"} :
        /\ snap[c].transfer[t] # status
        /\ new.transfer = [snap[c].transfer EXCEPT ![t] = status]
  BY <1>1
<1>3. /\ db.transfer[t] = snap[c].transfer[t]
      /\ db'.transfer[t] = status
      /\ \A u \in Transfers \ {t} : db'.transfer[u] = db.transfer[u]
  BY <1>1, <1>2, StatusCommitted
<1> QED
  BY <1>1, <1>3, RestStays DEF Decided

\* What a transfer that leaves changes.
LEMMA SendEffect ==
    ASSUME TypeOK, LotsBehind, NEW c \in Clients, NEW t \in Transfers, Send(c, t)
    PROVE  Sent(t) /\ (\E new \in Databases : Writes(c, new))
<1>1. PICK new \in Databases :
        /\ Writes(c, new)
        /\ Moved(snap[c], new, OutKey(t), Transfer[t].from, -Transfer[t].qty)
        /\ Booked(snap[c], new, OutKey(t), Transfer[t].from, -Transfer[t].qty)
        /\ Drains(new, OutKey(t), Transfer[t].from, Sellable(today))
        /\ \A l \in Batches : -new.rows[OutKey(t)].alloc[l] \in Nat
        /\ snap[c].transfer[t] = "approved"
        /\ new.transfer = [snap[c].transfer EXCEPT ![t] = "in_transit"]
        /\ Transfer[t].qty <= snap[c].balance[Transfer[t].from].qty
  BY SendWrites
<1>2. OutKey(t) \in Keys /\ Transfer[t].from \in Branches
      /\ Sellable(today) \in SUBSET Batches
  BY KeysDiffer, RequestAssumption DEF Sellable
<1>5. Drains(db', OutKey(t), Transfer[t].from, Sellable(today))
  BY <1>1, <1>2, DrainsCommitted
<1>3. /\ Moved(db, db', OutKey(t), Transfer[t].from, -Transfer[t].qty)
      /\ Booked(db, db', OutKey(t), Transfer[t].from, -Transfer[t].qty)
      /\ db.balance[Transfer[t].from] = snap[c].balance[Transfer[t].from]
      /\ db'.rows[OutKey(t)] = new.rows[OutKey(t)]
  BY <1>1, <1>2, MovedCommitted
<1>4. /\ db.transfer[t] = snap[c].transfer[t]
      /\ db'.transfer[t] = "in_transit"
      /\ \A u \in Transfers \ {t} : db'.transfer[u] = db.transfer[u]
  BY <1>1, StatusCommitted
<1> QED
  BY <1>1, <1>3, <1>4, <1>5 DEF Sent

\* What a transfer that arrives changes.
LEMMA ReceiveEffect ==
    ASSUME TypeOK, OutRowsTake, SnapshotsBehind, TransferMovesOnce, RowsBalance,
           NEW c \in Clients, NEW t \in Transfers, Receive(c, t)
    PROVE  Received(t) /\ (\E new \in Databases : Writes(c, new))
<1>1. PICK new \in Databases :
        /\ Writes(c, new)
        /\ Moved(snap[c], new, InKey(t), Transfer[t].to, Transfer[t].qty)
        /\ Booked(snap[c], new, InKey(t), Transfer[t].to, Transfer[t].qty)
        /\ new.rows[InKey(t)].alloc
              = [l \in Batches |-> -db.rows[OutKey(t)].alloc[l]]
        /\ snap[c].transfer[t] = "in_transit"
        /\ new.transfer = [snap[c].transfer EXCEPT ![t] = "received"]
  BY ReceiveWrites
<1>2. InKey(t) \in Keys /\ Transfer[t].to \in Branches
  BY KeysDiffer, RequestAssumption
<1>3. /\ Moved(db, db', InKey(t), Transfer[t].to, Transfer[t].qty)
      /\ Booked(db, db', InKey(t), Transfer[t].to, Transfer[t].qty)
      /\ db'.rows[InKey(t)] = new.rows[InKey(t)]
  BY <1>1, <1>2, MovedCommitted
<1>4. /\ db.transfer[t] = snap[c].transfer[t]
      /\ db'.transfer[t] = "received"
      /\ \A u \in Transfers \ {t} : db'.transfer[u] = db.transfer[u]
  BY <1>1, StatusCommitted
<1> QED
  BY <1>1, <1>3, <1>4 DEF Received

-------------------------------------------------------------------------------
(* The invariant and the theorems.                                         *)

\* The books of a branch: its lots and its rows each account for its balance,
\* and every row has a version of its own, up to the balance's.
Books(d, b) ==
    /\ IsFiniteSet(Posted(d, b))
    /\ \A key \in Posted(d, b) : d.rows[key].ver <= d.balance[b].ver
    /\ \A i, j \in Posted(d, b) : d.rows[i].ver = d.rows[j].ver => i = j
    /\ Covered(d, b)
    /\ d.balance[b].qty = TotalChange(d, Posted(d, b))
    /\ d.balance[b].ver = Cardinality(Posted(d, b))
    /\ \A l \in Batches : d.lots[<<b, l>>] = LotChange(d, Posted(d, b), l)

\* Transfers and their rows agree; snapshots are behind the ledger; the books
\* balance.
IInv ==
    /\ TypeOK /\ OutRowsTake /\ SnapshotsBehind /\ TransferMovesOnce
    /\ RowsBalance /\ LotsBehind /\ \A b \in Branches : Books(db, b)

Effect ==
    \/ \E k \in Supplies : BroughtIn(k)
    \/ \E k \in Removals : TakenOut(k)
    \/ \E t \in Transfers : Decided(t) \/ Sent(t) \/ Received(t)

\* A step is a handler's commit with one of these effects, or leaves the
\* database alone.
LEMMA StepEffect ==
    ASSUME IInv, Next
    PROVE  \/ /\ db' = db /\ TypeOK'
              /\ \A c \in Clients : snap'[c] \in {NoSnapshot, snap[c], db}
           \/ /\ Effect
              /\ \E c \in Clients, new \in Databases : Writes(c, new)
<1>1. /\ TypeOK /\ OutRowsTake /\ SnapshotsBehind /\ LotsBehind
      /\ TransferMovesOnce /\ RowsBalance
  BY DEF IInv
<1>2. CASE Midnight
<2>1. today' \in 0..LastDay
  BY <1>1, <1>2, DayAssumption DEF Midnight, TypeOK
<2> QED
  BY <1>1, <1>2, <2>1 DEF Midnight, TypeOK
<1>3. CASE \E c \in Clients : Request(c)
<2>1. PICK c \in Clients : Request(c)
  BY <1>3
<2>2. CASE (Begin(c) \/ End(c)) /\ UNCHANGED today
  BY <1>1, <2>2 DEF Begin, End, TypeOK
<2>3. ASSUME NEW k \in Supplies, BringIn(c, k)
      PROVE  Effect /\ (\E new \in Databases : Writes(c, new))
  BY <1>1, <2>3, BringInEffect DEF Effect
<2>4. ASSUME NEW k \in Removals, TakeOut(c, k)
      PROVE  Effect /\ (\E new \in Databases : Writes(c, new))
  BY <1>1, <2>4, TakeOutEffect DEF Effect
<2>5. ASSUME NEW t \in Transfers, CreateTransfer(c, t) \/ Decide(c, t)
      PROVE  Effect /\ (\E new \in Databases : Writes(c, new))
  BY <1>1, <2>5, PaperEffect DEF Effect
<2>6. ASSUME NEW t \in Transfers, Send(c, t)
      PROVE  Effect /\ (\E new \in Databases : Writes(c, new))
  BY <1>1, <2>6, SendEffect DEF Effect
<2>7. ASSUME NEW t \in Transfers, Receive(c, t)
      PROVE  Effect /\ (\E new \in Databases : Writes(c, new))
  BY <1>1, <2>7, ReceiveEffect DEF Effect
<2> QED
  BY <2>1, <2>2, <2>3, <2>4, <2>5, <2>6, <2>7 DEF Request
<1> QED
  BY <1>2, <1>3 DEF Next

-------------------------------------------------------------------------------
(* The books.                                                              *)

\* Rows that are the same add up to the same.
LEMMA TotalsStay ==
    ASSUME NEW s, NEW new, NEW b, NEW keys,
           \A key \in keys : new.rows[key] = s.rows[key]
    PROVE  /\ TotalChange(new, keys) = TotalChange(s, keys)
           /\ \A l : LotChange(new, keys, l) = LotChange(s, keys, l)
<1>1. [key \in keys |-> new.rows[key].change] = [key \in keys |-> s.rows[key].change]
  OBVIOUS
<1>2. \A l : [key \in keys |-> new.rows[key].alloc[l]]
                = [key \in keys |-> s.rows[key].alloc[l]]
  OBVIOUS
<1> QED
  BY <1>1, <1>2 DEF TotalChange, LotChange

\* A branch nobody touched keeps its books.
LEMMA BooksFrame ==
    ASSUME NEW s, NEW new, NEW b,
           Posted(new, b) = Posted(s, b),
           \A key \in Posted(s, b) : new.rows[key] = s.rows[key],
           new.balance[b] = s.balance[b],
           \A l \in Batches : new.lots[<<b, l>>] = s.lots[<<b, l>>],
           Books(s, b)
    PROVE  Books(new, b)
<1>1. [l \in Batches |-> new.lots[<<b, l>>]] = [l \in Batches |-> s.lots[<<b, l>>]]
  OBVIOUS
<1>2. Covered(new, b)
  BY <1>1 DEF Books, Covered, InLots
<1>3. /\ TotalChange(new, Posted(new, b)) = TotalChange(s, Posted(s, b))
      /\ \A l : LotChange(new, Posted(new, b), l) = LotChange(s, Posted(s, b), l)
  BY TotalsStay
<1> QED
  BY <1>2, <1>3 DEF Books

\* A movement adds its key to the rows of its branch.
LEMMA PostedGrows ==
    ASSUME NEW s \in Databases, NEW new \in Databases, NEW key \in Keys,
           NEW b \in Branches, NEW n, Moved(s, new, key, b, n)
    PROVE  /\ key \notin Posted(s, b)
           /\ Posted(new, b) = Posted(s, b) \cup {key}
           /\ \A d \in Branches \ {b} : key \notin Posted(new, d) /\ Posted(new, d) = Posted(s, d)
           /\ \A d \in Branches : \A k \in Posted(s, d) : new.rows[k] = s.rows[k]
<1>1. DOMAIN s.rows = Keys /\ DOMAIN new.rows = Keys
  BY DEF Databases
<1>2. \A d : /\ Posted(s, d) = {k \in Keys : s.rows[k] # NoMove /\ s.rows[k].branch = d}
             /\ Posted(new, d) = {k \in Keys : new.rows[k] # NoMove /\ new.rows[k].branch = d}
  BY <1>1 DEF Posted
<1>3. /\ s.rows[key] = NoMove /\ new.rows[key] # NoMove /\ new.rows[key].branch = b
      /\ \A k \in Keys \ {key} : new.rows[k] = s.rows[k]
  BY NoMoveAssumption DEF Moved
<1>4. key \notin Posted(s, b) /\ \A d \in Branches \ {b} : key \notin Posted(new, d)
  BY <1>2, <1>3
<1>5. \A k \in Posted(new, b) : k \in Posted(s, b) \cup {key}
  BY <1>2, <1>3
<1>6. \A k \in Posted(s, b) \cup {key} : k \in Posted(new, b)
  BY <1>2, <1>3
<1>7. ASSUME NEW d \in Branches, d # b
      PROVE  Posted(new, d) = Posted(s, d)
  <2>1. \A k : k \in Posted(new, d) <=> k \in Posted(s, d)
    BY <1>2, <1>3, <1>7
  <2> QED
    BY <2>1
<1>8. \A d \in Branches : \A k \in Posted(s, d) : new.rows[k] = s.rows[k]
  BY <1>2, <1>3
<1> QED
  BY <1>4, <1>5, <1>6, <1>7, <1>8

SameRows(s, new, keys) == \A k \in keys : new.rows[k] = s.rows[k]

\* One row more adds its change.
LEMMA TotalGrows ==
    ASSUME NEW s, NEW new, NEW keys, IsFiniteSet(keys),
           NEW key, key \notin keys, SameRows(s, new, keys),
           \A k \in keys \cup {key} : new.rows[k] \in Moves
    PROVE  TotalChange(new, keys \cup {key}) = new.rows[key].change + TotalChange(s, keys)
<1> DEFINE all == keys \cup {key}
           f == [k \in all |-> new.rows[k].change]
           g == [k \in keys |-> s.rows[k].change]
<1>1. /\ \A k \in all : f[k] \in Int
      /\ \A k \in keys : f[k] = g[k]
      /\ f[key] = new.rows[key].change
  BY DEF Moves, SameRows
<1>2. TotalChange(new, all) = SumFunctionOnSet(f, all)
      /\ TotalChange(s, keys) = SumFunctionOnSet(g, keys)
  BY DEF TotalChange
<1> HIDE DEF f, g
<1>3. SumFunctionOnSet(f, all) = f[key] + SumFunctionOnSet(f, keys)
  BY <1>1, SumAdd
<1>4. SumFunctionOnSet(f, keys) = SumFunctionOnSet(g, keys)
  BY <1>1, SumEqual
<1> QED
  BY <1>1, <1>2, <1>3, <1>4

\* One row more adds what it takes from a lot, or puts there.
LEMMA LotGrows ==
    ASSUME NEW s, NEW new, NEW keys, IsFiniteSet(keys),
           NEW key, key \notin keys, SameRows(s, new, keys),
           \A k \in keys \cup {key} : new.rows[k] \in Moves,
           NEW l \in Batches
    PROVE  LotChange(new, keys \cup {key}, l) = new.rows[key].alloc[l] + LotChange(s, keys, l)
<1> DEFINE all == keys \cup {key}
           f == [k \in all |-> new.rows[k].alloc[l]]
           g == [k \in keys |-> s.rows[k].alloc[l]]
<1>1. /\ \A k \in all : f[k] \in Int
      /\ \A k \in keys : f[k] = g[k]
      /\ f[key] = new.rows[key].alloc[l]
  BY DEF Moves, Allocations, SameRows
<1>2. LotChange(new, all, l) = SumFunctionOnSet(f, all)
      /\ LotChange(s, keys, l) = SumFunctionOnSet(g, keys)
  BY DEF LotChange
<1> HIDE DEF f, g
<1>3. SumFunctionOnSet(f, all) = f[key] + SumFunctionOnSet(f, keys)
  BY <1>1, SumAdd
<1>4. SumFunctionOnSet(f, keys) = SumFunctionOnSet(g, keys)
  BY <1>1, SumEqual
<1> QED
  BY <1>1, <1>2, <1>3, <1>4

\* What a movement adds to the lots it adds to their total.
LEMMA LotsGrow ==
    ASSUME NEW s \in Databases, NEW new \in Databases, NEW b \in Branches,
           NEW alloc \in Allocations,
           \A l \in Batches : new.lots[<<b, l>>] = s.lots[<<b, l>>] + alloc[l]
    PROVE  InLots(new, b, Batches) = InLots(s, b, Batches) + SumFunctionOnSet(alloc, Batches)
<1> DEFINE f == Held(s, b)
           h == Held(new, b)
<1>4. \A l \in Batches : f[l] = s.lots[<<b, l>>]
  BY HeldType
<1>7. \A l \in Batches : f[l] \in Nat
  BY HeldType
<1>5. \A l \in Batches : h[l] = new.lots[<<b, l>>]
  BY HeldType
<1>6. \A l \in Batches : alloc[l] \in Int
  BY DEF Allocations
<1>2. IsFiniteSet(Batches)
  BY BatchAssumption
<1>3. /\ InLots(new, b, Batches) = SumFunctionOnSet(h, Batches)
      /\ InLots(s, b, Batches) = SumFunctionOnSet(f, Batches)
  BY InLotsIsSum
<1> HIDE DEF f, h
<1>1. ASSUME NEW l \in Batches
      PROVE  f[l] \in Int /\ alloc[l] \in Int /\ h[l] = f[l] + alloc[l]
  <2>0. l \in Batches
    OBVIOUS
  <2>1. f[l] \in Int /\ alloc[l] \in Int
    BY ONLY <2>0, <1>6, <1>7
  <2>2. f[l] = s.lots[<<b, l>>] /\ h[l] = new.lots[<<b, l>>]
    BY ONLY <2>0, <1>4, <1>5
  <2>3. new.lots[<<b, l>>] = s.lots[<<b, l>>] + alloc[l]
    OBVIOUS
  <2> QED
    BY <2>1, <2>2, <2>3
<1> QED
  BY <1>1, <1>2, <1>3, SumPlus

\* A booked movement keeps the books of its branch.
LEMMA BooksMove ==
    ASSUME NEW s \in Databases, NEW new \in Databases, NEW key \in Keys,
           NEW b \in Branches, NEW n \in Int,
           Moved(s, new, key, b, n), Booked(s, new, key, b, n), Books(s, b)
    PROVE  Books(new, b)
<1> DEFINE old == Posted(s, b)
           row == new.rows[key]
<1>1. /\ key \notin old /\ Posted(new, b) = old \cup {key}
      /\ \A k \in old : new.rows[k] = s.rows[k]
  BY PostedGrows
<1>2. IsFiniteSet(old)
  BY DEF Books
<1>3. /\ IsFiniteSet(old \cup {key})
      /\ Cardinality(old \cup {key}) = Cardinality(old) + 1
  BY <1>1, <1>2, FS_AddElement
<1>4. row \in Moves /\ row.change = n /\ row.ver = s.balance[b].ver + 1
      /\ new.balance[b].ver = s.balance[b].ver + 1
      /\ new.balance[b].qty = s.balance[b].qty + n
      /\ s.balance[b].ver \in Nat /\ s.balance[b].qty \in Nat
  BY DEF Moved, Booked, Databases, Balances
<1>5. \A k \in old : s.rows[k] \in Moves
  BY DEF Posted, Databases
<1>6. /\ TotalChange(new, old \cup {key}) = n + TotalChange(s, old)
      /\ \A l \in Batches :
            LotChange(new, old \cup {key}, l) = row.alloc[l] + LotChange(s, old, l)
  <2>1. \A k \in old \cup {key} : new.rows[k] \in Moves
    BY <1>1, <1>4, <1>5
  <2> HIDE DEF old
  <2>2. SameRows(s, new, old) /\ key \notin old
    BY <1>1 DEF SameRows
  <2>3. TotalChange(new, old \cup {key}) = new.rows[key].change + TotalChange(s, old)
    BY <1>2, <2>1, <2>2, TotalGrows
  <2>4. ASSUME NEW l \in Batches
        PROVE  LotChange(new, old \cup {key}, l) = row.alloc[l] + LotChange(s, old, l)
    <3>1. l \in Batches /\ key \notin old /\ SameRows(s, new, old)
          /\ \A k \in old \cup {key} : new.rows[k] \in Moves
      BY <2>1, <2>2
    <3> QED
      BY ONLY <1>2, <3>1, LotGrows
  <2> QED
    BY <1>4, <2>3, <2>4
<1>7. InLots(new, b, Batches) = InLots(s, b, Batches) + n
  <2>1. /\ row.alloc \in Allocations
        /\ SumFunctionOnSet(row.alloc, Batches) = n
        /\ \A l \in Batches : new.lots[<<b, l>>] = s.lots[<<b, l>>] + row.alloc[l]
    BY <1>4 DEF Booked, Moves
  <2> HIDE DEF row
  <2> QED
    BY <2>1, LotsGrow
<1>8. \A k \in old : s.rows[k].ver \in Nat /\ s.rows[k].ver <= s.balance[b].ver
  BY <1>5 DEF Books, Moves
<1>9. /\ \A k \in old \cup {key} : new.rows[k].ver <= new.balance[b].ver
      /\ \A i, j \in old \cup {key} : new.rows[i].ver = new.rows[j].ver => i = j
  <2>1. \A i, j \in old : s.rows[i].ver = s.rows[j].ver => i = j
    BY DEF Books
  <2> HIDE DEF old
  <2> QED
    BY <1>1, <1>4, <1>8, <2>1
<1>10. \A l \in Batches : new.lots[<<b, l>>] = LotChange(new, old \cup {key}, l)
  <2> SUFFICES ASSUME NEW l \in Batches
               PROVE  new.lots[<<b, l>>] = LotChange(new, old \cup {key}, l)
    OBVIOUS
  <2>1. s.lots[<<b, l>>] \in Nat /\ row.alloc[l] \in Int
    BY <1>4 DEF Databases, Lots, Moves, Allocations
  <2>2. s.lots[<<b, l>>] = LotChange(s, old, l)
    BY DEF Books
  <2>3. new.lots[<<b, l>>] = s.lots[<<b, l>>] + row.alloc[l]
    BY DEF Booked
  <2>4. LotChange(new, old \cup {key}, l) = row.alloc[l] + LotChange(s, old, l)
    BY <1>6
  <2> HIDE DEF row, old
  <2> QED
    BY <2>1, <2>2, <2>3, <2>4
<1>11. /\ s.balance[b].qty = TotalChange(s, old)
       /\ s.balance[b].ver = Cardinality(old)
       /\ InLots(s, b, Batches) = s.balance[b].qty
  BY DEF Books, Covered
<1>12. Covered(new, b)
  BY <1>4, <1>7, <1>11 DEF Covered
<1>13. new.balance[b].qty = TotalChange(new, Posted(new, b))
  <2> HIDE DEF old
  <2> QED
    BY <1>1, <1>4, <1>6, <1>11
<1>14. new.balance[b].ver = Cardinality(Posted(new, b))
  <2> HIDE DEF old
  <2> QED
    BY <1>1, <1>3, <1>4, <1>11
<1> HIDE DEF old, row
<1> QED
  BY <1>1, <1>3, <1>9, <1>10, <1>12, <1>13, <1>14 DEF Books

\* A movement, as far as the books go.
BookedMove(key, b, n) ==
    /\ key \in Keys /\ b \in Branches /\ n \in Int
    /\ Moved(db, db', key, b, n) /\ Booked(db, db', key, b, n)

\* A step with an effect is one booked movement, or moves nothing.
LEMMA EffectBooks ==
    ASSUME Effect
    PROVE  \/ \E key, b, n : BookedMove(key, b, n)
           \/ /\ \A b \in Branches : db'.balance[b] = db.balance[b]
              /\ \A k \in Keys : db'.rows[k] = db.rows[k]
              /\ \A p \in Branches \X Batches : db'.lots[p] = db.lots[p]
<1>1. ASSUME NEW k \in Supplies, BroughtIn(k)
      PROVE  BookedMove(SupplyKey(k), Supply[k].branch, Supply[k].qty)
  BY <1>1, KeysDiffer, RequestAssumption DEF BroughtIn, BookedMove
<1>2. ASSUME NEW k \in Removals, TakenOut(k)
      PROVE  BookedMove(RemovalKey(k), Removal[k].branch, -Removal[k].qty)
  BY <1>2, KeysDiffer, RequestAssumption DEF TakenOut, BookedMove
<1>3. ASSUME NEW t \in Transfers, Sent(t)
      PROVE  BookedMove(OutKey(t), Transfer[t].from, -Transfer[t].qty)
  BY <1>3, KeysDiffer, RequestAssumption DEF Sent, BookedMove
<1>4. ASSUME NEW t \in Transfers, Received(t)
      PROVE  BookedMove(InKey(t), Transfer[t].to, Transfer[t].qty)
  BY <1>4, KeysDiffer, RequestAssumption DEF Received, BookedMove
<1> QED
  BY <1>1, <1>2, <1>3, <1>4 DEF Effect, Decided

\* Every branch keeps its books, whichever movement commits.
LEMMA BooksStep ==
    ASSUME IInv, Effect, db' \in Databases
    PROVE  \A d \in Branches : Books(db', d)
<1>1. db \in Databases /\ \A d \in Branches : Books(db, d)
  BY DEF IInv, TypeOK
<1>2. ASSUME NEW key, NEW b, NEW n, BookedMove(key, b, n), NEW d \in Branches
      PROVE  Books(db', d)
  <2>1. /\ key \in Keys /\ b \in Branches /\ n \in Int
        /\ Moved(db, db', key, b, n) /\ Booked(db, db', key, b, n)
    BY <1>2 DEF BookedMove
  <2>2. CASE d = b
    BY <1>1, <2>1, <2>2, BooksMove
  <2>3. CASE d # b
    <3>1. /\ Posted(db', d) = Posted(db, d)
          /\ \A k \in Posted(db, d) : db'.rows[k] = db.rows[k]
      BY <1>1, <2>1, <2>3, PostedGrows
    <3>2. /\ db'.balance[d] = db.balance[d]
          /\ \A l \in Batches : db'.lots[<<d, l>>] = db.lots[<<d, l>>]
      BY <2>1, <2>3 DEF Moved, Booked
    <3> QED
      BY <1>1, <3>1, <3>2, BooksFrame
  <2> QED
    BY <2>2, <2>3
<1>3. ASSUME \A b \in Branches : db'.balance[b] = db.balance[b],
             \A k \in Keys : db'.rows[k] = db.rows[k],
             \A p \in Branches \X Batches : db'.lots[p] = db.lots[p],
             NEW d \in Branches
      PROVE  Books(db', d)
  <2>1. DOMAIN db.rows = Keys /\ DOMAIN db'.rows = Keys
    BY <1>1 DEF Databases
  <2>2. /\ Posted(db', d) = Posted(db, d)
        /\ \A k \in Posted(db, d) : db'.rows[k] = db.rows[k]
    BY <1>3, <2>1 DEF Posted
  <2> QED
    BY <1>1, <1>3, <2>2, BooksFrame
<1> QED
  BY <1>2, <1>3, EffectBooks

\* Every row's lots add up to its change.
LEMMA RowsBalanceStep ==
    ASSUME IInv, Effect
    PROVE  RowsBalance'
<1>1. RowsBalance
  BY DEF IInv
<1>2. ASSUME NEW key, NEW b, NEW n, BookedMove(key, b, n)
      PROVE  RowsBalance'
  BY <1>1, <1>2 DEF RowsBalance, BookedMove, Moved, Booked
<1> QED
  BY <1>1, <1>2, EffectBooks DEF RowsBalance

\* A ledger row, once there, stays as it is.
LEMMA RowsStay ==
    ASSUME IInv, [Next]_vars
    PROVE  \A key \in Keys :
              db.rows[key] # NoMove => db'.rows[key] = db.rows[key]
<1>1. CASE db' = db
  BY <1>1
<1>2. CASE Effect
  BY <1>2 DEF Effect, BroughtIn, TakenOut, Decided, Sent, Received, Moved
<1> QED
  BY <1>1, <1>2, StepEffect DEF vars

\* A branch whose version stays keeps its lots.
LEMMA VersionsGrow ==
    ASSUME IInv, Effect, NEW b \in Branches
    PROVE  /\ db.balance[b].ver <= db'.balance[b].ver
           /\ db'.balance[b].ver = db.balance[b].ver =>
                 \A l \in Batches : db'.lots[<<b, l>>] = db.lots[<<b, l>>]
<1>1. db.balance[b].ver \in Nat
  BY DEF IInv, TypeOK, Databases, Balances
<1>2. ASSUME NEW key, NEW d, NEW n, BookedMove(key, d, n)
      PROVE  /\ db.balance[b].ver <= db'.balance[b].ver
             /\ db'.balance[b].ver = db.balance[b].ver =>
                   \A l \in Batches : db'.lots[<<b, l>>] = db.lots[<<b, l>>]
  <2>1. CASE d = b
    BY <1>1, <1>2, <2>1 DEF BookedMove, Booked
  <2>2. CASE d # b
    BY <1>1, <1>2, <2>2 DEF BookedMove, Booked, Moved
  <2> QED
    BY <2>1, <2>2
<1>3. ASSUME \A d \in Branches : db'.balance[d] = db.balance[d],
             \A p \in Branches \X Batches : db'.lots[p] = db.lots[p]
      PROVE  /\ db.balance[b].ver <= db'.balance[b].ver
             /\ \A l \in Batches : db'.lots[<<b, l>>] = db.lots[<<b, l>>]
  BY <1>1, <1>3
<1> QED
  BY <1>2, <1>3, EffectBooks

\* So the snapshots stay behind, and see the lots of the version they see.
LEMMA LotsBehindStep ==
    ASSUME IInv, Effect, TypeOK',
           \A c \in Clients : snap'[c] = NoSnapshot \/ snap'[c] = snap[c]
    PROVE  LotsBehind'
<1> SUFFICES ASSUME NEW c \in Clients, snap'[c] # NoSnapshot, NEW b \in Branches
             PROVE  /\ snap'[c].balance[b].ver <= db'.balance[b].ver
                    /\ snap'[c].balance[b].ver = db'.balance[b].ver =>
                          \A l \in Batches : snap'[c].lots[<<b, l>>] = db'.lots[<<b, l>>]
  BY DEF LotsBehind
<1> DEFINE s == snap[c]
<1>1. snap'[c] = s /\ s # NoSnapshot
  OBVIOUS
<1>2. s \in Databases /\ db \in Databases /\ db' \in Databases
  BY <1>1 DEF IInv, TypeOK
<1>3. /\ s.balance[b].ver <= db.balance[b].ver
      /\ s.balance[b].ver = db.balance[b].ver =>
            \A l \in Batches : s.lots[<<b, l>>] = db.lots[<<b, l>>]
  BY <1>1 DEF IInv, LotsBehind
<1>4. s.balance[b].ver \in Nat /\ db.balance[b].ver \in Nat /\ db'.balance[b].ver \in Nat
  BY <1>2 DEF Databases, Balances
<1>5. /\ db.balance[b].ver <= db'.balance[b].ver
      /\ db'.balance[b].ver = db.balance[b].ver =>
            \A l \in Batches : db'.lots[<<b, l>>] = db.lots[<<b, l>>]
  BY VersionsGrow
<1> HIDE DEF s
<1> QED
  BY <1>1, <1>3, <1>4, <1>5

\* The shape of the state is kept, and no snapshot is ahead of the ledger.
LEMMA ShapeStep ==
    ASSUME IInv, [Next]_vars
    PROVE  TypeOK' /\ SnapshotsBehind'
<1>1. TypeOK /\ SnapshotsBehind
  BY DEF IInv
<1>2. CASE UNCHANGED vars
  BY <1>1, <1>2 DEF vars, TypeOK, SnapshotsBehind
<1>3. CASE /\ db' = db /\ TypeOK'
           /\ \A c \in Clients : snap'[c] \in {NoSnapshot, snap[c], db}
  BY <1>1, <1>3 DEF SnapshotsBehind
<1>4. ASSUME NEW c \in Clients, NEW new \in Databases, Writes(c, new)
      PROVE  TypeOK' /\ SnapshotsBehind'
<2>1. db' \in Databases /\ snap' = [snap EXCEPT ![c] = NoSnapshot]
  BY <1>1, <1>4, CommitEffect DEF Writes
<2>2. TypeOK'
  BY <1>1, <1>4, <2>1 DEF Writes, TypeOK
<2>3. \A d \in Clients : snap'[d] = NoSnapshot \/ snap'[d] = snap[d]
  BY <1>1, <2>1 DEF TypeOK
<2> QED
  BY <1>1, <2>2, <2>3, RowsStay DEF SnapshotsBehind
<1> QED
  BY <1>2, <1>3, <1>4, StepEffect

\* A transfer and its two rows, in the database d.
Agrees(d, t) ==
    LET out == d.rows[OutKey(t)]
        in == d.rows[InKey(t)]
    IN  /\ (d.transfer[t] \in {"in_transit", "received"}) <=> (out # NoMove)
        /\ (d.transfer[t] = "received") <=> (in # NoMove)
        /\ out # NoMove => /\ out.branch = Transfer[t].from
                           /\ out.change = -Transfer[t].qty
                           /\ \A l \in Batches : -out.alloc[l] \in Nat
        /\ in # NoMove => /\ in.branch = Transfer[t].to
                          /\ in.change = Transfer[t].qty
                          /\ in.alloc = [l \in Batches |-> -out.alloc[l]]

\* The agreement of every transfer with its rows is two parts of the invariant.
LEMMA AgreesMeans ==
    (\A t \in Transfers : Agrees(db, t)) <=> (TransferMovesOnce /\ OutRowsTake)
BY DEF Agrees, TransferMovesOnce, OutRowsTake

\* A transfer whose documents stay keeps agreeing.
LEMMA AgreesFrame ==
    ASSUME NEW t \in Transfers, Agrees(db, t),
           db'.transfer[t] = db.transfer[t],
           db'.rows[OutKey(t)] = db.rows[OutKey(t)],
           db'.rows[InKey(t)] = db.rows[InKey(t)]
    PROVE  Agrees(db', t)
BY DEF Agrees

\* A step keeps every transfer in agreement with its rows.
LEMMA AgreesStep ==
    ASSUME IInv, Effect, NEW t \in Transfers
    PROVE  Agrees(db', t)
<1>1. Agrees(db, t)
  BY AgreesMeans DEF IInv
<1>2. OutKey(t) \in Keys /\ InKey(t) \in Keys
  BY KeysDiffer
<1>3. ASSUME NEW k \in Supplies, BroughtIn(k)
      PROVE  Agrees(db', t)
  BY <1>1, <1>2, <1>3, KeysDiffer, AgreesFrame DEF BroughtIn, Moved
<1>4. ASSUME NEW k \in Removals, TakenOut(k)
      PROVE  Agrees(db', t)
  BY <1>1, <1>2, <1>4, KeysDiffer, AgreesFrame DEF TakenOut, Moved
<1>5. ASSUME NEW u \in Transfers, Decided(u)
      PROVE  Agrees(db', t)
<2>1. CASE u # t
  BY <1>1, <1>2, <1>5, <2>1, AgreesFrame DEF Decided
<2>2. CASE u = t
  BY <1>1, <1>2, <1>5, <2>2 DEF Decided, Agrees
<2> QED
  BY <2>1, <2>2
<1>6. ASSUME NEW u \in Transfers, Sent(u)
      PROVE  Agrees(db', t)
<2>1. CASE u # t
  BY <1>1, <1>2, <1>6, <2>1, KeysDiffer, AgreesFrame DEF Sent, Moved
<2>2. CASE u = t
<3>1. db'.rows[OutKey(t)] # NoMove
  BY <1>6, <2>2, NoMoveAssumption DEF Sent, Moved
<3>2. db'.rows[InKey(t)] = db.rows[InKey(t)] /\ OutKey(t) # InKey(t)
  BY <1>2, <1>6, <2>2, KeysDiffer DEF Sent, Moved
<3>3. db.rows[InKey(t)] = NoMove
  BY <1>1, <1>6, <2>2 DEF Sent, Agrees
<3> QED
  BY <1>6, <2>2, <3>1, <3>2, <3>3 DEF Sent, Moved, Agrees
<2> QED
  BY <2>1, <2>2
<1>7. ASSUME NEW u \in Transfers, Received(u)
      PROVE  Agrees(db', t)
<2>1. CASE u # t
  BY <1>1, <1>2, <1>7, <2>1, KeysDiffer, AgreesFrame DEF Received, Moved
<2>2. CASE u = t
<3>1. db'.rows[InKey(t)] # NoMove
  BY <1>7, <2>2, NoMoveAssumption DEF Received, Moved
<3>2. db'.rows[OutKey(t)] = db.rows[OutKey(t)] /\ OutKey(t) # InKey(t)
  BY <1>2, <1>7, <2>2, KeysDiffer DEF Received, Moved
<3> QED
  BY <1>1, <1>7, <2>2, <3>1, <3>2 DEF Received, Moved, Agrees
<2> QED
  BY <2>1, <2>2
<1> QED
  BY <1>3, <1>4, <1>5, <1>6, <1>7 DEF Effect

\* Every step keeps the books, and the snapshots behind them.
LEMMA BooksKept ==
    ASSUME IInv, [Next]_vars, TypeOK'
    PROVE  /\ (RowsBalance /\ LotsBehind)'
           /\ \A b \in Branches : Books(db', b)
<1>1. /\ TypeOK /\ RowsBalance /\ LotsBehind
      /\ \A b \in Branches : Books(db, b)
  BY DEF IInv
<1>2. CASE /\ db' = db
           /\ \A c \in Clients : snap'[c] \in {NoSnapshot, snap[c], db}
  <2>1. RowsBalance' /\ \A b \in Branches : Books(db', b)
    BY <1>1, <1>2 DEF RowsBalance
  <2>2. \A b \in Branches : db.balance[b].ver \in Nat
    BY <1>1 DEF TypeOK, Databases, Balances
  <2>3. LotsBehind'
    BY <1>1, <1>2, <2>2 DEF LotsBehind
  <2> QED
    BY <2>1, <2>3
<1>3. ASSUME Effect, NEW c \in Clients, NEW new \in Databases, Writes(c, new)
      PROVE  /\ (RowsBalance /\ LotsBehind)'
             /\ \A b \in Branches : Books(db', b)
  <2>1. snap' = [snap EXCEPT ![c] = NoSnapshot]
    BY <1>1, <1>3, CommitEffect DEF Writes
  <2>2. \A d \in Clients : snap'[d] = NoSnapshot \/ snap'[d] = snap[d]
    BY <1>1, <2>1 DEF TypeOK
  <2>3. LotsBehind'
    BY <1>3, <2>2, LotsBehindStep
  <2>4. RowsBalance'
    BY <1>3, RowsBalanceStep
  <2>5. db' \in Databases
    BY DEF TypeOK
  <2> QED
    BY <1>3, <2>3, <2>4, <2>5, BooksStep
<1>4. CASE UNCHANGED vars
  BY <1>2, <1>4 DEF vars
<1> QED
  BY <1>2, <1>3, <1>4, StepEffect

\* Every step preserves the invariant.
LEMMA Inductive ==
    ASSUME IInv, [Next]_vars
    PROVE  IInv'
<1>1. TypeOK' /\ SnapshotsBehind'
  BY ShapeStep
<1>2. \A t \in Transfers : Agrees(db', t)
<2>1. CASE db' = db
<3>1. \A t \in Transfers : Agrees(db, t)
  BY AgreesMeans DEF IInv
<3> QED
  BY <2>1, <3>1
<2>2. CASE Effect
  BY <2>2, AgreesStep
<2> QED
  BY <2>1, <2>2, StepEffect DEF vars
<1>3. TransferMovesOnce' /\ OutRowsTake'
  BY <1>2 DEF Agrees, TransferMovesOnce, OutRowsTake
<1>4. (RowsBalance /\ LotsBehind)' /\ \A b \in Branches : Books(db', b)
  BY <1>1, BooksKept
<1> QED
  BY <1>1, <1>3, <1>4 DEF IInv

\* The empty store satisfies the invariant.
LEMMA Initial ==
    ASSUME Init
    PROVE  IInv
<1>1. EmptyDb \in Databases
  BY DEF EmptyDb, Databases, EmptyBalance, EmptyLots, Balances, Lots, Statuses
<1>2. TypeOK
  BY <1>1, DayAssumption DEF Init, TypeOK
<1>3. \A t \in Transfers : /\ db.rows[OutKey(t)] = NoMove
                           /\ db.rows[InKey(t)] = NoMove
                           /\ db.transfer[t] = "absent"
  BY KeysDiffer DEF Init, EmptyDb
<1>4. TransferMovesOnce /\ OutRowsTake
  BY <1>3 DEF TransferMovesOnce, OutRowsTake
<1>5. SnapshotsBehind
  BY DEF Init, SnapshotsBehind
<1>6. RowsBalance /\ LotsBehind
  BY KeysDiffer DEF Init, EmptyDb, RowsBalance, LotsBehind
<1>7. \A b \in Branches : Books(db, b)
  <2> SUFFICES ASSUME NEW b \in Branches PROVE Books(db, b)
    OBVIOUS
  <2>1. Posted(db, b) = {}
    BY DEF Init, EmptyDb, Posted
  <2>2. /\ TotalChange(db, {}) = 0
        /\ \A l : LotChange(db, {}, l) = 0
    BY SumEmpty DEF TotalChange, LotChange
  <2>3. /\ db.balance[b].qty = 0 /\ db.balance[b].ver = 0
        /\ \A l \in Batches : db.lots[<<b, l>>] = 0
    BY DEF Init, EmptyDb, EmptyBalance, EmptyLots
  <2>4. Covered(db, b)
    <3>1. \A l \in Batches : Held(db, b)[l] = 0
      BY <2>3 DEF Held
    <3>2. SumFunctionOnSet(Held(db, b), Batches) = 0
      BY <3>1, BatchAssumption, SumZero
    <3> QED
      BY <2>3, <3>2, InLotsIsSum DEF Covered
  <2> QED
    BY <2>1, <2>2, <2>3, <2>4, FS_EmptySet DEF Books
<1> QED
  BY <1>2, <1>4, <1>5, <1>6, <1>7 DEF IInv

\* The inductive invariant holds in every state of moveStock's callers.
THEOREM Invariant == Spec => []IInv
<1>1. Init => IInv
  BY Initial
<1>2. IInv /\ [Next]_vars => IInv'
  BY Inductive
<1> QED
  BY <1>1, <1>2, PTL DEF Spec

\* No aggregate and no lot is ever below zero, whatever requests run at the
\* same time or are sent again.
THEOREM TypeCorrect == Spec => []TypeOK
<1>1. IInv => TypeOK
  BY DEF IInv
<1> QED
  BY <1>1, Invariant, PTL

\* A transfer's goods leave once and arrive once, the lots that left.
THEOREM TransfersTheorem == Spec => []TransferMovesOnce
<1>1. IInv => TransferMovesOnce
  BY DEF IInv
<1> QED
  BY <1>1, Invariant, PTL

\* A branch's lots always add up to its aggregate: ensureBatchCoverage never
\* refuses because of what other requests did.
THEOREM LotsTheorem == Spec => []LotsMatchBalance
<1>1. IInv => LotsMatchBalance
  BY DEF IInv, Books, LotsMatchBalance, LotsCover
<1> QED
  BY <1>1, Invariant, PTL

\* The ledger's rows account for every aggregate, every lot and every version,
\* whatever was sent twice or ran at the same time.
THEOREM LedgerTheorem == Spec => []LedgerExplains
<1>1. IInv => LedgerExplains
  BY DEF IInv, Books, LedgerExplains, Explained
<1> QED
  BY <1>1, Invariant, PTL

\* The new row of one movement, as FefoKept sees it.
Fair(key) ==
    LET row == db'.rows[key]
    IN  \A k, l \in Allowed(key) :
            k < l /\ row.alloc[l] < 0 => db'.lots[row.branch, k] = 0

\* A row that appears is the one of the movement that commits.
LEMMA NewRow ==
    ASSUME NEW key \in Keys, NEW other, NEW b, NEW n,
           db.rows[key] = NoMove, db'.rows[key] # NoMove,
           Moved(db, db', other, b, n)
    PROVE  key = other
BY DEF Moved

\* What only puts goods into lots takes from none.
LEMMA FairIn ==
    ASSUME NEW key, Allowed(key) \subseteq Batches,
           \A l \in Batches : db'.rows[key].alloc[l] \in Nat
    PROVE  Fair(key)
<1>1. \A l \in Allowed(key) : ~(db'.rows[key].alloc[l] < 0)
  OBVIOUS
<1> QED
  BY <1>1, Zenon DEF Fair

\* A row whose lots were drained in order is a fair one.
LEMMA FairOut ==
    ASSUME NEW key, NEW b, db'.rows[key].branch = b, Drains(db', key, b, Allowed(key))
    PROVE  Fair(key)
BY DEF Fair, Drains

\* What a movement may take from: its own lots, or those sold today.
LEMMA AllowedLots ==
    /\ \A k : /\ Allowed(SupplyKey(k)) = Sellable(today)
              /\ Allowed(RemovalKey(k)) = Removal[k].from
              /\ Allowed(OutKey(k)) = Sellable(today)
              /\ Allowed(InKey(k)) = Sellable(today)
    /\ Sellable(today) \subseteq Batches
BY DEF Allowed, SupplyKey, RemovalKey, OutKey, InKey, Sellable

\* A row that a step writes is a fair one.
LEMMA FefoStep ==
    ASSUME IInv, Effect, NEW key \in Keys,
           db.rows[key] = NoMove, db'.rows[key] # NoMove
    PROVE  Fair(key)
<1>1. ASSUME NEW k \in Supplies, BroughtIn(k)
      PROVE  Fair(key)
  <2>1. key = SupplyKey(k)
    BY <1>1, NewRow DEF BroughtIn
  <2>2. \A l \in Batches : db'.rows[key].alloc[l] \in Nat
    BY <1>1, <2>1 DEF BroughtIn
  <2> QED
    BY <2>1, <2>2, AllowedLots, FairIn
<1>2. ASSUME NEW k \in Removals, TakenOut(k)
      PROVE  Fair(key)
  <2>1. key = RemovalKey(k)
    BY <1>2, NewRow DEF TakenOut
  <2>2. /\ db'.rows[key].branch = Removal[k].branch
        /\ Drains(db', key, Removal[k].branch, Removal[k].from)
    BY <1>2, <2>1 DEF TakenOut, Moved
  <2> QED
    BY <2>1, <2>2, AllowedLots, FairOut
<1>3. ASSUME NEW t \in Transfers, Decided(t)
      PROVE  FALSE
  BY <1>3 DEF Decided
<1>4. ASSUME NEW t \in Transfers, Sent(t)
      PROVE  Fair(key)
  <2>1. key = OutKey(t)
    BY <1>4, NewRow DEF Sent
  <2>2. /\ db'.rows[key].branch = Transfer[t].from
        /\ Drains(db', key, Transfer[t].from, Sellable(today))
    BY <1>4, <2>1 DEF Sent, Moved
  <2> QED
    BY <2>1, <2>2, AllowedLots, FairOut
<1>5. ASSUME NEW t \in Transfers, Received(t)
      PROVE  Fair(key)
  <2>1. key = InKey(t)
    BY <1>5, NewRow DEF Received
  <2>2. db.rows[OutKey(t)] # NoMove
    BY <1>5 DEF IInv, TransferMovesOnce, Received
  <2>3. \A l \in Batches : -db.rows[OutKey(t)].alloc[l] \in Nat
    BY <2>2 DEF IInv, OutRowsTake
  <2>4. \A l \in Batches : db'.rows[key].alloc[l] \in Nat
    BY <1>5, <2>1, <2>3 DEF Received
  <2> QED
    BY <2>1, <2>4, AllowedLots, FairIn
<1> QED
  BY <1>1, <1>2, <1>3, <1>4, <1>5 DEF Effect

\* First expired, first out, for every schedule: no other request's commit can
\* leave an earlier lot with stock behind a movement that took a later one.
THEOREM FefoTheorem == Spec => FefoKept
<1>1. ASSUME IInv, [Next]_vars, NEW key \in Keys,
             db.rows[key] = NoMove, db'.rows[key] # NoMove
      PROVE  Fair(key)
  <2>1. CASE db' = db
    BY <1>1, <2>1
  <2>2. CASE Effect
    BY <1>1, <2>2, FefoStep
  <2> QED
    BY <1>1, <2>1, <2>2, StepEffect DEF vars
<1>2. IInv /\ [Next]_vars =>
        [\A key \in Keys :
            db.rows[key] = NoMove /\ db'.rows[key] # NoMove =>
                LET row == db'.rows[key]
                IN  \A k, l \in Allowed(key) :
                        k < l /\ row.alloc[l] < 0 => db'.lots[row.branch, k] = 0]_vars
  BY <1>1 DEF Fair
<1> QED
  BY <1>2, Invariant, PTL DEF Spec, FefoKept

-------------------------------------------------------------------------------
(* The documents implement goods in one place at a time.                   *)

Shelf == [b \in Branches |-> db.balance[b].qty]
Transit == [t \in Transfers |->
               IF db.transfer[t] = "in_transit" THEN Transfer[t].qty ELSE 0]

ShelfChanges(b, n) ==
    /\ Shelf \in [Branches -> Nat] /\ Shelf' \in [Branches -> Nat]
    /\ Shelf'[b] = Shelf[b] + n
    /\ \A d \in Branches \ {b} : Shelf'[d] = Shelf[d]

\* A movement changes one shelf by its quantity.
LEMMA MovedShelf ==
    ASSUME IInv, TypeOK', NEW key, NEW b \in Branches, NEW n \in Int,
           Moved(db, db', key, b, n)
    PROVE  ShelfChanges(b, n)
<1>1. \A d \in Branches : db.balance[d].qty \in Nat /\ db'.balance[d].qty \in Nat
  BY DEF IInv, TypeOK, Databases, Balances
<1>2. db'.balance[b].qty = db.balance[b].qty + n
  BY DEF Moved
<1>3. \A d \in Branches \ {b} : db'.balance[d].qty = db.balance[d].qty
  BY DEF Moved
<1> QED
  BY <1>1, <1>2, <1>3 DEF Shelf, ShelfChanges

\* Other transfers are where they were.
LEMMA TransitStays ==
    ASSUME \A t \in Transfers :
              (db'.transfer[t] = "in_transit") <=> (db.transfer[t] = "in_transit")
    PROVE  Transit' = Transit
BY DEF Transit

\* One transfer's status changes what is in transit for that transfer alone.
LEMMA TransitChanges ==
    ASSUME NEW t \in Transfers,
           \A u \in Transfers \ {t} : db'.transfer[u] = db.transfer[u]
    PROVE  Transit' = [Transit EXCEPT ![t] =
                IF db'.transfer[t] = "in_transit" THEN Transfer[t].qty ELSE 0]
BY DEF Transit

\* A step moves goods from one place to another, or none.
LEMMA PlacesStep ==
    ASSUME IInv, [Next]_vars
    PROVE  [Places!Next]_(Places!places)
<1> USE DEF Shelf, Transit
<1>1. TypeOK'
  BY ShapeStep
<1>2. CASE db' = db
  BY <1>2 DEF Places!places
<1>3. ASSUME NEW k \in Supplies, BroughtIn(k)
      PROVE  Places!Next
<2> DEFINE b == Supply[k].branch
           n == Supply[k].qty
<2>1. b \in Branches /\ n \in Nat \ {0}
  BY RequestAssumption
<2> HIDE DEF b, n
<2>2. Moved(db, db', SupplyKey(k), b, n)
  BY <1>3 DEF BroughtIn, b, n
<2> HIDE DEF Shelf, Transit
<2>3. ShelfChanges(b, n)
  BY <1>1, <2>1, <2>2, MovedShelf
<2>4. Transit' = Transit
  BY <1>3, TransitStays DEF BroughtIn
<2>5. Shelf'[b] > Shelf[b] /\ Shelf' = [Shelf EXCEPT ![b] = Shelf'[b]]
  BY <2>1, <2>3 DEF ShelfChanges
<2>6. Places!Deliver(b)
  BY <2>4, <2>5 DEF Places!Deliver, Shelf, Transit
<2> QED
  BY <2>1, <2>6 DEF Places!Next
<1>4. ASSUME NEW k \in Removals, TakenOut(k)
      PROVE  Places!Next
<2> DEFINE b == Removal[k].branch
           n == Removal[k].qty
<2>1. b \in Branches /\ n \in Nat \ {0}
  BY RequestAssumption
<2> HIDE DEF b, n
<2>2. Moved(db, db', RemovalKey(k), b, -n)
  BY <1>4 DEF TakenOut, b, n
<2> HIDE DEF Shelf, Transit
<2>3. ShelfChanges(b, -n)
  BY <1>1, <2>1, <2>2, MovedShelf
<2>4. Transit' = Transit
  BY <1>4, TransitStays DEF TakenOut
<2>5. Shelf'[b] \in 0..(Shelf[b] - 1) /\ Shelf' = [Shelf EXCEPT ![b] = Shelf'[b]]
  BY <2>1, <2>3 DEF ShelfChanges
<2>6. Places!Remove(b)
  BY <2>4, <2>5 DEF Places!Remove, Shelf, Transit
<2> QED
  BY <2>1, <2>6 DEF Places!Next
<1>5. ASSUME NEW t \in Transfers, Decided(t)
      PROVE  UNCHANGED Places!places
<2> HIDE DEF Shelf, Transit
<2>1. Transit' = Transit
  BY <1>5, TransitStays DEF Decided
<2>2. Shelf' = Shelf
  BY <1>5 DEF Decided, Shelf
<2> QED
  BY <2>1, <2>2 DEF Places!places, Shelf, Transit
<1>6. ASSUME NEW t \in Transfers, Sent(t)
      PROVE  Places!Next
<2> DEFINE b == Transfer[t].from
           n == Transfer[t].qty
<2>1. b \in Branches /\ n \in Nat \ {0}
  BY RequestAssumption
<2>2. Transit[t] = 0
  BY <1>6 DEF Sent
<2>3. n <= Shelf[b]
  BY <1>6, <2>1 DEF Sent
<2> HIDE DEF Shelf, Transit
<2>4. Transit' = [Transit EXCEPT ![t] = n]
  BY <1>6, TransitChanges DEF Sent
<2>5. Moved(db, db', OutKey(t), b, -n)
  BY <1>6 DEF Sent
<2>6. ShelfChanges(b, -n)
  BY <1>1, <2>1, <2>5, MovedShelf
<2>7. Shelf' = [Shelf EXCEPT ![b] = @ - n]
  BY <2>1, <2>6 DEF ShelfChanges
<2>8. Places!Depart(t)
  BY <2>1, <2>2, <2>3, <2>4, <2>7 DEF Places!Depart, Shelf, Transit
<2> QED
  BY <2>8 DEF Places!Next
<1>7. ASSUME NEW t \in Transfers, Received(t)
      PROVE  Places!Next
<2> DEFINE b == Transfer[t].to
           n == Transfer[t].qty
<2>1. b \in Branches /\ n \in Nat \ {0}
  BY RequestAssumption
<2>2. Transit[t] = n
  BY <1>7 DEF Received
<2> HIDE DEF Shelf, Transit
<2>3. Transit' = [Transit EXCEPT ![t] = 0]
  BY <1>7, TransitChanges DEF Received
<2>4. Moved(db, db', InKey(t), b, n)
  BY <1>7 DEF Received
<2>5. ShelfChanges(b, n)
  BY <1>1, <2>1, <2>4, MovedShelf
<2> HIDE DEF b, n
<2>6. Shelf' = [Shelf EXCEPT ![b] = @ + n]
  BY <2>1, <2>5 DEF ShelfChanges
<2> USE DEF b, n
<2>7. Places!Arrive(t)
  BY <2>2, <2>3, <2>6 DEF Places!Arrive, Shelf, Transit
<2> QED
  BY <2>7 DEF Places!Next
<1> QED
  BY <1>2, <1>3, <1>4, <1>5, <1>6, <1>7, StepEffect DEF Effect, vars

\* The empty store has no goods anywhere.
LEMMA PlacesInit ==
    ASSUME Init
    PROVE  Places!Init
BY DEF Init, EmptyDb, EmptyBalance, Places!Init

\* Whatever the documents go through, goods are on one shelf or in one
\* transfer, and travel whole.
THEOREM ImplementsPlaces == Spec => PlacesSpec
<1>1. Init => Places!Init
  BY PlacesInit
<1>2. IInv /\ [Next]_vars => [Places!Next]_(Places!places)
  BY PlacesStep
<1> QED
  BY <1>1, <1>2, Invariant, PTL DEF Spec, PlacesSpec, Places!Spec
===============================================================================
