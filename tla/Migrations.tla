-------------------------------- MODULE Migrations ------------------------------
(***************************************************************************)
(* What a start of the server does to the documents it finds: the          *)
(* migrations of services/*Migration.js, which run before it listens, and  *)
(* the two that an operator runs.  A migration is a sequence of steps; a   *)
(* step reads the documents and then writes those that are not in their    *)
(* current form, one by one and in any order, or all in one transaction.   *)
(* The server may stop at every point, and the next start begins again.    *)
(* A behaviour is about one kind of document.                              *)
(***************************************************************************)
EXTENDS Integers, FiniteSetsExt

CONSTANTS
    Kinds,      \* the migrations that are looked at
    MaxStarts,
    MaxLive     \* how much the server does while it listens

VARIABLES
    kind,
    db,         \* the documents of that kind
    run,        \* the start: its step, and the writes that this step has still to do
    starts,
    live

vars == <<kind, db, run, starts, live>>

AllKinds ==
    {"purchase_orders", "receipts", "returns", "ledger", "lots", "invoices", "payments",
     "counters", "numbers", "alerts", "deliveries", "catalog", "tenants", "completed"}

MigrationsAssumption ==
    Kinds \subseteq AllKinds /\ MaxStarts \in Nat /\ MaxLive \in Nat

Ids == 1..5

Gone == [form |-> "gone"]

Present(d) == {i \in Ids : d[i] # Gone}

\* The documents, some of which are written.
Over(writes, d) ==
    [i \in DOMAIN writes \cup DOMAIN d |-> IF i \in DOMAIN writes THEN writes[i] ELSE d[i]]

\* A field that old documents lack, which a migration derives and the server records.
Field == {"missing", "derived", "recorded"}

-------------------------------------------------------------------------------
(* The documents, as older versions of the program left them               *)

Legacy(k) ==
    CASE k = "purchase_orders" ->
           [totals : {"missing", "recorded"}, approval : {"missing", "recorded"}, sent : BOOLEAN]
      [] k = "receipts" -> [header : {"missing", "recorded"}, hash : {"missing", "recorded"}]
      [] k = "returns" -> [header : {"missing"}, lines : {"missing"}]
      [] k = "ledger" -> [type : {"RECIPE_REVERSAL", "WASTE"}, key : {"missing", "recorded"}]
      [] k = "invoices" -> [number : {1}, identity : {"missing"}, matching : {"missing"}]
      [] k = "counters" -> [value : 1..2]
      [] k = "alerts" -> [status : {"missing"}, read : BOOLEAN]
      [] k = "deliveries" ->
           [status : {"available", "delivered", "cancelled"}, stamp : {"missing"}]
      [] k = "completed" -> [completedAt : {"missing"}, evidence : BOOLEAN]

All(a, b, c, e) == [i \in Ids |-> CASE i = 1 -> a [] i = 2 -> b [] i = 3 -> c
                                     [] i = 4 -> e [] OTHER -> Gone]

Payments ==
    {Gone} \cup [amount : {1}, status : {"posted", "reversed"}, form : {"legacy"}, number : {0}]

\* Documents 1 and 2 are of one kind, but: the balance, the lots received and the lot of
\* what no receipt explains; an invoice, its payments and the payment that is made up for it;
\* a counter and two numbers; catalog rows and their histories; an order and its payment
\* twice, the second in a branch of no restaurant.
Databases(k) ==
    CASE k = "lots" -> {All([qty |-> b], [qty |-> o], Gone, Gone) : b \in 0..2, o \in 0..2}
      [] k = "payments" ->
           {All([paid |-> paid], p, q, Gone) : paid \in 0..2, p \in Payments, q \in Payments}
      [] k = "numbers" ->
           {All([value |-> v], [number |-> m], [number |-> m + 1], Gone) : v \in 0..1, m \in 1..2}
      [] k = "catalog" ->
           {All([terms |-> t], [terms |-> u], Gone, Gone) :
              t \in {"missing", "recorded"}, u \in {"missing", "recorded"}}
      [] k = "tenants" ->
           {All([tenant |-> t], [tenant |-> "missing"], [tenant |-> "missing"],
                [tenant |-> "missing"]) : t \in {"missing", "recorded"}}
      [] OTHER -> {All(a, b, Gone, Gone) : a \in Legacy(k), b \in Legacy(k)}

-------------------------------------------------------------------------------
(* The steps: the documents that a step writes, and what it makes of them  *)

\* $set of what is missing in the documents that are selected
Fill(d, selected, fields) ==
    [i \in selected |->
       [f \in DOMAIN d[i] |-> IF f \in fields /\ d[i][f] = "missing" THEN "derived" ELSE d[i][f]]]

Lacking(d, fields) == {i \in Present(d) : \E f \in fields : d[i][f] = "missing"}

backfillPurchaseOrders(d) == Fill(d, Lacking(d, {"totals"}), {"totals"})

\* Only an order that left the draft was submitted.
backfillPurchaseOrderApprovals(d) ==
    Fill(d, {i \in Lacking(d, {"approval"}) : d[i].sent}, {"approval"})

backfillGoodsReceipts(d) == Fill(d, Lacking(d, {"header", "hash"}), {"header", "hash"})

\* The lines are split by lot in the same write.
backfillPurchaseReturns(d) == Fill(d, Lacking(d, {"header", "lines"}), {"header", "lines"})

\* Every row is written.
normalizedUpdates(d) ==
    [i \in Present(d) |->
       [type |-> IF d[i].type = "RECIPE_REVERSAL" THEN "REVERSAL" ELSE d[i].type,
        key |-> IF d[i].key = "missing" THEN "derived" ELSE d[i].key]]

\* What the balance holds beyond the other lots becomes a lot.
legacyQty(d) == d[1].qty - d[2].qty

backfillCurrentBalances(d) ==
    [i \in {i \in {3} : d[i] = Gone /\ legacyQty(d) > 0} |-> [qty |-> legacyQty(d)]]

\* Mutant: every invoice keeps the number it was given.
KeepsNumber(d, i) == "plain"

\* The first with a number keeps it, the others get a suffix.
normalizedIdentity(d, i) ==
    IF \E j \in Present(d) \ {i} :
          /\ d[j].number = d[i].number
          /\ d[j].identity = "plain" \/ (d[j].identity = "missing" /\ j < i)
    THEN "suffixed" ELSE "plain"

backfillSupplierInvoices(d) ==
    [i \in Lacking(d, {"identity", "matching"}) |->
       [d[i] EXCEPT !.identity = normalizedIdentity(d, i), !.matching = "empty"]]

\* Of the orders whose invoices this start wrote, and of no others.
matchingRebuilt(d, prepared) ==
    [i \in {i \in Present(d) : prepared # {}} |-> [d[i] EXCEPT !.matching = "derived"]]

PaymentIds(d) == {i \in 2..4 : d[i] # Gone}

Numbers(d) == {d[i].number : i \in PaymentIds(d)}

Posted(d) ==
    MapThenSumSet(LAMBDA i : d[i].amount, {i \in PaymentIds(d) : d[i].status = "posted"})

\* What was paid beyond the payments becomes a payment; what lacks a number gets the next.
synthesized(d) ==
    IF d[1].paid > Posted(d)
    THEN [d EXCEPT ![4] = [amount |-> d[1].paid - Posted(d), status |-> "posted",
                           form |-> "legacy", number |-> 0]]
    ELSE [d EXCEPT ![1].paid = Posted(d)]

preparePaymentMigration(d) ==
    LET e == synthesized(d)
        unnumbered(i) == {j \in PaymentIds(e) : e[j].number = 0 /\ j <= i}
        top == Max(Numbers(e) \cup {0})
    IN  Over([i \in {i \in PaymentIds(e) : e[i].form = "legacy"} |->
                [e[i] EXCEPT !.form = "v2",
                             !.number = IF @ = 0 THEN top + Cardinality(unnumbered(i)) ELSE @]],
             [i \in {1} |-> e[1]])

\* $max: a counter is never behind a number that was given.
alignCounters(d) ==
    [i \in {5} |-> [value |-> Max(Numbers(d) \cup {0} \cup
                                       (IF d[5] = Gone THEN {} ELSE {d[5].value}))]]

alignReceiptCounters(d) ==
    [i \in {1} |-> [value |-> Max({d[1].value} \cup {d[j].number : j \in Present(d) \ {1}})]]

\* One counter of a scope takes the highest value; only then the others go.
consolidateSalesInvoiceCounters(d) ==
    [i \in {i \in {1} : Cardinality(Present(d)) > 1} |->
       [value |-> Max({d[j].value : j \in Present(d)})]]

dropDuplicateCounters(d) == [i \in Present(d) \ {1} |-> Gone]

\* What was read is resolved; what is left is open.
resolveReadAlerts(d) ==
    [i \in {i \in Lacking(d, {"status"}) : d[i].read} |-> [d[i] EXCEPT !.status = "resolved"]]

openAlerts(d) == [i \in Lacking(d, {"status"}) |-> [d[i] EXCEPT !.status = "open"]]

Open(d) == {i \in Present(d) : d[i].status \in {"open", "acknowledged"}}

\* The newest stays.
retireDuplicateAlerts(d) ==
    [i \in {i \in Open(d) : \E j \in Open(d) : j > i} |-> [d[i] EXCEPT !.status = "resolved"]]

backfillDeliveries(d) ==
    [i \in {i \in Present(d) : d[i].status = "available" \/ d[i].stamp = "missing"} |->
       [status |-> IF d[i].status = "available" THEN "pending" ELSE d[i].status,
        stamp |-> IF d[i].stamp = "missing" THEN "derived" ELSE d[i].stamp]]

\* The first of the order stays, whatever became of it.
retireDuplicateDeliveries(d) ==
    [i \in {i \in Present(d) : \E j \in Present(d) : j < i} |-> [d[i] EXCEPT !.status = "cancelled"]]

CatalogRows(d) == {i \in 1..2 : d[i] # Gone}

backfillCatalogRows(d) ==
    Fill(d, {i \in CatalogRows(d) : d[i].terms = "missing"}, {"terms"})

\* The opening price of a row that has no history, on the terms it has now.
backfillPriceHistory(d) ==
    [i \in {i \in 3..4 : i - 2 \in CatalogRows(d) /\ d[i] = Gone} |-> d[i - 2]]

\* The branch of the first order has a restaurant; the tenant of the other is not made up.
backfillOrderTenants(d) == Fill(d, {1}, {"tenant"})

backfillPaymentTenants(d) ==
    [i \in {i \in {2, 4} : d[i].tenant = "missing" /\ d[i - 1].tenant # "missing"} |->
       [tenant |-> "derived"]]

\* A time of completion is taken from the audit trail or not at all.
backfillCompletedAt(d) ==
    Fill(d, {i \in Lacking(d, {"completedAt"}) : d[i].evidence}, {"completedAt"})

-------------------------------------------------------------------------------
(* The steps of a migration, one after the other                           *)

Steps(k) ==
    CASE k = "alerts" -> 3
      [] k \in {"receipts", "returns", "ledger", "lots", "numbers", "completed"} -> 1
      [] OTHER -> 2

\* prepared: what the first step of this start has written
Writes(k, n, d, prepared) ==
    CASE k = "purchase_orders" ->
           IF n = 1 THEN backfillPurchaseOrders(d) ELSE backfillPurchaseOrderApprovals(d)
      [] k = "receipts" -> backfillGoodsReceipts(d)
      [] k = "returns" -> backfillPurchaseReturns(d)
      [] k = "ledger" -> normalizedUpdates(d)
      [] k = "lots" -> backfillCurrentBalances(d)
      [] k = "invoices" ->
           IF n = 1 THEN backfillSupplierInvoices(d) ELSE matchingRebuilt(d, prepared)
      [] k = "payments" -> IF n = 1 THEN preparePaymentMigration(d) ELSE alignCounters(d)
      [] k = "counters" ->
           IF n = 1 THEN consolidateSalesInvoiceCounters(d) ELSE dropDuplicateCounters(d)
      [] k = "numbers" -> alignReceiptCounters(d)
      [] k = "alerts" ->
           (CASE n = 1 -> resolveReadAlerts(d) [] n = 2 -> openAlerts(d)
              [] n = 3 -> retireDuplicateAlerts(d))
      [] k = "deliveries" ->
           IF n = 1 THEN backfillDeliveries(d) ELSE retireDuplicateDeliveries(d)
      [] k = "catalog" -> IF n = 1 THEN backfillCatalogRows(d) ELSE backfillPriceHistory(d)
      [] k = "tenants" -> IF n = 1 THEN backfillOrderTenants(d) ELSE backfillPaymentTenants(d)
      [] k = "completed" -> backfillCompletedAt(d)

\* Mutant: the writes of every step are on their own.
NoTransaction(k, n) == FALSE

Transactional(k, n) == k \in {"ledger", "lots"} \/ (k = "payments" /\ n = 1)

\* What the migration throws at: lots that hold more than the balance, a lot of its own
\* that is not what is left; more paid than the invoice is for.
Refuses(k, d) ==
    \/ k = "lots" /\ (legacyQty(d) < 0 \/ (d[3] # Gone /\ d[3].qty # legacyQty(d)))
    \/ k = "payments" /\ Posted(d) > 2

Down == [step |-> 0, phase |-> "down", writes |-> <<>>, prepared |-> {}]

Listening == [Down EXCEPT !.phase = "listening"]

Init ==
    /\ kind \in Kinds
    /\ db \in Databases(kind)
    /\ run = Down
    /\ starts = 0
    /\ live = 0

Begin ==
    /\ run.phase = "down" /\ starts < MaxStarts
    /\ starts' = starts + 1
    /\ run' = IF Refuses(kind, db) THEN Down ELSE [Down EXCEPT !.step = 1, !.phase = "reading"]
    /\ UNCHANGED <<kind, db, live>>

\* What is read decides what is written; a transaction sees what it read.
Read ==
    LET writes == Writes(kind, run.step, db, run.prepared)
    IN  /\ run.phase = "reading"
        /\ IF Transactional(kind, run.step)
           THEN /\ db' = Over(writes, db)
                /\ run' = [run EXCEPT !.phase = "writing"]
           ELSE /\ run' = [run EXCEPT !.phase = "writing", !.writes = writes,
                                      !.prepared = @ \cup DOMAIN writes]
                /\ UNCHANGED db
        /\ UNCHANGED <<kind, starts, live>>

Write ==
    /\ run.phase = "writing"
    /\ \E i \in DOMAIN run.writes :
          /\ db' = [db EXCEPT ![i] = run.writes[i]]
          /\ run' = [run EXCEPT !.writes = [j \in DOMAIN run.writes \ {i} |-> run.writes[j]]]
    /\ UNCHANGED <<kind, starts, live>>

Done ==
    /\ run.phase = "writing" /\ DOMAIN run.writes = {}
    /\ run' = IF run.step < Steps(kind)
              THEN [run EXCEPT !.step = @ + 1, !.phase = "reading"] ELSE Listening
    /\ UNCHANGED <<kind, db, starts, live>>

\* The process stops, in the middle of it or later.
Stop ==
    /\ run.phase # "down"
    /\ run' = Down
    /\ UNCHANGED <<kind, db, starts, live>>

-------------------------------------------------------------------------------
(* What the server does to the documents while it listens                  *)

\* A document as it is written now
Current(k) ==
    CASE k = "purchase_orders" ->
           {[totals |-> "recorded", approval |-> "missing", sent |-> FALSE],
            [totals |-> "recorded", approval |-> "recorded", sent |-> TRUE]}
      [] k = "receipts" -> {[header |-> "recorded", hash |-> "recorded"]}
      [] k = "returns" -> {[header |-> "recorded", lines |-> "recorded"]}
      [] k = "ledger" -> {[type |-> "REVERSAL", key |-> "recorded"]}
      [] k = "invoices" -> {[number |-> 2, identity |-> "plain", matching |-> "recorded"]}
      [] k = "alerts" -> {[status |-> "open", read |-> FALSE]}
      [] k = "deliveries" -> {[status |-> "pending", stamp |-> "recorded"]}
      [] k = "completed" -> {[completedAt |-> "recorded", evidence |-> TRUE]}
      [] OTHER -> {}

\* One alert is open of a condition, one dispatch is not cancelled of an order, an invoice
\* number is used once.
Dispatched(d) == {i \in Present(d) : d[i].status # "cancelled"}

MayAdd(k, d) ==
    CASE k = "alerts" -> Open(d) = {}
      [] k = "deliveries" -> Dispatched(d) = {}
      [] k = "invoices" -> \A i \in Present(d) : d[i].number # 2
      [] OTHER -> TRUE

Added(k, d) ==
    {[d EXCEPT ![i] = doc] : i \in {i \in 3..4 : d[i] = Gone /\ d[i - 1] # Gone /\ MayAdd(k, d)},
                             doc \in Current(k)}

\* Supplier payments are recorded, with the next number, and reversed.
Paid(d) ==
    {[d EXCEPT ![i] = [amount |-> 1, status |-> "posted", form |-> "v2",
                       number |-> d[5].value + 1],
               ![5].value = @ + 1, ![1].paid = @ + 1]
       : i \in {i \in 2..4 : d[i] = Gone /\ d[1].paid < 2}}
    \cup {[d EXCEPT ![i].status = "reversed", ![1].paid = @ - d[i].amount]
            : i \in {i \in PaymentIds(d) : d[i].status = "posted"}}

\* What is received goes to a lot and the balance; what is used comes out of both.
Moved(d) ==
    {[d EXCEPT ![2].qty = @ + 1, ![1].qty = @ + 1] : i \in {i \in {2} : d[1].qty < 3}}
    \cup {[d EXCEPT ![i].qty = @ - 1, ![1].qty = @ - 1]
            : i \in {i \in {2, 3} : d[i] # Gone /\ d[i].qty > 0}}

\* A number is given, an alert resolved, a dispatch cancelled.
Changed(k, d) ==
    CASE k = "counters" -> {[d EXCEPT ![1].value = @ + 1]}
      [] k = "numbers" -> {[d EXCEPT ![1].value = @ + 1, ![4] = [number |-> d[1].value + 1]]}
      [] k = "alerts" -> {[d EXCEPT ![i].status = "resolved"] : i \in Open(d)}
      [] k = "deliveries" -> {[d EXCEPT ![i].status = "cancelled"] : i \in Dispatched(d)}
      [] k = "payments" -> Paid(d)
      [] k = "lots" -> Moved(d)
      [] OTHER -> {}

Live ==
    /\ run.phase = "listening" /\ live < MaxLive
    /\ db' \in Added(kind, db) \cup Changed(kind, db)
    /\ live' = live + 1
    /\ UNCHANGED <<kind, run, starts>>

Next == Begin \/ Read \/ Write \/ Done \/ Stop \/ Live

Spec == Init /\ [][Next]_vars

-------------------------------------------------------------------------------
\* What a whole start makes of the documents, when nothing interrupts it
Result(k, d) ==
    LET prepared == DOMAIN Writes(k, 1, d, {})
        after[n \in 0..Steps(k)] ==
          IF n = 0 THEN d ELSE Over(Writes(k, n, after[n - 1], prepared), after[n - 1])
    IN  after[Steps(k)]

\* The matching of an invoice is left out: see the README.
Same(k, d, e) ==
    IF k = "invoices" THEN \A i \in Ids : d[i] # Gone => d[i].identity = e[i].identity
    ELSE d = e

Highest(k, d) ==
    CASE k = "payments" -> Max(Numbers(d) \cup {0})
      [] k = "counters" -> Max({d[i].value : i \in Present(d)})
      [] k = "numbers" -> Max({d[1].value})
      [] OTHER -> 0

\* Nothing is missing that can be known, and what is to be unique is.
Migrated(k, d) ==
    CASE k = "purchase_orders" -> \A i \in Present(d) :
           d[i].totals # "missing" /\ (d[i].sent => d[i].approval # "missing")
      [] k = "invoices" -> \A i, j \in Present(d) :
           i # j /\ d[i].number = d[j].number => ~(d[i].identity = "plain" /\ d[j].identity = "plain")
      [] k = "lots" -> d[1].qty = d[2].qty + IF d[3] = Gone THEN 0 ELSE d[3].qty
      [] k = "payments" ->
           /\ d[1].paid = Posted(d) /\ d[5].value >= Highest(k, d)
           /\ \A i, j \in PaymentIds(d) : i # j => d[i].number # d[j].number
      [] k = "counters" -> Cardinality(Present(d)) = 1
      [] k = "numbers" -> \A i \in Present(d) \ {1} : d[i].number <= d[1].value
      [] k = "alerts" -> Cardinality(Open(d)) <= 1
      [] k = "deliveries" -> Cardinality(Dispatched(d)) <= 1
      [] k = "catalog" -> \A i \in CatalogRows(d) : d[i + 2] = d[i]
      [] k = "tenants" ->
           d[1].tenant # "missing" /\ d[2].tenant # "missing" /\ d[4].tenant = "missing"
      [] k = "completed" -> \A i \in Present(d) : d[i].evidence <=> d[i].completedAt # "missing"
      [] OTHER -> \A i \in Present(d) : \A f \in DOMAIN d[i] : d[i][f] # "missing"

TypeOK ==
    /\ kind \in Kinds
    /\ DOMAIN db = Ids
    /\ run.phase \in {"down", "reading", "writing", "listening"}
    /\ run.step \in 0..Steps(kind)
    /\ DOMAIN run.writes \subseteq Ids
    /\ starts \in 0..MaxStarts /\ live \in 0..MaxLive

\* startup.js:75: a server that listens has migrated its documents, however often the starts
\* before were interrupted, and another start would change nothing.  Dispatches, which a
\* later start does change, are left to RestartKeepsDispatches.
ReadyIsMigrated ==
    run.phase = "listening" =>
        /\ Migrated(kind, db)
        /\ kind # "deliveries" => Same(kind, Result(kind, db), db)

\* tenantBackfill.js:11, README:2361: a start that is killed leaves what the next continues
\* from: every single write leaves what a whole start would make of the documents as it was,
\* and no number that was given is forgotten.
NothingHalfDone ==
    run.phase \in {"reading", "writing"} =>
        /\ Same(kind, Result(kind, db'), Result(kind, db))
        /\ Highest(kind, db') >= Highest(kind, db)

\* README:3335 and 3375: a start retires the duplicates that the old model allowed; the
\* dispatch of an order whose first dispatch was cancelled is none.
RestartKeepsDispatches ==
    kind = "deliveries" /\ run.phase = "listening" => Result(kind, db) = db
===============================================================================
