# Mittho OPS: a TLA+ model

Mittho OPS is a multi-tenant restaurant system: an Express and Mongoose API
(`server/`) over a MongoDB replica set, and a React client (`client/`). Several
API containers run against one database. Everything that matters is kept in
MongoDB documents; the processes keep caches, timers and sockets.

This directory holds TLA+ modules of the parts of the system whose correctness
depends on who does what when, TLC configurations that check them on small
instances, and TLAPS proofs of important properties for every value of the
constants. `PROJECT.json` lists components, runs, mutants, findings, hazards
and theorems, and maps each definition to the lines it models.

Contents: [how the system is concurrent](#how-the-system-is-concurrent),
[inventory](#inventory), [the modules](#the-modules), [the runs](#the-runs),
[what disagrees](#where-the-code-and-its-documentation-disagree),
[the proofs](#the-proofs), [what is only model-checked](#only-model-checked),
[what is left out](#abstractions), [not modelled](#not-modelled), [the plan](#plan).

## How the system is concurrent

Node runs one thread per container, so code between two `await`s is atomic
within a container and nothing else is. There are five disciplines, and each
module says which one it models:

1. **Calls one by one.** A handler awaits one database call after another,
   without a transaction. Each call is atomic on its document, and any other
   handler may run between two of them. The model has one action per call, and
   the handler's locals are state.
2. **Snapshot transactions.** `session.withTransaction(callback)`: the callback
   reads one snapshot, its writes take effect together, and if a document it
   writes was changed by a transaction that committed since, the driver runs it
   again. What it only *reads* may be stale when it commits. Two modules model
   it. `Transactions` compares the values of the documents written with the
   snapshot's, which suits documents that never return to an earlier value.
   `Snapshots` follows each open transaction by the set of documents written
   behind its back, which suits all others, and lets one request be slow among
   *prompt* ones that read and write in one step. A prompt request is a
   transaction that no other overtook, so one slow request and prompt ones are
   all interleavings of two.
3. **Read and save.** `findById`, then `save()`: only the changed paths are
   written, over whatever is there, unless the schema has
   `optimisticConcurrency` or a unique index objects.
4. **Several containers.** The scheduler's lease is the only thing the
   containers agree on explicitly; caches are invalidated through change
   streams that may be down, and clocks differ.
5. **The browser.** A page asks over HTTP and hears of changes over a socket;
   answers arrive late, out of order or not at all, and a person clicks again.

## Inventory

Server paths are relative to `server/src/services/` unless they name a
directory; `PROJECT.json` says for each component what is left out.

| Component | State | Operations | What is hard | What makes it correct | Module |
|---|---|---|---|---|---|
| Reorder scheduler and lease (`reorderScheduler.js`, `schedulerLock.js`) | lock document, timers and flags of each container | tick, acquire, renew, release, start, stop | clock skew, late answers, crash, stop while in flight | one sweeper at a time; a dead lease ends; sweeping goes on | SchedulerLease |
| Plan limits (`quotaGuard.js`, `tenantLimits.js`, `staffAccounts.js`) | one counter per tenant and resource, and the rows it counts | reconcile, reserve, insert, compensate | interleaved creates, lost releases, deaths between calls | never past the plan; a failed compound create gives everything back | QuotaGuard over PlanCeiling |
| Monthly order quota (`orderQuota.js`, `usage.js`) | two counters per month | reserve in the order's transaction, reconcile on cancel | a counter lowered while a reservation is in flight, the month's turn | what is accepted fits every allowance | OrderQuota |
| Stock ledger and lots (`inventoryLedger.js`, `inventoryBatches.js`, `waste.js`) | balance, lots, append-only ledger rows | moveStock, FEFO, adjustment, waste, reversal | three collections in one movement, replays, stale reads | ledger, lots and balance agree; earliest expiry first; once per key | StockStore, StockMovements, OrderStock |
| Stock transfers (`transfers.js`) | transfer document, two ledger rows | request, approve, cancel, send, receive | the same step twice, two steps at once | goods are in one place and travel whole | StockMovements over StockPlaces |
| Orders' stock (`routes/operations.js`, `tables.js`, `kitchen.js`, `routes/storefront.js`) | order, its ledger rows | place, accept, advance, split, merge, cancel, refund, reopen | lines of one order spread over several checks | stock sold once and given back once | OrderStock |
| Checks' money (`billing.js`, `refunds.js`, `tables.js`) | payment rows, amounts on the check | pay, split, merge, refund, reverse, cancel, reopen | any order of them, replays, stale sums | no tender back twice, no overcharge, no closed check with money | CheckMoney |
| Tables and bookings (`tables.js`, `reservations.js`) | table status, checks, bookings | seat, move, merge, set status, book, amend, seat a booking | status saved from a stale read, bookings that share no written document | a table is given to one party | Seating |
| Coupons (`discounts.js`, `routes/coupons.js`) | coupon with its counter, one row per use | create, edit, retire, redeem | limits counted in rows nobody else has written yet | no use beyond the limits as they are | Coupons |
| Tax invoices (`receipts.js`, `salesInvoiceMigration.js`) | counter, number and pinned figures on the order | print first, print again, void, consolidate | first printings at once, retries, cancellations | numbers without gap, each to one order; what was printed stays | TaxInvoices |
| Online payments (`onlinePayments.js`, `paymentGateways.js`) | intent, order | initiate, return, poll, cancel, settle | redirects lost, replayed and racing; stale documents saved | paid once, only as confirmed; not closed over money | OnlinePayments |
| Deliveries (`deliveries.js`) | job, rider profile | dispatch, assign, report, go on shift, let go | two dispatchers, profiles saved whole | an order is on the road once, by its rider | Deliveries |
| Reorder engine and alerts (`reorderEngine.js`, `alerts.js`) | notification per open condition | raise, acknowledge, resolve, suggest | movements, sweeps and decisions at once | a low item has an unresolved alert | InventoryAlerts |
| Purchasing (`purchaseOrders.js`, `receiving.js`, `returns.js`) | order line, receipts, returns, batches | order, approve, receive, return, close | two receipts of one line; replays | no more received than ordered, no more returned than accepted | Procurement |
| Supplier money (`invoices.js`, `supplierPayments.js`) | invoice, payments | draft, post, match, void, pay, reverse | concurrent postings | paidAmount is the sum of the posted payments | Procurement |
| Stock counts (`stockCounts.js`, `stockCountRecovery.js`) | sheet, its lock | capture, count, submit, approve, cancel, recover | stock moves during a count | an approval posts what was missing | StockCounts |
| Month close (`monthClose.js`) | revisions | preview, close, reopen | late sales, two requests | revisions without gap that keep their figures | MonthClose |
| Accounts and sessions (`sessions.js`, `staffAccounts.js`, `roles.js`, `routes/auth.js`) | users, sessions, tokens | sign in, rotate, revoke, deactivate, demote | a sign-in during a revocation | revoked stays out | Accounts |
| Role and plan caches (`principalCache.js`, `entitlements.js`, `*ChangeStream.js`) | one cache per process, a change stream | load, remember, invalidate, re-arm | a load that began before the invalidation | stale for one TTL at most, withdrawn at once | RoleCache, EntitlementCache over ChangeStream |
| Sockets (`realtime.js`, `sessions.js`) | sockets, their rooms | connect, join, leave, refresh, disconnect, publish with a recheck | joins, refreshes and publications between reads and writes | a ticket reaches whoever is assigned to its branch | Sockets |
| Subscriptions (`subscriptions.js`, `subscriptionLifecycle.js`) | subscription | assign, extend, cancel, reactivate, sweep | sweep and administrator at once | one trial | Subscriptions |
| Platform (`platformAdmin.js`, `tenantAdmin.js`, `onboarding.js`) | operators, restaurants | grant, demote, switch off, provision | counted first, saved later | somebody can administer the platform | Platform |
| Audit trail (`auditTrail.js`) | hash-chained rows | stamp, insert, verify | several rows on the way, failed inserts, restarts | no two rows follow one | AuditTrail |
| Customers (`customers.js`, `customerMigration.js`) | profile, points | find or create, edit, merge, adjust | duplicates, a migration that drops the index | a phone number finds one profile | Customers |
| Recipes, ingredients, suppliers (`recipes.js`, `ingredients.js`, `supplierCatalog.js`) | document with version, its history | load, edit, save | two editors | no edit is overwritten unseen; the history has no gap | Catalogues |
| Migrations (`startup.js`, `*Migration.js`) | every old document | read, write one by one or at once | killed anywhere, started again beside live data | a listening server has migrated; nothing is half done | Migrations |
| Pages (`client/src/*.jsx`, `realtime.js`) | list, socket, loads in flight | connect, join, load, poll, hear | events before the join, answers that overtake | live is current | Pages |
| Forms and panes (`client/src/*.jsx`) | form, key, answers | fill in, submit, submit again, select | lost and late answers | booked once; no late answer makes a person act on another document than is shown | Forms, Panes |
| Reports, exports | none | read | – | – | not modelled |

How they interact: an order reserves the monthly quota, writes stock through
`moveStock`, and its table; `moveStock` raises alerts; receiving, transfers,
waste, counts and reversals all end in `moveStock`; the gateway settlement and
the staff meet on the order document; the scheduler's sweep writes alerts under
the lease; every request passes the role and plan caches; every write is
followed by an audit row and an event to the pages. The shared state is always a
MongoDB document; no two components share memory except through the caches.

## The modules

Server components first, in the order in which they were built; the web client
last.

### The scheduler's lease

`SchedulerLease` has one action per database call and timer of `tick()`: a run
draws a token and asks for the lease (`StartTick`, `AcquireGranted`,
`AcquireRefused`, `AcquireError`), renews it (`RenewSend`, `RenewAnswer`,
`RenewError`), sweeps while `ShouldContinue`, and ends (`FinishSweep`,
`Release`, `ReleaseError`). Containers start and stop their scheduler and crash;
MongoDB's TTL monitor removes a lapsed document. Time is discrete: `lease.left`
is `expiresAt` relative to the database's clock, and container *i*'s clock runs
`Skew[i]` ahead. A stop, as in the code, forgets the scheduler but not its tick
in flight, so a scheduler started afterwards may run a second one beside it.
One renewal per run is in flight at a time.

`TimelyRenewal` is the assumption the lease rests on: `MaxGap`, the longest a
run goes between two of its timestamps, is smaller than the TTL less the skew.
The lease cannot do without it: a run stalled for the whole TTL finds a second
sweeper beside it (without the assumption TLC violates `OneSweeper` at once).

### Plan limits

`QuotaGuard` has one action per call of `withQuota` and `withCompoundQuota`:
count the rows, create or raise the counter (`$max`), take a unit if the result
fits, insert the row, and on failure hand the units back in reverse order. Calls
fail (applied or not) and processes die, up to `MaxFaults`. `UnguardedInsert` and
`AssignRole` are the paths that reach the same rows without a reservation:
`findOrCreateCustomer` and `assignUserRole`. The ceiling
read at the start (`getLimit`, cached) is a constant.

`PlanCeiling` is what the tenant bought: rows come and go, and an insert needs
room under every ceiling it counts against. `QuotaGuard` implements it with the
rows as the refinement mapping; the counters are internal.

### Stock

`StockStore` is what every movement of stock does to its three collections: the
balance, the lots and the ledger row under the movement's idempotency key. `Fefo`
is the allocation by expiry, `CanTake` the refusals, `Covered` the check that
the lots still add up to the balance. `Transactions` is discipline 2 above.

`StockMovements` is receipts, adjustments, waste and transfers, each request
repeatable: `BringIn`, `TakeOut`, `CreateTransfer`, `Decide`, `Send`, `Receive`,
under the state machine `TransferTransitions`. A lot keeps its identity when it
travels (the code copies batch number and expiry). `Midnight` lets lots expire.

`StockPlaces` is what transfers promise: every unit is on one branch's shelf or
inside one transfer, a transfer leaves whole and arrives as what left.
`StockMovements` implements it: the shelf of a branch is its balance, and a
transfer contains its quantity while it is `in_transit`.

`OrderStock` is the stock behind checks: `PlaceAtTill`, `PlaceOnline`,
`AcceptOnline`, `RejectOnline`, `Advance` (the kitchen), `Settle`, `Cancel`,
`Refund`, `Reopen`, `Split`, `Merge`. Its core is `reverseOrderStock`: which
deduction rows a check draws on (`SourcesOf`), what related checks have put back
already (`Related`, `Reversals`), whether the reversal fits (`Fits`), and into
which lots it goes (`Restored`). A check is measured in one ingredient: the
handlers loop over the ingredients inside one transaction and treat each alike.
`cooking` stands for `confirmed`, `accepted` and `preparing`. Money is either way.

### Online payments

`OnlinePayments` is discipline 1 for the guest and 2 for the staff. A handler in
flight (`call`) has its place, the intent as it was read, and the outcome it is
about to write. `StartPayment`, `CreateIntent`, `Initiated` are
`createPaymentIntent`; `Return`, `PollStatus`, `ReadIntent`, `RecordEvent`,
`Ask`, `WriteUnsuccessful`, `Settle`, `AlreadySettled` are the redirect, the
poll and `verifyAndSettle`; `CancelPayment` and `AskCancel` are
`cancelPaymentIntent`. `SaveStatus` is Mongoose's `save()`: it writes the status
only if the handler changed it on its own copy, and then over whatever is there.
`CanClaim` is the conditional claim and the unique index on settled intents.
The gateway (`AtGateway`) is external: a payment there stays open, is paid, is
paid with another amount, or is given up. `Fail` is an outage, a refused answer
or a dead container, up to `MaxFaults`.

### Slow and prompt requests

`Snapshots` is discipline 2 for everything below. `Begin` takes a client's
snapshot and `End` drops it; `Commit` is the callback's decision and its writes, possible only if
nobody wrote those documents since; `Save` and `Update` are discipline 3, which
overwrite; `behind[c]` is the set of documents written since client *c* read. A
`Prompt` request does both in one step, so that one slow client among prompt
requests gives every interleaving of two, with any number of finished requests
between the slow one's read and its write.

### The restaurant's floor

`CheckMoney` is the money on checks: `Pay`, `Refund` and `Reverse` of single
tenders, `Cancel`, `Reopen`, `Split`, `Merge`, and the kitchen's progress. Tenders
are rows keyed by their idempotency key; the amounts stored on the check are
kept beside them, as the code keeps them.

`Seating` is tables, the open checks at them, and bookings: seating a party or a
booking, moving, splitting and merging checks, settling, and the table's status set by
hand, which is read and saved without a transaction. A split and a merge also save the check
they take from or add to (`CommitSaved`), which other requests then conflict with. A completed
check is re-seated when it is reopened; when its payment is reversed (`ReversePayment`) it is
merely open again, whoever has the table by now, and a refund ends it. The
field `holds` of a check is history: whether the table was written when
the check came, or came back, to it. A move to a table that reads `occupied` does not write
it, nor does a reopening there or at one out of service, nor ever a reversal.

`Deliveries` is dispatch, assignment, what riders and staff report, and the
riders' shifts. A rider's profile is read and saved whole; a job changes in a
transaction.

`Customers` is find-or-create by phone number at the till and on the website,
edits, merging of two profiles with their loyalty points, and the migration that
every start runs. The unique index is a document, because the migration drops
and rebuilds it beside servers that are up.

`Coupons` has orders that validate a coupon, by counting the rows of its uses,
and redeem it in the transaction that places them, while managers edit and
retire it outside any. What makes two uses conflict is the coupon's counter,
which every use raises, with a usage limit or without.

`TaxInvoices` is the first printing of a receipt, which takes the branch's next
number for the year and pins total and seller on the order; reprints; the
voiding of a cancelled order's invoice; and, around them, what changes orders and
the seller's profile. It starts from what the migration of the counters makes of
several counters and shared numbers.

### The back office

`Procurement` follows one order line from the draft to the supplier's money:
approval, receipts (by idempotency key), returns, the closing of the order;
invoices with their three-way match; payments, reversals. The line is priced 1,
so that units are also money and the match compares quantities.

`StockCounts` has the shelf beside the books: goods leave the shelf unrecorded,
which is what a count finds. The history variable `missing` remembers what the
books said too much when a line was counted, and `ApprovalExplains` compares
what an approval posts with it. Recovery (`stockCountRecovery.js`) frees a
branch from sheets that went stale.

`InventoryAlerts` is one item's alert: upserted by the movement that empties the
shelf, upserted again by a sweep from a plan it read earlier, acknowledged and
resolved by people from stale reads, and the order that a suggestion becomes.

`MonthClose` previews a month, reads the next revision number after it and
inserts the revision, with no transaction around the three.

### Accounts, plans and the platform

`Accounts` is discipline 1: signing in (the comparison of the password lies
between the read of the account and the issue of the token), rotation of a
device session, revocation, deactivation, change of password and demotion, and
any request that presents a token. A token carries the account's
`sessionVersion` as it was read. `asks[r].ended` remembers that what a request
presents had been revoked before the request began.

`RoleCache` and `EntitlementCache` are one server's two caches, over
`ChangeStream`, the cursor that tells it what other servers wrote and that may
fail, report its failure twice and be opened again (`streamReArm.js`). A request
reads, is overtaken by an edit and its invalidation, and then remembers what it
read. Each property allows staleness for one TTL and the time a load takes, and none
for a withdrawal that this server made itself.

`Subscriptions` has administrators and the lifecycle sweep on a document without
a version. `OrderQuota` has orders that raise the month's two counters in their
own transaction to a count made outside it, cancellations that lower them, and
the turn of the month between the two. `Platform` has the operators' accounts
and a restaurant's provisioning: who may change whom is judged from what was
read at the start, and a restaurant's owner may switch off an account that is
also an operator's.

`Sockets` is what one server's sockets hear: a handshake, a join, a refresh and a
publication read the stored account, wait, and act on what they read, while
accounts are assigned elsewhere and sessions end. A history keeps the
assignments there were since the publication began.

`AuditTrail` is the hash chain one server writes: a row takes number and
predecessor when it is validated and is inserted later, after others, or never;
after a restart the head is read from the database. The hash stands for what it
covers.

`Migrations` is what a start does before it listens. Each of 14 kinds of old
documents has its steps: what a step selects, what it writes, and whether one by
one or in a transaction. `Stop` may come between any two writes. A behaviour is
about one kind.

### Master data and the web client

`Catalogues` is a form filled from a list and sent back with the version it was
filled from: menu items with their recipes and the history of their last
versions, ingredients with their unit and the stock in several branches,
suppliers, and what a supplier sells. Which of these check the version, and when,
is the module's data.

`Pages` is a list, the socket and its room, and the loads in flight; each page
of the client is a record of what it does on connect, on the acknowledgement of
its join, on an event, on a disconnect, and by polling, and of whether it drops
overtaken answers. `Forms` is a submission whose answer may be lost, with what
the page does to its key then (`held` until the form changes, one per
submission, or none) and what the service does with a key it knows. `Panes` is
one document asked for after another: chosen (`Select`), reloaded by an event (`Refresh`), or
asked for when an action on it is done (`Act`, `Done`), whichever is chosen by then. A pane's
record says whether answers are numbered, what empties it, which requests show as loading,
whose errors are said, and which document its buttons name. An event's reload fails in
silence in three of the four panes that are checked and leaves what is shown (`failed =
"unsaid"`); a payment's list is not numbered. All three are written once and
instantiated with the pages' records (`Purchasing`, `Kds`, `CreateOrder`,
`OrderHistory`, …), so a page that behaves differently is one more record.

### Composition

`MCRestaurant` and `MCServer` check these modules together. The modules of one
composition share no document that is modelled, so a behaviour is about one
`part`, which its initial state chooses, and a property is the conjunction of the
parts' properties. The components that do share documents are composed inside
one module: stock and checks in `OrderStock`, gateway and staff in
`OnlinePayments`, tables, checks and bookings in `Seating`, purchasing and
supplier money in `Procurement`, the caches over `ChangeStream`.

### Naming

The `MC…` modules give constants their values; where these are few,
the component's module ends with them (`SchedulerLease`, `QuotaGuard`, `OrderStock`,
`OnlinePayments`). A definition whose comment begins
with "Mutant:" is a plausible bug; `PROJECT.json` pairs one with each property,
which must fail when the mutant replaces the real definition. Where a property is
a conjunction the modules hold a mutant for the other conjuncts, too.

## The runs

All runs use TLC with the `.cfg` named in `PROJECT.json`. "Distinct" is the
number of distinct states.

| Run | Instance | What it shows |
|---|---|---|
| `lease` (144,772 distinct) | two containers a tick apart, three runs (so that one container has an old run beside a new one), TTL 4, two faults | `OneSweeper`, `SweeperHoldsLease`, `UnexpiredLeaseIsKept`; under fairness `DeadLeaseEnds`, `SweepsGoOn` |
| `quota` | three creates on two ceilings and an unlimited resource, one fault, one row that reserved nothing | `WithinPlan`, `ReservationsCounted`, `AllOrNothing`, `RefusedOnlyWhenFull`, and `PlanSpec` |
| `movements` (72,552) | two clients, two branches, two lots of which one expires, two receipts, two removals, two transfers in opposite directions | `LotsMatchBalance`, `LedgerExplains`, `TransferMovesOnce`, `FefoKept`, and `PlacesSpec` |
| `order_stock` (290,422) | two clients, three checks at two tables, one of them a web order, two lots, stock enough for both orders or for one of them | `StockAccounted`, `SplitChecksReverse` |
| `online_payments` (4,094,104) | one order, two intents, two handlers or staff requests, one redirect payload besides the poll, one fault | `PaidOnce`, `OnlyConfirmedMoney`, `RejectionStrandsNothing` |
| `restaurant` (1,089,361) | each part of the floor and the back office, with one slow request | `MoneyKept`, `DispatchKept`, `SuppliesAccounted`, `GivenOnce`, `BooksKept`, `LowIsAlerted` |
| `server` (about 3,082,000) | each part of accounts, sockets, plans, platform, migrations, master data and client, with two requests (three in the audit trail and the panes) | `RevokedStaysOut`, `PlanKept`, `ASuperStays`, `NoFork`, `SurvivesRestarts`, `LiveIsCurrent`, `SentOnceSavedOnce` |
| `order_merged` | one client | *violated*: `EveryCheckReverses` |
| `online_undone` | two clients, one intent, no fault | *violated*: `PaidIsNeverUndone` |
| `money_reversed` | checks alone, one of three units in two tenders, one slow request | *violated*: `MoneyReversed` |
| `server_dispatches` | migration of deliveries | *violated*: `RestartKeepsDispatches` |
| `server_kds` | the kitchen display | *violated*: `LiveIsCurrent` |

Every run checks a `TypeOK`, too. What the joined properties join:

| Property | Of | Says |
|---|---|---|
| `StockAccounted` | OrderStock | the lots add up to the balance, no lot is filled beyond what it was received with, and a check's rows say what was taken for it |
| `MoneyKept` | CheckMoney | no tender is given back beyond its amount (`RefundsCovered`); a closed check holds no money of the guest (`ClosedHoldsNothing`); nobody pays more than the bills say (`NoOvercharge`) |
| `DispatchKept` | Deliveries | an order is on the road once, who delivered it was its rider, and nobody who was let go is on shift |
| `SuppliesAccounted` | Procurement | no more is received than ordered and returned than accepted (`GoodsAccounted`); `paidAmount` is the sum of the posted payments (`InvoicesPaidOnce`) |
| `GivenOnce` | Seating, Customers, Coupons | a party is seated only where no other has a check, unless that came without writing the table (`SeatedAlone`); a phone number finds one profile; no two orders share the last use of a coupon, and its counter counts its uses (`RedeemedWithinLimits`, `CounterCountsRows`) |
| `BooksKept` | StockCounts, MonthClose, TaxInvoices | one active sheet; an approval posts what was missing when counted; revisions without a gap that keep their figures; invoice numbers without a gap, each to one order, that keep what was sold and by whom (`NumberedInSequence`), void when an accepted order is cancelled (`CancellationVoids`) |
| `LowIsAlerted` | InventoryAlerts | the movement that leaves an item low leaves an unresolved alert |
| `RevokedStaysOut` | Accounts, RoleCache, EntitlementCache, Sockets | nobody acts by a token issued before its revocation, or by a role withdrawn; what was replaced counts for one TTL and a load; a lost change stream is opened again; a kitchen ticket reaches only sockets whose account was assigned to the branch since its publication began, or whose granted join was under way (`TicketsToAssigned`) |
| `PlanKept` | Subscriptions, OrderQuota | one trial whatever overlaps; what the quota lets through fits the month's allowances |
| `ASuperStays` | Platform | what operators do one after the other leaves a super administrator who can sign in |
| `NoFork` | AuditTrail | no two rows follow the same row |
| `SurvivesRestarts` | Migrations | a listening server has migrated everything; a step that was killed left nothing half done |
| `LiveIsCurrent` | Pages, Panes | a page that says it is live shows the list as it is once nothing is under way; a pane shows, and acts on, what is selected, but for a reload that failed unsaid and an action that ended late |
| `SentOnceSavedOnce` | Forms, Catalogues | a submission is booked once however often it is sent, and the page says what was booked; no edit is overwritten unseen, histories have no gap |

**Why these bounds.** The races are between two handlers: a third adds
interleavings of the same pairs, except for quotas, where two creates can race
for what a third one releases, and the lease, where an old run of one container
meets a new one and another container's; those have three, as has the audit
trail, where one row lost between two others matters. Two lots are the
least for which the order of expiry, a partly emptied lot and a movement across
lots exist. Two transfers in opposite directions let goods return to where they
came from. Three checks are the least for split *and* merge to meet. Two intents
are the least for the unique index to matter. One or two faults suffice to reach
each failure at each call, since a fault leaves nothing behind but documents,
which later steps meet; the lease needs two (a crash and a failed call). The
proofs do without any of these bounds.

`Sockets` has one account with one socket and two requests beside the publication: a
socket's rooms depend on no other socket, and the recheck of one may already be
separated from the emission by anything. In `restaurant` one request is slow and the others prompt, in `MonthClose` two
are slow. Three idempotency keys of payments allow a payment, its refund and a
reversal or another payment; two receipts and two payments race for one line and
one invoice; three movements let stock fall, rise and fall again between a count
and its approval. Three orders redeem one coupon with limits of two or none, so that a
limit is reached, and shared, between them; two checks with two printings each are
split, merged and numbered after legacy numbers up to two. `MCBound` stops exploring where others got two documents ahead
of the slow request (one in `Customers`; a check and one other document in
`Seating`): a transaction conflicts by the first of them, and a save is stale by
it. On the floor it also stops at what is over, bookings and checks that were cancelled or
merged away, and at bookings that are confirmed, to which happens what
happens to those that are not.

In `server` two requests overlap. Time runs to 6 with a role TTL of 2 and a plan
TTL of 1, so that an entry is filled, stale and expired, a stream fails and
returns, and a period ends within a behaviour. `MCBound` lets the accounts' two
session versions rise by two together, and lets an order and two counters get
ahead of an order being placed. The server is started three times: one start is
killed, one finishes, one finds what was done since. The passing run's pages are
Purchasing and Inventory, the forms CreateOrder and Receive, the panes
OrderHistory, InvoicePayments, loadSupplierCatalog and loadStatement: one of
each behaviour that holds; the others' records differ in ways the next section
names, or behave like one of these.

**Symmetry** is used for interchangeable clients, intents, parties, tables,
users and requests in runs without a liveness property. The parts of a
composition share the names of their values, so that there are few permutations;
the values of different parts never meet.

**Deadlock** is off where requests are finite in number: when all are used up
the model stops, and the server would wait.

**Fairness.** `lease`: intervals fire, the driver answers or times out, a sweep
ends, clocks run, MongoDB's TTL monitor runs and a dead container is restarted.
Each is weak fairness of one run's or one container's action; nothing is assumed
about the order in which containers' timers fire, so it is not assumed that a
particular container ever wins. No other run needs fairness. `OnlinePayments`
states a fair specification for `PaidIsRecorded` (below): a handler in flight
goes on, transactions end, and the guest keeps polling.

## Where the code and its documentation disagree

Five runs end in a counterexample; `PROJECT.json` quotes both sides.

- `order_merged`: a split-off check can no longer be reversed once the rest was
  merged into another check and that one was cancelled.
- `online_undone`: a cancellation can overwrite the status of an intent that was
  settled while it asked the gateway.
- `money_reversed`: a tender that is refunded in part while it is being reversed. The
  reversal saves an order whose `paidAmount` and `dueAmount` are as they were,
  so it writes nothing that the refund writes, and both commit. It takes
  nine states: two tenders on a check, reopened and split, the first reversed, and a
  slow reversal of the second that a refund of one unit overtakes. With
  a bill of two units no tender can be refunded in part, which
  is why `restaurant` alone does not show it.
- `server_dispatches`: a restart takes the later of an order's cancelled and
  live delivery jobs for a duplicate and cancels it.
- `server_kds`: the kitchen display loads before it is in its room and not
  again.

The modules state further claims of the documentation that TLC refutes as
definitions which no run lists; to see the counterexample, add the definition to
a `.cfg` of its module.

Quotas, plans and the platform:

- `QuotaGuard!DriftHeals`: a lost release is called self-correcting; the
  reconciliation only raises counters, so a create is refused although the plan
  has room. `QuotaGuard!RoleCeiling`: per-role ceilings are enforced on creation
  and not when an account's role is changed.
- `OrderQuota!SeatsComeBack` (`orderQuota.js:161`, "stops counting
  immediately"): a cancellation whose snapshot is older than an order
  that raised the counter finds nothing to lower. `releaseOnlineOrderSeat` has no caller.
- `Subscriptions!SweepKeepsDecisions` (`subscriptionLifecycle.js:102-105`): the
  sweep looks again at the status of the row that it selected and not at its end,
  so a trial that was extended meanwhile is ended.
- `Platform!LastSuperStays` (`platformAdmin.js:367`, `README.md:53`): the guard
  is a count before a save, and `staffAccounts.setAccountActive` has none.
- `Accounts!AlwaysAnOwner` (`roles.js:352`): two owners demote each other at once.
- `Sockets!DeadIsDropped` (`sessions.js:206-208`): the refresh hands
  `resolvePrincipal` no `sid` (`realtime.js:536`), so a socket whose own session
  was revoked stays. `NotDropped` (`roles.js:397`, `README.md:600`): the refresh
  compares the role of the handshake with the stored one, so a change of base
  role ends the socket, and the code for sockets that become a rider's or a
  manager's (`realtime.js:546-560`, `583-593`) finds none. `HoldsItsRooms`
  (`realtime.js:517`): a join that was granted before the refresh comes through
  after it; a recheck of the old branch also clears the new branch from
  `socket.data`, by which refreshes go. `RevokedIsOff` (`README.md:638`): a
  handshake under way during the revocation connects.
- `AuditTrail!NoFalseAlarm` (`README.md:136`): a row stamped and never stored
  leaves a gap in the numbers (`auditTrail.js:224`).

The floor and the money:

- `OrderStock!CookedHasStock` (`README.md:399-404`): the kitchen's status route
  accepts a web order without the stock deduction of acceptance.
- `OnlinePayments!PaidIsRecorded` (`routes/storefront.js:365`): only the first
  poll of an intent ever asks the gateway.
- `CheckMoney!RowsSayPaid` (`refunds.js:13` and `:212`): a split moves part of
  `paidAmount` to the new check and leaves the rows where they are.
  `RefundedWasReturned` (`refunds.js:112`): the status route marks a check
  refunded without giving anything back.

- A payment or refund of everything that is sent again under its key is refused
  with 400 instead of being answered with the first one: the amount is judged
  before the key is looked up (`billing.js:98-107`, `refunds.js:160-176`).
- `Seating!NoDoubleBooking` (`README.md:472`): two bookings moved to one table
  and window write different documents. `Seating!OpenChecksOccupy`
  (`README.md:1301`): a status set by hand from a stale read overwrites
  `occupied`, and a reversed payment opens a check at a table that is free. `Seating!NobodyElseThere` (`tables.js:122`, "Table already has an open
  order"), with two slow clients: a table that a booking occupied is freed by hand
  and given to a new check, while a move read it before as occupied and so
  does not write it (`tables.js:275`). Nothing conflicts, and two parties sit there. One slow client
  is enough when a payment is reversed: `POST /orders` looks for open checks at a table whose
  check is paid, the reversal puts that check back to `confirmed` (`refunds.js:319-323`) and
  writes neither the table nor anything else the new order writes. `SeatedAlone` is
  what remains true: no party is seated where another's check wrote the table.
- `Deliveries!RidersWithinLimit` (`README.md:3347`): two assignments count the
  rider's jobs and write different ones. `FailedIsRedispatched`
  (`README.md:3337`): a failed job still counts as the order's job.
  `CancelledStays`: a job that goes on completes an order that was cancelled.
- `Customers!MigrationConverges` (`customerMigration.js:14`): a group that was
  merged before is added up again; two staff who merge one profile into two
  others count its points twice. The uses of coupons stay with the profile that
  was merged away (`customers.js:467-525`), so its limits begin again.
- `TaxInvoices!CancelledIsVoid` (`receipts.js:302`): a check that is merged away
  (`tables.js:349`) and a web order that is rejected (`storefront.js:511`) keep
  an invoice that says nothing of it. A check that is split after its invoice
  keeps the invoice of the whole, which its reprint reports (`receipts.js:187`),
  and the new check may be given another.

The back office:

- `Catalogues!UnitKeptWhileStocked` (`ingredients.js:251`, "Cannot change unit while
  stock exists"): with two branches, the check reads the balance of whichever
  comes first (`InventoryBalance.findOne({ingredient})`), so an ingredient's unit
  changes while another branch stocks it, whose quantity then reads in the new unit.
- `MonthClose!OneClosedRevision`: a request that reads the next revision after another
  closed the month closes it a second time.
- `Procurement!ClosedOwesNothing` (`purchaseOrders.js:424`, `README.md:2602`):
  an invoice is posted while the order is being closed: they write different
  documents.
- `Procurement!MatchedWasReceived`: an invoice is matched against receipts whose
  goods went back after the snapshot.
- `InventoryAlerts!ResolvedStaysResolved` (`alerts.js:453`): an acknowledgement
  from a stale read reopens an alert.
- Seen in the code of migrations: a start killed between the two writes of
  `supplierInvoiceMigration.js:291-316` leaves an invoice without its match, and
  `supplierPaymentMigration.js:139-155` reads sums beside live postings. Two
  sweeps of due invoices may overlap (`notifications.js:529-560`).

The client:

- `Forms`: with `TakePayment` `BookedOnce` fails (`README.md:3017`;
  `PosAdmin.jsx:160-170` makes the key from the time, so a retry is a new
  payment); with `PlaceOrder` `SaysWhatWasBooked` fails (the key survives a
  changed basket). `Pos.jsx:425-459` places the order again when its tender failed.
- `Panes`: `openCount`, `showHistory`, `openOrder` and `openCustomer` let a late
  answer replace the selected document, and so do the list of payments that is loaded
  after a payment or its reversal (`Purchasing.jsx:794`, `:836`), when another invoice was opened
  meanwhile, and the statement reloaded for the supplier who was selected when the
  action began (`:714`, `:797`). `refreshOpenHistory` swallows its error (`:289-293`) and
  supersedes the request that `openReceive` made: order A is shown, B is opened, an event about B
  reloads, the reload fails, and A's return options stay live under B. `ActsOnWhatItShows` is
  false there, so it and `ShowsWhatIsSelected` say what they say but for these cases, which
  `failed` and `stray` tell. The reload of payments and a silent one of the
  supplier's catalogue fail unsaid as well, and show nothing wrong; the former supersedes the
  request that shows `Loading` and never takes that back (`:296-307` has no `finally`). A reload in `StockOps.jsx` discards
  entries that were not saved.
- `Pages`: `LiveIsCurrent` fails for the tables' page as for the kitchen
  display. Events are replayed from memory (`realtimeEvents.js:142-161`), so not
  after a restart, unlike `README.md:979-984`; no page uses it.

## The proofs

Each proof module EXTENDS the module it is about; the theorems hold for every
value of the constants that satisfies the module's assumptions. All safety
properties of the runs `lease`, `quota`, `movements`, `order_stock` and
`online_payments` are theorems, and so are the two refinements.

**`Sums`** holds the lemmas about sums over finite sets of lots, rows and
checks. The library's induction over finite sets takes an operator as parameter,
which the provers cannot instantiate; `SubsetInduction` says the same of a
*family* of subsets, and follows from a least subset outside the family
(`WFMin` over strict inclusion). With it: a fold of the community modules obeys
its recursion (`SumsExist`, `SumsNext`), does not depend on the order in which it
adds (`SumRemove`), and sums are added, split, changed in one place, compared
and summed by rows or by columns (`SumPlus`, `SumOfBoth`, `SumUpdate`, `SumOrder`,
`SumByColumns`). Its last part is about taking a quantity from numbered lots in
order, each giving what those before it could not: together they give exactly
what was asked for (`TakenInOrder`).

**`GuardProofs`** is about the two components that need no transaction, since each
rests on conditional writes to one document.

The lease (`LeaseTypeCorrect`, `HolderTheorem`, `MutualExclusion`,
`UnexpiredLeaseTheorem`). Assumption `TimelyRenewal`, for the second and the third. The
invariant says that whoever may go on writing owns the document with exactly the
time its last timestamp bought (`SweeperHoldsLease`), that no run is older than
`MaxGap` (`GapsBounded`), and where each renewal in flight stands. Two sweepers
would both own one document. The step that needs work is an acquisition: its
filter can only match a lease which its own run's clock sees as lapsed, which
`TimelyRenewal` excludes while that run may write. `UnexpiredLeaseTheorem` needs
the types only: each answer that comes late filters by the owner it was sent for,
so that a lease no clock sees as lapsed is not touched by it, however slow
anybody is.

The plan's counters (`TypeCorrect`, `ReservationsTheorem`, `PlanLimitsHold`,
`CountersTheorem`, `AllOrNothingTheorem`, `RefusalTheorem`, `ImplementsPlan`).
`WithinPlan` is not inductive: the strengthening `Counted`
says that rows and reservations still held, beyond the `outside` rows, are
covered by the counter and fit the ceiling; `TakenInOrder` says what a request at
a given call can hold, so that handing back never goes below what others hold.
`AllOrNothing` and `RefusedOnlyWhenFull` need the other direction: undisturbed, a
counter is *exactly* the rows and the units held (`ExactCounters`). That is
inductive with two facts about the repair of a stale counter: a count read earlier is
not above the rows there are now, as rows only come, and a counter that was
settled stays (`Steady`). The holders are a cardinality, with lemmas for one
that comes or goes.

**`StockMovementsProofs`** (`TypeCorrect`, `TransfersTheorem`, `LotsTheorem`,
`LedgerTheorem`, `FefoTheorem`, `ImplementsPlaces`). A movement writes the
branch's aggregate, so a commit without conflict means that the aggregate is as
it was read. `LotsBehind` makes that say something of the lots, which are other
documents: as long as the aggregate's version is the snapshot's, so are the lots.
`SnapshotsBehind` says that the ledger rows an open transaction saw are still in
the database, unchanged: `Receive` reads the outgoing row and never writes it, so
no conflict would tell. With the two each commit has an `Effect` on the database, which
speaks of no snapshot any more. The rest of `IInv` is about one database:
`Books` (lots and rows each account for the aggregate, and each row has its own
version, up to the aggregate's), `RowsBalance` (the lots of a row add up to it),
`OutRowsTake` (what leaves only takes from lots, so its arrival only adds).
`FefoKept` follows because a row's lots were drained in order of the snapshot's
lots (`Drains`), and these are the database's.

**`OrderStockProofs`** (`TypeCorrect`, `StockTheorem`, `SplitTheorem`). The
invariant is `Sound` of the database and of every open snapshot, and each
snapshot is `Behind` the database: older, with the same stock if no movement came
since, and with every check that it shows as reversed as that check is now. A request that moves stock
writes the aggregate, as above. One that splits, merges or
closes a check writes the check, but decides from *other* checks which it only
reads; it reads them as they are where that matters, because a reversed check
never changes again (`Frozen`). `Sound` is the bookkeeping of one database:

- `RowsAddUp`, `LotsExplained`: rows and lots agree, lot by lot;
- `ChecksPosted`, `ChecksConsistent`: a deducted check draws on orders whose
  rows exist, and only a reversed check has a reversal row;
- `ChecksStand`: what live checks claim, and what reversed ones gave back,
  is together what was taken (`StockAccounted`'s middle part);
- `BackIsCovered`: *any set* of reversed checks gave back, into each lot, at most
  what was taken from it for the orders the set draws on. It is not enough to say this
  of all checks together, or of one: a reversal limits itself by the checks
  related to its own (`Related`), and a set is needed to add the next check
  to. `LotsNeverOverfilled` is the case of all of them;
- `SharesFit`: the checks that draw on one order alone claim at most what was
  taken for it, which is what makes split checks reversible in any order.

The last does not extend to merged checks: `EveryCheckReverses` is violated (see
above), and `SplitChecksReverse` says exactly which checks are safe.

**`OnlinePaymentsProofs`** (`TypeCorrect`, `OrdersArePaidOnce`,
`OnlyConfirmedMoneyIsBooked`, `RejectionsStrandNothing`). `PaidOnce` speaks of
the database only, while a settlement decides from its snapshot: the invariant
`BooksAgree` says that order and intents agree there *and in every open
snapshot*. An unclaimed intent in a snapshot then means an unpaid order in it,
and since the settlement writes the order, a commit without conflict means that
the order is still unpaid. `OnlyConfirmedMoney` needs `Asked`: a handler about to
settle has the gateway's confirmation, which is never taken back, because the
gateway is told of an intent once (its only handler is `Young` until then, and a
stored intent is never stored again). `RejectionStrandsNothing` follows from the
types and from what a commit does to the one order it writes (`CommitEffect`).

**`ServerProofs`** (`NoForkTheorem`, `ASuperStaysTheorem`, `PlanKeptTheorem`,
`RevokedStaysOutTheorem`, `SentOnceSavedOnceTheorem`, `LiveIsCurrentTheorem`,
`ServerTypeTheorem`) is about `MCServer`, where a behaviour is about one part: each theorem's invariant is an
implication on `part`, for any number of requests, accounts and orders.

- `NoFork`: `TrailIInv` says who owns which number. The pending head, the stored
  rows and the rows on their way have different numbers, and while no number was
  lost they have no gap either (`NoGap`). A head that was read before an
  await may be stale by then; `UpToDate` says that the remembered head is not, for
  whichever of the two is larger is used.
- `ASuperStays`: a request that nothing overlaps decides from a count that still
  holds when it saves, for `alone` excludes every other request under way (`PlatformIInv`,
  `Left`). Accounts are switched off by restaurants too, in one step, but never
  one that outranks whoever does it.
- `PlanKept`, the subscription: a request that is about to save a status begins
  no trial, and brings the period along (`Begins`), whatever the
  document has become since it was read.
- `PlanKept`, the orders: what a request counted is no less than the orders that took
  the same counter, *as long as nobody has written that counter behind its
  back* (`QuotaIInv`). An order that is placed writes each counter with a limit that it takes
  (`QuotaReserves`), so it overtakes whoever has counted; a cancellation
  writes counters only to lower them, and leaves fewer orders. At the commit nobody
  has, so the order is one more than what was counted, and the counter was below the limit
  (`QuotaFits`). Counters are any naturals there: their bound in `TypeOK` is not
  needed, and follows below. Assumed: orders are finitely many, and `NoSnapshot` is no database.
- `RevokedStaysOut`, accounts: what a token carries, and what a request has read, is never
  newer than its account (`TokenKnown`, `AccountAskKnown`): versions only grow and a
  revoked session is not revived (`Later`). Whatever ended is therefore refused by one of the
  two tests, its version's or its session's, whichever is still to come.
- `RevokedStaysOut`, the caches: an entry of a version that was replaced ends one TTL
  after the load that made it, and that load had read it before, at most the steps of a load
  earlier (`EntryKnown`, `AskKnown`; for plans `Behind` with the `Lag` of each step, since four
  documents are read one after the other). A change heard of only shortens this, so nothing
  is assumed of the stream; `StreamIInv` is the part that says it is open or about to be.
- `RevokedStaysOut`, the sockets: a socket in the room of a ticket under way is `Covered`
  by an assignment, or by a join that had been let in, or is still to be checked or evicted
  (`SocketKnown`, `JoinKnown`). `work.held` only collects assignments, and an assignment that let a
  socket pass the check is one of them.
- `SentOnceSavedOnce`, the forms: a key stands for one intent (`KeyIsIntent`), so two rows of
  one key would be one submission booked twice, and a submission is either on the
  wire or booked (`SubmittedOnce`). A replay that carries other contents is refused, so an answer
  is about what the form holds.
- `SentOnceSavedOnce`, the catalogues: a form that names the version stored was filled from
  the document that is stored (`Filled`), so its check finds what its editor saw.
  Histories are numbered without a gap (`Tells`) whatever is cut off at their end.
- `LiveIsCurrent`: a page in its room always has something that `Catches` it up: the newest
  change unpublished, its event on the wire or behind the page's timer, or a load that will read
  it. What arrives late does not undo it, for the answer that counts is no older than what is
  shown (`Newer`). Assumed: no part is `kds`, the display for which it fails (a finding).
  Of the panes: the one numbered answer that counts is about what is selected, or comes after an
  action (`PaneIInv`). A pane that is cleared when another document is chosen never shows another.
  The history of an order, which is not, says that it is loading as long as an answer counts, and
  an error that it says has emptied it; an error of an event's reload has not, hence the exception.
- `ServerTypeTheorem`: the parts' invariants contain most of their `TypeOK`. Three are new.
  `QuotaBounded`: a counter is missing or no more than the orders ever placed (`Placed`), and so is
  every snapshot and every count of a request, since an order that raises a counter adds one to both;
  this is why `TypeOK` can bound it. `PageTypes`: pages of every kind, the kitchen display with them.
  `StartIInv`: at whichever write a start ends, its migration has written none but its kind's documents
  (`WritesDocuments`); what they then hold is `SurvivesRestarts`, which TLC checks. No step leaves its part.

**`RestaurantProofs`** (`DispatchTheorem`, `SuppliesTheorem`, `AlertsTheorem`, `MoneyTheorem`,
`BooksKeptTheorem`) is about seven parts of `MCRestaurant` in the same way, for any number of
documents and requests. They rest on one fact about `Snapshots`: whatever nobody wrote behind a client's back is as it
read it (`Tracked`). A commit without conflict therefore writes each document over what it read
of it, and what the handler decided from its snapshot of *these*
documents still holds (`CommitWrites`). Documents it only read may have changed.

- `DispatchKept`: a delivery is created under the unique index, which looks at the
  database and not at the snapshot; whatever happens to it later writes it, and so
  decides from what it is. The invariant adds that only a delivered one names
  who delivered it, since nothing assigns a delivered one again. Riders' profiles are
  saved whole and without a transaction, so the last one wins, consistently.
- `SuppliesAccounted`: sums over all receipts and payments, as functions that are 0
  where another order or invoice is meant, so that a commit changes them in one place
  (`SumMoves`). Every receipt, return and payment writes the order or the
  invoice, so that the figures it computed from are current. The
  strengthening says that nothing was received for an order before its approval, that keys not used
  yet recorded nothing, that an absent or void invoice has nothing paid, and,
  of snapshots also, that posted payments are positive. Assumed: `Receipts` and
  `Payments` are finite, and there is an order and an invoice.
- `LowIsAlerted`: an upsert saves the alert it found, whether or not its status changes, for
  its `updatedAt` does. So a movement that leaves the item low conflicts with whatever
  closed that alert meanwhile, and one that commits leaves it unresolved; if it
  found none, it creates one. Nothing is needed of what the snapshot says but its shape,
  and neither is any relation of stock to alerts. Assumed: the suggested orders are
  finitely many (a request looks for one that it may add a line to).
- `MoneyKept`: refunds spread over many rows, and a request that decides from its
  snapshot of them writes none of those it only added up. It always writes the
  *check*, though, and so does whoever writes a row of it, with one exception: a reversal
  that finds `paidAmount` at zero saves a check it did not change. So a snapshot of a
  check that nobody wrote since shows its rows as they are, up to tenders reversed since
  (`Steady`, `Current`). That exception breaks `MoneyReversed` (a finding) and not
  `MoneyKept`, which counts what a refund may still draw from such a tender as held
  (`Late`): what is at stake of all rows is covered by what the checks say was paid
  (`Covered`). Each operation alone is shown to put no more at stake than it adds to that
  (`MoneyMove`), then interleaving is shown to add none (`Interleaved`, `MoneyAfter`), so each
  operation is proved once, against its own snapshot. The sums are exchanged
  (`SumByColumns`) to say that what a check was refunded is what its tenders gave, and
  taken in order (`TakenInOrder`) to say that `allocateRefund` hands out exactly the
  amount, newest tender first, and no tender's more than it has (`AllocationIs`). Assumed: checks
  and idempotency keys are finitely many, and keys are ordered as numbers.
- `BooksKept`, the counts: the unique index leaves one sheet active. Each line of a sheet carries
  the version of the item's ledger it was computed at, which every movement raises: as long as the
  item is at that version, its quantity is the line's and what is missing is the line's variance
  (`LineKnown`). That holds of the stored items and of those in a snapshot, which are no newer
  (`Older`), so the comparison of versions at approval tells whether the correction still
  explains the shelf. Assumed: `MaxOnHand` is positive.
- `BooksKept`, the months: no transaction helps here. A request remembers the number that it
  found free, all below it exist, and no revision is ever removed, so that the insert under the
  unique index either fails or leaves no gap (`MonthIInv`). A reopening from a stale read
  changes the status and no figure.
- `BooksKept`, the invoices: no number exceeds the counter, and each number that is taken writes
  the counter, so two printings conflict and neither skips one. What an order was
  invoiced at is written with its number and never after (`InvoicesIInv`).

**`GuestProofs`** (`GivenOnceTheorem`, `RestaurantTypeTheorem`) has the remaining three parts,
and, from the ten invariants, the types of all documents and snapshots.

- `GivenOnce`, the floor: `SeatedAlone` is about what is committed, and the request that gives a
  table away looked at its snapshot. It writes the table, so the table is as it read it, but the
  checks it found nowhere are documents it does not write. What connects the two is that a
  check *arrives* by writing something the request must meet (`SeatingIInv`): if
  a snapshot shows nobody at a table where there is a check that wrote the table it came to, the
  table was written behind that snapshot. A split adds a check without writing the
  table and keeps this because it saves the check that it splits, and so sees whether it is
  still there; without that save, which the model had left out, the invariant is not inductive
  and TLC finds two parties at a table with two slow clients. For a check that came without
  writing the table, by a move to one already said to be occupied or by the reversal of its
  payment, it is false (`NobodyElseThere`, above), and TLC violates `SeatedAlone` if
  `ReversePayment` claims that the check holds its table.
- `GivenOnce`, the customers: whoever takes a phone number, by a new profile, an edit, a merge or
  the migration, does it under the unique index while that is in force, and the
  migration builds it only over profiles that have no number twice (`CustomersIInv`).
  Assumed: profiles and sales are finitely many.
- `GivenOnce`, the coupons: each use writes its row and the coupon's counter together, so the
  counter is the number of rows, and a snapshot that misses a row is behind on the coupon as well
  (`CouponsIInv`). A use that commits therefore counted the rows that there are and read the limits
  that hold. An edit from a stale read writes the limits and not the counter.
  Assumed: orders are finitely many.
- `RestaurantTypeTheorem`: each part's invariant contains its `TypeOK`, and no step leaves its part.

## Only model-checked

Liveness (`DeadLeaseEnds`, `SweepsGoOn`) stays with TLC: fairness is about
`ENABLED`, which the provers do not handle. So does, for now, `SurvivesRestarts`: what a migration writes
is computed from all documents at once, and that it writes the same after any prefix of its writes is
an argument of its own for each kind. Every other safety property of the passing runs is a theorem.

## Abstractions

- **Data.** Amounts are small naturals; the rounding of quantities and money is
  not modelled. One ingredient stands for each. Payloads, names, and wording are
  left out; audit rows and notifications are modelled where they are state of
  their own (`AuditTrail`, `InventoryAlerts`) and left out elsewhere.
- **Transactions.** Everything a callback reads after `Begin` is from the
  snapshot; what it decides and what it commits is one step. The date is read in
  that step.
- **Stock.** Left out: FIFO and explicit lot-number filters, average cost, the
  legacy reversal of orders without ledger rows.
- **Orders.** In `OrderStock` money decides nothing: both outcomes of a payment
  are possible (`CheckMoney` has the amounts). Tables matter there only in
  `TableFree` and in which checks may be merged; `TableFree` is weaker than
  `occupyTable` (`Seating` has it). The order of rows (`createdAt`) is that of
  their ledger versions.
- **Checks.** A check's lines are as many units of its total; discounts,
  coupons, tax and tips are part of the total.
- **Reversals.** `OrderStock` and `TaxInvoices` leave out that a reversed payment reopens a
  completed order (`refunds.js:319`); `CheckMoney` and `Seating` have it. It moves no stock and
  numbers no invoice, and both modules have a reopened order by `reopenOrder`.
- **Month close.** The preview, several queries in the code, is read in one step.
- **Orders' quota.** The rows of split checks, which do not count, are left out.
- **Coupons.** Dates, scopes and minimum amounts may refuse any order; codes do
  not change. A use is an order placed with a coupon.
- **Tax invoices.** One branch and one year; money decides nothing (a
  cancellation is possible where `CheckMoney` may refuse it). The seller is one
  value, his PAN.
- **Online payments.** Money taken at the till on a web order is left out, a refund is
  of everything held, and `cooking` stands for all that follows acceptance, so
  the staff may do more here than the kitchen's transitions allow. Which payment
  row is upgraded or created is left out: each settlement counts one.
- **Procurement.** One line, priced 1; prices that differ from the order's are
  left out of the match.
- **Sockets.** One server; personal, restaurant and role rooms are left out. The
  room for purchasing's management is entered and left with that of the branch,
  by the socket's role, which never changes. Events other than kitchen tickets
  are emitted without the recheck.
- **Lease.** What a sweep writes is left out (`InventoryAlerts` has one alert of it).
- **Caches.** One server's cache, and other servers' writes; what several servers
  remember is several instances of it. Requests that waited for a load which was invalidated may take the
  answer of the one that follows it. Time is in ticks, no step of a request
  takes longer than `MaxWait`.
- **Client.** A list is its version and an answer the version it was read at.
  HTTP requests are never duplicated by the network, and sockets deliver in order.

## Not modelled

Reports and exports (they read, and hold nothing), the notifications' channels
and the replay buffer of events, branding and the onboarding check list,
expenses, the arithmetic of cost, price and discount, customers'
addresses, the creation of plans and roles, migrations that only build indexes,
seed and demo scripts, the client's layout and printing.

## Plan

Done, in order: `SchedulerLease` and its proofs; `PlanCeiling`, `QuotaGuard` and
proofs; `Transactions`, `StockStore`, `StockPlaces`, `StockMovements` and proofs;
`OrderStock`; `OnlinePayments` and proofs; `Snapshots`, `CheckMoney`,
`Deliveries`, `Seating`, `Customers`, `Coupons`, `TaxInvoices`, `Procurement`,
`StockCounts`, `InventoryAlerts`, `MonthClose` and their composition; `Accounts`, `Sockets`, the caches,
`Subscriptions`, `OrderQuota`, `Platform`, `AuditTrail`, `Migrations`,
`Catalogues`, the client's modules and theirs; `Sums`, the sums of quota and
stock, and the proofs of `OrderStock`, of the audit trail, the platform, the
subscription, the orders' quota, deliveries, purchasing, alerts and the money on checks,
of accounts, caches, sockets, forms, catalogues, pages and panes, of stock counts, month close and
tax invoices, of the floor, customers and coupons, and of the types of all.

Next, most important first:

1. `Migrations` (`SurvivesRestarts`), the safety property that no theorem states.
2. `OrderQuota` as a refinement of `PlanCeiling` in one month; the composition
   of `CheckMoney` with `OnlinePayments` on the order document.
