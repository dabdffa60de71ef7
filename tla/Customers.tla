------------------------------- MODULE Customers -------------------------------
(***************************************************************************)
(* A restaurant's customers (services/customers.js): one profile for each  *)
(* phone number, shared by the till, the website and the back office; the  *)
(* merging of two profiles by staff; and the migration that every start of *)
(* a server runs (customerMigration.js), beside servers that are up.       *)
(*                                                                         *)
(* Names, addresses, preferences and the active flag are left out.  The unique index is a   *)
(* document of its own, because the migration drops it and builds it.      *)
(***************************************************************************)
EXTENDS Naturals, FiniteSets, Functions, Snapshots

CONSTANTS
    Profiles,     \* customers, numbered by the time of their creation
    NoProfile,
    Phones,
    NoPhone,
    Sales,        \* orders
    MaxPoints

CustomersAssumption ==
    /\ IsFiniteSet(Profiles) /\ Profiles \subseteq Nat /\ NoProfile \notin Profiles
    /\ NoPhone \notin Phones /\ IsFiniteSet(Sales) /\ MaxPoints \in Nat

vars == <<db, snap, behind>>

ProfileDocs ==
    [exists : BOOLEAN, phone : Phones \cup {NoPhone},
     phoneKey : Phones \cup {NoPhone}, mergedInto : Profiles \cup {NoProfile},
     points : Nat, spend : Nat]

SaleDocs == [status : {"absent", "open", "completed"}, customer : Profiles \cup {NoProfile}]

Databases ==
    [profile : [Profiles -> ProfileDocs], sale : [Sales -> SaleDocs],
     index : [{"phone"} -> [built : BOOLEAN]]]

NewProfile(phone) ==
    [exists |-> TRUE, phone |-> phone, phoneKey |-> phone, mergedInto |-> NoProfile,
     points |-> 0, spend |-> 0]

Unused == [NewProfile(NoPhone) EXCEPT !.exists = FALSE]

Init ==
    /\ db = [profile |-> [p \in Profiles |-> Unused],
             sale |-> [s \in Sales |-> [status |-> "absent", customer |-> NoProfile]],
             index |-> [i \in {"phone"} |-> [built |-> TRUE]]]
    /\ OutsideTransactions

Holders(d, phone) == {p \in Profiles : d.profile[p].phoneKey = phone}

\* Mutant: there is no index.
Unindexed(p, phone) == TRUE

\* customer_restaurant_phone
PhoneFree(p, phone) ==
    db.index["phone"].built /\ phone # NoPhone => Holders(db, phone) \subseteq {p}

\* What a save of the model writes: the key is derived again from the phone.
deriveCustomerScope(doc) == [doc EXCEPT !.phoneKey = doc.phone]

\* Only a key that changes is written, and looked up in the index.
KeyAllowed(c, p, phone) ==
    phone # View(c).profile[p].phoneKey => PhoneFree(p, phone)

SaveProfile(c, p, doc) ==
    /\ KeyAllowed(c, p, doc.phone)
    /\ Save(c, [View(c) EXCEPT !.profile[p] = deriveCustomerScope(doc)])

-------------------------------------------------------------------------------
(* Profiles.                                                               *)

\* The next profile that is not used.
Fresh(d, p) == ~d.profile[p].exists /\ \A q \in Profiles : q < p => d.profile[q].exists

\* createCustomer, and findOrCreateCustomer for a phone it did not find: the loser of a
\* race is answered with the winner.
CreateCustomer(c, p, phone) ==
    /\ Holders(View(c), phone) = {}
    /\ Fresh(db, p)
    /\ PhoneFree(p, phone)
    /\ Save(c, [View(c) EXCEPT !.profile[p] = NewProfile(phone)])

\* updateCustomer, when the phone changes
UpdatePhone(c, p, phone) ==
    /\ View(c).profile[p].exists
    /\ Holders(View(c), phone) \subseteq {p}
    /\ SaveProfile(c, p, [View(c).profile[p] EXCEPT !.phone = phone])

\* setCustomerActive: of what is modelled, the save touches the key.
SetActive(c, p) ==
    /\ View(c).profile[p].exists
    /\ SaveProfile(c, p, View(c).profile[p])

\* adjustLoyaltyPoints
AdjustPoints(c, p, points) ==
    /\ View(c).profile[p].exists
    /\ SaveProfile(c, p, [View(c).profile[p] EXCEPT !.points = points])

Spend(d, p) ==
    Cardinality({s \in Sales : d.sale[s] = [status |-> "completed", customer |-> p]})

\* recalculateCustomerStats, after a payment, a refund or by hand
Recalculate(c, p) ==
    /\ View(c).profile[p].exists
    /\ SaveProfile(c, p, [View(c).profile[p] EXCEPT !.spend = Spend(View(c), p)])

\* Orders of two profiles become one's.
Repointed(d, from, into) ==
    [s \in Sales |-> IF d.sale[s].customer = from
                     THEN [d.sale[s] EXCEPT !.customer = into] ELSE d.sale[s]]

Tombstone(doc, into) ==
    [doc EXCEPT !.mergedInto = into, !.phoneKey = NoPhone]

\* mergeCustomers: both were read before the transaction, which Save stands for; the
\* statistics are calculated again once it is over.
MergeCustomers(c, from, into) ==
    LET d == View(c)
        merged == [d.profile[into] EXCEPT !.points = @ + d.profile[from].points]
    IN  /\ from # into
        /\ d.profile[from].exists /\ d.profile[into].exists
        /\ merged.points <= MaxPoints
        /\ KeyAllowed(c, into, merged.phone)
        /\ Save(c, [d EXCEPT !.sale = Repointed(d, from, into),
                             !.profile[into] = deriveCustomerScope(merged),
                             !.profile[from] = Tombstone(@, into)])

\* An order is taken for a profile, whoever that is by now, and is settled.
Sell(s, p) ==
    /\ db.sale[s].status = "absent" /\ db.profile[p].exists
    /\ Commit(Prompt, [db EXCEPT !.sale[s] = [status |-> "open", customer |-> p]])

Settle(s) ==
    /\ db.sale[s].status = "open"
    /\ Commit(Prompt, [db EXCEPT !.sale[s].status = "completed"])

-------------------------------------------------------------------------------
(* migrateCustomers, whenever a server starts.                             *)

\* The index is dropped, and every key is derived from the phone beside it.
StartMigration ==
    Commit(Prompt, [db EXCEPT
        !.index["phone"].built = FALSE,
        !.profile = [p \in Profiles |-> deriveCustomerScope(db.profile[p])]])

Group(d, p) == Holders(d, d.profile[p].phoneKey)

richness(doc) == IF doc.spend > 0 THEN 2 ELSE 0

\* The survivor of a group in the list that was loaded.
Survives(d, p) ==
    /\ d.profile[p].phoneKey # NoPhone
    /\ \A q \in Group(d, p) \ {p} :
          \/ richness(d.profile[p]) > richness(d.profile[q])
          \/ richness(d.profile[p]) = richness(d.profile[q]) /\ p < q

GroupPoints(d, p) == SumFunction([q \in Group(d, p) |-> d.profile[q].points])

\* A duplicate is retired, as it is stored now.
MergeDuplicate(c, p, q) ==
    /\ ~View(c).index["phone"].built
    /\ Survives(View(c), p)
    /\ q \in Group(View(c), p) \ {p}
    /\ Update(c, [db EXCEPT !.sale = Repointed(db, q, p), !.profile[q] = Tombstone(@, p)])

\* Then the survivor is given the points of all, as they were loaded.
WriteSurvivor(c, p) ==
    /\ ~View(c).index["phone"].built
    /\ Survives(View(c), p) /\ Group(View(c), p) # {p}
    /\ \A q \in Group(View(c), p) \ {p} : db.profile[q].mergedInto = p
    /\ GroupPoints(View(c), p) <= MaxPoints
    /\ Update(c, [db EXCEPT !.profile[p].points = GroupPoints(View(c), p)])

\* createIndex fails while two profiles have one key.
BuildIndex(c) ==
    /\ ~View(c).index["phone"].built
    /\ \A phone \in Phones : Cardinality(Holders(db, phone)) <= 1
    /\ Save(c, [View(c) EXCEPT !.index["phone"].built = TRUE])

\* A server dies, or a request is refused.
Refused(c) == End(c)

ProfileStep(c, p) ==
    \/ \E phone \in Phones : CreateCustomer(c, p, phone) \/ UpdatePhone(c, p, phone)
    \/ SetActive(c, p)
    \/ \E points \in 0..MaxPoints : AdjustPoints(c, p, points)
    \/ Recalculate(c, p)
    \/ \E into \in Profiles : MergeCustomers(c, p, into)

MigrationStep(c) ==
    \/ \E p, q \in Profiles : MergeDuplicate(c, p, q)
    \/ \E p \in Profiles : WriteSurvivor(c, p)
    \/ BuildIndex(c)

Next ==
    \/ \E c \in Clients : Begin(c) \/ Refused(c)
    \/ \E s \in Sales : Settle(s) \/ \E p \in Profiles : Sell(s, p)
    \/ StartMigration
    \/ \E c \in {d \in Callers : Reads(d)}, p \in Profiles : ProfileStep(c, p)
    \/ \E c \in {d \in Clients : Reads(d)} : MigrationStep(c)

Spec == Init /\ [][Next]_vars

-------------------------------------------------------------------------------
TypeOK ==
    /\ db \in Databases
    /\ snap \in [Clients -> Databases \cup {NoSnapshot}]

\* However the till, the website and a migration that is built again interleave, a phone
\* number finds one profile, and merging leaves no order with a profile that does not exist.
OneCustomerPerPhone ==
    /\ db.index["phone"].built =>
          \A phone \in Phones : Cardinality(Holders(db, phone)) <= 1
    /\ \A s \in Sales : db.sale[s].status # "absent" => db.profile[db.sale[s].customer].exists

\* customerMigration.js:14: "it converges and does nothing on a clean database": a group
\* whose duplicates were all merged before keeps its points.
MigrationConverges ==
    \A c \in Clients, p \in Profiles :
        Reads(c) /\ WriteSurvivor(c, p)
        /\ (\A q \in Group(View(c), p) \ {p} : View(c).profile[q].mergedInto = p)
           => db'.profile[p].points = View(c).profile[p].points
===============================================================================
