---------------------------- MODULE InventoryAlerts ----------------------------
(***************************************************************************)
(* Low-stock alerts of one item in one branch: raised by the movement that *)
(* empties the shelf (services/inventoryLedger.js), raised again by the    *)
(* reorder sweep from a plan it read earlier (services/reorderEngine.js),  *)
(* acknowledged and resolved by people outside any transaction             *)
(* (services/alerts.js), and the orders the plan suggests.                 *)
(***************************************************************************)
EXTENDS Naturals, FiniteSets, Functions, Snapshots

CONSTANTS
    Alerts,       \* notifications
    Reorders,     \* purchase orders placed from a suggestion
    MaxOnHand,
    ReorderPoint,
    MaxMoves      \* bound on the movements

ReorderAssumption ==
    /\ MaxOnHand \in Nat /\ MaxMoves \in Nat /\ ReorderPoint \in 1..MaxOnHand
    /\ IsFiniteSet(Reorders)

vars == <<db, snap, behind>>

\* "touched" flips when updatedAt does: an upsert that finds its alert writes it too.
AlertDocs ==
    [status : {"absent", "open", "acknowledged", "resolved"},
     type : {"low_stock", "out_of_stock"}, read : BOOLEAN, touched : BOOLEAN]

Databases ==
    [item : [{"it"} -> [quantity : 0..MaxOnHand, moves : 0..MaxMoves]],
     alert : [Alerts -> AlertDocs],
     order : [Reorders -> [open : BOOLEAN, quantity : Nat]]]

Unresolved(d, type) ==
    {a \in Alerts : d.alert[a].status \in {"open", "acknowledged"} /\ d.alert[a].type = type}

Unused(d) == {a \in Alerts : d.alert[a].status = "absent"}

Init ==
    /\ db = [item |-> [x \in {"it"} |-> [quantity |-> MaxOnHand, moves |-> 0]],
             alert |-> [a \in Alerts |-> [status |-> "absent", type |-> "low_stock",
                                          read |-> FALSE, touched |-> FALSE]],
             order |-> [o \in Reorders |-> [open |-> FALSE, quantity |-> 0]]]
    /\ OutsideTransactions

TypeFor(quantity) == IF quantity = 0 THEN "out_of_stock" ELSE "low_stock"

Raised(type) == [status |-> "open", type |-> type, read |-> FALSE, touched |-> FALSE]

\* Mutant: an alert that is already there is left as it is.
LeftAlone(doc) == doc

\* findOneAndUpdate with upsert, on a schema with timestamps
Upserted(doc) == [doc EXCEPT !.touched = ~@]

\* The alerts a movement leaves: one that exists is found, or one is inserted.
AlertsAfter(d, quantity) ==
    LET found == Unresolved(d, TypeFor(quantity))
    IN  IF quantity > ReorderPoint THEN {d.alert}
        ELSE IF found # {} THEN {[d.alert EXCEPT ![a] = Upserted(@)] : a \in found}
        ELSE {[d.alert EXCEPT ![a] = Raised(TypeFor(quantity))] : a \in Unused(d)}

\* The unique index on the condition of an unresolved alert.
IndexAllows(d, type) == Unresolved(d, type) = {}

\* writeInventoryMovement
Move(c, quantity) ==
    LET d == View(c)
        type == TypeFor(quantity)
    IN  /\ d.item["it"].moves < MaxMoves
        /\ quantity # d.item["it"].quantity
        /\ quantity <= ReorderPoint /\ Unresolved(d, type) = {} => IndexAllows(db, type)
        /\ \E alerts \in AlertsAfter(d, quantity) :
              Commit(c, [d EXCEPT
                  !.item["it"] = [quantity |-> quantity, moves |-> @.moves + 1],
                  !.alert = alerts])

Total(f) == SumFunction(f)

\* buildReorderPlan: what is on hand and on open orders, against the reorder point.
Available(d) ==
    d.item["it"].quantity
        + Total([o \in {p \in Reorders : d.order[p].open} |-> d.order[o].quantity])

Suggested(d) == IF Available(d) <= ReorderPoint THEN ReorderPoint + 1 - Available(d) ELSE 0

urgency(d) ==
    IF d.item["it"].quantity = 0 THEN "critical"
    ELSE IF Available(d) <= ReorderPoint THEN "reorder" ELSE "ok"

\* raiseReorderAlerts: the plan was read a while ago; whether its alert exists is
\* looked up now, and the index decides between two that insert.
RaiseReorder(c, a) ==
    LET type == TypeFor(View(c).item["it"].quantity)
    IN  /\ urgency(View(c)) # "ok"
        /\ IndexAllows(db, type)
        /\ db.alert[a].status = "absent"
        /\ Update(c, [db EXCEPT !.alert[a] = Raised(type)])

\* createSuggestedPurchaseOrder
Suggest(c, o) ==
    /\ Suggested(View(c)) > 0
    /\ ~View(c).order[o].open /\ View(c).order[o].quantity = 0
    /\ Commit(c, [View(c) EXCEPT !.order[o] = [open |-> TRUE,
                                               quantity |-> Suggested(View(c))]])

\* The order is received, closed or cancelled; goods that came are a movement of theirs.
OrderDone(c, o) ==
    /\ View(c).order[o].open
    /\ Commit(c, [View(c) EXCEPT !.order[o].open = FALSE])

\* acknowledgeAlert; the save fails when another unresolved alert says the same.
Acknowledge(c, a) ==
    LET doc == View(c).alert[a]
    IN  /\ doc.status = "open"
        /\ Unresolved(db, doc.type) \subseteq {a}
        /\ Save(c, [View(c) EXCEPT !.alert[a] =
              [doc EXCEPT !.status = "acknowledged", !.read = TRUE, !.touched = ~@]])

\* resolveAlert
Resolve(c, a) ==
    LET doc == View(c).alert[a]
    IN  /\ doc.status \in {"open", "acknowledged"}
        /\ Save(c, [View(c) EXCEPT !.alert[a] =
              [doc EXCEPT !.status = "resolved", !.read = TRUE, !.touched = ~@]])

\* markAlertRead
MarkRead(c, a) ==
    LET doc == View(c).alert[a]
    IN  /\ doc.status # "absent" /\ ~doc.read
        /\ Save(c, [View(c) EXCEPT !.alert[a] = [doc EXCEPT !.read = TRUE, !.touched = ~@]])

\* markAlertsRead
MarkAllRead ==
    /\ \E a \in Alerts : db.alert[a].status # "absent" /\ ~db.alert[a].read
    /\ Update(Prompt, [db EXCEPT !.alert = [a \in Alerts |->
          IF db.alert[a].status = "absent" \/ db.alert[a].read THEN db.alert[a]
          ELSE [db.alert[a] EXCEPT !.read = TRUE, !.touched = ~@]]])

Refused(c) == End(c)

AlertStep(c, a) == Acknowledge(c, a) \/ Resolve(c, a) \/ MarkRead(c, a) \/ RaiseReorder(c, a)

Next ==
    \/ \E c \in Clients : Begin(c) \/ Refused(c)
    \/ MarkAllRead
    \/ \E c \in Callers :
        /\ Reads(c)
        /\ \/ \E quantity \in 0..MaxOnHand : Move(c, quantity)
           \/ \E a \in Alerts : AlertStep(c, a)
           \/ \E o \in Reorders : Suggest(c, o) \/ OrderDone(c, o)

Spec == Init /\ [][Next]_vars

-------------------------------------------------------------------------------
TypeOK ==
    /\ db \in Databases
    /\ snap \in [Clients -> Databases \cup {NoSnapshot}]

\* The movement that leaves the item low leaves an alert that nobody has resolved,
\* even when somebody resolves the one it found in the meantime.
LowAlerts ==
    db'.item # db.item /\ db'.item["it"].quantity <= ReorderPoint
        => Unresolved(db', TypeFor(db'.item["it"].quantity)) # {}

LowIsAlerted == [][LowAlerts]_vars

\* alerts.js:453: "A resolved alert cannot be acknowledged".
StaysResolved ==
    \A a \in Alerts : db.alert[a].status = "resolved" => db'.alert[a].status = "resolved"

ResolvedStaysResolved == [][StaysResolved]_vars
===============================================================================
