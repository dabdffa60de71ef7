------------------------------ MODULE MonthClose -------------------------------
(***************************************************************************)
(* Closing one past month of one branch (services/monthClose.js): a        *)
(* preview is read, the number of the next revision is read after it, and  *)
(* the revision is inserted, with no transaction around the three; orders  *)
(* of the month go on being settled and reopened meanwhile.                *)
(*                                                                         *)
(* The revision a request found free is kept in "request", a collection of *)
(* local variables.                                                        *)
(***************************************************************************)
EXTENDS Naturals, FiniteSets, Functions, Snapshots

CONSTANTS
    Sales,           \* orders that were placed in the month
    MaxRevisions     \* bound on the revisions

MonthAssumption == IsFiniteSet(Sales) /\ MaxRevisions \in Nat

vars == <<db, snap, behind>>

Revisions == 1..MaxRevisions

Databases ==
    [sale : [Sales -> [status : {"open", "completed", "cancelled"}]],
     month : [Revisions -> [status : {"absent", "closed", "reopened"}, revenue : Nat]],
     request : [Clients -> [revision : Nat]]]

Init ==
    /\ db = [sale |-> [o \in Sales |-> [status |-> "open"]],
             month |-> [r \in Revisions |-> [status |-> "absent", revenue |-> 0]],
             request |-> [c \in Clients |-> [revision |-> 0]]]
    /\ OutsideTransactions

\* Orders of the month are settled, cancelled, and reopened, at any time.
Settle(o, status) ==
    /\ db.sale[o].status # status
    /\ db.sale[o].status # "open" => db.sale[o].status = "completed" /\ status = "open"
    /\ Update(Prompt, [db EXCEPT !.sale[o].status = status])

Closed(d) == {r \in Revisions : d.month[r].status = "closed"}

\* previewMonthClose: its blockers, of which two are modelled.
blockers(d) == {o \in Sales : d.sale[o].status = "open"} \cup Closed(d)

\* buildPnl: the completed orders of the month, one unit each.
Revenue(d) == Cardinality({o \in Sales : d.sale[o].status = "completed"})

\* closeMonth reads the latest revision; the request that read the preview goes on.
NextRevision(c) ==
    LET taken == {r \in Revisions : db.month[r].status # "absent"}
    IN  /\ blockers(View(c)) = {}
        /\ db.request[c].revision = 0
        /\ Update(c, [db EXCEPT !.request[c].revision = Cardinality(taken) + 1])

\* Mutant: an upsert on the month and its revision.
Overwrites(r) == TRUE

\* The unique index monthly_snapshot_restaurant_revision.
RevisionFree(r) == db.month[r].status = "absent"

\* ... and inserts it, closed, with the figures of the preview.
Close(c) ==
    LET r == db.request[c].revision
    IN  /\ r \in Revisions
        /\ RevisionFree(r)
        /\ db' = [db EXCEPT !.month[r] = [status |-> "closed", revenue |-> Revenue(View(c))],
                            !.request[c].revision = 0]
        /\ snap' = Ended(c)
        /\ behind' = Overtaken(c, Written(db, db'))

\* Answered 409, by a blocker or by the index.
CloseRefused(c) ==
    /\ db' = [db EXCEPT !.request[c].revision = 0]
    /\ snap' = Ended(c)
    /\ behind' = Overtaken(c, {})

\* reopenMonth
Reopen(c, r) ==
    /\ View(c).month[r].status = "closed"
    /\ c \in Clients => db.request[c].revision = 0
    /\ Save(c, [View(c) EXCEPT !.month[r].status = "reopened"])

Next ==
    \/ \E c \in Clients : Begin(c) \/ (snap[c] # NoSnapshot /\ CloseRefused(c))
    \/ \E o \in Sales, status \in {"open", "completed", "cancelled"} : Settle(o, status)
    \/ \E c \in {d \in Clients : Reads(d)} : NextRevision(c) \/ Close(c)
    \/ \E c \in {d \in Callers : Reads(d)}, r \in Revisions : Reopen(c, r)

Spec == Init /\ [][Next]_vars

-------------------------------------------------------------------------------
TypeOK ==
    /\ db \in Databases
    /\ snap \in [Clients -> Databases \cup {NoSnapshot}]

\* A revision, once closed, keeps its figures, and a reopened one stays reopened;
\* the revisions of a month have no gap.
KeepsRevisions ==
    \A r \in Revisions :
        /\ db.month[r].status # "absent" =>
              /\ db'.month[r].revenue = db.month[r].revenue
              /\ db.month[r].status = "reopened" => db'.month[r].status = "reopened"
        /\ db'.month[r].status # "absent" =>
              \A q \in 1..r : db'.month[q].status # "absent"

RevisionsKept == [][KeepsRevisions]_vars

\* monthClose.js:240: "This month was closed by another request"; README:3684:
\* "Reopening preserves the prior revision and the next close creates a new audited
\* revision".  One revision is closed at a time.
OneClosedRevision == Cardinality(Closed(db)) <= 1
===============================================================================
