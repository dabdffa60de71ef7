-------------------------------- MODULE Seating --------------------------------
(***************************************************************************)
(* The floor of a restaurant: tables, the open checks at them and the      *)
(* bookings (services/tables.js, reservations.js, routes/tables.js).       *)
(*                                                                         *)
(* Checks and bookings change in transactions; a table's status is also    *)
(* set by hand, read and saved without one.  Money is in CheckMoney.       *)
(***************************************************************************)
EXTENDS Naturals, FiniteSets, Snapshots

CONSTANTS
    Tables,
    NoTable,      \* of what does not exist yet
    Checks,
    Bookings,
    Windows       \* pairs of instants that may be booked

vars == <<db, snap, behind>>

TABLE_STATUSES == {"available", "occupied", "reserved", "cleaning", "disabled"}

TABLE_TRANSITIONS ==
    {<<"available", "occupied">>, <<"available", "reserved">>,
     <<"available", "cleaning">>, <<"available", "disabled">>,
     <<"reserved", "occupied">>, <<"reserved", "available">>, <<"reserved", "disabled">>,
     <<"occupied", "cleaning">>, <<"occupied", "available">>,
     <<"cleaning", "available">>, <<"cleaning", "disabled">>,
     <<"disabled", "available">>}

RESERVATION_TRANSITIONS ==
    {<<"booked", "confirmed">>, <<"booked", "seated">>, <<"booked", "cancelled">>,
     <<"booked", "no_show">>, <<"confirmed", "seated">>, <<"confirmed", "cancelled">>,
     <<"confirmed", "no_show">>, <<"seated", "completed">>, <<"seated", "cancelled">>}

ACTIVE_STATUSES == {"booked", "confirmed", "seated"}

\* "gone" is a check that was cancelled, refunded or merged away; holds is history: the table
\* was written when the check came, or came back, to it.
CheckDocs ==
    [status : {"absent", "open", "completed", "gone"}, table : Tables \cup {NoTable},
     holds : BOOLEAN]

BookingDocs ==
    [status : ACTIVE_STATUSES \cup {"absent", "completed", "cancelled", "no_show"},
     table : Tables \cup {NoTable}, window : Windows]

Databases ==
    [table : [Tables -> [status : TABLE_STATUSES]], check : [Checks -> CheckDocs],
     booking : [Bookings -> BookingDocs], counter : [{"year"} -> [value : Nat]]]

Init ==
    /\ db = [table |-> [t \in Tables |-> [status |-> "available"]],
             check |-> [k \in Checks |-> [status |-> "absent", table |-> NoTable,
                                          holds |-> FALSE]],
             booking |-> [b \in Bookings |-> [status |-> "absent", table |-> NoTable,
                                              window |-> CHOOSE w \in Windows : TRUE]],
             counter |-> [y \in {"year"} |-> [value |-> 0]]]
    /\ OutsideTransactions

\* findOpenTableOrder
OpenChecks(d, t) == {k \in Checks : d.check[k].status = "open" /\ d.check[k].table = t}

SetTable(d, t, status) == [d EXCEPT !.table[t].status = status]

\* Mutant: the status of the table says it all.
StatusSays(d, t) == d.table[t].status \in {"available", "reserved"}

\* occupyTable
CanOccupy(d, t) ==
    d.table[t].status \in {"available", "reserved"} /\ OpenChecks(d, t) = {}

\* releaseTable, with the checks that stay
Released(d, t) ==
    IF d.table[t].status = "occupied" /\ OpenChecks(d, t) = {}
    THEN SetTable(d, t, "cleaning") ELSE d

\* claimTableForOrder: a table that is occupied without a check is taken as it is.
CanClaim(d, t) ==
    d.table[t].status \in {"available", "reserved", "occupied"} /\ OpenChecks(d, t) = {}

-------------------------------------------------------------------------------
(* Checks.                                                                 *)

\* POST /orders for a table
OpenCheck(c, k, t) ==
    /\ View(c).check[k].status = "absent"
    /\ CanOccupy(View(c), t)
    /\ Commit(c, SetTable([View(c) EXCEPT !.check[k] = [status |-> "open", table |-> t,
                                                        holds |-> TRUE]],
                          t, "occupied"))

\* A check is settled, cancelled or, once it was settled, refunded: applyPayment, PATCH
\* /orders/:id/status
CloseCheck(c, k, status) ==
    /\ <<View(c).check[k].status, status>> \in
          {<<"open", "completed">>, <<"open", "gone">>, <<"completed", "gone">>}
    /\ Commit(c, Released([View(c) EXCEPT !.check[k].status = status],
                          View(c).check[k].table))

\* splitOrder: the other part of the party, at the same table; each part may be paid already.
SplitCheck(c, k, child, status, other) ==
    LET doc == View(c).check[k]
        split == [View(c) EXCEPT !.check[k].status = status,
                                 !.check[child] = [doc EXCEPT !.status = other]]
    IN  /\ doc.status = "open" /\ View(c).check[child].status = "absent"
        /\ CommitSaved(c, IF "completed" \in {status, other} THEN Released(split, doc.table)
                          ELSE split, {<<"check", k>>})

\* moveOrderToTable: the first open check of the table, whichever that is
MoveCheck(c, from, to) ==
    \E k \in OpenChecks(View(c), from) :
        LET moved == [View(c) EXCEPT
                !.check[k].table = to,
                !.check[k].holds = View(c).table[to].status # "occupied"]
        IN  /\ from # to
            /\ CanClaim(View(c), to)
            /\ Commit(c, Released(SetTable(moved, to, "occupied"), from))

\* mergeTableOrders
MergeChecks(c, from, into) ==
    \E k \in OpenChecks(View(c), from), dest \in OpenChecks(View(c), into) :
        /\ from # into
        /\ CommitSaved(c, Released([View(c) EXCEPT !.check[k].status = "gone"], from),
                       {<<"check", dest>>})

\* reopenOrder: re-seated, even from cleaning, unless the table was taken out of service.
ReopenCheck(c, k) ==
    LET t == View(c).check[k].table
        reopened == [View(c) EXCEPT
            !.check[k].status = "open",
            !.check[k].holds = View(c).table[t].status \notin {"occupied", "disabled"}]
    IN  /\ View(c).check[k].status = "completed"
        /\ OpenChecks(View(c), t) = {}
        /\ Commit(c, IF View(c).table[t].status = "disabled" THEN reopened
                     ELSE SetTable(reopened, t, "occupied"))

\* reversePayment: the check is owed for again at its table, whatever that is used for by now.
ReversePayment(c, k) ==
    /\ View(c).check[k].status = "completed"
    /\ Commit(c, [View(c) EXCEPT !.check[k].status = "open", !.check[k].holds = FALSE])

\* refundOrder, in full: the table is left as it is.
RefundCheck(c, k) ==
    /\ View(c).check[k].status = "completed"
    /\ Commit(c, [View(c) EXCEPT !.check[k].status = "gone"])

-------------------------------------------------------------------------------
(* Tables by hand.                                                         *)

\* applyTableStatus, outside any transaction
PatchTable(c, t, status) ==
    /\ <<View(c).table[t].status, status>> \in TABLE_TRANSITIONS
    /\ status # "occupied" => OpenChecks(View(c), t) = {}
    /\ Save(c, SetTable(View(c), t, status))

\* archiveTable: the table was read before its transaction began.
ArchiveTable(c, t) ==
    /\ View(c).table[t].status \notin {"occupied", "disabled"}
    /\ OpenChecks(db, t) = {}
    /\ Save(c, SetTable(View(c), t, "disabled"))

-------------------------------------------------------------------------------
(* Bookings.                                                               *)

overlaps(v, w) == v[1] < w[2] /\ w[1] < v[2]

\* assertTableAvailable
TableAvailable(d, t, window, except) ==
    /\ d.table[t].status # "disabled"
    /\ \A b \in Bookings \ except :
          d.booking[b].table = t /\ d.booking[b].status \in ACTIVE_STATUSES
             => ~overlaps(d.booking[b].window, window)

\* createReservation; nextReference writes the counter of the year.
Book(c, b, t, window) ==
    LET d == View(c)
    IN  /\ d.booking[b].status = "absent"
        /\ TableAvailable(d, t, window, {})
        /\ Commit(c, [d EXCEPT
              !.booking[b] = [status |-> "booked", table |-> t, window |-> window],
              !.counter["year"].value = @ + 1])

\* updateReservation
Amend(c, b, t, window) ==
    LET d == View(c)
    IN  /\ d.booking[b].status \in ACTIVE_STATUSES
        /\ TableAvailable(d, t, window, {b})
        /\ Commit(c, [d EXCEPT !.booking[b].table = t, !.booking[b].window = window])

\* setReservationStatus
SetBooking(c, b, status) ==
    LET d == View(c)
        t == d.booking[b].table
        set == [d EXCEPT !.booking[b].status = status]
    IN  /\ <<d.booking[b].status, status>> \in RESERVATION_TRANSITIONS
        /\ status = "seated" => CanOccupy(d, t)
        /\ Commit(c, CASE status = "seated" -> SetTable(set, t, "occupied")
                       [] status \in {"cancelled", "no_show"} /\ d.table[t].status = "reserved" ->
                              SetTable(set, t, "available")
                       [] OTHER -> set)

\* holdTableForReservation
HoldTable(c, b) ==
    LET t == View(c).booking[b].table
    IN  /\ View(c).booking[b].status \in ACTIVE_STATUSES
        /\ View(c).table[t].status = "available"
        /\ Commit(c, SetTable(View(c), t, "reserved"))

Refused(c) == End(c)

CheckStep(c) ==
    \/ \E k \in Checks, t \in Tables : OpenCheck(c, k, t)
    \/ \E k \in Checks, status \in {"completed", "gone"} : CloseCheck(c, k, status)
    \/ \E k, child \in Checks, status, other \in {"open", "completed"} :
          SplitCheck(c, k, child, status, other)
    \/ \E k \in Checks : ReopenCheck(c, k) \/ ReversePayment(c, k) \/ RefundCheck(c, k)

TableStep(c) ==
    \/ \E from, to \in Tables : MoveCheck(c, from, to) \/ MergeChecks(c, from, to)
    \/ \E t \in Tables, status \in TABLE_STATUSES : PatchTable(c, t, status)
    \/ \E t \in Tables : ArchiveTable(c, t)

BookingStep(c, b) ==
    \/ \E t \in Tables, w \in Windows : Book(c, b, t, w) \/ Amend(c, b, t, w)
    \/ \E status \in {"confirmed", "seated", "completed", "cancelled", "no_show"} :
          SetBooking(c, b, status)
    \/ HoldTable(c, b)

Next ==
    \/ \E c \in Clients : Begin(c) \/ Refused(c)
    \/ \E c \in {d \in Callers : Reads(d)} :
          CheckStep(c) \/ TableStep(c) \/ \E b \in Bookings : BookingStep(c, b)

Spec == Init /\ [][Next]_vars

-------------------------------------------------------------------------------
TypeOK ==
    /\ db \in Databases
    /\ snap \in [Clients -> Databases \cup {NoSnapshot}]

\* A party is seated at the table: a new check's, or a booking's.
GivenAway(t) ==
    /\ db.table[t].status # "occupied" /\ db'.table[t].status = "occupied"
    /\ (\E b \in Bookings : db.booking[b].status # "seated"
                               /\ db'.booking[b].status = "seated")
       \/ (\E k \in Checks : db.check[k].status = "absent"
                                /\ db'.check[k].status = "open"
                                /\ db'.check[k].table = t)

\* A party is given a table, by a new check or a booking that is seated, only when no other
\* party has a check there, even when its status was set by hand from a stale read.  But for
\* one that came, or came back, without the table being written: to one that was said to be
\* occupied or out of service already, or because its payment was reversed.
SeatedAlone ==
    \A t \in Tables : GivenAway(t) => \A k \in OpenChecks(db, t) : ~db.check[k].holds

\* tables.js:122: "Table already has an open order".  A party that moves to a table which its
\* snapshot says is occupied does not write the table (tables.js:275), nor does one whose
\* payment is reversed (refunds.js:319): neither conflicts with one that is seated there once
\* the table is available again.
NobodyElseThere == \A t \in Tables : GivenAway(t) => OpenChecks(db, t) = {}

\* README:472: "Two bookings whose windows overlap on the same table are rejected".
NoDoubleBooking ==
    \A a, b \in Bookings :
        a # b /\ db.booking[a].table = db.booking[b].table
        /\ {db.booking[a].status, db.booking[b].status} \subseteq ACTIVE_STATUSES
           => ~overlaps(db.booking[a].window, db.booking[b].window)

\* README:1301: an occupied table has a "Party seated / open check"; a table with an
\* open check is occupied.
OpenChecksOccupy ==
    \A t \in Tables : OpenChecks(db, t) # {} => db.table[t].status = "occupied"
===============================================================================
