--------------------------------- MODULE Panes ---------------------------------
(***************************************************************************)
(* A page with a list on one side and one document of it on the other: the *)
(* document is asked for when it is chosen, and by the time an answer      *)
(* comes another may have been chosen (client/src: Purchasing, StockOps,   *)
(* SupplierCatalog, PosAdmin, Customers, Recipes, Ingredients).            *)
(***************************************************************************)
EXTENDS FiniteSets

CONSTANTS
    Docs,
    NoDoc,
    Requests,     \* bounds what a page has asked for at a time
    NoRequest

PanesAssumption == NoDoc \notin Docs /\ NoRequest \notin Requests

VARIABLES
    pane,
    asks     \* the document each request is about, and what it was made for

vars == <<pane, asks>>

-------------------------------------------------------------------------------
(* The panes.  guards: an answer counts only if nothing was asked later.   *)
(* clears: choosing another document empties the pane.  empties: so does   *)
(* an error, if the document was asked for aloud.  waits: which requests   *)
(* say that the pane is loading, and ends: which take that back.  hides:   *)
(* nothing can be done meanwhile.  says: whose errors are shown.  after:   *)
(* how the document is asked for once an action on it is done.  acts:      *)
(* which document a button of the pane names.                              *)

\* openReceive, refreshOpenHistory and postReturn, which opens its order again
OrderHistory == [guards |-> TRUE, clears |-> FALSE, empties |-> TRUE,
                 waits |-> {"open", "event"}, ends |-> {"open", "event"}, hides |-> TRUE,
                 says |-> {"open"}, after |-> "opens", acts |-> "selected"]

\* openInvoicePayments, refreshInvoicePayments, recordPayment and reversePayment, whose list
\* replaces the one that is shown, whatever was chosen meanwhile
InvoicePayments == [guards |-> TRUE, clears |-> TRUE, empties |-> TRUE,
                    waits |-> {"open"}, ends |-> {"open"}, hides |-> TRUE,
                    says |-> {"open", "after"}, after |-> "fills", acts |-> "selected"]

\* The statement that stays is headed with its own supplier.  After an invoice or payment the
\* statement is asked for that was selected when it was sent.
loadStatement == [guards |-> TRUE, clears |-> FALSE, empties |-> TRUE,
                  waits |-> {"open", "after"}, ends |-> {"open", "event", "after"},
                  hides |-> TRUE, says |-> {"open", "event", "after"}, after |-> "loads",
                  acts |-> "shown"]

loadSupplierCatalog == [guards |-> TRUE, clears |-> TRUE, empties |-> TRUE,
                        waits |-> {"open"}, ends |-> {"open", "event"}, hides |-> TRUE,
                        says |-> {"open"}, after |-> "none", acts |-> "selected"]

\* The panes whose answers count whenever they come
Unguarded == [loadSupplierCatalog EXCEPT
                 !.guards = FALSE, !.clears = FALSE, !.empties = FALSE,
                 !.waits = {}, !.ends = {}, !.hides = FALSE]

openCount == [Unguarded EXCEPT
                 !.waits = {"open"}, !.ends = {"open"}, !.hides = TRUE, !.acts = "shown"]

openOrder == [Unguarded EXCEPT !.after = "opens"]

openCustomer == [Unguarded EXCEPT !.after = "opens"]

showHistory == [Unguarded EXCEPT !.clears = TRUE, !.waits = {"open"}, !.ends = {"open"}]

openDetail == [Unguarded EXCEPT !.acts = "shown"]

-------------------------------------------------------------------------------
(* A request: a document opened, reloaded because of an event, acted on,   *)
(* or asked for after the action.                                          *)
Idle == [doc |-> NoDoc, by |-> "none"]

Asks == [doc : Docs, by : {"open", "event", "action", "after"}]

\* latest: the request under way whose answer would count, if any.  failed: how the last one
\* that counted ended, and whether the page says so.  stray, a history: what is shown
\* was asked for after an action, when another document had been chosen.
PaneDocs(kinds) ==
    [kind : kinds, selected : Docs \cup {NoDoc}, shown : Docs \cup {NoDoc},
     latest : Requests \cup {NoRequest}, waiting : BOOLEAN,
     failed : {"no", "said", "unsaid"}, stray : BOOLEAN]

Init(kinds) ==
    /\ pane \in [kind : kinds, selected : {NoDoc}, shown : {NoDoc}, latest : {NoRequest},
                 waiting : {FALSE}, failed : {"no"}, stray : {FALSE}]
    /\ asks = [r \in Requests |-> Idle]

\* A document is asked for, by a pane that otherwise becomes p.
Ask(r, doc, by, p) ==
    /\ pane' = [p EXCEPT !.latest = r, !.waiting = @ \/ by \in p.kind.waits, !.failed = "no"]
    /\ asks' = [asks EXCEPT ![r] = [doc |-> doc, by |-> by]]

Chosen(doc) ==
    [pane EXCEPT !.selected = doc,
                 !.shown = IF pane.kind.clears /\ doc # pane.selected THEN NoDoc ELSE @]

Select(r, doc) ==
    /\ asks[r] = Idle
    /\ Ask(r, doc, "open", Chosen(doc))

\* An event about the document that is selected
Refresh(r) ==
    /\ asks[r] = Idle /\ pane.selected # NoDoc
    /\ Ask(r, pane.selected, "event", pane)

Close ==
    /\ pane' = [pane EXCEPT !.selected = NoDoc, !.shown = NoDoc, !.latest = NoRequest,
                            !.waiting = FALSE, !.failed = "no", !.stray = FALSE]
    /\ UNCHANGED asks

\* setBusy: one action at a time, until its document has been asked for again.
Busy == \E r \in Requests : asks[r].by \in {"action", "after"}

\* A payment, return or receipt is sent, for the document that is selected.
Act(r) ==
    /\ asks[r] = Idle /\ ~Busy
    /\ pane.kind.after # "none" /\ pane.selected # NoDoc
    /\ asks' = [asks EXCEPT ![r] = [doc |-> pane.selected, by |-> "action"]]
    /\ UNCHANGED pane

\* It is done, and its document is asked for, whichever is selected by now.
Done(r) ==
    LET doc == asks[r].doc
    IN  /\ asks[r].by = "action"
        /\ \/ pane.kind.after = "opens" /\ Ask(r, doc, "open", Chosen(doc))
           \/ pane.kind.after = "loads" /\ Ask(r, doc, "after", pane)
           \/ /\ pane.kind.after = "fills"
              /\ asks' = [asks EXCEPT ![r].by = "after"]
              /\ UNCHANGED pane

\* It is refused: nothing is asked for.
Refused(r) ==
    /\ asks[r].by = "action"
    /\ asks' = [asks EXCEPT ![r] = Idle]
    /\ UNCHANGED pane

Loading(r) == asks[r].by \in {"open", "event", "after"}

\* Whether the request has a number in the sequence
Numbered(r) == asks[r].by # "after" \/ pane.kind.after = "loads"

\* sequence === openHistoryRequestSequence.current
Counts(r) == pane.kind.guards /\ Numbered(r) => pane.latest = r

\* finally, of a request that counts
Settled(r) ==
    IF pane.latest # r THEN pane
    ELSE [pane EXCEPT !.latest = NoRequest, !.waiting = @ /\ asks[r].by \notin pane.kind.ends]

Show(r) ==
    /\ Loading(r)
    /\ pane' = IF Counts(r)
               THEN [Settled(r) EXCEPT
                        !.shown = asks[r].doc,
                        !.stray = asks[r].by = "after" /\ asks[r].doc # pane.selected]
               ELSE pane
    /\ asks' = [asks EXCEPT ![r] = Idle]

\* An error of a reload, and of the list after a payment, leaves what is shown.
Fail(r) ==
    /\ Loading(r)
    /\ pane' = IF Counts(r) /\ Numbered(r)
               THEN [Settled(r) EXCEPT
                        !.shown = IF pane.kind.empties /\ asks[r].by # "event" THEN NoDoc ELSE @,
                        !.failed = IF asks[r].by \in pane.kind.says THEN "said" ELSE "unsaid"]
               ELSE pane
    /\ asks' = [asks EXCEPT ![r] = Idle]

Next ==
    \/ \E r \in Requests :
          \/ \E doc \in Docs : Select(r, doc)
          \/ Refresh(r) \/ Act(r) \/ Done(r) \/ Refused(r) \/ Show(r) \/ Fail(r)
    \/ Close

-------------------------------------------------------------------------------
TypeOK(kinds) ==
    /\ pane \in PaneDocs(kinds)
    /\ asks \in [Requests -> Asks \cup {Idle}]

\* The pane has buttons.
MayAct == pane.shown # NoDoc /\ ~(pane.kind.hides /\ pane.waiting)

Named == IF pane.kind.acts = "selected" THEN pane.selected ELSE pane.shown

\* Customers.jsx:7 "selected profile on the right": what a person does to the document that
\* is shown is done to that document and no other.  A late answer never breaks this.  What
\* does is a reload after an event that fails unsaid, which brings back the document
\* before (Purchasing.jsx:289), and an action that ends when another was chosen.
ActsOnWhatItShows == (MayAct /\ pane.failed # "unsaid" /\ ~pane.stray) => Named = pane.shown

\* With nothing on its way and no error, what is shown is what was chosen last, or was asked
\* for after an action on another.
ShowsWhatIsSelected ==
    ((\A r \in Requests : asks[r] = Idle) /\ pane.failed = "no" /\ ~pane.stray)
        => pane.shown = pane.selected
===============================================================================
