--------------------------------- MODULE Forms ---------------------------------
(***************************************************************************)
(* A form of the web client that books something, and the service that     *)
(* books it.  The answer may be lost while the request is still on its     *)
(* way; the person then corrects the form, or not, and submits it again.   *)
(* The Idempotency-Key is what lets the service recognise the request.     *)
(***************************************************************************)
EXTENDS Integers, FiniteSets

CONSTANTS
    Contents,      \* what a form can be filled in with
    MaxSubmits     \* bounds the submissions

FormsAssumption == Contents # {} /\ MaxSubmits \in Nat \ {0}

VARIABLES
    db,      \* what was booked, and the version of the document it is booked on
    wire,    \* the requests on their way to the service
    form,
    answers  \* the service's answers to the submission that is being waited for

vars == <<db, wire, form, answers>>

-------------------------------------------------------------------------------
(* The services.  compares: a key that comes back with other contents is   *)
(* refused.  versioned: so is a document that has changed since it was read. *)

createPurchaseOrder == [compares |-> TRUE, versioned |-> FALSE]

receivePurchaseOrder == [compares |-> TRUE, versioned |-> TRUE]

returnPurchaseOrder == [compares |-> TRUE, versioned |-> TRUE]

createSupplierInvoice == [compares |-> TRUE, versioned |-> FALSE]

createSupplierPayment == [compares |-> TRUE, versioned |-> TRUE]

reverseSupplierPayment == [compares |-> TRUE, versioned |-> TRUE]

closeShortPurchaseOrder == [compares |-> TRUE, versioned |-> TRUE]

recordWaste == [compares |-> TRUE, versioned |-> FALSE]

createTransfer == [compares |-> TRUE, versioned |-> FALSE]

createStockCount == [compares |-> TRUE, versioned |-> FALSE]

decideStockCount == [compares |-> TRUE, versioned |-> TRUE]

adjustStock == [compares |-> TRUE, versioned |-> FALSE]

\* A guest's order is replayed whatever the cart has become.
placePublicOrder == [compares |-> FALSE, versioned |-> FALSE]

refundOrder == [compares |-> FALSE, versioned |-> FALSE]

applyPayment == [compares |-> FALSE, versioned |-> FALSE]

-------------------------------------------------------------------------------
(* The forms.  key: "held" is a key that lives until the booking is        *)
(* confirmed, "fresh" one made for every submission, "none" no key.        *)

CreateOrder == [key |-> "held", service |-> createPurchaseOrder]

\* Its key is renewed by opening the order again, which may fail.
Receive == [key |-> "held", service |-> receivePurchaseOrder]

PostReturn == [key |-> "held", service |-> returnPurchaseOrder]

CreateInvoice == [key |-> "held", service |-> createSupplierInvoice]

RecordPayment == [key |-> "held", service |-> createSupplierPayment]

ReversePayment == [key |-> "held", service |-> reverseSupplierPayment]

CloseShort == [key |-> "held", service |-> closeShortPurchaseOrder]

Waste == [key |-> "held", service |-> recordWaste]

RequestTransfer == [key |-> "held", service |-> createTransfer]

CreateCount == [key |-> "held", service |-> createStockCount]

DecideCount == [key |-> "held", service |-> decideStockCount]

Adjust == [key |-> "held", service |-> adjustStock]

PlaceOrder == [key |-> "held", service |-> placePublicOrder]

\* Payments and refunds of a check; the time is part of the key.
TakePayment == [key |-> "fresh", service |-> refundOrder]

CreateSuggested == [key |-> "fresh", service |-> createPurchaseOrder]

\* An order of the till and the payment of a table carry no key.
CompleteOrder == [key |-> "none", service |-> applyPayment]

Pay == [key |-> "none", service |-> applyPayment]

-------------------------------------------------------------------------------
NoKey == 0

Keys == 1..(4 * MaxSubmits + 1)

\* intent: history, counting what the person has set out to book
Rows == [key : Keys \cup {NoKey}, content : Contents, intent : Keys, id : 1..MaxSubmits]

Submissions == [key : Keys \cup {NoKey}, content : Contents, intent : Keys,
                version : 0..MaxSubmits, id : 1..MaxSubmits]

FormDocs(kinds) ==
    [kind : kinds, pc : {"editing", "sent"}, content : Contents, key : Keys, next : Keys,
     intent : Keys, version : 0..MaxSubmits, submits : 0..MaxSubmits]

\* content: of the row that an answer shows
Answers == [ok : BOOLEAN, content : Contents]

Init(kinds) ==
    /\ db = {}
    /\ wire = {}
    /\ answers = {}
    /\ form \in [kind : kinds, pc : {"editing"}, content : Contents, key : {1}, next : {2},
                 intent : {1}, version : {0}, submits : {0}]

Version == Cardinality(db)

\* requestKey()
Renewed(f) == [f EXCEPT !.key = f.next, !.next = @ + 1]

\* A form for the next booking.
Cleared(f) == [Renewed(f) EXCEPT !.pc = "editing", !.intent = @ + 1]

-------------------------------------------------------------------------------
(* The page                                                                *)

Edit(content) ==
    /\ form.pc = "editing"
    /\ form' = [form EXCEPT !.content = content]
    /\ UNCHANGED <<db, wire, answers>>

\* Whatever reloads the page's lists shows it the document as it is.
Load ==
    /\ form' = [form EXCEPT !.version = Version]
    /\ UNCHANGED <<db, wire, answers>>

\* The key a submission carries.
SentKey(f) == IF f.kind.key = "none" THEN NoKey ELSE f.key

\* The request is sent, and the buttons are disabled.
Submit ==
    LET f == IF form.kind.key = "fresh" THEN Renewed(form) ELSE form
    IN  /\ form.pc = "editing" /\ form.submits < MaxSubmits
        /\ form' = [f EXCEPT !.pc = "sent", !.submits = @ + 1]
        /\ wire' = wire \cup {[key |-> SentKey(f), content |-> f.content, intent |-> f.intent,
                               version |-> f.version, id |-> f.submits + 1]}
        /\ answers' = {}
        /\ UNCHANGED db

Done(answer) ==
    /\ form.pc = "sent" /\ answer \in answers /\ answer.ok
    /\ form' = Cleared(form)
    /\ answers' = {}
    /\ UNCHANGED <<db, wire>>

\* receive: the receipt is posted, and the reload that would have renewed the key failed.
DoneButStale(answer) ==
    /\ form.kind = Receive
    /\ form.pc = "sent" /\ answer \in answers /\ answer.ok
    /\ form' = [form EXCEPT !.pc = "editing"]
    /\ answers' = {}
    /\ UNCHANGED <<db, wire>>

\* The service refused, or the connection broke and nobody will know what it did.
Refused ==
    /\ form.pc = "sent"
    /\ form' = [form EXCEPT !.pc = "editing"]
    /\ answers' = {}
    /\ UNCHANGED <<db, wire>>

\* The page, or the document in it, is opened again.
Reopen ==
    /\ form.pc = "editing" /\ form.next < 2 * MaxSubmits
    /\ form' = [Cleared(form) EXCEPT !.version = Version]
    /\ UNCHANGED <<db, wire, answers>>

-------------------------------------------------------------------------------
(* The service, which books in a transaction and under unique indexes      *)

\* Mutant: the prior booking is not looked for.
NoPrior(q) == {}

\* findReceiptReplay and its like
Prior(q) == {row \in db : q.key # NoKey /\ row.key = q.key}

Same(q) == \A row \in Prior(q) : form.kind.service.compares => row.content = q.content

\* Only a page that still waits for this submission gets the answer.
Told(q, ok, content) ==
    answers' = IF form.pc = "sent" /\ form.submits = q.id
               THEN answers \cup {[ok |-> ok, content |-> content]}
               ELSE answers

Replay(q) ==
    /\ Prior(q) # {} /\ Same(q)
    /\ \E row \in Prior(q) : Told(q, TRUE, row.content)
    /\ UNCHANGED db

Conflict(q) ==
    /\ IF Prior(q) # {} THEN ~Same(q) ELSE form.kind.service.versioned /\ q.version # Version
    /\ Told(q, FALSE, q.content)
    /\ UNCHANGED db

Book(q) ==
    /\ Prior(q) = {}
    /\ form.kind.service.versioned => q.version = Version
    /\ db' = db \cup {[key |-> q.key, content |-> q.content, intent |-> q.intent, id |-> q.id]}
    /\ Told(q, TRUE, q.content)

Handle(q) ==
    /\ Replay(q) \/ Conflict(q) \/ Book(q)
    /\ wire' = wire \ {q}
    /\ UNCHANGED form

-------------------------------------------------------------------------------
FormStep ==
    \/ \E content \in Contents : Edit(content)
    \/ Load \/ Submit \/ Refused \/ Reopen
    \/ \E answer \in answers : Done(answer) \/ DoneButStale(answer)

Next == FormStep \/ \E q \in wire : Handle(q)

-------------------------------------------------------------------------------
TypeOK(kinds) ==
    /\ db \subseteq Rows
    /\ wire \subseteq Submissions
    /\ form \in FormDocs(kinds)
    /\ answers \subseteq Answers

\* README.md:3011, 3017, 389: a submission that is repeated, because it was clicked twice or
\* its answer was lost, books nothing more.
BookedOnce == \A x, y \in db : x.intent = y.intent => x = y

\* What the page says was booked is what its form holds.
SaysWhatWasBooked ==
    \A answer \in answers : (form.pc = "sent" /\ answer.ok) => answer.content = form.content
===============================================================================
