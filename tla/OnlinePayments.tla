---------------------------- MODULE OnlinePayments ----------------------------
(***************************************************************************)
(* Payment of web orders through a gateway (services/onlinePayments.js and *)
(* its routes in routes/storefront.js): a guest starts payment intents for *)
(* an order, comes back from the gateway's page, polls or cancels, and the *)
(* server asks the gateway before it books any money.                      *)
(*                                                                         *)
(* The handlers of intents await call after call outside a transaction,    *)
(* each working on the intent as it read it; only the settlement, and what *)
(* the staff does to the order, runs in a transaction.  An amount is the   *)
(* order's total: gateways report that amount or another.  Payments taken  *)
(* at the till are left out.                                               *)
(***************************************************************************)
EXTENDS Naturals, FiniteSets, Transactions

CONSTANTS
    Orders,          \* web orders with a prepaid method
    Intents,
    OrderOf,         \* the order each intent pays for
    Payloads,        \* what a browser may bring back from the gateway
    Idle,            \* a client with no handler running
    MaxFaults        \* bound: gateway outages and handlers that die

ASSUME IntentAssumption == OrderOf \in [Intents -> Orders]
ASSUME FaultAssumption == MaxFaults \in Nat

VARIABLES
    event,      \* the PaymentEvents recorded
    gateway,    \* what the provider knows of each intent's payment
    call,       \* the handlers in flight
    faults

vars == <<db, snap, event, gateway, call, faults>>

\* "failed" stands for failed, expired and refunded.
Statuses == {"absent", "initiated", "pending", "paid", "failed", "cancelled"}

\* Dedupe keys of PaymentEvent; the poll always sends the same payload.
Poll == "poll"
Keys == Intents \X (Payloads \cup {Poll})

\* "cooking": accepted, or moved on by the kitchen, and whatever follows.
\* taken, returned: gateway payments on the order, and their refunds.
OrderDocs ==
    [status : {"pending", "cooking", "cancelled"}, settled : BOOLEAN,
     taken : Nat, returned : Nat]

IntentDocs == [status : Statuses, settled : BOOLEAN]

Databases ==
    [order : [Orders -> OrderDocs], intent : [Intents -> IntentDocs]]

\* A handler: where it is, its intent, the event it records, the intent as it
\* read it, and the outcome it is about to write.
Handlers ==
    [at : {"create", "initiate", "read", "record", "ask", "askCancel", "write",
           "settle"},
     intent : Intents, payload : Payloads \cup {Poll},
     read : IntentDocs, outcome : Statuses]

NoIntent == [status |-> "absent", settled |-> FALSE]

Init ==
    /\ db = [order |-> [o \in Orders |-> [status |-> "pending", settled |-> FALSE,
                                          taken |-> 0, returned |-> 0]],
             intent |-> [i \in Intents |-> NoIntent]]
    /\ snap = [c \in Clients |-> NoSnapshot]
    /\ event = {}
    /\ gateway = [i \in Intents |-> "unknown"]
    /\ call = [c \in Clients |-> Idle]
    /\ faults = 0

-------------------------------------------------------------------------------
Held(doc) == doc.taken - doc.returned

At(c, place) == call[c] # Idle /\ call[c].at = place

Calling(c, i, place, p, read) ==
    call' = [call EXCEPT ![c] = [at |-> place, intent |-> i, payload |-> p,
                                 read |-> read, outcome |-> "absent"]]

Writing(c, outcome) ==
    call' = [call EXCEPT ![c].at = "write", ![c].outcome = outcome]

Proceed(c, place) == call' = [call EXCEPT ![c].at = place]

Finish(c) == call' = [call EXCEPT ![c] = Idle]

Starting(c) == call[c] = Idle /\ snap[c] = NoSnapshot

\* The guest has the reference: the gateway was told of it.
Known(i) == gateway[i] # "unknown"

Unchanged == UNCHANGED <<db, snap, event, gateway, faults>>

\* intent.save(): Mongoose writes the status only where it changed it.
SaveStatus(i, read, status) ==
    /\ db' = IF status = read.status THEN db
             ELSE [db EXCEPT !.intent[i].status = status]
    /\ UNCHANGED snap

-------------------------------------------------------------------------------
(* createPaymentIntent.                                                    *)

Payable(o) ==
    /\ db.order[o].status = "pending"
    /\ Held(db.order[o]) = 0 /\ ~db.order[o].settled

StartPayment(c, i) ==
    /\ Starting(c)
    /\ db.intent[i].status = "absent"
    /\ Payable(OrderOf[i])
    /\ \A d \in Clients : call[d] # Idle => call[d].intent # i
    /\ Calling(c, i, "create", Poll, NoIntent)
    /\ Unchanged

CreateIntent(c) ==
    /\ At(c, "create")
    /\ db' = [db EXCEPT !.intent[call[c].intent].status = "initiated"]
    /\ Proceed(c, "initiate")
    /\ UNCHANGED <<snap, event, gateway, faults>>

\* The gateway is told, and the guest is sent to its page.
Initiated(c) ==
    LET i == call[c].intent
    IN  /\ At(c, "initiate")
        /\ gateway' = [gateway EXCEPT ![i] = "open"]
        /\ db' = [db EXCEPT !.intent[i].status = "pending"]
        /\ Finish(c)
        /\ UNCHANGED <<snap, event, faults>>

\* "Could not start the payment"
NotInitiated(c) ==
    /\ At(c, "initiate")
    /\ faults < MaxFaults
    /\ faults' = faults + 1
    /\ db' = [db EXCEPT !.intent[call[c].intent].status = "failed"]
    /\ Finish(c)
    /\ UNCHANGED <<snap, event, gateway>>

-------------------------------------------------------------------------------
(* The guest at the gateway.                                               *)

\* "short": paid, but not the amount asked for.
AtGateway(i, end) ==
    /\ gateway[i] = "open"
    /\ gateway' = [gateway EXCEPT ![i] = end]
    /\ UNCHANGED <<db, snap, event, call, faults>>

-------------------------------------------------------------------------------
(* verifyAndSettle.                                                        *)

\* GET or POST /public/payments/return; a page reload brings the same payload.
Return(c, i, p) ==
    /\ Starting(c)
    /\ Known(i)
    /\ Calling(c, i, "record", p, db.intent[i])
    /\ Unchanged

\* GET /public/payments/:reference reads the intent, and only an unresolved one
\* goes on to verifyAndSettle, which reads it again.
PollStatus(c, i) ==
    /\ Starting(c)
    /\ Known(i)
    /\ db.intent[i].status = "pending" /\ ~db.intent[i].settled
    /\ Calling(c, i, "read", Poll, NoIntent)
    /\ Unchanged

ReadIntent(c) ==
    /\ At(c, "read")
    /\ Calling(c, call[c].intent, "record", call[c].payload,
               db.intent[call[c].intent])
    /\ Unchanged

FirstTime(k) == k \notin event

\* The event is recorded before the gateway is asked.
RecordEvent(c) ==
    LET k == <<call[c].intent, call[c].payload>>
    IN  /\ At(c, "record")
        /\ event' = event \cup {k}
        /\ IF FirstTime(k) /\ ~call[c].read.settled
           THEN Calling(c, call[c].intent, "ask", Poll, call[c].read)
           ELSE Finish(c)
        /\ UNCHANGED <<db, snap, gateway, faults>>

\* Mutant: the amount the gateway reports is not compared.
AnyAmount(i) == gateway[i] \in {"paid", "short"}

\* Paid, and the amount asked for.
Confirmed(i) == gateway[i] = "paid"

\* Mutant: the gateway's own vocabulary is stored.
RawOutcomes(i) == {gateway[i]}

\* normalizeGatewayStatus; another amount than expected counts as failed.
Outcomes(i) ==
    CASE gateway[i] = "open"      -> {"pending"}
      [] gateway[i] = "cancelled" -> {"cancelled", "failed"}
      [] OTHER                    -> {"failed"}

\* The gateway answers.
Ask(c) ==
    /\ At(c, "ask")
    /\ IF Confirmed(call[c].intent)
       THEN Calling(c, call[c].intent, "settle", Poll, NoIntent)
       ELSE \E outcome \in Outcomes(call[c].intent) :
               Writing(c, outcome)
    /\ Unchanged

\* recordUnsuccessful, on the intent as it was read.
WriteUnsuccessful(c) ==
    /\ At(c, "write")
    /\ SaveStatus(call[c].intent, call[c].read, call[c].outcome)
    /\ Finish(c)
    /\ UNCHANGED <<event, gateway, faults>>

\* Mutant: the claim does not ask for settledAt: null.
ClaimAgain(s, i) == TRUE

\* The intent is unclaimed, and the unique index knows no other settled intent
\* of its order.
CanClaim(s, i) ==
    \A j \in Intents : OrderOf[j] = OrderOf[i] => ~s.intent[j].settled

Paid(doc) ==
    [status |-> doc.status, settled |-> TRUE, taken |-> doc.taken + 1,
     returned |-> doc.returned]

\* settleIntent
Settle(c) ==
    LET s == snap[c]
        i == call[c].intent
        o == OrderOf[i]
    IN  /\ At(c, "settle")
        /\ s # NoSnapshot
        /\ CanClaim(s, i)
        /\ Commit(c, [order |-> [s.order EXCEPT ![o] = Paid(@)],
                      intent |-> [s.intent EXCEPT ![i] = [status |-> "paid",
                                                          settled |-> TRUE]]])
        /\ Finish(c)
        /\ UNCHANGED <<event, gateway, faults>>

\* Somebody else settled: answered as paid, nothing is written.
AlreadySettled(c) ==
    /\ At(c, "settle")
    /\ snap[c] # NoSnapshot
    /\ ~CanClaim(snap[c], call[c].intent)
    /\ End(c)
    /\ Finish(c)
    /\ UNCHANGED <<event, gateway, faults>>

-------------------------------------------------------------------------------
(* cancelPaymentIntent.                                                    *)

CancelPayment(c, i) ==
    /\ Starting(c)
    /\ Known(i)
    /\ ~db.intent[i].settled
    /\ Calling(c, i, "askCancel", Poll, db.intent[i])
    /\ Unchanged

\* Not if the gateway says it was paid, whatever the amount; an unreachable
\* gateway does not stop it.
AskCancel(c) ==
    /\ At(c, "askCancel")
    /\ \/ /\ gateway[call[c].intent] \in {"paid", "short"}
          /\ Finish(c)
          /\ UNCHANGED faults
       \/ /\ gateway[call[c].intent] \notin {"paid", "short"}
          /\ Writing(c, "cancelled")
          /\ UNCHANGED faults
       \/ /\ faults < MaxFaults
          /\ faults' = faults + 1
          /\ Writing(c, "cancelled")
    /\ UNCHANGED <<db, snap, event, gateway>>

-------------------------------------------------------------------------------
\* The gateway cannot be reached, its answer is refused, or the process dies.
Fail(c) ==
    /\ call[c] # Idle
    /\ faults < MaxFaults
    /\ faults' = faults + 1
    /\ Finish(c)
    /\ snap' = [snap EXCEPT ![c] = NoSnapshot]
    /\ UNCHANGED <<db, event, gateway>>

-------------------------------------------------------------------------------
(* The staff.                                                              *)

Staff(c) == call[c] = Idle /\ snap[c] # NoSnapshot

\* The order the client's transaction works on.
Order(c, o) == snap[c].order[o]

Change(c, o, doc) ==
    /\ Commit(c, [snap[c] EXCEPT !.order[o] = doc])
    /\ UNCHANGED <<event, gateway, call, faults>>

\* POST /online-orders/:id/accept of a prepaid order
Accept(c, o) ==
    /\ Staff(c)
    /\ Order(c, o).status = "pending"
    /\ Order(c, o).settled
    /\ Change(c, o, [Order(c, o) EXCEPT !.status = "cooking"])

\* PATCH /orders/:id/status
Advance(c, o) ==
    /\ Staff(c)
    /\ Order(c, o).status = "pending"
    /\ Change(c, o, [Order(c, o) EXCEPT !.status = "cooking"])

\* Mutant: the guest's money is not looked for.
Unasked(doc) == TRUE

\* assertNoStrandedMoney
NoStrandedMoney(doc) == Held(doc) = 0

\* POST /online-orders/:id/reject, or PATCH /orders/:id/status to cancelled
Reject(c, o) ==
    /\ Staff(c)
    /\ Order(c, o).status \in {"pending", "cooking"}
    /\ NoStrandedMoney(Order(c, o))
    /\ Change(c, o, [Order(c, o) EXCEPT !.status = "cancelled"])

\* refundOrder, of all that is held
Refund(c, o) ==
    /\ Staff(c)
    /\ Held(Order(c, o)) > 0
    /\ Change(c, o, [Order(c, o) EXCEPT !.returned = Order(c, o).taken])

-------------------------------------------------------------------------------
\* A transaction begins: for the staff, or to settle.
BeginTransaction(c) ==
    /\ call[c] = Idle \/ At(c, "settle")
    /\ Begin(c)
    /\ UNCHANGED <<event, gateway, call, faults>>

\* The staff's request is refused.
Refused(c) ==
    /\ Staff(c)
    /\ End(c)
    /\ UNCHANGED <<event, gateway, call, faults>>

\* The next step of a handler in flight.
Step(c) ==
    \/ CreateIntent(c) \/ Initiated(c)
    \/ ReadIntent(c) \/ RecordEvent(c) \/ Ask(c) \/ WriteUnsuccessful(c)
    \/ Settle(c) \/ AlreadySettled(c)
    \/ AskCancel(c)

Guest(c) ==
    \/ \E i \in Intents : StartPayment(c, i)
    \/ \E i \in Intents, p \in Payloads : Return(c, i, p)
    \/ \E i \in Intents : PollStatus(c, i)
    \/ \E i \in Intents : CancelPayment(c, i)

Next ==
    \/ \E i \in Intents, end \in {"paid", "short", "cancelled"} : AtGateway(i, end)
    \/ \E c \in Clients :
          \/ Step(c) \/ Guest(c) \/ NotInitiated(c) \/ Fail(c)
          \/ BeginTransaction(c) \/ Refused(c)
    \/ \E c \in Clients, o \in Orders :
          Accept(c, o) \/ Advance(c, o) \/ Reject(c, o) \/ Refund(c, o)

Spec == Init /\ [][Next]_vars

\* Handlers go on, transactions end or are tried again, and guests keep polling,
\* whenever a client of the model is free to serve them.
FairSpec ==
    /\ Spec
    /\ \A c \in Clients :
          /\ WF_vars(Step(c)) /\ WF_vars(Refused(c))
          /\ WF_vars(At(c, "settle") /\ snap[c] = NoSnapshot /\ BeginTransaction(c))
    /\ \A i \in Intents : SF_vars(\E c \in Clients : PollStatus(c, i))

-------------------------------------------------------------------------------
TypeOK ==
    /\ db \in Databases
    /\ snap \in [Clients -> Databases \cup {NoSnapshot}]
    /\ event \subseteq Keys
    /\ gateway \in [Intents -> {"unknown", "open", "paid", "short", "cancelled"}]
    /\ call \in [Clients -> Handlers \cup {Idle}]
    /\ faults \in 0..MaxFaults

Settled(o) == {i \in Intents : OrderOf[i] = o /\ db.intent[i].settled}

\* However many callbacks, polls, intents and refunds race, an order is paid at
\* most once through the gateway, the money on it is that of its settled intent,
\* and no more than that is given back.
PaidOnce ==
    \A o \in Orders :
        /\ db.order[o].taken = Cardinality(Settled(o))
        /\ db.order[o].taken <= 1
        /\ db.order[o].settled <=> Settled(o) # {}
        /\ db.order[o].returned <= db.order[o].taken

\* Money is on an order only if the gateway confirmed it, in the amount asked
\* for: neither a redirect nor a payment of another amount settles.
OnlyConfirmedMoney ==
    \A i \in Intents : db.intent[i].settled => gateway[i] = "paid"

\* No order is rejected or cancelled over the guest's money, also when the
\* payment settles while the staff decides.
RejectionStrandsNothing ==
    [][\A o \in Orders :
          db'.order[o].status = "cancelled" /\ db.order[o].status # "cancelled"
              => Held(db.order[o]) = 0 /\ Held(db'.order[o]) = 0]_vars

\* onlinePayments.js:497: a cancellation "only ever downgrades an unsettled intent;
\* a paid payment is never undone by a browser redirect".
PaidIsNeverUndone ==
    \A i \in Intents : db.intent[i].settled => db.intent[i].status = "paid"

\* routes/storefront.js:365: the poll "re-verifies with the provider when still
\* unresolved, so a guest whose redirect never arrived is not stranded".
PaidIsRecorded ==
    \A i \in Intents :
        gateway[i] = "paid" /\ db.intent[i].status = "pending"
            ~> Settled(OrderOf[i]) # {} \/ db.intent[i].status # "pending"
-------------------------------------------------------------------------------
(* For the model checker: every intent pays for the same order (the guest  *)
(* tried both gateways), and clients and intents may be renamed.           *)

SameOrder == [i \in Intents |-> CHOOSE o \in Orders : TRUE]

\* p and q change names.
Swap(S, p, q) == [x \in S |-> CASE x = p -> q [] x = q -> p [] OTHER -> x]

Symmetry ==
    {Swap(Clients, c, d) : c, d \in Clients}
        \cup {Swap(Intents, i, j) : i, j \in Intents}
===============================================================================
