------------------------- MODULE OnlinePaymentsProofs -------------------------
(***************************************************************************)
(* Proofs about OnlinePayments, for every set of orders, intents, payloads *)
(* and clients and any number of faults: an order is paid once, only by    *)
(* what the gateway confirmed, and never closed over money.                *)
(***************************************************************************)
EXTENDS OnlinePayments, FiniteSetTheorems, TLAPS

-------------------------------------------------------------------------------
(* What the steps write.                                                   *)

\* A document after a commit: the transaction's, if it wrote it, and then
\* nobody had changed it since the snapshot; otherwise what it was.
Kept(old, new, cur, next) ==
    IF new = old THEN next = cur ELSE next = new /\ cur = old

\* What a commit does to the documents, and to the snapshots.
LEMMA CommitEffect ==
    ASSUME TypeOK, NEW c \in Clients, snap[c] \in Databases,
           NEW new \in Databases, Commit(c, new)
    PROVE  /\ db' \in Databases
           /\ \A o \in Orders :
                 Kept(snap[c].order[o], new.order[o], db.order[o], db'.order[o])
           /\ \A i \in Intents :
                 Kept(snap[c].intent[i], new.intent[i], db.intent[i], db'.intent[i])
           /\ snap' = [snap EXCEPT ![c] = NoSnapshot]
<1> DEFINE s == snap[c]
<1>1. db \in Databases /\ s \in Databases
  BY DEF TypeOK
<1>2. DOMAIN db = {"order", "intent"}
  BY <1>1 DEF Databases
<1>3. db' = [coll \in DOMAIN db |-> Merged(s[coll], new[coll], db[coll])]
  BY DEF Commit
<1>4. \A coll \in DOMAIN db : \A doc \in DOMAIN db[coll] :
        db[coll][doc] # s[coll][doc] => new[coll][doc] = s[coll][doc]
  BY DEF Commit, NoConflict, Unwritten
<1> HIDE DEF s
<1>5. db' = [order |-> Merged(s.order, new.order, db.order),
             intent |-> Merged(s.intent, new.intent, db.intent)]
  BY <1>2, <1>3
<1>6. /\ \A o \in Orders : db.order[o] # s.order[o] => new.order[o] = s.order[o]
      /\ \A i \in Intents : db.intent[i] # s.intent[i]
                               => new.intent[i] = s.intent[i]
  BY <1>1, <1>2, <1>4 DEF Databases
<1>7. Merged(s.order, new.order, db.order) \in [Orders -> OrderDocs]
  BY <1>1 DEF Merged, Databases
<1>8. Merged(s.intent, new.intent, db.intent) \in [Intents -> IntentDocs]
  BY <1>1 DEF Merged, Databases
<1>9. \A o \in Orders : Kept(s.order[o], new.order[o], db.order[o], db'.order[o])
  BY <1>1, <1>5, <1>6 DEF Merged, Unwritten, Kept, Databases
<1>10. \A i \in Intents :
          Kept(s.intent[i], new.intent[i], db.intent[i], db'.intent[i])
  BY <1>1, <1>5, <1>6 DEF Merged, Unwritten, Kept, Databases
<1> QED
  BY <1>5, <1>7, <1>8, <1>9, <1>10 DEF Databases, Commit, s

\* A status is written, whatever else the intent says.
StatusWritten ==
    /\ db' \in Databases
    /\ db'.order = db.order
    /\ \A i \in Intents : db'.intent[i].settled = db.intent[i].settled
    /\ UNCHANGED snap

\* A status written to an intent changes nothing else.
LEMMA StatusWrite ==
    ASSUME TypeOK, NEW i \in Intents, NEW status \in Statuses,
           db' = [db EXCEPT !.intent[i].status = status], UNCHANGED snap
    PROVE  /\ StatusWritten
           /\ db'.intent[i].status = status
           /\ \A j \in Intents \ {i} : db'.intent[j] = db.intent[j]
<1> DEFINE doc == [status |-> status, settled |-> db.intent[i].settled]
<1>1. db \in Databases
  BY DEF TypeOK
<1>2. doc \in IntentDocs /\ [db.intent[i] EXCEPT !.status = status] = doc
  BY <1>1 DEF Databases, IntentDocs
<1>3. db' = [order |-> db.order, intent |-> [db.intent EXCEPT ![i] = doc]]
  BY <1>1, <1>2 DEF Databases
<1> QED
  BY <1>1, <1>2, <1>3 DEF Databases, StatusWritten, IntentDocs

\* The staff's transaction changes at most the one order.
LEMMA ChangeEffect ==
    ASSUME TypeOK, NEW c \in Clients, snap[c] # NoSnapshot, NEW o \in Orders,
           NEW doc \in OrderDocs, Change(c, o, doc)
    PROVE  /\ db' \in Databases
           /\ db'.intent = db.intent
           /\ Kept(snap[c].order[o], doc, db.order[o], db'.order[o])
           /\ \A x \in Orders \ {o} : db'.order[x] = db.order[x]
           /\ snap' = [snap EXCEPT ![c] = NoSnapshot]
<1> DEFINE s == snap[c]
           new == [order |-> [s.order EXCEPT ![o] = doc], intent |-> s.intent]
<1>1. s \in Databases
  BY DEF TypeOK
<1>2. [s EXCEPT !.order[o] = doc] = new
  BY <1>1 DEF Databases
<1>3. new \in Databases
  BY <1>1 DEF Databases
<1>4. Commit(c, new)
  BY <1>2 DEF Change
<1>5. new.order[o] = doc /\ \A x \in Orders \ {o} : new.order[x] = s.order[x]
  BY <1>1 DEF Databases
<1>6. new.intent = s.intent
  OBVIOUS
<1> HIDE DEF new
<1>7. /\ db' \in Databases
      /\ \A x \in Orders : Kept(s.order[x], new.order[x], db.order[x], db'.order[x])
      /\ \A i \in Intents :
            Kept(s.intent[i], new.intent[i], db.intent[i], db'.intent[i])
      /\ snap' = [snap EXCEPT ![c] = NoSnapshot]
  BY <1>1, <1>3, <1>4, CommitEffect
<1>8. \A i \in Intents : db'.intent[i] = db.intent[i]
  BY <1>6, <1>7 DEF Kept
<1>9. db'.intent = db.intent
  BY <1>7, <1>8 DEF Databases, TypeOK
<1> QED
  BY <1>5, <1>7, <1>9 DEF Kept

\* What a settlement leaves: the intent settled, its order paid.
LEMMA SettleEffect ==
    ASSUME TypeOK, NEW c \in Clients, Settle(c)
    PROVE  LET i == call[c].intent
               o == OrderOf[i]
               s == snap[c]
           IN  /\ i \in Intents /\ o \in Orders /\ s \in Databases
               /\ db' \in Databases
               /\ snap' = [snap EXCEPT ![c] = NoSnapshot]
               /\ Kept(s.order[o], Paid(s.order[o]), db.order[o], db'.order[o])
               /\ \A x \in Orders \ {o} : db'.order[x] = db.order[x]
               /\ db'.intent[i] = [status |-> "paid", settled |-> TRUE]
               /\ \A j \in Intents \ {i} : db'.intent[j] = db.intent[j]
               /\ CanClaim(s, i)
<1> DEFINE i == call[c].intent
           o == OrderOf[i]
           s == snap[c]
           doc == [status |-> "paid", settled |-> TRUE]
           new == [order |-> [s.order EXCEPT ![o] = Paid(s.order[o])],
                   intent |-> [s.intent EXCEPT ![i] = doc]]
<1>1. i \in Intents /\ o \in Orders /\ s \in Databases
  BY IntentAssumption DEF Settle, At, TypeOK, Handlers
<1>2. Paid(s.order[o]) \in OrderDocs /\ doc \in IntentDocs
  BY <1>1 DEF Databases, OrderDocs, IntentDocs, Statuses, Paid
<1>3. new \in Databases
  BY <1>1, <1>2 DEF Databases
<1>4. Commit(c, new)
  BY DEF Settle
<1>5. /\ new.order[o] = Paid(s.order[o])
      /\ \A x \in Orders \ {o} : new.order[x] = s.order[x]
      /\ new.intent[i] = doc
      /\ \A j \in Intents \ {i} : new.intent[j] = s.intent[j]
  BY <1>1 DEF Databases
<1>6. CanClaim(s, i)
  BY DEF Settle
<1>7. s.intent[i] # doc
  BY <1>1, <1>6 DEF CanClaim
<1> HIDE DEF new, doc
<1>8. /\ db' \in Databases
      /\ \A x \in Orders : Kept(s.order[x], new.order[x], db.order[x], db'.order[x])
      /\ \A j \in Intents :
            Kept(s.intent[j], new.intent[j], db.intent[j], db'.intent[j])
      /\ snap' = [snap EXCEPT ![c] = NoSnapshot]
  BY <1>1, <1>3, <1>4, CommitEffect
<1>9. db'.intent[i] = doc
  BY <1>1, <1>5, <1>7, <1>8 DEF Kept
<1>10. /\ Kept(s.order[o], Paid(s.order[o]), db.order[o], db'.order[o])
       /\ \A x \in Orders \ {o} : db'.order[x] = db.order[x]
       /\ \A j \in Intents \ {i} : db'.intent[j] = db.intent[j]
  BY <1>1, <1>5, <1>8 DEF Kept
<1> QED
  BY <1>1, <1>6, <1>8, <1>9, <1>10 DEF doc

-------------------------------------------------------------------------------
(* What the steps of a handler leave of the calls.                         *)

\* Only the client's own call moves.
Moved(c) ==
    /\ call' \in [Clients -> Handlers \cup {Idle}]
    /\ \A d \in Clients \ {c} : call'[d] = call[d]

\* A handler that goes to another place stays a handler, and the others stay.
LEMMA CallingMoves ==
    ASSUME TypeOK, NEW c \in Clients, NEW i \in Intents,
           NEW place \in {"create", "record", "ask", "askCancel", "read", "settle"},
           NEW p \in Payloads \cup {Poll}, NEW read \in IntentDocs,
           Calling(c, i, place, p, read)
    PROVE  Moved(c) /\ call'[c].at = place /\ call'[c].intent = i
<1> DEFINE h == [at |-> place, intent |-> i, payload |-> p, read |-> read,
                 outcome |-> "absent"]
<1>1. h \in Handlers
  BY DEF Handlers, Statuses
<1>2. call' = [call EXCEPT ![c] = h]
  BY DEF Calling
<1> HIDE DEF h
<1>3. Moved(c) /\ call'[c] = h
  BY <1>1, <1>2 DEF TypeOK, Moved
<1> QED
  BY <1>3 DEF h

\* A handler that moves on keeps its intent and what it read.
LEMMA WritingMoves ==
    ASSUME TypeOK, NEW c \in Clients, call[c] # Idle, NEW outcome \in Statuses,
           Writing(c, outcome)
    PROVE  /\ Moved(c)
           /\ call'[c].at = "write" /\ call'[c].outcome = outcome
           /\ call'[c].intent = call[c].intent
<1> DEFINE h == [call[c] EXCEPT !.at = "write"]
           g == [h EXCEPT !.outcome = outcome]
           mid == [call EXCEPT ![c] = h]
<1>1. call \in [Clients -> Handlers \cup {Idle}] /\ call[c] \in Handlers
  BY DEF TypeOK
<1>2. call' = [mid EXCEPT ![c] = [mid[c] EXCEPT !.outcome = outcome]]
  BY DEF Writing
<1>3. mid[c] = h /\ mid \in [Clients -> Handlers \cup {Idle}]
  BY <1>1 DEF Handlers
<1>4. h \in Handlers /\ h.at = "write" /\ h.intent = call[c].intent
  BY <1>1 DEF Handlers
<1>5. g \in Handlers /\ g.at = "write" /\ g.outcome = outcome
        /\ g.intent = call[c].intent
  BY <1>1, <1>4 DEF Handlers
<1>6. \A d \in Clients \ {c} : mid[d] = call[d]
  BY <1>1
<1>7. call' = [mid EXCEPT ![c] = g]
  BY <1>2, <1>3
<1> HIDE DEF h, g, mid
<1> QED
  BY <1>3, <1>5, <1>6, <1>7 DEF Moved

\* So does one that goes on to tell the gateway.
LEMMA ProceedMoves ==
    ASSUME TypeOK, NEW c \in Clients, call[c] # Idle, Proceed(c, "initiate")
    PROVE  /\ Moved(c)
           /\ call'[c].at = "initiate" /\ call'[c].intent = call[c].intent
<1> DEFINE h == [call[c] EXCEPT !.at = "initiate"]
<1>1. call \in [Clients -> Handlers \cup {Idle}] /\ call[c] \in Handlers
  BY DEF TypeOK
<1>2. call' = [call EXCEPT ![c] = h]
  BY DEF Proceed
<1>3. h \in Handlers /\ h.at = "initiate" /\ h.intent = call[c].intent
  BY <1>1 DEF Handlers
<1> HIDE DEF h
<1> QED
  BY <1>1, <1>2, <1>3 DEF Moved

\* A handler that ends leaves its client idle.
LEMMA FinishMoves ==
    ASSUME TypeOK, NEW c \in Clients, Finish(c)
    PROVE  Moved(c) /\ call'[c] = Idle
  BY DEF TypeOK, Finish, Moved

-------------------------------------------------------------------------------
(* Type correctness.                                                       *)

\* What the handlers' steps write: nothing, or a status.
LEMMA SaveEffect ==
    ASSUME TypeOK, NEW i \in Intents, NEW read, NEW status \in Statuses,
           SaveStatus(i, read, status)
    PROVE  /\ StatusWritten
           /\ db'.intent[i].status \in {status, db.intent[i].status}
           /\ \A j \in Intents \ {i} : db'.intent[j] = db.intent[j]
<1>1. UNCHANGED snap
  BY DEF SaveStatus
<1>2. CASE db' = db
  BY <1>1, <1>2 DEF StatusWritten, TypeOK
<1>3. CASE db' = [db EXCEPT !.intent[i].status = status]
  <2>1. /\ StatusWritten
        /\ db'.intent[i].status = status
        /\ \A j \in Intents \ {i} : db'.intent[j] = db.intent[j]
    BY <1>1, <1>3, StatusWrite
  <2> QED
    BY <2>1
<1> QED
  BY <1>2, <1>3 DEF SaveStatus

\* The database and the snapshots stay of their types, whichever way they move.
LEMMA SnapTypes ==
    ASSUME TypeOK, NEW c \in Clients, db' \in Databases,
           \/ UNCHANGED snap
           \/ snap' = [snap EXCEPT ![c] = NoSnapshot]
           \/ snap' = [snap EXCEPT ![c] = db]
    PROVE  snap' \in [Clients -> Databases \cup {NoSnapshot}]
  BY DEF TypeOK

\* The order the staff leaves, and what of it may not change.
LEMMA StaffEffect ==
    ASSUME TypeOK, NEW c \in Clients, NEW o \in Orders,
           Accept(c, o) \/ Advance(c, o) \/ Reject(c, o) \/ Refund(c, o)
    PROVE  \E doc \in OrderDocs :
              /\ Change(c, o, doc)
              /\ doc.settled = Order(c, o).settled
              /\ doc.taken = Order(c, o).taken
              /\ doc.returned \in {Order(c, o).returned, Order(c, o).taken}
              /\ \/ doc.status # "cancelled"
                 \/ doc.status = Order(c, o).status
                 \/ Held(Order(c, o)) = 0 /\ doc.returned = Order(c, o).returned
<1>1. Order(c, o) \in OrderDocs
  BY DEF Accept, Advance, Reject, Refund, Staff, Order, TypeOK, Databases
<1>2. CASE Accept(c, o) \/ Advance(c, o)
  <2> DEFINE doc == [Order(c, o) EXCEPT !.status = "cooking"]
  <2>1. Change(c, o, doc)
    BY <1>2 DEF Accept, Advance
  <2> QED
    BY <1>1, <2>1 DEF OrderDocs
<1>3. CASE Reject(c, o)
  <2> DEFINE doc == [Order(c, o) EXCEPT !.status = "cancelled"]
  <2>1. Change(c, o, doc) /\ Held(Order(c, o)) = 0
    BY <1>3 DEF Reject, NoStrandedMoney
  <2> QED
    BY <1>1, <2>1 DEF OrderDocs
<1>4. CASE Refund(c, o)
  <2> DEFINE doc == [Order(c, o) EXCEPT !.returned = Order(c, o).taken]
  <2>1. Change(c, o, doc)
    BY <1>4 DEF Refund
  <2> QED
    BY <1>1, <2>1 DEF OrderDocs
<1> QED
  BY <1>2, <1>3, <1>4

\* Every step of a handler, of a guest and of the staff keeps the types.
LEMMA TypeStep ==
    ASSUME TypeOK, [Next]_vars
    PROVE  TypeOK'
<1> USE IntentAssumption, FaultAssumption
<1>1. CASE UNCHANGED vars
  BY <1>1 DEF TypeOK, vars
<1>2. ASSUME NEW i \in Intents, NEW end \in {"paid", "short", "cancelled"},
             AtGateway(i, end)
      PROVE  TypeOK'
  BY <1>2 DEF TypeOK, AtGateway
<1>3. ASSUME NEW c \in Clients, Guest(c)
      PROVE  TypeOK'
  <2>1. NoIntent \in IntentDocs /\ \A i \in Intents : db.intent[i] \in IntentDocs
    BY DEF TypeOK, NoIntent, IntentDocs, Statuses, Databases
  <2>2. Moved(c)
    BY <1>3, <2>1, CallingMoves DEF Guest, StartPayment, Return, PollStatus,
       CancelPayment
  <2>3. Unchanged
    BY <1>3 DEF Guest, StartPayment, Return, PollStatus, CancelPayment
  <2> QED
    BY <2>2, <2>3 DEF TypeOK, Moved, Unchanged
<1>4. ASSUME NEW c \in Clients, Step(c)
      PROVE  TypeOK'
  <2>0. /\ call[c] \in Handlers \/ call[c] = Idle
        /\ NoIntent \in IntentDocs
        /\ \A i \in Intents : db.intent[i] \in IntentDocs
    BY DEF TypeOK, NoIntent, IntentDocs, Statuses, Databases
  <2>1. CASE CreateIntent(c)
    <3>1. Moved(c)
      BY <2>1, ProceedMoves DEF CreateIntent, At
    <3>2. StatusWritten
      BY <2>0, <2>1, StatusWrite DEF CreateIntent, At, Handlers, Statuses
    <3> QED
      BY <2>1, <3>1, <3>2 DEF TypeOK, Moved, StatusWritten, CreateIntent
  <2>2. CASE Initiated(c)
    <3>1. Moved(c)
      BY <2>2, FinishMoves DEF Initiated
    <3>2. StatusWritten
      BY <2>0, <2>2, StatusWrite DEF Initiated, At, Handlers, Statuses
    <3>3. gateway' = [gateway EXCEPT ![call[c].intent] = "open"]
      BY <2>2 DEF Initiated
    <3> QED
      BY <2>2, <3>1, <3>2, <3>3 DEF TypeOK, Moved, StatusWritten, Initiated
  <2>3. CASE ReadIntent(c)
    <3>1. Moved(c)
      BY <2>0, <2>3, CallingMoves DEF ReadIntent, At, Handlers
    <3> QED
      BY <2>3, <3>1 DEF TypeOK, Moved, ReadIntent, Unchanged
  <2>4. CASE RecordEvent(c)
    <3>1. call[c] \in Handlers
      BY <2>0, <2>4 DEF RecordEvent, At
    <3>2. Moved(c)
      BY <2>4, <3>1, CallingMoves, FinishMoves DEF RecordEvent, Handlers
    <3>3. event' \subseteq Keys
      BY <2>4, <3>1 DEF RecordEvent, Handlers, Keys, TypeOK
    <3> QED
      BY <2>4, <3>2, <3>3 DEF TypeOK, Moved, RecordEvent
  <2>5. CASE Ask(c)
    <3>1. call[c] \in Handlers
      BY <2>0, <2>5 DEF Ask, At
    <3>2. Outcomes(call[c].intent) \subseteq Statuses
      BY DEF Outcomes, Statuses
    <3>3. Moved(c)
      BY <2>0, <2>5, <3>1, <3>2, CallingMoves, WritingMoves DEF Ask, At, Handlers
    <3> QED
      BY <2>5, <3>3 DEF TypeOK, Moved, Ask, Unchanged
  <2>6. CASE WriteUnsuccessful(c)
    <3>1. call[c] \in Handlers
      BY <2>0, <2>6 DEF WriteUnsuccessful, At
    <3>2. Moved(c) /\ StatusWritten
      BY <2>6, <3>1, FinishMoves, SaveEffect DEF WriteUnsuccessful, Handlers
    <3> QED
      BY <2>6, <3>2 DEF TypeOK, Moved, StatusWritten, WriteUnsuccessful
  <2>7. CASE Settle(c)
    <3>1. db' \in Databases /\ snap' = [snap EXCEPT ![c] = NoSnapshot]
      BY <2>7, SettleEffect
    <3>2. Moved(c)
      BY <2>7, FinishMoves DEF Settle
    <3> QED
      BY <2>7, <3>1, <3>2 DEF TypeOK, Moved, Settle
  <2>8. CASE AlreadySettled(c)
    <3>1. Moved(c)
      BY <2>8, FinishMoves DEF AlreadySettled
    <3> QED
      BY <2>8, <3>1 DEF TypeOK, Moved, AlreadySettled, End
  <2>9. CASE AskCancel(c)
    <3>1. "cancelled" \in Statuses /\ call[c] # Idle
      BY <2>9 DEF Statuses, AskCancel, At
    <3>2. Moved(c)
      BY <2>9, <3>1, FinishMoves, WritingMoves DEF AskCancel
    <3>3. faults' \in 0..MaxFaults
      BY <2>9 DEF AskCancel, TypeOK
    <3> QED
      BY <2>9, <3>2, <3>3 DEF TypeOK, Moved, AskCancel
  <2> QED
    BY <1>4, <2>1, <2>2, <2>3, <2>4, <2>5, <2>6, <2>7, <2>8, <2>9 DEF Step
<1>5. ASSUME NEW c \in Clients, NotInitiated(c)
      PROVE  TypeOK'
  <2>1. call[c] \in Handlers
    BY <1>5 DEF NotInitiated, At, TypeOK
  <2>2. Moved(c)
    BY <1>5, FinishMoves DEF NotInitiated
  <2>3. StatusWritten
    BY <1>5, <2>1, StatusWrite DEF NotInitiated, Handlers, Statuses
  <2>4. faults' \in 0..MaxFaults
    BY <1>5 DEF NotInitiated, TypeOK
  <2> QED
    BY <1>5, <2>2, <2>3, <2>4 DEF TypeOK, Moved, StatusWritten, NotInitiated
<1>6. ASSUME NEW c \in Clients, Fail(c)
      PROVE  TypeOK'
  <2>1. Moved(c)
    BY <1>6, FinishMoves DEF Fail
  <2>2. faults' \in 0..MaxFaults
    BY <1>6 DEF Fail, TypeOK
  <2> QED
    BY <1>6, <2>1, <2>2 DEF TypeOK, Moved, Fail
<1>7. ASSUME NEW c \in Clients, BeginTransaction(c) \/ Refused(c)
      PROVE  TypeOK'
  BY <1>7 DEF TypeOK, BeginTransaction, Refused, Begin, End
<1>8. ASSUME NEW c \in Clients, NEW o \in Orders, NEW doc \in OrderDocs,
             snap[c] # NoSnapshot, Change(c, o, doc)
      PROVE  TypeOK'
  <2>1. db' \in Databases /\ snap' = [snap EXCEPT ![c] = NoSnapshot]
    BY <1>8, ChangeEffect
  <2> QED
    BY <1>8, <2>1 DEF TypeOK, Change
<1>9. ASSUME NEW c \in Clients, NEW o \in Orders,
             Accept(c, o) \/ Advance(c, o) \/ Reject(c, o) \/ Refund(c, o)
      PROVE  TypeOK'
  <2>1. PICK doc \in OrderDocs : Change(c, o, doc)
    BY <1>9, StaffEffect
  <2> QED
    BY <1>8, <1>9, <2>1 DEF Accept, Advance, Reject, Refund, Staff
<1> QED
  BY <1>1, <1>2, <1>3, <1>4, <1>5, <1>6, <1>7, <1>9 DEF Next

\* The initial states are of their types.
LEMMA TypeInit == Init => TypeOK
  BY FaultAssumption DEF Init, TypeOK, Databases, OrderDocs, IntentDocs, NoIntent,
     Statuses

\* Orders, intents, calls and snapshots stay of their types.
THEOREM TypeCorrect == Spec => []TypeOK
<1>1. TypeOK /\ [Next]_vars => TypeOK'
  BY TypeStep
<1> QED
  BY <1>1, TypeInit, PTL DEF Spec

-------------------------------------------------------------------------------
(* An order is paid once.                                                  *)

\* The books of a database agree: an order is settled by exactly one of its
\* intents, and has been paid exactly then.
Books(d) ==
    /\ \A o \in Orders :
          /\ d.order[o].taken = IF d.order[o].settled THEN 1 ELSE 0
          /\ d.order[o].returned <= d.order[o].taken
          /\ d.order[o].settled <=>
                \E i \in Intents : OrderOf[i] = o /\ d.intent[i].settled
    /\ \A i, j \in Intents :
          OrderOf[i] = OrderOf[j] /\ d.intent[i].settled /\ d.intent[j].settled
              => i = j

\* The books agree in the database and in every snapshot of it: what a
\* transaction reads is what some moment committed.
BooksAgree ==
    /\ Books(db)
    /\ \A c \in Clients : snap[c] # NoSnapshot => Books(snap[c])

\* The snapshots agree as the databases they were taken of did.
LEMMA SnapshotsAgree ==
    ASSUME TypeOK, BooksAgree, NEW c \in Clients,
           \/ UNCHANGED snap
           \/ snap' = [snap EXCEPT ![c] = NoSnapshot]
           \/ snap' = [snap EXCEPT ![c] = db]
    PROVE  \A d \in Clients : snap'[d] # NoSnapshot => Books(snap'[d])
<1>1. \A d \in Clients : snap'[d] \in {snap[d], NoSnapshot, db}
  BY DEF TypeOK
<1> QED
  BY <1>1 DEF BooksAgree

\* A status says nothing of the money.
LEMMA StatusKeepsBooks ==
    ASSUME TypeOK, BooksAgree, StatusWritten
    PROVE  Books(db')
  BY DEF BooksAgree, Books, StatusWritten

\* The claim was read in a snapshot whose books agreed, and the order it was read
\* with is the one committed: it was not paid yet.
LEMMA SettleKeepsBooks ==
    ASSUME TypeOK, BooksAgree, NEW c \in Clients, Settle(c)
    PROVE  Books(db')
<1> DEFINE i == call[c].intent
           o == OrderOf[i]
           s == snap[c]
<1>1. /\ i \in Intents /\ o \in Orders /\ s \in Databases
      /\ db' \in Databases
      /\ Kept(s.order[o], Paid(s.order[o]), db.order[o], db'.order[o])
      /\ \A x \in Orders \ {o} : db'.order[x] = db.order[x]
      /\ db'.intent[i] = [status |-> "paid", settled |-> TRUE]
      /\ \A j \in Intents \ {i} : db'.intent[j] = db.intent[j]
      /\ CanClaim(s, i)
  BY SettleEffect
<1>2. Books(s) /\ Books(db)
  BY DEF BooksAgree, Settle
<1> HIDE DEF s, o, i
<1>3. ~s.order[o].settled
  BY <1>1, <1>2 DEF Books, CanClaim, o
<1>4. s.order[o] \in OrderDocs /\ s.order[o].taken = 0
  BY <1>1, <1>2, <1>3 DEF Books, Databases
<1>5. Paid(s.order[o]) # s.order[o]
  BY <1>3, <1>4 DEF Paid
<1>6. db.order[o] = s.order[o] /\ db'.order[o] = Paid(s.order[o])
  BY <1>1, <1>5 DEF Kept
<1>7. /\ db'.order[o].settled /\ db'.order[o].taken = 1
      /\ db'.order[o].returned = db.order[o].returned
      /\ db.order[o].returned = 0
  BY <1>1, <1>2, <1>3, <1>4, <1>6 DEF Paid, Books, OrderDocs
<1>8. \A j \in Intents : OrderOf[j] = o => ~db.intent[j].settled
  BY <1>1, <1>2, <1>3, <1>6 DEF Books
<1>9. \A x \in Orders :
         /\ db'.order[x].taken = IF db'.order[x].settled THEN 1 ELSE 0
         /\ db'.order[x].returned <= db'.order[x].taken
  BY <1>1, <1>2, <1>7 DEF Books
<1>10. \A x \in Orders :
          db'.order[x].settled <=>
              \E j \in Intents : OrderOf[j] = x /\ db'.intent[j].settled
  <2> TAKE x \in Orders
  <2>1. CASE x = o
    BY <1>1, <1>7, <2>1 DEF o
  <2>2. CASE x # o
    <3>1. db'.order[x] = db.order[x]
      BY <1>1, <2>2
    <3>2. \A j \in Intents : OrderOf[j] = x => db'.intent[j] = db.intent[j]
      BY <1>1, <2>2 DEF o
    <3> QED
      BY <1>2, <3>1, <3>2 DEF Books
  <2> QED
    BY <2>1, <2>2
<1>11. \A j, k \in Intents :
          OrderOf[j] = OrderOf[k] /\ db'.intent[j].settled /\ db'.intent[k].settled
              => j = k
  BY <1>1, <1>2, <1>8 DEF Books, o
<1> QED
  BY <1>9, <1>10, <1>11 DEF Books

\* The staff gives back what was taken, and takes nothing.
LEMMA StaffKeepsBooks ==
    ASSUME TypeOK, BooksAgree, NEW c \in Clients, NEW o \in Orders,
           Accept(c, o) \/ Advance(c, o) \/ Reject(c, o) \/ Refund(c, o)
    PROVE  Books(db') /\ snap' = [snap EXCEPT ![c] = NoSnapshot]
<1>1. PICK doc \in OrderDocs :
         /\ Change(c, o, doc)
         /\ doc.settled = Order(c, o).settled
         /\ doc.taken = Order(c, o).taken
         /\ doc.returned \in {Order(c, o).returned, Order(c, o).taken}
  BY StaffEffect
<1>2. snap[c] # NoSnapshot
  BY DEF Accept, Advance, Reject, Refund, Staff
<1>3. /\ db' \in Databases
      /\ db'.intent = db.intent
      /\ Kept(snap[c].order[o], doc, db.order[o], db'.order[o])
      /\ \A x \in Orders \ {o} : db'.order[x] = db.order[x]
      /\ snap' = [snap EXCEPT ![c] = NoSnapshot]
  BY <1>1, <1>2, ChangeEffect
<1>4. Books(db) /\ Books(snap[c]) /\ snap[c] \in Databases /\ db \in Databases
  BY <1>2 DEF BooksAgree, TypeOK
<1>5. /\ db'.order[o].settled = db.order[o].settled
      /\ db'.order[o].taken = db.order[o].taken
      /\ db'.order[o].returned <= db'.order[o].taken
  BY <1>1, <1>3, <1>4 DEF Kept, Books, Order, Databases, OrderDocs
<1>6. \A x \in Orders :
         /\ db'.order[x].settled = db.order[x].settled
         /\ db'.order[x].taken = db.order[x].taken
         /\ db'.order[x].returned <= db'.order[x].taken
  BY <1>3, <1>4, <1>5 DEF Books
<1> QED
  BY <1>3, <1>4, <1>6 DEF Books

\* Every step keeps the books.
LEMMA BooksStep ==
    ASSUME TypeOK, BooksAgree, [Next]_vars
    PROVE  BooksAgree'
<1>1. CASE UNCHANGED <<db, snap>>
  BY <1>1 DEF BooksAgree
<1>2. ASSUME NEW c \in Clients, StatusWritten
      PROVE  BooksAgree'
  <2>1. Books(db') /\ UNCHANGED snap
    BY <1>2, StatusKeepsBooks DEF StatusWritten
  <2> QED
    BY <2>1 DEF BooksAgree
<1>3. ASSUME NEW c \in Clients, UNCHANGED db,
             \/ snap' = [snap EXCEPT ![c] = NoSnapshot]
             \/ snap' = [snap EXCEPT ![c] = db]
      PROVE  BooksAgree'
  BY <1>3, SnapshotsAgree DEF BooksAgree
<1>4. ASSUME NEW c \in Clients, Books(db'),
             snap' = [snap EXCEPT ![c] = NoSnapshot]
      PROVE  BooksAgree'
  BY <1>4, SnapshotsAgree DEF BooksAgree
<1>5. ASSUME NEW c \in Clients, Step(c) \/ NotInitiated(c)
      PROVE  BooksAgree'
  <2>1. call[c] # Idle => call[c] \in Handlers
    BY DEF TypeOK
  <2>2. CASE CreateIntent(c) \/ Initiated(c) \/ NotInitiated(c)
    <3>1. StatusWritten
      BY <2>1, <2>2, StatusWrite DEF CreateIntent, Initiated, NotInitiated, At,
         Handlers, Statuses
    <3> QED
      BY <1>2, <3>1
  <2>3. CASE ReadIntent(c) \/ RecordEvent(c) \/ Ask(c) \/ AskCancel(c)
    BY <1>1, <2>3 DEF ReadIntent, RecordEvent, Ask, AskCancel, Unchanged
  <2>4. CASE WriteUnsuccessful(c)
    <3>1. StatusWritten
      BY <2>1, <2>4, SaveEffect DEF WriteUnsuccessful, At, Handlers
    <3> QED
      BY <1>2, <3>1
  <2>5. CASE Settle(c)
    BY <1>4, <2>5, SettleKeepsBooks, SettleEffect
  <2>6. CASE AlreadySettled(c)
    BY <1>3, <2>6 DEF AlreadySettled, End
  <2> QED
    BY <1>5, <2>2, <2>3, <2>4, <2>5, <2>6 DEF Step
<1>6. ASSUME NEW c \in Clients, Guest(c)
      PROVE  BooksAgree'
  BY <1>1, <1>6 DEF Guest, StartPayment, Return, PollStatus, CancelPayment, Unchanged
<1>7. ASSUME NEW c \in Clients, Fail(c) \/ BeginTransaction(c) \/ Refused(c)
      PROVE  BooksAgree'
  BY <1>3, <1>7 DEF Fail, BeginTransaction, Refused, Begin, End
<1>8. ASSUME NEW c \in Clients, NEW o \in Orders,
             Accept(c, o) \/ Advance(c, o) \/ Reject(c, o) \/ Refund(c, o)
      PROVE  BooksAgree'
  BY <1>4, <1>8, StaffKeepsBooks
<1>9. ASSUME NEW i \in Intents, NEW end, AtGateway(i, end)
      PROVE  BooksAgree'
  BY <1>1, <1>9 DEF AtGateway
<1> QED
  BY <1>1, <1>5, <1>6, <1>7, <1>8, <1>9 DEF Next, vars

\* Before anybody pays, the books agree.
LEMMA BooksInit == Init => BooksAgree
  BY DEF Init, BooksAgree, Books, NoIntent

\* Books that agree know at most one settled intent of an order.
LEMMA BooksPayOnce == BooksAgree => PaidOnce
<1> SUFFICES ASSUME BooksAgree, NEW o \in Orders
             PROVE  /\ db.order[o].taken = Cardinality(Settled(o))
                    /\ db.order[o].taken <= 1
                    /\ db.order[o].settled <=> Settled(o) # {}
                    /\ db.order[o].returned <= db.order[o].taken
  BY DEF PaidOnce
<1>1. db.order[o].settled <=> Settled(o) # {}
  BY DEF BooksAgree, Books, Settled
<1>2. Cardinality(Settled(o)) = IF db.order[o].settled THEN 1 ELSE 0
  <2>1. CASE db.order[o].settled
    <3>1. PICK i \in Intents : i \in Settled(o)
      BY <1>1, <2>1 DEF Settled
    <3>2. Settled(o) = {i}
      BY <3>1 DEF BooksAgree, Books, Settled
    <3> QED
      BY <2>1, <3>2, FS_Singleton
  <2>2. CASE ~db.order[o].settled
    BY <1>1, <2>2, FS_EmptySet
  <2> QED
    BY <2>1, <2>2
<1> QED
  BY <1>1, <1>2 DEF BooksAgree, Books

\* However many callbacks, polls, intents and refunds race, an order is paid at
\* most once through the gateway, and no more is given back than was taken.
THEOREM OrdersArePaidOnce == Spec => []PaidOnce
<1>1. BooksAgree /\ TypeOK /\ [Next]_vars => BooksAgree'
  BY BooksStep
<1> QED
  BY <1>1, BooksInit, BooksPayOnce, TypeCorrect, PTL DEF Spec

-------------------------------------------------------------------------------
(* Only what the gateway confirmed settles.                                *)

\* An intent whose gateway was not told yet is in one handler's hands.
Young(c) == At(c, "create") \/ At(c, "initiate")

\* A handler settles only after the gateway confirmed the payment; the gateway
\* knows of an intent only once, and only after it was stored.
Asked ==
    /\ \A i \in Intents : gateway[i] # "unknown" => db.intent[i].status # "absent"
    /\ \A c \in Clients :
          /\ At(c, "write") => call[c].outcome # "absent"
          /\ At(c, "settle") => gateway[call[c].intent] = "paid"
          /\ Young(c) => gateway[call[c].intent] = "unknown"
    /\ \A c, d \in Clients :
          c # d /\ Young(c) /\ Young(d) => call[c].intent # call[d].intent

Confirmations == Asked /\ OnlyConfirmedMoney

\* The gateway is told of an intent once: nobody else is about to.
LEMMA InitiatedKeeps ==
    ASSUME TypeOK, Confirmations, NEW c \in Clients, Initiated(c)
    PROVE  Confirmations'
<1> DEFINE i == call[c].intent
<1>1. i \in Intents /\ Young(c)
  BY DEF Initiated, At, TypeOK, Handlers, Young
<1>2. /\ StatusWritten
      /\ db'.intent[i].status = "pending"
      /\ \A j \in Intents \ {i} : db'.intent[j] = db.intent[j]
  BY <1>1, StatusWrite DEF Initiated, Statuses
<1>3. gateway[i] = "unknown" /\ gateway' = [gateway EXCEPT ![i] = "open"]
  BY <1>1 DEF Confirmations, Asked, Initiated
<1>4. Moved(c) /\ call'[c] = Idle
  BY FinishMoves DEF Initiated
<1> HIDE DEF i
<1>5. ~db.intent[i].settled
  BY <1>1, <1>3 DEF Confirmations, OnlyConfirmedMoney
<1>6. \A j \in Intents \ {i} : gateway'[j] = gateway[j]
  BY <1>3 DEF TypeOK
<1>7. OnlyConfirmedMoney'
  BY <1>1, <1>2, <1>5, <1>6
     DEF Confirmations, OnlyConfirmedMoney, StatusWritten
<1>8. \A d \in Clients \ {c} : Young(d) => call[d].intent # i
  BY <1>1 DEF Confirmations, Asked, i
<1>9. \A d \in Clients \ {c} : call[d] # Idle => call[d].intent \in Intents
  BY DEF TypeOK, Handlers
<1>10. \A d \in Clients \ {c} : call'[d] = call[d]
  BY <1>4 DEF Moved
<1>11. /\ \A j \in Intents :
             gateway'[j] # "unknown" => db'.intent[j].status # "absent"
       /\ \A d \in Clients :
             /\ At(d, "write")' => call'[d].outcome # "absent"
             /\ At(d, "settle")' => gateway'[call'[d].intent] = "paid"
             /\ Young(d)' => gateway'[call'[d].intent] = "unknown"
  BY <1>1, <1>2, <1>3, <1>4, <1>6, <1>8, <1>9, <1>10
     DEF Confirmations, Asked, Young, At
<1>12. \A d, e \in Clients :
          d # e /\ Young(d)' /\ Young(e)' => call'[d].intent # call'[e].intent
  BY <1>4, <1>10 DEF Confirmations, Asked, Young, At
<1> QED
  BY <1>7, <1>11, <1>12 DEF Confirmations, Asked

\* A step that writes at most statuses other than "absent", and tells the gateway
\* nothing, keeps the confirmations if its client's call still obeys them.
LEMMA CallsKeep ==
    ASSUME TypeOK, Confirmations, NEW c \in Clients,
           UNCHANGED gateway, Moved(c),
           \A i \in Intents :
              /\ db'.intent[i].settled = db.intent[i].settled
              /\ db.intent[i].status # "absent" => db'.intent[i].status # "absent",
           At(c, "write")' => call'[c].outcome # "absent",
           At(c, "settle")' => gateway[call'[c].intent] = "paid",
           Young(c)' =>
              /\ gateway[call'[c].intent] = "unknown"
              /\ \A d \in Clients \ {c} :
                    Young(d) => call[d].intent # call'[c].intent
    PROVE  Confirmations'
<1>1. \A d \in Clients \ {c} : call'[d] = call[d]
  BY DEF Moved
<1>2. OnlyConfirmedMoney'
  BY DEF Confirmations, OnlyConfirmedMoney
<1>3. \A i \in Intents : gateway'[i] # "unknown" => db'.intent[i].status # "absent"
  BY DEF Confirmations, Asked
<1>4. \A d \in Clients :
         /\ At(d, "write")' => call'[d].outcome # "absent"
         /\ At(d, "settle")' => gateway'[call'[d].intent] = "paid"
         /\ Young(d)' => gateway'[call'[d].intent] = "unknown"
  BY <1>1 DEF Confirmations, Asked, Young, At
<1>5. \A d, e \in Clients :
         d # e /\ Young(d)' /\ Young(e)' => call'[d].intent # call'[e].intent
  BY <1>1 DEF Confirmations, Asked, Young, At
<1> QED
  BY <1>2, <1>3, <1>4, <1>5 DEF Confirmations, Asked

\* So does a step that writes nothing at all.
LEMMA ReadersKeep ==
    ASSUME TypeOK, Confirmations, NEW c \in Clients,
           UNCHANGED <<gateway, db>>, Moved(c),
           At(c, "write")' => call'[c].outcome # "absent",
           At(c, "settle")' => gateway[call'[c].intent] = "paid",
           Young(c)' =>
              /\ gateway[call'[c].intent] = "unknown"
              /\ \A d \in Clients \ {c} :
                    Young(d) => call[d].intent # call'[c].intent
    PROVE  Confirmations'
<1>1. \A i \in Intents :
         /\ db'.intent[i].settled = db.intent[i].settled
         /\ db.intent[i].status # "absent" => db'.intent[i].status # "absent"
  OBVIOUS
<1> QED
  BY <1>1, CallsKeep

\* A settlement settles what the gateway confirmed before.
LEMMA SettleKeeps ==
    ASSUME TypeOK, Confirmations, NEW c \in Clients, Settle(c)
    PROVE  Confirmations'
<1> DEFINE i == call[c].intent
<1>1. /\ i \in Intents
      /\ db'.intent[i] = [status |-> "paid", settled |-> TRUE]
      /\ \A j \in Intents \ {i} : db'.intent[j] = db.intent[j]
  BY SettleEffect
<1>2. gateway[i] = "paid" /\ UNCHANGED gateway
  BY DEF Confirmations, Asked, Settle
<1>3. Moved(c) /\ call'[c] = Idle
  BY FinishMoves DEF Settle
<1> HIDE DEF i
<1>4. OnlyConfirmedMoney'
  BY <1>1, <1>2 DEF Confirmations, OnlyConfirmedMoney
<1>5. \A j \in Intents : gateway'[j] # "unknown" => db'.intent[j].status # "absent"
  BY <1>1, <1>2 DEF Confirmations, Asked
<1>6. \A d \in Clients \ {c} : call'[d] = call[d]
  BY <1>3 DEF Moved
<1>7. \A d \in Clients :
         /\ At(d, "write")' => call'[d].outcome # "absent"
         /\ At(d, "settle")' => gateway'[call'[d].intent] = "paid"
         /\ Young(d)' => gateway'[call'[d].intent] = "unknown"
  BY <1>2, <1>3, <1>6 DEF Confirmations, Asked, Young, At
<1>8. \A d, e \in Clients :
         d # e /\ Young(d)' /\ Young(e)' => call'[d].intent # call'[e].intent
  BY <1>3, <1>6 DEF Confirmations, Asked, Young, At
<1> QED
  BY <1>4, <1>5, <1>7, <1>8 DEF Confirmations, Asked

\* The confirmations say nothing of orders, snapshots, events and faults.
LEMMA OthersKeep ==
    ASSUME Confirmations, UNCHANGED <<gateway, call>>, db'.intent = db.intent
    PROVE  Confirmations'
  BY DEF Confirmations, Asked, OnlyConfirmedMoney, Young, At

\* A step settles no intent that the gateway did not confirm.
LEMMA ConfirmationsStep ==
    ASSUME TypeOK, Confirmations, [Next]_vars
    PROVE  Confirmations'
<1>0. /\ \A c \in Clients : call[c] # Idle => call[c] \in Handlers
      /\ \A i \in Intents : db.intent[i] \in IntentDocs
      /\ NoIntent \in IntentDocs
      /\ \A i \in Intents : OrderOf[i] \in Orders
  BY IntentAssumption DEF TypeOK, Databases, NoIntent, IntentDocs, Statuses
<1>1. CASE UNCHANGED vars
  BY <1>1, OthersKeep DEF vars
<1>2. ASSUME NEW i \in Intents, NEW end \in {"paid", "short", "cancelled"},
             AtGateway(i, end)
      PROVE  Confirmations'
  <2>1. /\ gateway[i] = "open" /\ gateway'[i] # "unknown"
        /\ \A j \in Intents \ {i} : gateway'[j] = gateway[j]
        /\ UNCHANGED <<db, call>>
    BY <1>2 DEF AtGateway, TypeOK
  <2>2. OnlyConfirmedMoney'
    BY <2>1 DEF Confirmations, OnlyConfirmedMoney
  <2>3. \A c \in Clients : call[c] # Idle => call[c].intent \in Intents
    BY <1>0 DEF Handlers
  <2> QED
    BY <2>1, <2>2, <2>3 DEF Confirmations, Asked, Young, At
<1>3. ASSUME NEW c \in Clients, NEW i \in Intents, StartPayment(c, i)
      PROVE  Confirmations'
  <2>1. Moved(c) /\ call'[c].at = "create" /\ call'[c].intent = i
    BY <1>0, <1>3, CallingMoves DEF StartPayment
  <2>2. /\ gateway[i] = "unknown"
        /\ \A d \in Clients \ {c} : Young(d) => call[d].intent # i
    BY <1>3 DEF StartPayment, Confirmations, Asked, Young, At
  <2>3. UNCHANGED <<gateway, db>>
    BY <1>3 DEF StartPayment, Unchanged
  <2> QED
    BY <2>1, <2>2, <2>3, ReadersKeep DEF Young, At
<1>4. ASSUME NEW c \in Clients, NEW i \in Intents,
             \/ \E p \in Payloads : Return(c, i, p)
             \/ PollStatus(c, i)
             \/ CancelPayment(c, i)
      PROVE  Confirmations'
  <2>1. Moved(c) /\ call'[c].at \in {"record", "read", "askCancel"}
    BY <1>0, <1>4, CallingMoves DEF Return, PollStatus, CancelPayment
  <2>2. UNCHANGED <<gateway, db>>
    BY <1>4 DEF Return, PollStatus, CancelPayment, Unchanged
  <2> QED
    BY <2>1, <2>2, ReadersKeep DEF Young, At
<1>5. ASSUME NEW c \in Clients, Step(c)
      PROVE  Confirmations'
  <2>1. CASE CreateIntent(c)
    <3>1. /\ Moved(c) /\ call'[c].at = "initiate"
          /\ call'[c].intent = call[c].intent
      BY <2>1, ProceedMoves DEF CreateIntent, At
    <3>2. /\ StatusWritten
          /\ db'.intent[call[c].intent].status = "initiated"
          /\ \A j \in Intents \ {call[c].intent} : db'.intent[j] = db.intent[j]
      BY <1>0, <2>1, StatusWrite DEF CreateIntent, At, Handlers, Statuses
    <3>3. Young(c) /\ UNCHANGED gateway
      BY <2>1 DEF CreateIntent, Young
    <3>4. /\ gateway[call[c].intent] = "unknown"
          /\ \A d \in Clients \ {c} : Young(d) => call[d].intent # call[c].intent
      BY <3>3 DEF Confirmations, Asked
    <3>5. \A i \in Intents :
             /\ db'.intent[i].settled = db.intent[i].settled
             /\ db.intent[i].status # "absent" => db'.intent[i].status # "absent"
      BY <3>2 DEF StatusWritten
    <3> QED
      BY <3>1, <3>3, <3>4, <3>5, CallsKeep DEF At
  <2>2. CASE Initiated(c)
    BY <2>2, InitiatedKeeps
  <2>3. CASE ReadIntent(c)
    <3>1. Moved(c) /\ call'[c].at = "record"
      BY <1>0, <2>3, CallingMoves DEF ReadIntent, At, Handlers
    <3> QED
      BY <2>3, <3>1, ReadersKeep DEF Young, At, ReadIntent, Unchanged
  <2>4. CASE RecordEvent(c)
    <3>1. call[c] \in Handlers /\ UNCHANGED <<gateway, db>>
      BY <1>0, <2>4 DEF RecordEvent, At
    <3>2. Moved(c) /\ (call'[c] = Idle \/ call'[c].at = "ask")
      BY <2>4, <3>1, CallingMoves, FinishMoves DEF RecordEvent, Handlers
    <3> QED
      BY <3>1, <3>2, ReadersKeep DEF Young, At
  <2>5. CASE Ask(c)
    <3>1. call[c] \in Handlers /\ call[c] # Idle /\ UNCHANGED <<gateway, db>>
      BY <1>0, <2>5 DEF Ask, At, Unchanged
    <3>2. CASE Confirmed(call[c].intent)
      <4>1. Moved(c) /\ call'[c].at = "settle" /\ call'[c].intent = call[c].intent
        BY <1>0, <2>5, <3>1, <3>2, CallingMoves DEF Ask, Handlers
      <4> QED
        BY <3>1, <3>2, <4>1, ReadersKeep DEF Young, At, Confirmed
    <3>3. CASE ~Confirmed(call[c].intent)
      <4>1. PICK outcome \in Outcomes(call[c].intent) : Writing(c, outcome)
        BY <2>5, <3>3 DEF Ask
      <4>2. outcome \in Statuses /\ outcome # "absent"
        BY <4>1 DEF Outcomes, Statuses
      <4>3. Moved(c) /\ call'[c].at = "write" /\ call'[c].outcome = outcome
        BY <3>1, <4>1, <4>2, WritingMoves
      <4> QED
        BY <3>1, <4>2, <4>3, ReadersKeep DEF Young, At
    <3> QED
      BY <3>2, <3>3
  <2>6. CASE WriteUnsuccessful(c)
    <3>1. call[c] \in Handlers /\ call[c].outcome # "absent" /\ UNCHANGED gateway
      BY <1>0, <2>6 DEF WriteUnsuccessful, At, Confirmations, Asked
    <3>2. /\ StatusWritten
          /\ db'.intent[call[c].intent].status
                \in {call[c].outcome, db.intent[call[c].intent].status}
          /\ \A j \in Intents \ {call[c].intent} : db'.intent[j] = db.intent[j]
      BY <2>6, <3>1, SaveEffect DEF WriteUnsuccessful, Handlers
    <3>3. Moved(c) /\ call'[c] = Idle
      BY <2>6, FinishMoves DEF WriteUnsuccessful
    <3>4. \A i \in Intents :
             /\ db'.intent[i].settled = db.intent[i].settled
             /\ db.intent[i].status # "absent" => db'.intent[i].status # "absent"
      BY <3>1, <3>2 DEF StatusWritten
    <3> QED
      BY <3>1, <3>3, <3>4, CallsKeep DEF Young, At
  <2>7. CASE Settle(c)
    BY <2>7, SettleKeeps
  <2>8. CASE AlreadySettled(c)
    <3>1. Moved(c) /\ call'[c] = Idle
      BY <2>8, FinishMoves DEF AlreadySettled
    <3> QED
      BY <2>8, <3>1, ReadersKeep DEF Young, At, AlreadySettled, End
  <2>9. CASE AskCancel(c)
    <3>1. "cancelled" \in Statuses /\ call[c] # Idle /\ UNCHANGED <<gateway, db>>
      BY <2>9 DEF Statuses, AskCancel, At
    <3>2. Moved(c) /\ (call'[c] = Idle \/ (call'[c].at = "write"
                                             /\ call'[c].outcome = "cancelled"))
      BY <2>9, <3>1, FinishMoves, WritingMoves DEF AskCancel
    <3> QED
      BY <3>1, <3>2, ReadersKeep DEF Young, At
  <2> QED
    BY <1>5, <2>1, <2>2, <2>3, <2>4, <2>5, <2>6, <2>7, <2>8, <2>9 DEF Step
<1>6. ASSUME NEW c \in Clients, NotInitiated(c)
      PROVE  Confirmations'
  <2>1. call[c] \in Handlers /\ UNCHANGED gateway
    BY <1>0, <1>6 DEF NotInitiated, At
  <2>2. /\ StatusWritten
        /\ db'.intent[call[c].intent].status = "failed"
        /\ \A j \in Intents \ {call[c].intent} : db'.intent[j] = db.intent[j]
    BY <1>6, <2>1, StatusWrite DEF NotInitiated, Handlers, Statuses
  <2>3. Moved(c) /\ call'[c] = Idle
    BY <1>6, FinishMoves DEF NotInitiated
  <2>4. \A i \in Intents :
           /\ db'.intent[i].settled = db.intent[i].settled
           /\ db.intent[i].status # "absent" => db'.intent[i].status # "absent"
    BY <2>2 DEF StatusWritten
  <2> QED
    BY <2>1, <2>3, <2>4, CallsKeep DEF Young, At
<1>7. ASSUME NEW c \in Clients, Fail(c)
      PROVE  Confirmations'
  <2>1. Moved(c) /\ call'[c] = Idle
    BY <1>7, FinishMoves DEF Fail
  <2> QED
    BY <1>7, <2>1, ReadersKeep DEF Young, At, Fail
<1>8. ASSUME NEW c \in Clients, BeginTransaction(c) \/ Refused(c)
      PROVE  Confirmations'
  BY <1>8, OthersKeep DEF BeginTransaction, Refused, Begin, End
<1>9. ASSUME NEW c \in Clients, NEW o \in Orders,
             Accept(c, o) \/ Advance(c, o) \/ Reject(c, o) \/ Refund(c, o)
      PROVE  Confirmations'
  <2>1. PICK doc \in OrderDocs : Change(c, o, doc)
    BY <1>9, StaffEffect
  <2>2. snap[c] # NoSnapshot
    BY <1>9 DEF Accept, Advance, Reject, Refund, Staff
  <2>3. db'.intent = db.intent
    BY <2>1, <2>2, ChangeEffect
  <2> QED
    BY <2>1, <2>3, OthersKeep DEF Change
<1> QED
  BY <1>1, <1>2, <1>3, <1>4, <1>5, <1>6, <1>7, <1>8, <1>9 DEF Next, Guest

\* In the initial states nothing is asked or settled.
LEMMA ConfirmationsInit == Init => Confirmations
  BY DEF Init, Confirmations, Asked, OnlyConfirmedMoney, NoIntent, Young, At

\* Whatever a browser brings back, money is booked only for a payment the gateway
\* itself confirmed, in the amount asked for.
THEOREM OnlyConfirmedMoneyIsBooked == Spec => []OnlyConfirmedMoney
<1>1. TypeOK /\ Confirmations /\ [Next]_vars => Confirmations'
  BY ConfirmationsStep
<1>2. Confirmations => OnlyConfirmedMoney
  BY DEF Confirmations
<1> QED
  BY <1>1, <1>2, ConfirmationsInit, TypeCorrect, PTL DEF Spec

-------------------------------------------------------------------------------
(* No order is closed over the guest's money.                              *)

\* Only the staff closes an order, and the commit finds it as it was looked at.
LEMMA RejectionStep ==
    ASSUME TypeOK, [Next]_vars, NEW o \in Orders,
           db'.order[o].status = "cancelled", db.order[o].status # "cancelled"
    PROVE  Held(db.order[o]) = 0 /\ Held(db'.order[o]) = 0
<1>0. \A c \in Clients : call[c] # Idle => call[c] \in Handlers
  BY DEF TypeOK
<1>1. db'.order # db.order
  OBVIOUS
<1>2. ASSUME NEW c \in Clients, Settle(c)
      PROVE  FALSE
  <2> DEFINE x == OrderOf[call[c].intent]
             s == snap[c]
  <2>1. /\ Kept(s.order[x], Paid(s.order[x]), db.order[x], db'.order[x])
        /\ \A y \in Orders \ {x} : db'.order[y] = db.order[y]
    BY <1>2, SettleEffect
  <2> HIDE DEF x, s
  <2> QED
    BY <2>1 DEF Kept, Paid
<1>3. ASSUME NEW c \in Clients, NEW x \in Orders,
             Accept(c, x) \/ Advance(c, x) \/ Reject(c, x) \/ Refund(c, x)
      PROVE  Held(db.order[o]) = 0 /\ Held(db'.order[o]) = 0
  <2>1. PICK doc \in OrderDocs :
           /\ Change(c, x, doc)
           /\ doc.taken = Order(c, x).taken
           /\ \/ doc.status # "cancelled"
              \/ doc.status = Order(c, x).status
              \/ Held(Order(c, x)) = 0 /\ doc.returned = Order(c, x).returned
    BY <1>3, StaffEffect
  <2>2. snap[c] # NoSnapshot
    BY <1>3 DEF Accept, Advance, Reject, Refund, Staff
  <2>3. /\ Kept(snap[c].order[x], doc, db.order[x], db'.order[x])
        /\ \A y \in Orders \ {x} : db'.order[y] = db.order[y]
    BY <2>1, <2>2, ChangeEffect
  <2>4. x = o /\ db'.order[o] = doc /\ db.order[o] = Order(c, o)
    BY <2>3 DEF Kept, Order
  <2> QED
    BY <2>1, <2>4 DEF Held
<1>4. ASSUME NEW c \in Clients, Step(c) \/ NotInitiated(c), ~Settle(c)
      PROVE  db'.order = db.order
  <2>1. CASE CreateIntent(c) \/ Initiated(c) \/ NotInitiated(c)
    <3>1. StatusWritten
      BY <1>0, <2>1, StatusWrite DEF CreateIntent, Initiated, NotInitiated, At,
         Handlers, Statuses
    <3> QED
      BY <3>1 DEF StatusWritten
  <2>2. CASE WriteUnsuccessful(c)
    <3>1. StatusWritten
      BY <1>0, <2>2, SaveEffect DEF WriteUnsuccessful, At, Handlers
    <3> QED
      BY <3>1 DEF StatusWritten
  <2>3. CASE ReadIntent(c) \/ RecordEvent(c) \/ Ask(c) \/ AskCancel(c)
               \/ AlreadySettled(c)
    BY <2>3 DEF ReadIntent, RecordEvent, Ask, AskCancel, AlreadySettled, Unchanged,
       End
  <2> QED
    BY <1>4, <2>1, <2>2, <2>3 DEF Step
<1>5. ASSUME NEW c \in Clients,
             Guest(c) \/ Fail(c) \/ BeginTransaction(c) \/ Refused(c)
      PROVE  db'.order = db.order
  BY <1>5 DEF Guest, StartPayment, Return, PollStatus, CancelPayment, Unchanged,
     Fail, BeginTransaction, Refused, Begin, End
<1>6. ASSUME NEW i \in Intents, NEW end, AtGateway(i, end)
      PROVE  db'.order = db.order
  BY <1>6 DEF AtGateway
<1> QED
  BY <1>1, <1>2, <1>3, <1>4, <1>5, <1>6 DEF Next, vars

\* No order is rejected or cancelled over the guest's money, also when the
\* payment settles while the staff decides.
THEOREM RejectionsStrandNothing == Spec => RejectionStrandsNothing
<1>1. TypeOK /\ [Next]_vars =>
        [\A o \in Orders :
            db'.order[o].status = "cancelled" /\ db.order[o].status # "cancelled"
                => Held(db.order[o]) = 0 /\ Held(db'.order[o]) = 0]_vars
  BY RejectionStep
<1> QED
  BY <1>1, TypeCorrect, PTL DEF Spec, RejectionStrandsNothing
===============================================================================
