------------------------------- MODULE AuditTrail -------------------------------
(***************************************************************************)
(* The chain of a restaurant's audit rows (services/auditTrail.js), as one *)
(* server writes it: a row is numbered and linked to the one before it     *)
(* when it is validated, and inserted later, with others on the way, or    *)
(* not at all when its transaction aborts or the server stops.             *)
(***************************************************************************)
EXTENDS Integers

CONSTANTS
    Requests,
    MaxRows,
    MaxLost       \* how many inserts fail

AuditAssumption == MaxRows \in Nat /\ MaxLost \in Nat

VARIABLES
    rows,         \* the audits
    pending,      \* pendingHeads
    lost,         \* how many numbers were given out for nothing
    asks

vars == <<rows, pending, lost, asks>>

\* The hash of a row stands for what it covers: the number, and who wrote it.
Rows == [sequence : 1..MaxRows + MaxLost, by : Requests, prevHash : 0..MaxRows + MaxLost]

\* Before the first row; GENESIS
NoHead == 0

AskDocs == [pc : {"idle", "reading", "inserting"}, stored : Int, sequence : Int, prevHash : Int]

NoAsk == [pc |-> "idle", stored |-> NoHead, sequence |-> 0, prevHash |-> NoHead]

Init ==
    /\ rows = {}
    /\ pending = NoHead
    /\ lost = 0
    /\ asks = [r \in Requests |-> NoAsk]

At(r, ask) == asks' = [asks EXCEPT ![r] = ask]

\* chainHead: the highest number that is stored
chainHead ==
    IF rows = {} THEN NoHead
    ELSE (CHOOSE row \in rows : \A other \in rows : other.sequence <= row.sequence).sequence

OnTheWay == {r \in Requests : asks[r].pc = "inserting"}

\* The stored head is read, as of the snapshot when the row belongs to a transaction.
Read(r) ==
    /\ asks[r].pc = "idle"
    /\ chainHead < MaxRows
    /\ At(r, [NoAsk EXCEPT !.pc = "reading", !.stored = chainHead])
    /\ UNCHANGED <<rows, pending, lost>>

\* Mutant: the stored head is the head.
StoredHead(stored) == stored

\* The head that this server has given out, when it is ahead of the stored one.
Head(stored) == IF pending > stored THEN pending ELSE stored

Stamp(r) ==
    LET head == Head(asks[r].stored)
    IN  /\ asks[r].pc = "reading"
        /\ head < MaxRows + MaxLost
        /\ At(r, [asks[r] EXCEPT !.pc = "inserting", !.sequence = head + 1,
                                 !.prevHash = head])
        /\ pending' = head + 1
        /\ UNCHANGED <<rows, lost>>

Insert(r) ==
    /\ asks[r].pc = "inserting"
    /\ rows' = rows \cup {[sequence |-> asks[r].sequence, by |-> r,
                           prevHash |-> asks[r].prevHash]}
    /\ At(r, NoAsk)
    /\ UNCHANGED <<pending, lost>>

\* recordAudit swallows the error; a transaction that aborts takes its row with it, and
\* is perhaps tried again with another.
Fail(r) ==
    /\ asks[r].pc = "inserting" /\ lost < MaxLost
    /\ lost' = lost + 1
    /\ At(r, NoAsk)
    /\ UNCHANGED <<rows, pending>>

\* What was pending is forgotten, the requests and their rows are gone.
Restart ==
    /\ OnTheWay # {} /\ lost < MaxLost
    /\ pending' = NoHead
    /\ lost' = lost + 1
    /\ asks' = [r \in Requests |-> NoAsk]
    /\ UNCHANGED rows

AuditStep(r) == Read(r) \/ Stamp(r) \/ Insert(r) \/ Fail(r)

Next == Restart \/ \E r \in Requests : AuditStep(r)

Spec == Init /\ [][Next]_vars

-------------------------------------------------------------------------------
\* verifyAuditChain, over rows whose contents nobody changed: numbers and links
Verified ==
    \A row \in rows :
        /\ \A other \in rows \ {row} : other.sequence # row.sequence
        /\ \/ \A other \in rows : row.sequence <= other.sequence
           \/ \E other \in rows : /\ other.sequence = row.sequence - 1
                                  /\ other.sequence = row.prevHash

Quiet == OnTheWay = {}

TypeOK ==
    /\ rows \subseteq Rows
    /\ pending \in 0..MaxRows + MaxLost
    /\ lost \in 0..MaxLost
    /\ asks \in [Requests -> AskDocs]

\* auditTrail.js:116: two rows written at the same time never share a number, nor what they
\* follow, even when the server stops between the two; and as long as every row that was
\* numbered was stored, the chain verifies whenever no row is on its way.
NoFork ==
    /\ \A row, other \in rows :
          row # other => row.sequence # other.sequence /\ row.prevHash # other.prevHash
    /\ Quiet /\ lost = 0 => Verified

\* README:136: there are no false alarms: whenever no row is on its way, the chain verifies
\* if nobody touched the stored rows.
NoFalseAlarm == Quiet => Verified
===============================================================================
