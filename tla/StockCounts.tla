------------------------------ MODULE StockCounts ------------------------------
(***************************************************************************)
(* Physical stock counts of one branch (services/stockCounts.js and        *)
(* stockCountRecovery.js): a sheet captures the balances, people count the *)
(* shelves while the kitchen goes on, and an approval posts the variances. *)
(*                                                                         *)
(* The shelf is the world: goods also leave it with no record (spoilage,   *)
(* theft), which is what a count is there to find.  "missing" is a history *)
(* variable: what the books said too much when the line was counted.       *)
(***************************************************************************)
EXTENDS Integers, FiniteSets, Snapshots

CONSTANTS
    Items,
    Counts,       \* stock counts and their idempotency keys
    MaxOnHand,
    MaxMoves      \* bound on the movements, recorded or not, of an item

CountsAssumption == MaxOnHand \in Nat \ {0} /\ MaxMoves \in Nat

vars == <<db, snap, behind>>

Statuses ==
    {"absent", "draft", "counting", "submitted", "approved", "rejected", "stale"}

\* physicalQty is NotCounted until somebody enters it.
NotCounted == -1

Lines ==
    [system : 0..MaxOnHand, version : Nat, physical : {NotCounted} \cup 0..MaxOnHand,
     missing : Int]

CountDocs == [status : Statuses, active : BOOLEAN, line : [Items -> Lines]]

Databases ==
    [item : [Items -> [quantity : 0..MaxOnHand, version : Nat]],
     shelf : [Items -> [quantity : Nat, moves : 0..MaxMoves]],
     count : [Counts -> CountDocs]]

EDITABLE_STATUSES == {"draft", "counting"}

Active(d) == {k \in Counts : d.count[k].active}

Line0 == [system |-> 0, version |-> 0, physical |-> NotCounted, missing |-> 0]

Init ==
    /\ db = [item |-> [x \in Items |-> [quantity |-> 1, version |-> 0]],
             shelf |-> [x \in Items |-> [quantity |-> 1, moves |-> 0]],
             count |-> [k \in Counts |->
                 [status |-> "absent", active |-> FALSE, line |-> [x \in Items |-> Line0]]]]
    /\ OutsideTransactions

\* Any movement of stock: balance, ledger version and shelf.
Move(c, x, qty) ==
    LET d == View(c)
    IN  /\ d.item[x].quantity + qty \in 0..MaxOnHand
        /\ d.shelf[x].quantity + qty >= 0
        /\ d.shelf[x].moves < MaxMoves
        /\ Commit(c, [d EXCEPT
              !.item[x] = [quantity |-> @.quantity + qty, version |-> @.version + 1],
              !.shelf[x] = [quantity |-> @.quantity + qty, moves |-> @.moves + 1]])

\* Something disappears and nobody records it.
Shrink(x) ==
    /\ db.shelf[x].quantity > 0
    /\ db.shelf[x].moves < MaxMoves
    /\ Commit(Prompt, [db EXCEPT !.shelf[x] = [quantity |-> @.quantity - 1,
                                               moves |-> @.moves + 1]])

\* Mutant: the lock is only looked for, in the snapshot.
UnlockedFree(c) == Active(View(c)) = {}

\* One active count per branch: looked for in the snapshot, and a unique index.
BranchFree(c) == Active(View(c)) = {} /\ Active(db) = {}

\* createStockCount; of "cycle" scope when it has some of the items only.
Create(c, k) ==
    LET d == View(c)
    IN  /\ d.count[k].status = "absent"
        /\ BranchFree(c)
        /\ Commit(c, [d EXCEPT !.count[k] =
              [status |-> "draft", active |-> TRUE,
               line |-> [x \in Items |-> [system |-> d.item[x].quantity,
                                          version |-> d.item[x].version,
                                          physical |-> NotCounted, missing |-> 0]]]])

\* updateStockCount: a line is counted, again, or cleared.
Enter(c, k, x, physical) ==
    LET d == View(c)
        line == [d.count[k].line EXCEPT ![x].physical = physical,
                                        ![x].missing = d.item[x].quantity - physical]
    IN  /\ d.count[k].status \in EDITABLE_STATUSES
        /\ physical \in {NotCounted, d.shelf[x].quantity}
        /\ Commit(c, [d EXCEPT !.count[k] =
              [status |-> IF \E y \in Items : line[y].physical # NotCounted
                          THEN "counting" ELSE @.status,
               active |-> @.active, line |-> line]])

\* submitStockCount
Submit(c, k) ==
    LET d == View(c)
    IN  /\ d.count[k].status \in EDITABLE_STATUSES
        /\ \A x \in Items : d.count[k].line[x].physical # NotCounted
        /\ Commit(c, [d EXCEPT !.count[k].status = "submitted"])

\* Mutant: an approval posts, whatever moved.
NeverStale(d, k) == {}

\* Mutant: stock that moved back to the captured quantity has not moved.
StaleByQuantity(d, k) ==
    {x \in Items : d.item[x].quantity # d.count[k].line[x].system}

Stale(d, k) ==
    {x \in Items : \/ d.item[x].quantity # d.count[k].line[x].system
                   \/ d.item[x].version # d.count[k].line[x].version}

Released(doc, status) == [doc EXCEPT !.status = status, !.active = FALSE]

\* decideStockCount
Reject(c, k) ==
    /\ View(c).count[k].status = "submitted"
    /\ Commit(c, [View(c) EXCEPT !.count[k] = Released(@, "rejected")])

\* Approved after the stock moved: the count is set aside instead.
SetAside(c, k) ==
    /\ View(c).count[k].status = "submitted"
    /\ Stale(View(c), k) # {}
    /\ Commit(c, [View(c) EXCEPT !.count[k] = Released(@, "stale")])

Variance(line) == line.physical - line.system

Approve(c, k) ==
    LET d == View(c)
        line == d.count[k].line
    IN  /\ d.count[k].status = "submitted"
        /\ Stale(d, k) = {}
        /\ Commit(c, [d EXCEPT
              !.count[k] = Released(@, "approved"),
              !.item = [x \in Items |->
                  IF Variance(line[x]) = 0 THEN @[x]
                  ELSE [quantity |-> @[x].quantity + Variance(line[x]),
                        version |-> @[x].version + 1]]])

\* recoverLockedSessions: a submitted count that nobody may decide (an ingredient is
\* gone, no independent approver is left: either is left open here).
Recover(c, k) ==
    /\ View(c).count[k].status = "submitted"
    /\ View(c).count[k].active
    /\ Commit(c, [View(c) EXCEPT !.count[k] = Released(@, "stale")])

Refused(c) == End(c)

CountStep(c, k) ==
    \/ Create(c, k)
    \/ \E x \in Items, physical \in {NotCounted} \cup (0..MaxOnHand) : Enter(c, k, x, physical)
    \/ Submit(c, k)
    \/ Reject(c, k) \/ SetAside(c, k) \/ Approve(c, k)
    \/ Recover(c, k)

Next ==
    \/ \E c \in Clients : Begin(c) \/ Refused(c)
    \/ \E x \in Items : Shrink(x)
    \/ \E c \in Callers :
        /\ Reads(c)
        /\ \/ \E k \in Counts : CountStep(c, k)
           \/ \E x \in Items, qty \in {-1, 1} : Move(c, x, qty)

Spec == Init /\ [][Next]_vars

-------------------------------------------------------------------------------
TypeOK ==
    /\ db \in Databases
    /\ snap \in [Clients -> Databases \cup {NoSnapshot}]

\* One sheet at a time is open in the branch, so no variance is posted twice.
OneActiveCount ==
    /\ Cardinality(Active(db)) <= 1
    /\ \A k \in Counts : db.count[k].active
           <=> db.count[k].status \in {"draft", "counting", "submitted"}

\* An approval corrects the books by exactly what was missing from the shelf when the
\* line was counted, whatever moved, back or forth, since the sheet was drawn up.
ApprovalExplains ==
    \A k \in Counts :
        db'.count[k].status = "approved" /\ db.count[k].status # "approved" =>
            \A x \in Items :
                db'.item[x].quantity = db.item[x].quantity - db.count[k].line[x].missing

CountExplains == [][ApprovalExplains]_vars
===============================================================================
