------------------------------- MODULE Snapshots -------------------------------
(***************************************************************************)
(* MongoDB transactions, as in Transactions, for documents that may return *)
(* to a value they had before: a conflict is a write since the snapshot,   *)
(* whatever it wrote, so each open transaction is followed by the set of   *)
(* documents written behind its back.  (Transactions compares values and   *)
(* so allows more; a Mongoose save that changes nothing writes nothing in  *)
(* both.)                                                                  *)
(*                                                                         *)
(* A request of Clients reads when it begins and writes any number of      *)
(* others' steps later.  The requests of Prompt read and write in one      *)
(* step: they stand for all the rest of the traffic.                       *)
(***************************************************************************)
CONSTANTS
    Clients,      \* requests that others may overtake
    Prompt,       \* any request that none overtakes
    NoSnapshot    \* a client that has read nothing

PromptAssumption == Prompt \notin Clients

VARIABLES
    db,       \* what is committed: a record of collections
    snap,     \* what each client read: the snapshot of its transaction
    behind    \* what others wrote since: pairs of collection and document

Callers == Clients \cup {Prompt}

\* The documents in which two databases differ.
Written(old, new) ==
    UNION {{<<coll, doc>> : doc \in {d \in DOMAIN new[coll] :
                                        new[coll][d] # old[coll][d]}} :
           coll \in DOMAIN new}

\* What one session's writes do to the others.
Overtaken(c, docs) ==
    [d \in Clients |->
        IF d = c \/ snap[d] = NoSnapshot THEN {} ELSE behind[d] \cup docs]

\* A caller may go on: it read, or reads now.
Reads(c) == c \in Clients => snap[c] # NoSnapshot

\* What the caller sees.
View(c) == IF c \in Clients THEN snap[c] ELSE db

Ended(c) == [d \in Clients |-> IF d = c THEN NoSnapshot ELSE snap[d]]

\* Mutant: the writes do not carry the session, so nothing detects a conflict.
WithoutSession(c, docs) == TRUE

\* Nobody else wrote a document this transaction writes.
NoConflict(c, docs) == c \in Clients => docs \cap behind[c] = {}

Begin(c) ==
    /\ snap[c] = NoSnapshot
    /\ snap' = [snap EXCEPT ![c] = db]
    /\ UNCHANGED <<db, behind>>

\* The callback throws, is answered from what is stored, or is tried again.
End(c) ==
    /\ snap[c] # NoSnapshot
    /\ snap' = Ended(c)
    /\ behind' = [behind EXCEPT ![c] = {}]
    /\ UNCHANGED db

Commit(c, new) ==
    LET docs == Written(View(c), new)
    IN  /\ NoConflict(c, docs)
        /\ db' = [coll \in DOMAIN db |-> [doc \in DOMAIN db[coll] |->
                     IF <<coll, doc>> \in docs THEN new[coll][doc] ELSE db[coll][doc]]]
        /\ snap' = Ended(c)
        /\ behind' = Overtaken(c, docs)

\* A commit that saves documents of which it changes nothing that is modelled.
CommitSaved(c, new, saved) ==
    LET docs == Written(View(c), new) \cup saved
    IN  /\ NoConflict(c, docs)
        /\ db' = [coll \in DOMAIN db |-> [doc \in DOMAIN db[coll] |->
                     IF <<coll, doc>> \in docs THEN new[coll][doc] ELSE db[coll][doc]]]
        /\ snap' = Ended(c)
        /\ behind' = Overtaken(c, docs)

\* A Mongoose save outside a transaction: the fields that were changed are set,
\* on whatever the documents are by now.
Save(c, new) ==
    LET read == View(c)
    IN  /\ db' = [coll \in DOMAIN db |-> [doc \in DOMAIN db[coll] |->
                     IF new[coll][doc] = read[coll][doc] THEN db[coll][doc]
                     ELSE [field \in DOMAIN db[coll][doc] |->
                              IF new[coll][doc][field] # read[coll][doc][field]
                              THEN new[coll][doc][field] ELSE db[coll][doc][field]]]]
        /\ snap' = Ended(c)
        /\ behind' = Overtaken(c, Written(db, db'))

\* An atomic update of what is stored now, outside any transaction; the handler
\* goes on with what it read before.
Update(c, new) ==
    /\ db' = new
    /\ behind' = Overtaken(c, Written(db, new))
    /\ UNCHANGED snap

OutsideTransactions ==
    /\ snap = [c \in Clients |-> NoSnapshot]
    /\ behind = [c \in Clients |-> {}]
===============================================================================
