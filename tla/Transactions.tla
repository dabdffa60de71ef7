---------------------------- MODULE Transactions ------------------------------
(***************************************************************************)
(* MongoDB transactions as the services use them:                          *)
(* session.withTransaction(callback) around every handler that moves       *)
(* stock.  The callback reads from the snapshot it began with; its writes  *)
(* take effect together, and only if no document it changed was changed    *)
(* by a transaction that committed in between.  Otherwise the driver runs  *)
(* the callback again from a new snapshot.                                 *)
(*                                                                         *)
(* The database is a record of collections, a collection a function from   *)
(* document identities to documents.                                       *)
(***************************************************************************)
CONSTANTS
    Clients,      \* requests served at the same time
    NoSnapshot    \* a client outside a transaction

VARIABLES
    db,     \* what is committed
    snap    \* the snapshot of each client's open transaction

Unwritten(old, new, doc) == new[doc] = old[doc]

\* The documents of one collection, after the writes of old -> new.
Merged(old, new, cur) ==
    [doc \in DOMAIN cur |->
        IF Unwritten(old, new, doc) THEN cur[doc] ELSE new[doc]]

\* Mutant: the writes do not carry the session, so nothing detects a conflict.
WithoutSession(old, new, cur) == TRUE

\* Nobody else committed a change to a document this transaction writes.
NoConflict(old, new, cur) ==
    \A coll \in DOMAIN cur : \A doc \in DOMAIN cur[coll] :
        cur[coll][doc] # old[coll][doc] => Unwritten(old[coll], new[coll], doc)

Begin(c) ==
    /\ snap[c] # db
    /\ snap' = [snap EXCEPT ![c] = db]
    /\ UNCHANGED db

\* The callback throws, or returns what an earlier request did: no write.
End(c) ==
    /\ snap[c] # NoSnapshot
    /\ snap' = [snap EXCEPT ![c] = NoSnapshot]
    /\ UNCHANGED db

Commit(c, new) ==
    /\ NoConflict(snap[c], new, db)
    /\ db' = [coll \in DOMAIN db |-> Merged(snap[c][coll], new[coll], db[coll])]
    /\ snap' = [snap EXCEPT ![c] = NoSnapshot]
===============================================================================
