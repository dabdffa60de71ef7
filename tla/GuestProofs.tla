------------------------------ MODULE GuestProofs -----------------------------
(***************************************************************************)
(* What a restaurant promises its guests, whatever the number of tables,   *)
(* customers, coupons and requests: a table, a profile and a discount are  *)
(* given once.  And, from the invariants of every part, that all documents *)
(* keep their shapes.                                                      *)
(***************************************************************************)
EXTENDS RestaurantProofs

-------------------------------------------------------------------------------
(* Customers.                                                              *)

\* The transactions are those of Snapshots.
LEMMA CustomersSnapshots ==
  /\ \A c : G!View(c) = V!View(c) /\ (G!Reads(c) <=> V!Reads(c))
  /\ \A c : (G!Begin(c) <=> V!Begin(c)) /\ (G!End(c) <=> V!End(c)) /\ G!Ended(c) = V!Ended(c)
  /\ \A c, docs : G!Overtaken(c, docs) = V!Overtaken(c, docs)
  /\ \A old, new : G!Written(old, new) = V!Written(old, new)
  /\ \A c, new : G!Commit(c, new) <=> V!Commit(c, new)
  /\ \A c, new : G!Save(c, new) <=> V!Save(c, new)
  /\ G!Callers = V!Callers
<1>1. \A c : G!View(c) = V!View(c) /\ (G!Reads(c) <=> V!Reads(c))
  BY DEF G!View, V!View, G!Reads, V!Reads
<1>2. \A c : (G!Begin(c) <=> V!Begin(c)) /\ (G!End(c) <=> V!End(c)) /\ G!Ended(c) = V!Ended(c)
  BY DEF G!Begin, V!Begin, G!End, V!End, G!Ended, V!Ended
<1>3. \A c, docs : G!Overtaken(c, docs) = V!Overtaken(c, docs)
  BY DEF G!Overtaken, V!Overtaken
<1>4. \A old, new : G!Written(old, new) = V!Written(old, new)
  BY DEF G!Written, V!Written
<1>5. \A c, new : G!Commit(c, new) <=> V!Commit(c, new)
  BY DEF G!Commit, V!Commit, G!NoConflict, V!NoConflict, G!View, V!View, G!Written, V!Written,
     G!Ended, V!Ended, G!Overtaken, V!Overtaken
<1>6. \A c, new : G!Save(c, new) <=> V!Save(c, new)
  BY DEF G!Save, V!Save, G!View, V!View, G!Written, V!Written, G!Ended, V!Ended,
     G!Overtaken, V!Overtaken
<1>7. G!Callers = V!Callers
  BY DEF G!Callers, V!Callers
<1> QED
  BY <1>1, <1>2, <1>3, <1>4, <1>5, <1>6, <1>7

\* What a request sees is a database.
LEMMA CustomersView ==
  ASSUME G!TypeOK, NEW c \in G!Callers, G!Reads(c)
  PROVE  G!View(c) \in G!Databases
BY DEF G!TypeOK, G!View, G!Reads

\* A database is its three collections.
LEMMA CustomersRecord ==
  ASSUME NEW d \in G!Databases
  PROVE  /\ DOMAIN d = {"profile", "sale", "index"}
         /\ DOMAIN d.profile = Profiles /\ DOMAIN d.sale = Sales /\ DOMAIN d.index = {"phone"}
         /\ d = [profile |-> d.profile, sale |-> d.sale, index |-> d.index]
         /\ d.profile \in [Profiles -> G!ProfileDocs]
         /\ d.sale \in [Sales -> G!SaleDocs]
         /\ d.index \in [{"phone"} -> [built : BOOLEAN]]
         /\ \A doc \in Profiles : d.profile[doc] \in G!ProfileDocs
         /\ \A doc \in Sales : d.sale[doc] \in G!SaleDocs
         /\ \A doc \in {"phone"} : d.index[doc] \in [built : BOOLEAN]
BY DEF G!Databases

\* Documents of their kinds make a database.
LEMMA CustomersOf ==
  ASSUME NEW d, NEW e \in G!Databases,
         d = [coll \in DOMAIN e |-> d[coll]],
         \A coll \in DOMAIN e : d[coll] = [doc \in DOMAIN e[coll] |-> d[coll][doc]],
         \A doc \in Profiles : d.profile[doc] \in G!ProfileDocs,
         \A doc \in Sales : d.sale[doc] \in G!SaleDocs,
         \A doc \in {"phone"} : d.index[doc] \in [built : BOOLEAN]
  PROVE  d \in G!Databases
<1>1. /\ DOMAIN e = {"profile", "sale", "index"}
      /\ DOMAIN e.profile = Profiles /\ DOMAIN e.sale = Sales /\ DOMAIN e.index = {"phone"}
  BY CustomersRecord
<1>2. d = [profile |-> d.profile, sale |-> d.sale, index |-> d.index]
  BY <1>1
<1>3. d.profile \in [Profiles -> G!ProfileDocs]
  <2>1. d.profile = [doc \in Profiles |-> d.profile[doc]]
    BY <1>1
  <2> QED
    BY <2>1
<1>4. d.sale \in [Sales -> G!SaleDocs]
  <2>1. d.sale = [doc \in Sales |-> d.sale[doc]]
    BY <1>1
  <2> QED
    BY <2>1
<1>5. d.index \in [{"phone"} -> [built : BOOLEAN]]
  <2>1. d.index = [doc \in {"phone"} |-> d.index[doc]]
    BY <1>1
  <2> QED
    BY <2>1
<1> QED
  BY <1>2, <1>3, <1>4, <1>5 DEF G!Databases

\* What a commit makes of the collections.
LEMMA CustomersCommit ==
  ASSUME G!TypeOK, NEW c \in G!Callers, G!Reads(c), NEW new \in G!Databases,
         G!Commit(c, new)
  PROVE  /\ G!TypeOK' /\ snap' = V!Ended(c) /\ behind' = V!Overtaken(c, V!Written(G!View(c), new))
         /\ \A doc \in Profiles :
               db'.profile[doc] = IF new.profile[doc] = G!View(c).profile[doc]
                              THEN db.profile[doc] ELSE new.profile[doc]
         /\ \A doc \in Sales :
               db'.sale[doc] = IF new.sale[doc] = G!View(c).sale[doc]
                              THEN db.sale[doc] ELSE new.sale[doc]
         /\ \A doc \in {"phone"} :
               db'.index[doc] = IF new.index[doc] = G!View(c).index[doc]
                              THEN db.index[doc] ELSE new.index[doc]
<1> DEFINE read == G!View(c)
<1>1. /\ db \in G!Databases /\ read \in G!Databases
      /\ V!Commit(c, new) /\ read = V!View(c) /\ c \in V!Callers /\ V!Reads(c)
  BY CustomersSnapshots, CustomersView DEF G!TypeOK
<1>2. Alike(new, db) /\ Alike(read, db)
  BY <1>1, CustomersRecord DEF Alike
<1>3. \A coll \in DOMAIN db : \A doc \in DOMAIN db[coll] :
         db'[coll][doc] = IF new[coll][doc] = read[coll][doc]
                          THEN db[coll][doc] ELSE new[coll][doc]
  <2> HIDE DEF read
  <2> QED
    BY <1>1, <1>2, CommitSets
<1>4. /\ DOMAIN db = {"profile", "sale", "index"}
      /\ DOMAIN db.profile = Profiles /\ DOMAIN db.sale = Sales /\ DOMAIN db.index = {"phone"}
  BY <1>1, CustomersRecord
<1>5. /\ db' = [coll \in DOMAIN db |-> db'[coll]]
      /\ \A coll \in DOMAIN db : db'[coll] = [doc \in DOMAIN db[coll] |-> db'[coll][doc]]
      /\ snap' = V!Ended(c) /\ behind' = V!Overtaken(c, V!Written(read, new))
  BY <1>1 DEF V!Commit
<1> HIDE DEF read
<1>6. \A doc \in Profiles : db'.profile[doc] \in G!ProfileDocs
  BY <1>1, <1>3, <1>4, CustomersRecord
<1>7. \A doc \in Sales : db'.sale[doc] \in G!SaleDocs
  BY <1>1, <1>3, <1>4, CustomersRecord
<1>8. \A doc \in {"phone"} : db'.index[doc] \in [built : BOOLEAN]
  BY <1>1, <1>3, <1>4, CustomersRecord
<1>9. db' \in G!Databases
  BY <1>1, <1>5, <1>6, <1>7, <1>8, CustomersOf
<1>10. snap' \in [Clients -> G!Databases \cup {NoSnapshot}]
  BY <1>5 DEF V!Ended, G!TypeOK
<1>11. G!TypeOK'
  BY <1>9, <1>10 DEF G!TypeOK
<1>12. \A doc \in Profiles :
          db'.profile[doc] = IF new.profile[doc] = read.profile[doc] THEN db.profile[doc]
                             ELSE new.profile[doc]
  BY <1>3, <1>4
<1>13. \A doc \in Sales :
          db'.sale[doc] = IF new.sale[doc] = read.sale[doc] THEN db.sale[doc] ELSE new.sale[doc]
  BY <1>3, <1>4
<1>14. \A doc \in {"phone"} :
          db'.index[doc] = IF new.index[doc] = read.index[doc] THEN db.index[doc]
                           ELSE new.index[doc]
  BY <1>3, <1>4
<1> QED
  BY <1>3, <1>5, <1>11, <1>12, <1>13, <1>14 DEF read

\* A save sets the fields that it changed, whatever they are by now.
LEMMA CustomersSave ==
  ASSUME G!TypeOK, NEW c \in G!Callers, G!Reads(c), NEW new \in G!Databases,
         G!Save(c, new)
  PROVE  /\ G!TypeOK' /\ snap' = V!Ended(c) /\ behind' = V!Overtaken(c, V!Written(db, db'))
         /\ \A doc \in Profiles :
               db'.profile[doc] = IF new.profile[doc] = G!View(c).profile[doc] THEN db.profile[doc]
                              ELSE [field \in DOMAIN db.profile[doc] |->
                                       IF new.profile[doc][field] # G!View(c).profile[doc][field]
                                       THEN new.profile[doc][field] ELSE db.profile[doc][field]]
         /\ \A doc \in Sales :
               db'.sale[doc] = IF new.sale[doc] = G!View(c).sale[doc] THEN db.sale[doc]
                              ELSE [field \in DOMAIN db.sale[doc] |->
                                       IF new.sale[doc][field] # G!View(c).sale[doc][field]
                                       THEN new.sale[doc][field] ELSE db.sale[doc][field]]
         /\ \A doc \in {"phone"} :
               db'.index[doc] = IF new.index[doc] = G!View(c).index[doc] THEN db.index[doc]
                              ELSE [field \in DOMAIN db.index[doc] |->
                                       IF new.index[doc][field] # G!View(c).index[doc][field]
                                       THEN new.index[doc][field] ELSE db.index[doc][field]]
<1> DEFINE read == G!View(c)
<1>1. /\ db \in G!Databases /\ read \in G!Databases
      /\ V!Save(c, new) /\ read = V!View(c)
  BY CustomersSnapshots, CustomersView DEF G!TypeOK
<1>2. /\ DOMAIN db = {"profile", "sale", "index"}
      /\ DOMAIN db.profile = Profiles /\ DOMAIN db.sale = Sales /\ DOMAIN db.index = {"phone"}
  BY <1>1, CustomersRecord
<1>3. /\ Alike(db', db)
      /\ \A coll \in DOMAIN db : \A doc \in DOMAIN db[coll] :
         db'[coll][doc] = IF new[coll][doc] = read[coll][doc] THEN db[coll][doc]
                          ELSE [field \in DOMAIN db[coll][doc] |->
                                   IF new[coll][doc][field] # read[coll][doc][field]
                                   THEN new[coll][doc][field] ELSE db[coll][doc][field]]
  <2> HIDE DEF read
  <2> QED
    BY <1>1, SaveSets
<1>4. /\ db' = [coll \in DOMAIN db |-> db'[coll]]
      /\ \A coll \in DOMAIN db : db'[coll] = [doc \in DOMAIN db[coll] |-> db'[coll][doc]]
      /\ snap' = V!Ended(c) /\ behind' = V!Overtaken(c, V!Written(db, db'))
  BY <1>1 DEF V!Save
<1> HIDE DEF read
<1>5. \A doc \in Profiles :
          db'.profile[doc] = IF new.profile[doc] = read.profile[doc] THEN db.profile[doc]
                         ELSE [field \in DOMAIN db.profile[doc] |->
                                  IF new.profile[doc][field] # read.profile[doc][field]
                                  THEN new.profile[doc][field] ELSE db.profile[doc][field]]
  BY <1>2, <1>3
<1>6. ASSUME NEW k \in Profiles PROVE db'.profile[k] \in G!ProfileDocs
  <2>1. db.profile[k] \in G!ProfileDocs /\ new.profile[k] \in G!ProfileDocs
    BY <1>1, CustomersRecord
  <2>2. PICK doc : doc = [field \in DOMAIN db.profile[k] |->
                             IF new.profile[k][field] # read.profile[k][field]
                             THEN new.profile[k][field] ELSE db.profile[k][field]]
    OBVIOUS
  <2>3. db'.profile[k] = db.profile[k] \/ db'.profile[k] = doc
    BY <1>5, <2>2
  <2>4. doc \in G!ProfileDocs
    <3>1. DOMAIN db.profile[k] = {"exists", "phone", "phoneKey", "mergedInto", "points", "spend"}
      BY <2>1 DEF G!ProfileDocs
    <3>2. doc = [exists |-> doc.exists, phone |-> doc.phone, phoneKey |-> doc.phoneKey,
                 mergedInto |-> doc.mergedInto, points |-> doc.points, spend |-> doc.spend]
      BY <2>2, <3>1
    <3>3. /\ doc.exists \in {db.profile[k].exists, new.profile[k].exists}
          /\ doc.phone \in {db.profile[k].phone, new.profile[k].phone}
          /\ doc.phoneKey \in {db.profile[k].phoneKey, new.profile[k].phoneKey}
          /\ doc.mergedInto \in {db.profile[k].mergedInto, new.profile[k].mergedInto}
          /\ doc.points \in {db.profile[k].points, new.profile[k].points}
          /\ doc.spend \in {db.profile[k].spend, new.profile[k].spend}
      BY <2>2, <3>1
    <3> QED
      BY <2>1, <3>2, <3>3 DEF G!ProfileDocs
  <2> QED
    BY <2>1, <2>3, <2>4
<1>7. \A doc \in Sales :
          db'.sale[doc] = IF new.sale[doc] = read.sale[doc] THEN db.sale[doc]
                         ELSE [field \in DOMAIN db.sale[doc] |->
                                  IF new.sale[doc][field] # read.sale[doc][field]
                                  THEN new.sale[doc][field] ELSE db.sale[doc][field]]
  BY <1>2, <1>3
<1>8. ASSUME NEW k \in Sales PROVE db'.sale[k] \in G!SaleDocs
  <2>1. db.sale[k] \in G!SaleDocs /\ new.sale[k] \in G!SaleDocs
    BY <1>1, CustomersRecord
  <2>2. PICK doc : doc = [field \in DOMAIN db.sale[k] |->
                             IF new.sale[k][field] # read.sale[k][field]
                             THEN new.sale[k][field] ELSE db.sale[k][field]]
    OBVIOUS
  <2>3. db'.sale[k] = db.sale[k] \/ db'.sale[k] = doc
    BY <1>7, <2>2
  <2>4. doc \in G!SaleDocs
    <3>1. DOMAIN db.sale[k] = {"status", "customer"}
      BY <2>1 DEF G!SaleDocs
    <3>2. doc = [status |-> doc.status, customer |-> doc.customer]
      BY <2>2, <3>1
    <3>3. /\ doc.status \in {db.sale[k].status, new.sale[k].status}
          /\ doc.customer \in {db.sale[k].customer, new.sale[k].customer}
      BY <2>2, <3>1
    <3> QED
      BY <2>1, <3>2, <3>3 DEF G!SaleDocs
  <2> QED
    BY <2>1, <2>3, <2>4
<1>9. \A doc \in {"phone"} :
          db'.index[doc] = IF new.index[doc] = read.index[doc] THEN db.index[doc]
                         ELSE [field \in DOMAIN db.index[doc] |->
                                  IF new.index[doc][field] # read.index[doc][field]
                                  THEN new.index[doc][field] ELSE db.index[doc][field]]
  BY <1>2, <1>3
<1>10. ASSUME NEW k \in {"phone"} PROVE db'.index[k] \in [built : BOOLEAN]
  <2>1. db.index[k] \in [built : BOOLEAN] /\ new.index[k] \in [built : BOOLEAN]
    BY <1>1, CustomersRecord
  <2>2. PICK doc : doc = [field \in DOMAIN db.index[k] |->
                             IF new.index[k][field] # read.index[k][field]
                             THEN new.index[k][field] ELSE db.index[k][field]]
    OBVIOUS
  <2>3. db'.index[k] = db.index[k] \/ db'.index[k] = doc
    BY <1>9, <2>2
  <2>4. doc \in [built : BOOLEAN]
    <3>1. DOMAIN db.index[k] = {"built"}
      BY <2>1 DEF G!Databases
    <3>2. doc = [built |-> doc.built]
      BY <2>2, <3>1
    <3>3. /\ doc.built \in {db.index[k].built, new.index[k].built}
      BY <2>2, <3>1
    <3> QED
      BY <2>1, <3>2, <3>3 DEF G!Databases
  <2> QED
    BY <2>1, <2>3, <2>4
<1>11. db' \in G!Databases
  BY <1>1, <1>4, <1>6, <1>8, <1>10, CustomersOf
<1>12. snap' \in [Clients -> G!Databases \cup {NoSnapshot}]
  BY <1>4 DEF V!Ended, G!TypeOK
<1>13. G!TypeOK'
  BY <1>11, <1>12 DEF G!TypeOK
<1> QED
  BY <1>4, <1>13, <1>5, <1>7, <1>9 DEF read

\* A database with another profile collection, or one document of it replaced.
LEMMA CustomersProfileSet ==
  ASSUME NEW d \in G!Databases
  PROVE  /\ \A docs \in [Profiles -> G!ProfileDocs] :
               LET e == [d EXCEPT !.profile = docs]
               IN  e \in G!Databases /\ e.profile = docs /\ e.sale = d.sale /\ e.index = d.index
         /\ \A k \in Profiles, doc \in G!ProfileDocs :
               LET e == [d EXCEPT !.profile[k] = doc]
               IN  /\ e \in G!Databases /\ e.sale = d.sale /\ e.index = d.index
                   /\ e.profile = [d.profile EXCEPT ![k] = doc] /\ e.profile[k] = doc
                   /\ \A i \in Profiles \ {k} : e.profile[i] = d.profile[i]
<1>1. ASSUME NEW docs \in [Profiles -> G!ProfileDocs]
      PROVE  LET e == [d EXCEPT !.profile = docs]
             IN  e \in G!Databases /\ e.profile = docs /\ e.sale = d.sale /\ e.index = d.index
  <2>1. [d EXCEPT !.profile = docs] = [profile |-> docs, sale |-> d.sale, index |-> d.index]
    BY CustomersRecord
  <2> QED
    BY <2>1, CustomersRecord DEF G!Databases
<1>2. ASSUME NEW k \in Profiles, NEW doc \in G!ProfileDocs
      PROVE  LET e == [d EXCEPT !.profile[k] = doc]
             IN  /\ e \in G!Databases /\ e.sale = d.sale /\ e.index = d.index
                 /\ e.profile = [d.profile EXCEPT ![k] = doc] /\ e.profile[k] = doc
                 /\ \A i \in Profiles \ {k} : e.profile[i] = d.profile[i]
  <2> DEFINE docs == [d.profile EXCEPT ![k] = doc]
             e == [d EXCEPT !.profile[k] = doc]
  <2>1. e = [d EXCEPT !.profile = docs]
    OBVIOUS
  <2>2. /\ docs \in [Profiles -> G!ProfileDocs] /\ docs[k] = doc
        /\ \A i \in Profiles \ {k} : docs[i] = d.profile[i]
    BY CustomersRecord
  <2> HIDE DEF docs, e
  <2>3. e \in G!Databases /\ e.profile = docs /\ e.sale = d.sale /\ e.index = d.index
    BY <1>1, <2>1, <2>2
  <2> QED
    BY <2>2, <2>3 DEF docs, e
<1> QED
  BY <1>1, <1>2

\* A database with another sale collection, or one document of it replaced.
LEMMA CustomersSaleSet ==
  ASSUME NEW d \in G!Databases
  PROVE  /\ \A docs \in [Sales -> G!SaleDocs] :
               LET e == [d EXCEPT !.sale = docs]
               IN  e \in G!Databases /\ e.sale = docs /\ e.profile = d.profile /\ e.index = d.index
         /\ \A k \in Sales, doc \in G!SaleDocs :
               LET e == [d EXCEPT !.sale[k] = doc]
               IN  /\ e \in G!Databases /\ e.profile = d.profile /\ e.index = d.index
                   /\ e.sale = [d.sale EXCEPT ![k] = doc] /\ e.sale[k] = doc
                   /\ \A i \in Sales \ {k} : e.sale[i] = d.sale[i]
<1>1. ASSUME NEW docs \in [Sales -> G!SaleDocs]
      PROVE  LET e == [d EXCEPT !.sale = docs]
             IN  e \in G!Databases /\ e.sale = docs /\ e.profile = d.profile /\ e.index = d.index
  <2>1. [d EXCEPT !.sale = docs] = [profile |-> d.profile, sale |-> docs, index |-> d.index]
    BY CustomersRecord
  <2> QED
    BY <2>1, CustomersRecord DEF G!Databases
<1>2. ASSUME NEW k \in Sales, NEW doc \in G!SaleDocs
      PROVE  LET e == [d EXCEPT !.sale[k] = doc]
             IN  /\ e \in G!Databases /\ e.profile = d.profile /\ e.index = d.index
                 /\ e.sale = [d.sale EXCEPT ![k] = doc] /\ e.sale[k] = doc
                 /\ \A i \in Sales \ {k} : e.sale[i] = d.sale[i]
  <2> DEFINE docs == [d.sale EXCEPT ![k] = doc]
             e == [d EXCEPT !.sale[k] = doc]
  <2>1. e = [d EXCEPT !.sale = docs]
    OBVIOUS
  <2>2. /\ docs \in [Sales -> G!SaleDocs] /\ docs[k] = doc
        /\ \A i \in Sales \ {k} : docs[i] = d.sale[i]
    BY CustomersRecord
  <2> HIDE DEF docs, e
  <2>3. e \in G!Databases /\ e.sale = docs /\ e.profile = d.profile /\ e.index = d.index
    BY <1>1, <2>1, <2>2
  <2> QED
    BY <2>2, <2>3 DEF docs, e
<1> QED
  BY <1>1, <1>2

\* A database with another index collection, or one document of it replaced.
LEMMA CustomersIndexSet ==
  ASSUME NEW d \in G!Databases
  PROVE  /\ \A docs \in [{"phone"} -> [built : BOOLEAN]] :
               LET e == [d EXCEPT !.index = docs]
               IN  e \in G!Databases /\ e.index = docs /\ e.profile = d.profile /\ e.sale = d.sale
         /\ \A k \in {"phone"}, doc \in [built : BOOLEAN] :
               LET e == [d EXCEPT !.index[k] = doc]
               IN  /\ e \in G!Databases /\ e.profile = d.profile /\ e.sale = d.sale
                   /\ e.index = [d.index EXCEPT ![k] = doc] /\ e.index[k] = doc
                   /\ \A i \in {"phone"} \ {k} : e.index[i] = d.index[i]
<1>1. ASSUME NEW docs \in [{"phone"} -> [built : BOOLEAN]]
      PROVE  LET e == [d EXCEPT !.index = docs]
             IN  e \in G!Databases /\ e.index = docs /\ e.profile = d.profile /\ e.sale = d.sale
  <2>1. [d EXCEPT !.index = docs] = [profile |-> d.profile, sale |-> d.sale, index |-> docs]
    BY CustomersRecord
  <2> QED
    BY <2>1, CustomersRecord DEF G!Databases
<1>2. ASSUME NEW k \in {"phone"}, NEW doc \in [built : BOOLEAN]
      PROVE  LET e == [d EXCEPT !.index[k] = doc]
             IN  /\ e \in G!Databases /\ e.profile = d.profile /\ e.sale = d.sale
                 /\ e.index = [d.index EXCEPT ![k] = doc] /\ e.index[k] = doc
                 /\ \A i \in {"phone"} \ {k} : e.index[i] = d.index[i]
  <2> DEFINE docs == [d.index EXCEPT ![k] = doc]
             e == [d EXCEPT !.index[k] = doc]
  <2>1. e = [d EXCEPT !.index = docs]
    OBVIOUS
  <2>2. /\ docs \in [{"phone"} -> [built : BOOLEAN]] /\ docs[k] = doc
        /\ \A i \in {"phone"} \ {k} : docs[i] = d.index[i]
    BY CustomersRecord
  <2> HIDE DEF docs, e
  <2>3. e \in G!Databases /\ e.index = docs /\ e.profile = d.profile /\ e.sale = d.sale
    BY <1>1, <2>1, <2>2
  <2> QED
    BY <2>2, <2>3 DEF docs, e
<1> QED
  BY <1>1, <1>2

\* While the index is built, no phone number has two profiles; the orders are with profiles
\* that exist, as do those that have a number, or had one when a snapshot was taken.
CustomersIInv ==
    /\ G!TypeOK
    /\ db.index["phone"].built =>
          \A p, q \in Profiles :
              db.profile[p].phoneKey = db.profile[q].phoneKey
              /\ db.profile[p].phoneKey \in Phones => p = q
    /\ \A s \in Sales : db.sale[s].status # "absent" =>
          db.sale[s].customer \in Profiles /\ db.profile[db.sale[s].customer].exists
    /\ \A p \in Profiles : ~db.profile[p].exists =>
          db.profile[p].phone = NoPhone /\ db.profile[p].phoneKey = NoPhone
    /\ \A c \in Clients, p \in Profiles : snap[c] # NoSnapshot =>
          /\ snap[c].profile[p].exists => db.profile[p].exists
          /\ snap[c].profile[p].phoneKey # NoPhone => snap[c].profile[p].exists

\* The number of elements is that of FiniteSets.
LEMMA CustomersCardinality == \A set : G!Cardinality(set) = Cardinality(set)
BY Zenon DEF G!Cardinality, Cardinality

\* Profiles and orders are finitely many.
LEMMA CustomersFinite ==
  /\ IsFiniteSet(Profiles) /\ IsFiniteSet(Sales) /\ MaxPoints \in Nat
  /\ Profiles \subseteq Nat /\ NoProfile \notin Profiles /\ NoPhone \notin Phones
<1>1. /\ G!IsFiniteSet(Profiles) /\ G!IsFiniteSet(Sales) /\ MaxPoints \in Nat
      /\ Profiles \subseteq Nat /\ NoProfile \notin Profiles /\ NoPhone \notin Phones
  BY RestaurantAssumption DEF G!CustomersAssumption
<1>2. IsFiniteSet(Profiles) /\ IsFiniteSet(Sales)
  BY <1>1, Zenon DEF G!IsFiniteSet, IsFiniteSet
<1> QED
  BY <1>1, <1>2

\* The fields of a profile.
LEMMA CustomersDoc ==
  ASSUME NEW d \in G!Databases, NEW p \in Profiles
  PROVE  /\ d.profile[p] \in G!ProfileDocs /\ d.profile[p].exists \in BOOLEAN
         /\ d.profile[p].phone \in Phones \cup {NoPhone}
         /\ d.profile[p].phoneKey \in Phones \cup {NoPhone}
         /\ d.profile[p].mergedInto \in Profiles \cup {NoProfile}
         /\ d.profile[p].points \in Nat /\ d.profile[p].spend \in Nat
         /\ DOMAIN d.profile[p] = {"exists", "phone", "phoneKey", "mergedInto", "points", "spend"}
<1>1. d.profile[p] \in G!ProfileDocs
  BY CustomersRecord
<1> QED
  BY <1>1 DEF G!ProfileDocs

\* What a request read of a profile is still there.
LEMMA CustomersKnown ==
  ASSUME CustomersIInv, NEW c \in G!Callers, G!Reads(c), NEW p \in Profiles
  PROVE  /\ G!View(c).profile[p].exists => db.profile[p].exists
         /\ G!View(c).profile[p].phoneKey # NoPhone => G!View(c).profile[p].exists
<1>1. CASE c \in Clients
  <2>1. G!View(c) = snap[c] /\ snap[c] # NoSnapshot
    BY <1>1 DEF G!View, G!Reads
  <2> QED
    BY <1>1, <2>1 DEF CustomersIInv
<1>2. CASE c \notin Clients
  <2>1. G!View(c) = db
    BY <1>2 DEF G!View
  <2> QED
    BY <2>1 DEF CustomersIInv
<1> QED
  BY <1>1, <1>2

\* Profiles do not go away, so what snapshots say of them stays so.
LEMMA CustomersAfter ==
  ASSUME CustomersIInv, G!TypeOK',
         \A c \in Clients : snap'[c] \in {snap[c], db, NoSnapshot},
         \A p \in Profiles : db.profile[p].exists => db'.profile[p].exists,
         \A p \in Profiles : ~db'.profile[p].exists =>
             db'.profile[p].phone = NoPhone /\ db'.profile[p].phoneKey = NoPhone,
         \A s \in Sales : db'.sale[s].status # "absent" =>
             db'.sale[s].customer \in Profiles /\ db'.profile[db'.sale[s].customer].exists,
         db'.index["phone"].built =>
             \A p, q \in Profiles :
                 db'.profile[p].phoneKey = db'.profile[q].phoneKey
                 /\ db'.profile[p].phoneKey \in Phones => p = q
  PROVE  CustomersIInv'
<1>1. ASSUME NEW c \in Clients, NEW p \in Profiles, snap'[c] # NoSnapshot
      PROVE  /\ snap'[c].profile[p].exists => db'.profile[p].exists
             /\ snap'[c].profile[p].phoneKey # NoPhone => snap'[c].profile[p].exists
  <2>1. CASE snap'[c] = snap[c]
    BY <1>1, <2>1 DEF CustomersIInv
  <2>2. CASE snap'[c] = db
    BY <2>2 DEF CustomersIInv
  <2> QED
    BY <1>1, <2>1, <2>2
<1> QED
  BY <1>1 DEF CustomersIInv

\* Whoever ends drops a snapshot.
LEMMA CustomersEnded ==
  ASSUME CustomersIInv, NEW c, snap' = V!Ended(c) \/ snap' = snap
  PROVE  \A q \in Clients : snap'[q] \in {snap[q], db, NoSnapshot}
BY DEF V!Ended

\* A save sets the fields that the handler changed.
LEMMA CustomersSaved ==
  ASSUME CustomersIInv, NEW c \in G!Callers, G!Reads(c), NEW new \in G!Databases,
         G!Save(c, new), NEW k \in Profiles,
         \A p \in Profiles : G!View(c).profile[p].exists => new.profile[p].exists,
         \A p \in Profiles : new.profile[p] # G!View(c).profile[p] =>
             db.profile[p].exists \/ (new.profile[p].exists /\ ~G!View(c).profile[p].exists),
         \A p \in Profiles :
             \/ new.profile[p].phoneKey \in {G!View(c).profile[p].phoneKey, NoPhone}
             \/ p = k /\ G!PhoneFree(p, new.profile[p].phoneKey),
         \A s \in Sales :
             /\ new.sale[s].status = G!View(c).sale[s].status
             /\ \/ new.sale[s].customer = G!View(c).sale[s].customer
                \/ new.sale[s].customer \in Profiles
                   /\ db.profile[new.sale[s].customer].exists,
         \/ new.index = G!View(c).index
         \/ /\ new.profile = G!View(c).profile
            /\ \A p, q \in Profiles :
                  db.profile[p].phoneKey = db.profile[q].phoneKey
                  /\ db.profile[p].phoneKey \in Phones => p = q
  PROVE  CustomersIInv'
<1> DEFINE d == G!View(c)
<1>1. d \in G!Databases /\ db \in G!Databases
  BY CustomersView DEF CustomersIInv, G!TypeOK
<1>2. /\ G!TypeOK' /\ snap' = V!Ended(c)
      /\ \A p \in Profiles :
            db'.profile[p] = IF new.profile[p] = d.profile[p] THEN db.profile[p]
                             ELSE [field \in DOMAIN db.profile[p] |->
                                      IF new.profile[p][field] # d.profile[p][field]
                                      THEN new.profile[p][field] ELSE db.profile[p][field]]
      /\ \A s \in Sales :
            db'.sale[s] = IF new.sale[s] = d.sale[s] THEN db.sale[s]
                          ELSE [field \in DOMAIN db.sale[s] |->
                                   IF new.sale[s][field] # d.sale[s][field]
                                   THEN new.sale[s][field] ELSE db.sale[s][field]]
      /\ \A i \in {"phone"} :
            db'.index[i] = IF new.index[i] = d.index[i] THEN db.index[i]
                           ELSE [field \in DOMAIN db.index[i] |->
                                    IF new.index[i][field] # d.index[i][field]
                                    THEN new.index[i][field] ELSE db.index[i][field]]
  BY CustomersSave DEF CustomersIInv
<1>3. \A p \in Profiles :
         /\ d.profile[p].exists => new.profile[p].exists /\ db.profile[p].exists
         /\ new.profile[p] # d.profile[p] =>
               db.profile[p].exists \/ (new.profile[p].exists /\ ~d.profile[p].exists)
         /\ \/ new.profile[p].phoneKey \in {d.profile[p].phoneKey, NoPhone}
            \/ p = k /\ G!PhoneFree(p, new.profile[p].phoneKey)
  BY CustomersKnown
<1>4. \A s \in Sales :
         /\ new.sale[s].status = d.sale[s].status
         /\ \/ new.sale[s].customer = d.sale[s].customer
            \/ new.sale[s].customer \in Profiles
               /\ db.profile[new.sale[s].customer].exists
  OBVIOUS
<1>5. \/ new.index = d.index
      \/ /\ new.profile = d.profile
         /\ \A p, q \in Profiles :
               db.profile[p].phoneKey = db.profile[q].phoneKey
               /\ db.profile[p].phoneKey \in Phones => p = q
  OBVIOUS
<1> HIDE DEF d
<1>6. ASSUME NEW p \in Profiles
      PROVE  /\ db'.profile[p].exists = IF new.profile[p].exists # d.profile[p].exists
                                        THEN new.profile[p].exists ELSE db.profile[p].exists
             /\ db'.profile[p].phoneKey = IF new.profile[p].phoneKey # d.profile[p].phoneKey
                                          THEN new.profile[p].phoneKey
                                          ELSE db.profile[p].phoneKey
             /\ new.profile[p] = d.profile[p] => db'.profile[p] = db.profile[p]
  <2>1. CASE new.profile[p] = d.profile[p]
    BY <1>2, <2>1
  <2>2. CASE new.profile[p] # d.profile[p]
    <3>1. db'.profile[p] = [field \in DOMAIN db.profile[p] |->
                               IF new.profile[p][field] # d.profile[p][field]
                               THEN new.profile[p][field] ELSE db.profile[p][field]]
      BY <1>2, <2>2
    <3>2. {"exists", "phoneKey"} \subseteq DOMAIN db.profile[p]
      BY <1>1, CustomersDoc
    <3> QED
      BY <2>2, <3>1, <3>2
  <2> QED
    BY <2>1, <2>2
<1>7. \A p \in Profiles : db.profile[p].exists => db'.profile[p].exists
  <2> SUFFICES ASSUME NEW p \in Profiles, db.profile[p].exists
               PROVE  db'.profile[p].exists
    OBVIOUS
  <2>1. new.profile[p].exists \in BOOLEAN /\ d.profile[p].exists \in BOOLEAN
    BY <1>1, CustomersDoc
  <2>2. PICK is, was \in BOOLEAN : is = new.profile[p].exists /\ was = d.profile[p].exists
    BY <2>1
  <2>3. was => is
    BY <1>3, <2>2
  <2>4. db'.profile[p].exists = IF is # was THEN is ELSE db.profile[p].exists
    BY <1>6, <2>2
  <2> QED
    BY <2>3, <2>4
<1>8. ASSUME NEW p \in Profiles, ~db'.profile[p].exists
      PROVE  db'.profile[p].phone = NoPhone /\ db'.profile[p].phoneKey = NoPhone
  <2>1. ~db.profile[p].exists
    BY <1>7, <1>8
  <2>2. new.profile[p] = d.profile[p]
    <3> SUFFICES ASSUME new.profile[p] # d.profile[p] PROVE FALSE
      OBVIOUS
    <3>1. new.profile[p].exists /\ ~d.profile[p].exists
      BY <1>3, <2>1
    <3>2. db'.profile[p].exists = new.profile[p].exists
      BY <1>6, <3>1
    <3> QED
      BY <1>8, <3>1, <3>2
  <2> QED
    BY <1>6, <2>1, <2>2 DEF CustomersIInv
<1>9. ASSUME NEW s \in Sales
      PROVE  /\ db'.sale[s].status = db.sale[s].status
             /\ db'.sale[s].customer \in {db.sale[s].customer, new.sale[s].customer}
             /\ db'.sale[s].customer # db.sale[s].customer =>
                   new.sale[s].customer # d.sale[s].customer
  <2>1. CASE new.sale[s] = d.sale[s]
    BY <1>2, <2>1
  <2>2. CASE new.sale[s] # d.sale[s]
    <3>1. db'.sale[s] = [field \in DOMAIN db.sale[s] |->
                            IF new.sale[s][field] # d.sale[s][field]
                            THEN new.sale[s][field] ELSE db.sale[s][field]]
      BY <1>2, <2>2
    <3>2. DOMAIN db.sale[s] = {"status", "customer"}
      <4>1. db.sale[s] \in G!SaleDocs
        BY <1>1, CustomersRecord
      <4> QED
        BY <4>1 DEF G!SaleDocs
    <3>3. /\ db'.sale[s].status = db.sale[s].status
          /\ db'.sale[s].customer = IF new.sale[s].customer # d.sale[s].customer
                                    THEN new.sale[s].customer ELSE db.sale[s].customer
      BY <1>4, <3>1, <3>2
    <3> QED
      BY <3>3
  <2> QED
    BY <2>1, <2>2
<1>10. \A s \in Sales : db'.sale[s].status # "absent" =>
           db'.sale[s].customer \in Profiles /\ db'.profile[db'.sale[s].customer].exists
  <2> SUFFICES ASSUME NEW s \in Sales, db'.sale[s].status # "absent"
               PROVE  db'.sale[s].customer \in Profiles
                      /\ db'.profile[db'.sale[s].customer].exists
    OBVIOUS
  <2>1. db'.sale[s].customer \in Profiles /\ db.profile[db'.sale[s].customer].exists
    BY <1>4, <1>9 DEF CustomersIInv
  <2> QED
    BY <1>7, <2>1
<1>11. ASSUME db'.index["phone"].built,
              NEW p \in Profiles, NEW q \in Profiles,
              db'.profile[p].phoneKey = db'.profile[q].phoneKey,
              db'.profile[p].phoneKey \in Phones, p # q
       PROVE  FALSE
  <2>1. new.index # d.index => \A i, j \in Profiles :
            db.profile[i].phoneKey = db.profile[j].phoneKey
            /\ db.profile[i].phoneKey \in Phones => i = j
    BY <1>5
  <2>2. new.index = d.index => db.index["phone"].built
    BY <1>2, <1>11
  <2>3. \A i, j \in Profiles :
            db.profile[i].phoneKey = db.profile[j].phoneKey
            /\ db.profile[i].phoneKey \in Phones => i = j
    BY <2>1, <2>2 DEF CustomersIInv
  <2>4. db'.profile[p].phoneKey # NoPhone
    BY <1>11, CustomersFinite
  <2>5. \A i \in {p, q} : db'.profile[i].phoneKey # db.profile[i].phoneKey =>
            i = k /\ G!PhoneFree(i, db'.profile[p].phoneKey)
    BY <1>3, <1>6, <1>11, <2>4
  <2>6. CASE \A i \in {p, q} : db'.profile[i].phoneKey = db.profile[i].phoneKey
    BY <1>11, <2>3, <2>6
  <2>7. ASSUME NEW i \in {p, q}, db'.profile[i].phoneKey # db.profile[i].phoneKey
        PROVE  FALSE
    <3>1. PICK j \in {p, q} : j # i
      BY <1>11
    <3>2. i = k /\ j # k /\ G!PhoneFree(k, db'.profile[p].phoneKey)
      BY <2>5, <2>7, <3>1
    <3>3. db.profile[j].phoneKey = db'.profile[p].phoneKey
      BY <1>11, <2>5, <3>2
    <3>4. db.index["phone"].built => j \in {k}
      BY <2>4, <3>2, <3>3 DEF G!PhoneFree, G!Holders
    <3>5. new.index # d.index
      BY <2>2, <3>2, <3>4
    <3>6. new.profile = d.profile
      BY <1>5, <3>5
    <3> QED
      BY <1>6, <2>7, <3>6
  <2> QED
    BY <2>6, <2>7
<1>12. \A q \in Clients : snap'[q] \in {snap[q], db, NoSnapshot}
  BY <1>2, CustomersEnded
<1> QED
  BY <1>2, <1>7, <1>8, <1>10, <1>11, <1>12, CustomersAfter

\* What is set at once, whatever it was: profiles lose keys, and orders go to profiles.
LEMMA CustomersUpdated ==
  ASSUME CustomersIInv, NEW new \in G!Databases, db' = new, NEW c,
         snap' = V!Ended(c) \/ snap' = snap,
         \A p \in Profiles : /\ new.profile[p].exists = db.profile[p].exists
                             /\ new.profile[p].phone = db.profile[p].phone
                             /\ \/ new.profile[p].phoneKey = NoPhone
                                \/ new.profile[p].phoneKey = db.profile[p].phoneKey
                                \/ /\ ~new.index["phone"].built
                                   /\ new.profile[p].phoneKey = db.profile[p].phone,
         \A s \in Sales : new.sale[s].status # "absent" =>
             \/ new.sale[s].customer \in Profiles /\ db.profile[new.sale[s].customer].exists
             \/ new.sale[s] = db.sale[s],
         new.index["phone"].built => db.index["phone"].built
  PROVE  CustomersIInv'
<1>1. db \in G!Databases /\ snap \in [Clients -> G!Databases \cup {NoSnapshot}]
  BY DEF CustomersIInv, G!TypeOK
<1>2. snap' \in [Clients -> G!Databases \cup {NoSnapshot}]
  BY <1>1 DEF V!Ended
<1>3. G!TypeOK'
  BY <1>2 DEF G!TypeOK
<1>4. \A q \in Clients : snap'[q] \in {snap[q], db, NoSnapshot}
  BY CustomersEnded
<1>5. \A p \in Profiles : db.profile[p].exists => db'.profile[p].exists
  OBVIOUS
<1>6. \A p \in Profiles : ~db'.profile[p].exists =>
          db'.profile[p].phone = NoPhone /\ db'.profile[p].phoneKey = NoPhone
  BY DEF CustomersIInv
<1>7. \A s \in Sales : db'.sale[s].status # "absent" =>
          db'.sale[s].customer \in Profiles /\ db'.profile[db'.sale[s].customer].exists
  BY DEF CustomersIInv
<1>8. ASSUME db'.index["phone"].built, NEW p \in Profiles, NEW q \in Profiles,
             db'.profile[p].phoneKey = db'.profile[q].phoneKey, db'.profile[p].phoneKey \in Phones
      PROVE  p = q
  <2>1. db'.profile[p].phoneKey # NoPhone
    BY <1>8, CustomersFinite
  <2>2. /\ db.profile[p].phoneKey = db'.profile[p].phoneKey
        /\ db.profile[q].phoneKey = db'.profile[q].phoneKey
    BY <1>8, <2>1
  <2>3. db.index["phone"].built
    BY <1>8
  <2> QED
    BY <1>8, <2>2, <2>3 DEF CustomersIInv
<1> QED
  BY <1>3, <1>4, <1>5, <1>6, <1>7, <1>8, CustomersAfter

\* A profile is saved with the key that is derived from its phone.
LEMMA CustomersProfile ==
  ASSUME CustomersIInv, NEW c \in G!Callers, G!Reads(c), NEW p \in Profiles,
         NEW doc \in G!ProfileDocs, doc.exists, G!View(c).profile[p].exists,
         G!SaveProfile(c, p, doc)
  PROVE  CustomersIInv'
<1> DEFINE d == G!View(c)
<1>1. d \in G!Databases
  BY CustomersView DEF CustomersIInv
<1>2. PICK key : key = G!deriveCustomerScope(doc)
  OBVIOUS
<1>3. PICK new : new = [d EXCEPT !.profile[p] = key]
  OBVIOUS
<1>4. G!Save(c, new) /\ (doc.phone # d.profile[p].phoneKey => G!PhoneFree(p, doc.phone))
  BY <1>2, <1>3, Zenon DEF G!SaveProfile, G!KeyAllowed
<1>5. db.profile[p].exists
  BY CustomersKnown
<1> HIDE DEF d
<1>6. key \in G!ProfileDocs /\ key.exists /\ key.phoneKey = doc.phone
  BY <1>2 DEF G!deriveCustomerScope, G!ProfileDocs
<1>7. /\ new \in G!Databases /\ new.sale = d.sale /\ new.index = d.index
      /\ new.profile[p] = key /\ \A i \in Profiles \ {p} : new.profile[i] = d.profile[i]
  BY <1>1, <1>3, <1>6, CustomersProfileSet
<1>8. /\ \A i \in Profiles : d.profile[i].exists => new.profile[i].exists
      /\ \A i \in Profiles : new.profile[i] # d.profile[i] =>
             db.profile[i].exists \/ (new.profile[i].exists /\ ~d.profile[i].exists)
      /\ \A i \in Profiles :
             \/ new.profile[i].phoneKey \in {d.profile[i].phoneKey, NoPhone}
             \/ i = p /\ G!PhoneFree(i, new.profile[i].phoneKey)
      /\ \A s \in Sales : new.sale[s].status = d.sale[s].status
                          /\ new.sale[s].customer = d.sale[s].customer
  BY <1>4, <1>5, <1>6, <1>7
<1> QED
  BY <1>4, <1>7, <1>8, CustomersSaved DEF d

\* createCustomer, findOrCreateCustomer
LEMMA CustomersCreate ==
  ASSUME CustomersIInv, NEW c \in G!Callers, G!Reads(c), NEW p \in Profiles, NEW phone \in Phones,
         G!CreateCustomer(c, p, phone)
  PROVE  CustomersIInv'
<1> DEFINE d == G!View(c)
<1>1. d \in G!Databases
  BY CustomersView DEF CustomersIInv
<1>2. PICK doc : doc = G!NewProfile(phone)
  OBVIOUS
<1>3. PICK new : new = [d EXCEPT !.profile[p] = doc]
  OBVIOUS
<1>4. G!Save(c, new) /\ ~db.profile[p].exists /\ G!PhoneFree(p, phone)
  BY <1>2, <1>3, Zenon DEF G!CreateCustomer, G!Fresh
<1>5. ~d.profile[p].exists
  BY <1>4, CustomersKnown
<1> HIDE DEF d
<1>6. doc \in G!ProfileDocs /\ doc.exists /\ doc.phoneKey = phone
  BY <1>2 DEF G!NewProfile, G!ProfileDocs
<1>7. /\ new \in G!Databases /\ new.sale = d.sale /\ new.index = d.index
      /\ new.profile[p] = doc /\ \A i \in Profiles \ {p} : new.profile[i] = d.profile[i]
  BY <1>1, <1>3, <1>6, CustomersProfileSet
<1>8. /\ \A i \in Profiles : d.profile[i].exists => new.profile[i].exists
      /\ \A i \in Profiles : new.profile[i] # d.profile[i] =>
             db.profile[i].exists \/ (new.profile[i].exists /\ ~d.profile[i].exists)
      /\ \A i \in Profiles :
             \/ new.profile[i].phoneKey \in {d.profile[i].phoneKey, NoPhone}
             \/ i = p /\ G!PhoneFree(i, new.profile[i].phoneKey)
      /\ \A s \in Sales : new.sale[s].status = d.sale[s].status
                          /\ new.sale[s].customer = d.sale[s].customer
  BY <1>4, <1>5, <1>6, <1>7
<1> QED
  BY <1>4, <1>7, <1>8, CustomersSaved DEF d

\* updateCustomer, setCustomerActive, adjustLoyaltyPoints, recalculateCustomerStats
LEMMA CustomersEdited ==
  ASSUME CustomersIInv, NEW c \in G!Callers, G!Reads(c), NEW p \in Profiles,
         \/ \E phone \in Phones : G!UpdatePhone(c, p, phone)
         \/ G!SetActive(c, p)
         \/ \E points \in 0..MaxPoints : G!AdjustPoints(c, p, points)
         \/ G!Recalculate(c, p)
  PROVE  CustomersIInv'
<1> DEFINE d == G!View(c)
           old == d.profile[p]
<1>1. d \in G!Databases
  BY CustomersView DEF CustomersIInv
<1>2. old \in G!ProfileDocs
  BY <1>1, CustomersDoc
<1>3. ASSUME NEW phone \in Phones, G!UpdatePhone(c, p, phone)
      PROVE  CustomersIInv'
  <2>1. PICK doc : doc = [old EXCEPT !.phone = phone]
    OBVIOUS
  <2>2. G!SaveProfile(c, p, doc) /\ old.exists
    BY <1>3, <2>1, Zenon DEF G!UpdatePhone
  <2>3. doc \in G!ProfileDocs /\ doc.exists
    <3> HIDE DEF old
    <3> QED
      BY <1>2, <2>1, <2>2 DEF G!ProfileDocs
  <2> QED
    BY <2>2, <2>3, CustomersProfile
<1>4. ASSUME G!SetActive(c, p)
      PROVE  CustomersIInv'
  <2>1. G!SaveProfile(c, p, old) /\ old.exists
    BY <1>4, Zenon DEF G!SetActive
  <2> QED
    BY <1>2, <2>1, CustomersProfile
<1>5. ASSUME NEW points \in 0..MaxPoints, G!AdjustPoints(c, p, points)
      PROVE  CustomersIInv'
  <2>1. PICK doc : doc = [old EXCEPT !.points = points]
    OBVIOUS
  <2>2. G!SaveProfile(c, p, doc) /\ old.exists
    BY <1>5, <2>1, Zenon DEF G!AdjustPoints
  <2>3. points \in Nat
    BY CustomersFinite
  <2>4. doc \in G!ProfileDocs /\ doc.exists
    <3> HIDE DEF old
    <3> QED
      BY <1>2, <2>1, <2>2, <2>3 DEF G!ProfileDocs
  <2> QED
    BY <2>2, <2>4, CustomersProfile
<1>6. ASSUME G!Recalculate(c, p)
      PROVE  CustomersIInv'
  <2>1. PICK spend : spend = G!Spend(d, p)
    OBVIOUS
  <2>2. PICK doc : doc = [old EXCEPT !.spend = spend]
    OBVIOUS
  <2>3. G!SaveProfile(c, p, doc) /\ old.exists
    BY <1>6, <2>1, <2>2, Zenon DEF G!Recalculate
  <2>4. spend \in Nat
    <3>1. PICK sold : sold = {s \in Sales :
                                  d.sale[s] = [status |-> "completed", customer |-> p]}
      OBVIOUS
    <3>2. spend = Cardinality(sold)
      BY <2>1, <3>1, CustomersCardinality DEF G!Spend
    <3>3. sold \subseteq Sales
      BY <3>1
    <3> QED
      BY <3>2, <3>3, CustomersFinite, FS_Subset, FS_CardinalityType
  <2>5. doc \in G!ProfileDocs /\ doc.exists
    <3> HIDE DEF old
    <3> QED
      BY <1>2, <2>2, <2>3, <2>4 DEF G!ProfileDocs
  <2> QED
    BY <2>3, <2>5, CustomersProfile
<1> QED
  BY <1>3, <1>4, <1>5, <1>6

\* Orders that are pointed at another profile.
LEMMA CustomersRepointed ==
  ASSUME NEW d \in G!Databases, NEW from \in Profiles, NEW into \in Profiles
  PROVE  /\ G!Repointed(d, from, into) \in [Sales -> G!SaleDocs]
         /\ \A s \in Sales :
               /\ G!Repointed(d, from, into)[s].status = d.sale[s].status
               /\ \/ G!Repointed(d, from, into)[s] = d.sale[s]
                  \/ G!Repointed(d, from, into)[s].customer = into
<1>1. \A s \in Sales : d.sale[s] \in G!SaleDocs
  BY CustomersRecord
<1>2. \A s \in Sales : [d.sale[s] EXCEPT !.customer = into] \in G!SaleDocs
                       /\ [d.sale[s] EXCEPT !.customer = into].status = d.sale[s].status
                       /\ [d.sale[s] EXCEPT !.customer = into].customer = into
  BY <1>1 DEF G!SaleDocs
<1> QED
  BY <1>1, <1>2 DEF G!Repointed

\* mergeCustomers
LEMMA CustomersMerge ==
  ASSUME CustomersIInv, NEW c \in G!Callers, G!Reads(c), NEW from \in Profiles,
         NEW into \in Profiles, G!MergeCustomers(c, from, into)
  PROVE  CustomersIInv'
<1> DEFINE d == G!View(c)
<1>1. d \in G!Databases
  BY CustomersView DEF CustomersIInv
<1>2. PICK points : points = d.profile[into].points + d.profile[from].points
  OBVIOUS
<1>3. PICK merged : merged = [d.profile[into] EXCEPT !.points = points]
  OBVIOUS
<1>4. PICK key : key = G!deriveCustomerScope(merged)
  OBVIOUS
<1>5. PICK tomb : tomb = G!Tombstone(d.profile[from], into)
  OBVIOUS
<1>6. PICK sales : sales = G!Repointed(d, from, into)
  OBVIOUS
<1>7. PICK e : e = [d EXCEPT !.sale = sales]
  OBVIOUS
<1>8. PICK f : f = [e EXCEPT !.profile[into] = key]
  OBVIOUS
<1>9. PICK new : new = [f EXCEPT !.profile[from] = tomb]
  OBVIOUS
<1>10. /\ from # into /\ d.profile[from].exists /\ d.profile[into].exists
       /\ merged.phone # d.profile[into].phoneKey => G!PhoneFree(into, merged.phone)
       /\ G!Save(c, [d EXCEPT !.sale = G!Repointed(d, from, into),
                              !.profile[into] = G!deriveCustomerScope(merged),
                              !.profile[from] = G!Tombstone(@, into)])
  BY <1>2, <1>3, Zenon DEF G!MergeCustomers, G!KeyAllowed
<1>11. db.profile[from].exists /\ db.profile[into].exists
  BY <1>10, CustomersKnown
<1> HIDE DEF d
<1>12. d.profile[into] \in G!ProfileDocs /\ d.profile[from] \in G!ProfileDocs /\ points \in Nat
  BY <1>1, <1>2, CustomersDoc
<1>13. /\ merged \in G!ProfileDocs /\ merged.exists
  BY <1>3, <1>10, <1>12 DEF G!ProfileDocs
<1>14. key \in G!ProfileDocs /\ key.exists /\ key.phoneKey = merged.phone
  BY <1>4, <1>13 DEF G!deriveCustomerScope, G!ProfileDocs
<1>15. tomb \in G!ProfileDocs /\ tomb.exists /\ tomb.phoneKey = NoPhone
  BY <1>5, <1>10, <1>12 DEF G!Tombstone, G!ProfileDocs
<1>16. /\ sales \in [Sales -> G!SaleDocs]
       /\ \A s \in Sales : /\ sales[s].status = d.sale[s].status
                           /\ sales[s] = d.sale[s] \/ sales[s].customer = into
  BY <1>1, <1>6, CustomersRepointed
<1>17. e \in G!Databases /\ e.sale = sales /\ e.index = d.index /\ e.profile = d.profile
  BY <1>1, <1>7, <1>16, CustomersSaleSet
<1>18. /\ f \in G!Databases /\ f.sale = e.sale /\ f.index = e.index /\ f.profile[into] = key
       /\ \A i \in Profiles \ {into} : f.profile[i] = e.profile[i]
  <2> HIDE <1>7
  <2> QED
    BY <1>8, <1>14, <1>17, CustomersProfileSet
<1>19. /\ new \in G!Databases /\ new.sale = f.sale /\ new.index = f.index
       /\ new.profile[from] = tomb
       /\ \A i \in Profiles \ {from} : new.profile[i] = f.profile[i]
  <2> HIDE <1>7, <1>8
  <2> QED
    BY <1>9, <1>15, <1>18, CustomersProfileSet
<1>20. G!Save(c, new)
  <2>1. f.profile[from] = d.profile[from]
    BY <1>10, <1>17, <1>18
  <2>2. new = [f EXCEPT !.profile[from] = G!Tombstone(@, into)]
    BY <1>5, <1>9, <2>1, Zenon
  <2>3. f = [d EXCEPT !.sale = G!Repointed(d, from, into),
                      !.profile[into] = G!deriveCustomerScope(merged)]
    BY <1>4, <1>6, <1>7, <1>8, Zenon
  <2> QED
    BY <1>10, <2>2, <2>3, Zenon
<1>21. /\ \A i \in Profiles : d.profile[i].exists => new.profile[i].exists
       /\ \A i \in Profiles : new.profile[i] # d.profile[i] =>
              db.profile[i].exists \/ (new.profile[i].exists /\ ~d.profile[i].exists)
       /\ \A i \in Profiles :
              \/ new.profile[i].phoneKey \in {d.profile[i].phoneKey, NoPhone}
              \/ i = into /\ G!PhoneFree(i, new.profile[i].phoneKey)
  <2>1. new.profile[into] = key /\ new.profile[from] = tomb
    BY <1>10, <1>18, <1>19
  <2>2. \A i \in Profiles \ {from, into} : new.profile[i] = d.profile[i]
    BY <1>17, <1>18, <1>19
  <2> QED
    BY <1>10, <1>11, <1>14, <1>15, <2>1, <2>2
<1>22. \A s \in Sales :
           /\ new.sale[s].status = d.sale[s].status
           /\ \/ new.sale[s].customer = d.sale[s].customer
              \/ new.sale[s].customer \in Profiles
                 /\ db.profile[new.sale[s].customer].exists
  <2>1. \A s \in Sales : new.sale[s] = sales[s]
    BY <1>17, <1>18, <1>19
  <2> QED
    BY <1>11, <1>16, <2>1
<1>23. new.index = d.index
  BY <1>17, <1>18, <1>19
<1> QED
  BY <1>19, <1>20, <1>21, <1>22, <1>23, CustomersSaved DEF d

\* What is committed without a snapshot is what the database becomes.
LEMMA CustomersPrompt ==
  ASSUME CustomersIInv, NEW new \in G!Databases, G!Commit(Prompt, new)
  PROVE  db' = new /\ snap' = V!Ended(Prompt)
<1>1. Prompt \notin Clients
  BY RestaurantAssumption DEF B!PromptAssumption
<1>2. G!View(Prompt) = db /\ G!Reads(Prompt) /\ Prompt \in G!Callers
  BY <1>1 DEF G!View, G!Reads, G!Callers
<1>3. db \in G!Databases
  BY DEF CustomersIInv, G!TypeOK
<1>4. /\ G!TypeOK' /\ snap' = V!Ended(Prompt)
      /\ \A p \in Profiles : db'.profile[p] = IF new.profile[p] = db.profile[p]
                                              THEN db.profile[p] ELSE new.profile[p]
      /\ \A s \in Sales : db'.sale[s] = IF new.sale[s] = db.sale[s]
                                        THEN db.sale[s] ELSE new.sale[s]
      /\ \A i \in {"phone"} : db'.index[i] = IF new.index[i] = db.index[i]
                                             THEN db.index[i] ELSE new.index[i]
  BY <1>2, CustomersCommit DEF CustomersIInv
<1>5. PICK aft : aft = db'
  OBVIOUS
<1>6. aft \in G!Databases
  BY <1>4, <1>5 DEF G!TypeOK
<1>7. /\ aft = [profile |-> aft.profile, sale |-> aft.sale, index |-> aft.index]
      /\ aft.profile \in [Profiles -> G!ProfileDocs] /\ aft.sale \in [Sales -> G!SaleDocs]
      /\ aft.index \in [{"phone"} -> [built : BOOLEAN]]
  BY <1>6, CustomersRecord
<1>8. /\ new = [profile |-> new.profile, sale |-> new.sale, index |-> new.index]
      /\ new.profile \in [Profiles -> G!ProfileDocs] /\ new.sale \in [Sales -> G!SaleDocs]
      /\ new.index \in [{"phone"} -> [built : BOOLEAN]]
  BY CustomersRecord
<1>9. aft.profile = new.profile
  <2>1. \A p \in Profiles : aft.profile[p] = new.profile[p]
    BY <1>4, <1>5
  <2> QED
    BY <1>7, <1>8, <2>1
<1>10. aft.sale = new.sale
  <2>1. \A s \in Sales : aft.sale[s] = new.sale[s]
    BY <1>4, <1>5
  <2> QED
    BY <1>7, <1>8, <2>1
<1>11. aft.index = new.index
  <2>1. \A i \in {"phone"} : aft.index[i] = new.index[i]
    BY <1>4, <1>5
  <2> QED
    BY <1>7, <1>8, <2>1
<1>12. aft = new
  BY <1>7, <1>8, <1>9, <1>10, <1>11
<1> QED
  BY <1>4, <1>5, <1>12

\* Orders are taken and settled.
LEMMA CustomersSales ==
  ASSUME CustomersIInv, NEW s \in Sales, G!Settle(s) \/ \E p \in Profiles : G!Sell(s, p)
  PROVE  CustomersIInv'
<1>1. db \in G!Databases
  BY DEF CustomersIInv, G!TypeOK
<1>2. ASSUME NEW doc \in G!SaleDocs, G!Commit(Prompt, [db EXCEPT !.sale[s] = doc]),
             doc.customer \in Profiles /\ db.profile[doc.customer].exists
      PROVE  CustomersIInv'
  <2>1. PICK new : new = [db EXCEPT !.sale[s] = doc]
    OBVIOUS
  <2>2. G!Commit(Prompt, new)
    BY <1>2, <2>1, Zenon
  <2>3. /\ new \in G!Databases /\ new.profile = db.profile /\ new.index = db.index
        /\ new.sale[s] = doc /\ \A i \in Sales \ {s} : new.sale[i] = db.sale[i]
    BY <1>1, <2>1, CustomersSaleSet
  <2>4. db' = new /\ snap' = V!Ended(Prompt)
    BY <2>2, <2>3, CustomersPrompt
  <2> QED
    BY <1>2, <2>3, <2>4, CustomersUpdated
<1>3. ASSUME G!Settle(s)
      PROVE  CustomersIInv'
  <2>1. PICK doc : doc = [db.sale[s] EXCEPT !.status = "completed"]
    OBVIOUS
  <2>2. db.sale[s].status = "open" /\ G!Commit(Prompt, [db EXCEPT !.sale[s] = doc])
    BY <1>3, <2>1, Zenon DEF G!Settle
  <2>3. db.sale[s] \in G!SaleDocs
    BY <1>1, CustomersRecord
  <2>4. doc \in G!SaleDocs /\ doc.customer = db.sale[s].customer
    BY <2>1, <2>3 DEF G!SaleDocs
  <2>5. doc.customer \in Profiles /\ db.profile[doc.customer].exists
    BY <2>2, <2>4 DEF CustomersIInv
  <2> QED
    BY <1>2, <2>2, <2>4, <2>5
<1>4. ASSUME NEW p \in Profiles, G!Sell(s, p)
      PROVE  CustomersIInv'
  <2>1. PICK doc : doc = [status |-> "open", customer |-> p]
    OBVIOUS
  <2>2. db.profile[p].exists /\ G!Commit(Prompt, [db EXCEPT !.sale[s] = doc])
    BY <1>4, <2>1, Zenon DEF G!Sell
  <2>3. doc \in G!SaleDocs /\ doc.customer = p
    BY <2>1 DEF G!SaleDocs
  <2> QED
    BY <1>2, <2>2, <2>3
<1> QED
  BY <1>3, <1>4

\* migrateCustomers, from the start
LEMMA CustomersMigrate ==
  ASSUME CustomersIInv, G!StartMigration
  PROVE  CustomersIInv'
<1>1. db \in G!Databases
  BY DEF CustomersIInv, G!TypeOK
<1>2. PICK gone : gone = [db.index["phone"] EXCEPT !.built = FALSE]
  OBVIOUS
<1>3. PICK e : e = [db EXCEPT !.index["phone"] = gone]
  OBVIOUS
<1>4. PICK docs : docs = [p \in Profiles |-> G!deriveCustomerScope(db.profile[p])]
  OBVIOUS
<1>5. PICK new : new = [e EXCEPT !.profile = docs]
  OBVIOUS
<1>6. G!Commit(Prompt, new)
  <2>1. G!Commit(Prompt, [db EXCEPT
            !.index["phone"].built = FALSE,
            !.profile = [p \in Profiles |-> G!deriveCustomerScope(db.profile[p])]])
    BY Zenon DEF G!StartMigration
  <2>2. e = [db EXCEPT !.index["phone"].built = FALSE]
    BY <1>2, <1>3, Zenon
  <2> QED
    BY <1>4, <1>5, <2>1, <2>2, Zenon
<1>7. gone \in [built : BOOLEAN] /\ gone.built = FALSE
  <2>1. db.index["phone"] \in [built : BOOLEAN]
    BY <1>1, CustomersRecord
  <2> QED
    BY <1>2, <2>1
<1>8. e \in G!Databases /\ e.profile = db.profile /\ e.sale = db.sale /\ e.index["phone"] = gone
  BY <1>1, <1>3, <1>7, CustomersIndexSet
<1>9. \A p \in Profiles : /\ docs[p] \in G!ProfileDocs /\ docs[p].exists = db.profile[p].exists
                          /\ docs[p].phone = db.profile[p].phone
                          /\ docs[p].phoneKey = db.profile[p].phone
  <2>1. \A p \in Profiles : db.profile[p] \in G!ProfileDocs
    BY <1>1, CustomersRecord
  <2> QED
    BY <1>4, <2>1 DEF G!deriveCustomerScope, G!ProfileDocs
<1>10. docs \in [Profiles -> G!ProfileDocs]
  BY <1>4, <1>9
<1>11. new \in G!Databases /\ new.profile = docs /\ new.sale = e.sale /\ new.index = e.index
  <2> HIDE <1>3
  <2> QED
    BY <1>5, <1>8, <1>10, CustomersProfileSet
<1>12. db' = new /\ snap' = V!Ended(Prompt)
  BY <1>6, <1>11, CustomersPrompt
<1>13. /\ \A p \in Profiles : /\ new.profile[p].exists = db.profile[p].exists
                              /\ new.profile[p].phone = db.profile[p].phone
                              /\ ~new.index["phone"].built
                              /\ new.profile[p].phoneKey = db.profile[p].phone
       /\ \A s \in Sales : new.sale[s] = db.sale[s]
       /\ ~new.index["phone"].built
  BY <1>7, <1>8, <1>9, <1>11
<1> QED
  BY <1>11, <1>12, <1>13, CustomersUpdated

\* A group that is merged is of one number.
LEMMA CustomersGroup ==
  ASSUME CustomersIInv, NEW c \in G!Callers, G!Reads(c), NEW p \in Profiles,
         G!Survives(G!View(c), p)
  PROVE  db.profile[p].exists
BY CustomersKnown DEF G!Survives

\* mergeGroup: a duplicate is retired.
LEMMA CustomersDuplicate ==
  ASSUME CustomersIInv, NEW c \in G!Callers, G!Reads(c), NEW p \in Profiles, NEW q \in Profiles,
         G!MergeDuplicate(c, p, q)
  PROVE  CustomersIInv'
<1>1. db \in G!Databases
  BY DEF CustomersIInv, G!TypeOK
<1>2. PICK sales : sales = G!Repointed(db, q, p)
  OBVIOUS
<1>3. PICK tomb : tomb = G!Tombstone(db.profile[q], p)
  OBVIOUS
<1>4. PICK e : e = [db EXCEPT !.sale = sales]
  OBVIOUS
<1>5. /\ sales \in [Sales -> G!SaleDocs]
      /\ \A s \in Sales : /\ sales[s].status = db.sale[s].status
                          /\ sales[s] = db.sale[s] \/ sales[s].customer = p
  BY <1>1, <1>2, CustomersRepointed
<1>6. e \in G!Databases /\ e.sale = sales /\ e.index = db.index /\ e.profile = db.profile
  BY <1>1, <1>4, <1>5, CustomersSaleSet
<1>7. PICK new : new = [e EXCEPT !.profile[q] = tomb]
  OBVIOUS
<1>8. /\ G!Survives(G!View(c), p)
      /\ G!Update(c, [db EXCEPT !.sale = G!Repointed(db, q, p),
                                !.profile[q] = G!Tombstone(@, p)])
  BY Zenon DEF G!MergeDuplicate
<1>9. G!Update(c, new)
  <2>1. new = [e EXCEPT !.profile[q] = G!Tombstone(@, p)]
    BY <1>3, <1>6, <1>7, Zenon
  <2>2. e = [db EXCEPT !.sale = G!Repointed(db, q, p)]
    BY <1>2, <1>4, Zenon
  <2> QED
    BY <1>8, <2>1, <2>2, Zenon
<1>10. db.profile[p].exists
  BY <1>8, CustomersGroup
<1>11. /\ tomb \in G!ProfileDocs /\ tomb.exists = db.profile[q].exists
       /\ tomb.phone = db.profile[q].phone /\ tomb.phoneKey = NoPhone
  <2>1. db.profile[q] \in G!ProfileDocs
    BY <1>1, CustomersRecord
  <2> QED
    BY <1>3, <2>1 DEF G!Tombstone, G!ProfileDocs
<1>12. /\ new \in G!Databases /\ new.sale = e.sale /\ new.index = e.index
       /\ new.profile[q] = tomb
       /\ \A i \in Profiles \ {q} : new.profile[i] = e.profile[i]
  <2> HIDE <1>4
  <2> QED
    BY <1>6, <1>7, <1>11, CustomersProfileSet
<1>13. db' = new /\ snap' = snap
  BY <1>9, Zenon DEF G!Update
<1>14. /\ \A i \in Profiles : /\ new.profile[i].exists = db.profile[i].exists
                              /\ new.profile[i].phone = db.profile[i].phone
                              /\ \/ new.profile[i].phoneKey = NoPhone
                                 \/ new.profile[i].phoneKey = db.profile[i].phoneKey
       /\ \A s \in Sales : \/ new.sale[s].customer \in Profiles
                              /\ db.profile[new.sale[s].customer].exists
                           \/ new.sale[s] = db.sale[s]
       /\ new.index = db.index
  BY <1>5, <1>6, <1>10, <1>11, <1>12
<1> QED
  BY <1>12, <1>13, <1>14, CustomersUpdated

\* mergeGroup: the survivor is given the points of all.
LEMMA CustomersSurvivor ==
  ASSUME CustomersIInv, NEW c \in G!Callers, G!Reads(c), NEW p \in Profiles,
         G!WriteSurvivor(c, p)
  PROVE  CustomersIInv'
<1> DEFINE d == G!View(c)
<1>1. d \in G!Databases /\ db \in G!Databases
  BY CustomersView DEF CustomersIInv, G!TypeOK
<1>2. PICK points : points = G!GroupPoints(d, p)
  OBVIOUS
<1>3. PICK doc : doc = [db.profile[p] EXCEPT !.points = points]
  OBVIOUS
<1>4. PICK new : new = [db EXCEPT !.profile[p] = doc]
  OBVIOUS
<1>5. G!Update(c, new)
  <2>1. G!Update(c, [db EXCEPT !.profile[p].points = G!GroupPoints(d, p)])
    BY Zenon DEF G!WriteSurvivor
  <2> QED
    BY <1>2, <1>3, <1>4, <2>1, Zenon
<1> HIDE DEF d
<1>6. points \in Nat
  <2>1. PICK group : group = G!Group(d, p)
    OBVIOUS
  <2>2. PICK each : each = [q \in group |-> d.profile[q].points]
    OBVIOUS
  <2>3. points = SumFunctionOnSet(each, group)
    <3>1. points = G!SumFunction(each)
      BY <1>2, <2>1, <2>2 DEF G!GroupPoints
    <3>2. G!SumFunction(each) = SumFunctionOnSet(each, DOMAIN each)
      BY DEF G!SumFunction, G!SumFunctionOnSet, G!FoldFunctionOnSet, G!MapThenFoldSet,
             SumFunctionOnSet, FoldFunctionOnSet, MapThenFoldSet
    <3> QED
      BY <2>2, <3>1, <3>2
  <2>4. group \subseteq Profiles
    BY <2>1 DEF G!Group, G!Holders
  <2>5. \A q \in group : each[q] \in Nat
    BY <1>1, <2>2, <2>4, CustomersDoc
  <2>6. IsFiniteSet(group)
    BY <2>4, CustomersFinite, FS_Subset
  <2> HIDE <2>2
  <2> QED
    BY <2>3, <2>5, <2>6, SumGrows
<1>7. /\ doc \in G!ProfileDocs /\ doc.exists = db.profile[p].exists
      /\ doc.phone = db.profile[p].phone /\ doc.phoneKey = db.profile[p].phoneKey
  <2>1. db.profile[p] \in G!ProfileDocs
    BY <1>1, CustomersRecord
  <2> QED
    BY <1>3, <1>6, <2>1 DEF G!ProfileDocs
<1>8. /\ new \in G!Databases /\ new.sale = db.sale /\ new.index = db.index
      /\ new.profile[p] = doc
      /\ \A i \in Profiles \ {p} : new.profile[i] = db.profile[i]
  BY <1>1, <1>4, <1>7, CustomersProfileSet
<1>9. db' = new /\ snap' = snap
  BY <1>5, Zenon DEF G!Update
<1>10. \A i \in Profiles : /\ new.profile[i].exists = db.profile[i].exists
                           /\ new.profile[i].phone = db.profile[i].phone
                           /\ new.profile[i].phoneKey = db.profile[i].phoneKey
  BY <1>7, <1>8
<1> QED
  BY <1>8, <1>9, <1>10, CustomersUpdated

\* At most one profile of each number is one only.
LEMMA CustomersOnly ==
  (\A phone \in Phones : G!Cardinality(G!Holders(db, phone)) <= 1)
     <=> \A p, q \in Profiles :
            db.profile[p].phoneKey = db.profile[q].phoneKey
            /\ db.profile[p].phoneKey \in Phones => p = q
<1>1. ASSUME \A phone \in Phones : G!Cardinality(G!Holders(db, phone)) <= 1,
             NEW p \in Profiles, NEW q \in Profiles,
             db.profile[p].phoneKey = db.profile[q].phoneKey, db.profile[p].phoneKey \in Phones,
             p # q
      PROVE  FALSE
  <2>1. PICK held : held = G!Holders(db, db.profile[p].phoneKey)
    OBVIOUS
  <2>2. Cardinality(held) <= 1
    BY <1>1, <2>1, CustomersCardinality
  <2>3. {p, q} \subseteq held /\ held \subseteq Profiles
    BY <1>1, <2>1 DEF G!Holders
  <2>4. IsFiniteSet(held)
    BY <2>3, CustomersFinite, FS_Subset
  <2>5. Cardinality({p, q}) = 2
    <3>1. IsFiniteSet({p}) /\ Cardinality({p}) = 1 /\ q \notin {p}
      BY <1>1, FS_Singleton
    <3>2. Cardinality({p} \cup {q}) = Cardinality({p}) + 1
      BY <3>1, FS_AddElement
    <3>3. {p} \cup {q} = {p, q}
      OBVIOUS
    <3> QED
      BY <3>1, <3>2, <3>3
  <2>6. Cardinality({p, q}) <= Cardinality(held) /\ Cardinality(held) \in Nat
    BY <2>3, <2>4, FS_Subset, FS_CardinalityType
  <2> QED
    BY <2>2, <2>5, <2>6
<1>2. ASSUME \A p, q \in Profiles :
                db.profile[p].phoneKey = db.profile[q].phoneKey
                /\ db.profile[p].phoneKey \in Phones => p = q,
             NEW phone \in Phones
      PROVE  G!Cardinality(G!Holders(db, phone)) <= 1
  <2>1. PICK held : held = G!Holders(db, phone)
    OBVIOUS
  <2>2. Cardinality(held) <= 1
    <3>1. CASE held = {}
      BY <3>1, FS_EmptySet
    <3>2. CASE held # {}
      <4>1. PICK p \in Profiles : held = {p}
        BY <1>2, <2>1, <3>2 DEF G!Holders
      <4>2. Cardinality({p}) = 1
        BY FS_Singleton
      <4> QED
        BY <4>1, <4>2
    <3> QED
      BY <3>1, <3>2
  <2> QED
    BY <2>1, <2>2, CustomersCardinality
<1> QED
  BY <1>1, <1>2

\* createIndex
LEMMA CustomersBuild ==
  ASSUME CustomersIInv, NEW c \in G!Callers, G!Reads(c), G!BuildIndex(c)
  PROVE  CustomersIInv'
<1> DEFINE d == G!View(c)
<1>1. d \in G!Databases
  BY CustomersView DEF CustomersIInv
<1>2. PICK made : made = [d.index["phone"] EXCEPT !.built = TRUE]
  OBVIOUS
<1>3. PICK new : new = [d EXCEPT !.index["phone"] = made]
  OBVIOUS
<1>4. /\ G!Save(c, new)
      /\ \A phone \in Phones : G!Cardinality(G!Holders(db, phone)) <= 1
  <2>1. /\ G!Save(c, [d EXCEPT !.index["phone"].built = TRUE])
        /\ \A phone \in Phones : G!Cardinality(G!Holders(db, phone)) <= 1
    BY Zenon DEF G!BuildIndex
  <2> QED
    BY <1>2, <1>3, <2>1, Zenon
<1> HIDE DEF d
<1>5. made \in [built : BOOLEAN]
  <2>1. d.index["phone"] \in [built : BOOLEAN]
    BY <1>1, CustomersRecord
  <2> QED
    BY <1>2, <2>1
<1>6. new \in G!Databases /\ new.profile = d.profile /\ new.sale = d.sale
  BY <1>1, <1>3, <1>5, CustomersIndexSet
<1>7. \A p, q \in Profiles :
         db.profile[p].phoneKey = db.profile[q].phoneKey
         /\ db.profile[p].phoneKey \in Phones => p = q
  BY <1>4, CustomersOnly
<1>8. CASE Profiles = {}
  <2>1. CustomersIInv' <=> G!TypeOK' /\ \A s \in Sales : db'.sale[s].status = "absent"
    BY <1>8 DEF CustomersIInv
  <2>2. /\ G!TypeOK'
        /\ \A s \in Sales :
              db'.sale[s] = IF new.sale[s] = d.sale[s] THEN db.sale[s]
                            ELSE [field \in DOMAIN db.sale[s] |->
                                     IF new.sale[s][field] # d.sale[s][field]
                                     THEN new.sale[s][field] ELSE db.sale[s][field]]
    BY <1>4, <1>6, CustomersSave DEF d, CustomersIInv
  <2>3. \A s \in Sales : db.sale[s].status = "absent"
    BY <1>8 DEF CustomersIInv
  <2> QED
    BY <1>6, <2>1, <2>2, <2>3
<1>9. ASSUME NEW k \in Profiles
      PROVE  CustomersIInv'
  <2>1. \A p \in Profiles : new.profile[p] = d.profile[p]
    BY <1>6
  <2>2. \A s \in Sales : new.sale[s] = d.sale[s]
    BY <1>6
  <2> QED
    BY <1>4, <1>6, <1>7, <2>1, <2>2, CustomersSaved DEF d
<1> QED
  BY <1>8, <1>9

\* Every step keeps the invariant.
LEMMA CustomersStep ==
  ASSUME CustomersIInv, G!Next
  PROVE  CustomersIInv'
<1>1. ASSUME NEW c \in Clients, G!Begin(c) \/ G!Refused(c)
      PROVE  CustomersIInv'
  <2>1. V!Begin(c) \/ V!End(c)
    BY <1>1, CustomersSnapshots DEF G!Refused
  <2>2. db' = db
    BY <2>1 DEF V!Begin, V!End
  <2>3. snap' \in [Clients -> G!Databases \cup {NoSnapshot}]
    BY <2>1 DEF CustomersIInv, G!TypeOK, V!Begin, V!End, V!Ended
  <2>4. \A q \in Clients : snap'[q] \in {snap[q], db, NoSnapshot}
    BY <2>1 DEF CustomersIInv, G!TypeOK, V!Begin, V!End, V!Ended
  <2>5. G!TypeOK'
    BY <2>2, <2>3 DEF CustomersIInv, G!TypeOK
  <2> QED
    BY <2>2, <2>4, <2>5, CustomersAfter DEF CustomersIInv
<1>2. ASSUME NEW c \in G!Callers, G!Reads(c), NEW p \in Profiles, G!ProfileStep(c, p)
      PROVE  CustomersIInv'
  BY <1>2, CustomersCreate, CustomersEdited, CustomersMerge DEF G!ProfileStep
<1>3. ASSUME NEW c \in Clients, G!Reads(c), G!MigrationStep(c)
      PROVE  CustomersIInv'
  <2>1. c \in G!Callers
    BY DEF G!Callers
  <2> QED
    BY <1>3, <2>1, CustomersDuplicate, CustomersSurvivor, CustomersBuild DEF G!MigrationStep
<1> QED
  BY <1>1, <1>2, <1>3, CustomersSales, CustomersMigrate DEF G!Next

\* At first there are no customers.
LEMMA CustomersInit ==
  ASSUME G!Init
  PROVE  CustomersIInv
<1>1. /\ db = [profile |-> [p \in Profiles |-> G!Unused],
               sale |-> [s \in Sales |-> [status |-> "absent", customer |-> NoProfile]],
               index |-> [i \in {"phone"} |-> [built |-> TRUE]]]
      /\ snap = [c \in Clients |-> NoSnapshot]
  BY DEF G!Init, G!OutsideTransactions
<1>2. /\ G!Unused \in G!ProfileDocs /\ ~G!Unused.exists
      /\ G!Unused.phone = NoPhone /\ G!Unused.phoneKey = NoPhone
  BY DEF G!Unused, G!NewProfile, G!ProfileDocs
<1>3. G!TypeOK
  BY <1>1, <1>2 DEF G!TypeOK, G!Databases, G!SaleDocs
<1>4. \A p \in Profiles : /\ ~db.profile[p].exists /\ db.profile[p].phone = NoPhone
                          /\ db.profile[p].phoneKey = NoPhone
  BY <1>1, <1>2
<1>5. NoPhone \notin Phones
  BY CustomersFinite
<1> QED
  BY <1>1, <1>3, <1>4, <1>5 DEF CustomersIInv

\* A phone number finds one profile.
LEMMA CustomersOne ==
  ASSUME CustomersIInv
  PROVE  G!OneCustomerPerPhone
BY CustomersOnly DEF CustomersIInv, G!OneCustomerPerPhone

-------------------------------------------------------------------------------
(* Coupons.                                                                *)

\* The transactions are those of Snapshots.
LEMMA CouponsSnapshots ==
  /\ \A c : U!View(c) = V!View(c) /\ (U!Reads(c) <=> V!Reads(c))
  /\ \A c : (U!Begin(c) <=> V!Begin(c)) /\ (U!End(c) <=> V!End(c)) /\ U!Ended(c) = V!Ended(c)
  /\ \A c, docs : U!Overtaken(c, docs) = V!Overtaken(c, docs)
  /\ \A old, new : U!Written(old, new) = V!Written(old, new)
  /\ \A c, new : U!Commit(c, new) <=> V!Commit(c, new)
  /\ \A c, new : U!Save(c, new) <=> V!Save(c, new)
  /\ U!Callers = V!Callers
<1>1. \A c : U!View(c) = V!View(c) /\ (U!Reads(c) <=> V!Reads(c))
  BY DEF U!View, V!View, U!Reads, V!Reads
<1>2. \A c : (U!Begin(c) <=> V!Begin(c)) /\ (U!End(c) <=> V!End(c)) /\ U!Ended(c) = V!Ended(c)
  BY DEF U!Begin, V!Begin, U!End, V!End, U!Ended, V!Ended
<1>3. \A c, docs : U!Overtaken(c, docs) = V!Overtaken(c, docs)
  BY DEF U!Overtaken, V!Overtaken
<1>4. \A old, new : U!Written(old, new) = V!Written(old, new)
  BY DEF U!Written, V!Written
<1>5. \A c, new : U!Commit(c, new) <=> V!Commit(c, new)
  BY DEF U!Commit, V!Commit, U!NoConflict, V!NoConflict, U!View, V!View, U!Written, V!Written,
     U!Ended, V!Ended, U!Overtaken, V!Overtaken
<1>6. \A c, new : U!Save(c, new) <=> V!Save(c, new)
  BY DEF U!Save, V!Save, U!View, V!View, U!Written, V!Written, U!Ended, V!Ended,
     U!Overtaken, V!Overtaken
<1>7. U!Callers = V!Callers
  BY DEF U!Callers, V!Callers
<1> QED
  BY <1>1, <1>2, <1>3, <1>4, <1>5, <1>6, <1>7

\* What a request sees is a database.
LEMMA CouponsView ==
  ASSUME U!TypeOK, NEW c \in U!Callers, U!Reads(c)
  PROVE  U!View(c) \in U!Databases
BY DEF U!TypeOK, U!View, U!Reads

\* A database is its two collections.
LEMMA CouponsRecord ==
  ASSUME NEW d \in U!Databases
  PROVE  /\ DOMAIN d = {"coupon", "row"}
         /\ DOMAIN d.coupon = Coupons /\ DOMAIN d.row = (Coupons \X Uses)
         /\ d = [coupon |-> d.coupon, row |-> d.row]
         /\ d.coupon \in [Coupons -> U!CouponDocs]
         /\ d.row \in [(Coupons \X Uses) -> U!RowDocs]
         /\ \A doc \in Coupons : d.coupon[doc] \in U!CouponDocs
         /\ \A doc \in (Coupons \X Uses) : d.row[doc] \in U!RowDocs
BY DEF U!Databases

\* Documents of their kinds make a database.
LEMMA CouponsOf ==
  ASSUME NEW d, NEW e \in U!Databases,
         d = [coll \in DOMAIN e |-> d[coll]],
         \A coll \in DOMAIN e : d[coll] = [doc \in DOMAIN e[coll] |-> d[coll][doc]],
         \A doc \in Coupons : d.coupon[doc] \in U!CouponDocs,
         \A doc \in (Coupons \X Uses) : d.row[doc] \in U!RowDocs
  PROVE  d \in U!Databases
<1>1. /\ DOMAIN e = {"coupon", "row"}
      /\ DOMAIN e.coupon = Coupons /\ DOMAIN e.row = (Coupons \X Uses)
  BY CouponsRecord
<1>2. d = [coupon |-> d.coupon, row |-> d.row]
  BY <1>1
<1>3. d.coupon \in [Coupons -> U!CouponDocs]
  <2>1. d.coupon = [doc \in Coupons |-> d.coupon[doc]]
    BY <1>1
  <2> QED
    BY <2>1
<1>4. d.row \in [(Coupons \X Uses) -> U!RowDocs]
  <2>1. d.row = [doc \in (Coupons \X Uses) |-> d.row[doc]]
    BY <1>1
  <2> QED
    BY <2>1
<1> QED
  BY <1>2, <1>3, <1>4 DEF U!Databases

\* What a commit makes of the collections.
LEMMA CouponsCommit ==
  ASSUME U!TypeOK, Tracked, NEW c \in U!Callers, U!Reads(c), NEW new \in U!Databases,
         U!Commit(c, new)
  PROVE  /\ U!TypeOK' /\ snap' = V!Ended(c) /\ behind' = V!Overtaken(c, V!Written(U!View(c), new))
         /\ Tracked'
         /\ \A doc \in Coupons :
               IF new.coupon[doc] = U!View(c).coupon[doc] THEN db'.coupon[doc] = db.coupon[doc]
               ELSE db'.coupon[doc] = new.coupon[doc] /\ U!View(c).coupon[doc] = db.coupon[doc]
         /\ \A doc \in (Coupons \X Uses) :
               IF new.row[doc] = U!View(c).row[doc] THEN db'.row[doc] = db.row[doc]
               ELSE db'.row[doc] = new.row[doc] /\ U!View(c).row[doc] = db.row[doc]
<1> DEFINE read == U!View(c)
<1>1. /\ db \in U!Databases /\ read \in U!Databases
      /\ V!Commit(c, new) /\ read = V!View(c) /\ c \in V!Callers /\ V!Reads(c)
  BY CouponsSnapshots, CouponsView DEF U!TypeOK
<1>2. Alike(new, db) /\ Alike(read, db)
  BY <1>1, CouponsRecord DEF Alike
<1>3. /\ Tracked'
      /\ \A coll \in DOMAIN db : \A doc \in DOMAIN db[coll] :
            IF new[coll][doc] = read[coll][doc] THEN db'[coll][doc] = db[coll][doc]
            ELSE db'[coll][doc] = new[coll][doc] /\ read[coll][doc] = db[coll][doc]
  <2> HIDE DEF read
  <2> QED
    BY <1>1, <1>2, CommitWrites
<1>4. /\ DOMAIN db = {"coupon", "row"}
      /\ DOMAIN db.coupon = Coupons /\ DOMAIN db.row = (Coupons \X Uses)
  BY <1>1, CouponsRecord
<1>5. /\ db' = [coll \in DOMAIN db |-> db'[coll]]
      /\ \A coll \in DOMAIN db : db'[coll] = [doc \in DOMAIN db[coll] |-> db'[coll][doc]]
      /\ snap' = V!Ended(c) /\ behind' = V!Overtaken(c, V!Written(read, new))
  BY <1>1 DEF V!Commit
<1> HIDE DEF read
<1>6. \A doc \in Coupons : db'.coupon[doc] \in U!CouponDocs
  BY <1>1, <1>3, <1>4, CouponsRecord
<1>7. \A doc \in (Coupons \X Uses) : db'.row[doc] \in U!RowDocs
  BY <1>1, <1>3, <1>4, CouponsRecord
<1>8. db' \in U!Databases
  BY <1>1, <1>5, <1>6, <1>7, CouponsOf
<1>9. snap' \in [Clients -> U!Databases \cup {NoSnapshot}]
  BY <1>5 DEF V!Ended, U!TypeOK
<1>10. U!TypeOK'
  BY <1>8, <1>9 DEF U!TypeOK
<1>11. \A doc \in Coupons :
          IF new.coupon[doc] = read.coupon[doc] THEN db'.coupon[doc] = db.coupon[doc]
          ELSE db'.coupon[doc] = new.coupon[doc] /\ read.coupon[doc] = db.coupon[doc]
  BY <1>3, <1>4
<1>12. \A doc \in (Coupons \X Uses) :
          IF new.row[doc] = read.row[doc] THEN db'.row[doc] = db.row[doc]
          ELSE db'.row[doc] = new.row[doc] /\ read.row[doc] = db.row[doc]
  BY <1>3, <1>4
<1> QED
  BY <1>3, <1>5, <1>10, <1>11, <1>12 DEF read

\* A save sets the fields that it changed, whatever they are by now.
LEMMA CouponsSave ==
  ASSUME U!TypeOK, Tracked, NEW c \in U!Callers, U!Reads(c), NEW new \in U!Databases,
         U!Save(c, new)
  PROVE  /\ U!TypeOK' /\ snap' = V!Ended(c) /\ behind' = V!Overtaken(c, V!Written(db, db'))
         /\ Tracked'
         /\ \A doc \in Coupons :
               db'.coupon[doc] = IF new.coupon[doc] = U!View(c).coupon[doc] THEN db.coupon[doc]
                              ELSE [field \in DOMAIN db.coupon[doc] |->
                                       IF new.coupon[doc][field] # U!View(c).coupon[doc][field]
                                       THEN new.coupon[doc][field] ELSE db.coupon[doc][field]]
         /\ \A doc \in (Coupons \X Uses) :
               db'.row[doc] = IF new.row[doc] = U!View(c).row[doc] THEN db.row[doc]
                              ELSE [field \in DOMAIN db.row[doc] |->
                                       IF new.row[doc][field] # U!View(c).row[doc][field]
                                       THEN new.row[doc][field] ELSE db.row[doc][field]]
<1> DEFINE read == U!View(c)
<1>1. /\ db \in U!Databases /\ read \in U!Databases
      /\ V!Save(c, new) /\ read = V!View(c)
  BY CouponsSnapshots, CouponsView DEF U!TypeOK
<1>2. /\ DOMAIN db = {"coupon", "row"}
      /\ DOMAIN db.coupon = Coupons /\ DOMAIN db.row = (Coupons \X Uses)
  BY <1>1, CouponsRecord
<1>3. /\ Alike(db', db)
      /\ \A coll \in DOMAIN db : \A doc \in DOMAIN db[coll] :
         db'[coll][doc] = IF new[coll][doc] = read[coll][doc] THEN db[coll][doc]
                          ELSE [field \in DOMAIN db[coll][doc] |->
                                   IF new[coll][doc][field] # read[coll][doc][field]
                                   THEN new[coll][doc][field] ELSE db[coll][doc][field]]
  <2> HIDE DEF read
  <2> QED
    BY <1>1, SaveSets
<1>4. /\ db' = [coll \in DOMAIN db |-> db'[coll]]
      /\ \A coll \in DOMAIN db : db'[coll] = [doc \in DOMAIN db[coll] |-> db'[coll][doc]]
      /\ snap' = V!Ended(c) /\ behind' = V!Overtaken(c, V!Written(db, db'))
  BY <1>1 DEF V!Save
<1> HIDE DEF read
<1>5. \A doc \in Coupons :
          db'.coupon[doc] = IF new.coupon[doc] = read.coupon[doc] THEN db.coupon[doc]
                         ELSE [field \in DOMAIN db.coupon[doc] |->
                                  IF new.coupon[doc][field] # read.coupon[doc][field]
                                  THEN new.coupon[doc][field] ELSE db.coupon[doc][field]]
  BY <1>2, <1>3
<1>6. ASSUME NEW k \in Coupons PROVE db'.coupon[k] \in U!CouponDocs
  <2>1. db.coupon[k] \in U!CouponDocs /\ new.coupon[k] \in U!CouponDocs
    BY <1>1, CouponsRecord
  <2>2. PICK doc : doc = [field \in DOMAIN db.coupon[k] |->
                             IF new.coupon[k][field] # read.coupon[k][field]
                             THEN new.coupon[k][field] ELSE db.coupon[k][field]]
    OBVIOUS
  <2>3. db'.coupon[k] = db.coupon[k] \/ db'.coupon[k] = doc
    BY <1>5, <2>2
  <2>4. doc \in U!CouponDocs
    <3>1. DOMAIN db.coupon[k] = {"status", "usageLimit", "perCustomerLimit", "timesRedeemed"}
      BY <2>1 DEF U!CouponDocs
    <3>2. doc = [status |-> doc.status, usageLimit |-> doc.usageLimit,
                 perCustomerLimit |-> doc.perCustomerLimit, timesRedeemed |-> doc.timesRedeemed]
      BY <2>2, <3>1
    <3>3. /\ doc.status \in {db.coupon[k].status, new.coupon[k].status}
          /\ doc.usageLimit \in {db.coupon[k].usageLimit, new.coupon[k].usageLimit}
          /\ doc.perCustomerLimit \in {db.coupon[k].perCustomerLimit,
                                       new.coupon[k].perCustomerLimit}
          /\ doc.timesRedeemed \in {db.coupon[k].timesRedeemed, new.coupon[k].timesRedeemed}
      BY <2>2, <3>1
    <3> QED
      BY <2>1, <3>2, <3>3 DEF U!CouponDocs
  <2> QED
    BY <2>1, <2>3, <2>4
<1>7. \A doc \in (Coupons \X Uses) :
          db'.row[doc] = IF new.row[doc] = read.row[doc] THEN db.row[doc]
                         ELSE [field \in DOMAIN db.row[doc] |->
                                  IF new.row[doc][field] # read.row[doc][field]
                                  THEN new.row[doc][field] ELSE db.row[doc][field]]
  BY <1>2, <1>3
<1>8. ASSUME NEW k \in (Coupons \X Uses) PROVE db'.row[k] \in U!RowDocs
  <2>1. db.row[k] \in U!RowDocs /\ new.row[k] \in U!RowDocs
    BY <1>1, CouponsRecord
  <2>2. PICK doc : doc = [field \in DOMAIN db.row[k] |->
                             IF new.row[k][field] # read.row[k][field]
                             THEN new.row[k][field] ELSE db.row[k][field]]
    OBVIOUS
  <2>3. db'.row[k] = db.row[k] \/ db'.row[k] = doc
    BY <1>7, <2>2
  <2>4. doc \in U!RowDocs
    <3>1. DOMAIN db.row[k] = {"exists", "customer"}
      BY <2>1 DEF U!RowDocs
    <3>2. doc = [exists |-> doc.exists, customer |-> doc.customer]
      BY <2>2, <3>1
    <3>3. /\ doc.exists \in {db.row[k].exists, new.row[k].exists}
          /\ doc.customer \in {db.row[k].customer, new.row[k].customer}
      BY <2>2, <3>1
    <3> QED
      BY <2>1, <3>2, <3>3 DEF U!RowDocs
  <2> QED
    BY <2>1, <2>3, <2>4
<1>9. db' \in U!Databases
  BY <1>1, <1>4, <1>6, <1>8, CouponsOf
<1>10. snap' \in [Clients -> U!Databases \cup {NoSnapshot}]
  BY <1>4 DEF V!Ended, U!TypeOK
<1>11. U!TypeOK'
  BY <1>9, <1>10 DEF U!TypeOK
<1>12. \A coll \in DOMAIN db : \A doc \in DOMAIN db[coll] :
          <<coll, doc>> \notin V!Written(db, db') => db'[coll][doc] = db[coll][doc]
  <2> SUFFICES ASSUME NEW coll \in DOMAIN db, NEW doc \in DOMAIN db[coll],
                      <<coll, doc>> \notin V!Written(db, db')
               PROVE  db'[coll][doc] = db[coll][doc]
    OBVIOUS
  <2>1. coll \in DOMAIN db' /\ doc \in DOMAIN db'[coll]
    BY <1>4
  <2>2. PICK old, aft : old = db /\ aft = db'
    OBVIOUS
  <2>3. <<coll, doc>> \notin V!Written(old, aft)
    BY <2>2
  <2>4. aft[coll][doc] = old[coll][doc]
    BY <2>1, <2>2, <2>3, WrittenIs
  <2> QED
    BY <2>2, <2>4
<1>13. Tracked'
  BY <1>3, <1>4, <1>12, TrackedWrite
<1> QED
  BY <1>4, <1>11, <1>13, <1>5, <1>7 DEF read

\* A database with another coupon collection, or one document of it replaced.
LEMMA CouponsCouponSet ==
  ASSUME NEW d \in U!Databases
  PROVE  /\ \A docs \in [Coupons -> U!CouponDocs] :
               LET e == [d EXCEPT !.coupon = docs]
               IN  e \in U!Databases /\ e.coupon = docs /\ e.row = d.row
         /\ \A k \in Coupons, doc \in U!CouponDocs :
               LET e == [d EXCEPT !.coupon[k] = doc]
               IN  /\ e \in U!Databases /\ e.row = d.row
                   /\ e.coupon = [d.coupon EXCEPT ![k] = doc] /\ e.coupon[k] = doc
                   /\ \A i \in Coupons \ {k} : e.coupon[i] = d.coupon[i]
<1>1. ASSUME NEW docs \in [Coupons -> U!CouponDocs]
      PROVE  LET e == [d EXCEPT !.coupon = docs]
             IN  e \in U!Databases /\ e.coupon = docs /\ e.row = d.row
  <2>1. [d EXCEPT !.coupon = docs] = [coupon |-> docs, row |-> d.row]
    BY CouponsRecord
  <2> QED
    BY <2>1, CouponsRecord DEF U!Databases
<1>2. ASSUME NEW k \in Coupons, NEW doc \in U!CouponDocs
      PROVE  LET e == [d EXCEPT !.coupon[k] = doc]
             IN  /\ e \in U!Databases /\ e.row = d.row
                 /\ e.coupon = [d.coupon EXCEPT ![k] = doc] /\ e.coupon[k] = doc
                 /\ \A i \in Coupons \ {k} : e.coupon[i] = d.coupon[i]
  <2> DEFINE docs == [d.coupon EXCEPT ![k] = doc]
             e == [d EXCEPT !.coupon[k] = doc]
  <2>1. e = [d EXCEPT !.coupon = docs]
    OBVIOUS
  <2>2. /\ docs \in [Coupons -> U!CouponDocs] /\ docs[k] = doc
        /\ \A i \in Coupons \ {k} : docs[i] = d.coupon[i]
    BY CouponsRecord
  <2> HIDE DEF docs, e
  <2>3. e \in U!Databases /\ e.coupon = docs /\ e.row = d.row
    BY <1>1, <2>1, <2>2
  <2> QED
    BY <2>2, <2>3 DEF docs, e
<1> QED
  BY <1>1, <1>2

\* The counters count, and nobody overtakes a snapshot's redemptions without its coupon.
CouponsIInv ==
    /\ U!TypeOK
    /\ Tracked
    /\ U!CounterCountsRows
    /\ \A c \in Clients, k \in Coupons, o \in Uses :
          <<"row", <<k, o>>>> \in behind[c] => <<"coupon", k>> \in behind[c]

\* The number of elements is that of FiniteSets.
LEMMA CouponsCardinality == \A set : U!Cardinality(set) = Cardinality(set)
BY Zenon DEF U!Cardinality, Cardinality

\* Uses are finitely many.
LEMMA CouponsFinite == IsFiniteSet(Uses)
<1>1. U!IsFiniteSet(Uses)
  BY RestaurantAssumption DEF U!CouponsAssumption
<1> QED
  BY <1>1, Zenon DEF U!IsFiniteSet, IsFiniteSet

\* Who writes redemptions with their coupons, if any, keeps that.
LEMMA CouponsBehind ==
  ASSUME CouponsIInv, NEW c, NEW docs, behind' = V!Overtaken(c, docs),
         \A k \in Coupons, o \in Uses : <<"row", <<k, o>>>> \in docs => <<"coupon", k>> \in docs
  PROVE  \A q \in Clients, k \in Coupons, o \in Uses :
             <<"row", <<k, o>>>> \in behind'[q] => <<"coupon", k>> \in behind'[q]
<1> SUFFICES ASSUME NEW q \in Clients, NEW k \in Coupons, NEW o \in Uses,
                    <<"row", <<k, o>>>> \in behind'[q]
             PROVE  <<"coupon", k>> \in behind'[q]
  OBVIOUS
<1>1. behind'[q] = behind[q] \cup docs
  BY DEF V!Overtaken
<1>2. CASE <<"row", <<k, o>>>> \in docs
  BY <1>1, <1>2
<1>3. CASE <<"row", <<k, o>>>> \in behind[q]
  BY <1>1, <1>3 DEF CouponsIInv
<1> QED
  BY <1>1, <1>2, <1>3

\* The rows of a coupon that nobody wrote since are as they were read.
LEMMA CouponsRead ==
  ASSUME CouponsIInv, NEW c \in U!Callers, U!Reads(c), NEW k \in Coupons,
         c \in Clients => <<"coupon", k>> \notin behind[c]
  PROVE  /\ U!View(c).coupon[k] = db.coupon[k]
         /\ \A o \in Uses : U!View(c).row[<<k, o>>] = db.row[<<k, o>>]
<1>1. CASE c \notin Clients
  BY <1>1 DEF U!View
<1>2. CASE c \in Clients
  <2>1. U!View(c) = snap[c] /\ AsRead(c)
    BY <1>2 DEF U!View, U!Reads, CouponsIInv, Tracked
  <2>2. /\ DOMAIN db = {"coupon", "row"}
        /\ DOMAIN db.coupon = Coupons /\ DOMAIN db.row = (Coupons \X Uses)
    BY CouponsRecord DEF CouponsIInv, U!TypeOK
  <2>3. <<"coupon", k>> \notin behind[c]
    BY <1>2
  <2>4. \A o \in Uses : <<"row", <<k, o>>>> \notin behind[c]
    BY <1>2, <2>3 DEF CouponsIInv
  <2>5. snap[c].coupon[k] = db.coupon[k]
    BY <2>1, <2>2, <2>3 DEF AsRead
  <2>6. ASSUME NEW o \in Uses PROVE snap[c].row[<<k, o>>] = db.row[<<k, o>>]
    <3>1. <<k, o>> \in DOMAIN db.row /\ "row" \in DOMAIN db
      BY <2>2
    <3> QED
      BY <2>1, <2>4, <3>1 DEF AsRead
  <2> QED
    BY <2>1, <2>5, <2>6
<1> QED
  BY <1>1, <1>2

\* What a claim makes of a coupon.
LEMMA CouponsClaimed ==
  ASSUME NEW doc \in U!CouponDocs
  PROVE  /\ U!Claimed(doc) \in U!CouponDocs
         /\ U!Claimed(doc).timesRedeemed = doc.timesRedeemed + 1
         /\ U!Claimed(doc) # doc
<1>1. PICK n : n = doc.timesRedeemed + 1
  OBVIOUS
<1>2. U!Claimed(doc) = [doc EXCEPT !.timesRedeemed = n]
  BY <1>1 DEF U!Claimed
<1>3. doc.timesRedeemed \in Nat /\ n \in Nat
  BY <1>1 DEF U!CouponDocs
<1> QED
  BY <1>1, <1>2, <1>3 DEF U!CouponDocs

\* The uses of a coupon, one more.
LEMMA CouponsOneMore ==
  ASSUME NEW k \in Coupons, NEW o \in Uses,
         ~db.row[<<k, o>>].exists, db'.row[<<k, o>>].exists,
         \A i \in Uses \ {o} : db'.row[<<k, i>>] = db.row[<<k, i>>]
  PROVE  /\ U!Used(db', k) \ U!Used(db, k) = {o}
         /\ U!Cardinality(U!Used(db, k)) \in Nat
         /\ U!Cardinality(U!Used(db', k)) = U!Cardinality(U!Used(db, k)) + 1
<1>1. PICK old, new : old = U!Used(db, k) /\ new = U!Used(db', k)
  OBVIOUS
<1>2. new = old \cup {o} /\ o \notin old /\ new \ old = {o}
  BY <1>1 DEF U!Used
<1>3. IsFiniteSet(old)
  <2>1. old \subseteq Uses
    BY <1>1 DEF U!Used
  <2> QED
    BY <2>1, CouponsFinite, FS_Subset
<1>4. Cardinality(old) \in Nat /\ Cardinality(new) = Cardinality(old) + 1
  BY <1>2, <1>3, FS_CardinalityType, FS_AddElement
<1> QED
  BY <1>1, <1>2, <1>4, CouponsCardinality

\* recordRedemption, with the validation before it
LEMMA CouponsRedeem ==
  ASSUME CouponsIInv, NEW c \in U!Callers, U!Reads(c), NEW k \in Coupons, NEW o \in Uses,
         NEW guest \in U!Guests, U!Redeem(c, k, o, guest)
  PROVE  CouponsIInv' /\ U!RedeemedWithinLimits
<1> DEFINE d == U!View(c)
           doc == d.coupon[k]
           use == <<k, o>>
           row == [exists |-> TRUE, customer |-> guest]
<1>1. PICK new : new = [coupon |-> [d.coupon EXCEPT ![k] = U!Claimed(doc)],
                        row |-> [d.row EXCEPT ![use] = row]]
  OBVIOUS
<1>2. /\ ~d.row[use].exists /\ U!Valid(d, k, guest) /\ U!Commit(c, new)
  BY <1>1 DEF U!Redeem
<1>3. d \in U!Databases /\ db \in U!Databases
  BY CouponsView DEF CouponsIInv, U!TypeOK
<1> HIDE DEF d
<1>4. doc \in U!CouponDocs /\ use \in (Coupons \X Uses) /\ row \in U!RowDocs
  BY <1>3, CouponsRecord DEF U!RowDocs
<1>5. U!Claimed(doc) \in U!CouponDocs /\ U!Claimed(doc) # doc
      /\ U!Claimed(doc).timesRedeemed = doc.timesRedeemed + 1
  BY <1>4, CouponsClaimed
<1>6. /\ d.coupon \in [Coupons -> U!CouponDocs]
      /\ d.row \in [(Coupons \X Uses) -> U!RowDocs]
  BY <1>3, CouponsRecord
<1>7. /\ new \in U!Databases /\ new.coupon[k] = U!Claimed(doc) /\ new.row[use] = row
      /\ \A i \in Coupons \ {k} : new.coupon[i] = d.coupon[i]
      /\ \A i \in (Coupons \X Uses) \ {use} : new.row[i] = d.row[i]
  BY <1>1, <1>4, <1>5, <1>6 DEF U!Databases
<1>8. row # d.row[use]
  BY <1>2
<1>9. /\ U!TypeOK' /\ Tracked' /\ behind' = V!Overtaken(c, V!Written(d, new))
      /\ \A i \in Coupons :
            IF new.coupon[i] = d.coupon[i] THEN db'.coupon[i] = db.coupon[i]
            ELSE db'.coupon[i] = new.coupon[i] /\ d.coupon[i] = db.coupon[i]
      /\ \A i \in (Coupons \X Uses) :
            IF new.row[i] = d.row[i] THEN db'.row[i] = db.row[i]
            ELSE db'.row[i] = new.row[i] /\ d.row[i] = db.row[i]
  BY <1>2, <1>7, CouponsCommit DEF d, CouponsIInv
<1>10. /\ db'.coupon[k] = U!Claimed(doc) /\ doc = db.coupon[k]
       /\ \A i \in Coupons \ {k} : db'.coupon[i] = db.coupon[i]
  BY <1>5, <1>7, <1>9
<1>11. /\ db'.row[use] = row
       /\ \A i \in (Coupons \X Uses) \ {use} : db'.row[i] = db.row[i]
  BY <1>4, <1>7, <1>8, <1>9
<1>12. \A coll, i : <<coll, i>> \in V!Written(d, new)
                       <=> coll \in DOMAIN new /\ i \in DOMAIN new[coll]
                           /\ new[coll][i] # d[coll][i]
  BY WrittenIs
<1>13. DOMAIN new = {"coupon", "row"} /\ DOMAIN new.coupon = Coupons
       /\ DOMAIN new.row = (Coupons \X Uses)
  BY <1>7, CouponsRecord
<1>14. <<"coupon", k>> \in V!Written(d, new)
  BY <1>5, <1>7, <1>12, <1>13
<1>15. \A i \in Coupons, u \in Uses : <<"row", <<i, u>>>> \in V!Written(d, new) => i = k
  <2> SUFFICES ASSUME NEW i \in Coupons, NEW u \in Uses, i # k
               PROVE  <<"row", <<i, u>>>> \notin V!Written(d, new)
    OBVIOUS
  <2>1. <<i, u>> \in (Coupons \X Uses) \ {use}
    OBVIOUS
  <2>2. new.row[<<i, u>>] = d.row[<<i, u>>]
    BY <1>7, <2>1
  <2> QED
    BY <1>12, <2>2
<1>16. c \in Clients => <<"coupon", k>> \notin behind[c]
  <2>1. V!NoConflict(c, V!Written(d, new))
    BY <1>2, CouponsSnapshots DEF V!Commit, d
  <2> QED
    BY <1>14, <2>1 DEF V!NoConflict
<1>17. \A u \in Uses : d.row[<<k, u>>] = db.row[<<k, u>>]
  BY <1>16, CouponsRead DEF d
<1>18. U!Used(d, k) = U!Used(db, k) /\ U!UsedBy(d, k, guest) = U!UsedBy(db, k, guest)
  BY <1>17 DEF U!Used, U!UsedBy
<1>19. /\ ~db.row[use].exists /\ db'.row[use].exists /\ db'.row[use].customer = guest
       /\ \A i \in Uses \ {o} : db'.row[<<k, i>>] = db.row[<<k, i>>]
  <2>1. \A i \in Uses \ {o} : <<k, i>> \in (Coupons \X Uses) \ {use}
    OBVIOUS
  <2> QED
    BY <1>2, <1>11, <1>17, <2>1
<1>20. /\ U!Used(db', k) \ U!Used(db, k) = {o}
       /\ U!Cardinality(U!Used(db, k)) \in Nat
       /\ U!Cardinality(U!Used(db', k)) = U!Cardinality(U!Used(db, k)) + 1
  BY <1>19, CouponsOneMore
<1>21. \A i \in Coupons \ {k} : U!Used(db', i) = U!Used(db, i)
  <2> SUFFICES ASSUME NEW i \in Coupons \ {k} PROVE U!Used(db', i) = U!Used(db, i)
    OBVIOUS
  <2>1. \A u \in Uses : db'.row[<<i, u>>] = db.row[<<i, u>>]
    <3>1. \A u \in Uses : <<i, u>> \in (Coupons \X Uses) \ {use}
      OBVIOUS
    <3> QED
      BY <1>11, <3>1
  <2> QED
    BY <2>1 DEF U!Used
<1>22. U!CounterCountsRows'
  <2>1. \A i \in Coupons : db.coupon[i].timesRedeemed = U!Cardinality(U!Used(db, i))
    BY DEF CouponsIInv, U!CounterCountsRows
  <2>2. db'.coupon[k].timesRedeemed = U!Cardinality(U!Used(db', k))
    BY <1>5, <1>10, <1>20, <2>1
  <2>3. \A i \in Coupons \ {k} : db'.coupon[i].timesRedeemed = U!Cardinality(U!Used(db', i))
    BY <1>10, <1>21, <2>1
  <2> QED
    BY <2>2, <2>3 DEF U!CounterCountsRows
<1>23. U!RedeemedWithinLimits
  <2> SUFFICES ASSUME NEW i \in Coupons, NEW u \in U!Used(db', i) \ U!Used(db, i)
               PROVE  /\ db.coupon[i].status = "active"
                      /\ U!Below(U!Used(db, i), db.coupon[i].usageLimit)
                      /\ U!Below(U!UsedBy(db, i, db'.row[<<i, u>>].customer),
                                 db.coupon[i].perCustomerLimit)
    BY DEF U!RedeemedWithinLimits
  <2>1. i = k /\ u = o
    BY <1>20, <1>21
  <2>2. /\ doc.status = "active" /\ U!Below(U!Used(d, k), doc.usageLimit)
        /\ U!Below(U!UsedBy(d, k, guest), doc.perCustomerLimit)
    BY <1>2 DEF U!Valid
  <2> QED
    BY <1>10, <1>18, <1>19, <2>1, <2>2
<1>24. \A q \in Clients, i \in Coupons, u \in Uses :
           <<"row", <<i, u>>>> \in behind'[q] => <<"coupon", i>> \in behind'[q]
  BY <1>9, <1>14, <1>15, CouponsBehind
<1> QED
  BY <1>9, <1>22, <1>23, <1>24 DEF CouponsIInv

\* A coupon is saved with the uses that it was read with.
LEMMA CouponsEdited ==
  ASSUME CouponsIInv, NEW c \in U!Callers, U!Reads(c), NEW k \in Coupons,
         NEW doc \in U!CouponDocs, doc.timesRedeemed = U!View(c).coupon[k].timesRedeemed,
         U!Save(c, [U!View(c) EXCEPT !.coupon[k] = doc])
  PROVE  CouponsIInv' /\ U!RedeemedWithinLimits
<1> DEFINE d == U!View(c)
<1>1. d \in U!Databases /\ db \in U!Databases
  BY CouponsView DEF CouponsIInv, U!TypeOK
<1>2. PICK new : new = [d EXCEPT !.coupon[k] = doc]
  OBVIOUS
<1>3. U!Save(c, new)
  BY <1>2, Zenon
<1> HIDE DEF d
<1>4. /\ new \in U!Databases /\ new.row = d.row /\ new.coupon[k] = doc
      /\ \A i \in Coupons \ {k} : new.coupon[i] = d.coupon[i]
  BY <1>1, <1>2, CouponsCouponSet
<1>5. /\ U!TypeOK' /\ Tracked' /\ behind' = V!Overtaken(c, V!Written(db, db'))
      /\ \A i \in Coupons :
            db'.coupon[i] = IF new.coupon[i] = d.coupon[i] THEN db.coupon[i]
                            ELSE [field \in DOMAIN db.coupon[i] |->
                                     IF new.coupon[i][field] # d.coupon[i][field]
                                     THEN new.coupon[i][field] ELSE db.coupon[i][field]]
      /\ \A i \in (Coupons \X Uses) :
            db'.row[i] = IF new.row[i] = d.row[i] THEN db.row[i]
                         ELSE [field \in DOMAIN db.row[i] |->
                                  IF new.row[i][field] # d.row[i][field]
                                  THEN new.row[i][field] ELSE db.row[i][field]]
  BY <1>3, <1>4, CouponsSave DEF d, CouponsIInv
<1>6. \A i \in (Coupons \X Uses) : db'.row[i] = db.row[i]
  BY <1>4, <1>5
<1>7. \A i \in Coupons : db'.coupon[i].timesRedeemed = db.coupon[i].timesRedeemed
  <2>1. \A i \in Coupons \ {k} : db'.coupon[i] = db.coupon[i]
    BY <1>4, <1>5
  <2>2. CASE new.coupon[k] = d.coupon[k]
    BY <1>5, <2>1, <2>2
  <2>3. CASE new.coupon[k] # d.coupon[k]
    <3>1. DOMAIN db.coupon[k]
             = {"status", "usageLimit", "perCustomerLimit", "timesRedeemed"}
      <4>1. db.coupon[k] \in U!CouponDocs
        BY <1>1, CouponsRecord
      <4> QED
        BY <4>1 DEF U!CouponDocs
    <3>2. new.coupon[k].timesRedeemed = d.coupon[k].timesRedeemed
      BY <1>4 DEF d
    <3>3. db'.coupon[k] = [field \in DOMAIN db.coupon[k] |->
                              IF new.coupon[k][field] # d.coupon[k][field]
                              THEN new.coupon[k][field] ELSE db.coupon[k][field]]
      BY <1>5, <2>3
    <3>4. db'.coupon[k].timesRedeemed = db.coupon[k].timesRedeemed
      BY <3>1, <3>2, <3>3
    <3> QED
      BY <2>1, <3>4
  <2> QED
    BY <2>2, <2>3
<1>8. \A i \in Coupons : U!Used(db', i) = U!Used(db, i)
  <2>1. \A i \in Coupons, u \in Uses : db'.row[<<i, u>>] = db.row[<<i, u>>]
    BY <1>6
  <2> QED
    BY <2>1 DEF U!Used
<1>9. U!CounterCountsRows'
  <2>1. \A i \in Coupons : db.coupon[i].timesRedeemed = U!Cardinality(U!Used(db, i))
    BY DEF CouponsIInv, U!CounterCountsRows
  <2>2. \A i \in Coupons : db'.coupon[i].timesRedeemed = U!Cardinality(U!Used(db', i))
    BY <1>7, <1>8, <2>1
  <2> QED
    BY <2>2 DEF U!CounterCountsRows
<1>10. U!RedeemedWithinLimits
  BY <1>8 DEF U!RedeemedWithinLimits
<1>11. \A i \in Coupons, u \in Uses : <<"row", <<i, u>>>> \notin V!Written(db, db')
  <2>1. PICK old, aft : old = db /\ aft = db'
    OBVIOUS
  <2>2. \A i \in Coupons, u \in Uses : aft["row"][<<i, u>>] = old["row"][<<i, u>>]
    BY <1>6, <2>1
  <2>3. \A i \in Coupons, u \in Uses : <<"row", <<i, u>>>> \notin V!Written(old, aft)
    BY <2>2, WrittenIs
  <2> QED
    BY <2>1, <2>3
<1>12. \A q \in Clients, i \in Coupons, u \in Uses :
           <<"row", <<i, u>>>> \in behind'[q] => <<"coupon", i>> \in behind'[q]
  BY <1>5, <1>11, CouponsBehind
<1> QED
  BY <1>5, <1>9, <1>10, <1>12 DEF CouponsIInv

\* POST, PATCH and DELETE /coupons
LEMMA CouponsManaged ==
  ASSUME CouponsIInv, NEW c \in U!Callers, U!Reads(c), NEW k \in Coupons,
         \/ \E limit, each \in Limits :
               \/ U!CreateCoupon(c, k, limit, each)
               \/ \E status \in {"active", "retired"} : U!EditCoupon(c, k, limit, each, status)
         \/ U!DeactivateCoupon(c, k)
  PROVE  CouponsIInv' /\ U!RedeemedWithinLimits
<1> DEFINE old == U!View(c).coupon[k]
<1>1. old \in U!CouponDocs
  <2>1. U!View(c) \in U!Databases
    BY CouponsView DEF CouponsIInv
  <2> QED
    BY <2>1, CouponsRecord
<1>2. ASSUME NEW limit \in Limits, NEW each \in Limits, NEW status \in {"active", "retired"},
             U!Save(c, [U!View(c) EXCEPT
                           !.coupon[k] = U!normalizeCouponInput(@, limit, each, status)])
      PROVE  CouponsIInv' /\ U!RedeemedWithinLimits
  <2>1. PICK doc : doc = U!normalizeCouponInput(old, limit, each, status)
    OBVIOUS
  <2>2. U!Save(c, [U!View(c) EXCEPT !.coupon[k] = doc])
    BY <1>2, <2>1, Zenon
  <2> HIDE DEF old
  <2>3. doc \in U!CouponDocs /\ doc.timesRedeemed = old.timesRedeemed
    BY <1>1, <2>1 DEF U!normalizeCouponInput, U!CouponDocs
  <2> QED
    BY <2>2, <2>3, CouponsEdited DEF old
<1>3. ASSUME NEW limit \in Limits, NEW each \in Limits, U!CreateCoupon(c, k, limit, each)
      PROVE  CouponsIInv' /\ U!RedeemedWithinLimits
  <2>1. U!Save(c, [U!View(c) EXCEPT
                      !.coupon[k] = U!normalizeCouponInput(@, limit, each, "active")])
    BY <1>3, Zenon DEF U!CreateCoupon
  <2> QED
    BY <1>2, <2>1
<1>4. ASSUME NEW limit \in Limits, NEW each \in Limits, NEW status \in {"active", "retired"},
             U!EditCoupon(c, k, limit, each, status)
      PROVE  CouponsIInv' /\ U!RedeemedWithinLimits
  <2>1. U!Save(c, [U!View(c) EXCEPT
                      !.coupon[k] = U!normalizeCouponInput(@, limit, each, status)])
    BY <1>4, Zenon DEF U!EditCoupon
  <2> QED
    BY <1>2, <2>1
<1>5. ASSUME U!DeactivateCoupon(c, k)
      PROVE  CouponsIInv' /\ U!RedeemedWithinLimits
  <2>1. PICK doc : doc = [old EXCEPT !.status = "retired"]
    OBVIOUS
  <2>2. U!Save(c, [U!View(c) EXCEPT !.coupon[k].status = "retired"])
    BY <1>5, Zenon DEF U!DeactivateCoupon
  <2>3. U!Save(c, [U!View(c) EXCEPT !.coupon[k] = doc])
    BY <2>1, <2>2, Zenon
  <2> HIDE DEF old
  <2>4. doc \in U!CouponDocs /\ doc.timesRedeemed = old.timesRedeemed
    BY <1>1, <2>1 DEF U!CouponDocs
  <2> QED
    BY <2>3, <2>4, CouponsEdited DEF old
<1> QED
  BY <1>3, <1>4, <1>5

\* A step that writes nothing uses no coupon.
LEMMA CouponsSame ==
  ASSUME db' = db
  PROVE  U!RedeemedWithinLimits /\ (U!CounterCountsRows' <=> U!CounterCountsRows)
<1>1. \A i \in Coupons : U!Used(db', i) \ U!Used(db, i) = {}
  OBVIOUS
<1> QED
  BY <1>1 DEF U!RedeemedWithinLimits, U!CounterCountsRows

\* Every step keeps the invariant, and the limits.
LEMMA CouponsStep ==
  ASSUME CouponsIInv, U!Next
  PROVE  CouponsIInv' /\ U!RedeemedWithinLimits
<1>1. ASSUME NEW c \in Clients, U!Begin(c) \/ U!Refused(c)
      PROVE  CouponsIInv' /\ U!RedeemedWithinLimits
  <2>1. V!Begin(c) \/ V!End(c)
    BY <1>1, CouponsSnapshots DEF U!Refused
  <2>2. db' = db
    BY <2>1 DEF V!Begin, V!End
  <2>3. snap' \in [Clients -> U!Databases \cup {NoSnapshot}]
    BY <2>1 DEF CouponsIInv, U!TypeOK, V!Begin, V!End, V!Ended
  <2>4. Tracked'
    BY <2>1, TrackedBegin, TrackedEnd DEF CouponsIInv
  <2>5. \A q \in Clients : behind'[q] = behind[q] \/ behind'[q] = {}
    BY <2>1 DEF V!Begin, V!End, CouponsIInv, Tracked
  <2>6. \A q \in Clients, i \in Coupons, u \in Uses :
            <<"row", <<i, u>>>> \in behind'[q] => <<"coupon", i>> \in behind'[q]
    BY <2>5 DEF CouponsIInv
  <2>7. U!TypeOK'
    BY <2>2, <2>3 DEF CouponsIInv, U!TypeOK
  <2> QED
    BY <2>2, <2>4, <2>6, <2>7, CouponsSame DEF CouponsIInv
<1>2. ASSUME NEW c \in U!Callers, U!Reads(c), NEW k \in Coupons, U!CouponStep(c, k)
      PROVE  CouponsIInv' /\ U!RedeemedWithinLimits
  BY <1>2, CouponsRedeem, CouponsManaged DEF U!CouponStep
<1> QED
  BY <1>1, <1>2 DEF U!Next

\* At first there is no coupon.
LEMMA CouponsInit ==
  ASSUME U!Init
  PROVE  CouponsIInv
<1>1. /\ db = [coupon |-> [k \in Coupons |-> [status |-> "absent", usageLimit |-> 0,
                                              perCustomerLimit |-> 0, timesRedeemed |-> 0]],
               row |-> [use \in Coupons \X Uses |-> [exists |-> FALSE, customer |-> NoProfile]]]
      /\ snap = [c \in Clients |-> NoSnapshot] /\ behind = [c \in Clients |-> {}]
  BY DEF U!Init, U!OutsideTransactions
<1>2. 0 \in Limits
  BY RestaurantAssumption DEF U!CouponsAssumption
<1>3. U!TypeOK
  BY <1>1, <1>2 DEF U!TypeOK, U!Databases, U!CouponDocs, U!RowDocs, U!Guests
<1>4. Tracked
  BY <1>1 DEF Tracked
<1>5. U!CounterCountsRows
  <2>1. \A k \in Coupons : U!Used(db, k) = {}
    BY <1>1 DEF U!Used
  <2>2. U!Cardinality({}) = 0
    BY CouponsCardinality, FS_EmptySet
  <2>3. \A k \in Coupons : db.coupon[k].timesRedeemed = 0
    BY <1>1
  <2> QED
    BY <2>1, <2>2, <2>3 DEF U!CounterCountsRows
<1> QED
  BY <1>1, <1>3, <1>4, <1>5 DEF CouponsIInv

-------------------------------------------------------------------------------
(* The floor.                                                              *)

\* The transactions are those of Snapshots.
LEMMA SeatingSnapshots ==
  /\ \A c : F!View(c) = V!View(c) /\ (F!Reads(c) <=> V!Reads(c))
  /\ \A c : (F!Begin(c) <=> V!Begin(c)) /\ (F!End(c) <=> V!End(c)) /\ F!Ended(c) = V!Ended(c)
  /\ \A c, docs : F!Overtaken(c, docs) = V!Overtaken(c, docs)
  /\ \A old, new : F!Written(old, new) = V!Written(old, new)
  /\ \A c, new : F!Commit(c, new) <=> V!Commit(c, new)
  /\ \A c, new : F!Save(c, new) <=> V!Save(c, new)
  /\ \A c, new, saved : F!CommitSaved(c, new, saved) <=> V!CommitSaved(c, new, saved)
  /\ F!Callers = V!Callers
<1>1. \A c : F!View(c) = V!View(c) /\ (F!Reads(c) <=> V!Reads(c))
  BY DEF F!View, V!View, F!Reads, V!Reads
<1>2. \A c : (F!Begin(c) <=> V!Begin(c)) /\ (F!End(c) <=> V!End(c)) /\ F!Ended(c) = V!Ended(c)
  BY DEF F!Begin, V!Begin, F!End, V!End, F!Ended, V!Ended
<1>3. \A c, docs : F!Overtaken(c, docs) = V!Overtaken(c, docs)
  BY DEF F!Overtaken, V!Overtaken
<1>4. \A old, new : F!Written(old, new) = V!Written(old, new)
  BY DEF F!Written, V!Written
<1>5. \A c, new : F!Commit(c, new) <=> V!Commit(c, new)
  BY DEF F!Commit, V!Commit, F!NoConflict, V!NoConflict, F!View, V!View, F!Written, V!Written,
     F!Ended, V!Ended, F!Overtaken, V!Overtaken
<1>6. \A c, new : F!Save(c, new) <=> V!Save(c, new)
  BY DEF F!Save, V!Save, F!View, V!View, F!Written, V!Written, F!Ended, V!Ended,
     F!Overtaken, V!Overtaken
<1>7. \A c, new, saved : F!CommitSaved(c, new, saved) <=> V!CommitSaved(c, new, saved)
  BY DEF F!CommitSaved, V!CommitSaved, F!NoConflict, V!NoConflict, F!View, V!View, F!Written,
     V!Written, F!Ended, V!Ended, F!Overtaken, V!Overtaken
<1>8. F!Callers = V!Callers
  BY DEF F!Callers, V!Callers
<1> QED
  BY <1>1, <1>2, <1>3, <1>4, <1>5, <1>6, <1>7, <1>8

\* What a request sees is a database.
LEMMA SeatingView ==
  ASSUME F!TypeOK, NEW c \in F!Callers, F!Reads(c)
  PROVE  F!View(c) \in F!Databases
BY DEF F!TypeOK, F!View, F!Reads

\* A database is its four collections.
LEMMA SeatingRecord ==
  ASSUME NEW d \in F!Databases
  PROVE  /\ DOMAIN d = {"table", "check", "booking", "counter"}
         /\ DOMAIN d.table = Tables /\ DOMAIN d.check = Parties /\ DOMAIN d.booking = Bookings
         /\ DOMAIN d.counter = {"year"}
         /\ d = [table |-> d.table, check |-> d.check, booking |-> d.booking, counter |-> d.counter]
         /\ d.table \in [Tables -> [status : F!TABLE_STATUSES]]
         /\ d.check \in [Parties -> F!CheckDocs]
         /\ d.booking \in [Bookings -> F!BookingDocs]
         /\ d.counter \in [{"year"} -> [value : Nat]]
         /\ \A doc \in Tables : d.table[doc] \in [status : F!TABLE_STATUSES]
         /\ \A doc \in Parties : d.check[doc] \in F!CheckDocs
         /\ \A doc \in Bookings : d.booking[doc] \in F!BookingDocs
         /\ \A doc \in {"year"} : d.counter[doc] \in [value : Nat]
BY DEF F!Databases

\* Documents of their kinds make a database.
LEMMA SeatingOf ==
  ASSUME NEW d, NEW e \in F!Databases,
         d = [coll \in DOMAIN e |-> d[coll]],
         \A coll \in DOMAIN e : d[coll] = [doc \in DOMAIN e[coll] |-> d[coll][doc]],
         \A doc \in Tables : d.table[doc] \in [status : F!TABLE_STATUSES],
         \A doc \in Parties : d.check[doc] \in F!CheckDocs,
         \A doc \in Bookings : d.booking[doc] \in F!BookingDocs,
         \A doc \in {"year"} : d.counter[doc] \in [value : Nat]
  PROVE  d \in F!Databases
<1>1. /\ DOMAIN e = {"table", "check", "booking", "counter"}
      /\ DOMAIN e.table = Tables /\ DOMAIN e.check = Parties /\ DOMAIN e.booking = Bookings
      /\ DOMAIN e.counter = {"year"}
  BY SeatingRecord
<1>2. d = [table |-> d.table, check |-> d.check, booking |-> d.booking, counter |-> d.counter]
  BY <1>1
<1>3. d.table \in [Tables -> [status : F!TABLE_STATUSES]]
  <2>1. d.table = [doc \in Tables |-> d.table[doc]]
    BY <1>1
  <2> QED
    BY <2>1
<1>4. d.check \in [Parties -> F!CheckDocs]
  <2>1. d.check = [doc \in Parties |-> d.check[doc]]
    BY <1>1
  <2> QED
    BY <2>1
<1>5. d.booking \in [Bookings -> F!BookingDocs]
  <2>1. d.booking = [doc \in Bookings |-> d.booking[doc]]
    BY <1>1
  <2> QED
    BY <2>1
<1>6. d.counter \in [{"year"} -> [value : Nat]]
  <2>1. d.counter = [doc \in {"year"} |-> d.counter[doc]]
    BY <1>1
  <2> QED
    BY <2>1
<1> QED
  BY <1>2, <1>3, <1>4, <1>5, <1>6 DEF F!Databases

\* What a commit makes of the collections.
LEMMA SeatingCommit ==
  ASSUME F!TypeOK, Tracked, NEW c \in F!Callers, F!Reads(c), NEW new \in F!Databases,
         NEW saved, F!CommitSaved(c, new, saved)
  PROVE  /\ F!TypeOK' /\ snap' = V!Ended(c)
         /\ behind' = V!Overtaken(c, V!Written(F!View(c), new) \cup saved)
         /\ Tracked'
         /\ \A doc \in Tables :
               IF new.table[doc] = F!View(c).table[doc] THEN db'.table[doc] = db.table[doc]
               ELSE db'.table[doc] = new.table[doc] /\ F!View(c).table[doc] = db.table[doc]
         /\ \A doc \in Parties :
               IF new.check[doc] = F!View(c).check[doc] THEN db'.check[doc] = db.check[doc]
               ELSE db'.check[doc] = new.check[doc] /\ F!View(c).check[doc] = db.check[doc]
         /\ \A doc \in Bookings :
               IF new.booking[doc] = F!View(c).booking[doc] THEN db'.booking[doc] = db.booking[doc]
               ELSE db'.booking[doc] = new.booking[doc] /\ F!View(c).booking[doc] = db.booking[doc]
         /\ \A doc \in {"year"} :
               IF new.counter[doc] = F!View(c).counter[doc] THEN db'.counter[doc] = db.counter[doc]
               ELSE db'.counter[doc] = new.counter[doc] /\ F!View(c).counter[doc] = db.counter[doc]
         /\ \A k \in Parties : <<"check", k>> \in saved => F!View(c).check[k] = db.check[k]
<1> DEFINE read == F!View(c)
<1>1. /\ db \in F!Databases /\ read \in F!Databases
      /\ V!CommitSaved(c, new, saved) /\ read = V!View(c) /\ c \in V!Callers /\ V!Reads(c)
  BY SeatingSnapshots, SeatingView DEF F!TypeOK
<1>2. Alike(new, db) /\ Alike(read, db)
  BY <1>1, SeatingRecord DEF Alike
<1>3. /\ Tracked'
      /\ \A coll \in DOMAIN db : \A doc \in DOMAIN db[coll] :
            IF new[coll][doc] = read[coll][doc] THEN db'[coll][doc] = db[coll][doc]
            ELSE db'[coll][doc] = new[coll][doc] /\ read[coll][doc] = db[coll][doc]
      /\ \A coll \in DOMAIN db : \A doc \in DOMAIN db[coll] :
            <<coll, doc>> \in saved => read[coll][doc] = db[coll][doc]
  <2> HIDE DEF read
  <2> QED
    BY <1>1, <1>2, CommitSavedWrites
<1>4. /\ DOMAIN db = {"table", "check", "booking", "counter"}
      /\ DOMAIN db.table = Tables /\ DOMAIN db.check = Parties /\ DOMAIN db.booking = Bookings
      /\ DOMAIN db.counter = {"year"}
  BY <1>1, SeatingRecord
<1>5. /\ db' = [coll \in DOMAIN db |-> db'[coll]]
      /\ \A coll \in DOMAIN db : db'[coll] = [doc \in DOMAIN db[coll] |-> db'[coll][doc]]
      /\ snap' = V!Ended(c) /\ behind' = V!Overtaken(c, V!Written(read, new) \cup saved)
  BY <1>1 DEF V!CommitSaved
<1> HIDE DEF read
<1>6. \A doc \in Tables : db'.table[doc] \in [status : F!TABLE_STATUSES]
  BY <1>1, <1>3, <1>4, SeatingRecord
<1>7. \A doc \in Parties : db'.check[doc] \in F!CheckDocs
  BY <1>1, <1>3, <1>4, SeatingRecord
<1>8. \A doc \in Bookings : db'.booking[doc] \in F!BookingDocs
  BY <1>1, <1>3, <1>4, SeatingRecord
<1>9. \A doc \in {"year"} : db'.counter[doc] \in [value : Nat]
  BY <1>1, <1>3, <1>4, SeatingRecord
<1>10. db' \in F!Databases
  BY <1>1, <1>5, <1>6, <1>7, <1>8, <1>9, SeatingOf
<1>11. snap' \in [Clients -> F!Databases \cup {NoSnapshot}]
  BY <1>5 DEF V!Ended, F!TypeOK
<1>12. F!TypeOK'
  BY <1>10, <1>11 DEF F!TypeOK
<1>13. \A doc \in Tables :
          IF new.table[doc] = read.table[doc] THEN db'.table[doc] = db.table[doc]
          ELSE db'.table[doc] = new.table[doc] /\ read.table[doc] = db.table[doc]
  BY <1>3, <1>4
<1>14. \A doc \in Parties :
          IF new.check[doc] = read.check[doc] THEN db'.check[doc] = db.check[doc]
          ELSE db'.check[doc] = new.check[doc] /\ read.check[doc] = db.check[doc]
  BY <1>3, <1>4
<1>15. \A doc \in Bookings :
          IF new.booking[doc] = read.booking[doc] THEN db'.booking[doc] = db.booking[doc]
          ELSE db'.booking[doc] = new.booking[doc] /\ read.booking[doc] = db.booking[doc]
  BY <1>3, <1>4
<1>16. \A doc \in {"year"} :
          IF new.counter[doc] = read.counter[doc] THEN db'.counter[doc] = db.counter[doc]
          ELSE db'.counter[doc] = new.counter[doc] /\ read.counter[doc] = db.counter[doc]
  BY <1>3, <1>4
<1>17. \A k \in Parties : <<"check", k>> \in saved => read.check[k] = db.check[k]
  BY <1>3, <1>4
<1> QED
  BY <1>3, <1>5, <1>12, <1>13, <1>14, <1>15, <1>16, <1>17 DEF read

\* A save sets the fields that it changed, whatever they are by now.
LEMMA SeatingSave ==
  ASSUME F!TypeOK, Tracked, NEW c \in F!Callers, F!Reads(c), NEW new \in F!Databases,
         F!Save(c, new)
  PROVE  /\ F!TypeOK' /\ snap' = V!Ended(c) /\ behind' = V!Overtaken(c, V!Written(db, db'))
         /\ Tracked'
         /\ \A doc \in Tables :
               db'.table[doc] = IF new.table[doc] = F!View(c).table[doc] THEN db.table[doc]
                              ELSE [field \in DOMAIN db.table[doc] |->
                                       IF new.table[doc][field] # F!View(c).table[doc][field]
                                       THEN new.table[doc][field] ELSE db.table[doc][field]]
         /\ \A doc \in Parties :
               db'.check[doc] = IF new.check[doc] = F!View(c).check[doc] THEN db.check[doc]
                              ELSE [field \in DOMAIN db.check[doc] |->
                                       IF new.check[doc][field] # F!View(c).check[doc][field]
                                       THEN new.check[doc][field] ELSE db.check[doc][field]]
         /\ \A doc \in Bookings :
               db'.booking[doc] = IF new.booking[doc] = F!View(c).booking[doc] THEN db.booking[doc]
                              ELSE [field \in DOMAIN db.booking[doc] |->
                                       IF new.booking[doc][field] # F!View(c).booking[doc][field]
                                       THEN new.booking[doc][field] ELSE db.booking[doc][field]]
         /\ \A doc \in {"year"} :
               db'.counter[doc] = IF new.counter[doc] = F!View(c).counter[doc] THEN db.counter[doc]
                              ELSE [field \in DOMAIN db.counter[doc] |->
                                       IF new.counter[doc][field] # F!View(c).counter[doc][field]
                                       THEN new.counter[doc][field] ELSE db.counter[doc][field]]
<1> DEFINE read == F!View(c)
<1>1. /\ db \in F!Databases /\ read \in F!Databases
      /\ V!Save(c, new) /\ read = V!View(c)
  BY SeatingSnapshots, SeatingView DEF F!TypeOK
<1>2. /\ DOMAIN db = {"table", "check", "booking", "counter"}
      /\ DOMAIN db.table = Tables /\ DOMAIN db.check = Parties /\ DOMAIN db.booking = Bookings
      /\ DOMAIN db.counter = {"year"}
  BY <1>1, SeatingRecord
<1>3. /\ Alike(db', db)
      /\ \A coll \in DOMAIN db : \A doc \in DOMAIN db[coll] :
         db'[coll][doc] = IF new[coll][doc] = read[coll][doc] THEN db[coll][doc]
                          ELSE [field \in DOMAIN db[coll][doc] |->
                                   IF new[coll][doc][field] # read[coll][doc][field]
                                   THEN new[coll][doc][field] ELSE db[coll][doc][field]]
  <2> HIDE DEF read
  <2> QED
    BY <1>1, SaveSets
<1>4. /\ db' = [coll \in DOMAIN db |-> db'[coll]]
      /\ \A coll \in DOMAIN db : db'[coll] = [doc \in DOMAIN db[coll] |-> db'[coll][doc]]
      /\ snap' = V!Ended(c) /\ behind' = V!Overtaken(c, V!Written(db, db'))
  BY <1>1 DEF V!Save
<1> HIDE DEF read
<1>5. \A doc \in Tables :
          db'.table[doc] = IF new.table[doc] = read.table[doc] THEN db.table[doc]
                         ELSE [field \in DOMAIN db.table[doc] |->
                                  IF new.table[doc][field] # read.table[doc][field]
                                  THEN new.table[doc][field] ELSE db.table[doc][field]]
  BY <1>2, <1>3
<1>6. ASSUME NEW k \in Tables PROVE db'.table[k] \in [status : F!TABLE_STATUSES]
  <2>1. db.table[k] \in [status : F!TABLE_STATUSES] /\ new.table[k] \in [status : F!TABLE_STATUSES]
    BY <1>1, SeatingRecord
  <2>2. PICK doc : doc = [field \in DOMAIN db.table[k] |->
                             IF new.table[k][field] # read.table[k][field]
                             THEN new.table[k][field] ELSE db.table[k][field]]
    OBVIOUS
  <2>3. db'.table[k] = db.table[k] \/ db'.table[k] = doc
    BY <1>5, <2>2
  <2>4. doc \in [status : F!TABLE_STATUSES]
    <3>1. DOMAIN db.table[k] = {"status"}
      BY <2>1 DEF F!Databases
    <3>2. doc = [status |-> doc.status]
      BY <2>2, <3>1
    <3>3. /\ doc.status \in {db.table[k].status, new.table[k].status}
      BY <2>2, <3>1
    <3> QED
      BY <2>1, <3>2, <3>3 DEF F!Databases
  <2> QED
    BY <2>1, <2>3, <2>4
<1>7. \A doc \in Parties :
          db'.check[doc] = IF new.check[doc] = read.check[doc] THEN db.check[doc]
                         ELSE [field \in DOMAIN db.check[doc] |->
                                  IF new.check[doc][field] # read.check[doc][field]
                                  THEN new.check[doc][field] ELSE db.check[doc][field]]
  BY <1>2, <1>3
<1>8. ASSUME NEW k \in Parties PROVE db'.check[k] \in F!CheckDocs
  <2>1. db.check[k] \in F!CheckDocs /\ new.check[k] \in F!CheckDocs
    BY <1>1, SeatingRecord
  <2>2. PICK doc : doc = [field \in DOMAIN db.check[k] |->
                             IF new.check[k][field] # read.check[k][field]
                             THEN new.check[k][field] ELSE db.check[k][field]]
    OBVIOUS
  <2>3. db'.check[k] = db.check[k] \/ db'.check[k] = doc
    BY <1>7, <2>2
  <2>4. doc \in F!CheckDocs
    <3>1. DOMAIN db.check[k] = {"status", "table", "holds"}
      BY <2>1 DEF F!CheckDocs
    <3>2. doc = [status |-> doc.status, table |-> doc.table, holds |-> doc.holds]
      BY <2>2, <3>1
    <3>3. /\ doc.status \in {db.check[k].status, new.check[k].status}
          /\ doc.table \in {db.check[k].table, new.check[k].table}
          /\ doc.holds \in {db.check[k].holds, new.check[k].holds}
      BY <2>2, <3>1
    <3> QED
      BY <2>1, <3>2, <3>3 DEF F!CheckDocs
  <2> QED
    BY <2>1, <2>3, <2>4
<1>9. \A doc \in Bookings :
          db'.booking[doc] = IF new.booking[doc] = read.booking[doc] THEN db.booking[doc]
                         ELSE [field \in DOMAIN db.booking[doc] |->
                                  IF new.booking[doc][field] # read.booking[doc][field]
                                  THEN new.booking[doc][field] ELSE db.booking[doc][field]]
  BY <1>2, <1>3
<1>10. ASSUME NEW k \in Bookings PROVE db'.booking[k] \in F!BookingDocs
  <2>1. db.booking[k] \in F!BookingDocs /\ new.booking[k] \in F!BookingDocs
    BY <1>1, SeatingRecord
  <2>2. PICK doc : doc = [field \in DOMAIN db.booking[k] |->
                             IF new.booking[k][field] # read.booking[k][field]
                             THEN new.booking[k][field] ELSE db.booking[k][field]]
    OBVIOUS
  <2>3. db'.booking[k] = db.booking[k] \/ db'.booking[k] = doc
    BY <1>9, <2>2
  <2>4. doc \in F!BookingDocs
    <3>1. DOMAIN db.booking[k] = {"status", "table", "window"}
      BY <2>1 DEF F!BookingDocs
    <3>2. doc = [status |-> doc.status, table |-> doc.table, window |-> doc.window]
      BY <2>2, <3>1
    <3>3. /\ doc.status \in {db.booking[k].status, new.booking[k].status}
          /\ doc.table \in {db.booking[k].table, new.booking[k].table}
          /\ doc.window \in {db.booking[k].window, new.booking[k].window}
      BY <2>2, <3>1
    <3> QED
      BY <2>1, <3>2, <3>3 DEF F!BookingDocs
  <2> QED
    BY <2>1, <2>3, <2>4
<1>11. \A doc \in {"year"} :
          db'.counter[doc] = IF new.counter[doc] = read.counter[doc] THEN db.counter[doc]
                         ELSE [field \in DOMAIN db.counter[doc] |->
                                  IF new.counter[doc][field] # read.counter[doc][field]
                                  THEN new.counter[doc][field] ELSE db.counter[doc][field]]
  <2>1. "counter" \in DOMAIN db /\ DOMAIN db.counter = {"year"}
    BY <1>2
  <2> QED
    BY <1>3, <2>1
<1>12. ASSUME NEW k \in {"year"} PROVE db'.counter[k] \in [value : Nat]
  <2>1. db.counter[k] \in [value : Nat] /\ new.counter[k] \in [value : Nat]
    BY <1>1, SeatingRecord
  <2>2. PICK doc : doc = [field \in DOMAIN db.counter[k] |->
                             IF new.counter[k][field] # read.counter[k][field]
                             THEN new.counter[k][field] ELSE db.counter[k][field]]
    OBVIOUS
  <2>3. db'.counter[k] = db.counter[k] \/ db'.counter[k] = doc
    BY <1>11, <2>2
  <2>4. doc \in [value : Nat]
    <3>1. DOMAIN db.counter[k] = {"value"}
      BY <2>1 DEF F!Databases
    <3>2. doc = [value |-> doc.value]
      BY <2>2, <3>1
    <3>3. /\ doc.value \in {db.counter[k].value, new.counter[k].value}
      BY <2>2, <3>1
    <3> QED
      BY <2>1, <3>2, <3>3 DEF F!Databases
  <2> QED
    BY <2>1, <2>3, <2>4
<1>13. db' \in F!Databases
  BY <1>1, <1>4, <1>6, <1>8, <1>10, <1>12, SeatingOf
<1>14. snap' \in [Clients -> F!Databases \cup {NoSnapshot}]
  BY <1>4 DEF V!Ended, F!TypeOK
<1>15. F!TypeOK'
  BY <1>13, <1>14 DEF F!TypeOK
<1>16. \A coll \in DOMAIN db : \A doc \in DOMAIN db[coll] :
          <<coll, doc>> \notin V!Written(db, db') => db'[coll][doc] = db[coll][doc]
  <2> SUFFICES ASSUME NEW coll \in DOMAIN db, NEW doc \in DOMAIN db[coll],
                      <<coll, doc>> \notin V!Written(db, db')
               PROVE  db'[coll][doc] = db[coll][doc]
    OBVIOUS
  <2>1. coll \in DOMAIN db' /\ doc \in DOMAIN db'[coll]
    BY <1>4
  <2>2. PICK old, aft : old = db /\ aft = db'
    OBVIOUS
  <2>3. <<coll, doc>> \notin V!Written(old, aft)
    BY <2>2
  <2>4. aft[coll][doc] = old[coll][doc]
    BY <2>1, <2>2, <2>3, WrittenIs
  <2> QED
    BY <2>2, <2>4
<1>17. Tracked'
  BY <1>3, <1>4, <1>16, TrackedWrite
<1> QED
  BY <1>4, <1>15, <1>17, <1>5, <1>7, <1>9, <1>11 DEF read

\* A database with another table collection, or one document of it replaced.
LEMMA SeatingTableSet ==
  ASSUME NEW d \in F!Databases
  PROVE  /\ \A docs \in [Tables -> [status : F!TABLE_STATUSES]] :
               LET e == [d EXCEPT !.table = docs]
               IN  /\ e \in F!Databases /\ e.table = docs /\ e.check = d.check
                   /\ e.booking = d.booking /\ e.counter = d.counter
         /\ \A k \in Tables, doc \in [status : F!TABLE_STATUSES] :
               LET e == [d EXCEPT !.table[k] = doc]
               IN  /\ e \in F!Databases /\ e.check = d.check /\ e.booking = d.booking
                   /\ e.counter = d.counter
                   /\ e.table = [d.table EXCEPT ![k] = doc] /\ e.table[k] = doc
                   /\ \A i \in Tables \ {k} : e.table[i] = d.table[i]
<1>1. ASSUME NEW docs \in [Tables -> [status : F!TABLE_STATUSES]]
      PROVE  LET e == [d EXCEPT !.table = docs]
             IN  /\ e \in F!Databases /\ e.table = docs /\ e.check = d.check
                 /\ e.booking = d.booking /\ e.counter = d.counter
  <2>1. [d EXCEPT !.table = docs] = [table |-> docs, check |-> d.check, booking |-> d.booking,
                                     counter |-> d.counter]
    BY SeatingRecord
  <2> QED
    BY <2>1, SeatingRecord DEF F!Databases
<1>2. ASSUME NEW k \in Tables, NEW doc \in [status : F!TABLE_STATUSES]
      PROVE  LET e == [d EXCEPT !.table[k] = doc]
             IN  /\ e \in F!Databases /\ e.check = d.check /\ e.booking = d.booking
                 /\ e.counter = d.counter
                 /\ e.table = [d.table EXCEPT ![k] = doc] /\ e.table[k] = doc
                 /\ \A i \in Tables \ {k} : e.table[i] = d.table[i]
  <2> DEFINE docs == [d.table EXCEPT ![k] = doc]
             e == [d EXCEPT !.table[k] = doc]
  <2>1. e = [d EXCEPT !.table = docs]
    OBVIOUS
  <2>2. /\ docs \in [Tables -> [status : F!TABLE_STATUSES]] /\ docs[k] = doc
        /\ \A i \in Tables \ {k} : docs[i] = d.table[i]
    BY SeatingRecord
  <2> HIDE DEF docs, e
  <2>3. /\ e \in F!Databases /\ e.table = docs /\ e.check = d.check /\ e.booking = d.booking
        /\ e.counter = d.counter
    BY <1>1, <2>1, <2>2
  <2> QED
    BY <2>2, <2>3 DEF docs, e
<1> QED
  BY <1>1, <1>2

\* A database with another check collection, or one document of it replaced.
LEMMA SeatingCheckSet ==
  ASSUME NEW d \in F!Databases
  PROVE  /\ \A docs \in [Parties -> F!CheckDocs] :
               LET e == [d EXCEPT !.check = docs]
               IN  /\ e \in F!Databases /\ e.check = docs /\ e.table = d.table
                   /\ e.booking = d.booking /\ e.counter = d.counter
         /\ \A k \in Parties, doc \in F!CheckDocs :
               LET e == [d EXCEPT !.check[k] = doc]
               IN  /\ e \in F!Databases /\ e.table = d.table /\ e.booking = d.booking
                   /\ e.counter = d.counter
                   /\ e.check = [d.check EXCEPT ![k] = doc] /\ e.check[k] = doc
                   /\ \A i \in Parties \ {k} : e.check[i] = d.check[i]
<1>1. ASSUME NEW docs \in [Parties -> F!CheckDocs]
      PROVE  LET e == [d EXCEPT !.check = docs]
             IN  /\ e \in F!Databases /\ e.check = docs /\ e.table = d.table
                 /\ e.booking = d.booking /\ e.counter = d.counter
  <2>1. [d EXCEPT !.check = docs] = [table |-> d.table, check |-> docs, booking |-> d.booking,
                                     counter |-> d.counter]
    BY SeatingRecord
  <2> QED
    BY <2>1, SeatingRecord DEF F!Databases
<1>2. ASSUME NEW k \in Parties, NEW doc \in F!CheckDocs
      PROVE  LET e == [d EXCEPT !.check[k] = doc]
             IN  /\ e \in F!Databases /\ e.table = d.table /\ e.booking = d.booking
                 /\ e.counter = d.counter
                 /\ e.check = [d.check EXCEPT ![k] = doc] /\ e.check[k] = doc
                 /\ \A i \in Parties \ {k} : e.check[i] = d.check[i]
  <2> DEFINE docs == [d.check EXCEPT ![k] = doc]
             e == [d EXCEPT !.check[k] = doc]
  <2>1. e = [d EXCEPT !.check = docs]
    OBVIOUS
  <2>2. /\ docs \in [Parties -> F!CheckDocs] /\ docs[k] = doc
        /\ \A i \in Parties \ {k} : docs[i] = d.check[i]
    BY SeatingRecord
  <2> HIDE DEF docs, e
  <2>3. /\ e \in F!Databases /\ e.check = docs /\ e.table = d.table /\ e.booking = d.booking
        /\ e.counter = d.counter
    BY <1>1, <2>1, <2>2
  <2> QED
    BY <2>2, <2>3 DEF docs, e
<1> QED
  BY <1>1, <1>2

\* A database with another booking collection, or one document of it replaced.
LEMMA SeatingBookingSet ==
  ASSUME NEW d \in F!Databases
  PROVE  /\ \A docs \in [Bookings -> F!BookingDocs] :
               LET e == [d EXCEPT !.booking = docs]
               IN  /\ e \in F!Databases /\ e.booking = docs /\ e.table = d.table
                   /\ e.check = d.check /\ e.counter = d.counter
         /\ \A k \in Bookings, doc \in F!BookingDocs :
               LET e == [d EXCEPT !.booking[k] = doc]
               IN  /\ e \in F!Databases /\ e.table = d.table /\ e.check = d.check
                   /\ e.counter = d.counter
                   /\ e.booking = [d.booking EXCEPT ![k] = doc] /\ e.booking[k] = doc
                   /\ \A i \in Bookings \ {k} : e.booking[i] = d.booking[i]
<1>1. ASSUME NEW docs \in [Bookings -> F!BookingDocs]
      PROVE  LET e == [d EXCEPT !.booking = docs]
             IN  /\ e \in F!Databases /\ e.booking = docs /\ e.table = d.table
                 /\ e.check = d.check /\ e.counter = d.counter
  <2>1. [d EXCEPT !.booking = docs] = [table |-> d.table, check |-> d.check, booking |-> docs,
                                       counter |-> d.counter]
    BY SeatingRecord
  <2> QED
    BY <2>1, SeatingRecord DEF F!Databases
<1>2. ASSUME NEW k \in Bookings, NEW doc \in F!BookingDocs
      PROVE  LET e == [d EXCEPT !.booking[k] = doc]
             IN  /\ e \in F!Databases /\ e.table = d.table /\ e.check = d.check
                 /\ e.counter = d.counter
                 /\ e.booking = [d.booking EXCEPT ![k] = doc] /\ e.booking[k] = doc
                 /\ \A i \in Bookings \ {k} : e.booking[i] = d.booking[i]
  <2> DEFINE docs == [d.booking EXCEPT ![k] = doc]
             e == [d EXCEPT !.booking[k] = doc]
  <2>1. e = [d EXCEPT !.booking = docs]
    OBVIOUS
  <2>2. /\ docs \in [Bookings -> F!BookingDocs] /\ docs[k] = doc
        /\ \A i \in Bookings \ {k} : docs[i] = d.booking[i]
    BY SeatingRecord
  <2> HIDE DEF docs, e
  <2>3. /\ e \in F!Databases /\ e.booking = docs /\ e.table = d.table /\ e.check = d.check
        /\ e.counter = d.counter
    BY <1>1, <2>1, <2>2
  <2> QED
    BY <2>2, <2>3 DEF docs, e
<1> QED
  BY <1>1, <1>2

\* A database with another counter collection, or one document of it replaced.
LEMMA SeatingCounterSet ==
  ASSUME NEW d \in F!Databases
  PROVE  /\ \A docs \in [{"year"} -> [value : Nat]] :
               LET e == [d EXCEPT !.counter = docs]
               IN  /\ e \in F!Databases /\ e.counter = docs /\ e.table = d.table
                   /\ e.check = d.check /\ e.booking = d.booking
         /\ \A k \in {"year"}, doc \in [value : Nat] :
               LET e == [d EXCEPT !.counter[k] = doc]
               IN  /\ e \in F!Databases /\ e.table = d.table /\ e.check = d.check
                   /\ e.booking = d.booking
                   /\ e.counter = [d.counter EXCEPT ![k] = doc] /\ e.counter[k] = doc
                   /\ \A i \in {"year"} \ {k} : e.counter[i] = d.counter[i]
<1>1. ASSUME NEW docs \in [{"year"} -> [value : Nat]]
      PROVE  LET e == [d EXCEPT !.counter = docs]
             IN  /\ e \in F!Databases /\ e.counter = docs /\ e.table = d.table
                 /\ e.check = d.check /\ e.booking = d.booking
  <2>1. [d EXCEPT !.counter = docs] = [table |-> d.table, check |-> d.check,
                                       booking |-> d.booking, counter |-> docs]
    BY SeatingRecord
  <2> QED
    BY <2>1, SeatingRecord DEF F!Databases
<1>2. ASSUME NEW k \in {"year"}, NEW doc \in [value : Nat]
      PROVE  LET e == [d EXCEPT !.counter[k] = doc]
             IN  /\ e \in F!Databases /\ e.table = d.table /\ e.check = d.check
                 /\ e.booking = d.booking
                 /\ e.counter = [d.counter EXCEPT ![k] = doc] /\ e.counter[k] = doc
                 /\ \A i \in {"year"} \ {k} : e.counter[i] = d.counter[i]
  <2> DEFINE docs == [d.counter EXCEPT ![k] = doc]
             e == [d EXCEPT !.counter[k] = doc]
  <2>1. e = [d EXCEPT !.counter = docs]
    OBVIOUS
  <2>2. /\ docs \in [{"year"} -> [value : Nat]] /\ docs[k] = doc
        /\ \A i \in {"year"} \ {k} : docs[i] = d.counter[i]
    BY SeatingRecord
  <2> HIDE DEF docs, e
  <2>3. /\ e \in F!Databases /\ e.counter = docs /\ e.table = d.table /\ e.check = d.check
        /\ e.booking = d.booking
    BY <1>1, <2>1, <2>2
  <2> QED
    BY <2>2, <2>3 DEF docs, e
<1> QED
  BY <1>1, <1>2

\* An open check that came to a table which it wrote is known to whoever believes that nobody
\* sits there: the table was written behind its back.
SeatingIInv ==
    /\ F!TypeOK
    /\ Tracked
    /\ \A c \in Clients, t \in Tables, k \in Parties :
          snap[c] # NoSnapshot /\ F!OpenChecks(snap[c], t) = {}
          /\ k \in F!OpenChecks(db, t) /\ db.check[k].holds => <<"table", t>> \in behind[c]

\* What a new check at a table asks of it, and what a party that is seated does.
SeatedFrom(d, e) ==
    \A t \in Tables :
        /\ d.table[t].status # "occupied" /\ e.table[t].status = "occupied"
        /\ \/ \E b \in Bookings : d.booking[b].status # "seated" /\ e.booking[b].status = "seated"
           \/ \E k \in Parties : /\ d.check[k].status = "absent" /\ e.check[k].status = "open"
                                 /\ e.check[k].table = t
        => F!OpenChecks(d, t) = {}

\* The check came to a table that it writes, or is beside one that did and is saved too.
Noticed(d, e, saved) ==
    \A k \in Parties, t \in Tables :
        e.check[k] # d.check[k] /\ k \in F!OpenChecks(e, t) /\ e.check[k].holds =>
           \/ e.table[t] # d.table[t]
           \/ \E j \in F!OpenChecks(d, t) : <<"check", j>> \in saved /\ d.check[j].holds

\* A commit that looked for other parties seats one alone.
LEMMA SeatingWritten ==
  ASSUME SeatingIInv, NEW c \in F!Callers, F!Reads(c), NEW new \in F!Databases, NEW saved,
         F!CommitSaved(c, new, saved), SeatedFrom(F!View(c), new), Noticed(F!View(c), new, saved)
  PROVE  SeatingIInv' /\ F!SeatedAlone
<1> DEFINE read == F!View(c)
           docs == V!Written(read, new) \cup saved
<1>1. /\ F!TypeOK /\ Tracked /\ db \in F!Databases /\ read \in F!Databases
  BY SeatingView DEF SeatingIInv, F!TypeOK
<1>2. /\ F!TypeOK' /\ Tracked' /\ snap' = V!Ended(c) /\ behind' = V!Overtaken(c, docs)
      /\ \A t \in Tables :
            IF new.table[t] = read.table[t] THEN db'.table[t] = db.table[t]
            ELSE db'.table[t] = new.table[t] /\ read.table[t] = db.table[t]
      /\ \A k \in Parties :
            IF new.check[k] = read.check[k] THEN db'.check[k] = db.check[k]
            ELSE db'.check[k] = new.check[k] /\ read.check[k] = db.check[k]
      /\ \A b \in Bookings :
            IF new.booking[b] = read.booking[b] THEN db'.booking[b] = db.booking[b]
            ELSE db'.booking[b] = new.booking[b] /\ read.booking[b] = db.booking[b]
      /\ \A k \in Parties : <<"check", k>> \in saved => read.check[k] = db.check[k]
  BY <1>1, SeatingCommit
<1>3. SeatedFrom(read, new) /\ Noticed(read, new, saved)
  OBVIOUS
<1>4. V!NoConflict(c, docs) /\ (c \in Clients => read = snap[c] /\ snap[c] # NoSnapshot)
      /\ (c \notin Clients => read = db)
  <2>1. V!CommitSaved(c, new, saved) /\ V!View(c) = read /\ V!Reads(c)
    BY SeatingSnapshots
  <2> QED
    BY <2>1 DEF V!CommitSaved, V!View, V!Reads
<1>5. \A t \in Tables : new.table[t] # read.table[t] => <<"table", t>> \in docs
  <2> SUFFICES ASSUME NEW t \in Tables, new.table[t] # read.table[t]
               PROVE  <<"table", t>> \in docs
    OBVIOUS
  <2>1. "table" \in DOMAIN new /\ t \in DOMAIN new["table"] /\ new["table"][t] # read["table"][t]
    BY SeatingRecord
  <2> QED
    BY <2>1, WrittenIs
<1> HIDE DEF read, docs
<1>6. ASSUME NEW q \in Clients, NEW t \in Tables, NEW k \in Parties, snap'[q] # NoSnapshot,
             F!OpenChecks(snap'[q], t) = {}, k \in F!OpenChecks(db', t), db'.check[k].holds
      PROVE  <<"table", t>> \in behind'[q]
  <2>1. q # c /\ snap'[q] = snap[q] /\ snap[q] # NoSnapshot
    BY <1>2, <1>6 DEF V!Ended
  <2>2. behind'[q] = behind[q] \cup docs
    BY <1>2, <2>1 DEF V!Overtaken
  <2>3. \A j \in F!OpenChecks(db, t) : db.check[j].holds => <<"table", t>> \in behind[q]
    BY <1>6, <2>1 DEF SeatingIInv, F!OpenChecks
  <2>4. CASE new.check[k] = read.check[k]
    <3>1. db'.check[k] = db.check[k]
      BY <1>2, <2>4
    <3>2. k \in F!OpenChecks(db, t) /\ db.check[k].holds
      BY <1>6, <3>1 DEF F!OpenChecks
    <3> QED
      BY <2>2, <2>3, <3>2
  <2>5. CASE new.check[k] # read.check[k]
    <3>1. db'.check[k] = new.check[k]
      BY <1>2, <2>5
    <3>2. k \in F!OpenChecks(new, t) /\ new.check[k].holds
      BY <1>6, <3>1 DEF F!OpenChecks
    <3>3. CASE new.table[t] # read.table[t]
      BY <1>5, <2>2, <3>3
    <3>4. ASSUME NEW j \in F!OpenChecks(read, t), <<"check", j>> \in saved, read.check[j].holds
          PROVE  <<"table", t>> \in behind'[q]
      <4>1. j \in Parties /\ read.check[j] = db.check[j]
        BY <1>2, <3>4 DEF F!OpenChecks
      <4>2. j \in F!OpenChecks(db, t) /\ db.check[j].holds
        BY <3>4, <4>1 DEF F!OpenChecks
      <4> QED
        BY <2>2, <2>3, <4>2
    <3> QED
      BY <1>3, <2>5, <3>2, <3>3, <3>4 DEF Noticed
  <2> QED
    BY <2>4, <2>5
<1>7. F!SeatedAlone
  <2> SUFFICES ASSUME NEW t \in Tables,
                      db.table[t].status # "occupied", db'.table[t].status = "occupied",
                      \/ \E b \in Bookings : db.booking[b].status # "seated"
                                             /\ db'.booking[b].status = "seated"
                      \/ \E k \in Parties : /\ db.check[k].status = "absent"
                                            /\ db'.check[k].status = "open"
                                            /\ db'.check[k].table = t,
                      NEW k \in F!OpenChecks(db, t)
               PROVE  ~db.check[k].holds
    BY DEF F!SeatedAlone, F!GivenAway
  <2>1. /\ new.table[t] # read.table[t] /\ db'.table[t] = new.table[t]
        /\ read.table[t] = db.table[t]
    BY <1>2
  <2>2. \/ \E b \in Bookings : read.booking[b].status # "seated"
                               /\ new.booking[b].status = "seated"
        \/ \E i \in Parties : /\ read.check[i].status = "absent" /\ new.check[i].status = "open"
                              /\ new.check[i].table = t
    <3>1. ASSUME NEW b \in Bookings, db.booking[b].status # "seated",
                 db'.booking[b].status = "seated"
          PROVE  db'.booking[b] = new.booking[b] /\ read.booking[b] = db.booking[b]
      BY <1>2, <3>1
    <3>2. ASSUME NEW i \in Parties, db.check[i].status = "absent", db'.check[i].status = "open"
          PROVE  db'.check[i] = new.check[i] /\ read.check[i] = db.check[i]
      BY <1>2, <3>2
    <3> QED
      BY <3>1, <3>2
  <2>3. F!OpenChecks(read, t) = {}
    BY <1>3, <2>1, <2>2 DEF SeatedFrom
  <2>4. <<"table", t>> \in docs
    BY <1>5, <2>1
  <2>5. c \in Clients
    BY <1>4, <2>3
  <2>6. <<"table", t>> \notin behind[c]
    BY <1>4, <2>4, <2>5 DEF V!NoConflict
  <2>7. k \in Parties
    BY DEF F!OpenChecks
  <2> QED
    BY <1>4, <2>3, <2>5, <2>6, <2>7 DEF SeatingIInv
<1> QED
  BY <1>2, <1>6, <1>7 DEF SeatingIInv

\* A commit that saves nothing besides is one of them.
LEMMA SeatingPlain ==
  ASSUME NEW c, NEW new
  PROVE  F!Commit(c, new) <=> F!CommitSaved(c, new, {})
<1>1. F!Written(F!View(c), new) \cup {} = F!Written(F!View(c), new)
  OBVIOUS
<1> QED
  BY <1>1, Zenon DEF F!Commit, F!CommitSaved

\* What is saved without a transaction is the table alone.
LEMMA SeatingByHand ==
  ASSUME SeatingIInv, NEW c \in F!Callers, F!Reads(c), NEW new \in F!Databases,
         F!Save(c, new), new.check = F!View(c).check, new.booking = F!View(c).booking
  PROVE  SeatingIInv' /\ F!SeatedAlone
<1> DEFINE docs == V!Written(db, db')
<1>1. F!TypeOK /\ Tracked
  BY DEF SeatingIInv
<1>2. /\ F!TypeOK' /\ Tracked' /\ snap' = V!Ended(c) /\ behind' = V!Overtaken(c, docs)
      /\ \A k \in Parties : db'.check[k] = db.check[k]
      /\ \A b \in Bookings : db'.booking[b] = db.booking[b]
  <2>1. PICK d : d = F!View(c)
    OBVIOUS
  <2>2. /\ F!TypeOK' /\ Tracked' /\ snap' = V!Ended(c) /\ behind' = V!Overtaken(c, docs)
        /\ \A k \in Parties : new.check[k] = d.check[k] => db'.check[k] = db.check[k]
        /\ \A b \in Bookings : new.booking[b] = d.booking[b] => db'.booking[b] = db.booking[b]
    BY <1>1, <2>1, SeatingSave
  <2> QED
    BY <2>1, <2>2
<1> HIDE DEF docs
<1>3. ASSUME NEW q \in Clients, NEW t \in Tables, NEW k \in Parties, snap'[q] # NoSnapshot,
             F!OpenChecks(snap'[q], t) = {}, k \in F!OpenChecks(db', t), db'.check[k].holds
      PROVE  <<"table", t>> \in behind'[q]
  <2>1. q # c /\ snap'[q] = snap[q] /\ snap[q] # NoSnapshot
    BY <1>2, <1>3 DEF V!Ended
  <2>2. behind'[q] = behind[q] \cup docs
    BY <1>2, <2>1 DEF V!Overtaken
  <2>3. k \in F!OpenChecks(db, t) /\ db.check[k].holds
    BY <1>2, <1>3 DEF F!OpenChecks
  <2> QED
    BY <1>3, <2>1, <2>2, <2>3 DEF SeatingIInv
<1>4. F!SeatedAlone
  BY <1>2 DEF F!SeatedAlone, F!GivenAway
<1> QED
  BY <1>2, <1>3, <1>4 DEF SeatingIInv

\* Reading, or giving up, changes nothing that is stored.
LEMMA SeatingRead ==
  ASSUME SeatingIInv, NEW c \in Clients, F!Begin(c) \/ F!Refused(c)
  PROVE  SeatingIInv' /\ F!SeatedAlone
<1>1. V!Begin(c) \/ V!End(c)
  BY SeatingSnapshots DEF F!Refused
<1>2. db' = db
  BY <1>1 DEF V!Begin, V!End
<1>3. Tracked'
  BY <1>1, TrackedBegin, TrackedEnd DEF SeatingIInv
<1>4. F!TypeOK'
  BY <1>1 DEF SeatingIInv, F!TypeOK, V!Begin, V!End, V!Ended
<1>5. \A q \in Clients : snap'[q] \in {db, NoSnapshot}
                         \/ (snap'[q] = snap[q] /\ behind'[q] = behind[q])
  BY <1>1 DEF SeatingIInv, F!TypeOK, Tracked, V!Begin, V!End, V!Ended
<1>6. ASSUME NEW q \in Clients, NEW t \in Tables, NEW k \in Parties, snap'[q] # NoSnapshot,
             F!OpenChecks(snap'[q], t) = {}, k \in F!OpenChecks(db', t), db'.check[k].holds
      PROVE  <<"table", t>> \in behind'[q]
  BY <1>2, <1>5, <1>6 DEF SeatingIInv
<1>7. F!SeatedAlone
  BY <1>2 DEF F!SeatedAlone, F!GivenAway
<1> QED
  BY <1>3, <1>4, <1>6, <1>7 DEF SeatingIInv

\* The status of a table is set; what is no table has none.
LEMMA SeatingSetTable ==
  ASSUME NEW d \in F!Databases, NEW t, NEW status \in F!TABLE_STATUSES
  PROVE  LET e == F!SetTable(d, t, status)
         IN  /\ e \in F!Databases /\ e.check = d.check /\ e.booking = d.booking
             /\ \A i \in Tables \ {t} : e.table[i] = d.table[i]
             /\ t \in Tables => e.table[t].status = status
<1>1. PICK doc : doc = [d.table[t] EXCEPT !.status = status]
  OBVIOUS
<1>2. PICK e : e = F!SetTable(d, t, status)
  OBVIOUS
<1>3. e = [d EXCEPT !.table[t] = doc]
  BY <1>1, <1>2, Zenon DEF F!SetTable
<1>4. CASE t \in Tables
  <2>1. doc \in [status : F!TABLE_STATUSES] /\ doc.status = status
    <3>1. d.table[t] \in [status : F!TABLE_STATUSES]
      BY <1>4, SeatingRecord
    <3> QED
      BY <1>1, <3>1
  <2> HIDE <1>1, <1>2
  <2>2. /\ e \in F!Databases /\ e.check = d.check /\ e.booking = d.booking
        /\ \A i \in Tables \ {t} : e.table[i] = d.table[i]
        /\ e.table[t] = doc
    BY <1>3, <1>4, <2>1, SeatingTableSet
  <2> QED
    BY <1>2, <2>1, <2>2
<1>5. CASE t \notin Tables
  <2>1. [d.table EXCEPT ![t] = doc] = d.table
    BY <1>5, SeatingRecord
  <2>2. e = d
    <3>1. e = [d EXCEPT !.table = d.table]
      BY <1>3, <2>1, Zenon
    <3> QED
      BY <3>1, SeatingRecord
  <2> QED
    BY <1>2, <1>5, <2>2
<1> QED
  BY <1>4, <1>5

\* A table that is released is not occupied by that.
LEMMA SeatingReleased ==
  ASSUME NEW d \in F!Databases, NEW t
  PROVE  LET e == F!Released(d, t)
         IN  /\ e \in F!Databases /\ e.check = d.check /\ e.booking = d.booking
             /\ \A i \in Tables \ {t} : e.table[i] = d.table[i]
             /\ \A i \in Tables : e.table[i].status = "occupied" => e.table[i] = d.table[i]
<1>1. "cleaning" \in F!TABLE_STATUSES
  BY DEF F!TABLE_STATUSES
<1>2. PICK e : e = F!SetTable(d, t, "cleaning")
  OBVIOUS
<1>3. /\ e \in F!Databases /\ e.check = d.check /\ e.booking = d.booking
      /\ \A i \in Tables \ {t} : e.table[i] = d.table[i]
      /\ t \in Tables => e.table[t].status = "cleaning"
  BY <1>1, <1>2, SeatingSetTable
<1>4. F!Released(d, t) \in {d, e}
  BY <1>2 DEF F!Released
<1> HIDE <1>2
<1> QED
  BY <1>3, <1>4

\* POST /orders for a table
LEMMA SeatingOpen ==
  ASSUME SeatingIInv, NEW c \in F!Callers, F!Reads(c), NEW k \in Parties, NEW t \in Tables,
         F!OpenCheck(c, k, t)
  PROVE  SeatingIInv' /\ F!SeatedAlone
<1> DEFINE d == F!View(c)
<1>1. d \in F!Databases
  BY SeatingView DEF SeatingIInv
<1>2. PICK doc : doc = [status |-> "open", table |-> t, holds |-> TRUE]
  OBVIOUS
<1>3. PICK sat : sat = [d EXCEPT !.check[k] = doc]
  OBVIOUS
<1>4. PICK new : new = F!SetTable(sat, t, "occupied")
  OBVIOUS
<1>5. F!Commit(c, new) /\ d.check[k].status = "absent" /\ F!CanOccupy(d, t)
  BY <1>2, <1>3, <1>4, Zenon DEF F!OpenCheck
<1> HIDE DEF d
<1>6. doc \in F!CheckDocs
  BY <1>2 DEF F!CheckDocs
<1>7. /\ sat \in F!Databases /\ sat.table = d.table /\ sat.booking = d.booking
      /\ sat.check[k] = doc /\ \A i \in Parties \ {k} : sat.check[i] = d.check[i]
  BY <1>1, <1>3, <1>6, SeatingCheckSet
<1>8. "occupied" \in F!TABLE_STATUSES
  BY DEF F!TABLE_STATUSES
<1>9. /\ new \in F!Databases /\ new.check = sat.check /\ new.booking = sat.booking
      /\ \A i \in Tables \ {t} : new.table[i] = sat.table[i]
      /\ new.table[t].status = "occupied"
  BY <1>4, <1>7, <1>8, SeatingSetTable
<1>10. d.table[t].status # "occupied" /\ F!OpenChecks(d, t) = {}
  BY <1>5 DEF F!CanOccupy
<1>11. SeatedFrom(d, new)
  BY <1>7, <1>9, <1>10 DEF SeatedFrom
<1>12. Noticed(d, new, {})
  BY <1>2, <1>7, <1>9, <1>10 DEF Noticed, F!OpenChecks
<1> QED
  BY <1>5, <1>9, <1>11, <1>12, SeatingPlain, SeatingWritten DEF d

\* A commit that seats nobody and moves no check that is open, and opens none but one that was
\* completed, without its table.
LEMMA SeatingQuiet ==
  ASSUME SeatingIInv, NEW c \in F!Callers, F!Reads(c), NEW new \in F!Databases, NEW saved,
         F!CommitSaved(c, new, saved),
         \A k \in Parties : \/ new.check[k] = F!View(c).check[k]
                            \/ new.check[k].status # "open"
                            \/ F!View(c).check[k].status = "completed" /\ ~new.check[k].holds,
         \/ \A b \in Bookings : \/ new.booking[b].status = F!View(c).booking[b].status
                                \/ new.booking[b].status # "seated"
         \/ \A t \in Tables : \/ new.table[t].status # "occupied"
                              \/ new.table[t].status = F!View(c).table[t].status
                              \/ F!OpenChecks(F!View(c), t) = {}
  PROVE  SeatingIInv' /\ F!SeatedAlone
<1> DEFINE d == F!View(c)
<1> HIDE DEF d
<1>1. SeatedFrom(d, new)
  BY DEF SeatedFrom, d
<1>2. Noticed(d, new, saved)
  BY DEF Noticed, F!OpenChecks, d
<1> QED
  BY <1>1, <1>2, SeatingWritten DEF d

\* applyPayment, PATCH /orders/:id/status
LEMMA SeatingClose ==
  ASSUME SeatingIInv, NEW c \in F!Callers, F!Reads(c), NEW k \in Parties,
         NEW status \in {"completed", "gone"}, F!CloseCheck(c, k, status)
  PROVE  SeatingIInv' /\ F!SeatedAlone
<1> DEFINE d == F!View(c)
<1>1. d \in F!Databases
  BY SeatingView DEF SeatingIInv
<1>2. PICK doc : doc = [d.check[k] EXCEPT !.status = status]
  OBVIOUS
<1>3. PICK closed : closed = [d EXCEPT !.check[k] = doc]
  OBVIOUS
<1>4. PICK new : new = F!Released(closed, d.check[k].table)
  OBVIOUS
<1>5. F!Commit(c, new)
  BY <1>2, <1>3, <1>4, Zenon DEF F!CloseCheck
<1> HIDE DEF d
<1>6. doc \in F!CheckDocs /\ doc.status = status
  <2>1. d.check[k] \in F!CheckDocs
    BY <1>1, SeatingRecord
  <2> QED
    BY <1>2, <2>1 DEF F!CheckDocs
<1>7. /\ closed \in F!Databases /\ closed.table = d.table /\ closed.booking = d.booking
      /\ closed.check[k] = doc /\ \A i \in Parties \ {k} : closed.check[i] = d.check[i]
  BY <1>1, <1>3, <1>6, SeatingCheckSet
<1>8. new \in F!Databases /\ new.check = closed.check /\ new.booking = closed.booking
  BY <1>4, <1>7, SeatingReleased
<1>9. \A i \in Parties : new.check[i] = d.check[i] \/ new.check[i].status # "open"
  BY <1>6, <1>7, <1>8
<1>10. \A b \in Bookings : new.booking[b].status = d.booking[b].status
  BY <1>7, <1>8
<1> QED
  BY <1>5, <1>8, <1>9, <1>10, SeatingPlain, SeatingQuiet DEF d

\* splitOrder
LEMMA SeatingSplit ==
  ASSUME SeatingIInv, NEW c \in F!Callers, F!Reads(c), NEW k \in Parties, NEW child \in Parties,
         NEW status \in {"open", "completed"}, NEW other \in {"open", "completed"},
         F!SplitCheck(c, k, child, status, other)
  PROVE  SeatingIInv' /\ F!SeatedAlone
<1> DEFINE d == F!View(c)
           old == d.check[k]
<1>1. d \in F!Databases
  BY SeatingView DEF SeatingIInv
<1>2. PICK doc : doc = [old EXCEPT !.status = status]
  OBVIOUS
<1>3. PICK kept : kept = [d EXCEPT !.check[k] = doc]
  OBVIOUS
<1>4. PICK rest : rest = [old EXCEPT !.status = other]
  OBVIOUS
<1>5. PICK split : split = [kept EXCEPT !.check[child] = rest]
  OBVIOUS
<1>6. PICK new : new = IF "completed" \in {status, other} THEN F!Released(split, old.table)
                       ELSE split
  OBVIOUS
<1>7. PICK saved : saved = {<<"check", k>>}
  OBVIOUS
<1>8. /\ F!CommitSaved(c, new, saved)
      /\ old.status = "open" /\ d.check[child].status = "absent"
  BY <1>2, <1>3, <1>4, <1>5, <1>6, <1>7, Zenon DEF F!SplitCheck
<1> HIDE DEF d
<1>9. old \in F!CheckDocs
  BY <1>1, SeatingRecord
<1> HIDE DEF old
<1>10. /\ doc \in F!CheckDocs /\ rest \in F!CheckDocs /\ doc.status = status
       /\ doc.table = old.table /\ doc.holds = old.holds
       /\ rest.table = old.table /\ rest.holds = old.holds
       /\ (status = "open" => doc = old)
  BY <1>2, <1>4, <1>8, <1>9 DEF F!CheckDocs
<1>11. /\ kept \in F!Databases /\ kept.table = d.table /\ kept.booking = d.booking
       /\ kept.check[k] = doc /\ \A i \in Parties \ {k} : kept.check[i] = d.check[i]
  BY <1>1, <1>3, <1>10, SeatingCheckSet
<1> HIDE <1>3
<1>12. /\ split \in F!Databases /\ split.table = kept.table /\ split.booking = kept.booking
       /\ split.check[child] = rest
       /\ \A i \in Parties \ {child} : split.check[i] = kept.check[i]
  BY <1>5, <1>10, <1>11, SeatingCheckSet
<1> HIDE <1>5
<1>13. /\ new \in F!Databases /\ new.check = split.check /\ new.booking = split.booking
       /\ \A i \in Tables : new.table[i].status = "occupied" => new.table[i] = split.table[i]
  <2>1. PICK rel : rel = F!Released(split, old.table)
    OBVIOUS
  <2>2. /\ rel \in F!Databases /\ rel.check = split.check /\ rel.booking = split.booking
        /\ \A i \in Tables : rel.table[i].status = "occupied" => rel.table[i] = split.table[i]
    BY <1>12, <2>1, SeatingReleased
  <2>3. new \in {rel, split}
    BY <1>6, <2>1
  <2> HIDE <1>6, <2>1
  <2> QED
    BY <1>12, <2>2, <2>3
<1> HIDE <1>6
<1>14. SeatedFrom(d, new)
  BY <1>11, <1>12, <1>13 DEF SeatedFrom
<1>15. Noticed(d, new, saved)
  <2> SUFFICES ASSUME NEW i \in Parties, NEW t \in Tables, new.check[i] # d.check[i],
                      i \in F!OpenChecks(new, t), new.check[i].holds
               PROVE  \E j \in F!OpenChecks(d, t) :
                          <<"check", j>> \in saved /\ d.check[j].holds
    BY DEF Noticed
  <2>1. d.check[k] = old
    BY DEF old
  <2>2. new.check[i] \in {doc, rest} /\ new.check[i].status = "open"
        /\ new.check[i].table = t
    BY <1>11, <1>12, <1>13 DEF F!OpenChecks
  <2>3. old.table = t /\ old.holds
    BY <1>10, <2>2
  <2>4. k \in F!OpenChecks(d, t) /\ d.check[k].holds
    BY <1>8, <2>1, <2>3 DEF F!OpenChecks
  <2> QED
    BY <1>7, <2>4
<1> QED
  BY <1>8, <1>13, <1>14, <1>15, SeatingWritten DEF d

\* moveOrderToTable
LEMMA SeatingMove ==
  ASSUME SeatingIInv, NEW c \in F!Callers, F!Reads(c), NEW from \in Tables, NEW to \in Tables,
         F!MoveCheck(c, from, to)
  PROVE  SeatingIInv' /\ F!SeatedAlone
<1> DEFINE d == F!View(c)
<1>1. d \in F!Databases
  BY SeatingView DEF SeatingIInv
<1>2. PICK k \in F!OpenChecks(d, from) :
         /\ from # to /\ F!CanClaim(d, to)
         /\ F!Commit(c, F!Released(F!SetTable(
                [d EXCEPT !.check[k].table = to,
                          !.check[k].holds = d.table[to].status # "occupied"],
                to, "occupied"), from))
  BY Zenon DEF F!MoveCheck
<1>3. PICK old : old = d.check[k]
  OBVIOUS
<1>4. PICK doc : doc = [old EXCEPT !.table = to, !.holds = d.table[to].status # "occupied"]
  OBVIOUS
<1>5. PICK moved : moved = [d EXCEPT !.check[k] = doc]
  OBVIOUS
<1>6. PICK sat : sat = F!SetTable(moved, to, "occupied")
  OBVIOUS
<1>7. PICK new : new = F!Released(sat, from)
  OBVIOUS
<1> HIDE DEF d
<1>8. k \in Parties /\ old \in F!CheckDocs /\ old.status = "open"
  BY <1>1, <1>3, SeatingRecord DEF F!OpenChecks
<1>9. moved = [d EXCEPT !.check[k].table = to,
                        !.check[k].holds = d.table[to].status # "occupied"]
  <2>1. d.check[k] \in F!CheckDocs /\ d.check \in [Parties -> F!CheckDocs]
    BY <1>1, <1>3, <1>8, SeatingRecord
  <2>2. DOMAIN d = {"table", "check", "booking", "counter"}
    BY <1>1, SeatingRecord
  <2> QED
    BY <1>1, <1>3, <1>4, <1>5, <1>8, <2>1, <2>2, SeatingRecord DEF F!CheckDocs
<1>10. F!Commit(c, new)
  BY <1>2, <1>6, <1>7, <1>9, Zenon
<1>11. /\ doc \in F!CheckDocs /\ doc.status = "open" /\ doc.table = to
       /\ doc.holds = (d.table[to].status # "occupied")
  BY <1>4, <1>8 DEF F!CheckDocs
<1> HIDE <1>3, <1>4, <1>9
<1>12. /\ moved \in F!Databases /\ moved.table = d.table /\ moved.booking = d.booking
       /\ moved.check[k] = doc /\ \A i \in Parties \ {k} : moved.check[i] = d.check[i]
  BY <1>1, <1>5, <1>8, <1>11, SeatingCheckSet
<1> HIDE <1>5
<1>13. "occupied" \in F!TABLE_STATUSES
  BY DEF F!TABLE_STATUSES
<1>14. /\ sat \in F!Databases /\ sat.check = moved.check /\ sat.booking = moved.booking
       /\ \A i \in Tables \ {to} : sat.table[i] = moved.table[i]
       /\ sat.table[to].status = "occupied"
  BY <1>6, <1>12, <1>13, SeatingSetTable
<1> HIDE <1>6
<1>15. /\ new \in F!Databases /\ new.check = sat.check /\ new.booking = sat.booking
       /\ \A i \in Tables : new.table[i].status = "occupied" => new.table[i] = sat.table[i]
       /\ new.table[to] = sat.table[to]
  BY <1>2, <1>7, <1>14, SeatingReleased
<1> HIDE <1>7
<1>16. SeatedFrom(d, new)
  <2>1. \A b \in Bookings : new.booking[b] = d.booking[b]
    BY <1>12, <1>14, <1>15
  <2>2. \A i \in Parties : new.check[i] = d.check[i] \/ d.check[i].status = "open"
    BY <1>2, <1>12, <1>14, <1>15 DEF F!OpenChecks
  <2> QED
    BY <2>1, <2>2 DEF SeatedFrom
<1>17. new.table[to] # d.table[to] \/ ~doc.holds
  BY <1>11, <1>14, <1>15
<1>18. Noticed(d, new, {})
  <2> SUFFICES ASSUME NEW i \in Parties, NEW t \in Tables, new.check[i] # d.check[i],
                      i \in F!OpenChecks(new, t), new.check[i].holds
               PROVE  new.table[t] # d.table[t]
    BY DEF Noticed
  <2>1. i = k /\ t = to
    BY <1>11, <1>12, <1>14, <1>15 DEF F!OpenChecks
  <2> QED
    BY <1>12, <1>14, <1>15, <1>17, <2>1
<1> QED
  BY <1>10, <1>15, <1>16, <1>18, SeatingPlain, SeatingWritten DEF d

\* mergeTableOrders
LEMMA SeatingMerge ==
  ASSUME SeatingIInv, NEW c \in F!Callers, F!Reads(c), NEW from \in Tables, NEW into \in Tables,
         F!MergeChecks(c, from, into)
  PROVE  SeatingIInv' /\ F!SeatedAlone
<1> DEFINE d == F!View(c)
<1>1. d \in F!Databases
  BY SeatingView DEF SeatingIInv
<1>2. PICK k \in F!OpenChecks(d, from), dest \in F!OpenChecks(d, into) :
         F!CommitSaved(c, F!Released([d EXCEPT !.check[k].status = "gone"], from),
                       {<<"check", dest>>})
  BY Zenon DEF F!MergeChecks
<1>3. PICK doc : doc = [d.check[k] EXCEPT !.status = "gone"]
  OBVIOUS
<1>4. PICK merged : merged = [d EXCEPT !.check[k] = doc]
  OBVIOUS
<1>5. PICK new : new = F!Released(merged, from)
  OBVIOUS
<1>6. F!CommitSaved(c, new, {<<"check", dest>>})
  BY <1>2, <1>3, <1>4, <1>5, Zenon
<1> HIDE DEF d
<1>7. k \in Parties /\ doc \in F!CheckDocs /\ doc.status = "gone"
  <2>1. k \in Parties /\ d.check[k] \in F!CheckDocs
    BY <1>1, SeatingRecord DEF F!OpenChecks
  <2> QED
    BY <1>3, <2>1 DEF F!CheckDocs
<1>8. /\ merged \in F!Databases /\ merged.table = d.table /\ merged.booking = d.booking
      /\ merged.check[k] = doc /\ \A i \in Parties \ {k} : merged.check[i] = d.check[i]
  BY <1>1, <1>4, <1>7, SeatingCheckSet
<1>9. new \in F!Databases /\ new.check = merged.check /\ new.booking = merged.booking
  BY <1>5, <1>8, SeatingReleased
<1>10. \A i \in Parties : new.check[i] = d.check[i] \/ new.check[i].status # "open"
  BY <1>7, <1>8, <1>9
<1>11. \A b \in Bookings : new.booking[b].status = d.booking[b].status
  BY <1>8, <1>9
<1> QED
  BY <1>6, <1>9, <1>10, <1>11, SeatingQuiet DEF d

\* reopenOrder
LEMMA SeatingReopen ==
  ASSUME SeatingIInv, NEW c \in F!Callers, F!Reads(c), NEW k \in Parties, F!ReopenCheck(c, k)
  PROVE  SeatingIInv' /\ F!SeatedAlone
<1> DEFINE d == F!View(c)
           old == d.check[k]
           t == old.table
           out == d.table[t].status = "disabled"
           seated == d.table[t].status = "occupied"
<1>1. d \in F!Databases
  BY SeatingView DEF SeatingIInv
<1>2. PICK doc : doc = [old EXCEPT !.status = "open", !.holds = ~seated /\ ~out]
  OBVIOUS
<1>3. PICK reopened : reopened = [d EXCEPT !.check[k] = doc]
  OBVIOUS
<1>4. PICK sat : sat = F!SetTable(reopened, t, "occupied")
  OBVIOUS
<1>5. PICK new : new = IF out THEN reopened ELSE sat
  OBVIOUS
<1>6. /\ old.status = "completed"
      /\ F!Commit(c, IF out
                     THEN [d EXCEPT !.check[k].status = "open",
                               !.check[k].holds = d.table[t].status \notin {"occupied", "disabled"}]
                     ELSE F!SetTable([d EXCEPT !.check[k].status = "open",
                               !.check[k].holds = d.table[t].status \notin {"occupied",
                                                                            "disabled"}],
                               t, "occupied"))
  BY Zenon DEF F!ReopenCheck
<1>7. (d.table[t].status \notin {"occupied", "disabled"}) = (~seated /\ ~out)
  OBVIOUS
<1> HIDE DEF d, seated, out
<1>8. old \in F!CheckDocs
  BY <1>1, SeatingRecord
<1>9. reopened = [d EXCEPT !.check[k].status = "open", !.check[k].holds = ~seated /\ ~out]
  <2>1. d.check \in [Parties -> F!CheckDocs] /\ DOMAIN d = {"table", "check", "booking", "counter"}
    BY <1>1, SeatingRecord
  <2> QED
    BY <1>1, <1>2, <1>3, <1>8, <2>1, SeatingRecord DEF F!CheckDocs
<1>10. F!Commit(c, new)
  BY <1>4, <1>5, <1>6, <1>7, <1>9, Zenon
<1>11. /\ doc \in F!CheckDocs /\ doc.status = "open" /\ doc.table = t
       /\ doc.holds = (~seated /\ ~out)
  BY <1>2, <1>8 DEF F!CheckDocs
<1> HIDE <1>2, <1>9
<1>12. /\ reopened \in F!Databases /\ reopened.table = d.table /\ reopened.booking = d.booking
       /\ reopened.check[k] = doc /\ \A i \in Parties \ {k} : reopened.check[i] = d.check[i]
  BY <1>1, <1>3, <1>11, SeatingCheckSet
<1> HIDE <1>3
<1>13. "occupied" \in F!TABLE_STATUSES
  BY DEF F!TABLE_STATUSES
<1>14. /\ sat \in F!Databases /\ sat.check = reopened.check /\ sat.booking = reopened.booking
       /\ t \in Tables => sat.table[t].status = "occupied"
  BY <1>4, <1>12, <1>13, SeatingSetTable
<1> HIDE <1>4
<1>15. /\ new \in F!Databases /\ new.check = reopened.check /\ new.booking = reopened.booking
       /\ ~out /\ t \in Tables => new.table[t].status = "occupied"
  BY <1>5, <1>12, <1>14
<1> HIDE <1>5
<1>16. SeatedFrom(d, new)
  <2>1. \A b \in Bookings : new.booking[b] = d.booking[b]
    BY <1>12, <1>15
  <2>2. \A i \in Parties : new.check[i] = d.check[i] \/ d.check[i].status = "completed"
    BY <1>6, <1>12, <1>15
  <2> QED
    BY <2>1, <2>2 DEF SeatedFrom
<1>17. Noticed(d, new, {})
  <2> SUFFICES ASSUME NEW i \in Parties, NEW u \in Tables, new.check[i] # d.check[i],
                      i \in F!OpenChecks(new, u), new.check[i].holds
               PROVE  new.table[u] # d.table[u]
    BY DEF Noticed
  <2>1. i = k /\ u = t
    BY <1>11, <1>12, <1>15 DEF F!OpenChecks
  <2>2. ~seated /\ ~out
    BY <1>11, <1>12, <1>15, <2>1
  <2>3. new.table[t].status = "occupied" /\ d.table[t].status # "occupied"
    BY <1>15, <2>1, <2>2 DEF seated
  <2> QED
    BY <2>1, <2>3
<1> QED
  BY <1>10, <1>15, <1>16, <1>17, SeatingPlain, SeatingWritten DEF d

\* reversePayment, and refundOrder: the check alone is written.
LEMMA SeatingReverse ==
  ASSUME SeatingIInv, NEW c \in F!Callers, F!Reads(c), NEW k \in Parties,
         F!ReversePayment(c, k) \/ F!RefundCheck(c, k)
  PROVE  SeatingIInv' /\ F!SeatedAlone
<1> DEFINE d == F!View(c)
           old == d.check[k]
           back == [old EXCEPT !.status = "open", !.holds = FALSE]
           gone == [old EXCEPT !.status = "gone"]
<1>1. d \in F!Databases
  BY SeatingView DEF SeatingIInv
<1>2. PICK doc : /\ old.status = "completed" /\ doc \in {back, gone}
                 /\ F!Commit(c, [d EXCEPT !.check[k] = doc])
  <2>1. /\ d.check \in [Parties -> F!CheckDocs] /\ old \in F!CheckDocs
        /\ DOMAIN d = {"table", "check", "booking", "counter"}
    BY <1>1, SeatingRecord
  <2>2. CASE F!ReversePayment(c, k)
    <3>1. [d EXCEPT !.check[k].status = "open", !.check[k].holds = FALSE]
            = [d EXCEPT !.check[k] = back]
      BY <1>1, <2>1, SeatingRecord DEF F!CheckDocs
    <3> QED
      BY <2>2, <3>1, Zenon DEF F!ReversePayment
  <2>3. CASE F!RefundCheck(c, k)
    BY <2>3, Zenon DEF F!RefundCheck
  <2> QED
    BY <2>2, <2>3
<1>3. PICK new : new = [d EXCEPT !.check[k] = doc]
  OBVIOUS
<1>4. F!Commit(c, new)
  BY <1>2, <1>3
<1> HIDE DEF d
<1>5. doc \in F!CheckDocs /\ (doc.status # "open" \/ ~doc.holds)
  <2>1. old \in F!CheckDocs
    BY <1>1, SeatingRecord
  <2> QED
    BY <1>2, <2>1 DEF F!CheckDocs
<1>6. /\ new \in F!Databases /\ new.table = d.table /\ new.booking = d.booking
      /\ new.check[k] = doc /\ \A i \in Parties \ {k} : new.check[i] = d.check[i]
  BY <1>1, <1>3, <1>5, SeatingCheckSet
<1>7. \A i \in Parties : \/ new.check[i] = d.check[i]
                         \/ new.check[i].status # "open"
                         \/ d.check[i].status = "completed" /\ ~new.check[i].holds
  BY <1>2, <1>5, <1>6
<1>8. \A b \in Bookings : new.booking[b].status = d.booking[b].status
  BY <1>6
<1> QED
  BY <1>4, <1>6, <1>7, <1>8, SeatingPlain, SeatingQuiet DEF d

\* applyTableStatus, archiveTable
LEMMA SeatingTables ==
  ASSUME SeatingIInv, NEW c \in F!Callers, F!Reads(c), NEW t \in Tables,
         \/ \E status \in F!TABLE_STATUSES : F!PatchTable(c, t, status)
         \/ F!ArchiveTable(c, t)
  PROVE  SeatingIInv' /\ F!SeatedAlone
<1> DEFINE d == F!View(c)
<1>1. d \in F!Databases
  BY SeatingView DEF SeatingIInv
<1>2. PICK status \in F!TABLE_STATUSES : F!Save(c, F!SetTable(d, t, status))
  <2>1. "disabled" \in F!TABLE_STATUSES
    BY DEF F!TABLE_STATUSES
  <2> QED
    BY <2>1, Zenon DEF F!PatchTable, F!ArchiveTable
<1>3. PICK new : new = F!SetTable(d, t, status)
  OBVIOUS
<1> HIDE DEF d
<1>4. new \in F!Databases /\ new.check = d.check /\ new.booking = d.booking
  BY <1>1, <1>3, SeatingSetTable
<1>5. F!Save(c, new)
  BY <1>2, <1>3, Zenon
<1> HIDE <1>3
<1> QED
  BY <1>4, <1>5, SeatingByHand DEF d

\* createReservation, updateReservation
LEMMA SeatingBook ==
  ASSUME SeatingIInv, NEW c \in F!Callers, F!Reads(c), NEW b \in Bookings, NEW t \in Tables,
         NEW w \in MCWindows, F!Book(c, b, t, w) \/ F!Amend(c, b, t, w)
  PROVE  SeatingIInv' /\ F!SeatedAlone
<1> DEFINE d == F!View(c)
<1>1. d \in F!Databases
  BY SeatingView DEF SeatingIInv
<1>2. CASE F!Book(c, b, t, w)
  <2>1. PICK doc : doc = [status |-> "booked", table |-> t, window |-> w]
    OBVIOUS
  <2>2. PICK booked : booked = [d EXCEPT !.booking[b] = doc]
    OBVIOUS
  <2>3. PICK ticket : ticket = [d.counter["year"] EXCEPT !.value = d.counter["year"].value + 1]
    OBVIOUS
  <2>4. PICK new : new = [booked EXCEPT !.counter["year"] = ticket]
    OBVIOUS
  <2>5. F!Commit(c, [d EXCEPT !.booking[b] = [status |-> "booked", table |-> t, window |-> w],
                              !.counter["year"].value = @ + 1])
    BY <1>2, Zenon DEF F!Book
  <2> HIDE DEF d
  <2>6. doc \in F!BookingDocs /\ doc.status = "booked"
    BY <2>1 DEF F!BookingDocs, F!ACTIVE_STATUSES
  <2>7. d.counter["year"] \in [value : Nat] /\ ticket \in [value : Nat]
    <3>1. d.counter["year"] \in [value : Nat]
      BY <1>1, SeatingRecord
    <3> QED
      BY <2>3, <3>1
  <2>8. /\ booked \in F!Databases /\ booked.table = d.table /\ booked.check = d.check
        /\ booked.counter = d.counter /\ booked.booking[b] = doc
        /\ \A i \in Bookings \ {b} : booked.booking[i] = d.booking[i]
    BY <1>1, <2>2, <2>6, SeatingBookingSet
  <2>9. new = [d EXCEPT !.booking[b] = [status |-> "booked", table |-> t, window |-> w],
                        !.counter["year"].value = @ + 1]
    BY <1>1, <2>1, <2>2, <2>3, <2>4, <2>7, <2>8, SeatingRecord
  <2> HIDE <2>2
  <2>10. new \in F!Databases /\ new.check = booked.check /\ new.booking = booked.booking
    BY <2>4, <2>7, <2>8, SeatingCounterSet
  <2>11. F!Commit(c, new)
    BY <2>5, <2>9, Zenon
  <2> HIDE <2>4, <2>9
  <2>12. \A i \in Parties : new.check[i] = d.check[i]
    BY <2>8, <2>10
  <2>13. \A i \in Bookings : new.booking[i].status = d.booking[i].status
                             \/ new.booking[i].status # "seated"
    BY <2>6, <2>8, <2>10
  <2> QED
    BY <2>10, <2>11, <2>12, <2>13, SeatingPlain, SeatingQuiet DEF d
<1>3. CASE F!Amend(c, b, t, w)
  <2>1. PICK doc : doc = [d.booking[b] EXCEPT !.table = t, !.window = w]
    OBVIOUS
  <2>2. PICK new : new = [d EXCEPT !.booking[b] = doc]
    OBVIOUS
  <2>3. F!Commit(c, [d EXCEPT !.booking[b].table = t, !.booking[b].window = w])
    BY <1>3, Zenon DEF F!Amend
  <2> HIDE DEF d
  <2>4. d.booking[b] \in F!BookingDocs
    BY <1>1, SeatingRecord
  <2>5. doc \in F!BookingDocs /\ doc.status = d.booking[b].status
    BY <2>1, <2>4 DEF F!BookingDocs
  <2>6. new = [d EXCEPT !.booking[b].table = t, !.booking[b].window = w]
    <3>1. /\ d.booking \in [Bookings -> F!BookingDocs]
          /\ DOMAIN d = {"table", "check", "booking", "counter"}
      BY <1>1, SeatingRecord
    <3> QED
      BY <1>1, <2>1, <2>2, <2>4, <3>1, SeatingRecord DEF F!BookingDocs
  <2>7. /\ new \in F!Databases /\ new.check = d.check /\ new.booking[b] = doc
        /\ \A i \in Bookings \ {b} : new.booking[i] = d.booking[i]
    BY <1>1, <2>2, <2>5, SeatingBookingSet
  <2>8. F!Commit(c, new)
    BY <2>3, <2>6, Zenon
  <2> HIDE <2>2, <2>6
  <2>9. \A i \in Parties : new.check[i] = d.check[i]
    BY <2>7
  <2>10. \A i \in Bookings : new.booking[i].status = d.booking[i].status
    BY <2>5, <2>7
  <2> QED
    BY <2>7, <2>8, <2>9, <2>10, SeatingPlain, SeatingQuiet DEF d
<1> QED
  BY <1>2, <1>3

\* setReservationStatus
LEMMA SeatingSet ==
  ASSUME SeatingIInv, NEW c \in F!Callers, F!Reads(c), NEW b \in Bookings,
         NEW status \in {"confirmed", "seated", "completed", "cancelled", "no_show"},
         F!SetBooking(c, b, status)
  PROVE  SeatingIInv' /\ F!SeatedAlone
<1> DEFINE d == F!View(c)
           t == d.booking[b].table
<1>1. d \in F!Databases
  BY SeatingView DEF SeatingIInv
<1>2. PICK doc : doc = [d.booking[b] EXCEPT !.status = status]
  OBVIOUS
<1>3. PICK set : set = [d EXCEPT !.booking[b] = doc]
  OBVIOUS
<1>4. PICK sat : sat = F!SetTable(set, t, "occupied")
  OBVIOUS
<1>5. PICK free : free = F!SetTable(set, t, "available")
  OBVIOUS
<1>6. PICK new : new = CASE status = "seated" -> sat
                         [] status \in {"cancelled", "no_show"}
                            /\ d.table[t].status = "reserved" -> free
                         [] OTHER -> set
  OBVIOUS
<1>7. F!Commit(c, new) /\ (status = "seated" => F!CanOccupy(d, t))
  <2>1. PICK made : made = [d EXCEPT !.booking[b].status = status]
    OBVIOUS
  <2>2. made = set
    BY <1>2, <1>3, <2>1, Zenon
  <2>3. /\ status = "seated" => F!CanOccupy(d, t)
        /\ F!Commit(c, CASE status = "seated" -> F!SetTable(made, t, "occupied")
                         [] status \in {"cancelled", "no_show"}
                            /\ d.table[t].status = "reserved" -> F!SetTable(made, t, "available")
                         [] OTHER -> made)
    BY <2>1, Zenon DEF F!SetBooking
  <2> HIDE <2>1, <1>3
  <2> QED
    BY <1>4, <1>5, <1>6, <2>2, <2>3, Zenon
<1> HIDE DEF d
<1>8. doc \in F!BookingDocs /\ doc.status = status
  <2>1. d.booking[b] \in F!BookingDocs
    BY <1>1, SeatingRecord
  <2> QED
    BY <1>2, <2>1 DEF F!BookingDocs, F!ACTIVE_STATUSES
<1>9. /\ set \in F!Databases /\ set.table = d.table /\ set.check = d.check
      /\ set.booking[b] = doc /\ \A i \in Bookings \ {b} : set.booking[i] = d.booking[i]
  BY <1>1, <1>3, <1>8, SeatingBookingSet
<1> HIDE <1>3
<1> HIDE DEF t
<1>10. "occupied" \in F!TABLE_STATUSES /\ "available" \in F!TABLE_STATUSES
  BY DEF F!TABLE_STATUSES
<1>11. /\ sat \in F!Databases /\ sat.check = set.check /\ sat.booking = set.booking
       /\ \A i \in Tables \ {t} : sat.table[i] = set.table[i]
  BY <1>4, <1>9, <1>10, SeatingSetTable
<1>12. free \in F!Databases /\ free.check = set.check /\ free.booking = set.booking
  BY <1>5, <1>9, <1>10, SeatingSetTable
<1>13. /\ new \in {set, sat, free}
       /\ status = "seated" => new = sat
  BY <1>6
<1> HIDE <1>4, <1>5, <1>6
<1>14. new \in F!Databases /\ new.check = set.check /\ new.booking = set.booking
  BY <1>9, <1>11, <1>12, <1>13
<1>15. \A i \in Parties : new.check[i] = d.check[i]
  BY <1>9, <1>14
<1>16. CASE status # "seated"
  <2>1. \A i \in Bookings : new.booking[i].status = d.booking[i].status
                            \/ new.booking[i].status # "seated"
    BY <1>8, <1>9, <1>14, <1>16
  <2> QED
    BY <1>7, <1>14, <1>15, <2>1, SeatingPlain, SeatingQuiet DEF d
<1>17. CASE status = "seated"
  <2>1. F!OpenChecks(d, t) = {}
    BY <1>7, <1>17 DEF F!CanOccupy
  <2>2. \A i \in Tables : new.table[i].status = d.table[i].status \/ F!OpenChecks(d, i) = {}
    BY <1>9, <1>11, <1>13, <1>17, <2>1
  <2> QED
    BY <1>7, <1>14, <1>15, <2>2, SeatingPlain, SeatingQuiet DEF d
<1> QED
  BY <1>16, <1>17

\* holdTableForReservation
LEMMA SeatingHold ==
  ASSUME SeatingIInv, NEW c \in F!Callers, F!Reads(c), NEW b \in Bookings, F!HoldTable(c, b)
  PROVE  SeatingIInv' /\ F!SeatedAlone
<1> DEFINE d == F!View(c)
           t == d.booking[b].table
<1>1. d \in F!Databases
  BY SeatingView DEF SeatingIInv
<1>2. PICK new : new = F!SetTable(d, t, "reserved")
  OBVIOUS
<1>3. F!Commit(c, new)
  BY <1>2, Zenon DEF F!HoldTable
<1> HIDE DEF t, d
<1>4. "reserved" \in F!TABLE_STATUSES
  BY DEF F!TABLE_STATUSES
<1>5. new \in F!Databases /\ new.check = d.check /\ new.booking = d.booking
  BY <1>1, <1>2, <1>4, SeatingSetTable
<1> HIDE <1>2
<1>6. \A i \in Parties : new.check[i] = d.check[i]
  BY <1>5
<1>7. \A i \in Bookings : new.booking[i].status = d.booking[i].status
  BY <1>5
<1> QED
  BY <1>3, <1>5, <1>6, <1>7, SeatingPlain, SeatingQuiet DEF d

\* Every step keeps the invariant, and seats a party alone.
LEMMA SeatingStep ==
  ASSUME SeatingIInv, F!Next
  PROVE  SeatingIInv' /\ F!SeatedAlone
<1>1. ASSUME NEW c \in F!Callers, F!Reads(c), F!CheckStep(c)
      PROVE  SeatingIInv' /\ F!SeatedAlone
  BY <1>1, SeatingOpen, SeatingClose, SeatingSplit, SeatingReopen, SeatingReverse
    DEF F!CheckStep
<1>2. ASSUME NEW c \in F!Callers, F!Reads(c), F!TableStep(c)
      PROVE  SeatingIInv' /\ F!SeatedAlone
  BY <1>2, SeatingMove, SeatingMerge, SeatingTables DEF F!TableStep
<1>3. ASSUME NEW c \in F!Callers, F!Reads(c), NEW b \in Bookings, F!BookingStep(c, b)
      PROVE  SeatingIInv' /\ F!SeatedAlone
  BY <1>3, SeatingBook, SeatingSet, SeatingHold DEF F!BookingStep
<1> QED
  BY <1>1, <1>2, <1>3, SeatingRead DEF F!Next

\* At first every table is free.
LEMMA SeatingInit ==
  ASSUME F!Init
  PROVE  SeatingIInv
<1>1. /\ db = [table |-> [t \in Tables |-> [status |-> "available"]],
               check |-> [k \in Parties |-> [status |-> "absent", table |-> NoTable,
                                             holds |-> FALSE]],
               booking |-> [b \in Bookings |-> [status |-> "absent", table |-> NoTable,
                                                window |-> CHOOSE w \in MCWindows : TRUE]],
               counter |-> [y \in {"year"} |-> [value |-> 0]]]
      /\ snap = [c \in Clients |-> NoSnapshot] /\ behind = [c \in Clients |-> {}]
  BY DEF F!Init, F!OutsideTransactions
<1>2. (CHOOSE w \in MCWindows : TRUE) \in MCWindows
  BY DEF MCWindows
<1>3. db \in F!Databases
  BY <1>1, <1>2 DEF F!Databases, F!TABLE_STATUSES, F!CheckDocs, F!BookingDocs
<1>4. F!TypeOK
  BY <1>1, <1>3 DEF F!TypeOK
<1>5. Tracked
  BY <1>1 DEF Tracked
<1> QED
  BY <1>1, <1>4, <1>5 DEF SeatingIInv

-------------------------------------------------------------------------------
(* What is given once.                                                     *)

\* Seating, Customers and Coupons together.
GivenIInv ==
    /\ part = "floor" => SeatingIInv
    /\ part = "customers" => CustomersIInv
    /\ part = "coupons" => CouponsIInv

\* A step of one of them gives what was there to give.
GivenStepOnce ==
    /\ part = "floor" => F!SeatedAlone
    /\ part = "coupons" => U!RedeemedWithinLimits

\* Whatever happens, one of the restaurant's steps gives nothing twice.
LEMMA GivenNext ==
  ASSUME GivenIInv, [Next]_vars
  PROVE  GivenIInv' /\ [GivenStepOnce]_vars
<1>1. CASE UNCHANGED vars
  <2>1. part' = part /\ db' = db /\ snap' = snap /\ behind' = behind
    BY <1>1 DEF vars
  <2>2. SeatingIInv' <=> SeatingIInv
    BY <2>1 DEF SeatingIInv, F!TypeOK, Tracked, AsRead
  <2>3. CustomersIInv' <=> CustomersIInv
    BY <2>1 DEF CustomersIInv, G!TypeOK
  <2>4. CouponsIInv' <=> CouponsIInv
    BY <2>1, CouponsSame DEF CouponsIInv, U!TypeOK, Tracked, AsRead
  <2> QED
    BY <1>1, <2>1, <2>2, <2>3, <2>4 DEF GivenIInv
<1>2. CASE Next
  <2>1. part' = part
    BY <1>2 DEF Next
  <2>2. part = "floor" => SeatingIInv' /\ F!SeatedAlone
    <3>1. part = "floor" => F!Next
      BY <1>2 DEF Next
    <3> QED
      BY <3>1, SeatingStep DEF GivenIInv
  <2>3. part = "customers" => CustomersIInv'
    <3>1. part = "customers" => G!Next
      BY <1>2 DEF Next
    <3> QED
      BY <3>1, CustomersStep DEF GivenIInv
  <2>4. part = "coupons" => CouponsIInv' /\ U!RedeemedWithinLimits
    <3>1. part = "coupons" => U!Next
      BY <1>2 DEF Next
    <3> QED
      BY <3>1, CouponsStep DEF GivenIInv
  <2> QED
    BY <2>1, <2>2, <2>3, <2>4 DEF GivenIInv, GivenStepOnce
<1> QED
  BY <1>1, <1>2

\* Seating, Customers, Coupons: however requests overlap, a party is given a table only when no
\* other party has a check there, a phone number finds one profile while its index is built, and
\* a coupon is redeemed as often as its limits allow when it is, which its counter knows.
THEOREM GivenOnceTheorem == Spec => GivenOnce
<1>1. Init => GivenIInv
  BY SeatingInit, CustomersInit, CouponsInit DEF Init, GivenIInv
<1>2. GivenIInv /\ [Next]_vars => GivenIInv' /\ [GivenStepOnce]_vars
  BY GivenNext
<1>3. GivenIInv => /\ part = "customers" => G!OneCustomerPerPhone
                   /\ part = "coupons" => U!CounterCountsRows
  BY CustomersOne DEF GivenIInv, CouponsIInv
<1>4. GivenStepOnce <=> /\ part = "floor" => F!SeatedAlone
                        /\ part = "coupons" => U!RedeemedWithinLimits
  BY DEF GivenStepOnce
<1> QED
  BY <1>1, <1>2, <1>3, <1>4, PTL DEF Spec, GivenOnce

-------------------------------------------------------------------------------
(* The shapes of the documents.                                            *)

\* Every part keeps what it relies on.
RestaurantIInv ==
    /\ part = "money" => MoneyIInv
    /\ part = "dispatch" => DispatchIInv
    /\ part = "alerts" => AlertsIInv
    /\ part = "purchasing" => SuppliesIInv
    /\ BooksIInv
    /\ GivenIInv

\* Every part's documents have their shapes, committed or in a snapshot.
THEOREM RestaurantTypeTheorem == Spec => []TypeOK
<1>1. Init => RestaurantIInv
  BY MoneyInit, DispatchInit, AlertsInit, SuppliesInit, CountsInit, MonthInit, InvoicesInit,
     SeatingInit, CustomersInit, CouponsInit DEF Init, RestaurantIInv, BooksIInv, GivenIInv
<1>2. RestaurantIInv /\ [Next]_vars => RestaurantIInv'
  <2> SUFFICES ASSUME RestaurantIInv, [Next]_vars
               PROVE  RestaurantIInv'
    OBVIOUS
  <2>1. BooksIInv' /\ GivenIInv'
    BY BooksNext, GivenNext DEF RestaurantIInv
  <2>2. part' = part
    BY DEF Next, vars
  <2>3. part = "money" => MoneyIInv'
    <3>1. part = "money" => B!Next \/ UNCHANGED <<db, snap, behind>>
      BY DEF Next, vars
    <3> QED
      BY <3>1, MoneyStep DEF RestaurantIInv
  <2>4. part = "dispatch" => DispatchIInv'
    <3>1. part = "dispatch" => D!Next \/ UNCHANGED <<db, snap, behind>>
      BY DEF Next, vars
    <3> QED
      BY <3>1, DispatchStep DEF RestaurantIInv
  <2>5. part = "purchasing" => SuppliesIInv'
    <3>1. part = "purchasing" => P!Next \/ UNCHANGED <<db, snap, behind>>
      BY DEF Next, vars
    <3> QED
      BY <3>1, SuppliesStep DEF RestaurantIInv
  <2>6. part = "alerts" => AlertsIInv'
    <3>1. part = "alerts" => A!Next \/ UNCHANGED <<db, snap, behind>>
      BY DEF Next, vars
    <3>2. CASE UNCHANGED <<db, snap, behind>>
      BY <3>2 DEF RestaurantIInv, AlertsIInv
    <3> QED
      BY <3>1, <3>2, AlertsStep DEF RestaurantIInv
  <2> QED
    BY <2>1, <2>2, <2>3, <2>4, <2>5, <2>6 DEF RestaurantIInv
<1>3. RestaurantIInv => TypeOK
  <2> SUFFICES ASSUME RestaurantIInv
               PROVE  TypeOK
    OBVIOUS
  <2>1. part = "money" => B!TypeOK
    BY DEF RestaurantIInv, MoneyIInv, B!TypeOK
  <2>2. part = "dispatch" => D!TypeOK
    BY DEF RestaurantIInv, DispatchIInv, D!TypeOK
  <2>3. part = "alerts" => A!TypeOK
    BY DEF RestaurantIInv, AlertsIInv, A!TypeOK
  <2>4. part = "purchasing" => P!TypeOK
    BY DEF RestaurantIInv, SuppliesIInv, P!TypeOK
  <2>5. /\ part = "counts" => C!TypeOK
        /\ part = "month" => M!TypeOK
        /\ part = "invoices" => T!TypeOK
    BY DEF RestaurantIInv, BooksIInv, CountsIInv, MonthIInv, InvoicesIInv
  <2>6. /\ part = "floor" => F!TypeOK
        /\ part = "customers" => G!TypeOK
        /\ part = "coupons" => U!TypeOK
    BY DEF RestaurantIInv, GivenIInv, SeatingIInv, CustomersIInv, CouponsIInv
  <2> QED
    BY <2>1, <2>2, <2>3, <2>4, <2>5, <2>6 DEF TypeOK
<1> QED
  BY <1>1, <1>2, <1>3, PTL DEF Spec
===============================================================================
