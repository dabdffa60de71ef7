--------------------------- MODULE RestaurantProofs ---------------------------
(***************************************************************************)
(* Proofs about the parts of MCRestaurant, for every value of the          *)
(* constants and any number of requests that overlap.                      *)
(***************************************************************************)
EXTENDS MCRestaurant, Sums

V == INSTANCE Snapshots

-------------------------------------------------------------------------------
(* What a snapshot is worth.                                               *)

\* Two databases have the same collections, and these the same documents.
Alike(d, e) ==
    /\ DOMAIN d = DOMAIN e
    /\ \A coll \in DOMAIN e : DOMAIN d[coll] = DOMAIN e[coll]

\* What nobody wrote behind a client's back is as it read it.
AsRead(c) ==
    /\ Alike(snap[c], db)
    /\ \A coll \in DOMAIN db : \A doc \in DOMAIN db[coll] :
          <<coll, doc>> \notin behind[c] => snap[c][coll][doc] = db[coll][doc]

Tracked ==
    /\ snap = [c \in Clients |-> snap[c]]
    /\ behind = [c \in Clients |-> behind[c]]
    /\ \A c \in Clients : snap[c] # NoSnapshot => AsRead(c)

\* A document is written when it differs.
LEMMA WrittenIs ==
  ASSUME NEW old, NEW new
  PROVE  \A coll, doc :
            <<coll, doc>> \in V!Written(old, new)
               <=> /\ coll \in DOMAIN new /\ doc \in DOMAIN new[coll]
                   /\ new[coll][doc] # old[coll][doc]
<1> DEFINE docs(coll) == {<<coll, doc>> : doc \in {d \in DOMAIN new[coll] :
                                                       new[coll][d] # old[coll][d]}}
<1>1. V!Written(old, new) = UNION {docs(coll) : coll \in DOMAIN new}
  BY Zenon DEF V!Written
<1>2. \A coll, doc, other :
         <<coll, doc>> \in docs(other)
            <=> coll = other /\ doc \in DOMAIN new[coll] /\ new[coll][doc] # old[coll][doc]
  OBVIOUS
<1> HIDE DEF docs
<1> QED
  BY <1>1, <1>2

\* A client's snapshot is taken, or dropped.
LEMMA TrackedBegin ==
  ASSUME Tracked, NEW c \in Clients, V!Begin(c)
  PROVE  Tracked'
BY DEF Tracked, AsRead, Alike, V!Begin

\* Whatever ends leaves no snapshot to speak of.
LEMMA TrackedEnd ==
  ASSUME Tracked, NEW c \in Clients, V!End(c)
  PROVE  Tracked'
<1>1. ASSUME NEW q \in Clients, snap'[q] # NoSnapshot
      PROVE  AsRead(q)'
  <2>1. q # c /\ snap'[q] = snap[q] /\ db' = db
    BY <1>1 DEF V!End, V!Ended
  <2>2. behind'[q] = behind[q]
    BY <2>1 DEF V!End, Tracked
  <2>3. AsRead(q)
    BY <1>1, <2>1 DEF Tracked
  <2> QED
    BY <2>1, <2>2, <2>3 DEF AsRead, Alike
<1> QED
  BY <1>1 DEF Tracked, V!End, V!Ended

\* Whoever writes documents overtakes the others with them.
LEMMA TrackedWrite ==
  ASSUME Tracked, NEW c, NEW docs, snap' = V!Ended(c), behind' = V!Overtaken(c, docs),
         Alike(db', db),
         \A coll \in DOMAIN db : \A doc \in DOMAIN db[coll] :
             <<coll, doc>> \notin docs => db'[coll][doc] = db[coll][doc]
  PROVE  Tracked'
<1>1. ASSUME NEW q \in Clients, snap'[q] # NoSnapshot
      PROVE  AsRead(q)'
  <2>1. q # c /\ snap'[q] = snap[q] /\ snap[q] # NoSnapshot
    BY <1>1 DEF V!Ended
  <2>2. behind'[q] = behind[q] \cup docs
    BY <2>1 DEF V!Overtaken
  <2>3. AsRead(q)
    BY <2>1 DEF Tracked
  <2> QED
    BY <2>1, <2>2, <2>3 DEF AsRead, Alike
<1> QED
  BY <1>1 DEF Tracked, V!Ended, V!Overtaken

\* A commit that saves documents unchanged conflicts over them too.
LEMMA CommitSavedWrites ==
  ASSUME Tracked, NEW c \in V!Callers, V!Reads(c), NEW new, NEW saved, Alike(new, db),
         V!CommitSaved(c, new, saved)
  PROVE  /\ Tracked' /\ Alike(db', db) /\ Alike(V!View(c), db)
         /\ \A coll \in DOMAIN db : \A doc \in DOMAIN db[coll] :
               IF new[coll][doc] = V!View(c)[coll][doc]
               THEN db'[coll][doc] = db[coll][doc]
               ELSE db'[coll][doc] = new[coll][doc] /\ V!View(c)[coll][doc] = db[coll][doc]
         /\ \A coll \in DOMAIN db : \A doc \in DOMAIN db[coll] :
               <<coll, doc>> \in saved => V!View(c)[coll][doc] = db[coll][doc]
<1> DEFINE read == V!View(c)
           docs == V!Written(read, new) \cup saved
<1>1. /\ c \in Clients => docs \cap behind[c] = {}
      /\ db' = [coll \in DOMAIN db |-> [doc \in DOMAIN db[coll] |->
                   IF <<coll, doc>> \in docs THEN new[coll][doc] ELSE db[coll][doc]]]
      /\ snap' = V!Ended(c) /\ behind' = V!Overtaken(c, docs)
  BY Zenon DEF V!CommitSaved, V!NoConflict
<1>2. \A coll \in DOMAIN db : \A doc \in DOMAIN db[coll] :
          <<coll, doc>> \in docs
             <=> new[coll][doc] # read[coll][doc] \/ <<coll, doc>> \in saved
  <2> SUFFICES ASSUME NEW coll \in DOMAIN db, NEW doc \in DOMAIN db[coll]
               PROVE  <<coll, doc>> \in docs
                         <=> new[coll][doc] # read[coll][doc] \/ <<coll, doc>> \in saved
    OBVIOUS
  <2>1. coll \in DOMAIN new /\ doc \in DOMAIN new[coll]
    BY DEF Alike
  <2> HIDE DEF read
  <2>2. <<coll, doc>> \in V!Written(read, new) <=> new[coll][doc] # read[coll][doc]
    BY <2>1, WrittenIs
  <2> QED
    BY <2>2
<1>3. /\ Alike(read, db)
      /\ \A coll \in DOMAIN db : \A doc \in DOMAIN db[coll] :
            <<coll, doc>> \in docs => read[coll][doc] = db[coll][doc]
  <2>1. CASE c \in Clients
    <3>1. read = snap[c] /\ AsRead(c)
      BY <2>1 DEF V!View, V!Reads, Tracked
    <3> HIDE DEF read, docs
    <3> QED
      BY <1>1, <2>1, <3>1 DEF AsRead
  <2>2. CASE c \notin Clients
    BY <2>2 DEF V!View, Alike
  <2> QED
    BY <2>1, <2>2
<1> HIDE DEF read, docs
<1>4. Alike(db', db)
  BY <1>1 DEF Alike
<1>5. \A coll \in DOMAIN db : \A doc \in DOMAIN db[coll] :
          db'[coll][doc] = IF <<coll, doc>> \in docs THEN new[coll][doc] ELSE db[coll][doc]
  BY <1>1
<1>6. Tracked'
  BY <1>1, <1>4, <1>5, TrackedWrite
<1>7. ASSUME NEW coll \in DOMAIN db, NEW doc \in DOMAIN db[coll]
      PROVE  IF new[coll][doc] = read[coll][doc]
             THEN db'[coll][doc] = db[coll][doc]
             ELSE db'[coll][doc] = new[coll][doc] /\ read[coll][doc] = db[coll][doc]
  <2>1. CASE <<coll, doc>> \in docs
    <3>1. db'[coll][doc] = new[coll][doc] /\ read[coll][doc] = db[coll][doc]
      BY <1>3, <1>5, <2>1, Zenon
    <3> QED
      BY <3>1, Zenon
  <2>2. CASE <<coll, doc>> \notin docs
    <3>1. db'[coll][doc] = db[coll][doc] /\ new[coll][doc] = read[coll][doc]
      BY <1>2, <1>5, <2>2, Zenon
    <3> QED
      BY <3>1, Zenon
  <2> QED
    BY <2>1, <2>2
<1>8. ASSUME NEW coll \in DOMAIN db, NEW doc \in DOMAIN db[coll], <<coll, doc>> \in saved
      PROVE  read[coll][doc] = db[coll][doc]
  BY <1>2, <1>3, <1>8
<1> QED
  BY <1>3, <1>4, <1>6, <1>7, <1>8 DEF read

\* A commit writes what the callback changed, over what it had read.
LEMMA CommitWrites ==
  ASSUME Tracked, NEW c \in V!Callers, V!Reads(c), NEW new, Alike(new, db), V!Commit(c, new)
  PROVE  /\ Tracked' /\ Alike(db', db) /\ Alike(V!View(c), db)
         /\ \A coll \in DOMAIN db : \A doc \in DOMAIN db[coll] :
               IF new[coll][doc] = V!View(c)[coll][doc]
               THEN db'[coll][doc] = db[coll][doc]
               ELSE db'[coll][doc] = new[coll][doc] /\ V!View(c)[coll][doc] = db[coll][doc]
<1>1. V!Written(V!View(c), new) \cup {} = V!Written(V!View(c), new)
  OBVIOUS
<1>2. V!CommitSaved(c, new, {})
  BY <1>1, Zenon DEF V!Commit, V!CommitSaved
<1> QED
  BY <1>2, CommitSavedWrites, Zenon

-------------------------------------------------------------------------------
(* Deliveries and riders.                                                  *)

\* A job names who delivered it once it is delivered, and never before.
DispatchIInv ==
    /\ db \in D!Databases
    /\ snap \in [Clients -> D!Databases \cup {NoSnapshot}]
    /\ Tracked
    /\ D!DispatchKept
    /\ \A j \in Jobs : db.job[j].by # NoRider => db.job[j].status = "delivered"

\* The transactions are those of Snapshots.
LEMMA DispatchSnapshots ==
  /\ \A c : D!View(c) = V!View(c) /\ (D!Reads(c) <=> V!Reads(c))
  /\ \A c : (D!Begin(c) <=> V!Begin(c)) /\ (D!End(c) <=> V!End(c)) /\ D!Ended(c) = V!Ended(c)
  /\ \A c, docs : D!Overtaken(c, docs) = V!Overtaken(c, docs)
  /\ \A old, new : D!Written(old, new) = V!Written(old, new)
  /\ \A c, new : D!Commit(c, new) <=> V!Commit(c, new)
  /\ D!Callers = V!Callers
<1>1. \A c : D!View(c) = V!View(c) /\ (D!Reads(c) <=> V!Reads(c))
  BY DEF D!View, V!View, D!Reads, V!Reads
<1>2. \A c : (D!Begin(c) <=> V!Begin(c)) /\ (D!End(c) <=> V!End(c)) /\ D!Ended(c) = V!Ended(c)
  BY DEF D!Begin, V!Begin, D!End, V!End, D!Ended, V!Ended
<1>3. \A c, docs : D!Overtaken(c, docs) = V!Overtaken(c, docs)
  BY DEF D!Overtaken, V!Overtaken
<1>4. \A old, new : D!Written(old, new) = V!Written(old, new)
  BY DEF D!Written, V!Written
<1>5. \A c, new : D!Commit(c, new) <=> V!Commit(c, new)
  BY DEF D!Commit, V!Commit, D!NoConflict, V!NoConflict, D!View, V!View, D!Written, V!Written,
     D!Ended, V!Ended, D!Overtaken, V!Overtaken
<1>6. D!Callers = V!Callers
  BY DEF D!Callers, V!Callers
<1> QED
  BY <1>1, <1>2, <1>3, <1>4, <1>5, <1>6

\* What a caller reads is a database.
LEMMA DispatchView ==
  ASSUME DispatchIInv, NEW c \in D!Callers, D!Reads(c)
  PROVE  D!View(c) \in D!Databases
BY DEF DispatchIInv, D!View, D!Reads

\* What a commit makes of jobs, riders and orders.
LEMMA DispatchCommit ==
  ASSUME DispatchIInv, NEW c \in D!Callers, D!Reads(c), NEW new \in D!Databases,
         D!Commit(c, new)
  PROVE  /\ Tracked' /\ db' \in D!Databases
         /\ snap' \in [Clients -> D!Databases \cup {NoSnapshot}]
         /\ \A j \in Jobs :
               IF new.job[j] = D!View(c).job[j] THEN db'.job[j] = db.job[j]
               ELSE db'.job[j] = new.job[j] /\ D!View(c).job[j] = db.job[j]
         /\ \A r \in Riders :
               IF new.rider[r] = D!View(c).rider[r] THEN db'.rider[r] = db.rider[r]
               ELSE db'.rider[r] = new.rider[r] /\ D!View(c).rider[r] = db.rider[r]
<1>1. db \in D!Databases /\ Tracked /\ V!Commit(c, new) /\ c \in V!Callers /\ V!Reads(c)
      /\ D!View(c) = V!View(c)
  BY DispatchSnapshots DEF DispatchIInv
<1>2. \A d \in D!Databases :
         /\ DOMAIN d = {"order", "job", "rider"} /\ DOMAIN d.order = Orders
         /\ DOMAIN d.job = Jobs /\ DOMAIN d.rider = Riders
  BY DEF D!Databases
<1>3. Alike(new, db)
  BY <1>1, <1>2 DEF Alike
<1>4. /\ Tracked' /\ Alike(db', db)
      /\ \A coll \in DOMAIN db : \A doc \in DOMAIN db[coll] :
            IF new[coll][doc] = D!View(c)[coll][doc]
            THEN db'[coll][doc] = db[coll][doc]
            ELSE db'[coll][doc] = new[coll][doc] /\ D!View(c)[coll][doc] = db[coll][doc]
  BY <1>1, <1>3, CommitWrites
<1>5. /\ \A o \in Orders : db'.order[o] = db.order[o] \/ db'.order[o] = new.order[o]
      /\ \A j \in Jobs :
            IF new.job[j] = D!View(c).job[j] THEN db'.job[j] = db.job[j]
            ELSE db'.job[j] = new.job[j] /\ D!View(c).job[j] = db.job[j]
      /\ \A r \in Riders :
            IF new.rider[r] = D!View(c).rider[r] THEN db'.rider[r] = db.rider[r]
            ELSE db'.rider[r] = new.rider[r] /\ D!View(c).rider[r] = db.rider[r]
  BY <1>1, <1>2, <1>4
<1>6. db' \in D!Databases
  <2>1. db' = [coll \in DOMAIN db |-> db'[coll]]
        /\ \A coll \in DOMAIN db : db'[coll] = [doc \in DOMAIN db[coll] |-> db'[coll][doc]]
    BY <1>1 DEF V!Commit
  <2>2. db' = [order |-> db'.order, job |-> db'.job, rider |-> db'.rider]
    BY <1>1, <1>2, <2>1
  <2>3. /\ db'.order = [o \in Orders |-> db'.order[o]] /\ db'.job = [j \in Jobs |-> db'.job[j]]
        /\ db'.rider = [r \in Riders |-> db'.rider[r]]
    BY <1>1, <1>2, <2>1
  <2>4. \A d \in D!Databases :
           /\ \A o \in Orders : d.order[o] \in [status : {"open", "ready", "out_for_delivery",
                                                        "completed", "cancelled"}]
           /\ \A j \in Jobs : d.job[j] \in D!JobDocs
           /\ \A r \in Riders : d.rider[r] \in [rider : D!RiderDocs]
    BY DEF D!Databases
  <2>5. db'.order \in [Orders -> [status : {"open", "ready", "out_for_delivery", "completed",
                                           "cancelled"}]]
    BY <1>1, <1>5, <2>3, <2>4
  <2>6. db'.job \in [Jobs -> D!JobDocs]
    BY <1>1, <1>5, <2>3, <2>4
  <2>7. db'.rider \in [Riders -> [rider : D!RiderDocs]]
    BY <1>1, <1>5, <2>3, <2>4
  <2> QED
    BY <2>2, <2>5, <2>6, <2>7 DEF D!Databases
<1>7. snap' \in [Clients -> D!Databases \cup {NoSnapshot}]
  BY <1>1 DEF V!Commit, V!Ended, DispatchIInv
<1> QED
  BY <1>4, <1>5, <1>6, <1>7

\* A request that writes one job, and no rider.
LEMMA DispatchJob ==
  ASSUME DispatchIInv, NEW c \in D!Callers, D!Reads(c), NEW new \in D!Databases,
         D!Commit(c, new), NEW j \in Jobs,
         \A r \in Riders : new.rider[r] = D!View(c).rider[r],
         \A i \in Jobs \ {j} : new.job[i] = D!View(c).job[i],
         D!View(c).job[j] = db.job[j] /\ new.job[j].by # NoRider
            => new.job[j].status = "delivered" /\ new.job[j].by = new.job[j].rider,
         new.job[j].status \notin {"absent", "cancelled"} =>
            \/ /\ new.job[j].order = D!View(c).job[j].order
               /\ D!View(c).job[j].status \notin {"absent", "cancelled"}
            \/ D!NotDispatched(c, new.job[j].order)
  PROVE  DispatchIInv'
<1>1. /\ Tracked' /\ db' \in D!Databases
      /\ snap' \in [Clients -> D!Databases \cup {NoSnapshot}]
      /\ \A i \in Jobs \ {j} : db'.job[i] = db.job[i]
      /\ \A r \in Riders : db'.rider[r] = db.rider[r]
  BY DispatchCommit
<1>2. \/ db'.job[j] = db.job[j]
      \/ db'.job[j] = new.job[j] /\ D!View(c).job[j] = db.job[j]
  BY DispatchCommit
<1>3. /\ D!DispatchKept
      /\ \A i \in Jobs : db.job[i].by # NoRider => db.job[i].status = "delivered"
  BY DEF DispatchIInv
<1>4. \A i \in Jobs : db'.job[i].by # NoRider => /\ db'.job[i].status = "delivered"
                                                 /\ db'.job[i].by = db'.job[i].rider
  BY <1>1, <1>2, <1>3 DEF D!DispatchKept
<1>5. \A r \in Riders : db'.rider[r].rider.available => db'.rider[r].rider.active
  BY <1>1, <1>3 DEF D!DispatchKept
<1>6. ASSUME NEW i \in Jobs, NEW k \in Jobs, i # k, db'.job[i].order = db'.job[k].order
      PROVE  {db'.job[i].status, db'.job[k].status} \cap {"absent", "cancelled"} # {}
  <2>1. ASSUME NEW k2 \in Jobs \ {j}, db'.job[j].order = db'.job[k2].order
        PROVE  db'.job[j].status \in {"absent", "cancelled"}
                  \/ db'.job[k2].status \in {"absent", "cancelled"}
    <3>1. db'.job[k2] = db.job[k2]
      BY <1>1
    <3>2. CASE db'.job[j] = db.job[j]
      BY <1>3, <2>1, <3>1, <3>2 DEF D!DispatchKept
    <3>3. CASE db'.job[j] = new.job[j] /\ D!View(c).job[j] = db.job[j]
      <4>1. CASE D!NotDispatched(c, new.job[j].order)
        BY <2>1, <3>1, <3>3, <4>1 DEF D!NotDispatched
      <4>2. CASE /\ new.job[j].order = D!View(c).job[j].order
                 /\ D!View(c).job[j].status \notin {"absent", "cancelled"}
        BY <1>3, <2>1, <3>1, <3>3, <4>2 DEF D!DispatchKept
      <4> QED
        BY <3>3, <4>1, <4>2
    <3> QED
      BY <1>2, <3>2, <3>3
  <2>2. CASE i = j
    BY <1>6, <2>1, <2>2
  <2>3. CASE k = j
    BY <1>6, <2>1, <2>3
  <2>4. CASE i # j /\ k # j
    BY <1>1, <1>3, <1>6, <2>4 DEF D!DispatchKept
  <2> QED
    BY <2>2, <2>3, <2>4
<1>7. D!DispatchKept'
  BY <1>4, <1>5, <1>6 DEF D!DispatchKept
<1> QED
  BY <1>1, <1>4, <1>7 DEF DispatchIInv

\* A database with one job replaced, or one order.
LEMMA JobSet ==
  ASSUME NEW d \in D!Databases
  PROVE  /\ \A j \in Jobs : \A doc \in D!JobDocs :
               LET e == [d EXCEPT !.job[j] = doc]
               IN  /\ e \in D!Databases /\ e.rider = d.rider /\ e.order = d.order
                   /\ e.job[j] = doc /\ \A i \in Jobs \ {j} : e.job[i] = d.job[i]
         /\ \A o \in Orders :
               \A doc \in [status : {"open", "ready", "out_for_delivery", "completed",
                                     "cancelled"}] :
                  LET e == [d EXCEPT !.order[o] = doc]
                  IN  e \in D!Databases /\ e.rider = d.rider /\ e.job = d.job
<1>1. d = [order |-> d.order, job |-> d.job, rider |-> d.rider]
      /\ d.order \in [Orders -> [status : {"open", "ready", "out_for_delivery", "completed",
                                           "cancelled"}]]
      /\ d.job \in [Jobs -> D!JobDocs] /\ d.rider \in [Riders -> [rider : D!RiderDocs]]
  BY DEF D!Databases
<1>2. ASSUME NEW j \in Jobs, NEW doc \in D!JobDocs
      PROVE  LET e == [d EXCEPT !.job[j] = doc]
             IN  /\ e \in D!Databases /\ e.rider = d.rider /\ e.order = d.order
                 /\ e.job[j] = doc /\ \A i \in Jobs \ {j} : e.job[i] = d.job[i]
  <2> DEFINE jobs == [d.job EXCEPT ![j] = doc]
             e == [d EXCEPT !.job[j] = doc]
  <2>1. e = [d EXCEPT !.job = jobs]
    OBVIOUS
  <2>2. jobs \in [Jobs -> D!JobDocs] /\ jobs[j] = doc
        /\ \A i \in Jobs \ {j} : jobs[i] = d.job[i]
    BY <1>1
  <2> HIDE DEF jobs
  <2>3. [d EXCEPT !.job = jobs] = [order |-> d.order, job |-> jobs, rider |-> d.rider]
    BY <1>1
  <2>4. e \in D!Databases /\ e.rider = d.rider /\ e.order = d.order /\ e.job = jobs
    BY <1>1, <2>1, <2>2, <2>3 DEF D!Databases
  <2> QED
    BY <2>2, <2>4
<1>3. ASSUME NEW o \in Orders,
             NEW doc \in [status : {"open", "ready", "out_for_delivery", "completed",
                                    "cancelled"}]
      PROVE  LET e == [d EXCEPT !.order[o] = doc]
             IN  e \in D!Databases /\ e.rider = d.rider /\ e.job = d.job
  <2> DEFINE orders == [d.order EXCEPT ![o] = doc]
             e == [d EXCEPT !.order[o] = doc]
  <2>1. e = [d EXCEPT !.order = orders]
    OBVIOUS
  <2>2. orders \in [Orders -> [status : {"open", "ready", "out_for_delivery", "completed",
                                         "cancelled"}]]
    BY <1>1
  <2> HIDE DEF orders
  <2>3. [d EXCEPT !.order = orders] = [order |-> orders, job |-> d.job, rider |-> d.rider]
    BY <1>1
  <2> QED
    BY <1>1, <2>1, <2>2, <2>3 DEF D!Databases
<1> QED
  BY <1>2, <1>3

\* createDelivery
LEMMA DispatchCreates ==
  ASSUME DispatchIInv, NEW c \in D!Callers, D!Reads(c), NEW j \in Jobs, NEW o \in Orders,
         NEW r \in Riders \cup {NoRider}, D!CreateDelivery(c, j, o, r)
  PROVE  DispatchIInv'
<1> DEFINE d == D!View(c)
           doc == [status |-> IF r = NoRider THEN "pending" ELSE "assigned",
                   order |-> o, rider |-> r, by |-> NoRider]
           new == [d EXCEPT !.job[j] = doc]
<1>1. D!NotDispatched(c, o) /\ D!Commit(c, new)
  BY Zenon DEF D!CreateDelivery
<1>2. d \in D!Databases
  BY DispatchView
<1>3. doc \in D!JobDocs /\ doc.by = NoRider /\ doc.order = o
  BY DEF D!JobDocs
<1> HIDE DEF d, doc
<1>4. /\ new \in D!Databases /\ new.rider = d.rider /\ new.job[j] = doc
      /\ \A i \in Jobs \ {j} : new.job[i] = d.job[i]
  BY <1>2, <1>3, JobSet
<1> HIDE DEF new
<1> QED
  BY <1>1, <1>3, <1>4, DispatchJob DEF d

\* assignRider
LEMMA DispatchAssigns ==
  ASSUME DispatchIInv, NEW c \in D!Callers, D!Reads(c), NEW j \in Jobs, NEW r \in Riders,
         D!AssignRider(c, j, r)
  PROVE  DispatchIInv'
<1> DEFINE d == D!View(c)
<1>1. /\ d.job[j].status \in D!LIVE_DELIVERY_STATUSES
      /\ D!Commit(c, [d EXCEPT !.job[j].rider = r, !.job[j].status = "assigned"])
  BY Zenon DEF D!AssignRider
<1>2. d \in D!Databases
  BY DispatchView
<1> HIDE DEF d
<1>3. d.job[j] \in D!JobDocs
  BY <1>2 DEF D!Databases
<1>4. PICK a : a = [d.job[j] EXCEPT !.rider = r]
  OBVIOUS
<1>5. a \in D!JobDocs /\ a.by = d.job[j].by /\ a.order = d.job[j].order
  BY <1>3, <1>4 DEF D!JobDocs
<1>6. PICK b : b = [a EXCEPT !.status = "assigned"]
  OBVIOUS
<1>7. b \in D!JobDocs /\ b.by = d.job[j].by /\ b.order = d.job[j].order
  BY <1>5, <1>6 DEF D!JobDocs
<1>8. PICK e : e = [d EXCEPT !.job[j] = a]
  OBVIOUS
<1>9. PICK new : new = [e EXCEPT !.job[j] = b]
  OBVIOUS
<1>10. /\ e \in D!Databases /\ e.rider = d.rider /\ e.job[j] = a
       /\ \A i \in Jobs \ {j} : e.job[i] = d.job[i]
  BY <1>2, <1>5, <1>8, JobSet
<1>11. /\ new \in D!Databases /\ new.rider = d.rider /\ new.job[j] = b
       /\ \A i \in Jobs \ {j} : new.job[i] = d.job[i]
  BY <1>7, <1>9, <1>10, JobSet
<1>12. e = [d EXCEPT !.job[j].rider = r]
  BY <1>4, <1>8, Zenon
<1>13. new = [e EXCEPT !.job[j].status = "assigned"]
  BY <1>6, <1>9, <1>10, Zenon
<1>14. D!Commit(c, new)
  BY <1>1, <1>12, <1>13, Zenon
<1>15. d.job[j] = db.job[j] => b.by = NoRider
  BY <1>1, <1>7 DEF DispatchIInv, D!LIVE_DELIVERY_STATUSES
<1>16. d.job[j].status \notin {"absent", "cancelled"}
  BY <1>1 DEF D!LIVE_DELIVERY_STATUSES
<1> QED
  BY <1>7, <1>11, <1>14, <1>15, <1>16, DispatchJob DEF d

\* The order follows its job to a status that orders have.
LEMMA OrderFollows ==
  ASSUME NEW doc \in [status : {"open", "ready", "out_for_delivery", "completed", "cancelled"}],
         NEW status
  PROVE  D!OrderAfter(doc, status)
           \in [status : {"open", "ready", "out_for_delivery", "completed", "cancelled"}]
<1>1. CASE status = "out_for_delivery" /\ doc.status = "ready"
  BY <1>1 DEF D!OrderAfter
<1>2. CASE status = "delivered"
  BY <1>2 DEF D!OrderAfter
<1>3. CASE status # "delivered" /\ ~(status = "out_for_delivery" /\ doc.status = "ready")
  BY <1>3 DEF D!OrderAfter
<1> QED
  BY <1>1, <1>2, <1>3

\* updateDeliveryStatus
LEMMA DispatchUpdates ==
  ASSUME DispatchIInv, NEW c \in D!Callers, D!Reads(c), NEW j \in Jobs, NEW status,
         NEW who \in Riders \cup {NoRider}, D!UpdateDelivery(c, j, status, who)
  PROVE  DispatchIInv'
<1> DEFINE d == D!View(c)
           job == d.job[j]
           by == IF status = "delivered" THEN who ELSE job.by
           follow == D!OrderAfter(d.order[job.order], status)
<1>1. /\ who # NoRider => job.rider = who
      /\ <<job.status, status>> \in D!DELIVERY_TRANSITIONS
      /\ D!Commit(c, [d EXCEPT !.job[j].status = status, !.job[j].by = by,
                               !.order[job.order] = follow])
  BY Zenon DEF D!UpdateDelivery
<1>2. d \in D!Databases
  BY DispatchView
<1> HIDE DEF d
<1>3. job \in D!JobDocs
  BY <1>2 DEF D!Databases
<1>4. job.order \in Orders /\ job.by \in Riders \cup {NoRider}
  BY <1>3 DEF D!JobDocs
<1>5. /\ status \in {"pending", "assigned", "picked_up", "out_for_delivery", "delivered", "failed",
                     "cancelled"}
      /\ job.status \notin {"absent", "cancelled", "delivered"}
  BY <1>1 DEF D!DELIVERY_TRANSITIONS
<1>6. PICK a : a = [job EXCEPT !.status = status]
  OBVIOUS
<1>7. /\ a \in D!JobDocs /\ a.status = status /\ a.rider = job.rider /\ a.order = job.order
      /\ a.by = job.by
  BY <1>3, <1>5, <1>6 DEF D!JobDocs
<1>8. PICK b : b = [a EXCEPT !.by = by]
  OBVIOUS
<1>9. /\ b \in D!JobDocs /\ b.status = status /\ b.rider = job.rider /\ b.order = job.order
      /\ b.by = by
  BY <1>4, <1>7, <1>8 DEF D!JobDocs
<1>10. PICK e : e = [d EXCEPT !.job[j] = a]
  OBVIOUS
<1>11. /\ e \in D!Databases /\ e.rider = d.rider /\ e.order = d.order /\ e.job[j] = a
       /\ \A i \in Jobs \ {j} : e.job[i] = d.job[i]
  BY <1>2, <1>7, <1>10, JobSet
<1>12. PICK g : g = [e EXCEPT !.job[j] = b]
  OBVIOUS
<1>13. /\ g \in D!Databases /\ g.rider = d.rider /\ g.order = d.order /\ g.job[j] = b
       /\ \A i \in Jobs \ {j} : g.job[i] = d.job[i]
  BY <1>9, <1>11, <1>12, JobSet
<1>14. follow \in [status : {"open", "ready", "out_for_delivery", "completed", "cancelled"}]
  BY <1>2, <1>4, OrderFollows DEF D!Databases
<1> HIDE DEF follow, job, by
<1>15. PICK new : new = [g EXCEPT !.order[job.order] = follow]
  OBVIOUS
<1>16. /\ new \in D!Databases /\ new.rider = d.rider /\ new.job[j] = b
       /\ \A i \in Jobs \ {j} : new.job[i] = d.job[i]
  BY <1>4, <1>13, <1>14, <1>15, JobSet
<1>17. e = [d EXCEPT !.job[j].status = status]
  BY <1>6, <1>10, Zenon DEF job
<1>18. g = [e EXCEPT !.job[j].by = by]
  BY <1>8, <1>11, <1>12, Zenon
<1>19. [d EXCEPT !.job[j].status = status, !.job[j].by = by, !.order[job.order] = follow] = new
  BY <1>15, <1>17, <1>18, Zenon
<1>20. D!Commit(c, new)
  BY <1>1, <1>19, Zenon
<1>21. job = db.job[j] /\ by # NoRider => status = "delivered" /\ by = job.rider
  BY <1>1, <1>5 DEF DispatchIInv, by
<1> HIDE DEF DispatchIInv
<1> QED
  BY <1>5, <1>9, <1>16, <1>20, <1>21, DispatchJob DEF d, job

\* The kitchen's and the till's orders.
LEMMA DispatchAdvances ==
  ASSUME DispatchIInv, NEW o \in Orders,
         NEW status \in {"ready", "cancelled", "out_for_delivery", "completed"},
         D!AdvanceOrder(o, status)
  PROVE  DispatchIInv'
<1>1. D!Commit(Prompt, [db EXCEPT !.order[o].status = status])
  BY Zenon DEF D!AdvanceOrder
<1>2. Prompt \in D!Callers /\ D!Reads(Prompt) /\ D!View(Prompt) = db
  BY RestaurantAssumption DEF D!Callers, D!Reads, D!View, B!PromptAssumption
<1>3. db \in D!Databases /\ db.order[o] \in [status : {"open", "ready", "out_for_delivery",
                                                       "completed", "cancelled"}]
  BY DEF DispatchIInv, D!Databases
<1>4. PICK doc : doc = [db.order[o] EXCEPT !.status = status]
  OBVIOUS
<1>5. doc \in [status : {"open", "ready", "out_for_delivery", "completed", "cancelled"}]
  BY <1>3, <1>4
<1>6. PICK new : new = [db EXCEPT !.order[o] = doc]
  OBVIOUS
<1>7. new \in D!Databases /\ new.rider = db.rider /\ new.job = db.job
  BY <1>3, <1>5, <1>6, JobSet
<1>8. D!Commit(Prompt, new)
  BY <1>1, <1>4, <1>6, Zenon
<1>9. /\ Tracked' /\ db' \in D!Databases
      /\ snap' \in [Clients -> D!Databases \cup {NoSnapshot}]
      /\ \A j \in Jobs : db'.job[j] = db.job[j]
      /\ \A r \in Riders : db'.rider[r] = db.rider[r]
  BY <1>2, <1>7, <1>8, DispatchCommit
<1> QED
  BY <1>9 DEF DispatchIInv, D!DispatchKept

\* A rider's profile is saved as a whole, on whatever the rest is by now.
LEMMA DispatchSaves ==
  ASSUME DispatchIInv, NEW c \in D!Callers, NEW r \in Riders, NEW profile \in D!RiderDocs,
         profile.available => profile.active, D!SaveProfile(c, r, profile)
  PROVE  DispatchIInv'
<1>1. /\ db' = [db EXCEPT !.rider[r].rider = profile]
      /\ snap' = V!Ended(c) /\ behind' = V!Overtaken(c, V!Written(db, db'))
  BY DispatchSnapshots DEF D!SaveProfile, D!SetProfile
<1>2. /\ db = [order |-> db.order, job |-> db.job, rider |-> db.rider]
      /\ db.order \in [Orders -> [status : {"open", "ready", "out_for_delivery", "completed",
                                            "cancelled"}]]
      /\ db.job \in [Jobs -> D!JobDocs] /\ db.rider \in [Riders -> [rider : D!RiderDocs]]
  BY DEF DispatchIInv, D!Databases
<1> DEFINE doc == [db.rider[r] EXCEPT !.rider = profile]
           riders == [db.rider EXCEPT ![r] = doc]
<1>3. doc \in [rider : D!RiderDocs] /\ doc.rider = profile
  BY <1>2
<1>4. db' = [db EXCEPT !.rider = riders]
  BY <1>1
<1> HIDE DEF doc
<1>5. riders \in [Riders -> [rider : D!RiderDocs]] /\ riders[r] = doc
      /\ \A q \in Riders \ {r} : riders[q] = db.rider[q]
  BY <1>2, <1>3
<1> HIDE DEF riders
<1>6. [db EXCEPT !.rider = riders] = [order |-> db.order, job |-> db.job, rider |-> riders]
  BY <1>2
<1>7. db' \in D!Databases /\ db'.job = db.job /\ db'.order = db.order /\ db'.rider = riders
  BY <1>2, <1>4, <1>5, <1>6 DEF D!Databases
<1>8. Alike(db', db)
  <2>1. \A d \in D!Databases :
           /\ DOMAIN d = {"order", "job", "rider"} /\ DOMAIN d.order = Orders
           /\ DOMAIN d.job = Jobs /\ DOMAIN d.rider = Riders
    BY DEF D!Databases
  <2>2. db \in D!Databases
    BY DEF DispatchIInv
  <2> QED
    BY <1>7, <2>1, <2>2 DEF Alike
<1>9. \A coll \in DOMAIN db : \A doc2 \in DOMAIN db[coll] :
         <<coll, doc2>> \notin V!Written(db, db') => db'[coll][doc2] = db[coll][doc2]
  BY <1>8, WrittenIs DEF Alike
<1>10. Tracked'
  BY <1>1, <1>8, <1>9, TrackedWrite DEF DispatchIInv
<1>11. snap' \in [Clients -> D!Databases \cup {NoSnapshot}]
  BY <1>1 DEF DispatchIInv, V!Ended
<1>12. \A q \in Riders : db'.rider[q].rider.available => db'.rider[q].rider.active
  BY <1>3, <1>5, <1>7 DEF DispatchIInv, D!DispatchKept
<1>13. D!DispatchKept'
  BY <1>7, <1>12 DEF DispatchIInv, D!DispatchKept
<1> QED
  BY <1>7, <1>10, <1>11, <1>13 DEF DispatchIInv

\* A rider goes on shift or off it, or is hired or let go.
LEMMA DispatchRiders ==
  ASSUME DispatchIInv, NEW c \in D!Callers, D!Reads(c), NEW r \in Riders, D!RiderStep(c, r)
  PROVE  DispatchIInv'
<1>1. PICK available \in BOOLEAN :
        \/ D!SetOwnAvailability(c, r, available)
        \/ \E active \in BOOLEAN : D!UpdateRider(c, r, active, available)
  BY DEF D!RiderStep
<1>2. CASE D!SetOwnAvailability(c, r, available)
  <2> DEFINE profile == D!View(c).rider[r].rider
  <2>1. /\ available => profile.active
        /\ D!SaveProfile(c, r, [profile EXCEPT !.available = available])
    BY <1>2, Zenon DEF D!SetOwnAvailability
  <2>2. profile \in D!RiderDocs
    BY DispatchView DEF D!Databases
  <2> HIDE DEF profile
  <2>3. PICK new : new = [profile EXCEPT !.available = available]
    OBVIOUS
  <2>4. new \in D!RiderDocs /\ new.available = available /\ new.active = profile.active
    BY <2>2, <2>3 DEF D!RiderDocs
  <2> QED
    BY <2>1, <2>3, <2>4, DispatchSaves
<1>3. ASSUME NEW active \in BOOLEAN, D!UpdateRider(c, r, active, available)
      PROVE  DispatchIInv'
  <2>1. /\ available => active
        /\ D!SaveProfile(c, r, [active |-> active, available |-> available])
    BY <1>3, Zenon DEF D!UpdateRider
  <2>2. [active |-> active, available |-> available] \in D!RiderDocs
    BY DEF D!RiderDocs
  <2> QED
    BY <2>1, <2>2, DispatchSaves
<1> QED
  BY <1>1, <1>2, <1>3

\* Every step of dispatchers, riders and the kitchen keeps the invariant.
LEMMA DispatchStep ==
  ASSUME DispatchIInv, D!Next \/ UNCHANGED <<db, snap, behind>>
  PROVE  DispatchIInv'
<1>1. CASE UNCHANGED <<db, snap, behind>>
  BY <1>1 DEF DispatchIInv, Tracked, AsRead, Alike, D!DispatchKept
<1>2. ASSUME NEW c \in Clients, D!Begin(c) \/ D!Refused(c)
      PROVE  DispatchIInv'
  <2>1. V!Begin(c) \/ V!End(c)
    BY <1>2, DispatchSnapshots DEF D!Refused
  <2>2. db' = db /\ Tracked'
    BY <2>1, TrackedBegin, TrackedEnd DEF V!Begin, V!End, DispatchIInv
  <2>3. snap' \in [Clients -> D!Databases \cup {NoSnapshot}]
    BY <2>1 DEF DispatchIInv, V!Begin, V!End, V!Ended
  <2> QED
    BY <2>2, <2>3 DEF DispatchIInv, D!DispatchKept
<1>3. ASSUME NEW c \in D!Callers, D!Reads(c), NEW j \in Jobs, D!JobStep(c, j)
      PROVE  DispatchIInv'
  BY <1>3, DispatchCreates, DispatchAssigns, DispatchUpdates DEF D!JobStep
<1> QED
  BY <1>1, <1>2, <1>3, DispatchAdvances, DispatchRiders DEF D!Next

\* Nothing is dispatched at first, and every rider is on shift.
LEMMA DispatchInit ==
  ASSUME D!Init
  PROVE  DispatchIInv
<1>1. (CHOOSE o \in Orders : TRUE) \in Orders
  BY RestaurantAssumption DEF D!DeliveryAssumption
<1>2. /\ db = [order |-> [o \in Orders |-> [status |-> "open"]],
               job |-> [j \in Jobs |-> [status |-> "absent", order |-> CHOOSE o \in Orders : TRUE,
                                        rider |-> NoRider, by |-> NoRider]],
               rider |-> [r \in Riders |-> [rider |-> [active |-> TRUE, available |-> TRUE]]]]
      /\ snap = [c \in Clients |-> NoSnapshot] /\ behind = [c \in Clients |-> {}]
  BY DEF D!Init, D!OutsideTransactions
<1>3. db \in D!Databases
  BY <1>1, <1>2 DEF D!Databases, D!JobDocs, D!RiderDocs
<1>4. Tracked
  BY <1>2 DEF Tracked
<1>5. D!DispatchKept
  BY <1>2 DEF D!DispatchKept
<1> QED
  BY <1>2, <1>3, <1>4, <1>5 DEF DispatchIInv

\* deliveries.js: however dispatchers, riders and managers overlap, an order is on the road
\* once, what a rider delivered was his to deliver, and nobody who was let go is on shift.
THEOREM DispatchTheorem == Spec => []DispatchKept
<1> DEFINE IInv == part = "dispatch" => DispatchIInv
<1>1. Init => IInv
  BY DispatchInit DEF Init
<1>2. ASSUME IInv, [Next]_vars
      PROVE  IInv'
  <2>1. part' = part
    BY <1>2 DEF Next, vars
  <2>2. part = "dispatch" => D!Next \/ UNCHANGED <<db, snap, behind>>
    BY <1>2 DEF Next, vars
  <2> QED
    BY <1>2, <2>1, <2>2, DispatchStep
<1>3. IInv => DispatchKept
  BY DEF DispatchKept, DispatchIInv
<1> QED
  BY <1>1, <1>2, <1>3, PTL DEF Spec

-------------------------------------------------------------------------------
(* Orders, goods, supplier invoices and payments.                          *)

\* What each receipt brought of an order, and each return took back.
Came(d, o) == [r \in Receipts |-> IF d.receipt[r].order = o THEN d.receipt[r].received ELSE 0]
Went(d, o) == [r \in Receipts |-> IF d.receipt[r].order = o THEN d.receipt[r].returned ELSE 0]

\* What each posted payment gives an invoice.
PaidBy(d, i) ==
    [p \in Payments |-> IF d.payment[p].status = "posted" /\ d.payment[p].invoice = i
                        THEN d.payment[p].amount ELSE 0]

\* What is true of an order by itself: nothing came before it was approved.
OrderGood(doc) ==
    /\ doc.received <= doc.ordered
    /\ doc.returned + doc.stock <= doc.received - doc.damaged
    /\ doc.status \in {"absent", "draft", "pending", "rejected", "approved", "sent", "cancelled"}
          => doc.received = 0

\* A key that was not used recorded nothing.
GoodsKept(d) ==
    /\ \A o \in Orders :
          /\ OrderGood(d.order[o])
          /\ d.order[o].received = SumFunctionOnSet(Came(d, o), Receipts)
          /\ d.order[o].returned = SumFunctionOnSet(Went(d, o), Receipts)
    /\ \A r \in Receipts :
          ~d.receipt[r].used => d.receipt[r].received = 0 /\ d.receipt[r].returned = 0

\* Nothing is paid of an invoice that is void, or not there.
BillGood(bill) ==
    /\ bill.paid <= bill.total
    /\ bill.status \in {"absent", "void"} => bill.paid = 0

BillsKept(d) ==
    \A i \in Invoices :
        /\ BillGood(d.invoice[i])
        /\ d.invoice[i].paid = SumFunctionOnSet(PaidBy(d, i), Payments)

\* Every payment is of something.
PaymentsPay(d) == \A p \in Payments : d.payment[p].status = "posted" => d.payment[p].amount > 0

SuppliesIInv ==
    /\ db \in P!Databases
    /\ snap \in [Clients -> P!Databases \cup {NoSnapshot}]
    /\ Tracked
    /\ GoodsKept(db)
    /\ BillsKept(db)
    /\ PaymentsPay(db)
    /\ \A c \in Clients : snap[c] # NoSnapshot => PaymentsPay(snap[c])

\* The transactions are those of Snapshots.
LEMMA SuppliesSnapshots ==
  /\ \A c : P!View(c) = V!View(c) /\ (P!Reads(c) <=> V!Reads(c))
  /\ \A c : (P!Begin(c) <=> V!Begin(c)) /\ (P!End(c) <=> V!End(c)) /\ P!Ended(c) = V!Ended(c)
  /\ \A c, new : P!Commit(c, new) <=> V!Commit(c, new)
  /\ P!Callers = V!Callers
<1>1. \A c : P!View(c) = V!View(c) /\ (P!Reads(c) <=> V!Reads(c))
  BY DEF P!View, V!View, P!Reads, V!Reads
<1>2. \A c : (P!Begin(c) <=> V!Begin(c)) /\ (P!End(c) <=> V!End(c)) /\ P!Ended(c) = V!Ended(c)
  BY DEF P!Begin, V!Begin, P!End, V!End, P!Ended, V!Ended
<1>3. \A c, new : P!Commit(c, new) <=> V!Commit(c, new)
  BY DEF P!Commit, V!Commit, P!NoConflict, V!NoConflict, P!View, V!View, P!Written, V!Written,
     P!Ended, V!Ended, P!Overtaken, V!Overtaken
<1>4. P!Callers = V!Callers
  BY DEF P!Callers, V!Callers
<1> QED
  BY <1>1, <1>2, <1>3, <1>4

\* What a caller reads is a database, in which every payment is of something.
LEMMA SuppliesView ==
  ASSUME SuppliesIInv, NEW c \in P!Callers, P!Reads(c)
  PROVE  /\ P!View(c) \in P!Databases
         /\ PaymentsPay(P!View(c))
BY DEF SuppliesIInv, P!View, P!Reads

\* A database is its four collections.
LEMMA SuppliesRecord ==
  ASSUME NEW d \in P!Databases
  PROVE  /\ DOMAIN d = {"order", "receipt", "invoice", "payment"}
         /\ d = [order |-> d.order, receipt |-> d.receipt, invoice |-> d.invoice,
                 payment |-> d.payment]
         /\ d.order \in [Orders -> P!OrderDocs] /\ d.receipt \in [Receipts -> P!ReceiptDocs]
         /\ d.invoice \in [Invoices -> P!InvoiceDocs]
         /\ d.payment \in [Payments -> P!PaymentDocs]
BY DEF P!Databases

\* What a commit makes of the four collections.
LEMMA SuppliesCommit ==
  ASSUME SuppliesIInv, NEW c \in P!Callers, P!Reads(c), NEW new \in P!Databases,
         P!Commit(c, new)
  PROVE  /\ Tracked' /\ db' \in P!Databases
         /\ snap' \in [Clients -> P!Databases \cup {NoSnapshot}]
         /\ \A q \in Clients : snap'[q] # NoSnapshot => snap'[q] = snap[q]
         /\ \A o \in Orders :
               IF new.order[o] = P!View(c).order[o] THEN db'.order[o] = db.order[o]
               ELSE db'.order[o] = new.order[o] /\ P!View(c).order[o] = db.order[o]
         /\ \A r \in Receipts :
               IF new.receipt[r] = P!View(c).receipt[r] THEN db'.receipt[r] = db.receipt[r]
               ELSE db'.receipt[r] = new.receipt[r] /\ P!View(c).receipt[r] = db.receipt[r]
         /\ \A i \in Invoices :
               IF new.invoice[i] = P!View(c).invoice[i] THEN db'.invoice[i] = db.invoice[i]
               ELSE db'.invoice[i] = new.invoice[i] /\ P!View(c).invoice[i] = db.invoice[i]
         /\ \A p \in Payments :
               IF new.payment[p] = P!View(c).payment[p] THEN db'.payment[p] = db.payment[p]
               ELSE db'.payment[p] = new.payment[p] /\ P!View(c).payment[p] = db.payment[p]
<1> DEFINE read == P!View(c)
<1>1. db \in P!Databases /\ Tracked /\ V!Commit(c, new) /\ c \in V!Callers /\ V!Reads(c)
      /\ read = V!View(c)
  BY SuppliesSnapshots DEF SuppliesIInv
<1>2. \A d \in P!Databases :
         /\ DOMAIN d = {"order", "receipt", "invoice", "payment"} /\ DOMAIN d.order = Orders
         /\ DOMAIN d.receipt = Receipts /\ DOMAIN d.invoice = Invoices
         /\ DOMAIN d.payment = Payments
  BY SuppliesRecord
<1>3. Alike(new, db)
  BY <1>1, <1>2 DEF Alike
<1>4. /\ Tracked' /\ Alike(db', db)
      /\ \A coll \in DOMAIN db : \A doc \in DOMAIN db[coll] :
            IF new[coll][doc] = V!View(c)[coll][doc]
            THEN db'[coll][doc] = db[coll][doc]
            ELSE db'[coll][doc] = new[coll][doc] /\ V!View(c)[coll][doc] = db[coll][doc]
  BY <1>1, <1>3, CommitWrites
<1>5. /\ \A coll \in DOMAIN db : \A doc \in DOMAIN db[coll] :
            IF new[coll][doc] = read[coll][doc]
            THEN db'[coll][doc] = db[coll][doc]
            ELSE db'[coll][doc] = new[coll][doc] /\ read[coll][doc] = db[coll][doc]
      /\ DOMAIN db = {"order", "receipt", "invoice", "payment"} /\ DOMAIN db.order = Orders
      /\ DOMAIN db.receipt = Receipts /\ DOMAIN db.invoice = Invoices
      /\ DOMAIN db.payment = Payments
  BY <1>1, <1>2, <1>4, Zenon
<1> HIDE DEF read
<1>6. \A o \in Orders :
         IF new.order[o] = read.order[o] THEN db'.order[o] = db.order[o]
         ELSE db'.order[o] = new.order[o] /\ read.order[o] = db.order[o]
  BY <1>5
<1>7. \A r \in Receipts :
         IF new.receipt[r] = read.receipt[r] THEN db'.receipt[r] = db.receipt[r]
         ELSE db'.receipt[r] = new.receipt[r] /\ read.receipt[r] = db.receipt[r]
  BY <1>5
<1>8. \A i \in Invoices :
         IF new.invoice[i] = read.invoice[i] THEN db'.invoice[i] = db.invoice[i]
         ELSE db'.invoice[i] = new.invoice[i] /\ read.invoice[i] = db.invoice[i]
  BY <1>5
<1>9. \A p \in Payments :
         IF new.payment[p] = read.payment[p] THEN db'.payment[p] = db.payment[p]
         ELSE db'.payment[p] = new.payment[p] /\ read.payment[p] = db.payment[p]
  BY <1>5
<1>10. db' \in P!Databases
  <2>1. db' = [coll \in DOMAIN db |-> db'[coll]]
        /\ \A coll \in DOMAIN db : db'[coll] = [doc \in DOMAIN db[coll] |-> db'[coll][doc]]
    BY <1>1 DEF V!Commit
  <2>2. db' = [order |-> db'.order, receipt |-> db'.receipt, invoice |-> db'.invoice,
               payment |-> db'.payment]
    BY <1>5, <2>1
  <2>3. /\ db'.order = [o \in Orders |-> db'.order[o]]
        /\ db'.receipt = [r \in Receipts |-> db'.receipt[r]]
        /\ db'.invoice = [i \in Invoices |-> db'.invoice[i]]
        /\ db'.payment = [p \in Payments |-> db'.payment[p]]
    BY <1>5, <2>1
  <2>4. \A d \in P!Databases :
           /\ \A o \in Orders : d.order[o] \in P!OrderDocs
           /\ \A r \in Receipts : d.receipt[r] \in P!ReceiptDocs
           /\ \A i \in Invoices : d.invoice[i] \in P!InvoiceDocs
           /\ \A p \in Payments : d.payment[p] \in P!PaymentDocs
    BY SuppliesRecord
  <2>5. db'.order \in [Orders -> P!OrderDocs]
    BY <1>1, <1>6, <2>3, <2>4
  <2>6. db'.receipt \in [Receipts -> P!ReceiptDocs]
    BY <1>1, <1>7, <2>3, <2>4
  <2>7. db'.invoice \in [Invoices -> P!InvoiceDocs]
    BY <1>1, <1>8, <2>3, <2>4
  <2>8. db'.payment \in [Payments -> P!PaymentDocs]
    BY <1>1, <1>9, <2>3, <2>4
  <2> QED
    BY <2>2, <2>5, <2>6, <2>7, <2>8 DEF P!Databases
<1>11. /\ snap' \in [Clients -> P!Databases \cup {NoSnapshot}]
       /\ \A q \in Clients : snap'[q] # NoSnapshot => snap'[q] = snap[q]
  BY <1>1 DEF V!Commit, V!Ended, SuppliesIInv
<1> QED
  BY <1>4, <1>6, <1>7, <1>8, <1>9, <1>10, <1>11 DEF read

\* A commit that leaves the payments alone, and what is paid of each invoice.
LEMMA BillsStay ==
  ASSUME SuppliesIInv, NEW c \in P!Callers, P!Reads(c), NEW new \in P!Databases,
         P!Commit(c, new), new.payment = P!View(c).payment,
         \A i \in Invoices :
            BillGood(P!View(c).invoice[i])
               => /\ BillGood(new.invoice[i])
                  /\ new.invoice[i].paid = P!View(c).invoice[i].paid
  PROVE  BillsKept(db') /\ PaymentsPay(db')
<1>1. BillsKept(db) /\ PaymentsPay(db)
  BY DEF SuppliesIInv
<1>2. /\ \A p \in Payments : db'.payment[p] = db.payment[p]
      /\ \A i \in Invoices : \/ db'.invoice[i] = db.invoice[i]
                             \/ /\ db'.invoice[i] = new.invoice[i]
                                /\ P!View(c).invoice[i] = db.invoice[i]
  BY SuppliesCommit
<1>3. \A i \in Invoices : PaidBy(db', i) = PaidBy(db, i)
  BY <1>2 DEF PaidBy
<1>4. \A i \in Invoices : BillGood(db'.invoice[i]) /\ db'.invoice[i].paid = db.invoice[i].paid
  BY <1>1, <1>2 DEF BillsKept
<1> QED
  BY <1>1, <1>2, <1>3, <1>4 DEF BillsKept, PaymentsPay

\* A commit that leaves orders and receipts alone.
LEMMA GoodsStay ==
  ASSUME SuppliesIInv, NEW c \in P!Callers, P!Reads(c), NEW new \in P!Databases,
         P!Commit(c, new), new.order = P!View(c).order, new.receipt = P!View(c).receipt
  PROVE  GoodsKept(db')
<1>1. /\ \A r \in Receipts : db'.receipt[r] = db.receipt[r]
      /\ \A o \in Orders : db'.order[o] = db.order[o]
  BY SuppliesCommit
<1>2. \A o \in Orders : Came(db', o) = Came(db, o) /\ Went(db', o) = Went(db, o)
  BY <1>1 DEF Came, Went
<1>3. GoodsKept(db)
  BY DEF SuppliesIInv
<1> QED
  BY <1>1, <1>2, <1>3 DEF GoodsKept

\* A commit that writes one order, and neither what came of it nor what went back.
LEMMA OrderWritten ==
  ASSUME SuppliesIInv, NEW c \in P!Callers, P!Reads(c), NEW new \in P!Databases,
         P!Commit(c, new), new.receipt = P!View(c).receipt, NEW o \in Orders,
         \A q \in Orders \ {o} : new.order[q] = P!View(c).order[q],
         OrderGood(P!View(c).order[o])
            => /\ OrderGood(new.order[o])
               /\ new.order[o].received = P!View(c).order[o].received
               /\ new.order[o].returned = P!View(c).order[o].returned
  PROVE  GoodsKept(db')
<1>1. /\ \A r \in Receipts : db'.receipt[r] = db.receipt[r]
      /\ \A q \in Orders \ {o} : db'.order[q] = db.order[q]
  BY SuppliesCommit
<1>2. \A q \in Orders : Came(db', q) = Came(db, q) /\ Went(db', q) = Went(db, q)
  BY <1>1 DEF Came, Went
<1>3. GoodsKept(db)
  BY DEF SuppliesIInv
<1>4. /\ OrderGood(db'.order[o]) /\ db'.order[o].received = db.order[o].received
      /\ db'.order[o].returned = db.order[o].returned
  <2>1. OrderGood(db.order[o])
    BY <1>3 DEF GoodsKept
  <2>2. \/ db'.order[o] = db.order[o]
        \/ db'.order[o] = new.order[o] /\ P!View(c).order[o] = db.order[o]
    BY SuppliesCommit
  <2> QED
    BY <2>1, <2>2
<1> QED
  BY <1>1, <1>2, <1>3, <1>4 DEF GoodsKept

\* One member of a sum of numbers changes, and the sum with it.
LEMMA SumMoves ==
  ASSUME NEW X, IsFiniteSet(X), NEW f, NEW g, NEW x \in X, f[x] \in Nat, g[x] \in Nat,
         \A y \in X : f[y] \in Nat, \A y \in X \ {x} : g[y] = f[y]
  PROVE  /\ SumFunctionOnSet(g, X) = SumFunctionOnSet(f, X) + g[x] - f[x]
         /\ SumFunctionOnSet(f, X) \in Nat
<1>1. SameOn(X \ {x}, f, g)
  BY DEF SameOn
<1>2. \A y \in X : f[y] \in Int /\ g[y] \in Int
  OBVIOUS
<1>3. SumFunctionOnSet(f, X) \in Nat
  BY SumGrows
<1> QED
  BY <1>1, <1>2, <1>3, SumUpdate

\* A commit that writes one order, and one receipt or return of it, under a new key.
LEMMA GoodsWritten ==
  ASSUME SuppliesIInv, NEW c \in P!Callers, P!Reads(c), NEW new \in P!Databases,
         P!Commit(c, new), NEW o \in Orders, NEW r \in Receipts,
         \A q \in Orders \ {o} : new.order[q] = P!View(c).order[q],
         \A q \in Receipts \ {r} : new.receipt[q] = P!View(c).receipt[q],
         new.order[o] # P!View(c).order[o],
         ~P!View(c).receipt[r].used, new.receipt[r].used, new.receipt[r].order = o,
         OrderGood(P!View(c).order[o]) => OrderGood(new.order[o]),
         new.order[o].received = P!View(c).order[o].received + new.receipt[r].received,
         new.order[o].returned = P!View(c).order[o].returned + new.receipt[r].returned
  PROVE  GoodsKept(db')
<1> DEFINE row == new.receipt[r]
<1>1. /\ \A q \in Receipts \ {r} : db'.receipt[q] = db.receipt[q]
      /\ \A q \in Orders \ {o} : db'.order[q] = db.order[q]
      /\ db'.order[o] = new.order[o] /\ P!View(c).order[o] = db.order[o]
      /\ db'.receipt[r] = row /\ P!View(c).receipt[r] = db.receipt[r]
  BY SuppliesCommit
<1>2. GoodsKept(db) /\ db \in P!Databases
  BY DEF SuppliesIInv
<1>3. ~db.receipt[r].used /\ db.receipt[r].received = 0 /\ db.receipt[r].returned = 0
  BY <1>1, <1>2 DEF GoodsKept
<1>4. \A q \in Receipts : db.receipt[q].received \in Nat /\ db.receipt[q].returned \in Nat
  BY <1>2, SuppliesRecord DEF P!ReceiptDocs
<1>5. row.received \in Nat /\ row.returned \in Nat
  BY SuppliesRecord DEF P!ReceiptDocs
<1>6. IsFiniteSet(Receipts)
  BY RestaurantAssumption DEF P!ProcurementAssumption, P!IsFiniteSet, IsFiniteSet
<1> HIDE DEF row
<1>7. \A q \in Orders \ {o} : Came(db', q) = Came(db, q) /\ Went(db', q) = Went(db, q)
  <2> SUFFICES ASSUME NEW q \in Orders \ {o}
               PROVE  Came(db', q) = Came(db, q) /\ Went(db', q) = Went(db, q)
    OBVIOUS
  <2>1. row.order # q
    BY DEF row
  <2>2. \A k \in Receipts : Came(db', q)[k] = Came(db, q)[k] /\ Went(db', q)[k] = Went(db, q)[k]
    BY <1>1, <1>3, <2>1 DEF Came, Went
  <2> QED
    BY <2>2 DEF Came, Went
<1>8. \A k \in Receipts : Came(db, o)[k] \in Nat /\ Went(db, o)[k] \in Nat
  BY <1>4 DEF Came, Went
<1>9. /\ Came(db, o)[r] = 0 /\ Came(db', o)[r] = row.received
      /\ Went(db, o)[r] = 0 /\ Went(db', o)[r] = row.returned
      /\ \A k \in Receipts \ {r} : /\ Came(db', o)[k] = Came(db, o)[k]
                                   /\ Went(db', o)[k] = Went(db, o)[k]
  <2>1. row.order = o
    BY DEF row
  <2> QED
    BY <1>1, <1>3, <2>1 DEF Came, Went
<1>10. SumFunctionOnSet(Came(db', o), Receipts) = SumFunctionOnSet(Came(db, o), Receipts)
                                                    + row.received
  <2>1. PICK f, g : f = Came(db, o) /\ g = Came(db', o)
    OBVIOUS
  <2>2. /\ f[r] = 0 /\ g[r] = row.received /\ \A k \in Receipts : f[k] \in Nat
        /\ \A k \in Receipts \ {r} : g[k] = f[k]
    BY <1>8, <1>9, <2>1
  <2>3. /\ SumFunctionOnSet(g, Receipts) = SumFunctionOnSet(f, Receipts) + g[r] - f[r]
        /\ SumFunctionOnSet(f, Receipts) \in Nat
    BY <1>5, <1>6, <2>2, SumMoves
  <2> QED
    BY <1>5, <2>1, <2>2, <2>3
<1>11. SumFunctionOnSet(Went(db', o), Receipts) = SumFunctionOnSet(Went(db, o), Receipts)
                                                    + row.returned
  <2>1. PICK f, g : f = Went(db, o) /\ g = Went(db', o)
    OBVIOUS
  <2>2. /\ f[r] = 0 /\ g[r] = row.returned /\ \A k \in Receipts : f[k] \in Nat
        /\ \A k \in Receipts \ {r} : g[k] = f[k]
    BY <1>8, <1>9, <2>1
  <2>3. /\ SumFunctionOnSet(g, Receipts) = SumFunctionOnSet(f, Receipts) + g[r] - f[r]
        /\ SumFunctionOnSet(f, Receipts) \in Nat
    BY <1>5, <1>6, <2>2, SumMoves
  <2> QED
    BY <1>5, <2>1, <2>2, <2>3
<1>12. /\ OrderGood(db'.order[o])
       /\ db'.order[o].received = SumFunctionOnSet(Came(db', o), Receipts)
       /\ db'.order[o].returned = SumFunctionOnSet(Went(db', o), Receipts)
  BY <1>1, <1>2, <1>10, <1>11 DEF GoodsKept, row
<1>13. row.used
  BY DEF row
<1>14. \A q \in Orders : /\ OrderGood(db'.order[q])
                         /\ db'.order[q].received = SumFunctionOnSet(Came(db', q), Receipts)
                         /\ db'.order[q].returned = SumFunctionOnSet(Went(db', q), Receipts)
  BY <1>1, <1>2, <1>7, <1>12 DEF GoodsKept
<1>15. \A q \in Receipts : ~db'.receipt[q].used => /\ db'.receipt[q].received = 0
                                                   /\ db'.receipt[q].returned = 0
  BY <1>1, <1>2, <1>13 DEF GoodsKept
<1> QED
  BY <1>14, <1>15 DEF GoodsKept

\* The parts of the invariant make it up.
LEMMA SuppliesParts ==
  ASSUME SuppliesIInv, NEW c \in P!Callers, P!Reads(c), NEW new \in P!Databases,
         P!Commit(c, new), GoodsKept(db'), BillsKept(db'), PaymentsPay(db')
  PROVE  SuppliesIInv'
<1>1. /\ Tracked' /\ db' \in P!Databases
      /\ snap' \in [Clients -> P!Databases \cup {NoSnapshot}]
      /\ \A q \in Clients : snap'[q] # NoSnapshot => snap'[q] = snap[q]
  BY SuppliesCommit
<1>2. \A q \in Clients : snap'[q] # NoSnapshot => PaymentsPay(snap'[q])
  BY <1>1 DEF SuppliesIInv
<1>3. GoodsKept(db)' /\ BillsKept(db)' /\ PaymentsPay(db)'
  OBVIOUS
<1>4. \A q \in Clients : snap'[q] # NoSnapshot => PaymentsPay(snap[q])'
  BY <1>2 DEF PaymentsPay
<1> QED
  BY <1>1, <1>3, <1>4 DEF SuppliesIInv

\* The sums of Procurement are those of Functions.
LEMMA SuppliesSum ==
  ASSUME NEW f
  PROVE  P!SumFunction(f) = SumFunctionOnSet(f, DOMAIN f)
BY DEF P!SumFunction, P!SumFunctionOnSet, P!FoldFunctionOnSet, P!MapThenFoldSet,
   SumFunctionOnSet, FoldFunctionOnSet, MapThenFoldSet

\* A sum over some members is that of a function which is nothing at the others.
LEMMA SumOfSome ==
  ASSUME NEW X, IsFiniteSet(X), NEW f, NEW g, NEW x \in SUBSET X, DOMAIN f = x,
         \A y \in X : g[y] \in Int, \A y \in x : f[y] = g[y], \A y \in X \ x : g[y] = 0
  PROVE  P!SumFunction(f) = SumFunctionOnSet(g, X)
<1>1. P!SumFunction(f) = SumFunctionOnSet(f, x)
  BY SuppliesSum
<1>2. SumFunctionOnSet(g, X) = SumFunctionOnSet(g, x)
  BY SumOfSupport
<1>3. IsFiniteSet(x)
  BY FS_Subset
<1>4. SumFunctionOnSet(f, x) = SumFunctionOnSet(g, x)
  BY <1>3, SumEqual
<1> QED
  BY <1>1, <1>2, <1>4

\* What the code adds up over an invoice's posted payments.
LEMMA ActiveIs ==
  ASSUME NEW d \in P!Databases, NEW i \in Invoices
  PROVE  P!ActiveTotal(d, i) = SumFunctionOnSet(PaidBy(d, i), Payments)
<1> DEFINE posted == P!Posted(d, i)
           amounts == [p \in posted |-> d.payment[p].amount]
           gives == PaidBy(d, i)
<1>1. P!ActiveTotal(d, i) = P!SumFunction(amounts)
  BY Zenon DEF P!ActiveTotal
<1>2. posted \in SUBSET Payments /\ DOMAIN amounts = posted
  BY DEF P!Posted
<1>3. \A p \in Payments : gives[p] \in Int
  BY SuppliesRecord DEF PaidBy, P!PaymentDocs
<1>4. /\ \A p \in posted : amounts[p] = gives[p]
      /\ \A p \in Payments \ posted : gives[p] = 0
  BY DEF P!Posted, PaidBy
<1>5. IsFiniteSet(Payments)
  BY RestaurantAssumption DEF P!ProcurementAssumption, P!IsFiniteSet, IsFiniteSet
<1> HIDE DEF posted, amounts, gives
<1>6. P!SumFunction(amounts) = SumFunctionOnSet(gives, Payments)
  BY <1>2, <1>3, <1>4, <1>5, SumOfSome
<1> QED
  BY <1>1, <1>6 DEF gives

\* The invariant is what GoodsAccounted and InvoicesPaidOnce say.
LEMMA SuppliesKept ==
  ASSUME SuppliesIInv
  PROVE  P!GoodsAccounted /\ P!InvoicesPaidOnce
<1>1. /\ db \in P!Databases /\ GoodsKept(db) /\ BillsKept(db) /\ PaymentsPay(db)
  BY DEF SuppliesIInv
<1>2. ASSUME NEW o \in Orders
      PROVE  /\ P!SumFunction([r \in {q \in Receipts : db.receipt[q].order = o} |->
                                  db.receipt[r].received])
                  = SumFunctionOnSet(Came(db, o), Receipts)
             /\ P!SumFunction([r \in {q \in Receipts : db.receipt[q].order = o} |->
                                  db.receipt[r].returned])
                  = SumFunctionOnSet(Went(db, o), Receipts)
  <2> DEFINE rows == {q \in Receipts : db.receipt[q].order = o}
             came == [r \in rows |-> db.receipt[r].received]
             went == [r \in rows |-> db.receipt[r].returned]
  <2>1. rows \in SUBSET Receipts /\ DOMAIN came = rows /\ DOMAIN went = rows
    OBVIOUS
  <2>2. \A r \in Receipts : Came(db, o)[r] \in Int /\ Went(db, o)[r] \in Int
    BY <1>1, SuppliesRecord DEF Came, Went, P!ReceiptDocs
  <2>3. /\ \A r \in rows : came[r] = Came(db, o)[r] /\ went[r] = Went(db, o)[r]
        /\ \A r \in Receipts \ rows : Came(db, o)[r] = 0 /\ Went(db, o)[r] = 0
    BY DEF Came, Went
  <2>4. IsFiniteSet(Receipts)
    BY RestaurantAssumption DEF P!ProcurementAssumption, P!IsFiniteSet, IsFiniteSet
  <2> HIDE DEF rows, came, went
  <2>5. P!SumFunction(came) = SumFunctionOnSet(Came(db, o), Receipts)
    BY <2>1, <2>2, <2>3, <2>4, SumOfSome
  <2>6. P!SumFunction(went) = SumFunctionOnSet(Went(db, o), Receipts)
    BY <2>1, <2>2, <2>3, <2>4, SumOfSome
  <2> QED
    BY <2>5, <2>6 DEF rows, came, went
<1>3. P!GoodsAccounted
  <2> SUFFICES ASSUME NEW o \in Orders
               PROVE  LET doc == db.order[o]
                          Sum(field) ==
                             P!SumFunction([r \in {q \in Receipts : db.receipt[q].order = o} |->
                                               db.receipt[r][field]])
                      IN  /\ doc.received <= doc.ordered
                          /\ doc.returned + doc.stock <= doc.received - doc.damaged
                          /\ doc.received = Sum("received")
                          /\ doc.returned = Sum("returned")
    BY Zenon DEF P!GoodsAccounted
  <2>1. /\ OrderGood(db.order[o])
        /\ db.order[o].received = SumFunctionOnSet(Came(db, o), Receipts)
        /\ db.order[o].returned = SumFunctionOnSet(Went(db, o), Receipts)
    BY <1>1 DEF GoodsKept
  <2> QED
    BY <1>2, <2>1 DEF OrderGood
<1>4. P!InvoicesPaidOnce
  <2> SUFFICES ASSUME NEW i \in Invoices
               PROVE  /\ db.invoice[i].paid = P!ActiveTotal(db, i)
                      /\ db.invoice[i].paid <= db.invoice[i].total
                      /\ db.invoice[i].status = "void" => P!Posted(db, i) = {}
    BY DEF P!InvoicesPaidOnce
  <2>1. /\ db.invoice[i].paid = SumFunctionOnSet(PaidBy(db, i), Payments)
        /\ db.invoice[i].paid <= db.invoice[i].total
        /\ db.invoice[i].status = "void" => db.invoice[i].paid = 0
    BY <1>1 DEF BillsKept, BillGood
  <2>2. P!ActiveTotal(db, i) = SumFunctionOnSet(PaidBy(db, i), Payments)
    BY <1>1, ActiveIs
  <2>3. ASSUME NEW p \in P!Posted(db, i)
        PROVE  SumFunctionOnSet(PaidBy(db, i), Payments) > 0
    <3>1. p \in Payments /\ db.payment[p].status = "posted" /\ db.payment[p].invoice = i
      BY DEF P!Posted
    <3>2. PaidBy(db, i)[p] > 0
      BY <1>1, <3>1 DEF PaymentsPay, PaidBy
    <3>3. \A q \in Payments : PaidBy(db, i)[q] \in Nat
      BY <1>1, SuppliesRecord DEF PaidBy, P!PaymentDocs
    <3>4. IsFiniteSet(Payments)
      BY RestaurantAssumption DEF P!ProcurementAssumption, P!IsFiniteSet, IsFiniteSet
    <3>5. SumFunctionOnSet(PaidBy(db, i), Payments)
             = PaidBy(db, i)[p] + SumFunctionOnSet(PaidBy(db, i), Payments \ {p})
      BY <3>1, <3>3, <3>4, SumRemove
    <3>6. SumFunctionOnSet(PaidBy(db, i), Payments \ {p}) \in Nat
      BY <3>3, <3>4, SumGrows
    <3> QED
      BY <3>1, <3>2, <3>3, <3>5, <3>6
  <2>4. db.invoice[i].status = "void" => P!Posted(db, i) = {}
    BY <2>1, <2>3
  <2> QED
    BY <2>1, <2>2, <2>4
<1> QED
  BY <1>3, <1>4

\* A database with one order replaced.
LEMMA OrderSet ==
  ASSUME NEW d \in P!Databases, NEW o \in Orders, NEW doc \in P!OrderDocs
  PROVE  LET e == P!SetOrder(d, o, doc)
         IN  /\ e \in P!Databases /\ e.receipt = d.receipt /\ e.invoice = d.invoice
             /\ e.payment = d.payment /\ e.order[o] = doc
             /\ \A q \in Orders \ {o} : e.order[q] = d.order[q]
<1> DEFINE docs == [d.order EXCEPT ![o] = doc]
           e == P!SetOrder(d, o, doc)
<1>1. e = [d EXCEPT !.order = docs]
  BY DEF P!SetOrder
<1>2. /\ docs \in [Orders -> P!OrderDocs] /\ docs[o] = doc
      /\ \A q \in Orders \ {o} : docs[q] = d.order[q]
  BY SuppliesRecord
<1> HIDE DEF docs, e
<1>3. [d EXCEPT !.order = docs]
        = [order |-> docs, receipt |-> d.receipt, invoice |-> d.invoice, payment |-> d.payment]
  BY SuppliesRecord
<1>4. /\ e \in P!Databases /\ e.receipt = d.receipt /\ e.invoice = d.invoice
      /\ e.payment = d.payment /\ e.order = docs
  BY <1>1, <1>2, <1>3, SuppliesRecord DEF P!Databases
<1> QED
  BY <1>2, <1>4 DEF e

\* A database with one receipt or return replaced.
LEMMA ReceiptSet ==
  ASSUME NEW d \in P!Databases, NEW r \in Receipts, NEW doc \in P!ReceiptDocs
  PROVE  LET e == [d EXCEPT !.receipt[r] = doc]
         IN  /\ e \in P!Databases /\ e.order = d.order /\ e.invoice = d.invoice
             /\ e.payment = d.payment /\ e.receipt[r] = doc
             /\ \A q \in Receipts \ {r} : e.receipt[q] = d.receipt[q]
<1> DEFINE docs == [d.receipt EXCEPT ![r] = doc]
           e == [d EXCEPT !.receipt[r] = doc]
<1>1. e = [d EXCEPT !.receipt = docs]
  OBVIOUS
<1>2. /\ docs \in [Receipts -> P!ReceiptDocs] /\ docs[r] = doc
      /\ \A q \in Receipts \ {r} : docs[q] = d.receipt[q]
  BY SuppliesRecord
<1> HIDE DEF docs, e
<1>3. [d EXCEPT !.receipt = docs]
        = [order |-> d.order, receipt |-> docs, invoice |-> d.invoice, payment |-> d.payment]
  BY SuppliesRecord
<1>4. /\ e \in P!Databases /\ e.order = d.order /\ e.invoice = d.invoice
      /\ e.payment = d.payment /\ e.receipt = docs
  BY <1>1, <1>2, <1>3, SuppliesRecord DEF P!Databases
<1> QED
  BY <1>2, <1>4 DEF e

\* A database with one invoice replaced.
LEMMA InvoiceSet ==
  ASSUME NEW d \in P!Databases, NEW i \in Invoices, NEW doc \in P!InvoiceDocs
  PROVE  LET e == [d EXCEPT !.invoice[i] = doc]
         IN  /\ e \in P!Databases /\ e.order = d.order /\ e.receipt = d.receipt
             /\ e.payment = d.payment /\ e.invoice[i] = doc
             /\ \A q \in Invoices \ {i} : e.invoice[q] = d.invoice[q]
<1> DEFINE docs == [d.invoice EXCEPT ![i] = doc]
           e == [d EXCEPT !.invoice[i] = doc]
<1>1. e = [d EXCEPT !.invoice = docs]
  OBVIOUS
<1>2. /\ docs \in [Invoices -> P!InvoiceDocs] /\ docs[i] = doc
      /\ \A q \in Invoices \ {i} : docs[q] = d.invoice[q]
  BY SuppliesRecord
<1> HIDE DEF docs, e
<1>3. [d EXCEPT !.invoice = docs]
        = [order |-> d.order, receipt |-> d.receipt, invoice |-> docs, payment |-> d.payment]
  BY SuppliesRecord
<1>4. /\ e \in P!Databases /\ e.order = d.order /\ e.receipt = d.receipt
      /\ e.payment = d.payment /\ e.invoice = docs
  BY <1>1, <1>2, <1>3, SuppliesRecord DEF P!Databases
<1> QED
  BY <1>2, <1>4 DEF e

\* A database with one payment replaced.
LEMMA PaymentSet ==
  ASSUME NEW d \in P!Databases, NEW p \in Payments, NEW doc \in P!PaymentDocs
  PROVE  LET e == [d EXCEPT !.payment[p] = doc]
         IN  /\ e \in P!Databases /\ e.order = d.order /\ e.receipt = d.receipt
             /\ e.invoice = d.invoice /\ e.payment[p] = doc
             /\ \A q \in Payments \ {p} : e.payment[q] = d.payment[q]
<1> DEFINE docs == [d.payment EXCEPT ![p] = doc]
           e == [d EXCEPT !.payment[p] = doc]
<1>1. e = [d EXCEPT !.payment = docs]
  OBVIOUS
<1>2. /\ docs \in [Payments -> P!PaymentDocs] /\ docs[p] = doc
      /\ \A q \in Payments \ {p} : docs[q] = d.payment[q]
  BY SuppliesRecord
<1> HIDE DEF docs, e
<1>3. [d EXCEPT !.payment = docs]
        = [order |-> d.order, receipt |-> d.receipt, invoice |-> d.invoice, payment |-> docs]
  BY SuppliesRecord
<1>4. /\ e \in P!Databases /\ e.order = d.order /\ e.receipt = d.receipt
      /\ e.invoice = d.invoice /\ e.payment = docs
  BY <1>1, <1>2, <1>3, SuppliesRecord DEF P!Databases
<1> QED
  BY <1>2, <1>4 DEF e

\* refreshSupplierInvoiceMatching writes nothing but the matches of invoices.
LEMMA RefreshedIs ==
  ASSUME NEW d \in P!Databases, NEW o
  PROVE  LET e == P!Refreshed(d, o)
         IN  /\ e \in P!Databases /\ e.order = d.order /\ e.receipt = d.receipt
             /\ e.payment = d.payment
             /\ \A i \in Invoices : /\ e.invoice[i].status = d.invoice[i].status
                                    /\ e.invoice[i].total = d.invoice[i].total
                                    /\ e.invoice[i].paid = d.invoice[i].paid
<1> DEFINE match(i) == P!Matching(d, o, d.invoice[i].total, {j \in Invoices : j < i})
           bills == [i \in Invoices |->
                        IF d.invoice[i].order = o /\ d.invoice[i].status \notin {"absent", "void"}
                        THEN [d.invoice[i] EXCEPT !.match = match(i)]
                        ELSE d.invoice[i]]
           e == P!Refreshed(d, o)
<1>1. e = [d EXCEPT !.invoice = bills]
  BY DEF P!Refreshed
<1>2. /\ d = [order |-> d.order, receipt |-> d.receipt, invoice |-> d.invoice,
              payment |-> d.payment]
      /\ d.order \in [Orders -> P!OrderDocs] /\ d.receipt \in [Receipts -> P!ReceiptDocs]
      /\ d.invoice \in [Invoices -> P!InvoiceDocs] /\ d.payment \in [Payments -> P!PaymentDocs]
  BY SuppliesRecord
<1>3. \A i \in Invoices : match(i) \in {"awaiting_receipt", "over_billed", "matched", "partial"}
  BY DEF P!Matching
<1> HIDE DEF match
<1>4. ASSUME NEW i \in Invoices
      PROVE  /\ bills[i] \in P!InvoiceDocs /\ bills[i].status = d.invoice[i].status
             /\ bills[i].total = d.invoice[i].total /\ bills[i].paid = d.invoice[i].paid
  <2>1. d.invoice[i] \in P!InvoiceDocs
    BY <1>2
  <2>2. PICK bill : bill = [d.invoice[i] EXCEPT !.match = match(i)]
    OBVIOUS
  <2>3. /\ bill \in P!InvoiceDocs /\ bill.status = d.invoice[i].status
        /\ bill.total = d.invoice[i].total /\ bill.paid = d.invoice[i].paid
    BY <1>3, <2>1, <2>2 DEF P!InvoiceDocs
  <2>4. bills[i] = d.invoice[i] \/ bills[i] = bill
    BY <2>2
  <2> HIDE DEF bills
  <2> QED
    BY <2>1, <2>3, <2>4
<1>5. bills = [i \in Invoices |-> bills[i]]
  OBVIOUS
<1> HIDE DEF bills, e
<1>6. bills \in [Invoices -> P!InvoiceDocs]
  BY <1>4, <1>5
<1>7. [d EXCEPT !.invoice = bills] = [order |-> d.order, receipt |-> d.receipt,
                                      invoice |-> bills, payment |-> d.payment]
  BY <1>2
<1>8. /\ e \in P!Databases /\ e.order = d.order /\ e.receipt = d.receipt
      /\ e.payment = d.payment /\ e.invoice = bills
  BY <1>1, <1>2, <1>6, <1>7 DEF P!Databases
<1> QED
  BY <1>4, <1>8 DEF e

\* A commit of one order alone.
LEMMA SuppliesOrder ==
  ASSUME SuppliesIInv, NEW c \in P!Callers, P!Reads(c), NEW o \in Orders,
         NEW doc \in P!OrderDocs, P!Commit(c, P!SetOrder(P!View(c), o, doc)),
         OrderGood(P!View(c).order[o])
            => /\ OrderGood(doc)
               /\ doc.received = P!View(c).order[o].received
               /\ doc.returned = P!View(c).order[o].returned
  PROVE  SuppliesIInv'
<1> DEFINE d == P!View(c)
           new == P!SetOrder(d, o, doc)
<1>1. d \in P!Databases
  BY SuppliesView
<1>2. /\ new \in P!Databases /\ new.receipt = d.receipt /\ new.invoice = d.invoice
      /\ new.payment = d.payment /\ new.order[o] = doc
      /\ \A q \in Orders \ {o} : new.order[q] = d.order[q]
  BY <1>1, OrderSet
<1>3. P!Commit(c, new)
  OBVIOUS
<1> HIDE DEF new
<1>4. GoodsKept(db')
  BY <1>2, <1>3, OrderWritten
<1>5. BillsKept(db') /\ PaymentsPay(db')
  BY <1>2, <1>3, BillsStay
<1> QED
  BY <1>2, <1>3, <1>4, <1>5, SuppliesParts

\* A commit of one order, with a new receipt or return of it, that matches the invoices.
LEMMA SuppliesGoods ==
  ASSUME SuppliesIInv, NEW c \in P!Callers, P!Reads(c), NEW o \in Orders, NEW r \in Receipts,
         NEW now \in P!OrderDocs, NEW row \in P!ReceiptDocs,
         P!Commit(c, P!Refreshed([P!SetOrder(P!View(c), o, now) EXCEPT !.receipt[r] = row], o)),
         now # P!View(c).order[o],
         ~P!View(c).receipt[r].used, row.used, row.order = o,
         OrderGood(P!View(c).order[o]) => OrderGood(now),
         now.received = P!View(c).order[o].received + row.received,
         now.returned = P!View(c).order[o].returned + row.returned
  PROVE  SuppliesIInv'
<1> DEFINE d == P!View(c)
           a == P!SetOrder(d, o, now)
<1>1. d \in P!Databases
  BY SuppliesView
<1>2. /\ a \in P!Databases /\ a.receipt = d.receipt /\ a.invoice = d.invoice
      /\ a.payment = d.payment /\ a.order[o] = now
      /\ \A q \in Orders \ {o} : a.order[q] = d.order[q]
  BY <1>1, OrderSet
<1> HIDE DEF a
<1>3. PICK b : b = [a EXCEPT !.receipt[r] = row]
  OBVIOUS
<1>4. /\ b \in P!Databases /\ b.order = a.order /\ b.invoice = a.invoice
      /\ b.payment = a.payment /\ b.receipt[r] = row
      /\ \A q \in Receipts \ {r} : b.receipt[q] = a.receipt[q]
  BY <1>2, <1>3, ReceiptSet
<1> DEFINE new == P!Refreshed(b, o)
<1>5. /\ new \in P!Databases /\ new.order = b.order /\ new.receipt = b.receipt
      /\ new.payment = b.payment
      /\ \A i \in Invoices : /\ new.invoice[i].status = b.invoice[i].status
                             /\ new.invoice[i].total = b.invoice[i].total
                             /\ new.invoice[i].paid = b.invoice[i].paid
  BY <1>4, RefreshedIs
<1>6. P!Commit(c, new)
  BY <1>3, Zenon DEF a
<1> HIDE DEF new
<1>7. /\ new.order[o] = now /\ new.receipt[r] = row /\ new.payment = d.payment
      /\ \A q \in Orders \ {o} : new.order[q] = d.order[q]
      /\ \A q \in Receipts \ {r} : new.receipt[q] = d.receipt[q]
      /\ \A i \in Invoices : /\ new.invoice[i].status = d.invoice[i].status
                             /\ new.invoice[i].total = d.invoice[i].total
                             /\ new.invoice[i].paid = d.invoice[i].paid
  BY <1>2, <1>4, <1>5
<1>8. GoodsKept(db')
  BY <1>5, <1>6, <1>7, GoodsWritten
<1>9. BillsKept(db') /\ PaymentsPay(db')
  BY <1>5, <1>6, <1>7, BillsStay DEF BillGood
<1> QED
  BY <1>5, <1>6, <1>8, <1>9, SuppliesParts

\* A quantity is a positive number.
LEMMA QuantityIs ==
  ASSUME NEW qty \in P!Quantities
  PROVE  qty \in Nat /\ qty >= 1
BY RestaurantAssumption DEF P!ProcurementAssumption, P!Quantities

\* Purchase orders are drafted, changed, approved, sent, cancelled and closed.
LEMMA SuppliesOrders ==
  ASSUME SuppliesIInv, NEW c \in P!Callers, P!Reads(c), NEW o \in Orders, P!OrderStep(c, o)
  PROVE  SuppliesIInv'
<1> DEFINE doc == P!View(c).order[o]
<1>1. doc \in P!OrderDocs
  BY SuppliesView, SuppliesRecord
<1>2. /\ doc.ordered \in Nat /\ doc.received \in Nat /\ doc.damaged \in Nat
      /\ doc.returned \in Nat /\ doc.stock \in Nat
  BY <1>1 DEF P!OrderDocs
<1>3. ASSUME NEW qty \in P!Quantities, P!CreateOrder(c, o, qty)
      PROVE  SuppliesIInv'
  <2> DEFINE new == [status |-> "draft", ordered |-> qty, received |-> 0, damaged |-> 0,
                     returned |-> 0, stock |-> 0]
  <2>1. doc.status = "absent" /\ P!Commit(c, P!SetOrder(P!View(c), o, new))
    BY <1>3, Zenon DEF P!CreateOrder
  <2>2. new \in P!OrderDocs /\ OrderGood(new)
    BY QuantityIs DEF P!OrderDocs, OrderGood
  <2>3. OrderGood(doc) => doc.received = 0 /\ doc.returned = 0
    <3> HIDE DEF doc, new
    <3> QED
      BY <1>2, <2>1 DEF OrderGood
  <2>4. new.received = 0 /\ new.returned = 0
    OBVIOUS
  <2> HIDE DEF new
  <2> QED
    BY <2>1, <2>2, <2>3, <2>4, SuppliesOrder
<1>4. ASSUME NEW qty \in P!Quantities, P!UpdateOrder(c, o, qty)
      PROVE  SuppliesIInv'
  <2>1. /\ doc.status \in {"draft", "rejected"}
        /\ P!Commit(c, P!SetOrder(P!View(c), o, [doc EXCEPT !.ordered = qty]))
    BY <1>4, Zenon DEF P!UpdateOrder
  <2> HIDE DEF doc
  <2>2. PICK new : new = [doc EXCEPT !.ordered = qty]
    OBVIOUS
  <2>3. /\ new \in P!OrderDocs /\ new.status = doc.status /\ new.received = doc.received
        /\ new.returned = doc.returned /\ new.damaged = doc.damaged /\ new.stock = doc.stock
        /\ new.ordered = qty
    BY <1>1, <2>2, QuantityIs DEF P!OrderDocs
  <2>4. OrderGood(doc) => OrderGood(new)
    BY <1>2, <2>1, <2>3, QuantityIs DEF OrderGood
  <2> QED
    BY <2>1, <2>2, <2>3, <2>4, SuppliesOrder DEF doc
<1>5. ASSUME NEW status,
             P!Commit(c, P!SetOrder(P!View(c), o, [doc EXCEPT !.status = status])),
             status \in {"pending", "approved", "rejected", "sent", "closed", "cancelled",
                         "closed_short"},
             \/ status \in {"closed", "closed_short"}
             \/ doc.received = 0
             \/ doc.status \in {"draft", "pending", "rejected", "approved", "sent"}
      PROVE  SuppliesIInv'
  <2> HIDE DEF doc
  <2>1. PICK new : new = [doc EXCEPT !.status = status]
    OBVIOUS
  <2>2. /\ new \in P!OrderDocs /\ new.status = status /\ new.received = doc.received
        /\ new.returned = doc.returned /\ new.damaged = doc.damaged /\ new.stock = doc.stock
        /\ new.ordered = doc.ordered
    BY <1>1, <1>5, <2>1 DEF P!OrderDocs
  <2>3. OrderGood(doc) => OrderGood(new)
    BY <1>2, <1>5, <2>2 DEF OrderGood
  <2> QED
    BY <1>5, <2>1, <2>2, <2>3, SuppliesOrder DEF doc
<1>6. ASSUME NEW status \in P!Statuses, P!TransitionOrder(c, o, status)
      PROVE  SuppliesIInv'
  <2>1. /\ <<doc.status, status>> \in P!PO_TRANSITIONS
        /\ P!Commit(c, P!SetOrder(P!View(c), o, [doc EXCEPT !.status = status]))
    BY <1>6, Zenon DEF P!TransitionOrder
  <2>2. \/ status = "closed"
        \/ doc.status \in {"draft", "pending", "rejected", "approved", "sent"}
    BY <2>1 DEF P!PO_TRANSITIONS
  <2>3. status \in {"pending", "approved", "rejected", "sent", "closed", "cancelled"}
    BY DEF P!Statuses
  <2> HIDE DEF doc
  <2> QED
    BY <1>5, <2>1, <2>2, <2>3
<1>7. ASSUME P!CloseShort(c, o)
      PROVE  SuppliesIInv'
  <2>1. P!Commit(c, P!SetOrder(P!View(c), o, [doc EXCEPT !.status = "closed_short"]))
    BY <1>7, Zenon DEF P!CloseShort
  <2> HIDE DEF doc
  <2> QED
    BY <1>5, <2>1
<1> QED
  BY <1>3, <1>4, <1>6, <1>7 DEF P!OrderStep

\* receivePurchaseOrder
LEMMA SuppliesReceive ==
  ASSUME SuppliesIInv, NEW c \in P!Callers, P!Reads(c), NEW o \in Orders, NEW r \in Receipts,
         NEW qty \in P!Quantities, NEW damaged \in 0..1, P!Receive(c, o, r, qty, damaged)
  PROVE  SuppliesIInv'
<1> DEFINE doc == P!View(c).order[o]
           received == doc.received + qty
           harmed == doc.damaged + damaged
           stock == doc.stock + (qty - damaged)
           status == IF received >= doc.ordered THEN "received" ELSE "partially_received"
           now == [doc EXCEPT !.received = received, !.damaged = harmed, !.stock = stock,
                              !.status = status]
           row == [order |-> o, received |-> qty, damaged |-> damaged, returned |-> 0,
                   used |-> TRUE]
<1>1. /\ doc.status \in P!RECEIVABLE_STATUSES
      /\ P!validateLine(doc, qty, damaged)
      /\ P!IsNew(P!View(c), r)
      /\ P!Commit(c, P!Refreshed([P!SetOrder(P!View(c), o, now) EXCEPT !.receipt[r] = row], o))
  BY Zenon DEF P!Receive
<1>2. doc \in P!OrderDocs
  BY SuppliesView, SuppliesRecord
<1>3. qty \in Nat /\ qty >= 1 /\ damaged \in Nat
  BY QuantityIs
<1>4. ~P!View(c).receipt[r].used
  BY <1>1 DEF P!IsNew
<1>5. row \in P!ReceiptDocs /\ row.used /\ row.order = o /\ row.received = qty
      /\ row.returned = 0
  BY <1>3 DEF P!ReceiptDocs
<1> HIDE DEF doc, row
<1>6. /\ doc.ordered \in Nat /\ doc.received \in Nat /\ doc.damaged \in Nat
      /\ doc.returned \in Nat /\ doc.stock \in Nat
  BY <1>2 DEF P!OrderDocs
<1>7. damaged <= qty /\ received <= doc.ordered
  BY <1>1, <1>3, <1>6 DEF P!validateLine, P!remainingQty, P!Minus
<1>8. received \in Nat /\ harmed \in Nat /\ stock \in Nat
      /\ status \in {"received", "partially_received"}
  BY <1>3, <1>6, <1>7
<1>9. received # doc.received
  BY <1>3, <1>6
<1>10. OrderGood(doc) => doc.returned + stock <= received - harmed
  BY <1>3, <1>6, <1>7 DEF OrderGood
<1>11. received = doc.received + qty
  OBVIOUS
<1> HIDE DEF received, harmed, stock, status
<1>12. PICK x : x = [doc EXCEPT !.received = received]
  OBVIOUS
<1>13. /\ x \in P!OrderDocs /\ x.ordered = doc.ordered /\ x.received = received
       /\ x.returned = doc.returned
  BY <1>2, <1>8, <1>12 DEF P!OrderDocs
<1>14. PICK y : y = [x EXCEPT !.damaged = harmed]
  OBVIOUS
<1>15. /\ y \in P!OrderDocs /\ y.ordered = doc.ordered /\ y.received = received
       /\ y.returned = doc.returned /\ y.damaged = harmed
  BY <1>8, <1>13, <1>14 DEF P!OrderDocs
<1>16. PICK z : z = [y EXCEPT !.stock = stock]
  OBVIOUS
<1>17. /\ z \in P!OrderDocs /\ z.ordered = doc.ordered /\ z.received = received
       /\ z.returned = doc.returned /\ z.damaged = harmed /\ z.stock = stock
  BY <1>8, <1>15, <1>16 DEF P!OrderDocs
<1>18. PICK new : new = [z EXCEPT !.status = status]
  OBVIOUS
<1>19. /\ new \in P!OrderDocs /\ new.ordered = doc.ordered /\ new.received = received
       /\ new.returned = doc.returned /\ new.damaged = harmed /\ new.stock = stock
       /\ new.status = status
  BY <1>8, <1>17, <1>18 DEF P!OrderDocs
<1>20. now = new
  BY <1>12, <1>14, <1>16, <1>18, Zenon
<1> HIDE DEF now
<1>21. OrderGood(doc) => OrderGood(new)
  BY <1>7, <1>8, <1>10, <1>19 DEF OrderGood
<1>22. now \in P!OrderDocs /\ now # doc /\ (OrderGood(doc) => OrderGood(now))
       /\ now.received = doc.received + row.received
       /\ now.returned = doc.returned + row.returned
  BY <1>5, <1>6, <1>9, <1>11, <1>19, <1>20, <1>21
<1> QED
  BY <1>1, <1>4, <1>5, <1>22, SuppliesGoods DEF doc

\* returnPurchaseOrder
LEMMA SuppliesReturn ==
  ASSUME SuppliesIInv, NEW c \in P!Callers, P!Reads(c), NEW o \in Orders, NEW r \in Receipts,
         NEW qty \in P!Quantities, P!Return(c, o, r, qty)
  PROVE  SuppliesIInv'
<1> DEFINE doc == P!View(c).order[o]
           returned == doc.returned + qty
           stock == doc.stock - qty
           now == [doc EXCEPT !.returned = returned, !.stock = stock]
           row == [order |-> o, received |-> 0, damaged |-> 0, returned |-> qty, used |-> TRUE]
<1>1. /\ P!CanReturn(doc, qty)
      /\ P!IsNew(P!View(c), r)
      /\ P!Commit(c, P!Refreshed([P!SetOrder(P!View(c), o, now) EXCEPT !.receipt[r] = row], o))
  BY Zenon DEF P!Return
<1>2. doc \in P!OrderDocs
  BY SuppliesView, SuppliesRecord
<1>3. qty \in Nat /\ qty >= 1
  BY QuantityIs
<1>4. ~P!View(c).receipt[r].used
  BY <1>1 DEF P!IsNew
<1>5. row \in P!ReceiptDocs /\ row.used /\ row.order = o /\ row.received = 0
      /\ row.returned = qty
  BY <1>3 DEF P!ReceiptDocs
<1> HIDE DEF doc, row
<1>6. /\ doc.ordered \in Nat /\ doc.received \in Nat /\ doc.damaged \in Nat
      /\ doc.returned \in Nat /\ doc.stock \in Nat
  BY <1>2 DEF P!OrderDocs
<1>7. qty <= doc.stock
  BY <1>1 DEF P!CanReturn
<1>8. returned \in Nat /\ stock \in Nat /\ returned # doc.returned
      /\ returned + stock = doc.returned + doc.stock
  BY <1>3, <1>6, <1>7
<1>9. returned = doc.returned + qty
  OBVIOUS
<1> HIDE DEF returned, stock
<1>10. PICK x : x = [doc EXCEPT !.returned = returned]
  OBVIOUS
<1>11. /\ x \in P!OrderDocs /\ x.ordered = doc.ordered /\ x.received = doc.received
       /\ x.returned = returned /\ x.damaged = doc.damaged /\ x.status = doc.status
  BY <1>2, <1>8, <1>10 DEF P!OrderDocs
<1>12. PICK new : new = [x EXCEPT !.stock = stock]
  OBVIOUS
<1>13. /\ new \in P!OrderDocs /\ new.ordered = doc.ordered /\ new.received = doc.received
       /\ new.returned = returned /\ new.damaged = doc.damaged /\ new.status = doc.status
       /\ new.stock = stock
  BY <1>8, <1>11, <1>12 DEF P!OrderDocs
<1>14. now = new
  BY <1>10, <1>12, Zenon
<1> HIDE DEF now
<1>15. OrderGood(doc) => OrderGood(new)
  BY <1>8, <1>13 DEF OrderGood
<1>16. now \in P!OrderDocs /\ now # doc /\ (OrderGood(doc) => OrderGood(now))
       /\ now.received = doc.received + row.received
       /\ now.returned = doc.returned + row.returned
  BY <1>5, <1>6, <1>8, <1>9, <1>13, <1>14, <1>15
<1> QED
  BY <1>1, <1>4, <1>5, <1>16, SuppliesGoods DEF doc

\* Goods come, are used up, and go back.
LEMMA SuppliesGoodsStep ==
  ASSUME SuppliesIInv, NEW c \in P!Callers, P!Reads(c), NEW o \in Orders, P!GoodsStep(c, o)
  PROVE  SuppliesIInv'
<1>1. CASE P!Consume(c, o)
  <2> DEFINE doc == P!View(c).order[o]
             stock == doc.stock - 1
  <2>1. /\ doc.stock > 0
        /\ P!Commit(c, P!SetOrder(P!View(c), o, [doc EXCEPT !.stock = stock]))
    BY <1>1, Zenon DEF P!Consume
  <2>2. doc \in P!OrderDocs
    BY SuppliesView, SuppliesRecord
  <2> HIDE DEF doc
  <2>3. /\ doc.ordered \in Nat /\ doc.received \in Nat /\ doc.damaged \in Nat
        /\ doc.returned \in Nat /\ doc.stock \in Nat
    BY <2>2 DEF P!OrderDocs
  <2>4. stock \in Nat /\ stock <= doc.stock
    BY <2>1, <2>3
  <2> HIDE DEF stock
  <2>5. PICK new : new = [doc EXCEPT !.stock = stock]
    OBVIOUS
  <2>6. /\ new \in P!OrderDocs /\ new.ordered = doc.ordered /\ new.received = doc.received
        /\ new.returned = doc.returned /\ new.damaged = doc.damaged
        /\ new.status = doc.status /\ new.stock = stock
    BY <2>2, <2>4, <2>5 DEF P!OrderDocs
  <2>7. OrderGood(doc) => OrderGood(new)
    BY <2>3, <2>4, <2>6 DEF OrderGood
  <2> QED
    BY <2>1, <2>5, <2>6, <2>7, SuppliesOrder DEF doc
<1> QED
  BY <1>1, SuppliesReceive, SuppliesReturn DEF P!GoodsStep

\* A commit of invoices alone.
LEMMA SuppliesBills ==
  ASSUME SuppliesIInv, NEW c \in P!Callers, P!Reads(c), NEW new \in P!Databases,
         P!Commit(c, new), new.order = P!View(c).order, new.receipt = P!View(c).receipt,
         new.payment = P!View(c).payment,
         \A i \in Invoices :
            BillGood(P!View(c).invoice[i])
               => /\ BillGood(new.invoice[i])
                  /\ new.invoice[i].paid = P!View(c).invoice[i].paid
  PROVE  SuppliesIInv'
<1>1. BillsKept(db') /\ PaymentsPay(db')
  BY BillsStay
<1>2. GoodsKept(db')
  BY GoodsStay
<1> QED
  BY <1>1, <1>2, SuppliesParts

\* An invoice is replaced, and its order's are matched again.
LEMMA SuppliesMatched ==
  ASSUME SuppliesIInv, NEW c \in P!Callers, P!Reads(c), NEW i \in Invoices, NEW o,
         NEW bill \in P!InvoiceDocs,
         P!Commit(c, P!Refreshed([P!View(c) EXCEPT !.invoice[i] = bill], o)),
         BillGood(P!View(c).invoice[i])
            => BillGood(bill) /\ bill.paid = P!View(c).invoice[i].paid
  PROVE  SuppliesIInv'
<1> DEFINE d == P!View(c)
<1>1. d \in P!Databases
  BY SuppliesView
<1>2. PICK a : a = [d EXCEPT !.invoice[i] = bill]
  OBVIOUS
<1>3. P!Commit(c, P!Refreshed(a, o))
  BY <1>2, Zenon
<1> HIDE DEF d
<1>4. /\ a \in P!Databases /\ a.order = d.order /\ a.receipt = d.receipt
      /\ a.payment = d.payment /\ a.invoice[i] = bill
      /\ \A k \in Invoices \ {i} : a.invoice[k] = d.invoice[k]
  BY <1>1, <1>2, InvoiceSet
<1> DEFINE new == P!Refreshed(a, o)
<1>5. /\ new \in P!Databases /\ new.order = d.order /\ new.receipt = d.receipt
      /\ new.payment = d.payment
      /\ \A k \in Invoices : /\ new.invoice[k].status = a.invoice[k].status
                             /\ new.invoice[k].total = a.invoice[k].total
                             /\ new.invoice[k].paid = a.invoice[k].paid
  BY <1>4, RefreshedIs
<1>6. P!Commit(c, new)
  BY <1>3
<1> HIDE DEF new
<1>7. ASSUME NEW k \in Invoices, BillGood(d.invoice[k])
      PROVE  BillGood(new.invoice[k]) /\ new.invoice[k].paid = d.invoice[k].paid
  <2>1. CASE k = i
    BY <1>4, <1>5, <1>7, <2>1 DEF BillGood, d
  <2>2. CASE k # i
    BY <1>4, <1>5, <1>7, <2>2 DEF BillGood
  <2> QED
    BY <2>1, <2>2
<1> QED
  BY <1>5, <1>6, <1>7, SuppliesBills DEF d

\* Supplier invoices are created, changed and voided.
LEMMA SuppliesInvoices ==
  ASSUME SuppliesIInv, NEW c \in P!Callers, P!Reads(c), NEW i \in Invoices,
         P!InvoiceStep(c, i)
  PROVE  SuppliesIInv'
<1> DEFINE d == P!View(c)
           bill == d.invoice[i]
<1>1. d \in P!Databases /\ bill \in P!InvoiceDocs
  BY SuppliesView, SuppliesRecord
<1>2. ~P!HasPayments(d, i) => ~(bill.paid > 0)
  BY DEF P!HasPayments
<1>3. bill.paid \in Nat /\ bill.total \in Nat
  BY <1>1 DEF P!InvoiceDocs
<1>4. ASSUME NEW o \in Orders, NEW total \in P!Quantities, P!CreateInvoice(c, i, o, total)
      PROVE  SuppliesIInv'
  <2> DEFINE match == P!Matching(d, o, total, Invoices \ {i})
             row == [status |-> "unpaid", order |-> o, total |-> total, paid |-> 0,
                     match |-> match]
             new == [d EXCEPT !.invoice[i] = row]
  <2>1. bill.status = "absent" /\ P!Commit(c, new)
    BY <1>4, Zenon DEF P!CreateInvoice
  <2>2. match \in {"awaiting_receipt", "over_billed", "matched", "partial"}
    BY DEF P!Matching
  <2> HIDE DEF match
  <2>3. row \in P!InvoiceDocs /\ BillGood(row) /\ row.paid = 0
    BY <2>2, QuantityIs DEF P!InvoiceDocs, BillGood
  <2>4. BillGood(bill) => bill.paid = 0
    BY <2>1 DEF BillGood
  <2> HIDE DEF d, row
  <2>5. /\ new \in P!Databases /\ new.order = d.order /\ new.receipt = d.receipt
        /\ new.payment = d.payment /\ new.invoice[i] = row
        /\ \A k \in Invoices \ {i} : new.invoice[k] = d.invoice[k]
    BY <1>1, <2>3, InvoiceSet
  <2> HIDE DEF new
  <2>6. \A k \in Invoices :
           BillGood(d.invoice[k])
             => BillGood(new.invoice[k]) /\ new.invoice[k].paid = d.invoice[k].paid
    BY <2>3, <2>4, <2>5
  <2> QED
    BY <2>1, <2>5, <2>6, SuppliesBills DEF d
<1>5. ASSUME NEW total \in P!Quantities, P!UpdateInvoice(c, i, total)
      PROVE  SuppliesIInv'
  <2>1. /\ bill.status \notin {"absent", "void"} /\ ~P!HasPayments(d, i)
        /\ P!Commit(c, P!Refreshed([d EXCEPT !.invoice[i].total = total], bill.order))
    BY <1>5, Zenon DEF P!UpdateInvoice
  <2> HIDE DEF bill
  <2>2. PICK new : new = [bill EXCEPT !.total = total]
    OBVIOUS
  <2>3. new \in P!InvoiceDocs /\ new.paid = bill.paid /\ new.total = total
        /\ new.status = bill.status
    BY <1>1, <2>2, QuantityIs DEF P!InvoiceDocs
  <2>4. BillGood(new)
    BY <1>2, <1>3, <2>1, <2>3, QuantityIs DEF BillGood
  <2>5. P!Commit(c, P!Refreshed([d EXCEPT !.invoice[i] = new], bill.order))
    BY <2>1, <2>2, Zenon DEF bill
  <2> QED
    BY <2>3, <2>4, <2>5, SuppliesMatched DEF bill
<1>6. ASSUME P!VoidInvoice(c, i)
      PROVE  SuppliesIInv'
  <2>1. /\ ~P!HasPayments(d, i)
        /\ P!Commit(c, P!Refreshed([d EXCEPT !.invoice[i].status = "void"], bill.order))
    BY <1>6, Zenon DEF P!VoidInvoice
  <2> HIDE DEF bill
  <2>2. PICK new : new = [bill EXCEPT !.status = "void"]
    OBVIOUS
  <2>3. new \in P!InvoiceDocs /\ new.paid = bill.paid /\ new.total = bill.total
        /\ new.status = "void"
    BY <1>1, <2>2 DEF P!InvoiceDocs
  <2>4. BillGood(new)
    BY <1>2, <1>3, <2>1, <2>3 DEF BillGood
  <2>5. P!Commit(c, P!Refreshed([d EXCEPT !.invoice[i] = new], bill.order))
    BY <2>1, <2>2, Zenon DEF bill
  <2> QED
    BY <2>3, <2>4, <2>5, SuppliesMatched DEF bill
<1> QED
  BY <1>4, <1>5, <1>6 DEF P!InvoiceStep

\* What a payment gives as long as it stands.
Gives(row) == IF row.status = "posted" THEN row.amount ELSE 0

\* A commit of a payment and of its invoice, whose paidAmount follows it.
LEMMA SuppliesPaid ==
  ASSUME SuppliesIInv, NEW c \in P!Callers, P!Reads(c), NEW i \in Invoices, NEW p \in Payments,
         NEW new \in P!Databases, P!Commit(c, new),
         new.order = P!View(c).order, new.receipt = P!View(c).receipt,
         new.payment[p] # P!View(c).payment[p], new.invoice[i] # P!View(c).invoice[i],
         \A q \in Payments \ {p} : new.payment[q] = P!View(c).payment[q],
         \A k \in Invoices \ {i} : new.invoice[k] = P!View(c).invoice[k],
         BillGood(P!View(c).invoice[i]) => BillGood(new.invoice[i]),
         new.payment[p].invoice = i,
         new.payment[p].status = "posted" => new.payment[p].amount > 0,
         P!View(c).payment[p].status = "posted" => P!View(c).payment[p].invoice = i,
         new.invoice[i].paid = P!View(c).invoice[i].paid + Gives(new.payment[p])
                                 - Gives(P!View(c).payment[p])
  PROVE  SuppliesIInv'
<1> DEFINE d == P!View(c)
           old == d.payment[p]
           row == new.payment[p]
           bill == new.invoice[i]
<1>1. row \in P!PaymentDocs /\ bill \in P!InvoiceDocs
  BY SuppliesRecord
<1>2. GoodsKept(db')
  BY GoodsStay
<1>3. /\ db'.payment[p] = row /\ db.payment[p] = old
      /\ db'.invoice[i] = bill /\ db.invoice[i] = d.invoice[i]
      /\ \A q \in Payments \ {p} : db'.payment[q] = db.payment[q]
      /\ \A k \in Invoices \ {i} : db'.invoice[k] = db.invoice[k]
  BY SuppliesCommit
<1>4. BillsKept(db) /\ PaymentsPay(db) /\ db \in P!Databases
  BY DEF SuppliesIInv
<1>5. /\ old.status = "posted" => old.invoice = i
      /\ row.invoice = i
      /\ row.status = "posted" => row.amount > 0
      /\ bill.paid = d.invoice[i].paid + Gives(row) - Gives(old)
      /\ BillGood(d.invoice[i]) => BillGood(bill)
  OBVIOUS
<1> HIDE DEF d, old, row, bill
<1>6. PaymentsPay(db')
  BY <1>3, <1>4, <1>5 DEF PaymentsPay
<1>7. \A q \in Payments : db.payment[q] \in P!PaymentDocs
  BY <1>4, SuppliesRecord
<1>8. Gives(row) \in Nat /\ Gives(old) \in Nat
  BY <1>1, <1>3, <1>7 DEF Gives, P!PaymentDocs
<1>9. \A k \in Invoices \ {i} : PaidBy(db', k) = PaidBy(db, k)
  <2> SUFFICES ASSUME NEW k \in Invoices \ {i}
               PROVE  PaidBy(db', k) = PaidBy(db, k)
    OBVIOUS
  <2>1. PaidBy(db', k)[p] = 0 /\ PaidBy(db, k)[p] = 0
    BY <1>3, <1>5 DEF PaidBy
  <2>2. \A q \in Payments \ {p} : PaidBy(db', k)[q] = PaidBy(db, k)[q]
    BY <1>3 DEF PaidBy
  <2>3. PaidBy(db', k) = [q \in Payments |-> PaidBy(db', k)[q]]
        /\ PaidBy(db, k) = [q \in Payments |-> PaidBy(db, k)[q]]
    BY DEF PaidBy
  <2> QED
    BY <2>1, <2>2, <2>3
<1>10. SumFunctionOnSet(PaidBy(db', i), Payments)
         = SumFunctionOnSet(PaidBy(db, i), Payments) + Gives(row) - Gives(old)
  <2>1. PICK f, g : f = PaidBy(db, i) /\ g = PaidBy(db', i)
    OBVIOUS
  <2>2. f[p] = Gives(old) /\ g[p] = Gives(row)
    BY <1>3, <1>5, <2>1 DEF PaidBy, Gives
  <2>3. \A q \in Payments : f[q] \in Nat
    BY <1>7, <2>1 DEF PaidBy, P!PaymentDocs
  <2>4. \A q \in Payments \ {p} : g[q] = f[q]
    BY <1>3, <2>1 DEF PaidBy
  <2>5. IsFiniteSet(Payments)
    BY RestaurantAssumption DEF P!ProcurementAssumption, P!IsFiniteSet, IsFiniteSet
  <2>6. SumFunctionOnSet(g, Payments) = SumFunctionOnSet(f, Payments) + g[p] - f[p]
    BY <1>8, <2>2, <2>3, <2>4, <2>5, SumMoves
  <2> QED
    BY <2>1, <2>2, <2>6
<1>11. BillGood(bill) /\ bill.paid = SumFunctionOnSet(PaidBy(db', i), Payments)
  BY <1>3, <1>4, <1>5, <1>10 DEF BillsKept
<1>12. BillsKept(db')
  BY <1>3, <1>4, <1>9, <1>11 DEF BillsKept
<1> QED
  BY <1>2, <1>6, <1>12, SuppliesParts

\* The invoice after its payments changed.
LEMMA PaidUpIs ==
  ASSUME NEW doc \in P!InvoiceDocs, NEW paid \in Nat
  PROVE  /\ P!PaidUp(doc, paid) \in P!InvoiceDocs
         /\ P!PaidUp(doc, paid).paid = paid /\ P!PaidUp(doc, paid).total = doc.total
         /\ P!PaidUp(doc, paid).status \notin {"absent", "void"}
<1> DEFINE status == P!invoicePaymentStatus(paid, doc.total)
<1>1. status \in {"unpaid", "paid", "partial"}
  BY DEF P!invoicePaymentStatus
<1>2. P!PaidUp(doc, paid) = [doc EXCEPT !.paid = paid, !.status = status]
  BY Zenon DEF P!PaidUp
<1> HIDE DEF status
<1>3. PICK a : a = [doc EXCEPT !.paid = paid]
  OBVIOUS
<1>4. a \in P!InvoiceDocs /\ a.paid = paid /\ a.total = doc.total
  BY <1>3 DEF P!InvoiceDocs
<1>5. PICK b : b = [a EXCEPT !.status = status]
  OBVIOUS
<1>6. b \in P!InvoiceDocs /\ b.paid = paid /\ b.total = doc.total /\ b.status = status
  BY <1>1, <1>4, <1>5 DEF P!InvoiceDocs
<1>7. P!PaidUp(doc, paid) = b
  BY <1>2, <1>3, <1>5, Zenon
<1> QED
  BY <1>1, <1>6, <1>7

\* createSupplierPayment
LEMMA SuppliesPays ==
  ASSUME SuppliesIInv, NEW c \in P!Callers, P!Reads(c), NEW p \in Payments,
         NEW i \in Invoices, NEW amount \in P!Quantities, P!PayInvoice(c, i, p, amount)
  PROVE  SuppliesIInv'
<1> DEFINE d == P!View(c)
           paid == P!ActiveTotal(d, i)
           row == [status |-> "posted", invoice |-> i, amount |-> amount]
           bill == P!PaidUp(d.invoice[i], paid + amount)
<1>1. /\ d.payment[p].status = "absent"
      /\ d.invoice[i].paid = paid
      /\ amount <= P!Minus(d.invoice[i].total, paid)
      /\ P!Commit(c, [d EXCEPT !.payment[p] = row, !.invoice[i] = P!PaidUp(@, paid + amount)])
  BY Zenon DEF P!PayInvoice
<1>2. d \in P!Databases /\ d.invoice[i] \in P!InvoiceDocs
  BY SuppliesView, SuppliesRecord
<1> HIDE DEF d, paid
<1>3. /\ paid \in Nat /\ d.invoice[i].total \in Nat
      /\ amount \in Nat /\ amount >= 1
  BY <1>1, <1>2, QuantityIs DEF P!InvoiceDocs
<1>4. paid + amount \in Nat /\ paid + amount <= d.invoice[i].total
  BY <1>1, <1>3 DEF P!Minus
<1>5. /\ bill \in P!InvoiceDocs /\ bill.paid = paid + amount
      /\ bill.total = d.invoice[i].total /\ bill.status \notin {"absent", "void"}
  BY <1>2, <1>4, PaidUpIs
<1>6. row \in P!PaymentDocs
  BY <1>3 DEF P!PaymentDocs
<1>7. Gives(row) = amount /\ Gives(d.payment[p]) = 0
  BY <1>1 DEF Gives
<1>8. row.status = "posted" /\ row.invoice = i /\ row.amount = amount
  OBVIOUS
<1> HIDE DEF row
<1>9. PICK a : a = [d EXCEPT !.payment[p] = row]
  OBVIOUS
<1>10. /\ a \in P!Databases /\ a.order = d.order /\ a.receipt = d.receipt
       /\ a.invoice = d.invoice /\ a.payment[p] = row
       /\ \A q \in Payments \ {p} : a.payment[q] = d.payment[q]
  BY <1>2, <1>6, <1>9, PaymentSet
<1>11. PICK new : new = [a EXCEPT !.invoice[i] = bill]
  OBVIOUS
<1>12. P!Commit(c, new)
  <2>1. [d EXCEPT !.payment[p] = row, !.invoice[i] = P!PaidUp(@, paid + amount)]
          = [a EXCEPT !.invoice[i] = P!PaidUp(a.invoice[i], paid + amount)]
    BY <1>9, Zenon
  <2> QED
    BY <1>1, <1>10, <1>11, <2>1, Zenon
<1> HIDE DEF bill
<1>13. /\ new \in P!Databases /\ new.order = a.order /\ new.receipt = a.receipt
       /\ new.payment = a.payment /\ new.invoice[i] = bill
       /\ \A k \in Invoices \ {i} : new.invoice[k] = a.invoice[k]
  BY <1>5, <1>10, <1>11, InvoiceSet
<1>14. BillGood(bill) /\ bill # d.invoice[i]
  BY <1>1, <1>3, <1>4, <1>5 DEF BillGood
<1>15. bill.paid = d.invoice[i].paid + Gives(row) - Gives(d.payment[p])
  BY <1>1, <1>3, <1>5, <1>7
<1>16. row # d.payment[p] /\ d.payment[p].status # "posted"
  BY <1>1, <1>8
<1> QED
  BY <1>3, <1>8, <1>10, <1>12, <1>13, <1>14, <1>15, <1>16, SuppliesPaid DEF d

\* reverseSupplierPayment
LEMMA SuppliesReverses ==
  ASSUME SuppliesIInv, NEW c \in P!Callers, P!Reads(c), NEW p \in Payments,
         P!ReversePayment(c, p)
  PROVE  SuppliesIInv'
<1> DEFINE d == P!View(c)
           old == d.payment[p]
           i == old.invoice
           paid == P!ActiveTotal(d, i)
           left == P!PaidWithout(paid, old.amount)
           bill == P!PaidUp(d.invoice[i], left)
<1>1. /\ old.status = "posted"
      /\ d.invoice[i].paid = paid
      /\ P!Commit(c, [d EXCEPT !.payment[p].status = "reversed",
                               !.invoice[i] = P!PaidUp(@, left)])
  BY Zenon DEF P!ReversePayment
<1>2. d \in P!Databases /\ PaymentsPay(d)
  BY SuppliesView
<1> HIDE DEF d
<1>3. old \in P!PaymentDocs /\ \A q \in Payments : d.payment[q] \in P!PaymentDocs
  BY <1>2, SuppliesRecord
<1>4. i \in Invoices /\ old.amount \in Nat /\ old.amount > 0
  BY <1>1, <1>2, <1>3 DEF P!PaymentDocs, PaymentsPay
<1>5. d.invoice[i] \in P!InvoiceDocs
  BY <1>2, <1>4, SuppliesRecord
<1>6. paid \in Nat /\ old.amount <= paid
  <2>1. PICK f : f = PaidBy(d, i)
    OBVIOUS
  <2>2. paid = SumFunctionOnSet(f, Payments)
    BY <1>2, <1>4, <2>1, ActiveIs
  <2>3. \A q \in Payments : f[q] \in Nat
    BY <1>3, <2>1 DEF PaidBy, P!PaymentDocs
  <2>4. f[p] = old.amount
    BY <1>1, <2>1 DEF PaidBy
  <2>5. IsFiniteSet(Payments)
    BY RestaurantAssumption DEF P!ProcurementAssumption, P!IsFiniteSet, IsFiniteSet
  <2>6. SumFunctionOnSet(f, Payments) = f[p] + SumFunctionOnSet(f, Payments \ {p})
    BY <2>3, <2>5, SumRemove
  <2>7. SumFunctionOnSet(f, Payments \ {p}) \in Nat
    BY <2>3, <2>5, SumGrows
  <2> HIDE DEF old, paid, i
  <2> QED
    BY <1>4, <2>2, <2>4, <2>6, <2>7
<1> HIDE DEF old, i, paid
<1>7. left \in Nat /\ left = paid - old.amount
  BY <1>4, <1>6 DEF P!PaidWithout, P!Minus
<1> HIDE DEF left
<1>8. /\ bill \in P!InvoiceDocs /\ bill.paid = left
      /\ bill.total = d.invoice[i].total /\ bill.status \notin {"absent", "void"}
  BY <1>5, <1>7, PaidUpIs
<1>9. PICK row : row = [old EXCEPT !.status = "reversed"]
  OBVIOUS
<1>10. row \in P!PaymentDocs /\ row.status = "reversed" /\ row.invoice = i
  BY <1>3, <1>9 DEF P!PaymentDocs, i
<1>11. PICK a : a = [d EXCEPT !.payment[p] = row]
  OBVIOUS
<1>12. /\ a \in P!Databases /\ a.order = d.order /\ a.receipt = d.receipt
       /\ a.invoice = d.invoice /\ a.payment[p] = row
       /\ \A q \in Payments \ {p} : a.payment[q] = d.payment[q]
  BY <1>2, <1>10, <1>11, PaymentSet
<1>13. PICK new : new = [a EXCEPT !.invoice[i] = bill]
  OBVIOUS
<1>14. P!Commit(c, new)
  <2>1. a = [d EXCEPT !.payment[p].status = "reversed"]
    BY <1>9, <1>11, Zenon DEF old
  <2>2. [d EXCEPT !.payment[p].status = "reversed", !.invoice[i] = P!PaidUp(@, left)]
          = [a EXCEPT !.invoice[i] = P!PaidUp(a.invoice[i], left)]
    BY <2>1, Zenon
  <2> QED
    BY <1>1, <1>12, <1>13, <2>2, Zenon
<1> HIDE DEF bill
<1>15. /\ new \in P!Databases /\ new.order = a.order /\ new.receipt = a.receipt
       /\ new.payment = a.payment /\ new.invoice[i] = bill
       /\ \A k \in Invoices \ {i} : new.invoice[k] = a.invoice[k]
  BY <1>4, <1>8, <1>12, <1>13, InvoiceSet
<1>16. Gives(row) = 0 /\ Gives(old) = old.amount
  BY <1>1, <1>10 DEF Gives
<1>17. d.invoice[i].paid \in Nat /\ d.invoice[i].total \in Nat
  BY <1>5 DEF P!InvoiceDocs
<1>18. bill # d.invoice[i] /\ (BillGood(d.invoice[i]) => BillGood(bill))
  BY <1>1, <1>4, <1>6, <1>7, <1>8, <1>17 DEF BillGood
<1>19. bill.paid = d.invoice[i].paid + Gives(row) - Gives(old)
  BY <1>1, <1>4, <1>6, <1>7, <1>8, <1>16
<1>20. row # old /\ old.invoice = i
  BY <1>1, <1>10 DEF i
<1> QED
  BY <1>4, <1>10, <1>12, <1>14, <1>15, <1>18, <1>19, <1>20, SuppliesPaid DEF d, old

\* Every step of buyers, goods and the supplier's money keeps the invariant.
LEMMA SuppliesStep ==
  ASSUME SuppliesIInv, P!Next \/ UNCHANGED <<db, snap, behind>>
  PROVE  SuppliesIInv'
<1>1. CASE UNCHANGED <<db, snap, behind>>
  BY <1>1 DEF SuppliesIInv, Tracked, AsRead, Alike, GoodsKept, BillsKept, PaymentsPay, Came,
     Went, PaidBy
<1>2. ASSUME NEW c \in Clients, P!Begin(c) \/ P!Refused(c)
      PROVE  SuppliesIInv'
  <2>1. V!Begin(c) \/ V!End(c)
    BY <1>2, SuppliesSnapshots DEF P!Refused
  <2>2. db' = db /\ Tracked'
    BY <2>1, TrackedBegin, TrackedEnd DEF V!Begin, V!End, SuppliesIInv
  <2>3. snap' \in [Clients -> P!Databases \cup {NoSnapshot}]
    BY <2>1 DEF SuppliesIInv, V!Begin, V!End, V!Ended
  <2>4. \A q \in Clients : snap'[q] # NoSnapshot => snap'[q] = snap[q] \/ snap'[q] = db
    BY <2>1 DEF SuppliesIInv, V!Begin, V!End, V!Ended
  <2>5. \A q \in Clients : snap'[q] # NoSnapshot => PaymentsPay(snap'[q])
    BY <2>3, <2>4 DEF SuppliesIInv
  <2>6. GoodsKept(db') /\ BillsKept(db') /\ PaymentsPay(db')
    BY <2>2 DEF SuppliesIInv
  <2>7. /\ GoodsKept(db)' /\ BillsKept(db)' /\ PaymentsPay(db)'
        /\ \A q \in Clients : snap'[q] # NoSnapshot => PaymentsPay(snap[q])'
    BY <2>5, <2>6 DEF PaymentsPay
  <2>8. db' \in P!Databases
    BY <2>2 DEF SuppliesIInv
  <2> QED
    BY <2>2, <2>3, <2>7, <2>8 DEF SuppliesIInv
<1>3. ASSUME NEW c \in P!Callers, P!Reads(c), NEW p \in Payments, P!PaymentStep(c, p)
      PROVE  SuppliesIInv'
  BY <1>3, SuppliesPays, SuppliesReverses DEF P!PaymentStep
<1> QED
  BY <1>1, <1>2, <1>3, SuppliesOrders, SuppliesGoodsStep, SuppliesInvoices DEF P!Next

\* Nothing is ordered at first, and nothing billed.
LEMMA SuppliesInit ==
  ASSUME P!Init
  PROVE  SuppliesIInv
<1>1. (CHOOSE o \in Orders : TRUE) \in Orders /\ (CHOOSE i \in Invoices : TRUE) \in Invoices
  BY RestaurantAssumption DEF P!ProcurementAssumption
<1>2. PICK o \in Orders, i \in Invoices :
        o = (CHOOSE x \in Orders : TRUE) /\ i = (CHOOSE x \in Invoices : TRUE)
  BY <1>1
<1>3. /\ db = [order |-> [q \in Orders |->
                  [status |-> "absent", ordered |-> 0, received |-> 0, damaged |-> 0,
                   returned |-> 0, stock |-> 0]],
               receipt |-> [r \in Receipts |->
                  [order |-> o, received |-> 0, damaged |-> 0, returned |-> 0, used |-> FALSE]],
               invoice |-> [k \in Invoices |->
                  [status |-> "absent", order |-> o, total |-> 0, paid |-> 0,
                   match |-> "awaiting_receipt"]],
               payment |-> [p \in Payments |->
                  [status |-> "absent", invoice |-> i, amount |-> 0]]]
      /\ snap = [c \in Clients |-> NoSnapshot] /\ behind = [c \in Clients |-> {}]
  BY <1>2 DEF P!Init, P!OutsideTransactions
<1>4. db \in P!Databases
  <2>1. db.order \in [Orders -> P!OrderDocs]
    BY <1>3 DEF P!OrderDocs
  <2>2. db.receipt \in [Receipts -> P!ReceiptDocs]
    BY <1>3 DEF P!ReceiptDocs
  <2>3. db.invoice \in [Invoices -> P!InvoiceDocs]
    BY <1>3 DEF P!InvoiceDocs
  <2>4. db.payment \in [Payments -> P!PaymentDocs]
    BY <1>3 DEF P!PaymentDocs
  <2>5. db = [order |-> db.order, receipt |-> db.receipt, invoice |-> db.invoice,
              payment |-> db.payment]
    BY <1>3
  <2> QED
    BY <2>1, <2>2, <2>3, <2>4, <2>5 DEF P!Databases
<1>5. /\ Tracked /\ PaymentsPay(db) /\ \A c \in Clients : snap[c] = NoSnapshot
      /\ snap \in [Clients -> P!Databases \cup {NoSnapshot}]
  BY <1>3 DEF Tracked, PaymentsPay
<1>6. IsFiniteSet(Receipts) /\ IsFiniteSet(Payments)
  BY RestaurantAssumption DEF P!ProcurementAssumption, P!IsFiniteSet, IsFiniteSet
<1>7. GoodsKept(db)
  <2>1. ASSUME NEW q \in Orders
        PROVE  /\ SumFunctionOnSet(Came(db, q), Receipts) = 0
               /\ SumFunctionOnSet(Went(db, q), Receipts) = 0
    <3>1. \A r \in Receipts : Came(db, q)[r] = 0 /\ Went(db, q)[r] = 0
      BY <1>3 DEF Came, Went
    <3> QED
      BY <1>6, <3>1, SumZero
  <2>2. \A q \in Orders : /\ OrderGood(db.order[q]) /\ db.order[q].received = 0
                          /\ db.order[q].returned = 0
    BY <1>3 DEF OrderGood
  <2>3. \A r \in Receipts : db.receipt[r].received = 0 /\ db.receipt[r].returned = 0
    BY <1>3
  <2> QED
    BY <2>1, <2>2, <2>3 DEF GoodsKept
<1>8. BillsKept(db)
  <2>1. ASSUME NEW k \in Invoices
        PROVE  SumFunctionOnSet(PaidBy(db, k), Payments) = 0
    <3>1. \A p \in Payments : PaidBy(db, k)[p] = 0
      BY <1>3 DEF PaidBy
    <3> QED
      BY <1>6, <3>1, SumZero
  <2>2. \A k \in Invoices : BillGood(db.invoice[k]) /\ db.invoice[k].paid = 0
    BY <1>3 DEF BillGood
  <2> QED
    BY <2>1, <2>2 DEF BillsKept
<1> QED
  BY <1>4, <1>5, <1>7, <1>8 DEF SuppliesIInv

\* receiving.js, returns.js, invoices.js and supplierPayments.js: however many requests
\* overlap, no more of an order comes in than was ordered and no more goes back than was
\* accepted and is there, and an invoice's paidAmount is what its posted payments add up to,
\* never more than its total.
THEOREM SuppliesTheorem == Spec => []SuppliesAccounted
<1> DEFINE IInv == part = "purchasing" => SuppliesIInv
<1>1. Init => IInv
  BY SuppliesInit DEF Init
<1>2. ASSUME IInv, [Next]_vars
      PROVE  IInv'
  <2>1. part' = part
    BY <1>2 DEF Next, vars
  <2>2. part = "purchasing" => P!Next \/ UNCHANGED <<db, snap, behind>>
    BY <1>2 DEF Next, vars
  <2> QED
    BY <1>2, <2>1, <2>2, SuppliesStep
<1>3. IInv => SuppliesAccounted
  BY SuppliesKept DEF SuppliesAccounted
<1> QED
  BY <1>1, <1>2, <1>3, PTL DEF Spec

-------------------------------------------------------------------------------
(* Alerts about low stock.                                                 *)

\* A commit replaces the documents that the callback changed.
LEMMA CommitSets ==
  ASSUME NEW c, NEW new, Alike(new, db), Alike(V!View(c), db), V!Commit(c, new)
  PROVE  /\ Alike(db', db)
         /\ \A coll \in DOMAIN db : \A doc \in DOMAIN db[coll] :
               db'[coll][doc] = IF new[coll][doc] = V!View(c)[coll][doc]
                                THEN db[coll][doc] ELSE new[coll][doc]
<1> DEFINE read == V!View(c)
           docs == V!Written(read, new)
<1>1. db' = [coll \in DOMAIN db |-> [doc \in DOMAIN db[coll] |->
                IF <<coll, doc>> \in docs THEN new[coll][doc] ELSE db[coll][doc]]]
  BY Zenon DEF V!Commit
<1> HIDE DEF read
<1>2. \A coll \in DOMAIN db : \A doc \in DOMAIN db[coll] :
          <<coll, doc>> \in docs <=> new[coll][doc] # read[coll][doc]
  <2> SUFFICES ASSUME NEW coll \in DOMAIN db, NEW doc \in DOMAIN db[coll]
               PROVE  <<coll, doc>> \in docs <=> new[coll][doc] # read[coll][doc]
    OBVIOUS
  <2>1. coll \in DOMAIN new /\ doc \in DOMAIN new[coll]
    BY DEF Alike
  <2> QED
    BY <2>1, WrittenIs
<1> HIDE DEF docs
<1> QED
  BY <1>1, <1>2 DEF Alike, read

\* A save sets the fields that it changed, whatever they are by now.
LEMMA SaveSets ==
  ASSUME NEW c, NEW new, V!Save(c, new)
  PROVE  /\ Alike(db', db)
         /\ \A coll \in DOMAIN db : \A doc \in DOMAIN db[coll] :
               db'[coll][doc] = IF new[coll][doc] = V!View(c)[coll][doc] THEN db[coll][doc]
                                ELSE [field \in DOMAIN db[coll][doc] |->
                                         IF new[coll][doc][field]
                                              # V!View(c)[coll][doc][field]
                                         THEN new[coll][doc][field]
                                         ELSE db[coll][doc][field]]
<1> DEFINE read == V!View(c)
<1>1. db' = [coll \in DOMAIN db |-> [doc \in DOMAIN db[coll] |->
                IF new[coll][doc] = read[coll][doc] THEN db[coll][doc]
                ELSE [field \in DOMAIN db[coll][doc] |->
                         IF new[coll][doc][field] # read[coll][doc][field]
                         THEN new[coll][doc][field] ELSE db[coll][doc][field]]]]
  BY Zenon DEF V!Save
<1> HIDE DEF read
<1> QED
  BY <1>1 DEF Alike, read

\* The documents' shapes are all that is needed.
AlertsIInv ==
    /\ db \in A!Databases
    /\ snap \in [Clients -> A!Databases \cup {NoSnapshot}]

\* The transactions, saves and updates are those of Snapshots.
LEMMA AlertsSnapshots ==
  /\ \A c : A!View(c) = V!View(c) /\ (A!Reads(c) <=> V!Reads(c))
  /\ \A c : (A!Begin(c) <=> V!Begin(c)) /\ (A!End(c) <=> V!End(c)) /\ A!Ended(c) = V!Ended(c)
  /\ \A c, docs : A!Overtaken(c, docs) = V!Overtaken(c, docs)
  /\ \A old, new : A!Written(old, new) = V!Written(old, new)
  /\ \A c, new : A!Commit(c, new) <=> V!Commit(c, new)
  /\ \A c, new : A!Save(c, new) <=> V!Save(c, new)
  /\ A!Callers = V!Callers
<1>1. \A c : A!View(c) = V!View(c) /\ (A!Reads(c) <=> V!Reads(c))
  BY DEF A!View, V!View, A!Reads, V!Reads
<1>2. \A c : (A!Begin(c) <=> V!Begin(c)) /\ (A!End(c) <=> V!End(c)) /\ A!Ended(c) = V!Ended(c)
  BY DEF A!Begin, V!Begin, A!End, V!End, A!Ended, V!Ended
<1>3. \A c, docs : A!Overtaken(c, docs) = V!Overtaken(c, docs)
  BY DEF A!Overtaken, V!Overtaken
<1>4. \A old, new : A!Written(old, new) = V!Written(old, new)
  BY DEF A!Written, V!Written
<1>5. \A c, new : A!Commit(c, new) <=> V!Commit(c, new)
  BY DEF A!Commit, V!Commit, A!NoConflict, V!NoConflict, A!View, V!View, A!Written, V!Written,
     A!Ended, V!Ended, A!Overtaken, V!Overtaken
<1>6. \A c, new : A!Save(c, new) <=> V!Save(c, new)
  BY DEF A!Save, V!Save, A!View, V!View, A!Written, V!Written, A!Ended, V!Ended,
     A!Overtaken, V!Overtaken
<1>7. A!Callers = V!Callers
  BY DEF A!Callers, V!Callers
<1> QED
  BY <1>1, <1>2, <1>3, <1>4, <1>5, <1>6, <1>7

\* What a request sees is a database.
LEMMA AlertsView ==
  ASSUME AlertsIInv, NEW c \in A!Callers, A!Reads(c)
  PROVE  A!View(c) \in A!Databases
BY DEF AlertsIInv, A!View, A!Reads

\* A database is its three collections.
LEMMA AlertsRecord ==
  ASSUME NEW d \in A!Databases
  PROVE  /\ DOMAIN d = {"item", "alert", "order"}
         /\ DOMAIN d.item = {"it"} /\ DOMAIN d.alert = Alerts /\ DOMAIN d.order = Reorders
         /\ d = [item |-> d.item, alert |-> d.alert, order |-> d.order]
         /\ d.item \in [{"it"} -> [quantity : 0..MaxOnHand, moves : 0..MaxMoves]]
         /\ d.alert \in [Alerts -> A!AlertDocs]
         /\ d.order \in [Reorders -> [open : BOOLEAN, quantity : Nat]]
BY DEF A!Databases

\* A database with other collections, each of its kind.
LEMMA AlertsOf ==
  ASSUME NEW d, NEW e \in A!Databases,
         d = [coll \in DOMAIN e |-> d[coll]],
         \A coll \in DOMAIN e : d[coll] = [doc \in DOMAIN e[coll] |-> d[coll][doc]],
         d.item["it"] \in [quantity : 0..MaxOnHand, moves : 0..MaxMoves],
         \A a \in Alerts : d.alert[a] \in A!AlertDocs,
         \A o \in Reorders : d.order[o] \in [open : BOOLEAN, quantity : Nat]
  PROVE  d \in A!Databases
<1>1. /\ DOMAIN e = {"item", "alert", "order"}
      /\ DOMAIN e.item = {"it"} /\ DOMAIN e.alert = Alerts /\ DOMAIN e.order = Reorders
  BY AlertsRecord
<1>2. d = [item |-> d.item, alert |-> d.alert, order |-> d.order]
  BY <1>1
<1>3. /\ d.item = [x \in {"it"} |-> d.item[x]] /\ d.alert = [a \in Alerts |-> d.alert[a]]
      /\ d.order = [o \in Reorders |-> d.order[o]]
  BY <1>1
<1>4. d.item \in [{"it"} -> [quantity : 0..MaxOnHand, moves : 0..MaxMoves]]
  BY <1>3
<1>5. d.alert \in [Alerts -> A!AlertDocs]
  BY <1>3
<1>6. d.order \in [Reorders -> [open : BOOLEAN, quantity : Nat]]
  BY <1>3
<1> QED
  BY <1>2, <1>4, <1>5, <1>6 DEF A!Databases

\* What a commit makes of the three collections.
LEMMA AlertsCommit ==
  ASSUME AlertsIInv, NEW c \in A!Callers, A!Reads(c), NEW new \in A!Databases,
         A!Commit(c, new)
  PROVE  /\ AlertsIInv'
         /\ \A coll \in {"item", "alert", "order"} : \A doc \in DOMAIN db[coll] :
               db'[coll][doc] = IF new[coll][doc] = A!View(c)[coll][doc]
                                THEN db[coll][doc] ELSE new[coll][doc]
<1> DEFINE read == A!View(c)
<1>1. /\ db \in A!Databases /\ read \in A!Databases
      /\ V!Commit(c, new) /\ read = V!View(c)
  BY AlertsSnapshots, AlertsView DEF AlertsIInv
<1>2. Alike(new, db) /\ Alike(read, db)
  BY <1>1, AlertsRecord DEF Alike
<1>3. \A coll \in DOMAIN db : \A doc \in DOMAIN db[coll] :
         db'[coll][doc] = IF new[coll][doc] = read[coll][doc]
                          THEN db[coll][doc] ELSE new[coll][doc]
  <2> HIDE DEF read
  <2> QED
    BY <1>1, <1>2, CommitSets
<1>4. /\ DOMAIN db = {"item", "alert", "order"}
      /\ DOMAIN db.item = {"it"} /\ DOMAIN db.alert = Alerts /\ DOMAIN db.order = Reorders
  BY <1>1, AlertsRecord
<1>5. /\ db' = [coll \in DOMAIN db |-> db'[coll]]
      /\ \A coll \in DOMAIN db : db'[coll] = [doc \in DOMAIN db[coll] |-> db'[coll][doc]]
  BY <1>1 DEF V!Commit
<1> HIDE DEF read
<1>6. /\ db'.item["it"] \in {db.item["it"], new.item["it"]}
      /\ \A a \in Alerts : db'.alert[a] \in {db.alert[a], new.alert[a]}
      /\ \A o \in Reorders : db'.order[o] \in {db.order[o], new.order[o]}
  BY <1>3, <1>4
<1>7. /\ db'.item["it"] \in [quantity : 0..MaxOnHand, moves : 0..MaxMoves]
      /\ \A a \in Alerts : db'.alert[a] \in A!AlertDocs
      /\ \A o \in Reorders : db'.order[o] \in [open : BOOLEAN, quantity : Nat]
  <2>1. \A d \in A!Databases :
           /\ d.item["it"] \in [quantity : 0..MaxOnHand, moves : 0..MaxMoves]
           /\ \A a \in Alerts : d.alert[a] \in A!AlertDocs
           /\ \A o \in Reorders : d.order[o] \in [open : BOOLEAN, quantity : Nat]
    BY AlertsRecord
  <2>2. db'.item["it"] \in [quantity : 0..MaxOnHand, moves : 0..MaxMoves]
    BY <1>1, <1>6, <2>1
  <2>3. \A a \in Alerts : db'.alert[a] \in A!AlertDocs
    BY <1>1, <1>6, <2>1
  <2>4. \A o \in Reorders : db'.order[o] \in [open : BOOLEAN, quantity : Nat]
    BY <1>1, <1>6, <2>1
  <2> QED
    BY <2>2, <2>3, <2>4
<1>8. db' \in A!Databases
  BY <1>1, <1>5, <1>7, AlertsOf
<1>9. snap' \in [Clients -> A!Databases \cup {NoSnapshot}]
  BY <1>1 DEF V!Commit, V!Ended, AlertsIInv
<1> QED
  BY <1>3, <1>4, <1>8, <1>9 DEF AlertsIInv, read

\* A save keeps the shapes, and leaves the item alone if it changes no item.
LEMMA AlertsSave ==
  ASSUME AlertsIInv, NEW c \in A!Callers, A!Reads(c), NEW new \in A!Databases,
         new.item = A!View(c).item, new.order = A!View(c).order, A!Save(c, new)
  PROVE  AlertsIInv' /\ db'.item = db.item
<1> DEFINE read == A!View(c)
<1>1. db \in A!Databases /\ read \in A!Databases /\ V!Save(c, new) /\ read = V!View(c)
  BY AlertsSnapshots, AlertsView DEF AlertsIInv
<1>2. /\ DOMAIN db = {"item", "alert", "order"}
      /\ DOMAIN db.item = {"it"} /\ DOMAIN db.alert = Alerts /\ DOMAIN db.order = Reorders
  BY <1>1, AlertsRecord
<1>3. \A coll \in DOMAIN db : \A doc \in DOMAIN db[coll] :
         db'[coll][doc] = IF new[coll][doc] = read[coll][doc] THEN db[coll][doc]
                          ELSE [field \in DOMAIN db[coll][doc] |->
                                   IF new[coll][doc][field] # read[coll][doc][field]
                                   THEN new[coll][doc][field] ELSE db[coll][doc][field]]
  <2> HIDE DEF read
  <2> QED
    BY <1>1, SaveSets
<1>4. /\ db' = [coll \in DOMAIN db |-> db'[coll]]
      /\ \A coll \in DOMAIN db : db'[coll] = [doc \in DOMAIN db[coll] |-> db'[coll][doc]]
  BY <1>1 DEF V!Save
<1>5. snap' \in [Clients -> A!Databases \cup {NoSnapshot}]
  BY <1>1 DEF V!Save, V!Ended, AlertsIInv
<1>6. new.item = read.item /\ new.order = read.order
  OBVIOUS
<1> HIDE DEF read
<1>7. /\ db'.item["it"] = db.item["it"]
      /\ \A o \in Reorders : db'.order[o] = db.order[o]
  BY <1>2, <1>3, <1>6
<1>8. \A a \in Alerts : db'.alert[a] \in A!AlertDocs
  <2> SUFFICES ASSUME NEW a \in Alerts
               PROVE  db'.alert[a] \in A!AlertDocs
    OBVIOUS
  <2>1. db.alert[a] \in A!AlertDocs /\ new.alert[a] \in A!AlertDocs
    BY <1>1, AlertsRecord
  <2>2. PICK doc : doc = [field \in DOMAIN db.alert[a] |->
                             IF new.alert[a][field] # read.alert[a][field]
                             THEN new.alert[a][field] ELSE db.alert[a][field]]
    OBVIOUS
  <2>3. db'.alert[a] = db.alert[a] \/ db'.alert[a] = doc
    BY <1>2, <1>3, <2>2
  <2>4. doc \in A!AlertDocs
    <3>1. DOMAIN db.alert[a] = {"status", "type", "read", "touched"}
      BY <2>1 DEF A!AlertDocs
    <3>2. doc = [status |-> doc.status, type |-> doc.type, read |-> doc.read,
                 touched |-> doc.touched]
      BY <2>2, <3>1
    <3>3. /\ doc.status \in {db.alert[a].status, new.alert[a].status}
          /\ doc.type \in {db.alert[a].type, new.alert[a].type}
          /\ doc.read \in {db.alert[a].read, new.alert[a].read}
          /\ doc.touched \in {db.alert[a].touched, new.alert[a].touched}
      BY <2>2, <3>1
    <3> QED
      BY <2>1, <3>2, <3>3 DEF A!AlertDocs
  <2> QED
    BY <2>1, <2>3, <2>4
<1>9. /\ db.item["it"] \in [quantity : 0..MaxOnHand, moves : 0..MaxMoves]
      /\ \A o \in Reorders : db.order[o] \in [open : BOOLEAN, quantity : Nat]
  BY <1>1, AlertsRecord
<1>10. db' \in A!Databases
  BY <1>1, <1>4, <1>7, <1>8, <1>9, AlertsOf
<1>11. db'.item = db.item
  <2>1. /\ db'.item = [x \in {"it"} |-> db'.item[x]] /\ db.item = [x \in {"it"} |-> db.item[x]]
    BY <1>1, <1>2, <1>4, AlertsRecord
  <2> QED
    BY <1>7, <2>1
<1> QED
  BY <1>5, <1>10, <1>11 DEF AlertsIInv

\* A database with one alert replaced.
LEMMA AlertSet ==
  ASSUME NEW d \in A!Databases, NEW a \in Alerts, NEW doc \in A!AlertDocs
  PROVE  LET e == [d EXCEPT !.alert[a] = doc]
         IN  /\ e \in A!Databases /\ e.item = d.item /\ e.order = d.order
             /\ e.alert = [d.alert EXCEPT ![a] = doc]
<1> DEFINE docs == [d.alert EXCEPT ![a] = doc]
           e == [d EXCEPT !.alert[a] = doc]
<1>1. e = [d EXCEPT !.alert = docs]
  OBVIOUS
<1>2. docs \in [Alerts -> A!AlertDocs]
  BY AlertsRecord
<1> HIDE DEF docs, e
<1>3. [d EXCEPT !.alert = docs] = [item |-> d.item, alert |-> docs, order |-> d.order]
  BY AlertsRecord
<1>4. e \in A!Databases /\ e.item = d.item /\ e.order = d.order /\ e.alert = docs
  BY <1>1, <1>2, <1>3, AlertsRecord DEF A!Databases
<1> QED
  BY <1>4 DEF e, docs

\* A database with all alerts replaced.
LEMMA AlertsSet ==
  ASSUME NEW d \in A!Databases, NEW docs \in [Alerts -> A!AlertDocs]
  PROVE  LET e == [d EXCEPT !.alert = docs]
         IN  e \in A!Databases /\ e.item = d.item /\ e.order = d.order /\ e.alert = docs
<1>1. [d EXCEPT !.alert = docs] = [item |-> d.item, alert |-> docs, order |-> d.order]
  BY AlertsRecord
<1> QED
  BY <1>1, AlertsRecord DEF A!Databases

\* A database with one order replaced.
LEMMA ReorderSet ==
  ASSUME NEW d \in A!Databases, NEW o \in Reorders,
         NEW doc \in [open : BOOLEAN, quantity : Nat]
  PROVE  LET e == [d EXCEPT !.order[o] = doc]
         IN  e \in A!Databases /\ e.item = d.item /\ e.alert = d.alert
<1> DEFINE docs == [d.order EXCEPT ![o] = doc]
           e == [d EXCEPT !.order[o] = doc]
<1>1. e = [d EXCEPT !.order = docs]
  OBVIOUS
<1>2. docs \in [Reorders -> [open : BOOLEAN, quantity : Nat]]
  BY AlertsRecord
<1> HIDE DEF docs, e
<1>3. [d EXCEPT !.order = docs] = [item |-> d.item, alert |-> d.alert, order |-> docs]
  BY AlertsRecord
<1> QED
  BY <1>1, <1>2, <1>3, AlertsRecord DEF A!Databases

\* What the reorder plan counts.
LEMMA SuggestedIs ==
  ASSUME NEW d \in A!Databases
  PROVE  A!Suggested(d) \in Nat
<1> DEFINE open == {p \in Reorders : d.order[p].open}
           coming == [o \in open |-> d.order[o].quantity]
<1>1. A!Available(d) = d.item["it"].quantity + A!SumFunction(coming)
  BY Zenon DEF A!Available, A!Total
<1>2. A!SumFunction(coming) = SumFunctionOnSet(coming, DOMAIN coming)
  BY DEF A!SumFunction, A!SumFunctionOnSet, A!FoldFunctionOnSet, A!MapThenFoldSet,
     SumFunctionOnSet, FoldFunctionOnSet, MapThenFoldSet
<1>3. IsFiniteSet(open)
  <2>1. IsFiniteSet(Reorders)
    BY RestaurantAssumption DEF A!ReorderAssumption, A!IsFiniteSet, IsFiniteSet
  <2> QED
    BY <2>1, FS_Subset
<1>4. DOMAIN coming = open /\ \A o \in open : coming[o] \in Int
  BY AlertsRecord
<1>5. d.item["it"].quantity \in Int
  BY AlertsRecord
<1> HIDE DEF open, coming
<1>6. SumFunctionOnSet(coming, open) \in Int
  BY <1>3, <1>4, SumType
<1>7. A!Available(d) \in Int
  BY <1>1, <1>2, <1>4, <1>5, <1>6
<1>8. ReorderPoint \in Nat
  BY RestaurantAssumption DEF A!ReorderAssumption
<1> QED
  BY <1>7, <1>8 DEF A!Suggested

\* Databases that have the item in common agree on all of it.
LEMMA SameItem ==
  ASSUME NEW d \in A!Databases, NEW e \in A!Databases, d.item["it"] = e.item["it"]
  PROVE  d.item = e.item
<1>1. d.item = [x \in {"it"} |-> d.item[x]] /\ e.item = [x \in {"it"} |-> e.item[x]]
  BY AlertsRecord
<1> QED
  BY <1>1

\* A movement that leaves the item low writes an alert that says so: the one it found,
\* whose updatedAt changes, or a new one.
LEMMA AlertsAfterIs ==
  ASSUME NEW d \in A!Databases, NEW quantity \in 0..MaxOnHand,
         NEW docs \in A!AlertsAfter(d, quantity)
  PROVE  /\ docs \in [Alerts -> A!AlertDocs]
         /\ quantity <= ReorderPoint =>
               \E a \in Alerts : /\ docs[a] # d.alert[a]
                                 /\ docs[a].type = A!TypeFor(quantity)
                                 /\ docs[a].status \in {"open", "acknowledged"}
<1> DEFINE type == A!TypeFor(quantity)
           found == A!Unresolved(d, type)
<1>1. d.alert \in [Alerts -> A!AlertDocs]
  BY AlertsRecord
<1>2. type \in {"low_stock", "out_of_stock"}
  BY DEF A!TypeFor
<1>3. ReorderPoint \in Nat /\ MaxOnHand \in Nat
  BY RestaurantAssumption DEF A!ReorderAssumption
<1>4. docs \in IF quantity > ReorderPoint THEN {d.alert}
               ELSE IF found # {} THEN {[d.alert EXCEPT ![a] = A!Upserted(@)] : a \in found}
               ELSE {[d.alert EXCEPT ![a] = A!Raised(type)] : a \in A!Unused(d)}
  BY Zenon DEF A!AlertsAfter
<1>5. /\ \A a \in found : /\ a \in Alerts /\ d.alert[a].type = type
                          /\ d.alert[a].status \in {"open", "acknowledged"}
      /\ \A a \in A!Unused(d) : a \in Alerts /\ d.alert[a].status = "absent"
  BY DEF A!Unresolved, A!Unused
<1> HIDE DEF type, found
<1>6. CASE quantity > ReorderPoint
  <2>1. docs = d.alert
    BY <1>4, <1>6, Zenon
  <2>2. ~(quantity <= ReorderPoint)
    BY <1>3, <1>6
  <2> QED
    BY <1>1, <2>1, <2>2
<1>7. ASSUME NEW a \in found, docs = [d.alert EXCEPT ![a] = A!Upserted(@)]
      PROVE  /\ docs \in [Alerts -> A!AlertDocs]
             /\ \E b \in Alerts : /\ docs[b] # d.alert[b] /\ docs[b].type = type
                                  /\ docs[b].status \in {"open", "acknowledged"}
  <2>1. PICK doc : doc = d.alert[a]
    OBVIOUS
  <2>2. PICK after : after = [doc EXCEPT !.touched = ~@]
    OBVIOUS
  <2>3. doc \in A!AlertDocs
    BY <1>1, <1>5, <2>1
  <2>4. /\ after \in A!AlertDocs /\ after # doc
        /\ after.type = doc.type /\ after.status = doc.status
    <3>1. doc.touched \in BOOLEAN
      BY <2>3 DEF A!AlertDocs
    <3>2. PICK flipped \in BOOLEAN : flipped = ~doc.touched
      OBVIOUS
    <3>3. after = [doc EXCEPT !.touched = flipped]
      BY <2>2, <3>2, Zenon
    <3>4. flipped # doc.touched
      BY <3>1, <3>2, Zenon
    <3>5. after.touched = flipped
      BY <2>3, <3>3 DEF A!AlertDocs
    <3>6. after # doc
      BY <3>4, <3>5, Zenon
    <3> QED
      BY <2>3, <3>3, <3>6 DEF A!AlertDocs
  <2>5. docs = [d.alert EXCEPT ![a] = after]
    BY <1>7, <2>1, <2>2, Zenon DEF A!Upserted
  <2> QED
    BY <1>1, <1>5, <2>1, <2>4, <2>5
<1>8. ASSUME NEW a \in A!Unused(d), docs = [d.alert EXCEPT ![a] = A!Raised(type)]
      PROVE  /\ docs \in [Alerts -> A!AlertDocs]
             /\ \E b \in Alerts : /\ docs[b] # d.alert[b] /\ docs[b].type = type
                                  /\ docs[b].status \in {"open", "acknowledged"}
  <2>1. PICK after : after = A!Raised(type)
    OBVIOUS
  <2>2. after \in A!AlertDocs /\ after.type = type /\ after.status = "open"
    BY <1>2, <2>1 DEF A!Raised, A!AlertDocs
  <2>3. docs = [d.alert EXCEPT ![a] = after]
    BY <1>8, <2>1
  <2>4. docs[a] = after /\ docs \in [Alerts -> A!AlertDocs]
    BY <1>1, <1>5, <2>2, <2>3
  <2> QED
    BY <1>5, <2>2, <2>4
<1> QED
  BY <1>4, <1>6, <1>7, <1>8 DEF type

\* A movement that leaves the item low leaves an alert.
LEMMA AlertsMove ==
  ASSUME AlertsIInv, NEW c \in A!Callers, A!Reads(c), NEW quantity \in 0..MaxOnHand,
         A!Move(c, quantity)
  PROVE  AlertsIInv' /\ A!LowAlerts
<1> DEFINE d == A!View(c)
<1>1. d.item["it"].moves < MaxMoves
  BY DEF A!Move
<1>2. PICK docs \in A!AlertsAfter(d, quantity) :
         A!Commit(c, [d EXCEPT
             !.item["it"] = [quantity |-> quantity, moves |-> @.moves + 1], !.alert = docs])
  BY Zenon DEF A!Move
<1>3. d \in A!Databases /\ db \in A!Databases
  BY AlertsView DEF AlertsIInv
<1> HIDE DEF d
<1>4. /\ docs \in [Alerts -> A!AlertDocs]
      /\ quantity <= ReorderPoint =>
            \E a \in Alerts : /\ docs[a] # d.alert[a]
                              /\ docs[a].type = A!TypeFor(quantity)
                              /\ docs[a].status \in {"open", "acknowledged"}
  BY <1>2, <1>3, AlertsAfterIs
<1>5. PICK new \in A!Databases :
         /\ A!Commit(c, new)
         /\ new.alert = docs /\ new.item["it"].quantity = quantity
  <2>1. MaxMoves \in Nat
    BY RestaurantAssumption DEF A!ReorderAssumption
  <2>2. PICK doc : doc = [quantity |-> quantity, moves |-> d.item["it"].moves + 1]
    OBVIOUS
  <2>3. /\ doc \in [quantity : 0..MaxOnHand, moves : 0..MaxMoves]
        /\ doc.quantity = quantity
    BY <1>1, <1>3, <2>1, <2>2, AlertsRecord
  <2>4. PICK items : items = [d.item EXCEPT !["it"] = doc]
    OBVIOUS
  <2>5. /\ items \in [{"it"} -> [quantity : 0..MaxOnHand, moves : 0..MaxMoves]]
        /\ items["it"] = doc
    BY <1>3, <2>3, <2>4, AlertsRecord
  <2>6. PICK moved : moved = [d EXCEPT !.item = items]
    OBVIOUS
  <2>7. PICK e : e = [moved EXCEPT !.alert = docs]
    OBVIOUS
  <2>8. [d EXCEPT
            !.item["it"] = [quantity |-> quantity, moves |-> @.moves + 1], !.alert = docs] = e
    BY <2>2, <2>4, <2>6, <2>7, Zenon
  <2>9. A!Commit(c, e)
    BY <1>2, <2>8, Zenon
  <2>10. moved = [item |-> items, alert |-> d.alert, order |-> d.order]
    BY <1>3, <2>6, AlertsRecord
  <2>11. e = [item |-> items, alert |-> docs, order |-> d.order]
    BY <2>7, <2>10
  <2>12. /\ e \in A!Databases /\ e.alert = docs
         /\ e.item["it"].quantity = quantity
    BY <1>3, <1>4, <2>3, <2>5, <2>11, AlertsRecord DEF A!Databases
  <2> QED
    BY <2>9, <2>12
<1>6. A!Commit(c, new)
  BY <1>5
<1>7. \A a \in Alerts : new.alert[a] = docs[a]
  BY <1>5, Zenon
<1>8. /\ AlertsIInv'
      /\ \A coll \in {"item", "alert", "order"} : \A doc \in DOMAIN db[coll] :
            db'[coll][doc] = IF new[coll][doc] = d[coll][doc]
                             THEN db[coll][doc] ELSE new[coll][doc]
  BY <1>6, AlertsCommit, Zenon DEF d
<1>9. db'.item["it"] = db.item["it"] \/ db'.item["it"] = new.item["it"]
  <2>1. DOMAIN db.item = {"it"}
    BY <1>3, AlertsRecord
  <2> QED
    BY <1>8, <2>1, Zenon
<1>10. \A a \in Alerts : docs[a] # d.alert[a] => db'.alert[a] = docs[a]
  <2>1. DOMAIN db.alert = Alerts
    BY <1>3, AlertsRecord
  <2>2. \A a \in Alerts :
           db'.alert[a] = IF new.alert[a] = d.alert[a] THEN db.alert[a] ELSE new.alert[a]
    BY <1>8, <2>1, Zenon
  <2> QED
    BY <1>7, <2>2, Zenon
<1>11. ASSUME db'.item # db.item, db'.item["it"].quantity <= ReorderPoint
       PROVE  A!Unresolved(db', A!TypeFor(db'.item["it"].quantity)) # {}
  <2>0. new.item["it"].quantity = quantity
    BY <1>5, Zenon
  <2>1. db'.item["it"].quantity = quantity
    BY <1>3, <2>0, <1>8, <1>9, <1>11, SameItem DEF AlertsIInv
  <2>2. PICK a \in Alerts : /\ docs[a] # d.alert[a]
                            /\ docs[a].type = A!TypeFor(quantity)
                            /\ docs[a].status \in {"open", "acknowledged"}
    BY <1>4, <1>11, <2>1
  <2>3. db'.alert[a] = docs[a]
    BY <1>10, <2>2
  <2>4. a \in A!Unresolved(db', A!TypeFor(quantity))
    BY <2>2, <2>3 DEF A!Unresolved
  <2> QED
    BY <2>1, <2>4
<1> QED
  BY <1>8, <1>11 DEF A!LowAlerts

\* A commit that changes no item.
LEMMA AlertsElsewhere ==
  ASSUME AlertsIInv, NEW c \in A!Callers, A!Reads(c), NEW new \in A!Databases,
         new.item = A!View(c).item, A!Commit(c, new)
  PROVE  AlertsIInv' /\ A!LowAlerts
<1>1. AlertsIInv' /\ db'.item["it"] = db.item["it"]
  BY AlertsCommit, AlertsRecord DEF AlertsIInv
<1>2. db'.item = db.item
  BY <1>1, SameItem DEF AlertsIInv
<1> QED
  BY <1>1, <1>2 DEF A!LowAlerts

\* Orders that the plan suggested come and go.
LEMMA AlertsOrders ==
  ASSUME AlertsIInv, NEW c \in A!Callers, A!Reads(c), NEW o \in Reorders,
         A!Suggest(c, o) \/ A!OrderDone(c, o)
  PROVE  AlertsIInv' /\ A!LowAlerts
<1> DEFINE d == A!View(c)
<1>1. d \in A!Databases
  BY AlertsView
<1>2. CASE A!Suggest(c, o)
  <2>1. PICK doc : doc = [open |-> TRUE, quantity |-> A!Suggested(d)]
    OBVIOUS
  <2>2. doc \in [open : BOOLEAN, quantity : Nat]
    BY <1>1, <2>1, SuggestedIs
  <2>3. PICK new : new = [d EXCEPT !.order[o] = doc]
    OBVIOUS
  <2>4. A!Commit(c, new)
    BY <1>2, <2>1, <2>3, Zenon DEF A!Suggest
  <2>5. new \in A!Databases /\ new.item = d.item
    BY <1>1, <2>2, <2>3, ReorderSet
  <2> QED
    BY <2>4, <2>5, AlertsElsewhere
<1>3. CASE A!OrderDone(c, o)
  <2>1. PICK doc : doc = [d.order[o] EXCEPT !.open = FALSE]
    OBVIOUS
  <2>2. doc \in [open : BOOLEAN, quantity : Nat]
    <3>1. d.order[o] \in [open : BOOLEAN, quantity : Nat]
      BY <1>1, AlertsRecord
    <3> HIDE DEF d
    <3> QED
      BY <2>1, <3>1
  <2>3. PICK new : new = [d EXCEPT !.order[o] = doc]
    OBVIOUS
  <2>4. [d EXCEPT !.order[o].open = FALSE] = new
    BY <2>1, <2>3, Zenon
  <2>5. A!Commit(c, new)
    BY <1>3, <2>4, Zenon DEF A!OrderDone
  <2>6. new \in A!Databases /\ new.item = d.item
    BY <1>1, <2>2, <2>3, ReorderSet
  <2> QED
    BY <2>5, <2>6, AlertsElsewhere
<1> QED
  BY <1>2, <1>3

\* A save of one alert.
LEMMA AlertsSaved ==
  ASSUME AlertsIInv, NEW c \in A!Callers, A!Reads(c), NEW a \in Alerts,
         NEW doc \in A!AlertDocs, A!Save(c, [A!View(c) EXCEPT !.alert[a] = doc])
  PROVE  AlertsIInv' /\ A!LowAlerts
<1> DEFINE d == A!View(c)
<1>1. d \in A!Databases
  BY AlertsView
<1>2. PICK new : new = [d EXCEPT !.alert[a] = doc]
  OBVIOUS
<1>3. A!Save(c, new)
  BY <1>2, Zenon
<1>4. new \in A!Databases /\ new.item = d.item /\ new.order = d.order
  BY <1>1, <1>2, AlertSet
<1>5. AlertsIInv' /\ db'.item = db.item
  BY <1>3, <1>4, AlertsSave
<1> QED
  BY <1>5 DEF A!LowAlerts

\* An update of alerts.
LEMMA AlertsUpdated ==
  ASSUME AlertsIInv, NEW c, NEW new \in A!Databases, new.item = db.item, A!Update(c, new)
  PROVE  AlertsIInv' /\ A!LowAlerts
BY DEF AlertsIInv, A!Update, A!LowAlerts

\* An alert that somebody read, and when it was touched.
LEMMA AlertRead ==
  ASSUME NEW doc \in A!AlertDocs
  PROVE  /\ [doc EXCEPT !.read = TRUE, !.touched = ~@] \in A!AlertDocs
         /\ \A status \in {"acknowledged", "resolved"} :
               [doc EXCEPT !.status = status, !.read = TRUE, !.touched = ~@] \in A!AlertDocs
<1>1. PICK touched \in BOOLEAN : touched = ~doc.touched
  OBVIOUS
<1>2. ASSUME NEW old \in A!AlertDocs, old.touched = doc.touched
      PROVE  [old EXCEPT !.read = TRUE, !.touched = ~@] \in A!AlertDocs
  <2>1. PICK read : read = [old EXCEPT !.read = TRUE]
    OBVIOUS
  <2>2. read \in A!AlertDocs
    BY <1>2, <2>1 DEF A!AlertDocs
  <2>3. PICK new : new = [read EXCEPT !.touched = touched]
    OBVIOUS
  <2>4. new \in A!AlertDocs
    BY <2>2, <2>3 DEF A!AlertDocs
  <2>5. [old EXCEPT !.read = TRUE, !.touched = ~@] = new
    <3>1. read.touched = doc.touched
      BY <1>2, <2>1 DEF A!AlertDocs
    <3> QED
      BY <1>1, <1>2, <2>1, <2>3, <3>1, Zenon
  <2> QED
    BY <2>4, <2>5, Zenon
<1>3. ASSUME NEW status \in {"acknowledged", "resolved"}
      PROVE  [doc EXCEPT !.status = status, !.read = TRUE, !.touched = ~@] \in A!AlertDocs
  <2>1. PICK old : old = [doc EXCEPT !.status = status]
    OBVIOUS
  <2>2. old \in A!AlertDocs /\ old.touched = doc.touched
    BY <2>1 DEF A!AlertDocs
  <2>3. [doc EXCEPT !.status = status, !.read = TRUE, !.touched = ~@]
          = [old EXCEPT !.read = TRUE, !.touched = ~@]
    BY <2>1, <2>2, Zenon
  <2> QED
    BY <1>2, <2>2, <2>3, Zenon
<1> QED
  BY <1>2, <1>3

\* What people and the sweep do to an alert.
LEMMA AlertsTouched ==
  ASSUME AlertsIInv, NEW c \in A!Callers, A!Reads(c), NEW a \in Alerts, A!AlertStep(c, a)
  PROVE  AlertsIInv' /\ A!LowAlerts
<1> DEFINE doc == A!View(c).alert[a]
<1>1. doc \in A!AlertDocs
  BY AlertsView, AlertsRecord
<1>2. CASE A!RaiseReorder(c, a)
  <2>1. PICK raised : raised = A!Raised(A!TypeFor(A!View(c).item["it"].quantity))
    OBVIOUS
  <2>2. raised \in A!AlertDocs
    BY <2>1 DEF A!Raised, A!TypeFor, A!AlertDocs
  <2>3. PICK new : new = [db EXCEPT !.alert[a] = raised]
    OBVIOUS
  <2>4. A!Update(c, new)
    BY <1>2, <2>1, <2>3, Zenon DEF A!RaiseReorder
  <2>5. db \in A!Databases
    BY DEF AlertsIInv
  <2>6. new \in A!Databases /\ new.item = db.item
    BY <2>2, <2>3, <2>5, AlertSet
  <2> QED
    BY <2>4, <2>6, AlertsUpdated
<1>3. CASE A!Acknowledge(c, a)
  <2>1. PICK new : new = [doc EXCEPT !.status = "acknowledged", !.read = TRUE, !.touched = ~@]
    OBVIOUS
  <2>2. new \in A!AlertDocs
    BY <1>1, <2>1, AlertRead, Zenon
  <2>3. A!Save(c, [A!View(c) EXCEPT !.alert[a] = new])
    BY <1>3, <2>1, Zenon DEF A!Acknowledge
  <2> QED
    BY <2>2, <2>3, AlertsSaved
<1>4. CASE A!Resolve(c, a)
  <2>1. PICK new : new = [doc EXCEPT !.status = "resolved", !.read = TRUE, !.touched = ~@]
    OBVIOUS
  <2>2. new \in A!AlertDocs
    BY <1>1, <2>1, AlertRead, Zenon
  <2>3. A!Save(c, [A!View(c) EXCEPT !.alert[a] = new])
    BY <1>4, <2>1, Zenon DEF A!Resolve
  <2> QED
    BY <2>2, <2>3, AlertsSaved
<1>5. CASE A!MarkRead(c, a)
  <2>1. PICK new : new = [doc EXCEPT !.read = TRUE, !.touched = ~@]
    OBVIOUS
  <2>2. new \in A!AlertDocs
    BY <1>1, <2>1, AlertRead, Zenon
  <2>3. A!Save(c, [A!View(c) EXCEPT !.alert[a] = new])
    BY <1>5, <2>1, Zenon DEF A!MarkRead
  <2> QED
    BY <2>2, <2>3, AlertsSaved
<1> QED
  BY <1>2, <1>3, <1>4, <1>5 DEF A!AlertStep

\* All that nobody read is marked as read.
LEMMA AlertsAllRead ==
  ASSUME AlertsIInv, A!MarkAllRead
  PROVE  AlertsIInv' /\ A!LowAlerts
<1>1. PICK old : old = db.alert
  OBVIOUS
<1>2. PICK docs : docs = [a \in Alerts |->
             IF old[a].status = "absent" \/ old[a].read THEN old[a]
             ELSE [old[a] EXCEPT !.read = TRUE, !.touched = ~@]]
  OBVIOUS
<1>3. PICK new : new = [db EXCEPT !.alert = docs]
  OBVIOUS
<1>4. A!Update(Prompt, new)
  BY <1>1, <1>2, <1>3, Zenon DEF A!MarkAllRead
<1>5. db \in A!Databases /\ old \in [Alerts -> A!AlertDocs]
  BY <1>1, AlertsRecord DEF AlertsIInv
<1>6. docs \in [Alerts -> A!AlertDocs]
  <2>1. \A a \in Alerts :
           (IF old[a].status = "absent" \/ old[a].read THEN old[a]
            ELSE [old[a] EXCEPT !.read = TRUE, !.touched = ~@]) \in A!AlertDocs
    BY <1>5, AlertRead, Zenon
  <2> QED
    BY <1>2, <2>1, Zenon
<1>7. new \in A!Databases /\ new.item = db.item
  BY <1>3, <1>5, <1>6, AlertsSet
<1> QED
  BY <1>4, <1>7, AlertsUpdated

\* Every step keeps the invariant, and the movements leave alerts.
LEMMA AlertsStep ==
  ASSUME AlertsIInv, A!Next
  PROVE  AlertsIInv' /\ A!LowAlerts
<1>1. ASSUME NEW c \in Clients, A!Begin(c) \/ A!Refused(c)
      PROVE  AlertsIInv' /\ A!LowAlerts
  <2>1. V!Begin(c) \/ V!End(c)
    BY <1>1, AlertsSnapshots DEF A!Refused
  <2>2. db' = db
    BY <2>1 DEF V!Begin, V!End
  <2>3. snap' \in [Clients -> A!Databases \cup {NoSnapshot}]
    BY <2>1 DEF AlertsIInv, V!Begin, V!End, V!Ended
  <2> QED
    BY <2>2, <2>3 DEF AlertsIInv, A!LowAlerts
<1> QED
  BY <1>1, AlertsAllRead, AlertsMove, AlertsTouched, AlertsOrders DEF A!Next

\* At first the shelf is full, and nothing was raised or ordered.
LEMMA AlertsInit ==
  ASSUME A!Init
  PROVE  AlertsIInv
<1>1. /\ db = [item |-> [x \in {"it"} |-> [quantity |-> MaxOnHand, moves |-> 0]],
               alert |-> [a \in Alerts |-> [status |-> "absent", type |-> "low_stock",
                                            read |-> FALSE, touched |-> FALSE]],
               order |-> [o \in Reorders |-> [open |-> FALSE, quantity |-> 0]]]
      /\ snap = [c \in Clients |-> NoSnapshot]
  BY DEF A!Init, A!OutsideTransactions
<1>2. MaxOnHand \in Nat /\ MaxMoves \in Nat
  BY RestaurantAssumption DEF A!ReorderAssumption
<1> QED
  BY <1>1, <1>2 DEF AlertsIInv, A!Databases, A!AlertDocs

\* inventoryLedger.js: the movement that leaves the item low leaves an alert that nobody has
\* resolved, even when somebody resolves the one it found in the meantime.
THEOREM AlertsTheorem == Spec => LowIsAlerted
<1> DEFINE IInv == part = "alerts" => AlertsIInv
<1>1. Init => IInv
  BY AlertsInit DEF Init
<1>2. IInv /\ [Next]_vars => IInv' /\ [part = "alerts" => A!LowAlerts]_vars
  <2> SUFFICES ASSUME IInv, [Next]_vars
               PROVE  IInv' /\ [part = "alerts" => A!LowAlerts]_vars
    OBVIOUS
  <2>1. CASE UNCHANGED vars
    BY <2>1 DEF vars, AlertsIInv
  <2>2. CASE Next
    <3>1. part' = part
      BY <2>2 DEF Next
    <3>2. part = "alerts" => A!Next
      BY <2>2 DEF Next
    <3> QED
      BY <3>1, <3>2, AlertsStep
  <2> QED
    BY <2>1, <2>2
<1> QED
  BY <1>1, <1>2, PTL DEF Spec, LowIsAlerted

-------------------------------------------------------------------------------
(* The money on checks.                                                    *)

\* What a request's row gives back of a tender, in all, and of what was given back on a check.
BackBy(d, t) == [r \in Requests |-> d.row[r].back[t]]

Back(d, t) == SumFunctionOnSet(BackBy(d, t), Requests)

IsTender(doc) == doc.status \in {"paid", "refunded"}

\* A check's tenders and refunds, as functions of all rows.
TakenBy(d, k) ==
    [t \in Requests |-> IF d.row[t].check = k /\ IsTender(d.row[t]) THEN d.row[t].amount ELSE 0]

GivenBy(d, k) ==
    [r \in Requests |-> IF d.row[r].check = k /\ d.row[r].status = "refund"
                        THEN d.row[r].amount ELSE 0]

BackOn(d, k, t) ==
    [r \in Requests |-> IF d.row[r].check = k /\ d.row[r].status = "refund"
                        THEN d.row[r].back[t] ELSE 0]

\* A check's sums fit it: what it was refunded is in its rows, and a cancelled one holds
\* nothing of the guest's.
CheckSound(d, k) ==
    /\ d.check[k].paid <= d.check[k].total
    /\ d.check[k].status = "absent" => d.check[k].paid = 0
    /\ d.check[k].status # "absent" => d.check[k].total > 0
    /\ d.check[k].status # "merged" =>
          d.check[k].refunded <= SumFunctionOnSet(GivenBy(d, k), Requests)
    /\ d.check[k].status = "cancelled" =>
          SumFunctionOnSet(TakenBy(d, k), Requests) <= SumFunctionOnSet(GivenBy(d, k), Requests)

\* A row is on a check that stands, only refunds give back, and only from tenders of the same
\* check, of each no more than it has and together no more than they say.
RowSound(d, r) ==
    /\ d.row[r].status # "absent" => d.check[d.row[r].check].status \notin {"absent", "merged"}
    /\ d.row[r].status \in {"paid", "refunded", "reversed"} => d.row[r].amount > 0
    /\ Back(d, r) <= d.row[r].amount
    /\ d.row[r].status = "refund" => SumFunctionOnSet(d.row[r].back, Requests) <= d.row[r].amount
    /\ \A t \in Requests :
          d.row[r].back[t] > 0 => /\ d.row[r].status = "refund"
                                  /\ d.row[t].status \in {"paid", "refunded", "reversed"}
                                  /\ d.row[t].check = d.row[r].check

MoneySound(d) ==
    /\ \A k \in Checks : CheckSound(d, k)
    /\ \A r \in Requests : RowSound(d, r)

\* A database of checks and rows.
LEMMA MoneyRecord ==
  ASSUME NEW d \in B!Databases
  PROVE  /\ DOMAIN d = {"check", "row"} /\ DOMAIN d.check = Checks /\ DOMAIN d.row = Requests
         /\ d = [check |-> d.check, row |-> d.row]
         /\ d.check \in [Checks -> B!CheckDocs] /\ d.row \in [Requests -> B!RowDocs]
BY DEF B!Databases

\* The fields of a check and of a row.
LEMMA MoneyFields ==
  ASSUME NEW d \in B!Databases
  PROVE  /\ \A k \in Checks : /\ d.check[k] \in B!CheckDocs
                              /\ d.check[k].total \in Nat /\ d.check[k].paid \in Nat
                              /\ d.check[k].refunded \in Nat
         /\ \A r \in Requests : /\ d.row[r] \in B!RowDocs
                                /\ d.row[r].check \in Checks /\ d.row[r].amount \in Nat
                                /\ d.row[r].back \in [Requests -> Nat]
                                /\ \A t \in Requests : d.row[r].back[t] \in Nat
<1>1. d.check \in [Checks -> B!CheckDocs] /\ d.row \in [Requests -> B!RowDocs]
  BY MoneyRecord
<1>2. \A doc \in B!CheckDocs : doc.total \in Nat /\ doc.paid \in Nat /\ doc.refunded \in Nat
  BY DEF B!CheckDocs
<1>3. \A doc \in B!RowDocs : /\ doc.check \in Checks /\ doc.amount \in Nat
                             /\ doc.back \in [Requests -> Nat]
  BY DEF B!RowDocs
<1> QED
  BY <1>1, <1>2, <1>3

\* Requests and checks are finitely many, and requests are numbered.
LEMMA MoneyFinite == IsFiniteSet(Requests) /\ IsFiniteSet(Checks) /\ Requests \subseteq Nat
BY RestaurantAssumption DEF B!MoneyAssumption, B!IsFiniteSet, IsFiniteSet

\* The sums of CheckMoney are those of Functions, taken over all that is not nothing.
LEMMA MoneyTotal ==
  ASSUME NEW X, IsFiniteSet(X), NEW f, NEW g, NEW x \in SUBSET X, DOMAIN f = x,
         \A y \in X : g[y] \in Int, \A y \in x : f[y] = g[y], \A y \in X \ x : g[y] = 0
  PROVE  B!Total(f) = SumFunctionOnSet(g, X)
<1>1. B!Total(f) = SumFunctionOnSet(f, x)
  BY DEF B!Total, B!SumFunction, B!SumFunctionOnSet, B!FoldFunctionOnSet, B!MapThenFoldSet,
     SumFunctionOnSet, FoldFunctionOnSet, MapThenFoldSet
<1>2. SumFunctionOnSet(g, X) = SumFunctionOnSet(g, x)
  BY SumOfSupport
<1>3. IsFiniteSet(x)
  BY FS_Subset
<1>4. SumFunctionOnSet(f, x) = SumFunctionOnSet(g, x)
  BY <1>3, SumEqual
<1> QED
  BY <1>1, <1>2, <1>4

\* What the code adds up over a check's rows.
LEMMA MoneySums ==
  ASSUME NEW d \in B!Databases, NEW k \in Checks
  PROVE  /\ B!Taken(d, k) = SumFunctionOnSet(TakenBy(d, k), Requests)
         /\ B!Given(d, k) = SumFunctionOnSet(GivenBy(d, k), Requests)
         /\ \A t \in Requests : B!Returned(d, k, t) = SumFunctionOnSet(BackOn(d, k, t), Requests)
         /\ SumFunctionOnSet(TakenBy(d, k), Requests) \in Nat
         /\ SumFunctionOnSet(GivenBy(d, k), Requests) \in Nat
<1>1. \A r \in Requests : /\ d.row[r].amount \in Nat
                          /\ \A t \in Requests : d.row[r].back[t] \in Nat
  BY MoneyFields
<1>2. B!Taken(d, k) = SumFunctionOnSet(TakenBy(d, k), Requests)
  <2>1. PICK x : x = B!Tenders(d, k)
    OBVIOUS
  <2>2. PICK f : f = [t \in x |-> d.row[t].amount]
    OBVIOUS
  <2>3. PICK g : g = TakenBy(d, k)
    OBVIOUS
  <2>4. /\ \A y \in Requests : g[y] \in Int
        /\ \A y \in Requests \ x : g[y] = 0 /\ \A z \in x : f[z] = g[z]
        /\ x \in SUBSET Requests /\ DOMAIN f = x
    BY <1>1, <2>1, <2>2, <2>3 DEF TakenBy, IsTender, B!Tenders
  <2>5. \A z \in x : f[z] = g[z]
    BY <1>1, <2>1, <2>2, <2>3 DEF TakenBy, IsTender, B!Tenders
  <2>6. B!Total(f) = SumFunctionOnSet(g, Requests)
    BY <2>4, <2>5, MoneyFinite, MoneyTotal
  <2> QED
    BY <2>1, <2>2, <2>3, <2>6 DEF B!Taken
<1>3. B!Given(d, k) = SumFunctionOnSet(GivenBy(d, k), Requests)
  <2>1. PICK x : x = B!Refunds(d, k)
    OBVIOUS
  <2>2. PICK f : f = [r \in x |-> d.row[r].amount]
    OBVIOUS
  <2>3. PICK g : g = GivenBy(d, k)
    OBVIOUS
  <2>4. /\ \A y \in Requests : g[y] \in Int
        /\ \A y \in Requests \ x : g[y] = 0
        /\ x \in SUBSET Requests /\ DOMAIN f = x
    BY <1>1, <2>1, <2>2, <2>3 DEF GivenBy, B!Refunds
  <2>5. \A z \in x : f[z] = g[z]
    BY <1>1, <2>1, <2>2, <2>3 DEF GivenBy, B!Refunds
  <2>6. B!Total(f) = SumFunctionOnSet(g, Requests)
    BY <2>4, <2>5, MoneyFinite, MoneyTotal
  <2> QED
    BY <2>1, <2>2, <2>3, <2>6 DEF B!Given
<1>4. ASSUME NEW t \in Requests
      PROVE  B!Returned(d, k, t) = SumFunctionOnSet(BackOn(d, k, t), Requests)
  <2>1. PICK x : x = B!Refunds(d, k)
    OBVIOUS
  <2>2. PICK f : f = [r \in x |-> d.row[r].back[t]]
    OBVIOUS
  <2>3. PICK g : g = BackOn(d, k, t)
    OBVIOUS
  <2>4. /\ \A y \in Requests : g[y] \in Int
        /\ \A y \in Requests \ x : g[y] = 0
        /\ x \in SUBSET Requests /\ DOMAIN f = x
    BY <1>1, <2>1, <2>2, <2>3 DEF BackOn, B!Refunds
  <2>5. \A z \in x : f[z] = g[z]
    BY <1>1, <2>1, <2>2, <2>3 DEF BackOn, B!Refunds
  <2>6. B!Total(f) = SumFunctionOnSet(g, Requests)
    BY <2>4, <2>5, MoneyFinite, MoneyTotal
  <2> QED
    BY <2>1, <2>2, <2>3, <2>6 DEF B!Returned
<1>5. SumFunctionOnSet(TakenBy(d, k), Requests) \in Nat
  <2>1. PICK g : g = TakenBy(d, k)
    OBVIOUS
  <2>2. \A y \in Requests : g[y] \in Nat
    BY <1>1, <2>1 DEF TakenBy
  <2> QED
    BY <2>1, <2>2, MoneyFinite, SumGrows
<1>6. SumFunctionOnSet(GivenBy(d, k), Requests) \in Nat
  <2>1. PICK g : g = GivenBy(d, k)
    OBVIOUS
  <2>2. \A y \in Requests : g[y] \in Nat
    BY <1>1, <2>1 DEF GivenBy
  <2> QED
    BY <2>1, <2>2, MoneyFinite, SumGrows
<1> QED
  BY <1>2, <1>3, <1>4, <1>5, <1>6

\* What is left of each tender; of those on one check.
Unreturned(d, t) == d.row[t].amount - Back(d, t)

LeftBy(d, k) ==
    [t \in Requests |-> IF d.row[t].check = k /\ IsTender(d.row[t]) THEN Unreturned(d, t) ELSE 0]

\* What is given back of a tender is some number.
LEMMA BackIs ==
  ASSUME NEW d \in B!Databases, NEW t \in Requests
  PROVE  Back(d, t) \in Nat /\ \A r \in Requests : BackBy(d, t)[r] = d.row[r].back[t]
<1>1. PICK f : f = BackBy(d, t)
  OBVIOUS
<1>2. \A r \in Requests : f[r] = d.row[r].back[t] /\ f[r] \in Nat
  BY <1>1, MoneyFields DEF BackBy
<1>3. SumFunctionOnSet(f, Requests) \in Nat
  BY <1>2, MoneyFinite, SumGrows
<1> QED
  BY <1>1, <1>2, <1>3 DEF Back

\* refundedAgainst: refunds of a tender are on its check.
LEMMA ReturnedIs ==
  ASSUME NEW d \in B!Databases, MoneySound(d), NEW t \in Requests,
         d.row[t].status \in {"paid", "refunded", "reversed"}
  PROVE  B!Returned(d, d.row[t].check, t) = Back(d, t)
<1>1. PICK k : k = d.row[t].check
  OBVIOUS
<1>2. k \in Checks
  BY <1>1, MoneyFields
<1>3. PICK f, g : f = BackOn(d, k, t) /\ g = BackBy(d, t)
  OBVIOUS
<1>4. ASSUME NEW r \in Requests PROVE f[r] = g[r]
  <2>1. d.row[r].back[t] \in Nat
    BY MoneyFields
  <2>2. d.row[r].back[t] > 0 => d.row[r].status = "refund" /\ k = d.row[r].check
    BY <1>1 DEF MoneySound, RowSound
  <2> QED
    BY <1>3, <2>1, <2>2 DEF BackOn, BackBy
<1>5. SumFunctionOnSet(f, Requests) = SumFunctionOnSet(g, Requests)
  BY <1>4, MoneyFinite, SumEqual
<1> QED
  BY <1>1, <1>2, <1>3, <1>5, MoneySums DEF Back

\* On any check, no more is given back than a tender has.
LEMMA ReturnedFits ==
  ASSUME NEW d \in B!Databases, MoneySound(d), NEW t \in Requests, NEW k \in Checks
  PROVE  B!Returned(d, k, t) <= d.row[t].amount
<1>1. PICK f, g : f = BackOn(d, k, t) /\ g = BackBy(d, t)
  OBVIOUS
<1>2. \A r \in Requests : f[r] \in Int /\ g[r] \in Int /\ f[r] <= g[r]
  BY <1>1, MoneyFields DEF BackOn, BackBy
<1>3. SumFunctionOnSet(f, Requests) <= SumFunctionOnSet(g, Requests)
  BY <1>2, MoneyFinite, SumOrder
<1>4. SumFunctionOnSet(f, Requests) \in Int /\ SumFunctionOnSet(g, Requests) \in Int
  BY <1>2, MoneyFinite, SumType
<1>5. Back(d, t) <= d.row[t].amount /\ d.row[t].amount \in Nat
  BY MoneyFields DEF MoneySound, RowSound
<1> QED
  BY <1>1, <1>3, <1>4, <1>5, MoneySums DEF Back

\* refundableAmount is no more than what is left of the check's tenders.
LEMMA RefundableFits ==
  ASSUME NEW d \in B!Databases, MoneySound(d), NEW k \in Checks
  PROVE  /\ B!Refundable(d, k) \in Nat
         /\ SumFunctionOnSet(LeftBy(d, k), Requests) \in Nat
         /\ B!Refundable(d, k) <= SumFunctionOnSet(LeftBy(d, k), Requests)
<1> DEFINE On(t) == d.row[t].check = k /\ IsTender(d.row[t])
           Cell(t, r) == IF On(t) THEN d.row[r].back[t] ELSE 0
<1>1. PICK taken, given, left :
         taken = TakenBy(d, k) /\ given = GivenBy(d, k) /\ left = LeftBy(d, k)
  OBVIOUS
<1>2. PICK entry : entry = [t \in Requests |-> [r \in Requests |-> Cell(t, r)]]
  OBVIOUS
<1>3. PICK line : line = [r \in Requests |-> [t \in Requests |-> Cell(t, r)]]
  OBVIOUS
<1>4. PICK column : column = [t \in Requests |-> SumFunctionOnSet(entry[t], Requests)]
  OBVIOUS
<1>5. PICK total : total = [r \in Requests |-> SumFunctionOnSet(line[r], Requests)]
  OBVIOUS
<1>6. \A r, t \in Requests : /\ entry[t][r] = Cell(t, r) /\ line[r][t] = Cell(t, r)
                             /\ Cell(t, r) \in Nat /\ Cell(t, r) <= d.row[r].back[t]
                             /\ d.row[r].back[t] \in Nat
  BY <1>2, <1>3, MoneyFields
<1>7. SumFunctionOnSet(column, Requests) = SumFunctionOnSet(total, Requests)
  <2>1. IsTable(Requests, Requests, entry, line, column, total)
    BY <1>4, <1>5, <1>6 DEF IsTable
  <2> QED
    BY <2>1, MoneyFinite, SumByColumns
<1>8. ASSUME NEW t \in Requests
      PROVE  /\ column[t] \in Nat /\ left[t] \in Nat /\ taken[t] = left[t] + column[t]
  <2>1. Back(d, t) \in Nat /\ d.row[t].amount \in Nat
    BY BackIs, MoneyFields
  <2>2. Back(d, t) <= d.row[t].amount
    BY DEF MoneySound, RowSound
  <2>3. CASE On(t)
    <3>1. \A r \in Requests : entry[t][r] = BackBy(d, t)[r]
      BY <1>6, <2>3, BackIs
    <3>2. column[t] = Back(d, t)
      BY <1>4, <3>1, MoneyFinite, SumEqual DEF Back
    <3> QED
      BY <1>1, <2>1, <2>2, <2>3, <3>2 DEF LeftBy, TakenBy, Unreturned
  <2>4. CASE ~On(t)
    <3>1. column[t] = 0
      BY <1>4, <1>6, <2>4, MoneyFinite, SumZero
    <3> QED
      BY <1>1, <2>4, <3>1 DEF LeftBy, TakenBy
  <2> QED
    BY <2>3, <2>4
<1>9. ASSUME NEW r \in Requests
      PROVE  total[r] \in Nat /\ given[r] \in Nat /\ total[r] <= given[r]
  <2>1. PICK f, b : f = line[r] /\ b = d.row[r].back
    OBVIOUS
  <2>2. \A t \in Requests : f[t] \in Nat /\ b[t] \in Nat /\ f[t] <= b[t]
    BY <1>6, <2>1
  <2>3. SumFunctionOnSet(f, Requests) \in Nat /\ SumFunctionOnSet(b, Requests) \in Nat
    BY <2>2, MoneyFinite, SumGrows
  <2>4. SumFunctionOnSet(f, Requests) <= SumFunctionOnSet(b, Requests)
    <3>1. \A t \in Requests : f[t] \in Int /\ b[t] \in Int /\ f[t] <= b[t]
      BY <2>2
    <3> QED
      BY <3>1, MoneyFinite, SumOrder
  <2>5. total[r] = SumFunctionOnSet(f, Requests)
    BY <1>5, <2>1
  <2>6. d.row[r].amount \in Nat
    BY MoneyFields
  <2>7. CASE d.row[r].check = k /\ d.row[r].status = "refund"
    <3>1. SumFunctionOnSet(b, Requests) <= d.row[r].amount
      BY <2>1, <2>7 DEF MoneySound, RowSound
    <3>2. given[r] = d.row[r].amount
      BY <1>1, <2>7 DEF GivenBy
    <3> QED
      BY <2>3, <2>4, <2>5, <2>6, <3>1, <3>2
  <2>8. CASE ~(d.row[r].check = k /\ d.row[r].status = "refund")
    <3>1. \A t \in Requests : f[t] = 0
      <4>1. \A t \in Requests : On(t) => ~(d.row[r].back[t] > 0)
        BY <2>8 DEF MoneySound, RowSound
      <4> QED
        BY <1>6, <2>1, <4>1
    <3>2. total[r] = 0
      BY <2>5, <3>1, MoneyFinite, SumZero
    <3>3. given[r] = 0
      BY <1>1, <2>8 DEF GivenBy
    <3> QED
      BY <3>2, <3>3
  <2> QED
    BY <2>7, <2>8
<1> HIDE DEF On, Cell
<1>10. SumFunctionOnSet(total, Requests) <= SumFunctionOnSet(given, Requests)
  <2>1. \A r \in Requests : total[r] \in Int /\ given[r] \in Int /\ total[r] <= given[r]
    BY <1>9
  <2> QED
    BY <2>1, MoneyFinite, SumOrder
<1>11. SumFunctionOnSet(taken, Requests)
          = SumFunctionOnSet(left, Requests) + SumFunctionOnSet(column, Requests)
  <2>1. \A t \in Requests : left[t] \in Int /\ column[t] \in Int /\ taken[t] = left[t] + column[t]
    BY <1>8
  <2> QED
    BY <2>1, MoneyFinite, SumPlus
<1>12. /\ SumFunctionOnSet(left, Requests) \in Nat /\ SumFunctionOnSet(column, Requests) \in Nat
  BY <1>8, MoneyFinite, SumGrows
<1>13. /\ B!Taken(d, k) = SumFunctionOnSet(taken, Requests)
       /\ B!Given(d, k) = SumFunctionOnSet(given, Requests)
       /\ B!Taken(d, k) \in Nat /\ B!Given(d, k) \in Nat
  BY <1>1, MoneySums
<1> QED
  BY <1>1, <1>7, <1>10, <1>11, <1>12, <1>13 DEF B!Refundable, B!Minus

\* What may still have to be given back: what is left of the tenders, and of tenders that were
\* reversed behind the back of a request that might draw on them.  What the checks were paid.
Stake(d, late) ==
    [t \in Requests |-> IF IsTender(d.row[t]) \/ t \in late THEN Unreturned(d, t) ELSE 0]

PaidOn(d) == [k \in Checks |-> IF d.check[k].status = "merged" THEN 0 ELSE d.check[k].paid]

Covered(d, late) ==
    SumFunctionOnSet(Stake(d, late), Requests) <= SumFunctionOnSet(PaidOn(d), Checks)

\* Of every row, something between nothing and all is left.
LEMMA UnreturnedIs ==
  ASSUME NEW d \in B!Databases, MoneySound(d), NEW t \in Requests
  PROVE  Unreturned(d, t) \in Nat
<1>1. Back(d, t) \in Nat /\ d.row[t].amount \in Nat /\ Back(d, t) <= d.row[t].amount
  BY BackIs, MoneyFields DEF MoneySound, RowSound
<1> QED
  BY <1>1 DEF Unreturned

\* What can be refunded of all checks is at stake.
LEMMA RefundableCovered ==
  ASSUME NEW d \in B!Databases, MoneySound(d), NEW late
  PROVE  B!Total([k \in Checks |-> B!Refundable(d, k)])
            <= SumFunctionOnSet(Stake(d, late), Requests)
<1>1. PICK entry : entry = [k \in Checks |-> LeftBy(d, k)]
  OBVIOUS
<1>2. PICK line : line = [t \in Requests |-> [k \in Checks |-> LeftBy(d, k)[t]]]
  OBVIOUS
<1>3. PICK column : column = [k \in Checks |-> SumFunctionOnSet(entry[k], Requests)]
  OBVIOUS
<1>4. PICK total : total = [t \in Requests |-> SumFunctionOnSet(line[t], Checks)]
  OBVIOUS
<1>5. PICK f, stake : /\ f = [k \in Checks |-> B!Refundable(d, k)] /\ stake = Stake(d, late)
  OBVIOUS
<1>6. \A t \in Requests : Unreturned(d, t) \in Nat
  BY UnreturnedIs
<1>7. \A t \in Requests, k \in Checks :
          /\ entry[k][t] = IF d.row[t].check = k /\ IsTender(d.row[t]) THEN Unreturned(d, t) ELSE 0
          /\ line[t][k] = entry[k][t] /\ entry[k][t] \in Int
  BY <1>1, <1>2, <1>6 DEF LeftBy
<1>8. IsTable(Checks, Requests, entry, line, column, total)
  BY <1>3, <1>4, <1>7 DEF IsTable
<1>9. SumFunctionOnSet(column, Checks) = SumFunctionOnSet(total, Requests)
  BY <1>8, MoneyFinite, SumByColumns
<1>10. ASSUME NEW t \in Requests
       PROVE  total[t] \in Int /\ stake[t] \in Int /\ total[t] <= stake[t]
  <2>1. PICK g : g = line[t]
    OBVIOUS
  <2>2. PICK k : k = d.row[t].check
    OBVIOUS
  <2>3. k \in Checks
    BY <2>2, MoneyFields
  <2>4. stake[t] = IF IsTender(d.row[t]) \/ t \in late THEN Unreturned(d, t) ELSE 0
    BY <1>5 DEF Stake
  <2>5. CASE IsTender(d.row[t])
    <3>1. g[k] = Unreturned(d, t) /\ \A q \in Checks \ {k} : g[q] = 0
      BY <1>7, <2>1, <2>2, <2>3, <2>5
    <3>2. SumFunctionOnSet(g, Checks) = g[k]
      BY <1>6, <2>3, <3>1, MoneyFinite, SumOfOne
    <3> QED
      BY <1>4, <1>6, <2>1, <2>4, <2>5, <3>1, <3>2
  <2>6. CASE ~IsTender(d.row[t])
    <3>1. \A q \in Checks : g[q] = 0
      BY <1>7, <2>1, <2>6
    <3>2. SumFunctionOnSet(g, Checks) = 0
      BY <3>1, MoneyFinite, SumZero
    <3> QED
      BY <1>4, <1>6, <2>1, <2>4, <3>2
  <2> QED
    BY <2>5, <2>6
<1>11. SumFunctionOnSet(total, Requests) <= SumFunctionOnSet(stake, Requests)
  BY <1>10, MoneyFinite, SumOrder
<1>12. \A k \in Checks : f[k] \in Int /\ column[k] \in Int /\ f[k] <= column[k]
  BY <1>1, <1>3, <1>5, RefundableFits
<1>13. SumFunctionOnSet(f, Checks) <= SumFunctionOnSet(column, Checks)
  BY <1>12, MoneyFinite, SumOrder
<1>14. B!Total(f) = SumFunctionOnSet(f, Checks)
  BY <1>5, <1>12, MoneyFinite, MoneyTotal
<1>15. /\ SumFunctionOnSet(f, Checks) \in Int /\ SumFunctionOnSet(column, Checks) \in Int
       /\ SumFunctionOnSet(total, Requests) \in Int /\ SumFunctionOnSet(stake, Requests) \in Int
  <2>1. SumFunctionOnSet(f, Checks) \in Int /\ SumFunctionOnSet(column, Checks) \in Int
    BY <1>12, MoneyFinite, SumType
  <2>2. SumFunctionOnSet(total, Requests) \in Int /\ SumFunctionOnSet(stake, Requests) \in Int
    BY <1>10, MoneyFinite, SumType
  <2> QED
    BY <2>1, <2>2
<1> QED
  BY <1>5, <1>9, <1>11, <1>13, <1>14, <1>15

\* What holds of a sound database whose stake is covered.
LEMMA MoneyHolds ==
  ASSUME db \in B!Databases, MoneySound(db), NEW late, Covered(db, late)
  PROVE  B!RefundsCovered /\ B!ClosedHoldsNothing /\ B!NoOvercharge
<1>1. B!RefundsCovered
  BY ReturnedFits, MoneyFields DEF B!RefundsCovered
<1>2. ASSUME NEW k \in Checks, db.check[k].status \in {"cancelled", "merged"}
      PROVE  B!Refundable(db, k) = 0
  <2>1. /\ B!Taken(db, k) = SumFunctionOnSet(TakenBy(db, k), Requests)
        /\ B!Given(db, k) = SumFunctionOnSet(GivenBy(db, k), Requests)
        /\ B!Taken(db, k) \in Nat /\ B!Given(db, k) \in Nat
    BY MoneySums
  <2>2. CASE db.check[k].status = "cancelled"
    BY <2>1, <2>2 DEF MoneySound, CheckSound, B!Refundable, B!Minus
  <2>3. CASE db.check[k].status = "merged"
    <3>1. PICK g : g = TakenBy(db, k)
      OBVIOUS
    <3>2. \A t \in Requests : db.row[t].check = k => db.row[t].status = "absent"
      BY <2>3 DEF MoneySound, RowSound
    <3>3. \A t \in Requests : g[t] = 0
      BY <3>1, <3>2 DEF TakenBy, IsTender
    <3>4. SumFunctionOnSet(g, Requests) = 0
      BY <3>3, MoneyFinite, SumZero
    <3> QED
      BY <2>1, <3>1, <3>4 DEF B!Refundable, B!Minus
  <2> QED
    BY <1>2, <2>2, <2>3
<1>3. B!ClosedHoldsNothing
  BY <1>2 DEF B!ClosedHoldsNothing
<1>4. B!NoOvercharge
  <2>1. PICK bills : bills = {k \in Checks : db.check[k].status # "merged"}
    OBVIOUS
  <2>2. PICK f, g, h : /\ f = [k \in bills |-> db.check[k].paid] /\ g = PaidOn(db)
                       /\ h = [k \in bills |-> db.check[k].total]
    OBVIOUS
  <2>3. \A k \in Checks : /\ db.check[k].paid \in Nat /\ db.check[k].total \in Nat
                          /\ db.check[k].paid <= db.check[k].total
    BY MoneyFields DEF MoneySound, CheckSound
  <2>4. bills \in SUBSET Checks /\ IsFiniteSet(bills)
    BY <2>1, MoneyFinite, FS_Subset
  <2>5. B!Total(f) = SumFunctionOnSet(g, Checks)
    <3>1. /\ \A y \in Checks : g[y] \in Int
          /\ \A y \in bills : f[y] = g[y] /\ \A z \in Checks \ bills : g[z] = 0
      BY <2>1, <2>2, <2>3 DEF PaidOn
    <3>2. /\ \A y \in bills : f[y] = g[y]
          /\ \A z \in Checks \ bills : g[z] = 0 /\ DOMAIN f = bills
      BY <2>1, <2>2, <2>3 DEF PaidOn
    <3>3. DOMAIN f = bills /\ \A z \in Checks \ bills : g[z] = 0
      BY <2>1, <2>2, <2>3 DEF PaidOn
    <3> QED
      BY <2>4, <3>1, <3>2, <3>3, MoneyFinite, MoneyTotal
  <2>6. B!Total(f) = SumFunctionOnSet(f, bills) /\ B!Total(h) = SumFunctionOnSet(h, bills)
    <3>1. \A y \in bills : f[y] \in Int /\ h[y] \in Int
      BY <2>2, <2>3, <2>4
    <3>2. DOMAIN f = bills /\ DOMAIN h = bills
      BY <2>2
    <3> QED
      BY <2>4, <3>1, <3>2, MoneyTotal
  <2>7. SumFunctionOnSet(f, bills) <= SumFunctionOnSet(h, bills)
    <3>1. \A y \in bills : f[y] \in Int /\ h[y] \in Int /\ f[y] <= h[y]
      BY <2>2, <2>3, <2>4
    <3> QED
      BY <2>4, <3>1, SumOrder
  <2>8. B!Total([k \in Checks |-> B!Refundable(db, k)])
           <= SumFunctionOnSet(Stake(db, late), Requests)
    BY RefundableCovered
  <2>9. /\ SumFunctionOnSet(Stake(db, late), Requests) \in Int
        /\ B!Total([k \in Checks |-> B!Refundable(db, k)]) \in Int
        /\ B!Total(f) \in Int
    <3>1. PICK s, x : s = Stake(db, late) /\ x = [k \in Checks |-> B!Refundable(db, k)]
      OBVIOUS
    <3>2. \A t \in Requests : s[t] \in Int
      BY <3>1, UnreturnedIs DEF Stake
    <3>3. \A k \in Checks : x[k] \in Int
      BY <3>1, RefundableFits
    <3>4. B!Total(x) = SumFunctionOnSet(x, Checks)
      BY <3>1, <3>3, MoneyFinite, MoneyTotal
    <3>5. \A k \in bills : f[k] \in Int
      BY <2>2, <2>3, <2>4
    <3>6. SumFunctionOnSet(f, bills) \in Int
      BY <2>4, <3>5, SumType
    <3>7. SumFunctionOnSet(x, Checks) \in Int /\ SumFunctionOnSet(s, Requests) \in Int
      BY <3>2, <3>3, MoneyFinite, SumType
    <3> QED
      BY <2>6, <3>1, <3>4, <3>6, <3>7
  <2> QED
    BY <2>1, <2>2, <2>5, <2>6, <2>7, <2>8, <2>9 DEF B!NoOvercharge, Covered
<1> QED
  BY <1>1, <1>3, <1>4

\* A row as it was read and as it is: the same, or a tender that was reversed since.
Follows(old, new) ==
    \/ new = old
    \/ /\ old.status = "paid" /\ new.status = "reversed"
       /\ new.check = old.check /\ new.amount = old.amount /\ new.back = old.back

IsOn(doc, k) == doc.status # "absent" /\ doc.check = k

Changes(s, n, k) == n.check[k] # s.check[k]

\* What is at stake of a row that is new, or on a check that is written.
Change(s, n) ==
    [t \in Requests |->
        IF s.row[t].status = "absent" \/ Changes(s, n, s.row[t].check)
        THEN Stake(n, {})[t] - Stake(s, {})[t] ELSE 0]

\* What a request does, were it alone: it writes the checks whose rows it writes, unless it
\* reverses a tender, and no more comes to be at stake than is paid.
MoneyMove(s, n) ==
    /\ \A r \in Requests :
          \/ n.row[r] = s.row[r] \/ Follows(s.row[r], n.row[r])
          \/ \A k \in Checks : IsOn(s.row[r], k) \/ IsOn(n.row[r], k) => Changes(s, n, k)
    /\ \A r \in Requests :
          s.row[r].status # "absent" => /\ n.row[r].status # "absent"
                                        /\ n.row[r].amount = s.row[r].amount
    /\ \A t \in Requests :
          Back(n, t) # Back(s, t) =>
             s.row[t].status # "absent" /\ Changes(s, n, s.row[t].check)
    /\ SumFunctionOnSet(Change(s, n), Requests) + SumFunctionOnSet(PaidOn(s), Checks)
          <= SumFunctionOnSet(PaidOn(n), Checks)

\* What is read is written on top of what is there: a document that is not changed may have
\* been by others.
Replaces(old, new, there, then) ==
    IF new = old THEN then = there ELSE then = new /\ there = old

\* The rows of a check that is written are as they were read, up to late reversals.
Seen(s, n, d, late) ==
    \A k \in Checks, r \in Requests :
        Changes(s, n, k) /\ (IsOn(s.row[r], k) \/ IsOn(d.row[r], k)) =>
           /\ Follows(s.row[r], d.row[r])
           /\ s.row[r].status = "paid" /\ d.row[r].status = "reversed" => r \in late

\* A request read s and makes n of it, which makes e of d.
Interleaved(s, n, d, e, late, later) ==
    /\ s \in B!Databases /\ n \in B!Databases /\ d \in B!Databases /\ e \in B!Databases
    /\ MoneySound(s) /\ MoneySound(n) /\ MoneySound(d)
    /\ MoneyMove(s, n)
    /\ \A k \in Checks : Replaces(s.check[k], n.check[k], d.check[k], e.check[k])
    /\ \A r \in Requests : Replaces(s.row[r], n.row[r], d.row[r], e.row[r])
    /\ Seen(s, n, d, late)
    /\ \A t \in Requests : t \in late => d.row[t].status = "reversed"
    /\ \A t \in Requests : t \in later =>
          /\ e.row[t].status = "reversed" /\ ~Changes(s, n, d.row[t].check)
          /\ t \in late \/ d.row[t].status = "paid"

Balanced(X, fs, fn, fd, fe) ==
    \A x \in X : /\ fs[x] \in Int /\ fn[x] \in Int /\ fd[x] \in Int /\ fe[x] \in Int
                 /\ fe[x] + fs[x] = fd[x] + fn[x]

\* Where two pairs differ alike everywhere, their sums do.
LEMMA SumBalance ==
  ASSUME NEW X, IsFiniteSet(X), NEW fs, NEW fn, NEW fd, NEW fe, Balanced(X, fs, fn, fd, fe)
  PROVE  SumFunctionOnSet(fe, X) + SumFunctionOnSet(fs, X)
            = SumFunctionOnSet(fd, X) + SumFunctionOnSet(fn, X)
<1>1. PICK h : h = [x \in X |-> fe[x] + fs[x]]
  OBVIOUS
<1>2. \A x \in X : fe[x] \in Int /\ fs[x] \in Int /\ h[x] = fe[x] + fs[x]
  BY <1>1 DEF Balanced
<1>3. \A x \in X : fd[x] \in Int /\ fn[x] \in Int /\ h[x] = fd[x] + fn[x]
  BY <1>1 DEF Balanced
<1>4. SumFunctionOnSet(h, X) = SumFunctionOnSet(fe, X) + SumFunctionOnSet(fs, X)
  BY <1>2, SumPlus
<1>5. SumFunctionOnSet(h, X) = SumFunctionOnSet(fd, X) + SumFunctionOnSet(fn, X)
  BY <1>3, SumPlus
<1> QED
  BY <1>4, <1>5

\* What is given back of a tender grows by what the request gives back.
LEMMA BackMoves ==
  ASSUME NEW s, NEW n, NEW d, NEW e, NEW late, NEW later, Interleaved(s, n, d, e, late, later),
         NEW t \in Requests
  PROVE  Back(e, t) + Back(s, t) = Back(d, t) + Back(n, t)
<1>1. PICK fs, fn, fd, fe : /\ fs = BackBy(s, t) /\ fn = BackBy(n, t)
                            /\ fd = BackBy(d, t) /\ fe = BackBy(e, t)
  OBVIOUS
<1>2. \A r \in Requests : /\ fs[r] = s.row[r].back[t] /\ fn[r] = n.row[r].back[t]
                          /\ fd[r] = d.row[r].back[t] /\ fe[r] = e.row[r].back[t]
  BY <1>1 DEF BackBy
<1>3. \A r \in Requests : /\ s.row[r].back[t] \in Nat /\ n.row[r].back[t] \in Nat
                          /\ d.row[r].back[t] \in Nat /\ e.row[r].back[t] \in Nat
  BY MoneyFields DEF Interleaved
<1>4. \A r \in Requests : \/ n.row[r] = s.row[r] /\ e.row[r] = d.row[r]
                          \/ e.row[r] = n.row[r] /\ d.row[r] = s.row[r]
  BY DEF Interleaved, Replaces
<1>5. Balanced(Requests, fs, fn, fd, fe)
  BY <1>2, <1>3, <1>4 DEF Balanced
<1> QED
  BY <1>1, <1>5, MoneyFinite, SumBalance DEF Back

\* On a check it writes, it has seen what was given back.
LEMMA BackSeen ==
  ASSUME NEW s, NEW n, NEW d, NEW e, NEW late, NEW later, Interleaved(s, n, d, e, late, later),
         NEW t \in Requests, s.row[t].status # "absent", Changes(s, n, s.row[t].check)
  PROVE  Back(d, t) = Back(s, t)
<1>1. PICK fs, fd : fs = BackBy(s, t) /\ fd = BackBy(d, t)
  OBVIOUS
<1>2. PICK k : k = s.row[t].check
  OBVIOUS
<1>3. k \in Checks
  BY <1>2, MoneyFields DEF Interleaved
<1>4. Follows(s.row[t], d.row[t])
  BY <1>2, <1>3 DEF Interleaved, Seen, IsOn
<1>5. d.row[t].check = k
  BY <1>2, <1>4 DEF Follows
<1>6. ASSUME NEW r \in Requests PROVE fs[r] = fd[r]
  <2>1. s.row[r].back[t] \in Nat /\ d.row[r].back[t] \in Nat
    BY MoneyFields DEF Interleaved
  <2>2. s.row[r].back[t] > 0 => IsOn(s.row[r], k)
    BY <1>2 DEF Interleaved, MoneySound, RowSound, IsOn
  <2>3. d.row[r].back[t] > 0 => IsOn(d.row[r], k)
    BY <1>5 DEF Interleaved, MoneySound, RowSound, IsOn
  <2>4. IsOn(s.row[r], k) \/ IsOn(d.row[r], k) => Follows(s.row[r], d.row[r])
    BY <1>2, <1>3 DEF Interleaved, Seen
  <2>5. s.row[r].back[t] = d.row[r].back[t]
    BY <2>1, <2>2, <2>3, <2>4 DEF Follows
  <2> QED
    BY <1>1, <2>5 DEF BackBy
<1> QED
  BY <1>1, <1>6, MoneyFinite, SumEqual DEF Back

\* Of a row that is not there, nothing is given back.
LEMMA BackNone ==
  ASSUME NEW d \in B!Databases, MoneySound(d), NEW t \in Requests, d.row[t].status = "absent"
  PROVE  Back(d, t) = 0
<1>1. PICK f : f = BackBy(d, t)
  OBVIOUS
<1>2. \A r \in Requests : d.row[r].back[t] \in Nat /\ ~(d.row[r].back[t] > 0)
  BY MoneyFields DEF MoneySound, RowSound
<1>3. \A r \in Requests : f[r] = 0
  BY <1>1, <1>2 DEF BackBy
<1> QED
  BY <1>1, <1>3, MoneyFinite, SumZero DEF Back

\* So rows are sound after it.
LEMMA RowsAfter ==
  ASSUME NEW s, NEW n, NEW d, NEW e, NEW late, NEW later, Interleaved(s, n, d, e, late, later),
         NEW r \in Requests
  PROVE  RowSound(e, r)
<1>1. PICK k : k = e.row[r].check
  OBVIOUS
<1>2. /\ k \in Checks /\ s.row[r].check \in Checks /\ n.row[r].check \in Checks
      /\ d.row[r].check \in Checks
  BY <1>1, MoneyFields DEF Interleaved
<1>3. /\ RowSound(s, r) /\ RowSound(n, r) /\ RowSound(d, r)
      /\ Replaces(s.row[r], n.row[r], d.row[r], e.row[r])
      /\ Replaces(s.check[k], n.check[k], d.check[k], e.check[k])
  BY <1>2 DEF Interleaved, MoneySound
<1>4. e.row[r].status # "absent" => e.check[k].status \notin {"absent", "merged"}
  <2>1. CASE e.row[r] = n.row[r] /\ d.row[r] = s.row[r] /\ n.row[r] # s.row[r]
    <3>1. CASE \A q \in Checks : IsOn(s.row[r], q) \/ IsOn(n.row[r], q) => Changes(s, n, q)
      BY <1>1, <1>2, <1>3, <2>1, <3>1 DEF RowSound, IsOn, Changes, Replaces
    <3>2. CASE Follows(s.row[r], n.row[r])
      BY <1>1, <1>2, <1>3, <2>1, <3>2 DEF RowSound, Follows, Replaces
    <3> QED
      BY <2>1, <3>1, <3>2 DEF Interleaved, MoneyMove
  <2>2. CASE e.row[r] = d.row[r] /\ n.row[r] = s.row[r]
    <3>1. IsOn(d.row[r], k) /\ Changes(s, n, k) => Follows(s.row[r], d.row[r])
      BY <1>2 DEF Interleaved, Seen
    <3> QED
      BY <1>1, <1>2, <1>3, <2>2, <3>1 DEF RowSound, IsOn, Changes, Replaces, Follows
  <2> QED
    BY <1>3, <2>1, <2>2 DEF Replaces
<1>5. e.row[r].status \in {"paid", "refunded", "reversed"} => e.row[r].amount > 0
  BY <1>3 DEF RowSound, Replaces
<1>6. Back(e, r) <= e.row[r].amount
  <2>1. /\ Back(s, r) \in Nat /\ Back(n, r) \in Nat /\ Back(d, r) \in Nat /\ Back(e, r) \in Nat
        /\ s.row[r].amount \in Nat /\ n.row[r].amount \in Nat
        /\ d.row[r].amount \in Nat /\ e.row[r].amount \in Nat
    BY BackIs, MoneyFields DEF Interleaved
  <2>2. Back(e, r) + Back(s, r) = Back(d, r) + Back(n, r)
    BY BackMoves
  <2>3. CASE Back(n, r) = Back(s, r)
    <3>1. Back(e, r) = Back(d, r)
      BY <2>1, <2>2, <2>3
    <3>2. s.row[r].status # "absent" => n.row[r].amount = s.row[r].amount
      BY DEF Interleaved, MoneyMove
    <3>3. CASE e.row[r].amount = d.row[r].amount
      BY <1>3, <3>1, <3>3 DEF RowSound
    <3>4. CASE d.row[r] = s.row[r] /\ e.row[r] = n.row[r]
      <4>1. s.row[r].status = "absent" => Back(d, r) = 0
        BY <3>4, BackNone DEF Interleaved
      <4> QED
        BY <1>3, <2>1, <3>1, <3>2, <3>4, <4>1 DEF RowSound
    <3> QED
      BY <1>3, <3>3, <3>4 DEF Replaces
  <2>4. CASE Back(n, r) # Back(s, r)
    <3>1. s.row[r].status # "absent" /\ Changes(s, n, s.row[r].check)
      BY <2>4 DEF Interleaved, MoneyMove
    <3>2. Back(d, r) = Back(s, r)
      BY <3>1, BackSeen
    <3>3. Follows(s.row[r], d.row[r])
      BY <1>2, <3>1 DEF Interleaved, Seen, IsOn
    <3>4. e.row[r].amount = n.row[r].amount
      BY <1>3, <3>3 DEF Replaces, Follows
    <3> QED
      BY <1>3, <2>1, <2>2, <3>2, <3>4 DEF RowSound
  <2> QED
    BY <2>3, <2>4
<1>7. e.row[r].status = "refund" => SumFunctionOnSet(e.row[r].back, Requests) <= e.row[r].amount
  BY <1>3 DEF RowSound, Replaces
<1>8. ASSUME NEW t \in Requests, e.row[r].back[t] > 0
      PROVE  /\ e.row[r].status = "refund"
             /\ e.row[t].status \in {"paid", "refunded", "reversed"}
             /\ e.row[t].check = e.row[r].check
  <2> DEFINE Good(x) == /\ x.row[r].status = "refund"
                        /\ x.row[t].status \in {"paid", "refunded", "reversed"}
                        /\ x.row[t].check = x.row[r].check
  <2>1. /\ s.row[r].back[t] > 0 => Good(s)
        /\ n.row[r].back[t] > 0 => Good(n)
        /\ d.row[r].back[t] > 0 => Good(d)
    BY <1>3 DEF RowSound
  <2>2. /\ Replaces(s.row[t], n.row[t], d.row[t], e.row[t])
        /\ s.row[t].check \in Checks
    BY MoneyFields DEF Interleaved
  <2>3. CASE e.row[r] = n.row[r] /\ d.row[r] = s.row[r] /\ n.row[r] # s.row[r]
    <3>1. Good(n)
      BY <1>8, <2>1, <2>3
    <3>2. CASE e.row[t] = n.row[t]
      BY <2>3, <3>1, <3>2
    <3>3. CASE e.row[t] = d.row[t] /\ n.row[t] = s.row[t]
      <4>1. Changes(s, n, n.row[r].check)
        <5>1. IsOn(n.row[r], n.row[r].check) /\ ~Follows(s.row[r], n.row[r])
          BY <2>3, <3>1 DEF IsOn, Follows
        <5> QED
          BY <1>2, <2>3, <5>1 DEF Interleaved, MoneyMove
      <4>2. IsOn(s.row[t], n.row[r].check)
        BY <3>1, <3>3 DEF IsOn
      <4>3. Follows(s.row[t], d.row[t])
        BY <1>2, <4>1, <4>2 DEF Interleaved, Seen
      <4> QED
        BY <2>3, <3>1, <3>3, <4>3 DEF Follows
    <3> QED
      BY <2>2, <3>2, <3>3 DEF Replaces
  <2>4. CASE e.row[r] = d.row[r] /\ n.row[r] = s.row[r]
    <3>1. Good(d)
      BY <1>8, <2>1, <2>4
    <3>2. CASE e.row[t] = d.row[t]
      BY <2>4, <3>1, <3>2
    <3>3. CASE e.row[t] = n.row[t] /\ d.row[t] = s.row[t] /\ n.row[t] # s.row[t]
      <4>1. CASE Follows(s.row[t], n.row[t])
        BY <2>4, <3>1, <3>3, <4>1 DEF Follows
      <4>2. CASE ~Follows(s.row[t], n.row[t])
        <5>1. IsOn(s.row[t], s.row[t].check)
          BY <3>1, <3>3 DEF IsOn
        <5>2. Changes(s, n, s.row[t].check)
          BY <2>2, <3>3, <4>2, <5>1 DEF Interleaved, MoneyMove
        <5>3. IsOn(d.row[r], s.row[t].check)
          BY <3>1, <3>3 DEF IsOn
        <5>4. Follows(s.row[r], d.row[r])
          BY <2>2, <5>2, <5>3 DEF Interleaved, Seen
        <5>5. s.row[r] = d.row[r]
          BY <3>1, <5>4 DEF Follows
        <5>6. Good(n)
          BY <1>8, <2>1, <2>4, <5>5
        <5> QED
          BY <2>4, <3>3, <5>5, <5>6
      <4> QED
        BY <4>1, <4>2
    <3> QED
      BY <2>2, <3>2, <3>3 DEF Replaces
  <2> QED
    BY <1>3, <2>3, <2>4 DEF Replaces
<1> QED
  BY <1>1, <1>4, <1>5, <1>6, <1>7, <1>8 DEF RowSound

\* Unless it is written, a check's rows stay, up to reversals.
LEMMA ChecksAfter ==
  ASSUME NEW s, NEW n, NEW d, NEW e, NEW late, NEW later, Interleaved(s, n, d, e, late, later),
         NEW k \in Checks
  PROVE  CheckSound(e, k)
<1>1. PICK x : x = IF Changes(s, n, k) THEN n ELSE d
  OBVIOUS
<1>2. x \in B!Databases /\ e \in B!Databases /\ CheckSound(x, k) /\ e.check[k] = x.check[k]
  BY <1>1 DEF Interleaved, MoneySound, Replaces, Changes
<1>3. PICK tx, te, gx, ge : /\ tx = TakenBy(x, k) /\ te = TakenBy(e, k)
                            /\ gx = GivenBy(x, k) /\ ge = GivenBy(e, k)
  OBVIOUS
<1>4. ASSUME NEW r \in Requests
      PROVE  /\ IsOn(e.row[r], k) /\ e.row[r].status # "reversed" => e.row[r] = x.row[r]
             /\ IsOn(x.row[r], k) /\ x.row[r].status = "refund" => e.row[r] = x.row[r]
  <2>1. Replaces(s.row[r], n.row[r], d.row[r], e.row[r])
    BY DEF Interleaved
  <2>2. CASE Changes(s, n, k)
    <3>1. x = n
      BY <1>1, <2>2
    <3>2. IsOn(s.row[r], k) \/ IsOn(d.row[r], k) => Follows(s.row[r], d.row[r])
      BY <2>2 DEF Interleaved, Seen
    <3> QED
      BY <2>1, <3>1, <3>2 DEF Replaces, Follows, IsOn
  <2>3. CASE ~Changes(s, n, k)
    <3>1. x = d
      BY <1>1, <2>3
    <3>2. \/ n.row[r] = s.row[r] \/ Follows(s.row[r], n.row[r])
          \/ ~IsOn(s.row[r], k) /\ ~IsOn(n.row[r], k)
      BY <2>3 DEF Interleaved, MoneyMove
    <3> QED
      BY <2>1, <3>1, <3>2 DEF Replaces, Follows, IsOn
  <2> QED
    BY <2>2, <2>3
<1>5. \A r \in Requests : x.row[r].amount \in Nat /\ e.row[r].amount \in Nat
  BY <1>2, MoneyFields
<1>6. ASSUME NEW r \in Requests PROVE ge[r] = gx[r]
  BY <1>3, <1>4 DEF GivenBy, IsOn
<1>7. ASSUME NEW r \in Requests PROVE te[r] \in Int /\ tx[r] \in Int /\ te[r] <= tx[r]
  BY <1>3, <1>4, <1>5 DEF TakenBy, IsOn, IsTender
<1>8. SumFunctionOnSet(ge, Requests) = SumFunctionOnSet(gx, Requests)
  BY <1>6, MoneyFinite, SumEqual
<1>9. SumFunctionOnSet(te, Requests) <= SumFunctionOnSet(tx, Requests)
  BY <1>7, MoneyFinite, SumOrder
<1>10. /\ SumFunctionOnSet(te, Requests) \in Nat /\ SumFunctionOnSet(tx, Requests) \in Nat
       /\ SumFunctionOnSet(gx, Requests) \in Nat
  BY <1>2, <1>3, MoneySums
<1> QED
  BY <1>2, <1>3, <1>8, <1>9, <1>10 DEF CheckSound

\* What each row has at stake.
LEMMA StakeIs ==
  ASSUME NEW d \in B!Databases, MoneySound(d), NEW late, NEW t \in Requests
  PROVE  /\ Stake(d, late)[t] \in Nat
         /\ Stake(d, late)[t] <= Unreturned(d, t)
         /\ IsTender(d.row[t]) \/ t \in late => Stake(d, late)[t] = Unreturned(d, t)
         /\ ~IsTender(d.row[t]) /\ t \notin late => Stake(d, late)[t] = 0
<1>1. Unreturned(d, t) \in Nat
  BY UnreturnedIs
<1> QED
  BY <1>1 DEF Stake

\* No row has more at stake after it than before and by the request alone.
LEMMA StakeAfter ==
  ASSUME NEW s, NEW n, NEW d, NEW e, NEW late, NEW later, Interleaved(s, n, d, e, late, later),
         MoneySound(e), NEW t \in Requests
  PROVE  Stake(e, later)[t] <= Stake(d, late)[t] + Change(s, n)[t]
<1> DEFINE St(x) == Stake(x, {})[t]
<1>1. /\ s \in B!Databases /\ n \in B!Databases /\ d \in B!Databases /\ e \in B!Databases
      /\ MoneySound(s) /\ MoneySound(n) /\ MoneySound(d)
      /\ Replaces(s.row[t], n.row[t], d.row[t], e.row[t])
      /\ s.row[t].check \in Checks
  BY MoneyFields DEF Interleaved
<1>2. /\ St(s) \in Nat /\ St(n) \in Nat
      /\ Stake(d, late)[t] \in Nat /\ Stake(e, later)[t] \in Nat
      /\ Unreturned(d, t) \in Nat
  BY <1>1, StakeIs, UnreturnedIs
<1>3. /\ Back(s, t) \in Nat /\ Back(n, t) \in Nat /\ Back(d, t) \in Nat /\ Back(e, t) \in Nat
      /\ s.row[t].amount \in Nat /\ n.row[t].amount \in Nat
      /\ d.row[t].amount \in Nat /\ e.row[t].amount \in Nat
      /\ Back(e, t) + Back(s, t) = Back(d, t) + Back(n, t)
  BY <1>1, BackIs, MoneyFields, BackMoves
<1>4. Change(s, n)[t] = IF s.row[t].status = "absent" \/ Changes(s, n, s.row[t].check)
                        THEN St(n) - St(s) ELSE 0
  BY DEF Change
<1>5. /\ t \in late => d.row[t].status = "reversed"
      /\ t \in later => /\ e.row[t].status = "reversed" /\ ~Changes(s, n, d.row[t].check)
                        /\ t \in late \/ d.row[t].status = "paid"
  BY DEF Interleaved
<1>6. CASE /\ e.row[t] = d.row[t] \/ Follows(d.row[t], e.row[t])
           /\ Back(n, t) = Back(s, t) /\ Change(s, n)[t] = 0
  <2>1. Unreturned(e, t) = Unreturned(d, t)
    BY <1>3, <1>6 DEF Unreturned, Follows
  <2>2. IsTender(e.row[t]) => IsTender(d.row[t])
    BY <1>6 DEF Follows, IsTender
  <2>3. t \in later => t \in late \/ IsTender(d.row[t])
    BY <1>5 DEF IsTender
  <2>4. CASE IsTender(e.row[t]) \/ t \in later
    <3>1. Stake(d, late)[t] = Unreturned(d, t)
      BY <1>1, <2>2, <2>3, <2>4, StakeIs
    <3>2. Stake(e, later)[t] <= Unreturned(d, t)
      BY <1>1, <2>1, StakeIs
    <3> QED
      BY <1>2, <1>6, <3>1, <3>2
  <2>5. CASE ~IsTender(e.row[t]) /\ t \notin later
    <3>1. Stake(e, later)[t] = 0
      BY <1>1, <2>5, StakeIs
    <3> QED
      BY <1>2, <1>6, <3>1
  <2> QED
    BY <2>4, <2>5
<1>7. CASE s.row[t].status = "absent"
  <2>1. Back(n, t) = Back(s, t)
    BY <1>7 DEF Interleaved, MoneyMove
  <2>2. CASE e.row[t] = d.row[t] /\ n.row[t] = s.row[t]
    <3>1. ~IsTender(s.row[t]) /\ ~IsTender(n.row[t])
      BY <1>7, <2>2 DEF IsTender
    <3>2. St(s) = 0 /\ St(n) = 0
      BY <1>1, <3>1, StakeIs
    <3> HIDE DEF St
    <3>3. Change(s, n)[t] = 0
      BY <1>4, <3>2
    <3> QED
      BY <1>6, <2>1, <2>2, <3>3
  <2>3. CASE e.row[t] = n.row[t] /\ d.row[t] = s.row[t]
    <3>1. d.row[t].status = "absent" /\ t \notin later
      BY <1>5, <1>7, <2>3
    <3>2. Back(d, t) = 0 /\ Back(s, t) = 0
      BY <1>1, <1>7, <2>3, BackNone
    <3>3. Unreturned(e, t) = Unreturned(n, t)
      BY <1>3, <2>3, <3>2 DEF Unreturned
    <3>4. Stake(e, later)[t] = St(n)
      BY <2>3, <3>1, <3>3 DEF Stake
    <3>5. St(s) = 0
      BY <1>1, <1>7, StakeIs DEF IsTender
    <3> HIDE DEF St
    <3> QED
      BY <1>2, <1>4, <1>7, <3>4, <3>5
  <2> QED
    BY <1>1, <2>2, <2>3 DEF Replaces
<1>8. CASE s.row[t].status # "absent" /\ ~Changes(s, n, s.row[t].check)
  <2>1. Back(n, t) = Back(s, t)
    BY <1>8 DEF Interleaved, MoneyMove
  <2>2. n.row[t] = s.row[t] \/ Follows(s.row[t], n.row[t])
    BY <1>1, <1>8 DEF Interleaved, MoneyMove, IsOn
  <2>3. e.row[t] = d.row[t] \/ Follows(d.row[t], e.row[t])
    BY <1>1, <2>2 DEF Replaces
  <2> HIDE DEF St
  <2> QED
    BY <1>4, <1>6, <1>8, <2>1, <2>3
<1>9. CASE s.row[t].status # "absent" /\ Changes(s, n, s.row[t].check)
  <2>1. Back(d, t) = Back(s, t)
    BY <1>9, BackSeen
  <2>2. /\ Follows(s.row[t], d.row[t])
        /\ s.row[t].status = "paid" /\ d.row[t].status = "reversed" => t \in late
    BY <1>1, <1>9 DEF Interleaved, Seen, IsOn
  <2>3. t \notin later
    BY <1>5, <1>9, <2>2 DEF Follows
  <2>4. Unreturned(d, t) = Unreturned(s, t)
    BY <2>1, <2>2 DEF Unreturned, Follows
  <2>5. St(s) <= Stake(d, late)[t]
    <3>1. CASE IsTender(s.row[t])
      <4>1. IsTender(d.row[t]) \/ t \in late
        BY <2>2, <3>1 DEF Follows, IsTender
      <4>2. Stake(d, late)[t] = Unreturned(d, t) /\ St(s) = Unreturned(s, t)
        BY <1>1, <3>1, <4>1, StakeIs
      <4> HIDE DEF St
      <4> QED
        BY <1>2, <2>4, <4>2
    <3>2. CASE ~IsTender(s.row[t])
      <4>1. St(s) = 0
        BY <1>1, <3>2, StakeIs
      <4> HIDE DEF St
      <4> QED
        BY <1>2, <4>1
    <3> QED
      BY <3>1, <3>2
  <2>6. Stake(e, later)[t] <= St(n)
    <3>1. CASE ~IsTender(e.row[t])
      <4>1. Stake(e, later)[t] = 0
        BY <1>1, <2>3, <3>1, StakeIs
      <4> HIDE DEF St
      <4> QED
        BY <1>2, <4>1
    <3>2. CASE IsTender(e.row[t])
      <4>1. IsTender(n.row[t]) /\ e.row[t].amount = n.row[t].amount
        BY <1>1, <2>2, <3>2 DEF Replaces, Follows, IsTender
      <4>2. Unreturned(e, t) = Unreturned(n, t)
        BY <1>3, <2>1, <4>1 DEF Unreturned
      <4>3. Stake(e, later)[t] = Unreturned(e, t) /\ St(n) = Unreturned(n, t)
        BY <1>1, <3>2, <4>1, StakeIs
      <4> HIDE DEF St
      <4> QED
        BY <1>2, <4>2, <4>3
    <3> QED
      BY <3>1, <3>2
  <2> HIDE DEF St
  <2> QED
    BY <1>2, <1>4, <1>9, <2>5, <2>6
<1> QED
  BY <1>7, <1>8, <1>9

\* A sound database stays sound and covered, whatever else was written in between.
LEMMA MoneyAfter ==
  ASSUME NEW s, NEW n, NEW d, NEW e, NEW late, NEW later, Interleaved(s, n, d, e, late, later),
         Covered(d, late)
  PROVE  MoneySound(e) /\ Covered(e, later)
<1>1. MoneySound(e)
  BY ChecksAfter, RowsAfter DEF MoneySound
<1>2. /\ s \in B!Databases /\ n \in B!Databases /\ d \in B!Databases /\ e \in B!Databases
      /\ MoneySound(s) /\ MoneySound(n) /\ MoneySound(d)
  BY DEF Interleaved
<1>3. PICK old, new, change : old = Stake(d, late) /\ new = Stake(e, later) /\ change = Change(s, n)
  OBVIOUS
<1>4. PICK ps, pn, pd, pe : ps = PaidOn(s) /\ pn = PaidOn(n) /\ pd = PaidOn(d) /\ pe = PaidOn(e)
  OBVIOUS
<1>5. ASSUME NEW t \in Requests
      PROVE  /\ old[t] \in Int /\ new[t] \in Int /\ change[t] \in Int
             /\ new[t] <= old[t] + change[t]
  <2>1. old[t] \in Nat /\ new[t] \in Nat
    BY <1>1, <1>2, <1>3, StakeIs
  <2>2. Stake(n, {})[t] \in Nat /\ Stake(s, {})[t] \in Nat
    BY <1>2, StakeIs
  <2>3. change[t] \in Int
    BY <1>3, <2>2 DEF Change
  <2>4. new[t] <= old[t] + change[t]
    BY <1>1, <1>3, StakeAfter
  <2> QED
    BY <2>1, <2>3, <2>4
<1>6. PICK both : both = [t \in Requests |-> old[t] + change[t]]
  OBVIOUS
<1>7. SumFunctionOnSet(both, Requests)
         = SumFunctionOnSet(old, Requests) + SumFunctionOnSet(change, Requests)
  <2>1. \A t \in Requests : old[t] \in Int /\ change[t] \in Int /\ both[t] = old[t] + change[t]
    BY <1>5, <1>6
  <2> QED
    BY <2>1, MoneyFinite, SumPlus
<1>8. SumFunctionOnSet(new, Requests) <= SumFunctionOnSet(both, Requests)
  <2>1. \A t \in Requests : new[t] \in Int /\ both[t] \in Int /\ new[t] <= both[t]
    BY <1>5, <1>6
  <2> QED
    BY <2>1, MoneyFinite, SumOrder
<1>9. Balanced(Checks, ps, pn, pd, pe)
  <2>1. ASSUME NEW k \in Checks
        PROVE  /\ ps[k] \in Int /\ pn[k] \in Int /\ pd[k] \in Int /\ pe[k] \in Int
               /\ pe[k] + ps[k] = pd[k] + pn[k]
    <3>1. /\ s.check[k].paid \in Nat /\ n.check[k].paid \in Nat
          /\ d.check[k].paid \in Nat /\ e.check[k].paid \in Nat
      BY <1>2, MoneyFields
    <3>2. Replaces(s.check[k], n.check[k], d.check[k], e.check[k])
      BY DEF Interleaved
    <3>3. /\ ps[k] = IF s.check[k].status = "merged" THEN 0 ELSE s.check[k].paid
          /\ pn[k] = IF n.check[k].status = "merged" THEN 0 ELSE n.check[k].paid
          /\ pd[k] = IF d.check[k].status = "merged" THEN 0 ELSE d.check[k].paid
          /\ pe[k] = IF e.check[k].status = "merged" THEN 0 ELSE e.check[k].paid
      BY <1>4 DEF PaidOn
    <3> QED
      BY <3>1, <3>2, <3>3 DEF Replaces
  <2> QED
    BY <2>1 DEF Balanced
<1>10. SumFunctionOnSet(pe, Checks) + SumFunctionOnSet(ps, Checks)
          = SumFunctionOnSet(pd, Checks) + SumFunctionOnSet(pn, Checks)
  BY <1>9, MoneyFinite, SumBalance
<1>11. /\ SumFunctionOnSet(pe, Checks) \in Int /\ SumFunctionOnSet(ps, Checks) \in Int
       /\ SumFunctionOnSet(pd, Checks) \in Int /\ SumFunctionOnSet(pn, Checks) \in Int
  <2>1. \A k \in Checks : ps[k] \in Int /\ pn[k] \in Int
    BY <1>9 DEF Balanced
  <2>2. \A k \in Checks : pd[k] \in Int /\ pe[k] \in Int
    BY <1>9 DEF Balanced
  <2>3. SumFunctionOnSet(ps, Checks) \in Int /\ SumFunctionOnSet(pn, Checks) \in Int
    BY <2>1, MoneyFinite, SumType
  <2> QED
    BY <2>2, <2>3, MoneyFinite, SumType
<1>12. /\ SumFunctionOnSet(old, Requests) \in Int /\ SumFunctionOnSet(new, Requests) \in Int
       /\ SumFunctionOnSet(change, Requests) \in Int
  <2>1. \A t \in Requests : old[t] \in Int /\ new[t] \in Int
    BY <1>5
  <2>2. \A t \in Requests : change[t] \in Int
    BY <1>5
  <2>3. SumFunctionOnSet(change, Requests) \in Int
    BY <2>2, MoneyFinite, SumType
  <2> QED
    BY <2>1, <2>3, MoneyFinite, SumType
<1>13. /\ SumFunctionOnSet(old, Requests) <= SumFunctionOnSet(pd, Checks)
       /\ SumFunctionOnSet(change, Requests) + SumFunctionOnSet(ps, Checks)
             <= SumFunctionOnSet(pn, Checks)
  BY <1>3, <1>4 DEF Covered, Interleaved, MoneyMove
<1>14. SumFunctionOnSet(new, Requests) <= SumFunctionOnSet(pe, Checks)
  BY <1>7, <1>8, <1>10, <1>11, <1>12, <1>13
<1> QED
  BY <1>1, <1>3, <1>4, <1>14 DEF Covered

\* Unless a check was written since, its rows are as the client read them, up to reversals.
Current(old, new, k) ==
    \A r \in Requests : IsOn(old.row[r], k) \/ IsOn(new.row[r], k)
                           => Follows(old.row[r], new.row[r])

Steady(c) == \A k \in Checks : <<"check", k>> \notin behind[c] => Current(snap[c], db, k)

\* The tenders reversed behind the back of a client that may still write their check.
Late ==
    {t \in Requests :
        /\ db.row[t].status = "reversed"
        /\ \E c \in Clients : /\ snap[c] # NoSnapshot
                              /\ snap[c].row[t].status = "paid"
                              /\ <<"check", snap[c].row[t].check>> \notin behind[c]}

MoneyIInv ==
    /\ db \in B!Databases
    /\ snap \in [Clients -> B!Databases \cup {NoSnapshot}]
    /\ Tracked
    /\ MoneySound(db)
    /\ \A c \in Clients : snap[c] # NoSnapshot => MoneySound(snap[c]) /\ Steady(c)
    /\ Covered(db, Late)

\* The transactions are those of Snapshots.
LEMMA MoneySnapshots ==
  /\ \A c : B!View(c) = V!View(c) /\ (B!Reads(c) <=> V!Reads(c))
  /\ \A c : (B!Begin(c) <=> V!Begin(c)) /\ (B!End(c) <=> V!End(c)) /\ B!Ended(c) = V!Ended(c)
  /\ \A c, new : B!Commit(c, new) <=> V!Commit(c, new)
  /\ B!Callers = V!Callers
<1>1. \A c : B!View(c) = V!View(c) /\ (B!Reads(c) <=> V!Reads(c))
  BY DEF B!View, V!View, B!Reads, V!Reads
<1>2. \A c : (B!Begin(c) <=> V!Begin(c)) /\ (B!End(c) <=> V!End(c)) /\ B!Ended(c) = V!Ended(c)
  BY DEF B!Begin, V!Begin, B!End, V!End, B!Ended, V!Ended
<1>3. \A c, new : B!Commit(c, new) <=> V!Commit(c, new)
  BY DEF B!Commit, V!Commit, B!NoConflict, V!NoConflict, B!View, V!View, B!Written, V!Written,
     B!Ended, V!Ended, B!Overtaken, V!Overtaken
<1>4. B!Callers = V!Callers
  BY DEF B!Callers, V!Callers
<1> QED
  BY <1>1, <1>2, <1>3, <1>4

\* What a caller reads is sound.
LEMMA MoneyView ==
  ASSUME MoneyIInv, NEW c \in B!Callers, B!Reads(c)
  PROVE  B!View(c) \in B!Databases /\ MoneySound(B!View(c))
BY DEF MoneyIInv, B!View, B!Reads

\* With less at stake, no more has to be covered.
LEMMA CoveredLess ==
  ASSUME NEW d \in B!Databases, MoneySound(d), NEW late, NEW later, Covered(d, late),
         \A t \in Requests : t \in later => t \in late
  PROVE  Covered(d, later)
<1>1. PICK f, g, p : /\ f = Stake(d, later) /\ g = Stake(d, late) /\ p = PaidOn(d)
  OBVIOUS
<1>2. \A t \in Requests : Unreturned(d, t) \in Nat
  BY UnreturnedIs
<1>3. \A t \in Requests : f[t] \in Int /\ g[t] \in Int /\ f[t] <= g[t]
  BY <1>1, <1>2 DEF Stake
<1>4. SumFunctionOnSet(f, Requests) <= SumFunctionOnSet(g, Requests)
  BY <1>3, MoneyFinite, SumOrder
<1>5. SumFunctionOnSet(f, Requests) \in Int /\ SumFunctionOnSet(g, Requests) \in Int
  BY <1>3, MoneyFinite, SumType
<1>6. SumFunctionOnSet(p, Checks) \in Int
  <2>1. \A k \in Checks : p[k] \in Int
    BY <1>1, MoneyFields DEF PaidOn
  <2> QED
    BY <2>1, MoneyFinite, SumType
<1> QED
  BY <1>1, <1>4, <1>5, <1>6 DEF Covered

\* A client reads, or gives up.
LEMMA MoneyReads ==
  ASSUME MoneyIInv, NEW c \in Clients, V!Begin(c) \/ V!End(c)
  PROVE  MoneyIInv'
<1>1. db' = db /\ Tracked'
  BY TrackedBegin, TrackedEnd DEF V!Begin, V!End, MoneyIInv
<1>2. /\ snap' \in [Clients -> B!Databases \cup {NoSnapshot}]
      /\ \A q \in Clients : snap'[q] # NoSnapshot =>
            \/ snap'[q] = db
            \/ snap'[q] = snap[q] /\ behind'[q] = behind[q]
  BY DEF MoneyIInv, Tracked, V!Begin, V!End, V!Ended
<1>3. \A k \in Checks : Current(db, db, k)
  BY DEF Current, Follows
<1>4. ASSUME NEW q \in Clients, snap'[q] # NoSnapshot
      PROVE  MoneySound(snap[q])' /\ Steady(q)'
  <2>1. CASE snap'[q] = db
    BY <1>1, <1>3, <2>1 DEF MoneyIInv, Steady
  <2>2. CASE snap'[q] = snap[q] /\ behind'[q] = behind[q]
    BY <1>1, <1>4, <2>2 DEF MoneyIInv, Steady
  <2> QED
    BY <1>2, <1>4, <2>1, <2>2
<1>5. \A t \in Requests : t \in Late' => t \in Late
  BY <1>1, <1>2 DEF Late
<1>6. Covered(db, Late')
  BY <1>5, CoveredLess DEF MoneyIInv
<1> QED
  BY <1>1, <1>2, <1>4, <1>6 DEF MoneyIInv

\* What a commit makes of the checks and the rows.
LEMMA MoneyWrites ==
  ASSUME MoneyIInv, NEW c \in B!Callers, B!Reads(c), NEW new \in B!Databases,
         B!Commit(c, new)
  PROVE  /\ Tracked' /\ db' \in B!Databases
         /\ snap' \in [Clients -> B!Databases \cup {NoSnapshot}]
         /\ \A k \in Checks :
               Replaces(B!View(c).check[k], new.check[k], db.check[k], db'.check[k])
         /\ \A r \in Requests :
               Replaces(B!View(c).row[r], new.row[r], db.row[r], db'.row[r])
<1> DEFINE read == B!View(c)
<1>1. db \in B!Databases /\ Tracked /\ V!Commit(c, new) /\ c \in V!Callers /\ V!Reads(c)
      /\ read = V!View(c)
  BY MoneySnapshots DEF MoneyIInv
<1>2. \A d \in B!Databases : /\ DOMAIN d = {"check", "row"} /\ DOMAIN d.check = Checks
                             /\ DOMAIN d.row = Requests
  BY MoneyRecord
<1>3. Alike(new, db)
  BY <1>1, <1>2 DEF Alike
<1>4. /\ Tracked' /\ Alike(db', db)
      /\ \A coll \in DOMAIN db : \A doc \in DOMAIN db[coll] :
            IF new[coll][doc] = V!View(c)[coll][doc]
            THEN db'[coll][doc] = db[coll][doc]
            ELSE db'[coll][doc] = new[coll][doc] /\ V!View(c)[coll][doc] = db[coll][doc]
  BY <1>1, <1>3, CommitWrites
<1>5. /\ \A coll \in DOMAIN db : \A doc \in DOMAIN db[coll] :
            IF new[coll][doc] = read[coll][doc]
            THEN db'[coll][doc] = db[coll][doc]
            ELSE db'[coll][doc] = new[coll][doc] /\ read[coll][doc] = db[coll][doc]
      /\ DOMAIN db = {"check", "row"} /\ DOMAIN db.check = Checks
      /\ DOMAIN db.row = Requests
  BY <1>1, <1>2, <1>4, Zenon
<1> HIDE DEF read
<1>6. \A k \in Checks : Replaces(read.check[k], new.check[k], db.check[k], db'.check[k])
  BY <1>5 DEF Replaces
<1>7. \A r \in Requests : Replaces(read.row[r], new.row[r], db.row[r], db'.row[r])
  BY <1>5 DEF Replaces
<1>8. db' \in B!Databases
  <2>1. db' = [coll \in DOMAIN db |-> db'[coll]]
        /\ \A coll \in DOMAIN db : db'[coll] = [doc \in DOMAIN db[coll] |-> db'[coll][doc]]
    BY <1>1 DEF V!Commit
  <2>2. db' = [check |-> db'.check, row |-> db'.row]
    BY <1>5, <2>1
  <2>3. /\ db'.check = [k \in Checks |-> db'.check[k]]
        /\ db'.row = [r \in Requests |-> db'.row[r]]
    BY <1>5, <2>1
  <2>4. \A d \in B!Databases : /\ \A k \in Checks : d.check[k] \in B!CheckDocs
                               /\ \A r \in Requests : d.row[r] \in B!RowDocs
    BY MoneyFields
  <2>5. db'.check \in [Checks -> B!CheckDocs]
    BY <1>1, <1>6, <2>3, <2>4 DEF Replaces
  <2>6. db'.row \in [Requests -> B!RowDocs]
    BY <1>1, <1>7, <2>3, <2>4 DEF Replaces
  <2> QED
    BY <2>2, <2>5, <2>6 DEF B!Databases
<1>9. snap' \in [Clients -> B!Databases \cup {NoSnapshot}]
  BY <1>1 DEF V!Commit, V!Ended, MoneyIInv
<1> QED
  BY <1>4, <1>6, <1>7, <1>8, <1>9 DEF read

\* Whoever writes a check has seen its rows, but for reversals that did not write it.
LEMMA MoneySeen ==
  ASSUME MoneyIInv, NEW c \in B!Callers, B!Reads(c), NEW new \in B!Databases,
         B!Commit(c, new)
  PROVE  Seen(B!View(c), new, db, Late)
<1> SUFFICES ASSUME NEW k \in Checks, NEW r \in Requests, Changes(B!View(c), new, k),
                    IsOn(B!View(c).row[r], k) \/ IsOn(db.row[r], k)
             PROVE  /\ Follows(B!View(c).row[r], db.row[r])
                    /\ B!View(c).row[r].status = "paid" /\ db.row[r].status = "reversed"
                          => r \in Late
  BY DEF Seen
<1>1. CASE c \in Clients
  <2>1. PICK s : s = snap[c]
    OBVIOUS
  <2>2. s # NoSnapshot /\ B!View(c) = s
    BY <1>1, <2>1 DEF B!Reads, B!View
  <2>3. <<"check", k>> \in V!Written(s, new)
    <3>1. "check" \in DOMAIN new /\ k \in DOMAIN new["check"]
      BY MoneyRecord
    <3>2. new["check"][k] # s["check"][k]
      BY <2>2 DEF Changes
    <3> QED
      BY <3>1, <3>2, WrittenIs
  <2>4. V!Commit(c, new) /\ V!View(c) = s
    BY <2>2, MoneySnapshots
  <2>5. <<"check", k>> \notin behind[c]
    BY <1>1, <2>3, <2>4 DEF V!Commit, V!NoConflict
  <2>6. Follows(s.row[r], db.row[r])
    BY <1>1, <2>1, <2>2, <2>5 DEF MoneyIInv, Steady, Current
  <2>7. ASSUME s.row[r].status = "paid", db.row[r].status = "reversed" PROVE r \in Late
    <3>1. s.row[r].check = k
      BY <2>2, <2>6, <2>7 DEF IsOn, Follows
    <3> QED
      BY <1>1, <2>1, <2>2, <2>5, <2>7, <3>1 DEF Late
  <2> QED
    BY <2>2, <2>6, <2>7
<1>2. CASE c \notin Clients
  BY <1>2 DEF B!View, Follows
<1> QED
  BY <1>1, <1>2

\* What a request does alone, it may do among others.
LEMMA MoneyCommit ==
  ASSUME MoneyIInv, NEW c \in B!Callers, B!Reads(c), NEW new \in B!Databases,
         MoneySound(new), MoneyMove(B!View(c), new), B!Commit(c, new)
  PROVE  MoneyIInv'
<1>1. PICK s : s = B!View(c)
  OBVIOUS
<1>2. s \in B!Databases /\ MoneySound(s)
  BY <1>1, MoneyView
<1>3. /\ Tracked' /\ db' \in B!Databases
      /\ snap' \in [Clients -> B!Databases \cup {NoSnapshot}]
      /\ \A k \in Checks : Replaces(s.check[k], new.check[k], db.check[k], db'.check[k])
      /\ \A r \in Requests : Replaces(s.row[r], new.row[r], db.row[r], db'.row[r])
  BY <1>1, MoneyWrites
<1>4. Seen(s, new, db, Late)
  BY <1>1, MoneySeen
<1>5. ASSUME NEW q \in Clients, snap'[q] # NoSnapshot
      PROVE  /\ q # c /\ snap'[q] = snap[q] /\ snap[q] # NoSnapshot
             /\ \A k \in Checks : <<"check", k>> \notin behind'[q] =>
                   <<"check", k>> \notin behind[q] /\ ~Changes(s, new, k)
  <2>1. V!Commit(c, new) /\ V!View(c) = s
    BY <1>1, MoneySnapshots
  <2>2. q # c /\ snap'[q] = snap[q] /\ snap[q] # NoSnapshot
    BY <1>5, <2>1 DEF V!Commit, V!Ended
  <2>3. behind'[q] = behind[q] \cup V!Written(s, new)
    BY <2>1, <2>2 DEF V!Commit, V!Overtaken
  <2>4. "check" \in DOMAIN new /\ DOMAIN new["check"] = Checks
    BY MoneyRecord
  <2>5. \A k \in Checks : Changes(s, new, k) => <<"check", k>> \in V!Written(s, new)
    BY <2>4, WrittenIs DEF Changes
  <2> QED
    BY <2>2, <2>3, <2>5
<1>6. ASSUME NEW q \in Clients, snap'[q] # NoSnapshot
      PROVE  MoneySound(snap[q])' /\ Steady(q)'
  <2>1. PICK old : old = snap[q]
    OBVIOUS
  <2>2. /\ q # c /\ snap'[q] = old /\ old # NoSnapshot
        /\ \A k \in Checks : <<"check", k>> \notin behind'[q] =>
              <<"check", k>> \notin behind[q] /\ ~Changes(s, new, k)
    BY <1>5, <1>6, <2>1
  <2>3. MoneySound(old) /\ Steady(q)
    BY <2>1, <2>2 DEF MoneyIInv
  <2>4. ASSUME NEW k \in Checks, <<"check", k>> \notin behind'[q], NEW r \in Requests,
               IsOn(old.row[r], k) \/ IsOn(db'.row[r], k)
        PROVE  Follows(old.row[r], db'.row[r])
    <3>1. ~Changes(s, new, k) /\ <<"check", k>> \notin behind[q]
      BY <2>2, <2>4
    <3>2. IsOn(old.row[r], k) \/ IsOn(db.row[r], k) => Follows(old.row[r], db.row[r])
      BY <2>1, <2>3, <3>1 DEF Steady, Current
    <3>3. CASE db'.row[r] = db.row[r]
      BY <2>4, <3>2, <3>3
    <3>4. CASE db'.row[r] = new.row[r] /\ db.row[r] = s.row[r] /\ new.row[r] # s.row[r]
      <4>1. \/ Follows(s.row[r], new.row[r])
            \/ ~IsOn(s.row[r], k) /\ ~IsOn(new.row[r], k)
        BY <1>1, <3>1, <3>4 DEF MoneyMove
      <4>2. CASE Follows(s.row[r], new.row[r])
        BY <2>4, <3>2, <3>4, <4>2 DEF Follows, IsOn
      <4>3. CASE ~IsOn(s.row[r], k) /\ ~IsOn(new.row[r], k)
        BY <2>4, <3>2, <3>4, <4>3 DEF Follows, IsOn
      <4> QED
        BY <4>1, <4>2, <4>3
    <3> QED
      BY <1>3, <3>3, <3>4 DEF Replaces
  <2>5. Steady(q)'
    BY <2>2, <2>4 DEF Steady, Current
  <2> QED
    BY <2>2, <2>3, <2>5
<1>7. ASSUME NEW t \in Requests, t \in Late'
      PROVE  /\ db'.row[t].status = "reversed" /\ ~Changes(s, new, db.row[t].check)
             /\ t \in Late \/ db.row[t].status = "paid"
  <2>1. PICK q \in Clients : /\ snap'[q] # NoSnapshot
                             /\ snap'[q].row[t].status = "paid"
                             /\ <<"check", snap'[q].row[t].check>> \notin behind'[q]
    BY <1>7 DEF Late
  <2>2. PICK old, k : old = snap[q] /\ k = old.row[t].check
    OBVIOUS
  <2>3. old = snap'[q] /\ old # NoSnapshot
    BY <1>5, <2>1, <2>2
  <2>4. k \in Checks
    <3>1. old \in B!Databases
      BY <2>2, <2>3 DEF MoneyIInv
    <3> QED
      BY <2>2, <3>1, MoneyFields
  <2>5. ~Changes(s, new, k) /\ <<"check", k>> \notin behind[q]
    BY <1>5, <2>1, <2>2, <2>3, <2>4
  <2>6. Follows(old.row[t], db.row[t])
    <3>1. Steady(q) /\ IsOn(old.row[t], k)
      BY <2>1, <2>2, <2>3 DEF MoneyIInv, IsOn
    <3> QED
      BY <2>2, <2>4, <2>5, <3>1 DEF Steady, Current
  <2>7. db.row[t].check = k /\ db.row[t].status \in {"paid", "reversed"}
    BY <2>1, <2>2, <2>3, <2>6 DEF Follows
  <2>8. db.row[t].status = "reversed" => t \in Late
    BY <2>1, <2>2, <2>3, <2>5 DEF Late
  <2>9. db'.row[t].status = "reversed"
    BY <1>7 DEF Late
  <2> QED
    BY <2>5, <2>7, <2>8, <2>9
<1>8. PICK late, later, d, e : late = Late /\ later = Late' /\ d = db /\ e = db'
  OBVIOUS
<1>9. Interleaved(s, new, d, e, late, later)
  <2>1. \A t \in Requests : t \in late => d.row[t].status = "reversed"
    BY <1>8 DEF Late
  <2>2. \A t \in Requests : t \in later =>
          /\ e.row[t].status = "reversed" /\ ~Changes(s, new, d.row[t].check)
          /\ t \in late \/ d.row[t].status = "paid"
    BY <1>7, <1>8
  <2>3. d \in B!Databases /\ MoneySound(d) /\ e \in B!Databases
    BY <1>3, <1>8 DEF MoneyIInv
  <2>4. Seen(s, new, d, late) /\ MoneyMove(s, new)
    BY <1>1, <1>4, <1>8
  <2>5. /\ \A k \in Checks : Replaces(s.check[k], new.check[k], d.check[k], e.check[k])
        /\ \A r \in Requests : Replaces(s.row[r], new.row[r], d.row[r], e.row[r])
    BY <1>3, <1>8
  <2> QED
    BY <1>2, <2>1, <2>2, <2>3, <2>4, <2>5 DEF Interleaved
<1>10. Covered(d, late)
  BY <1>8 DEF MoneyIInv
<1>11. MoneySound(e) /\ Covered(e, later)
  BY <1>9, <1>10, MoneyAfter
<1>12. MoneySound(db)' /\ Covered(db, Late)'
  BY <1>8, <1>11
<1> QED
  BY <1>3, <1>6, <1>12 DEF MoneyIInv

\* What happens to a check of its own accord, its rows being as they are.
CheckMoves(old, new, taken, given) ==
    /\ new.paid <= new.total
    /\ new.status = "absent" => new.paid = 0
    /\ new.status # "absent" => new.total > 0
    /\ \/ new.refunded = 0
       \/ new.refunded = old.refunded /\ old.status # "merged"
    /\ new.status = "cancelled" => taken <= given
    /\ old.status \notin {"absent", "merged"} => new.status \notin {"absent", "merged"}

\* Rows say the same whatever the checks do.
LEMMA RowsAlone ==
  ASSUME NEW s \in B!Databases, NEW n \in B!Databases, n.row = s.row
  PROVE  /\ \A t \in Requests : Back(n, t) = Back(s, t) /\ Unreturned(n, t) = Unreturned(s, t)
         /\ \A k \in Checks : TakenBy(n, k) = TakenBy(s, k) /\ GivenBy(n, k) = GivenBy(s, k)
         /\ \A late : Stake(n, late) = Stake(s, late)
<1>1. \A t \in Requests : BackBy(n, t) = BackBy(s, t)
  BY DEF BackBy
<1>2. \A t \in Requests : Back(n, t) = Back(s, t) /\ Unreturned(n, t) = Unreturned(s, t)
  BY <1>1 DEF Back, Unreturned
<1>3. \A k \in Checks : TakenBy(n, k) = TakenBy(s, k) /\ GivenBy(n, k) = GivenBy(s, k)
  BY DEF TakenBy, GivenBy
<1>4. \A late : Stake(n, late) = Stake(s, late)
  BY <1>2 DEF Stake
<1> QED
  BY <1>2, <1>3, <1>4

\* Checks that move soundly are sound.
LEMMA ChecksAlone ==
  ASSUME NEW s \in B!Databases, NEW n \in B!Databases, MoneySound(s), n.row = s.row,
         \A k \in Checks : \/ n.check[k] = s.check[k]
                           \/ CheckMoves(s.check[k], n.check[k], B!Taken(s, k), B!Given(s, k)),
         SumFunctionOnSet(PaidOn(s), Checks) <= SumFunctionOnSet(PaidOn(n), Checks)
  PROVE  MoneySound(n) /\ MoneyMove(s, n)
<1>1. ASSUME NEW k \in Checks PROVE CheckSound(n, k)
  <2>1. /\ B!Taken(s, k) = SumFunctionOnSet(TakenBy(n, k), Requests)
        /\ B!Given(s, k) = SumFunctionOnSet(GivenBy(n, k), Requests)
        /\ SumFunctionOnSet(GivenBy(n, k), Requests) \in Nat
        /\ TakenBy(n, k) = TakenBy(s, k) /\ GivenBy(n, k) = GivenBy(s, k)
    BY RowsAlone, MoneySums
  <2>2. CASE n.check[k] = s.check[k]
    BY <2>1, <2>2 DEF MoneySound, CheckSound
  <2>3. CASE CheckMoves(s.check[k], n.check[k], B!Taken(s, k), B!Given(s, k))
    BY <2>1, <2>3 DEF MoneySound, CheckSound, CheckMoves
  <2> QED
    BY <2>2, <2>3
<1>2. ASSUME NEW r \in Requests PROVE RowSound(n, r)
  <2>1. RowSound(s, r) /\ Back(n, r) = Back(s, r) /\ s.row[r].check \in Checks
    BY RowsAlone, MoneyFields DEF MoneySound
  <2>2. \A k \in Checks : s.check[k].status \notin {"absent", "merged"}
                             => n.check[k].status \notin {"absent", "merged"}
    BY DEF CheckMoves
  <2> QED
    BY <2>1, <2>2 DEF RowSound
<1>3. SumFunctionOnSet(Change(s, n), Requests) = 0
  <2>1. PICK f : f = Change(s, n)
    OBVIOUS
  <2>2. \A t \in Requests : Stake(n, {})[t] = Stake(s, {})[t] /\ Stake(s, {})[t] \in Nat
    BY RowsAlone, StakeIs
  <2>3. \A t \in Requests : f[t] = 0
    BY <2>1, <2>2 DEF Change
  <2> QED
    BY <2>1, <2>3, MoneyFinite, SumZero
<1>4. SumFunctionOnSet(PaidOn(s), Checks) \in Int
  <2>1. PICK f : f = PaidOn(s)
    OBVIOUS
  <2>2. \A k \in Checks : f[k] \in Int
    BY <2>1, MoneyFields DEF PaidOn
  <2> QED
    BY <2>1, <2>2, MoneyFinite, SumType
<1>5. \A t \in Requests : Back(n, t) = Back(s, t)
  BY RowsAlone
<1> QED
  BY <1>1, <1>2, <1>3, <1>4, <1>5 DEF MoneySound, MoneyMove

\* One check, or two, are written.
LEMMA ChecksSet ==
  ASSUME NEW d \in B!Databases, NEW rows \in [Requests -> B!RowDocs],
         NEW k \in Checks, NEW doc \in B!CheckDocs, NEW q \in Checks, NEW other \in B!CheckDocs
  PROVE  /\ [check |-> [d.check EXCEPT ![k] = doc], row |-> rows] \in B!Databases
         /\ [check |-> [d.check EXCEPT ![k] = doc, ![q] = other], row |-> rows] \in B!Databases
<1>1. d.check \in [Checks -> B!CheckDocs]
  BY MoneyRecord
<1>2. [d.check EXCEPT ![k] = doc] \in [Checks -> B!CheckDocs]
  BY <1>1
<1>3. [d.check EXCEPT ![k] = doc, ![q] = other] \in [Checks -> B!CheckDocs]
  BY <1>1
<1> QED
  BY <1>2, <1>3 DEF B!Databases

\* Where two members change, the sum does by what they change.
LEMMA SumOfTwo ==
  ASSUME NEW X, IsFiniteSet(X), NEW f, NEW g, NEW x \in X, NEW y \in X, x # y,
         \A z \in X : f[z] \in Int /\ g[z] \in Int,
         \A z \in X \ {x, y} : f[z] = g[z]
  PROVE  SumFunctionOnSet(g, X) = SumFunctionOnSet(f, X) + g[x] + g[y] - f[x] - f[y]
<1>1. PICK h : h = [z \in X |-> IF z = x THEN g[x] ELSE f[z]]
  OBVIOUS
<1>2. /\ \A z \in X : f[z] \in Int /\ h[z] \in Int
      /\ SameOn(X \ {x}, f, h) /\ h[x] = g[x] /\ h[y] = f[y]
  BY <1>1 DEF SameOn
<1>3. \A z \in X : h[z] \in Int /\ g[z] \in Int
  BY <1>1
<1>4. SameOn(X \ {y}, h, g)
  BY <1>1 DEF SameOn
<1>5. SumFunctionOnSet(h, X) = SumFunctionOnSet(f, X) + h[x] - f[x]
  BY <1>2, SumUpdate
<1>6. SumFunctionOnSet(g, X) = SumFunctionOnSet(h, X) + g[y] - h[y]
  BY ONLY IsFiniteSet(X), y \in X, <1>3, <1>4, SumUpdate
<1>7. SumFunctionOnSet(f, X) \in Int
  BY SumType
<1> QED
  BY <1>2, <1>5, <1>6, <1>7

\* A change of status.
LEMMA MoneyStatus ==
  ASSUME MoneyIInv, NEW c \in B!Callers, B!Reads(c), NEW k \in Checks,
         NEW status \in {"ready", "completed", "cancelled", "refunded"},
         B!View(c).check[k].status \in {"open", "ready", "completed"},
         status = "cancelled" => B!Refundable(B!View(c), k) = 0,
         B!Commit(c, [B!View(c) EXCEPT !.check[k].status = status])
  PROVE  MoneyIInv'
<1>1. PICK s : s = B!View(c)
  OBVIOUS
<1>2. PICK old : old = s.check[k]
  OBVIOUS
<1>3. PICK doc : doc = [old EXCEPT !.status = status]
  OBVIOUS
<1>4. PICK new : new = [check |-> [s.check EXCEPT ![k] = doc], row |-> s.row]
  OBVIOUS
<1>5. s \in B!Databases /\ MoneySound(s)
  BY <1>1, MoneyView
<1>6. old \in B!CheckDocs /\ s.row \in [Requests -> B!RowDocs]
  BY <1>2, <1>5, MoneyFields, MoneyRecord
<1>7. doc \in B!CheckDocs
  BY <1>3, <1>6 DEF B!CheckDocs
<1>8. new \in B!Databases
  BY <1>4, <1>5, <1>6, <1>7, ChecksSet
<1>9. /\ new.row = s.row /\ new.check[k] = doc
      /\ \A q \in Checks \ {k} : new.check[q] = s.check[q]
  BY <1>4, <1>5, MoneyRecord
<1>10. CheckMoves(old, doc, B!Taken(s, k), B!Given(s, k))
  <2>1. CheckSound(s, k)
    BY <1>5 DEF MoneySound
  <2>2. /\ doc.paid = old.paid /\ doc.total = old.total /\ doc.refunded = old.refunded
        /\ doc.status = status
    BY <1>3, <1>6 DEF B!CheckDocs
  <2>3. B!Taken(s, k) \in Nat /\ B!Given(s, k) \in Nat
    BY <1>5, MoneySums
  <2>4. status = "cancelled" => B!Taken(s, k) <= B!Given(s, k)
    BY <1>1, <2>3 DEF B!Refundable, B!Minus
  <2> QED
    BY <1>1, <1>2, <2>1, <2>2, <2>4 DEF CheckMoves, CheckSound
<1>11. SumFunctionOnSet(PaidOn(s), Checks) <= SumFunctionOnSet(PaidOn(new), Checks)
  <2>1. PICK f, g : f = PaidOn(s) /\ g = PaidOn(new)
    OBVIOUS
  <2>2. doc.paid = old.paid /\ doc.status = status
    BY <1>3, <1>6 DEF B!CheckDocs
  <2>3. \A q \in Checks : f[q] = g[q] /\ f[q] \in Int
    BY <1>1, <1>2, <1>5, <1>9, <2>1, <2>2, MoneyFields DEF PaidOn
  <2>4. SumFunctionOnSet(f, Checks) = SumFunctionOnSet(g, Checks)
    BY <2>3, MoneyFinite, SumEqual
  <2>5. SumFunctionOnSet(f, Checks) \in Int
    BY <2>3, MoneyFinite, SumType
  <2> QED
    BY <2>1, <2>4, <2>5
<1>12. MoneySound(new) /\ MoneyMove(s, new)
  BY <1>2, <1>5, <1>8, <1>9, <1>10, <1>11, ChecksAlone
<1>13. B!Commit(c, new)
  <2>1. s = [check |-> s.check, row |-> s.row] /\ DOMAIN s.check = Checks
    BY <1>5, MoneyRecord
  <2>2. [s EXCEPT !.check[k].status = status] = new
    BY <1>2, <1>3, <1>4, <2>1
  <2> QED
    BY <1>1, <2>2
<1> QED
  BY <1>1, <1>8, <1>12, <1>13, MoneyCommit

\* reopenOrder and the steps of an order's status.
LEMMA MoneyAdvances ==
  ASSUME MoneyIInv, NEW c \in B!Callers, B!Reads(c), NEW k \in Checks,
         \/ B!Reopen(c, k)
         \/ \E status \in {"ready", "completed", "cancelled", "refunded"} : B!Advance(c, k, status)
  PROVE  MoneyIInv'
<1>1. CASE B!Reopen(c, k)
  BY <1>1, MoneyStatus DEF B!Reopen
<1>2. ASSUME NEW status \in {"ready", "completed", "cancelled", "refunded"},
             B!Advance(c, k, status)
      PROVE  MoneyIInv'
  BY <1>2, MoneyStatus DEF B!Advance
<1> QED
  BY <1>1, <1>2

\* A check is its four fields, and with another in place of one it is those.
LEMMA CheckWithOne ==
  ASSUME NEW s, NEW t, NEW p, NEW r, NEW doc,
         doc = [status |-> s, total |-> t, paid |-> p, refunded |-> r], NEW x
  PROVE  /\ [doc EXCEPT !.status = x] = [status |-> x, total |-> t, paid |-> p, refunded |-> r]
         /\ [doc EXCEPT !.total = x] = [status |-> s, total |-> x, paid |-> p, refunded |-> r]
         /\ [doc EXCEPT !.paid = x] = [status |-> s, total |-> t, paid |-> x, refunded |-> r]
         /\ [doc EXCEPT !.refunded = x] = [status |-> s, total |-> t, paid |-> p, refunded |-> x]
OBVIOUS

\* A check is its four fields.
LEMMA CheckRecord ==
  ASSUME NEW doc \in B!CheckDocs
  PROVE  doc = [status |-> doc.status, total |-> doc.total, paid |-> doc.paid,
                refunded |-> doc.refunded]
BY DEF B!CheckDocs

\* Amounts are whole and more than nothing.
LEMMA AmountsAre ==
  ASSUME MoneyIInv
  PROVE  \A x \in B!Amounts : x \in Nat /\ x > 0
<1>1. PICK f : f = [k \in Checks |-> db.check[k].total]
  OBVIOUS
<1>2. \A k \in Checks : f[k] \in Int
  BY <1>1, MoneyFields DEF MoneyIInv
<1>3. B!Total(f) \in Int
  BY <1>1, <1>2, MoneyFinite, MoneyTotal, SumType
<1> QED
  BY <1>1, <1>3 DEF B!Amounts

\* splitOrder
LEMMA MoneySplits ==
  ASSUME MoneyIInv, NEW c \in B!Callers, B!Reads(c), NEW k \in Checks, NEW child \in Checks,
         NEW units \in B!Amounts, B!Split(c, k, child, units)
  PROVE  MoneyIInv'
<1>1. PICK s : s = B!View(c)
  OBVIOUS
<1>2. PICK doc : doc = s.check[k]
  OBVIOUS
<1>3. PICK rest : rest = doc.total - units
  OBVIOUS
<1>4. PICK stays : stays = B!Least(doc.paid, rest)
  OBVIOUS
<1>5. PICK over : over = B!Least(doc.paid - stays, units)
  OBVIOUS
<1>6. PICK one : one = [status |-> IF stays = rest THEN "completed" ELSE doc.status,
                        total |-> rest, paid |-> stays, refunded |-> doc.refunded]
  OBVIOUS
<1>7. PICK two : two = [status |-> IF over = units THEN "completed" ELSE doc.status,
                        total |-> units, paid |-> over, refunded |-> 0]
  OBVIOUS
<1>8. PICK new : new = [check |-> [s.check EXCEPT ![k] = one, ![child] = two], row |-> s.row]
  OBVIOUS
<1>9. s \in B!Databases /\ MoneySound(s) /\ doc \in B!CheckDocs
      /\ s.row \in [Requests -> B!RowDocs] /\ units \in Nat /\ units > 0
  BY <1>1, <1>2, MoneyView, MoneyFields, MoneyRecord, AmountsAre
<1>10. /\ doc.status \in {"open", "ready"} /\ units < doc.total /\ B!Commit(c, new)
       /\ s.check[child].status = "absent"
  <2>1. [doc EXCEPT !.total = rest, !.paid = stays,
                    !.status = IF stays = rest THEN "completed" ELSE @] = one
    <3>1. PICK x : x = [doc EXCEPT !.total = rest]
      OBVIOUS
    <3>2. PICK y : y = [x EXCEPT !.paid = stays]
      OBVIOUS
    <3>3. PICK status : status = IF stays = rest THEN "completed" ELSE doc.status
      OBVIOUS
    <3>4. PICK z : z = [y EXCEPT !.status = status]
      OBVIOUS
    <3>5. x = [status |-> doc.status, total |-> rest, paid |-> doc.paid,
               refunded |-> doc.refunded]
      <4>1. doc = [status |-> doc.status, total |-> doc.total, paid |-> doc.paid,
                   refunded |-> doc.refunded]
        BY <1>9, CheckRecord
      <4> QED
        BY <3>1, <4>1, CheckWithOne
    <3>6. y = [status |-> doc.status, total |-> rest, paid |-> stays,
               refunded |-> doc.refunded]
      BY <3>2, <3>5, CheckWithOne
    <3>7. z = [status |-> status, total |-> rest, paid |-> stays, refunded |-> doc.refunded]
      BY <3>4, <3>6, CheckWithOne
    <3> QED
      BY <1>6, <3>1, <3>2, <3>3, <3>4, <3>7, Zenon
  <2>2. [row |-> s.row, check |-> [s.check EXCEPT ![k] = one, ![child] = two]] = new
    BY <1>8
  <2> QED
    BY <1>1, <1>2, <1>3, <1>4, <1>5, <1>7, <2>1, <2>2, Zenon DEF B!Split, B!IsOpen
<1>11. /\ doc.total \in Nat /\ doc.paid \in Nat /\ doc.refunded \in Nat /\ doc.paid <= doc.total
       /\ s.check[child].paid = 0
  BY <1>2, <1>9, <1>10, MoneyFields DEF MoneySound, CheckSound
<1>12. /\ rest \in Nat /\ rest > 0 /\ stays \in Nat /\ over \in Nat
       /\ stays <= rest /\ over <= units /\ stays + over = doc.paid
  BY <1>3, <1>4, <1>5, <1>9, <1>10, <1>11 DEF B!Least
<1>13. one \in B!CheckDocs /\ two \in B!CheckDocs
  BY <1>6, <1>7, <1>9, <1>10, <1>11, <1>12 DEF B!CheckDocs
<1>14. new \in B!Databases
  BY <1>8, <1>9, <1>13, ChecksSet
<1>15. k # child
  BY <1>2, <1>10
<1>16. /\ new.row = s.row /\ new.check[k] = one /\ new.check[child] = two
       /\ \A q \in Checks \ {k, child} : new.check[q] = s.check[q]
  <2>1. DOMAIN s.check = Checks
    BY <1>9, MoneyRecord
  <2> QED
    BY <1>8, <1>15, <2>1
<1>17. CheckMoves(doc, one, B!Taken(s, k), B!Given(s, k))
  BY <1>6, <1>10, <1>12 DEF CheckMoves
<1>18. CheckMoves(s.check[child], two, B!Taken(s, child), B!Given(s, child))
  BY <1>7, <1>9, <1>10, <1>12 DEF CheckMoves
<1>19. SumFunctionOnSet(PaidOn(s), Checks) <= SumFunctionOnSet(PaidOn(new), Checks)
  <2>1. PICK f, g : f = PaidOn(s) /\ g = PaidOn(new)
    OBVIOUS
  <2>2. /\ f[k] = doc.paid /\ f[child] = 0 /\ g[k] = stays /\ g[child] = over
    BY <1>2, <1>6, <1>7, <1>10, <1>11, <1>16, <2>1 DEF PaidOn
  <2>3. \A q \in Checks : f[q] \in Int /\ g[q] \in Int
    BY <1>9, <1>14, <2>1, MoneyFields DEF PaidOn
  <2>4. \A q \in Checks \ {k, child} : f[q] = g[q]
    BY <1>16, <2>1 DEF PaidOn
  <2>5. SumFunctionOnSet(g, Checks)
          = SumFunctionOnSet(f, Checks) + g[k] + g[child] - f[k] - f[child]
    BY <1>15, <2>3, <2>4, MoneyFinite, SumOfTwo
  <2>6. SumFunctionOnSet(f, Checks) \in Int
    BY <2>3, MoneyFinite, SumType
  <2> QED
    BY <1>11, <1>12, <2>1, <2>2, <2>5, <2>6
<1>20. MoneySound(new) /\ MoneyMove(s, new)
  <2>1. \A q \in Checks :
           \/ new.check[q] = s.check[q]
           \/ CheckMoves(s.check[q], new.check[q], B!Taken(s, q), B!Given(s, q))
    BY <1>2, <1>16, <1>17, <1>18
  <2> QED
    BY <1>9, <1>14, <1>16, <1>19, <2>1, ChecksAlone
<1> QED
  BY <1>1, <1>10, <1>14, <1>20, MoneyCommit

\* Rows that give back what they did.
LEMMA BacksAlike ==
  ASSUME NEW s \in B!Databases, NEW n \in B!Databases, NEW t \in Requests,
         \A r \in Requests : n.row[r].back[t] = s.row[r].back[t]
  PROVE  Back(n, t) = Back(s, t)
<1>1. PICK f, g : f = BackBy(n, t) /\ g = BackBy(s, t)
  OBVIOUS
<1>2. \A r \in Requests : f[r] = g[r]
  BY <1>1 DEF BackBy
<1> QED
  BY <1>1, <1>2, MoneyFinite, SumEqual DEF Back

\* Rows that only move to another check give back what they did.
LEMMA RowsAlike ==
  ASSUME NEW s \in B!Databases, NEW n \in B!Databases, MoneySound(s),
         \A r \in Requests : /\ n.row[r].status = s.row[r].status
                             /\ n.row[r].amount = s.row[r].amount
                             /\ n.row[r].back = s.row[r].back
  PROVE  /\ \A t \in Requests : Back(n, t) = Back(s, t)
         /\ SumFunctionOnSet(Change(s, n), Requests) = 0
<1>1. \A t \in Requests : Back(n, t) = Back(s, t)
  BY BacksAlike
<1>2. PICK f : f = Change(s, n)
  OBVIOUS
<1>3. ASSUME NEW t \in Requests PROVE f[t] = 0
  <2>1. Unreturned(n, t) = Unreturned(s, t) /\ (IsTender(n.row[t]) <=> IsTender(s.row[t]))
    BY <1>1 DEF Unreturned, IsTender
  <2>2. Stake(n, {})[t] = Stake(s, {})[t]
    BY <2>1 DEF Stake
  <2>3. Stake(s, {})[t] \in Nat
    BY StakeIs
  <2> QED
    BY <1>2, <2>2, <2>3 DEF Change
<1> QED
  BY <1>1, <1>2, <1>3, MoneyFinite, SumZero

\* mergeTableOrders
LEMMA MoneyMerges ==
  ASSUME MoneyIInv, NEW c \in B!Callers, B!Reads(c), NEW from \in Checks, NEW into \in Checks,
         B!Merge(c, from, into)
  PROVE  MoneyIInv'
<1>1. PICK s : s = B!View(c)
  OBVIOUS
<1>2. PICK a, b : a = s.check[from] /\ b = s.check[into]
  OBVIOUS
<1>3. PICK one : one = [status |-> b.status, total |-> a.total + b.total,
                        paid |-> a.paid + b.paid, refunded |-> b.refunded]
  OBVIOUS
<1>4. PICK two : two = [a EXCEPT !.status = "merged"]
  OBVIOUS
<1>5. PICK rows : rows = B!Reparented(s, from, into)
  OBVIOUS
<1>6. PICK new : new = [check |-> [s.check EXCEPT ![into] = one, ![from] = two], row |-> rows]
  OBVIOUS
<1>7. s \in B!Databases /\ MoneySound(s) /\ a \in B!CheckDocs /\ b \in B!CheckDocs
      /\ s.row \in [Requests -> B!RowDocs]
  BY <1>1, <1>2, MoneyView, MoneyFields, MoneyRecord
<1>8. /\ a.status \in {"open", "ready"} /\ b.status \in {"open", "ready"} /\ from # into
      /\ B!Commit(c, new)
  <2>1. [b EXCEPT !.total = a.total + b.total, !.paid = a.paid + b.paid] = one
    <3>1. PICK total, paid : total = a.total + b.total /\ paid = a.paid + b.paid
      OBVIOUS
    <3>2. PICK x : x = [b EXCEPT !.total = total]
      OBVIOUS
    <3>3. PICK y : y = [x EXCEPT !.paid = paid]
      OBVIOUS
    <3>4. b = [status |-> b.status, total |-> b.total, paid |-> b.paid, refunded |-> b.refunded]
      BY <1>7, CheckRecord
    <3>5. x = [status |-> b.status, total |-> total, paid |-> b.paid, refunded |-> b.refunded]
      BY <3>2, <3>4, CheckWithOne
    <3>6. y = [status |-> b.status, total |-> total, paid |-> paid, refunded |-> b.refunded]
      BY <3>3, <3>5, CheckWithOne
    <3> QED
      BY <1>3, <3>1, <3>2, <3>3, <3>6, Zenon
  <2>2. [row |-> rows, check |-> [s.check EXCEPT ![into] = one, ![from] = two]] = new
    BY <1>6
  <2> QED
    BY <1>1, <1>2, <1>4, <1>5, <2>1, <2>2, Zenon DEF B!Merge, B!IsOpen
<1>9. /\ a.total \in Nat /\ a.paid \in Nat /\ b.total \in Nat /\ b.paid \in Nat
      /\ b.refunded \in Nat /\ a.paid <= a.total /\ b.paid <= b.total
      /\ a.total > 0 /\ b.total > 0
  BY <1>2, <1>7, <1>8, MoneyFields DEF MoneySound, CheckSound
<1>10. /\ one \in B!CheckDocs /\ two \in B!CheckDocs
       /\ two.status = "merged" /\ two.paid = a.paid /\ two.total = a.total
  BY <1>3, <1>4, <1>7, <1>8, <1>9 DEF B!CheckDocs
<1>11. ASSUME NEW r \in Requests
       PROVE  /\ rows[r] \in B!RowDocs
              /\ rows[r].status = s.row[r].status /\ rows[r].amount = s.row[r].amount
              /\ rows[r].back = s.row[r].back
              /\ rows[r].check = IF IsOn(s.row[r], from) THEN into ELSE s.row[r].check
              /\ ~IsOn(s.row[r], from) => rows[r] = s.row[r]
  <2>1. PICK row : row = s.row[r]
    OBVIOUS
  <2>2. row \in B!RowDocs
    BY <1>7, <2>1
  <2>3. PICK moved : moved = [row EXCEPT !.check = into]
    OBVIOUS
  <2>4. moved \in B!RowDocs /\ moved.status = row.status /\ moved.amount = row.amount
        /\ moved.back = row.back /\ moved.check = into
    BY <2>2, <2>3 DEF B!RowDocs
  <2>5. rows[r] = IF IsOn(row, from) THEN moved ELSE row
    BY <1>5, <2>1, <2>3 DEF B!Reparented, IsOn
  <2> QED
    BY <2>1, <2>2, <2>4, <2>5
<1>12. rows \in [Requests -> B!RowDocs]
  <2>1. rows = [r \in Requests |-> rows[r]]
    BY <1>5 DEF B!Reparented
  <2> QED
    BY <1>11, <2>1
<1>13. new \in B!Databases
  BY <1>6, <1>7, <1>10, <1>12, ChecksSet
<1>14. /\ new.row = rows /\ new.check[into] = one /\ new.check[from] = two
       /\ \A q \in Checks \ {from, into} : new.check[q] = s.check[q]
  <2>1. DOMAIN s.check = Checks
    BY <1>7, MoneyRecord
  <2> QED
    BY <1>6, <1>8, <2>1
<1>15. /\ \A t \in Requests : Back(new, t) = Back(s, t)
       /\ SumFunctionOnSet(Change(s, new), Requests) = 0
  BY <1>7, <1>11, <1>13, <1>14, RowsAlike
<1>16. Changes(s, new, from) /\ Changes(s, new, into)
  BY <1>2, <1>3, <1>8, <1>9, <1>10, <1>14 DEF Changes
<1>17. ASSUME NEW k \in Checks PROVE CheckSound(new, k)
  <2>1. CheckSound(s, k)
    BY <1>7 DEF MoneySound
  <2>2. PICK gs, gn, ts, tn : /\ gs = GivenBy(s, k) /\ gn = GivenBy(new, k)
                              /\ ts = TakenBy(s, k) /\ tn = TakenBy(new, k)
    OBVIOUS
  <2>3. /\ SumFunctionOnSet(gs, Requests) \in Nat /\ SumFunctionOnSet(gn, Requests) \in Nat
        /\ SumFunctionOnSet(ts, Requests) \in Nat /\ SumFunctionOnSet(tn, Requests) \in Nat
    BY <1>7, <1>13, <2>2, MoneySums
  <2>4. \A r \in Requests : s.row[r].amount \in Nat
    BY <1>7, MoneyFields
  <2>5. CASE k = from
    BY <1>2, <1>9, <1>10, <1>14, <2>5 DEF CheckSound
  <2>6. CASE k = into
    <3>1. \A r \in Requests : gs[r] \in Int /\ gn[r] \in Int /\ gs[r] <= gn[r]
      BY <1>8, <1>11, <1>14, <2>2, <2>4, <2>6 DEF GivenBy, IsOn
    <3>2. SumFunctionOnSet(gs, Requests) <= SumFunctionOnSet(gn, Requests)
      BY <3>1, MoneyFinite, SumOrder
    <3>3. one.status = b.status /\ one.total > 0 /\ one.paid <= one.total
          /\ one.refunded = b.refunded
      BY <1>3, <1>9
    <3> QED
      BY <1>2, <1>8, <1>9, <1>14, <2>1, <2>2, <2>3, <2>6, <3>2, <3>3 DEF CheckSound
  <2>7. CASE k \notin {from, into}
    <3>1. \A r \in Requests : gs[r] = gn[r] /\ ts[r] = tn[r]
      BY <1>11, <1>14, <2>2, <2>7 DEF GivenBy, TakenBy, IsOn, IsTender
    <3>2. SumFunctionOnSet(gs, Requests) = SumFunctionOnSet(gn, Requests)
      BY <3>1, MoneyFinite, SumEqual
    <3>3. SumFunctionOnSet(ts, Requests) = SumFunctionOnSet(tn, Requests)
      BY <3>1, MoneyFinite, SumEqual
    <3>4. new.check[k] = s.check[k]
      BY <1>14, <2>7
    <3> QED
      BY <2>1, <2>2, <3>2, <3>3, <3>4 DEF CheckSound
  <2> QED
    BY <2>5, <2>6, <2>7
<1>18. ASSUME NEW r \in Requests PROVE RowSound(new, r)
  <2>1. RowSound(s, r) /\ s.row[r].check \in Checks
    BY <1>7, MoneyFields DEF MoneySound
  <2>2. new.row[r].status # "absent" =>
           new.check[new.row[r].check].status \notin {"absent", "merged"}
    <3>1. one.status = b.status
      BY <1>3
    <3>2. CASE IsOn(s.row[r], from)
      BY <1>8, <1>11, <1>14, <3>1, <3>2
    <3>3. CASE ~IsOn(s.row[r], from)
      BY <1>8, <1>11, <1>14, <2>1, <3>1, <3>3 DEF RowSound, IsOn
    <3> QED
      BY <3>2, <3>3
  <2>3. ASSUME NEW t \in Requests, new.row[r].back[t] > 0
        PROVE  /\ new.row[r].status = "refund"
               /\ new.row[t].status \in {"paid", "refunded", "reversed"}
               /\ new.row[t].check = new.row[r].check
    <3>1. /\ s.row[r].status = "refund" /\ s.row[t].check = s.row[r].check
          /\ s.row[t].status \in {"paid", "refunded", "reversed"}
      BY <1>11, <1>14, <2>1, <2>3 DEF RowSound
    <3>2. IsOn(s.row[r], from) <=> IsOn(s.row[t], from)
      BY <3>1 DEF IsOn
    <3> QED
      BY <1>11, <1>14, <3>1, <3>2
  <2>4. /\ new.row[r].status \in {"paid", "refunded", "reversed"} => new.row[r].amount > 0
        /\ Back(new, r) <= new.row[r].amount
        /\ new.row[r].status = "refund"
              => SumFunctionOnSet(new.row[r].back, Requests) <= new.row[r].amount
    BY <1>11, <1>14, <1>15, <2>1 DEF RowSound
  <2> QED
    BY <2>2, <2>3, <2>4 DEF RowSound
<1>19. SumFunctionOnSet(PaidOn(s), Checks) = SumFunctionOnSet(PaidOn(new), Checks)
       /\ SumFunctionOnSet(PaidOn(s), Checks) \in Int
  <2>1. PICK f, g : f = PaidOn(s) /\ g = PaidOn(new)
    OBVIOUS
  <2>2. /\ f[into] = b.paid /\ f[from] = a.paid /\ g[into] = a.paid + b.paid /\ g[from] = 0
    BY <1>2, <1>3, <1>8, <1>10, <1>14, <2>1 DEF PaidOn
  <2>3. \A q \in Checks : f[q] \in Int /\ g[q] \in Int
    BY <1>7, <1>13, <2>1, MoneyFields DEF PaidOn
  <2>4. \A q \in Checks \ {from, into} : f[q] = g[q]
    BY <1>14, <2>1 DEF PaidOn
  <2>5. SumFunctionOnSet(g, Checks)
          = SumFunctionOnSet(f, Checks) + g[from] + g[into] - f[from] - f[into]
    BY <1>8, <2>3, <2>4, MoneyFinite, SumOfTwo
  <2>6. SumFunctionOnSet(f, Checks) \in Int
    BY <2>3, MoneyFinite, SumType
  <2> QED
    BY <1>9, <2>1, <2>2, <2>5, <2>6
<1>20. MoneyMove(s, new)
  <2>1. ASSUME NEW r \in Requests
        PROVE  \/ new.row[r] = s.row[r]
               \/ \A k \in Checks : IsOn(s.row[r], k) \/ IsOn(new.row[r], k) => Changes(s, new, k)
    BY <1>11, <1>14, <1>16 DEF IsOn
  <2>2. \A r \in Requests : s.row[r].status # "absent" =>
           /\ new.row[r].status # "absent" /\ new.row[r].amount = s.row[r].amount
    BY <1>11, <1>14
  <2>3. SumFunctionOnSet(Change(s, new), Requests) + SumFunctionOnSet(PaidOn(s), Checks)
           <= SumFunctionOnSet(PaidOn(new), Checks)
    BY <1>15, <1>19
  <2> QED
    BY <1>15, <2>1, <2>2, <2>3 DEF MoneyMove
<1> QED
  BY <1>1, <1>8, <1>13, <1>17, <1>18, <1>20, MoneyCommit DEF MoneySound

\* applyPayment
LEMMA MoneyPays ==
  ASSUME MoneyIInv, NEW c \in B!Callers, B!Reads(c), NEW k \in Checks, NEW r \in Requests,
         NEW amount \in B!Amounts, B!Pay(c, k, r, amount)
  PROVE  MoneyIInv'
<1>1. PICK s : s = B!View(c)
  OBVIOUS
<1>2. PICK doc : doc = s.check[k]
  OBVIOUS
<1>3. PICK paid : paid = doc.paid + amount
  OBVIOUS
<1>4. PICK status : status = IF paid >= doc.total THEN "completed" ELSE doc.status
  OBVIOUS
<1>5. PICK one : one = [status |-> status, total |-> doc.total, paid |-> paid,
                        refunded |-> doc.refunded]
  OBVIOUS
<1>6. PICK row : row = [status |-> "paid", check |-> k, amount |-> amount, back |-> B!NoBack]
  OBVIOUS
<1>7. PICK rows : rows = [s.row EXCEPT ![r] = row]
  OBVIOUS
<1>8. PICK new : new = [check |-> [s.check EXCEPT ![k] = one], row |-> rows]
  OBVIOUS
<1>9. s \in B!Databases /\ MoneySound(s) /\ doc \in B!CheckDocs
      /\ s.row \in [Requests -> B!RowDocs] /\ amount \in Nat /\ amount > 0
  BY <1>1, <1>2, MoneyView, MoneyFields, MoneyRecord, AmountsAre
<1>10. /\ doc.status \in {"open", "ready", "completed"} /\ amount <= B!Due(doc)
       /\ s.row[r].status = "absent" /\ B!Commit(c, new)
  <2>1. [doc EXCEPT !.paid = paid,
                    !.status = IF paid >= doc.total THEN "completed" ELSE @] = one
    <3>1. PICK x : x = [doc EXCEPT !.paid = paid]
      OBVIOUS
    <3>2. PICK y : y = [x EXCEPT !.status = status]
      OBVIOUS
    <3>3. doc = [status |-> doc.status, total |-> doc.total, paid |-> doc.paid,
                 refunded |-> doc.refunded]
      BY <1>9, CheckRecord
    <3>4. x = [status |-> doc.status, total |-> doc.total, paid |-> paid,
               refunded |-> doc.refunded]
      BY <3>1, <3>3, CheckWithOne
    <3>5. y = [status |-> status, total |-> doc.total, paid |-> paid,
               refunded |-> doc.refunded]
      BY <3>2, <3>4, CheckWithOne
    <3> QED
      BY <1>4, <1>5, <3>1, <3>2, <3>5, Zenon
  <2>2. /\ doc.status \in {"open", "ready"} \/ doc.status = "completed"
        /\ amount <= B!Due(doc) /\ s.row[r].status = "absent" /\ B!Commit(c, new)
    BY <1>1, <1>2, <1>3, <1>6, <1>7, <1>8, <2>1, Zenon DEF B!Pay, B!IsOpen
  <2> QED
    BY <2>2
<1>11. /\ doc.total \in Nat /\ doc.paid \in Nat /\ doc.refunded \in Nat /\ doc.total > 0
  BY <1>2, <1>9, <1>10, MoneyFields DEF MoneySound, CheckSound
<1>12. /\ paid \in Nat /\ paid <= doc.total /\ paid # doc.paid
       /\ status \in {"open", "ready", "completed"}
  BY <1>3, <1>4, <1>9, <1>10, <1>11 DEF B!Due, B!Minus
<1>13. one \in B!CheckDocs /\ row \in B!RowDocs
  BY <1>5, <1>6, <1>9, <1>11, <1>12 DEF B!CheckDocs, B!RowDocs, B!NoBack
<1>14. rows \in [Requests -> B!RowDocs]
       /\ rows[r] = row /\ \A q \in Requests \ {r} : rows[q] = s.row[q]
  BY <1>7, <1>9, <1>13
<1>15. new \in B!Databases
  BY <1>8, <1>9, <1>13, <1>14, ChecksSet
<1>16. /\ new.row = rows /\ new.check[k] = one
       /\ \A q \in Checks \ {k} : new.check[q] = s.check[q]
  <2>1. DOMAIN s.check = Checks
    BY <1>9, MoneyRecord
  <2> QED
    BY <1>8, <2>1
<1>17. \A t, q \in Requests : new.row[q].back[t] = s.row[q].back[t]
  <2>1. \A t \in Requests : s.row[r].back[t] \in Nat /\ ~(s.row[r].back[t] > 0)
    BY <1>9, <1>10, MoneyFields DEF MoneySound, RowSound
  <2>2. \A t \in Requests : new.row[r].back[t] = 0
    BY <1>6, <1>14, <1>16 DEF B!NoBack
  <2> QED
    BY <1>14, <1>16, <2>1, <2>2
<1>18. \A t \in Requests : Back(new, t) = Back(s, t)
  BY <1>9, <1>15, <1>17, BacksAlike
<1>19. Back(s, r) = 0 /\ Back(new, r) = 0
  BY <1>9, <1>10, <1>18, BackNone
<1>20. ASSUME NEW q \in Checks PROVE CheckSound(new, q)
  <2>1. CheckSound(s, q)
    BY <1>9 DEF MoneySound
  <2>2. PICK gs, gn, ts, tn : /\ gs = GivenBy(s, q) /\ gn = GivenBy(new, q)
                              /\ ts = TakenBy(s, q) /\ tn = TakenBy(new, q)
    OBVIOUS
  <2>3. \A t \in Requests : gs[t] = gn[t]
    BY <1>6, <1>10, <1>14, <1>16, <2>2 DEF GivenBy
  <2>4. SumFunctionOnSet(gs, Requests) = SumFunctionOnSet(gn, Requests)
    BY <2>3, MoneyFinite, SumEqual
  <2>5. CASE q = k
    BY <1>2, <1>5, <1>10, <1>11, <1>12, <1>16, <2>1, <2>2, <2>4, <2>5 DEF CheckSound
  <2>6. CASE q # k
    <3>1. \A t \in Requests : ts[t] = tn[t]
      BY <1>6, <1>10, <1>14, <1>16, <2>2, <2>6 DEF TakenBy, IsTender
    <3>2. SumFunctionOnSet(ts, Requests) = SumFunctionOnSet(tn, Requests)
      BY <3>1, MoneyFinite, SumEqual
    <3>3. new.check[q] = s.check[q]
      BY <1>16, <2>6
    <3> QED
      BY <2>1, <2>2, <2>4, <3>2, <3>3 DEF CheckSound
  <2> QED
    BY <2>5, <2>6
<1>21. ASSUME NEW q \in Requests PROVE RowSound(new, q)
  <2>1. RowSound(s, q) /\ s.row[q].check \in Checks
    BY <1>9, MoneyFields DEF MoneySound
  <2>2. \A x \in Checks : s.check[x].status \notin {"absent", "merged"}
                             => new.check[x].status \notin {"absent", "merged"}
    BY <1>5, <1>12, <1>16
  <2>3. CASE q = r
    <3>1. /\ new.row[r].status = "paid" /\ new.row[r].amount = amount /\ new.row[r].check = k
          /\ new.check[k].status \notin {"absent", "merged"}
      BY <1>5, <1>6, <1>12, <1>14, <1>16
    <3>2. \A t \in Requests : ~(new.row[r].back[t] > 0)
      BY <1>6, <1>14, <1>16 DEF B!NoBack
    <3> QED
      BY <1>9, <1>19, <2>3, <3>1, <3>2 DEF RowSound
  <2>4. CASE q # r
    <3>1. new.row[q] = s.row[q]
      BY <1>14, <1>16, <2>4
    <3>2. ASSUME NEW t \in Requests, s.row[q].back[t] > 0
          PROVE  new.row[t] = s.row[t]
      <4>1. t # r
        BY <1>10, <2>1, <3>2 DEF RowSound
      <4> QED
        BY <1>14, <1>16, <4>1
    <3> QED
      BY <1>18, <2>1, <2>2, <3>1, <3>2 DEF RowSound
  <2> QED
    BY <2>3, <2>4
<1>22. SumFunctionOnSet(Change(s, new), Requests) = amount
  <2>1. PICK f : f = Change(s, new)
    OBVIOUS
  <2>2. f[r] = amount
    <3>1. Stake(new, {})[r] = amount
      BY <1>6, <1>9, <1>14, <1>16, <1>19 DEF Stake, Unreturned, IsTender
    <3>2. Stake(s, {})[r] = 0
      BY <1>10 DEF Stake, IsTender
    <3> QED
      BY <1>9, <1>10, <2>1, <3>1, <3>2 DEF Change
  <2>3. ASSUME NEW t \in Requests \ {r} PROVE f[t] = 0
    <3>1. new.row[t] = s.row[t] /\ Back(new, t) = Back(s, t)
      BY <1>14, <1>16, <1>18
    <3>2. Stake(new, {})[t] = Stake(s, {})[t]
      BY <3>1 DEF Stake, Unreturned
    <3>3. Stake(s, {})[t] \in Nat
      BY <1>9, StakeIs
    <3> QED
      BY <2>1, <3>2, <3>3 DEF Change
  <2>4. f[r] \in Int /\ \A t \in Requests \ {r} : f[t] = 0
    BY <1>9, <2>2, <2>3
  <2> QED
    BY <2>1, <2>2, <2>4, MoneyFinite, SumOfOne
<1>23. /\ SumFunctionOnSet(PaidOn(s), Checks) \in Int
       /\ SumFunctionOnSet(PaidOn(new), Checks) = SumFunctionOnSet(PaidOn(s), Checks) + amount
  <2>1. PICK f, g : f = PaidOn(s) /\ g = PaidOn(new)
    OBVIOUS
  <2>2. f[k] = doc.paid /\ g[k] = paid
    BY <1>2, <1>5, <1>10, <1>12, <1>16, <2>1 DEF PaidOn
  <2>3. \A q \in Checks : f[q] \in Int /\ g[q] \in Int
    BY <1>9, <1>15, <2>1, MoneyFields DEF PaidOn
  <2>4. SameOn(Checks \ {k}, f, g)
    BY <1>16, <2>1 DEF PaidOn, SameOn
  <2>5. SumFunctionOnSet(g, Checks) = SumFunctionOnSet(f, Checks) + g[k] - f[k]
    BY <2>3, <2>4, MoneyFinite, SumUpdate
  <2>6. SumFunctionOnSet(f, Checks) \in Int
    BY <2>3, MoneyFinite, SumType
  <2> QED
    BY <1>3, <1>9, <1>11, <2>1, <2>2, <2>5, <2>6
<1>24. MoneyMove(s, new)
  <2>1. ASSUME NEW q \in Requests
        PROVE  \/ new.row[q] = s.row[q]
               \/ \A x \in Checks : IsOn(s.row[q], x) \/ IsOn(new.row[q], x) => Changes(s, new, x)
    <3>1. Changes(s, new, k)
      BY <1>2, <1>5, <1>12, <1>16 DEF Changes
    <3> QED
      BY <1>6, <1>10, <1>14, <1>16, <3>1 DEF IsOn
  <2>2. \A q \in Requests : s.row[q].status # "absent" =>
           /\ new.row[q].status # "absent" /\ new.row[q].amount = s.row[q].amount
    BY <1>10, <1>14, <1>16
  <2>3. SumFunctionOnSet(Change(s, new), Requests) + SumFunctionOnSet(PaidOn(s), Checks)
           <= SumFunctionOnSet(PaidOn(new), Checks)
    BY <1>9, <1>22, <1>23
  <2> QED
    BY <1>18, <2>1, <2>2, <2>3 DEF MoneyMove
<1> QED
  BY <1>1, <1>8, <1>10, <1>15, <1>20, <1>21, <1>24, MoneyCommit DEF MoneySound

\* reversePayment
LEMMA MoneyReverses ==
  ASSUME MoneyIInv, NEW c \in B!Callers, B!Reads(c), NEW r \in Requests, B!Reverse(c, r)
  PROVE  MoneyIInv'
<1>1. PICK s : s = B!View(c)
  OBVIOUS
<1>2. PICK old, k : old = s.row[r] /\ k = s.row[r].check
  OBVIOUS
<1>3. PICK doc : doc = s.check[k]
  OBVIOUS
<1>4. PICK paid : paid = B!Minus(doc.paid, old.amount)
  OBVIOUS
<1>5. PICK status : status = IF doc.status = "completed" /\ paid < doc.total
                             THEN "open" ELSE doc.status
  OBVIOUS
<1>6. PICK one : one = [status |-> status, total |-> doc.total, paid |-> paid,
                        refunded |-> doc.refunded]
  OBVIOUS
<1>7. PICK row : row = [old EXCEPT !.status = "reversed"]
  OBVIOUS
<1>8. PICK rows : rows = [s.row EXCEPT ![r] = row]
  OBVIOUS
<1>9. PICK new : new = [check |-> [s.check EXCEPT ![k] = one], row |-> rows]
  OBVIOUS
<1>10. s \in B!Databases /\ MoneySound(s) /\ k \in Checks /\ doc \in B!CheckDocs
       /\ s.row \in [Requests -> B!RowDocs] /\ old \in B!RowDocs
  BY <1>1, <1>2, <1>3, MoneyView, MoneyFields, MoneyRecord
<1>11. /\ old.status = "paid" /\ B!Returned(s, k, r) = 0 /\ B!Commit(c, new)
  <2>1. [doc EXCEPT !.paid = paid,
                    !.status = IF @ = "completed" /\ paid < doc.total THEN "open" ELSE @] = one
    <3>1. PICK x : x = [doc EXCEPT !.paid = paid]
      OBVIOUS
    <3>2. PICK y : y = [x EXCEPT !.status = status]
      OBVIOUS
    <3>3. doc = [status |-> doc.status, total |-> doc.total, paid |-> doc.paid,
                 refunded |-> doc.refunded]
      BY <1>10, CheckRecord
    <3>4. x = [status |-> doc.status, total |-> doc.total, paid |-> paid,
               refunded |-> doc.refunded]
      BY <3>1, <3>3, CheckWithOne
    <3>5. y = [status |-> status, total |-> doc.total, paid |-> paid,
               refunded |-> doc.refunded]
      BY <3>2, <3>4, CheckWithOne
    <3> QED
      BY <1>5, <1>6, <3>1, <3>2, <3>5, Zenon
  <2>2. [s.row EXCEPT ![r].status = "reversed"] = rows
    BY <1>2, <1>7, <1>8, Zenon
  <2>3. /\ old.status = "paid" /\ B!Returned(s, k, r) = 0
        /\ B!Commit(c, [check |-> [s.check EXCEPT ![k] =
                           [doc EXCEPT !.paid = paid,
                                       !.status = IF @ = "completed" /\ paid < doc.total
                                                  THEN "open" ELSE @]],
                        row |-> [s.row EXCEPT ![r].status = "reversed"]])
    BY <1>1, <1>2, <1>3, <1>4, Zenon DEF B!Reverse
  <2> QED
    BY <1>9, <2>1, <2>2, <2>3, Zenon
<1>12. /\ doc.total \in Nat /\ doc.paid \in Nat /\ doc.refunded \in Nat /\ old.amount \in Nat
       /\ old.amount > 0 /\ doc.status \notin {"absent", "merged"}
       /\ doc.total > 0 /\ doc.paid <= doc.total
  <2>1. /\ CheckSound(s, k) /\ RowSound(s, r)
        /\ doc.total \in Nat /\ doc.paid \in Nat /\ doc.refunded \in Nat /\ old.amount \in Nat
    BY <1>2, <1>3, <1>10, MoneyFields DEF MoneySound
  <2> QED
    BY <1>2, <1>3, <1>11, <2>1 DEF CheckSound, RowSound
<1>13. /\ paid \in Nat /\ paid <= doc.paid /\ doc.paid - old.amount <= paid
  BY <1>4, <1>12 DEF B!Minus
<1>14. /\ one \in B!CheckDocs /\ row \in B!RowDocs
       /\ row.status = "reversed" /\ row.check = k /\ row.amount = old.amount
       /\ row.back = old.back
  <2>1. one \in B!CheckDocs
    BY <1>5, <1>6, <1>10, <1>12, <1>13 DEF B!CheckDocs
  <2>2. /\ row \in B!RowDocs /\ row.status = "reversed" /\ row.check = k
        /\ row.amount = old.amount /\ row.back = old.back
    BY <1>2, <1>7, <1>10 DEF B!RowDocs
  <2> QED
    BY <2>1, <2>2
<1>15. rows \in [Requests -> B!RowDocs]
       /\ rows[r] = row /\ \A q \in Requests \ {r} : rows[q] = s.row[q]
  BY <1>8, <1>10, <1>14
<1>16. new \in B!Databases
  BY <1>9, <1>10, <1>14, <1>15, ChecksSet
<1>17. /\ new.row = rows /\ new.check[k] = one
       /\ \A q \in Checks \ {k} : new.check[q] = s.check[q]
  <2>1. DOMAIN s.check = Checks
    BY <1>10, MoneyRecord
  <2> QED
    BY <1>9, <1>10, <2>1
<1>18. \A t \in Requests : Back(new, t) = Back(s, t)
  <2>1. \A t, q \in Requests : new.row[q].back[t] = s.row[q].back[t]
    BY <1>2, <1>14, <1>15, <1>17
  <2> QED
    BY <1>10, <1>16, <2>1, BacksAlike
<1>19. Back(s, r) = 0
  BY <1>2, <1>10, <1>11, ReturnedIs
<1>20. ASSUME NEW q \in Checks PROVE CheckSound(new, q)
  <2>1. CheckSound(s, q)
    BY <1>10 DEF MoneySound
  <2>2. PICK gs, gn, ts, tn : /\ gs = GivenBy(s, q) /\ gn = GivenBy(new, q)
                              /\ ts = TakenBy(s, q) /\ tn = TakenBy(new, q)
    OBVIOUS
  <2>3. \A t \in Requests : gs[t] = gn[t]
    BY <1>2, <1>11, <1>14, <1>15, <1>17, <2>2 DEF GivenBy
  <2>4. SumFunctionOnSet(gs, Requests) = SumFunctionOnSet(gn, Requests)
    BY <2>3, MoneyFinite, SumEqual
  <2>5. \A t \in Requests : s.row[t].amount \in Nat
    BY <1>10, MoneyFields
  <2>6. \A t \in Requests : tn[t] \in Int /\ ts[t] \in Int /\ tn[t] <= ts[t]
    BY <1>14, <1>15, <1>17, <2>2, <2>5 DEF TakenBy, IsTender
  <2>7. SumFunctionOnSet(tn, Requests) <= SumFunctionOnSet(ts, Requests)
    BY <2>6, MoneyFinite, SumOrder
  <2>8. /\ SumFunctionOnSet(tn, Requests) \in Nat /\ SumFunctionOnSet(ts, Requests) \in Nat
        /\ SumFunctionOnSet(gn, Requests) \in Nat
    BY <1>10, <1>16, <2>2, MoneySums
  <2>9. CASE q = k
    <3>1. /\ one.paid <= one.total /\ one.total > 0 /\ one.refunded = doc.refunded
          /\ one.status # "absent"
          /\ one.status = "cancelled" => doc.status = "cancelled"
      BY <1>5, <1>6, <1>12, <1>13
    <3> QED
      BY <1>3, <1>12, <1>17, <2>1, <2>2, <2>4, <2>7, <2>8, <2>9, <3>1 DEF CheckSound
  <2>10. CASE q # k
    <3>1. new.check[q] = s.check[q]
      BY <1>17, <2>10
    <3> QED
      BY <2>1, <2>2, <2>4, <2>7, <2>8, <3>1 DEF CheckSound
  <2> QED
    BY <2>9, <2>10
<1>21. ASSUME NEW q \in Requests PROVE RowSound(new, q)
  <2>1. RowSound(s, q) /\ s.row[q].check \in Checks
    BY <1>10, MoneyFields DEF MoneySound
  <2>2. \A x \in Checks : s.check[x].status \notin {"absent", "merged"}
                             => new.check[x].status \notin {"absent", "merged"}
    BY <1>5, <1>6, <1>12, <1>17
  <2>3. \A t \in Requests : /\ new.row[t].check = s.row[t].check
                            /\ new.row[t].amount = s.row[t].amount
                            /\ new.row[t].back = s.row[t].back
                            /\ \/ new.row[t].status = s.row[t].status
                               \/ s.row[t].status = "paid" /\ new.row[t].status = "reversed"
    BY <1>2, <1>11, <1>14, <1>15, <1>17
  <2> QED
    BY <1>18, <2>1, <2>2, <2>3 DEF RowSound
<1>22. PICK change : change = Change(s, new)
  OBVIOUS
<1>23. \A t \in Requests \ {r} : change[t] = 0
  <2>1. ASSUME NEW t \in Requests \ {r} PROVE change[t] = 0
    <3>1. new.row[t] = s.row[t] /\ Back(new, t) = Back(s, t)
      BY <1>15, <1>17, <1>18
    <3>2. Stake(new, {})[t] = Stake(s, {})[t]
      BY <3>1 DEF Stake, Unreturned
    <3>3. Stake(s, {})[t] \in Nat
      BY <1>10, StakeIs
    <3> QED
      BY <1>22, <3>2, <3>3 DEF Change
  <2> QED
    BY <2>1
<1>24. change[r] \in Int /\ change[r] + doc.paid <= paid
  <2>1. CASE Changes(s, new, k)
    <3>1. Stake(new, {})[r] = 0
      BY <1>14, <1>15, <1>17 DEF Stake, IsTender
    <3>2. Stake(s, {})[r] = old.amount
      BY <1>2, <1>11, <1>12, <1>19 DEF Stake, Unreturned, IsTender
    <3>3. change[r] = 0 - old.amount
      BY <1>2, <1>22, <2>1, <3>1, <3>2 DEF Change
    <3> QED
      BY <1>12, <1>13, <3>3
  <2>2. CASE ~Changes(s, new, k)
    <3>1. change[r] = 0
      BY <1>2, <1>11, <1>22, <2>2 DEF Change
    <3>2. paid = doc.paid
      BY <1>3, <1>6, <1>17, <2>2 DEF Changes
    <3> QED
      BY <1>12, <3>1, <3>2
  <2> QED
    BY <2>1, <2>2
<1>25. SumFunctionOnSet(change, Requests) = change[r]
  BY <1>23, <1>24, MoneyFinite, SumOfOne
<1>26. /\ SumFunctionOnSet(PaidOn(s), Checks) \in Int
       /\ SumFunctionOnSet(PaidOn(new), Checks)
             = SumFunctionOnSet(PaidOn(s), Checks) + paid - doc.paid
  <2>1. PICK f, g : f = PaidOn(s) /\ g = PaidOn(new)
    OBVIOUS
  <2>2. f[k] = doc.paid /\ g[k] = paid
    BY <1>3, <1>5, <1>6, <1>10, <1>12, <1>17, <2>1 DEF PaidOn
  <2>3. \A q \in Checks : f[q] \in Int /\ g[q] \in Int
    BY <1>10, <1>16, <2>1, MoneyFields DEF PaidOn
  <2>4. SameOn(Checks \ {k}, f, g)
    BY <1>17, <2>1 DEF PaidOn, SameOn
  <2>5. SumFunctionOnSet(g, Checks) = SumFunctionOnSet(f, Checks) + g[k] - f[k]
    BY <1>10, <2>3, <2>4, MoneyFinite, SumUpdate
  <2>6. SumFunctionOnSet(f, Checks) \in Int
    BY <2>3, MoneyFinite, SumType
  <2> QED
    BY <2>1, <2>2, <2>5, <2>6
<1>27. MoneyMove(s, new)
  <2>1. \A q \in Requests : new.row[q] = s.row[q] \/ Follows(s.row[q], new.row[q])
    BY <1>2, <1>11, <1>14, <1>15, <1>17 DEF Follows
  <2>2. \A q \in Requests : s.row[q].status # "absent" =>
           /\ new.row[q].status # "absent" /\ new.row[q].amount = s.row[q].amount
    BY <1>2, <1>14, <1>15, <1>17
  <2>3. SumFunctionOnSet(Change(s, new), Requests) + SumFunctionOnSet(PaidOn(s), Checks)
           <= SumFunctionOnSet(PaidOn(new), Checks)
    BY <1>12, <1>13, <1>22, <1>24, <1>25, <1>26
  <2> QED
    BY <1>18, <2>1, <2>2, <2>3 DEF MoneyMove
<1> QED
  BY <1>1, <1>11, <1>16, <1>20, <1>21, <1>27, MoneyCommit DEF MoneySound

\* allocateRefund: the newest tenders give what is to be refunded, none more than it has.
LEMMA AllocationIs ==
  ASSUME NEW d \in B!Databases, MoneySound(d), NEW k \in Checks,
         NEW amount \in Nat, amount <= B!Refundable(d, k)
  PROVE  LET back == B!Allocation(d, k, amount)
         IN  /\ back \in [Requests -> Nat]
             /\ SumFunctionOnSet(back, Requests) = amount
             /\ \A t \in Requests :
                   /\ back[t] > 0 => d.row[t].check = k /\ IsTender(d.row[t])
                   /\ back[t] <= Unreturned(d, t)
                   /\ d.row[t].check = k /\ IsTender(d.row[t])
                         => B!Left(d, k, t) = Unreturned(d, t)
<1>1. PICK back, tenders : /\ back = B!Allocation(d, k, amount) /\ tenders = B!Tenders(d, k)
  OBVIOUS
<1>2. PICK held : held = LeftBy(d, k)
  OBVIOUS
<1>3. PICK before : before = [t \in Requests |-> {v \in tenders : v > t}]
  OBVIOUS
<1>4. /\ tenders \in SUBSET Requests /\ IsFiniteSet(tenders) /\ tenders \subseteq Nat
      /\ \A t \in Requests : t \in tenders <=> d.row[t].check = k /\ IsTender(d.row[t])
  <2>1. tenders \in SUBSET Requests
        /\ \A t \in Requests : t \in tenders <=> d.row[t].check = k /\ IsTender(d.row[t])
    BY <1>1 DEF B!Tenders, IsTender
  <2> QED
    BY <2>1, MoneyFinite, FS_Subset
<1>5. ASSUME NEW t \in Requests, t \in tenders
      PROVE  B!Left(d, k, t) = Unreturned(d, t)
  <2>1. d.row[t].check = k /\ d.row[t].status \in {"paid", "refunded", "reversed"}
    BY <1>4, <1>5 DEF IsTender
  <2>2. B!Returned(d, k, t) = Back(d, t)
    BY <2>1, ReturnedIs
  <2> QED
    BY <2>2 DEF B!Left, Unreturned
<1>6. \A t \in Requests : /\ Unreturned(d, t) \in Nat
                          /\ t \in tenders => held[t] = Unreturned(d, t)
                          /\ t \notin tenders => held[t] = 0
  BY <1>2, <1>4, UnreturnedIs DEF LeftBy
<1>7. IsOrder(before, tenders)
  <2>1. \A t \in tenders : t \in Nat /\ before[t] = {v \in tenders : v > t}
    BY <1>3, <1>4
  <2>2. \A l \in tenders : before[l] \subseteq tenders /\ l \notin before[l]
    BY <2>1
  <2>3. ASSUME NEW q \in tenders, NEW l \in tenders, q \in before[l]
        PROVE  before[q] \subseteq before[l]
    BY <2>1, <2>3
  <2>4. \A q, l \in tenders : q = l \/ q \in before[l] \/ l \in before[q]
    BY <2>1
  <2> QED
    BY <2>2, <2>3, <2>4 DEF IsOrder
<1>8. ASSUME NEW t \in tenders
      PROVE  B!Total([u \in {v \in tenders : v > t} |-> B!Left(d, k, u)])
                = SumFunctionOnSet(held, before[t])
  <2>1. PICK x : x = before[t]
    OBVIOUS
  <2>2. PICK f : f = [u \in x |-> B!Left(d, k, u)]
    OBVIOUS
  <2>3. x = {v \in tenders : v > t} /\ x \in SUBSET Requests /\ IsFiniteSet(x)
    <3>1. x = {v \in tenders : v > t} /\ x \in SUBSET Requests
      BY <1>3, <1>4, <2>1
    <3> QED
      BY <3>1, MoneyFinite, FS_Subset
  <2>4. \A y \in x : held[y] \in Int /\ f[y] = held[y]
    BY <1>4, <1>5, <1>6, <2>2, <2>3
  <2>5. B!Total(f) = SumFunctionOnSet(held, x)
    <3>1. \A y \in x : held[y] \in Int
      BY <2>4
    <3>2. \A y \in x : f[y] = held[y]
      BY <2>4
    <3>3. DOMAIN f = x /\ x \in SUBSET x /\ \A y \in x \ x : held[y] = 0
      BY <2>2
    <3> QED
      BY <2>3, <3>1, <3>2, <3>3, MoneyTotal
  <2> QED
    BY <2>1, <2>2, <2>3, <2>5
<1>9. ASSUME NEW t \in tenders
      PROVE  /\ SumFunctionOnSet(held, before[t]) \in Nat
             /\ back[t] = Part(amount - SumFunctionOnSet(held, before[t]), held[t])
             /\ back[t] \in Nat /\ back[t] <= Unreturned(d, t)
  <2>1. PICK n : n = SumFunctionOnSet(held, before[t])
    OBVIOUS
  <2>2. n \in Nat
    <3>1. t \in Requests
      BY <1>4
    <3>2. before[t] = {v \in tenders : v > t}
      BY <1>3, <3>1
    <3>3. before[t] \in SUBSET Requests
      BY <1>4, <3>2
    <3>4. ASSUME NEW y \in Requests PROVE held[y] \in Nat
      <4>1. CASE y \in tenders
        BY <1>6, <4>1
      <4>2. CASE y \notin tenders
        BY <1>6, <4>2
      <4> QED
        BY <4>1, <4>2
    <3> QED
      BY <2>1, <3>3, <3>4, MoneyFinite, SumGrows
  <2>3. back[t] = B!Least(Unreturned(d, t), B!Minus(amount, n))
    <3>1. back[t] = B!Least(B!Left(d, k, t),
                            B!Minus(amount, B!Total([u \in {v \in tenders : v > t} |->
                                                        B!Left(d, k, u)])))
      BY <1>1, <1>4 DEF B!Allocation
    <3> QED
      BY <1>4, <1>5, <1>8, <2>1, <3>1
  <2>4. Unreturned(d, t) \in Nat /\ held[t] = Unreturned(d, t)
    BY <1>4, <1>6
  <2> QED
    BY <2>1, <2>2, <2>3, <2>4 DEF B!Least, B!Minus, Part
<1>10. \A t \in Requests : t \notin tenders => back[t] = 0
  BY <1>1 DEF B!Allocation
<1>11. back \in [Requests -> Nat]
  <2>1. back = [t \in Requests |-> back[t]]
    BY <1>1 DEF B!Allocation
  <2>2. \A t \in Requests : back[t] \in Nat
    BY <1>9, <1>10
  <2> QED
    BY <2>1, <2>2
<1>12. amount <= SumFunctionOnSet(held, tenders)
  <2>1. SumFunctionOnSet(held, Requests) = SumFunctionOnSet(held, tenders)
    <3>1. \A t \in Requests : held[t] \in Int
      BY <1>6
    <3>2. \A t \in Requests \ tenders : held[t] = 0
      BY <1>6
    <3> QED
      BY <1>4, <3>1, <3>2, MoneyFinite, SumOfSupport
  <2>2. /\ B!Refundable(d, k) \in Nat /\ SumFunctionOnSet(held, Requests) \in Nat
        /\ B!Refundable(d, k) <= SumFunctionOnSet(held, Requests)
    BY <1>2, RefundableFits
  <2> QED
    BY <2>1, <2>2
<1>13. SumFunctionOnSet(back, tenders) = amount
  <2>1. \A t \in tenders : held[t] \in Nat
    BY <1>4, <1>6
  <2>2. \A t \in tenders :
           back[t] = Part(amount - SumFunctionOnSet(held, before[t]), held[t])
    BY <1>9
  <2> QED
    BY <1>4, <1>7, <1>12, <2>1, <2>2, TakenInOrder
<1>14. SumFunctionOnSet(back, Requests) = SumFunctionOnSet(back, tenders)
  <2>1. \A t \in Requests : back[t] \in Int
    BY <1>11
  <2>2. \A t \in Requests \ tenders : back[t] = 0
    BY <1>10
  <2> QED
    BY <1>4, <2>1, <2>2, MoneyFinite, SumOfSupport
<1>15. ASSUME NEW t \in Requests
       PROVE  /\ back[t] > 0 => d.row[t].check = k /\ IsTender(d.row[t])
              /\ back[t] <= Unreturned(d, t)
              /\ d.row[t].check = k /\ IsTender(d.row[t])
                    => B!Left(d, k, t) = Unreturned(d, t)
  BY <1>4, <1>5, <1>6, <1>9, <1>10
<1> QED
  BY <1>1, <1>11, <1>13, <1>14, <1>15

\* refundOrder
LEMMA MoneyRefunds ==
  ASSUME MoneyIInv, NEW c \in B!Callers, B!Reads(c), NEW k \in Checks, NEW r \in Requests,
         NEW amount \in B!Amounts, B!Refund(c, k, r, amount)
  PROVE  MoneyIInv'
<1>1. PICK s : s = B!View(c)
  OBVIOUS
<1>2. PICK doc : doc = s.check[k]
  OBVIOUS
<1>3. PICK given, can : given = B!Given(s, k) /\ can = B!Refundable(s, k)
  OBVIOUS
<1>4. PICK paid : paid = B!Minus(doc.paid, amount)
  OBVIOUS
<1>5. PICK status : status = IF amount = can /\ doc.status \in {"completed", "refunded"}
                             THEN "refunded" ELSE doc.status
  OBVIOUS
<1>6. PICK one : one = [status |-> status, total |-> doc.total, paid |-> paid,
                        refunded |-> given + amount]
  OBVIOUS
<1>7. PICK rows : rows = B!RowsAfter(s, k, r, amount)
  OBVIOUS
<1>8. PICK new : new = [check |-> [s.check EXCEPT ![k] = one], row |-> rows]
  OBVIOUS
<1>9. PICK back : back = B!Allocation(s, k, amount)
  OBVIOUS
<1>10. /\ s \in B!Databases /\ MoneySound(s) /\ doc \in B!CheckDocs
       /\ s.row \in [Requests -> B!RowDocs] /\ amount \in Nat /\ amount > 0
       /\ \A q \in Requests : /\ s.row[q] \in B!RowDocs
                              /\ s.row[q].check \in Checks /\ s.row[q].amount \in Nat
                              /\ \A t \in Requests : s.row[q].back[t] \in Nat
  BY <1>1, <1>2, MoneyView, MoneyFields, MoneyRecord, AmountsAre
<1>11. /\ doc.status # "absent" /\ amount <= can /\ s.row[r].status = "absent"
       /\ B!Commit(c, new)
  <2>1. [doc EXCEPT !.paid = B!Minus(@, amount),
                    !.refunded = given + amount,
                    !.status = IF amount = can /\ doc.status \in {"completed", "refunded"}
                               THEN "refunded" ELSE @] = one
    <3>1. PICK x : x = [doc EXCEPT !.paid = paid]
      OBVIOUS
    <3>2. PICK y : y = [x EXCEPT !.refunded = given + amount]
      OBVIOUS
    <3>3. PICK z : z = [y EXCEPT !.status = status]
      OBVIOUS
    <3>4. doc = [status |-> doc.status, total |-> doc.total, paid |-> doc.paid,
                 refunded |-> doc.refunded]
      BY <1>10, CheckRecord
    <3>5. x = [status |-> doc.status, total |-> doc.total, paid |-> paid,
               refunded |-> doc.refunded]
      BY <3>1, <3>4, CheckWithOne
    <3>6. y = [status |-> doc.status, total |-> doc.total, paid |-> paid,
               refunded |-> given + amount]
      BY <3>2, <3>5, CheckWithOne
    <3>7. z = [status |-> status, total |-> doc.total, paid |-> paid,
               refunded |-> given + amount]
      BY <3>3, <3>6, CheckWithOne
    <3> QED
      BY <1>4, <1>5, <1>6, <3>1, <3>2, <3>3, <3>7, Zenon
  <2>2. /\ doc.status # "absent" /\ amount <= can /\ s.row[r].status = "absent"
        /\ B!Commit(c, [check |-> [s.check EXCEPT ![k] =
              [doc EXCEPT !.paid = B!Minus(@, amount),
                          !.refunded = given + amount,
                          !.status = IF amount = can /\ doc.status \in {"completed", "refunded"}
                                     THEN "refunded" ELSE @]],
                        row |-> rows])
    BY <1>1, <1>2, <1>3, <1>7, Zenon DEF B!Refund
  <2> QED
    BY <1>8, <2>1, <2>2, Zenon
<1>12. PICK tk, gk : tk = TakenBy(s, k) /\ gk = GivenBy(s, k)
  OBVIOUS
<1>13. /\ given = SumFunctionOnSet(gk, Requests) /\ given \in Nat
       /\ SumFunctionOnSet(tk, Requests) \in Nat
       /\ can = B!Minus(SumFunctionOnSet(tk, Requests), given)
  BY <1>3, <1>10, <1>12, MoneySums DEF B!Refundable
<1>14. /\ doc.total \in Nat /\ doc.paid \in Nat /\ doc.refunded \in Nat
       /\ CheckSound(s, k)
  BY <1>2, <1>10, MoneyFields DEF MoneySound
<1>15. doc.status \notin {"absent", "merged", "cancelled"}
  <2>1. SumFunctionOnSet(tk, Requests) > given
    BY <1>10, <1>11, <1>13 DEF B!Minus
  <2>2. ASSUME doc.status = "merged" PROVE FALSE
    <3>1. \A t \in Requests : tk[t] = 0
      <4>1. \A t \in Requests : s.row[t].check = k => s.row[t].status = "absent"
        BY <1>2, <1>10, <2>2 DEF MoneySound, RowSound
      <4> QED
        BY <1>12, <4>1 DEF TakenBy, IsTender
    <3>2. SumFunctionOnSet(tk, Requests) = 0
      BY <3>1, MoneyFinite, SumZero
    <3> QED
      BY <1>13, <2>1, <3>2
  <2>3. doc.status = "cancelled" => SumFunctionOnSet(tk, Requests) <= given
    BY <1>2, <1>12, <1>13, <1>14 DEF CheckSound
  <2> QED
    BY <1>11, <1>13, <2>1, <2>2, <2>3
<1>16. doc.total > 0 /\ doc.paid <= doc.total /\ doc.refunded <= given
  BY <1>2, <1>12, <1>13, <1>14, <1>15 DEF CheckSound
<1>17. /\ paid \in Nat /\ paid <= doc.paid /\ doc.paid - amount <= paid
       /\ status \notin {"absent", "merged", "cancelled"}
  BY <1>4, <1>5, <1>10, <1>14, <1>15 DEF B!Minus
<1>18. one \in B!CheckDocs
  BY <1>5, <1>6, <1>10, <1>13, <1>14, <1>17 DEF B!CheckDocs
<1>19. /\ back \in [Requests -> Nat] /\ SumFunctionOnSet(back, Requests) = amount
       /\ \A t \in Requests :
             /\ back[t] > 0 => s.row[t].check = k /\ IsTender(s.row[t])
             /\ back[t] <= Unreturned(s, t)
  BY <1>3, <1>9, <1>10, <1>11, AllocationIs
<1>20. back[r] = 0
  BY <1>11, <1>19 DEF IsTender
<1>21. PICK row : row = [status |-> "refund", check |-> k, amount |-> amount, back |-> back]
  OBVIOUS
<1>22. /\ rows[r] = row
       /\ DOMAIN rows = Requests
       /\ \A q \in Requests \ {r} :
             rows[q] = IF back[q] > 0 /\ back[q] = B!Left(s, k, q)
                       THEN [status |-> "refunded", check |-> s.row[q].check,
                             amount |-> s.row[q].amount, back |-> s.row[q].back]
                       ELSE s.row[q]
  BY <1>7, <1>9, <1>21 DEF B!RowsAfter
<1>23. ASSUME NEW q \in Requests \ {r}
       PROVE  /\ rows[q] \in B!RowDocs
              /\ rows[q].check = s.row[q].check /\ rows[q].amount = s.row[q].amount
              /\ rows[q].back = s.row[q].back
              /\ \/ rows[q] = s.row[q]
                 \/ /\ rows[q].status = "refunded" /\ IsTender(s.row[q])
                    /\ s.row[q].check = k
  <2>1. CASE back[q] > 0 /\ back[q] = B!Left(s, k, q)
    <3>1. rows[q] = [status |-> "refunded", check |-> s.row[q].check,
                     amount |-> s.row[q].amount, back |-> s.row[q].back]
      BY <1>22, <2>1
    <3>2. s.row[q].check = k /\ IsTender(s.row[q])
      BY <1>19, <2>1
    <3>3. s.row[q] \in B!RowDocs
      BY <1>10
    <3>4. rows[q] \in B!RowDocs
      BY <3>1, <3>3 DEF B!RowDocs
    <3> QED
      BY <3>1, <3>2, <3>4
  <2>2. CASE ~(back[q] > 0 /\ back[q] = B!Left(s, k, q))
    BY <1>10, <1>22, <2>2
  <2> QED
    BY <2>1, <2>2
<1>24. rows \in [Requests -> B!RowDocs]
  <2>1. row \in B!RowDocs
    BY <1>10, <1>19, <1>21 DEF B!RowDocs
  <2>2. \A q \in Requests : rows[q] \in B!RowDocs
    BY <1>22, <1>23, <2>1
  <2>3. rows = [q \in Requests |-> rows[q]]
    BY <1>7 DEF B!RowsAfter
  <2> QED
    BY <2>2, <2>3
<1>25. new \in B!Databases
  BY <1>8, <1>10, <1>18, <1>24, ChecksSet
<1>26. /\ new.row = rows /\ new.check[k] = one
       /\ \A q \in Checks \ {k} : new.check[q] = s.check[q]
  <2>1. DOMAIN s.check = Checks
    BY <1>10, MoneyRecord
  <2> QED
    BY <1>8, <2>1
<1>27. /\ new.row[r].status = "refund" /\ new.row[r].check = k /\ new.row[r].amount = amount
       /\ new.row[r].back = back
  BY <1>21, <1>22, <1>26
<1>28. \A q \in Requests \ {r} :
          /\ new.row[q].check = s.row[q].check /\ new.row[q].amount = s.row[q].amount
          /\ new.row[q].back = s.row[q].back
          /\ \/ new.row[q] = s.row[q]
             \/ /\ new.row[q].status = "refunded" /\ IsTender(s.row[q])
                /\ s.row[q].check = k
  BY <1>23, <1>26
<1>29. Changes(s, new, k)
  <2>1. one.refunded # doc.refunded
    BY <1>6, <1>10, <1>13, <1>14, <1>16
  <2> QED
    BY <1>2, <1>26, <2>1 DEF Changes
<1>30. ASSUME NEW t \in Requests PROVE Back(new, t) = Back(s, t) + back[t]
  <2>1. PICK f, g : f = BackBy(s, t) /\ g = BackBy(new, t)
    OBVIOUS
  <2>2. \A q \in Requests : f[q] = s.row[q].back[t] /\ g[q] = new.row[q].back[t]
    BY <2>1 DEF BackBy
  <2>3. \A q \in Requests : f[q] \in Int /\ g[q] \in Int
    BY <1>10, <1>25, <2>2, MoneyFields
  <2>4. SameOn(Requests \ {r}, f, g)
    BY <1>28, <2>2 DEF SameOn
  <2>5. f[r] = 0 /\ g[r] = back[t]
    <3>1. s.row[r].back[t] \in Nat /\ ~(s.row[r].back[t] > 0)
      BY <1>10, <1>11 DEF MoneySound, RowSound
    <3> QED
      BY <1>27, <2>2, <3>1
  <2>6. SumFunctionOnSet(g, Requests) = SumFunctionOnSet(f, Requests) + g[r] - f[r]
    BY <2>3, <2>4, MoneyFinite, SumUpdate
  <2>7. SumFunctionOnSet(f, Requests) \in Int
    BY <2>3, MoneyFinite, SumType
  <2> QED
    BY <1>19, <2>1, <2>5, <2>6, <2>7 DEF Back
<1>31. \A t \in Requests : Back(s, t) \in Nat /\ back[t] \in Nat
  BY <1>10, <1>19, BackIs
<1>32. Back(s, r) = 0 /\ Back(new, r) = 0
  <2>1. Back(s, r) = 0
    BY <1>10, <1>11, BackNone
  <2> QED
    BY <1>20, <1>30, <2>1
<1>33. ASSUME NEW q \in Checks PROVE CheckSound(new, q)
  <2>1. CheckSound(s, q)
    BY <1>10 DEF MoneySound
  <2>2. PICK gs, gn, ts, tn : /\ gs = GivenBy(s, q) /\ gn = GivenBy(new, q)
                              /\ ts = TakenBy(s, q) /\ tn = TakenBy(new, q)
    OBVIOUS
  <2>3. \A t \in Requests \ {r} : gs[t] = gn[t]
    BY <1>28, <2>2 DEF GivenBy, IsTender
  <2>4. CASE q = k
    <3>1. gs[r] = 0 /\ gn[r] = amount
      BY <1>11, <1>27, <2>2, <2>4 DEF GivenBy
    <3>2. \A t \in Requests : gs[t] \in Int /\ gn[t] \in Int
      BY <1>10, <1>25, <2>2, MoneyFields DEF GivenBy
    <3>3. SameOn(Requests \ {r}, gs, gn)
      BY <2>3 DEF SameOn
    <3>4. SumFunctionOnSet(gn, Requests) = SumFunctionOnSet(gs, Requests) + gn[r] - gs[r]
      BY <3>2, <3>3, MoneyFinite, SumUpdate
    <3>5. SumFunctionOnSet(gn, Requests) = given + amount
      BY <1>10, <1>12, <1>13, <2>2, <2>4, <3>1, <3>4
    <3>6. /\ one.paid <= one.total /\ one.total > 0 /\ one.refunded = given + amount
          /\ one.status \notin {"absent", "merged", "cancelled"}
      BY <1>6, <1>14, <1>16, <1>17
    <3> QED
      BY <1>10, <1>13, <1>26, <2>2, <2>4, <3>5, <3>6 DEF CheckSound
  <2>5. CASE q # k
    <3>1. gs[r] = gn[r]
      BY <1>11, <1>27, <2>2, <2>5 DEF GivenBy
    <3>2. \A t \in Requests : gs[t] = gn[t]
      BY <2>3, <3>1
    <3>3. SumFunctionOnSet(gs, Requests) = SumFunctionOnSet(gn, Requests)
      BY <3>2, MoneyFinite, SumEqual
    <3>4. ASSUME NEW t \in Requests PROVE ts[t] = tn[t]
      <4>1. CASE t = r
        BY <1>11, <1>27, <2>2, <4>1 DEF TakenBy, IsTender
      <4>2. CASE t # r
        BY <1>28, <2>2, <4>2 DEF TakenBy, IsTender
      <4> QED
        BY <4>1, <4>2
    <3>5. SumFunctionOnSet(ts, Requests) = SumFunctionOnSet(tn, Requests)
      BY <3>4, MoneyFinite, SumEqual
    <3>6. new.check[q] = s.check[q]
      BY <1>26, <2>5
    <3> QED
      BY <2>1, <2>2, <3>3, <3>5, <3>6 DEF CheckSound
  <2> QED
    BY <2>4, <2>5
<1>34. ASSUME NEW q \in Requests PROVE RowSound(new, q)
  <2>1. RowSound(s, q)
    BY <1>10 DEF MoneySound
  <2>2. \A x \in Checks : s.check[x].status \notin {"absent", "merged"}
                             => new.check[x].status \notin {"absent", "merged"}
    BY <1>6, <1>17, <1>26
  <2>3. CASE q = r
    <3>1. new.check[k].status \notin {"absent", "merged"}
      BY <1>6, <1>17, <1>26
    <3>2. SumFunctionOnSet(new.row[r].back, Requests) <= new.row[r].amount
      BY <1>10, <1>19, <1>27
    <3>3. ASSUME NEW t \in Requests, new.row[r].back[t] > 0
          PROVE  /\ new.row[t].status \in {"paid", "refunded", "reversed"}
                 /\ new.row[t].check = k
      <4>1. s.row[t].check = k /\ IsTender(s.row[t]) /\ t # r
        BY <1>19, <1>20, <1>27, <3>3
      <4> QED
        BY <1>28, <4>1 DEF IsTender
    <3>4. Back(new, r) <= new.row[r].amount
      BY <1>10, <1>27, <1>32
    <3> QED
      BY <1>27, <2>3, <3>1, <3>2, <3>3, <3>4 DEF RowSound
  <2>4. CASE q # r
    <3>1. new.row[q].status # "absent" =>
             new.check[new.row[q].check].status \notin {"absent", "merged"}
      BY <1>10, <1>28, <2>1, <2>2, <2>4 DEF RowSound, IsTender
    <3>2. new.row[q].status \in {"paid", "refunded", "reversed"} => new.row[q].amount > 0
      BY <1>28, <2>1, <2>4 DEF RowSound, IsTender
    <3>3. Back(new, q) <= new.row[q].amount
      <4>1. back[q] <= s.row[q].amount - Back(s, q)
        BY <1>19 DEF Unreturned
      <4>2. Back(new, q) = Back(s, q) + back[q] /\ new.row[q].amount = s.row[q].amount
        BY <1>28, <1>30, <2>4
      <4> QED
        BY <1>10, <1>31, <4>1, <4>2
    <3>4. new.row[q].status = "refund" =>
             SumFunctionOnSet(new.row[q].back, Requests) <= new.row[q].amount
      BY <1>28, <2>1, <2>4 DEF RowSound, IsTender
    <3>5. ASSUME NEW t \in Requests, new.row[q].back[t] > 0
          PROVE  /\ new.row[q].status = "refund"
                 /\ new.row[t].status \in {"paid", "refunded", "reversed"}
                 /\ new.row[t].check = new.row[q].check
      <4>1. /\ s.row[q].status = "refund"
            /\ s.row[t].status \in {"paid", "refunded", "reversed"}
            /\ s.row[t].check = s.row[q].check
        BY <1>28, <2>1, <2>4, <3>5 DEF RowSound
      <4>2. t # r
        BY <1>11, <4>1
      <4> QED
        BY <1>28, <2>4, <4>1, <4>2 DEF IsTender
    <3> QED
      BY <3>1, <3>2, <3>3, <3>4, <3>5 DEF RowSound
  <2> QED
    BY <2>3, <2>4
<1>35. SumFunctionOnSet(Change(s, new), Requests) = -amount
  <2>1. PICK f : f = Change(s, new)
    OBVIOUS
  <2>2. ASSUME NEW t \in Requests PROVE back[t] \in Int /\ f[t] = 0 - back[t]
    <3>1. CASE t = r
      <4>1. Stake(new, {})[r] = 0 /\ Stake(s, {})[r] = 0
        BY <1>11, <1>27 DEF Stake, IsTender
      <4> QED
        BY <1>11, <1>20, <2>1, <3>1, <4>1 DEF Change
    <3>2. CASE t # r /\ s.row[t].check = k
      <4>1. /\ Unreturned(s, t) \in Nat /\ new.row[t].amount = s.row[t].amount
            /\ IsTender(new.row[t]) <=> IsTender(s.row[t])
        BY <1>10, <1>28, <3>2, UnreturnedIs DEF IsTender
      <4>2. Unreturned(new, t) = Unreturned(s, t) - back[t]
        <5>1. Back(new, t) = Back(s, t) + back[t]
          BY <1>30
        <5> QED
          BY <1>10, <1>31, <4>1, <5>1 DEF Unreturned
      <4>3. f[t] = Stake(new, {})[t] - Stake(s, {})[t]
        BY <1>29, <2>1, <3>2 DEF Change
      <4>4. CASE IsTender(s.row[t])
        <5>1. Stake(new, {})[t] = Unreturned(new, t) /\ Stake(s, {})[t] = Unreturned(s, t)
          BY <4>1, <4>4 DEF Stake
        <5> QED
          BY <1>31, <4>1, <4>2, <4>3, <5>1
      <4>5. CASE ~IsTender(s.row[t])
        <5>1. Stake(new, {})[t] = 0 /\ Stake(s, {})[t] = 0
          BY <4>1, <4>5 DEF Stake
        <5> QED
          BY <1>19, <1>31, <4>3, <4>5, <5>1
      <4> QED
        BY <4>4, <4>5
    <3>3. CASE t # r /\ s.row[t].check # k
      <4>1. back[t] = 0
        BY <1>19, <1>31, <3>3
      <4>2. new.row[t] = s.row[t] /\ Back(new, t) = Back(s, t)
        BY <1>28, <1>30, <1>31, <3>3, <4>1
      <4>3. Stake(new, {})[t] = Stake(s, {})[t]
        BY <4>2 DEF Stake, Unreturned
      <4>4. Stake(s, {})[t] \in Nat
        BY <1>10, StakeIs
      <4>5. Stake(new, {})[t] - Stake(s, {})[t] = 0
        BY <4>3, <4>4
      <4>6. f[t] = 0
        BY <2>1, <4>5 DEF Change
      <4>7. back[t] \in Int
        BY <4>1
      <4> QED
        BY <4>1, <4>6, <4>7
    <3> QED
      BY <3>1, <3>2, <3>3
  <2>3. SumFunctionOnSet(f, Requests) = -SumFunctionOnSet(back, Requests)
    <3>1. \A t \in Requests : back[t] \in Int /\ f[t] = -back[t]
      BY <2>2
    <3> QED
      BY <3>1, MoneyFinite, SumNegative
  <2> QED
    BY <1>19, <2>1, <2>3
<1>36. /\ SumFunctionOnSet(PaidOn(s), Checks) \in Int
       /\ SumFunctionOnSet(PaidOn(new), Checks)
             = SumFunctionOnSet(PaidOn(s), Checks) + paid - doc.paid
  <2>1. PICK f, g : f = PaidOn(s) /\ g = PaidOn(new)
    OBVIOUS
  <2>2. f[k] = doc.paid /\ g[k] = paid
    BY <1>2, <1>6, <1>15, <1>17, <1>26, <2>1 DEF PaidOn
  <2>3. \A q \in Checks : f[q] \in Int /\ g[q] \in Int
    BY <1>10, <1>25, <2>1, MoneyFields DEF PaidOn
  <2>4. SameOn(Checks \ {k}, f, g)
    BY <1>26, <2>1 DEF PaidOn, SameOn
  <2>5. SumFunctionOnSet(g, Checks) = SumFunctionOnSet(f, Checks) + g[k] - f[k]
    BY <2>3, <2>4, MoneyFinite, SumUpdate
  <2>6. SumFunctionOnSet(f, Checks) \in Int
    BY <2>3, MoneyFinite, SumType
  <2> QED
    BY <2>1, <2>2, <2>5, <2>6
<1>37. MoneyMove(s, new)
  <2>1. ASSUME NEW q \in Requests
        PROVE  \/ new.row[q] = s.row[q]
               \/ \A x \in Checks : IsOn(s.row[q], x) \/ IsOn(new.row[q], x) => Changes(s, new, x)
    BY <1>11, <1>27, <1>28, <1>29 DEF IsOn
  <2>2. \A q \in Requests : s.row[q].status # "absent" =>
           /\ new.row[q].status # "absent" /\ new.row[q].amount = s.row[q].amount
    BY <1>11, <1>28
  <2>3. ASSUME NEW t \in Requests, Back(new, t) # Back(s, t)
        PROVE  s.row[t].status # "absent" /\ Changes(s, new, s.row[t].check)
    <3>1. back[t] > 0
      BY <1>30, <1>31, <2>3
    <3> QED
      BY <1>19, <1>29, <3>1 DEF IsTender
  <2>4. SumFunctionOnSet(Change(s, new), Requests) + SumFunctionOnSet(PaidOn(s), Checks)
           <= SumFunctionOnSet(PaidOn(new), Checks)
    BY <1>10, <1>14, <1>17, <1>35, <1>36
  <2> QED
    BY <2>1, <2>2, <2>3, <2>4 DEF MoneyMove
<1> QED
  BY <1>1, <1>11, <1>25, <1>33, <1>34, <1>37, MoneyCommit DEF MoneySound

\* Before anything is paid there are no rows.
LEMMA MoneyInit ==
  ASSUME B!Init
  PROVE  MoneyIInv
<1> DEFINE first == CHOOSE k \in Checks : TRUE
<1>1. PICK bill \in MCBills :
         db = [check |-> [k \in Checks |-> IF bill[k] = 0 THEN B!Unused ELSE B!Open(bill[k])],
               row |-> [r \in Requests |-> B!NoRow]]
  BY DEF B!Init
<1>2. /\ snap = [c \in Clients |-> NoSnapshot] /\ behind = [c \in Clients |-> {}]
  BY DEF B!Init, B!OutsideTransactions
<1>3. bill \in [Checks -> Nat]
  BY <1>1, RestaurantAssumption DEF B!MoneyAssumption
<1>4. first \in Checks
  BY RestaurantAssumption DEF B!MoneyAssumption
<1>5. B!NoRow = [status |-> "absent", check |-> first, amount |-> 0, back |-> B!NoBack]
  BY DEF B!NoRow
<1> HIDE DEF first
<1>6. \A r \in Requests : /\ db.row[r].status = "absent" /\ db.row[r].amount = 0
                          /\ db.row[r].back = B!NoBack
  BY <1>1, <1>5
<1>7. \A k \in Checks : db.check[k] = IF bill[k] = 0 THEN B!Unused ELSE B!Open(bill[k])
  BY <1>1
<1>8. db \in B!Databases
  <2>1. B!NoRow \in B!RowDocs
    BY <1>4, <1>5 DEF B!RowDocs, B!NoBack
  <2>2. \A k \in Checks : (IF bill[k] = 0 THEN B!Unused ELSE B!Open(bill[k])) \in B!CheckDocs
    BY <1>3 DEF B!Unused, B!Open, B!CheckDocs
  <2> QED
    BY <1>1, <2>1, <2>2 DEF B!Databases
<1>9. \A t \in Requests : Back(db, t) = 0
  <2>1. ASSUME NEW t \in Requests PROVE Back(db, t) = 0
    <3>1. PICK f : f = BackBy(db, t)
      OBVIOUS
    <3>2. \A r \in Requests : f[r] = 0
      BY <1>6, <3>1 DEF BackBy, B!NoBack
    <3> QED
      BY <3>1, <3>2, MoneyFinite, SumZero DEF Back
  <2> QED
    BY <2>1
<1>10. ASSUME NEW k \in Checks PROVE CheckSound(db, k)
  <2>1. PICK doc : doc = db.check[k]
    OBVIOUS
  <2>2. /\ doc.paid = 0 /\ doc.refunded = 0 /\ doc.total \in Nat
        /\ doc.status \in {"absent", "open"}
        /\ doc.status # "absent" => doc.total > 0
    <3>1. CASE bill[k] = 0
      BY <1>7, <2>1, <3>1 DEF B!Unused
    <3>2. CASE bill[k] # 0
      <4>1. doc = [status |-> "open", total |-> bill[k], paid |-> 0, refunded |-> 0]
        BY <1>7, <2>1, <3>2 DEF B!Open
      <4>2. bill[k] \in Nat /\ bill[k] > 0
        BY <1>3, <3>2
      <4> QED
        BY <4>1, <4>2
    <3> QED
      BY <3>1, <3>2
  <2>3. SumFunctionOnSet(GivenBy(db, k), Requests) \in Nat
    BY <1>8, MoneySums
  <2> QED
    BY <2>1, <2>2, <2>3 DEF CheckSound
<1>11. ASSUME NEW r \in Requests PROVE RowSound(db, r)
  <2>1. \A t \in Requests : ~(db.row[r].back[t] > 0)
    BY <1>6 DEF B!NoBack
  <2> QED
    BY <1>6, <1>9, <2>1 DEF RowSound
<1>12. Covered(db, Late)
  <2>1. PICK f, g : f = Stake(db, Late) /\ g = PaidOn(db)
    OBVIOUS
  <2>2. \A t \in Requests : f[t] = 0
    BY <1>6, <1>9, <2>1 DEF Stake, Unreturned
  <2>3. \A k \in Checks : g[k] \in Nat
    BY <1>8, <2>1, MoneyFields DEF PaidOn
  <2>4. SumFunctionOnSet(f, Requests) = 0 /\ SumFunctionOnSet(g, Checks) \in Nat
    BY <2>2, <2>3, MoneyFinite, SumZero, SumGrows
  <2> QED
    BY <2>1, <2>4 DEF Covered
<1>13. /\ Tracked /\ snap \in [Clients -> B!Databases \cup {NoSnapshot}]
       /\ \A c \in Clients : snap[c] = NoSnapshot
  BY <1>2 DEF Tracked
<1> QED
  BY <1>8, <1>10, <1>11, <1>12, <1>13 DEF MoneyIInv, MoneySound

\* Every step keeps it.
LEMMA MoneyStep ==
  ASSUME MoneyIInv, B!Next \/ UNCHANGED <<db, snap, behind>>
  PROVE  MoneyIInv'
<1>1. CASE UNCHANGED <<db, snap, behind>>
  <2>1. Late' = Late
    BY <1>1 DEF Late
  <2> QED
    BY <1>1, <2>1 DEF MoneyIInv, Tracked, AsRead, Steady, Current
<1>2. ASSUME NEW c \in Clients, B!Begin(c) \/ B!Refused(c)
      PROVE  MoneyIInv'
  <2>1. V!Begin(c) \/ V!End(c)
    BY <1>2, MoneySnapshots DEF B!Refused
  <2> QED
    BY <2>1, MoneyReads
<1>3. ASSUME NEW c \in B!Callers, B!Reads(c), NEW k \in Checks, NEW r \in Requests,
             NEW amount \in B!Amounts, B!Pay(c, k, r, amount) \/ B!Refund(c, k, r, amount)
      PROVE  MoneyIInv'
  BY <1>3, MoneyPays, MoneyRefunds
<1>4. ASSUME NEW c \in B!Callers, B!Reads(c), NEW t \in Requests, B!Reverse(c, t)
      PROVE  MoneyIInv'
  BY <1>4, MoneyReverses
<1>5. ASSUME NEW c \in B!Callers, B!Reads(c), NEW k \in Checks, NEW child \in Checks,
             NEW units \in B!Amounts, B!Split(c, k, child, units)
      PROVE  MoneyIInv'
  BY <1>5, MoneySplits
<1>6. ASSUME NEW c \in B!Callers, B!Reads(c), NEW from \in Checks, NEW into \in Checks,
             B!Merge(c, from, into)
      PROVE  MoneyIInv'
  BY <1>6, MoneyMerges
<1>7. ASSUME NEW c \in B!Callers, B!Reads(c), NEW k \in Checks,
             \/ B!Reopen(c, k)
             \/ \E status \in {"ready", "completed", "cancelled", "refunded"} :
                   B!Advance(c, k, status)
      PROVE  MoneyIInv'
  BY <1>7, MoneyAdvances
<1> QED
  BY <1>1, <1>2, <1>3, <1>4, <1>5, <1>6, <1>7 DEF B!Next

\* billing.js, refunds.js and tables.js: however tenders, refunds, reversals, splits and merges
\* overlap, no tender gives back more than it has, no check is cancelled or merged away with the
\* guest's money on it, and the till holds no more than the checks say was paid, nor those than
\* their totals.
THEOREM MoneyTheorem == Spec => []MoneyKept
<1> DEFINE IInv == part = "money" => MoneyIInv
<1>1. Init => IInv
  BY MoneyInit DEF Init
<1>2. ASSUME IInv, [Next]_vars
      PROVE  IInv'
  <2>1. part' = part
    BY <1>2 DEF Next, vars
  <2>2. part = "money" => B!Next \/ UNCHANGED <<db, snap, behind>>
    BY <1>2 DEF Next, vars
  <2> QED
    BY <1>2, <2>1, <2>2, MoneyStep
<1>3. IInv => MoneyKept
  <2>1. MoneyIInv => db \in B!Databases /\ MoneySound(db) /\ Covered(db, Late)
    BY DEF MoneyIInv
  <2> QED
    BY <2>1, MoneyHolds DEF MoneyKept
<1> QED
  BY <1>1, <1>2, <1>3, PTL DEF Spec

-------------------------------------------------------------------------------
(* The stock counts.                                                       *)

\* The transactions are those of Snapshots.
LEMMA CountsSnapshots ==
  /\ \A c : C!View(c) = V!View(c) /\ (C!Reads(c) <=> V!Reads(c))
  /\ \A c : (C!Begin(c) <=> V!Begin(c)) /\ (C!End(c) <=> V!End(c)) /\ C!Ended(c) = V!Ended(c)
  /\ \A c, docs : C!Overtaken(c, docs) = V!Overtaken(c, docs)
  /\ \A old, new : C!Written(old, new) = V!Written(old, new)
  /\ \A c, new : C!Commit(c, new) <=> V!Commit(c, new)
  /\ \A c, new : C!Save(c, new) <=> V!Save(c, new)
  /\ C!Callers = V!Callers
<1>1. \A c : C!View(c) = V!View(c) /\ (C!Reads(c) <=> V!Reads(c))
  BY DEF C!View, V!View, C!Reads, V!Reads
<1>2. \A c : (C!Begin(c) <=> V!Begin(c)) /\ (C!End(c) <=> V!End(c)) /\ C!Ended(c) = V!Ended(c)
  BY DEF C!Begin, V!Begin, C!End, V!End, C!Ended, V!Ended
<1>3. \A c, docs : C!Overtaken(c, docs) = V!Overtaken(c, docs)
  BY DEF C!Overtaken, V!Overtaken
<1>4. \A old, new : C!Written(old, new) = V!Written(old, new)
  BY DEF C!Written, V!Written
<1>5. \A c, new : C!Commit(c, new) <=> V!Commit(c, new)
  BY DEF C!Commit, V!Commit, C!NoConflict, V!NoConflict, C!View, V!View, C!Written, V!Written,
     C!Ended, V!Ended, C!Overtaken, V!Overtaken
<1>6. \A c, new : C!Save(c, new) <=> V!Save(c, new)
  BY DEF C!Save, V!Save, C!View, V!View, C!Written, V!Written, C!Ended, V!Ended,
     C!Overtaken, V!Overtaken
<1>7. C!Callers = V!Callers
  BY DEF C!Callers, V!Callers
<1> QED
  BY <1>1, <1>2, <1>3, <1>4, <1>5, <1>6, <1>7

\* What a request sees is a database.
LEMMA CountsView ==
  ASSUME C!TypeOK, NEW c \in C!Callers, C!Reads(c)
  PROVE  C!View(c) \in C!Databases
BY DEF C!TypeOK, C!View, C!Reads

\* A database is its three collections.
LEMMA CountsRecord ==
  ASSUME NEW d \in C!Databases
  PROVE  /\ DOMAIN d = {"item", "shelf", "count"}
         /\ DOMAIN d.item = Items /\ DOMAIN d.shelf = Items /\ DOMAIN d.count = Counts
         /\ d = [item |-> d.item, shelf |-> d.shelf, count |-> d.count]
         /\ d.item \in [Items -> [quantity : 0..MaxOnHand, version : Nat]]
         /\ d.shelf \in [Items -> [quantity : Nat, moves : 0..MaxMoves]]
         /\ d.count \in [Counts -> C!CountDocs]
         /\ \A doc \in Items : d.item[doc] \in [quantity : 0..MaxOnHand, version : Nat]
         /\ \A doc \in Items : d.shelf[doc] \in [quantity : Nat, moves : 0..MaxMoves]
         /\ \A doc \in Counts : d.count[doc] \in C!CountDocs
BY DEF C!Databases

\* Documents of their kinds make a database.
LEMMA CountsOf ==
  ASSUME NEW d, NEW e \in C!Databases,
         d = [coll \in DOMAIN e |-> d[coll]],
         \A coll \in DOMAIN e : d[coll] = [doc \in DOMAIN e[coll] |-> d[coll][doc]],
         \A doc \in Items : d.item[doc] \in [quantity : 0..MaxOnHand, version : Nat],
         \A doc \in Items : d.shelf[doc] \in [quantity : Nat, moves : 0..MaxMoves],
         \A doc \in Counts : d.count[doc] \in C!CountDocs
  PROVE  d \in C!Databases
<1>1. /\ DOMAIN e = {"item", "shelf", "count"}
      /\ DOMAIN e.item = Items /\ DOMAIN e.shelf = Items /\ DOMAIN e.count = Counts
  BY CountsRecord
<1>2. d = [item |-> d.item, shelf |-> d.shelf, count |-> d.count]
  BY <1>1
<1>3. d.item \in [Items -> [quantity : 0..MaxOnHand, version : Nat]]
  <2>1. d.item = [doc \in Items |-> d.item[doc]]
    BY <1>1
  <2> QED
    BY <2>1
<1>4. d.shelf \in [Items -> [quantity : Nat, moves : 0..MaxMoves]]
  <2>1. d.shelf = [doc \in Items |-> d.shelf[doc]]
    BY <1>1
  <2> QED
    BY <2>1
<1>5. d.count \in [Counts -> C!CountDocs]
  <2>1. d.count = [doc \in Counts |-> d.count[doc]]
    BY <1>1
  <2> QED
    BY <2>1
<1> QED
  BY <1>2, <1>3, <1>4, <1>5 DEF C!Databases

\* What a commit makes of the collections.
LEMMA CountsCommit ==
  ASSUME C!TypeOK, Tracked, NEW c \in C!Callers, C!Reads(c), NEW new \in C!Databases,
         C!Commit(c, new)
  PROVE  /\ C!TypeOK' /\ snap' = V!Ended(c) /\ behind' = V!Overtaken(c, V!Written(C!View(c), new))
         /\ Tracked'
         /\ \A doc \in Items :
               IF new.item[doc] = C!View(c).item[doc] THEN db'.item[doc] = db.item[doc]
               ELSE db'.item[doc] = new.item[doc] /\ C!View(c).item[doc] = db.item[doc]
         /\ \A doc \in Items :
               IF new.shelf[doc] = C!View(c).shelf[doc] THEN db'.shelf[doc] = db.shelf[doc]
               ELSE db'.shelf[doc] = new.shelf[doc] /\ C!View(c).shelf[doc] = db.shelf[doc]
         /\ \A doc \in Counts :
               IF new.count[doc] = C!View(c).count[doc] THEN db'.count[doc] = db.count[doc]
               ELSE db'.count[doc] = new.count[doc] /\ C!View(c).count[doc] = db.count[doc]
<1> DEFINE read == C!View(c)
<1>1. /\ db \in C!Databases /\ read \in C!Databases
      /\ V!Commit(c, new) /\ read = V!View(c) /\ c \in V!Callers /\ V!Reads(c)
  BY CountsSnapshots, CountsView DEF C!TypeOK
<1>2. Alike(new, db) /\ Alike(read, db)
  BY <1>1, CountsRecord DEF Alike
<1>3. /\ Tracked'
      /\ \A coll \in DOMAIN db : \A doc \in DOMAIN db[coll] :
            IF new[coll][doc] = read[coll][doc] THEN db'[coll][doc] = db[coll][doc]
            ELSE db'[coll][doc] = new[coll][doc] /\ read[coll][doc] = db[coll][doc]
  <2> HIDE DEF read
  <2> QED
    BY <1>1, <1>2, CommitWrites
<1>4. /\ DOMAIN db = {"item", "shelf", "count"}
      /\ DOMAIN db.item = Items /\ DOMAIN db.shelf = Items /\ DOMAIN db.count = Counts
  BY <1>1, CountsRecord
<1>5. /\ db' = [coll \in DOMAIN db |-> db'[coll]]
      /\ \A coll \in DOMAIN db : db'[coll] = [doc \in DOMAIN db[coll] |-> db'[coll][doc]]
      /\ snap' = V!Ended(c) /\ behind' = V!Overtaken(c, V!Written(read, new))
  BY <1>1 DEF V!Commit
<1> HIDE DEF read
<1>6. \A doc \in Items : db'.item[doc] \in [quantity : 0..MaxOnHand, version : Nat]
  BY <1>1, <1>3, <1>4, CountsRecord
<1>7. \A doc \in Items : db'.shelf[doc] \in [quantity : Nat, moves : 0..MaxMoves]
  BY <1>1, <1>3, <1>4, CountsRecord
<1>8. \A doc \in Counts : db'.count[doc] \in C!CountDocs
  BY <1>1, <1>3, <1>4, CountsRecord
<1>9. db' \in C!Databases
  BY <1>1, <1>5, <1>6, <1>7, <1>8, CountsOf
<1>10. snap' \in [Clients -> C!Databases \cup {NoSnapshot}]
  BY <1>5 DEF V!Ended, C!TypeOK
<1>11. C!TypeOK'
  BY <1>9, <1>10 DEF C!TypeOK
<1>12. \A doc \in Items :
          IF new.item[doc] = read.item[doc] THEN db'.item[doc] = db.item[doc]
          ELSE db'.item[doc] = new.item[doc] /\ read.item[doc] = db.item[doc]
  BY <1>3, <1>4
<1>13. \A doc \in Items :
          IF new.shelf[doc] = read.shelf[doc] THEN db'.shelf[doc] = db.shelf[doc]
          ELSE db'.shelf[doc] = new.shelf[doc] /\ read.shelf[doc] = db.shelf[doc]
  BY <1>3, <1>4
<1>14. \A doc \in Counts :
          IF new.count[doc] = read.count[doc] THEN db'.count[doc] = db.count[doc]
          ELSE db'.count[doc] = new.count[doc] /\ read.count[doc] = db.count[doc]
  BY <1>3, <1>4
<1> QED
  BY <1>3, <1>5, <1>11, <1>12, <1>13, <1>14 DEF read

\* A database with another item collection, or one document of it replaced.
LEMMA CountsItemSet ==
  ASSUME NEW d \in C!Databases
  PROVE  /\ \A docs \in [Items -> [quantity : 0..MaxOnHand, version : Nat]] :
               LET e == [d EXCEPT !.item = docs]
               IN  e \in C!Databases /\ e.item = docs /\ e.shelf = d.shelf /\ e.count = d.count
         /\ \A k \in Items, doc \in [quantity : 0..MaxOnHand, version : Nat] :
               LET e == [d EXCEPT !.item[k] = doc]
               IN  /\ e \in C!Databases /\ e.shelf = d.shelf /\ e.count = d.count
                   /\ e.item = [d.item EXCEPT ![k] = doc] /\ e.item[k] = doc
                   /\ \A i \in Items \ {k} : e.item[i] = d.item[i]
<1>1. ASSUME NEW docs \in [Items -> [quantity : 0..MaxOnHand, version : Nat]]
      PROVE  LET e == [d EXCEPT !.item = docs]
             IN  e \in C!Databases /\ e.item = docs /\ e.shelf = d.shelf /\ e.count = d.count
  <2>1. [d EXCEPT !.item = docs] = [item |-> docs, shelf |-> d.shelf, count |-> d.count]
    BY CountsRecord
  <2> QED
    BY <2>1, CountsRecord DEF C!Databases
<1>2. ASSUME NEW k \in Items, NEW doc \in [quantity : 0..MaxOnHand, version : Nat]
      PROVE  LET e == [d EXCEPT !.item[k] = doc]
             IN  /\ e \in C!Databases /\ e.shelf = d.shelf /\ e.count = d.count
                 /\ e.item = [d.item EXCEPT ![k] = doc] /\ e.item[k] = doc
                 /\ \A i \in Items \ {k} : e.item[i] = d.item[i]
  <2> DEFINE docs == [d.item EXCEPT ![k] = doc]
             e == [d EXCEPT !.item[k] = doc]
  <2>1. e = [d EXCEPT !.item = docs]
    OBVIOUS
  <2>2. /\ docs \in [Items -> [quantity : 0..MaxOnHand, version : Nat]] /\ docs[k] = doc
        /\ \A i \in Items \ {k} : docs[i] = d.item[i]
    BY CountsRecord
  <2> HIDE DEF docs, e
  <2>3. e \in C!Databases /\ e.item = docs /\ e.shelf = d.shelf /\ e.count = d.count
    BY <1>1, <2>1, <2>2
  <2> QED
    BY <2>2, <2>3 DEF docs, e
<1> QED
  BY <1>1, <1>2

\* A database with another shelf collection, or one document of it replaced.
LEMMA CountsShelfSet ==
  ASSUME NEW d \in C!Databases
  PROVE  /\ \A docs \in [Items -> [quantity : Nat, moves : 0..MaxMoves]] :
               LET e == [d EXCEPT !.shelf = docs]
               IN  e \in C!Databases /\ e.shelf = docs /\ e.item = d.item /\ e.count = d.count
         /\ \A k \in Items, doc \in [quantity : Nat, moves : 0..MaxMoves] :
               LET e == [d EXCEPT !.shelf[k] = doc]
               IN  /\ e \in C!Databases /\ e.item = d.item /\ e.count = d.count
                   /\ e.shelf = [d.shelf EXCEPT ![k] = doc] /\ e.shelf[k] = doc
                   /\ \A i \in Items \ {k} : e.shelf[i] = d.shelf[i]
<1>1. ASSUME NEW docs \in [Items -> [quantity : Nat, moves : 0..MaxMoves]]
      PROVE  LET e == [d EXCEPT !.shelf = docs]
             IN  e \in C!Databases /\ e.shelf = docs /\ e.item = d.item /\ e.count = d.count
  <2>1. [d EXCEPT !.shelf = docs] = [item |-> d.item, shelf |-> docs, count |-> d.count]
    BY CountsRecord
  <2> QED
    BY <2>1, CountsRecord DEF C!Databases
<1>2. ASSUME NEW k \in Items, NEW doc \in [quantity : Nat, moves : 0..MaxMoves]
      PROVE  LET e == [d EXCEPT !.shelf[k] = doc]
             IN  /\ e \in C!Databases /\ e.item = d.item /\ e.count = d.count
                 /\ e.shelf = [d.shelf EXCEPT ![k] = doc] /\ e.shelf[k] = doc
                 /\ \A i \in Items \ {k} : e.shelf[i] = d.shelf[i]
  <2> DEFINE docs == [d.shelf EXCEPT ![k] = doc]
             e == [d EXCEPT !.shelf[k] = doc]
  <2>1. e = [d EXCEPT !.shelf = docs]
    OBVIOUS
  <2>2. /\ docs \in [Items -> [quantity : Nat, moves : 0..MaxMoves]] /\ docs[k] = doc
        /\ \A i \in Items \ {k} : docs[i] = d.shelf[i]
    BY CountsRecord
  <2> HIDE DEF docs, e
  <2>3. e \in C!Databases /\ e.shelf = docs /\ e.item = d.item /\ e.count = d.count
    BY <1>1, <2>1, <2>2
  <2> QED
    BY <2>2, <2>3 DEF docs, e
<1> QED
  BY <1>1, <1>2

\* A database with another count collection, or one document of it replaced.
LEMMA CountsCountSet ==
  ASSUME NEW d \in C!Databases
  PROVE  /\ \A docs \in [Counts -> C!CountDocs] :
               LET e == [d EXCEPT !.count = docs]
               IN  e \in C!Databases /\ e.count = docs /\ e.item = d.item /\ e.shelf = d.shelf
         /\ \A k \in Counts, doc \in C!CountDocs :
               LET e == [d EXCEPT !.count[k] = doc]
               IN  /\ e \in C!Databases /\ e.item = d.item /\ e.shelf = d.shelf
                   /\ e.count = [d.count EXCEPT ![k] = doc] /\ e.count[k] = doc
                   /\ \A i \in Counts \ {k} : e.count[i] = d.count[i]
<1>1. ASSUME NEW docs \in [Counts -> C!CountDocs]
      PROVE  LET e == [d EXCEPT !.count = docs]
             IN  e \in C!Databases /\ e.count = docs /\ e.item = d.item /\ e.shelf = d.shelf
  <2>1. [d EXCEPT !.count = docs] = [item |-> d.item, shelf |-> d.shelf, count |-> docs]
    BY CountsRecord
  <2> QED
    BY <2>1, CountsRecord DEF C!Databases
<1>2. ASSUME NEW k \in Counts, NEW doc \in C!CountDocs
      PROVE  LET e == [d EXCEPT !.count[k] = doc]
             IN  /\ e \in C!Databases /\ e.item = d.item /\ e.shelf = d.shelf
                 /\ e.count = [d.count EXCEPT ![k] = doc] /\ e.count[k] = doc
                 /\ \A i \in Counts \ {k} : e.count[i] = d.count[i]
  <2> DEFINE docs == [d.count EXCEPT ![k] = doc]
             e == [d EXCEPT !.count[k] = doc]
  <2>1. e = [d EXCEPT !.count = docs]
    OBVIOUS
  <2>2. /\ docs \in [Counts -> C!CountDocs] /\ docs[k] = doc
        /\ \A i \in Counts \ {k} : docs[i] = d.count[i]
    BY CountsRecord
  <2> HIDE DEF docs, e
  <2>3. e \in C!Databases /\ e.count = docs /\ e.item = d.item /\ e.shelf = d.shelf
    BY <1>1, <2>1, <2>2
  <2> QED
    BY <2>2, <2>3 DEF docs, e
<1> QED
  BY <1>1, <1>2

\* What a line says of its item: its ledger, and the quantity and what was missing of it then.
LineKnown(line, item) ==
    /\ line.version <= item.version
    /\ line.version = item.version =>
          /\ item.quantity = line.system
          /\ line.physical # C!NotCounted => line.missing = line.system - line.physical

\* One item at two times: each movement gives it a version of its own.
Older(old, new) == old.version <= new.version /\ (old.version = new.version => old = new)

\* What the sheets know of the items in one database: what a sheet says an item was is what it
\* is, unless its ledger moved on, and then what was missing is the variance.
CountsKnown(d) ==
    /\ \A k \in Counts : /\ d.count[k].active
                               <=> d.count[k].status \in {"draft", "counting", "submitted"}
                         /\ d.count[k].status = "submitted" =>
                               \A x \in Items : d.count[k].line[x].physical # C!NotCounted
    /\ \A k \in Counts, x \in Items : d.count[k].status # "absent" =>
          LineKnown(d.count[k].line[x], d.item[x])

\* An item that a request read is older than it is now, or the same.
CountsIInv ==
    /\ C!TypeOK
    /\ Tracked
    /\ \A k, l \in Counts : db.count[k].active /\ db.count[l].active => k = l
    /\ CountsKnown(db)
    /\ \A c \in Clients : snap[c] # NoSnapshot =>
          CountsKnown(snap[c]) /\ \A x \in Items : Older(snap[c].item[x], db.item[x])

\* What a request sees is in order, and no newer than what there is.
LEMMA CountsSeen ==
  ASSUME CountsIInv, NEW c \in C!Callers, C!Reads(c)
  PROVE  /\ C!View(c) \in C!Databases /\ CountsKnown(C!View(c))
         /\ \A x \in Items : Older(C!View(c).item[x], db.item[x])
<1>1. CASE c \in Clients
  BY <1>1, CountsView DEF CountsIInv, C!View, C!Reads
<1>2. CASE c \notin Clients
  <2>1. C!View(c) = db
    BY <1>2 DEF C!View
  <2>2. db \in C!Databases /\ \A x \in Items : db.item[x].version \in Nat
    BY CountsRecord DEF CountsIInv, C!TypeOK
  <2> QED
    BY <2>1, <2>2 DEF CountsIInv, Older
<1> QED
  BY <1>1, <1>2

\* A transaction that leaves what it read in order, moves the ledgers of the items that it
\* changes, and locks the branch only when it is free.
LEMMA CountsWritten ==
  ASSUME CountsIInv, NEW c \in C!Callers, C!Reads(c), NEW new \in C!Databases,
         C!Commit(c, new), CountsKnown(new),
         \A x \in Items : new.item[x] # C!View(c).item[x]
            => new.item[x].version = C!View(c).item[x].version + 1,
         \A k, l \in Counts : new.count[k].active /\ ~C!View(c).count[k].active
            => C!Active(db) = {} /\ (l # k => new.count[l] = C!View(c).count[l])
  PROVE  CountsIInv'
<1> DEFINE d == C!View(c)
<1>1. /\ d \in C!Databases /\ CountsKnown(d) /\ \A x \in Items : Older(d.item[x], db.item[x])
  BY CountsSeen
<1>2. /\ C!TypeOK' /\ snap' = V!Ended(c) /\ Tracked'
      /\ \A x \in Items :
            IF new.item[x] = d.item[x] THEN db'.item[x] = db.item[x]
            ELSE db'.item[x] = new.item[x] /\ d.item[x] = db.item[x]
      /\ \A k \in Counts :
            IF new.count[k] = d.count[k] THEN db'.count[k] = db.count[k]
            ELSE db'.count[k] = new.count[k] /\ d.count[k] = db.count[k]
  BY CountsCommit DEF CountsIInv
<1>3. db \in C!Databases /\ db' \in C!Databases /\ CountsKnown(db)
  BY <1>2 DEF CountsIInv, C!TypeOK
<1>4. \A x \in Items : new.item[x] # d.item[x] => new.item[x].version = d.item[x].version + 1
  OBVIOUS
<1>5. \A k, l \in Counts : new.count[k].active /\ ~d.count[k].active
            => C!Active(db) = {} /\ (l # k => new.count[l] = d.count[l])
  OBVIOUS
<1> HIDE DEF d
<1>6. \A x \in Items : /\ db.item[x].version \in Nat /\ new.item[x].version \in Nat
                       /\ d.item[x].version \in Nat /\ db'.item[x].version \in Nat
  <2>1. \A e \in C!Databases : \A x \in Items : e.item[x].version \in Nat
    BY CountsRecord
  <2> QED
    BY <1>1, <1>3, <2>1
<1>7. \A k \in Counts, x \in Items : /\ db.count[k].line[x].version \in Nat
                                     /\ new.count[k].line[x].version \in Nat
  <2>1. \A e \in C!Databases : \A k \in Counts, x \in Items : e.count[k].line[x].version \in Nat
    <3> SUFFICES ASSUME NEW e \in C!Databases, NEW k \in Counts, NEW x \in Items
                 PROVE  e.count[k].line[x].version \in Nat
      OBVIOUS
    <3>1. e.count[k] \in C!CountDocs
      BY CountsRecord
    <3>2. e.count[k].line[x] \in C!Lines
      BY <3>1 DEF C!CountDocs
    <3> QED
      BY <3>2 DEF C!Lines
  <2> QED
    BY <1>3, <2>1
<1>8. \A x \in Items : Older(db.item[x], db'.item[x])
  BY <1>2, <1>4, <1>6 DEF Older
<1>9. CountsKnown(db')
  <2>1. ASSUME NEW k \in Counts
        PROVE  /\ db'.count[k].active
                     <=> db'.count[k].status \in {"draft", "counting", "submitted"}
               /\ db'.count[k].status = "submitted" =>
                     \A x \in Items : db'.count[k].line[x].physical # C!NotCounted
    <3>1. db'.count[k] = db.count[k] \/ db'.count[k] = new.count[k]
      BY <1>2
    <3> QED
      BY <1>3, <3>1 DEF CountsKnown
  <2>2. ASSUME NEW k \in Counts, NEW x \in Items, db'.count[k].status # "absent"
        PROVE  LineKnown(db'.count[k].line[x], db'.item[x])
    <3>1. CASE new.count[k] = d.count[k]
      <4>1. db'.count[k] = db.count[k]
        BY <1>2, <3>1
      <4>2. LineKnown(db.count[k].line[x], db.item[x])
        BY <1>3, <2>2, <4>1 DEF CountsKnown
      <4>3. CASE new.item[x] = d.item[x]
        <5>1. db'.item[x] = db.item[x]
          BY <1>2, <4>3
        <5> QED
          BY <4>1, <4>2, <5>1
      <4>4. CASE new.item[x] # d.item[x]
        <5>1. db'.item[x].version = db.item[x].version + 1
          BY <1>2, <1>4, <4>4
        <5> QED
          BY <1>6, <1>7, <4>1, <4>2, <5>1 DEF LineKnown
      <4> QED
        BY <4>3, <4>4
    <3>2. CASE new.count[k] # d.count[k]
      <4>1. db'.count[k] = new.count[k]
        BY <1>2, <3>2
      <4>2. LineKnown(new.count[k].line[x], new.item[x])
        BY <2>2, <4>1 DEF CountsKnown
      <4>3. CASE new.item[x] = d.item[x]
        <5>1. db'.item[x] = db.item[x] /\ Older(new.item[x], db.item[x])
          BY <1>1, <1>2, <4>3
        <5> QED
          BY <1>6, <1>7, <4>1, <4>2, <5>1 DEF LineKnown, Older
      <4>4. CASE new.item[x] # d.item[x]
        <5>1. db'.item[x] = new.item[x]
          BY <1>2, <4>4
        <5> QED
          BY <4>1, <4>2, <5>1
      <4> QED
        BY <4>3, <4>4
    <3> QED
      BY <3>1, <3>2
  <2> QED
    BY <2>1, <2>2 DEF CountsKnown
<1>10. ASSUME NEW k \in Counts, NEW l \in Counts, db'.count[k].active, db'.count[l].active
       PROVE  k = l
  <2> SUFFICES ASSUME k # l
               PROVE  FALSE
    OBVIOUS
  <2>1. ASSUME NEW i \in Counts, db'.count[i].active, ~db.count[i].active
        PROVE  new.count[i].active /\ ~d.count[i].active
    BY <1>2, <2>1
  <2>2. ASSUME NEW i \in Counts, NEW j \in Counts, i # j, db'.count[i].active,
               db'.count[j].active, ~db.count[i].active
        PROVE  FALSE
    <3>1. C!Active(db) = {} /\ new.count[j] = d.count[j]
      BY <1>5, <2>1, <2>2
    <3>2. db'.count[j] = db.count[j]
      BY <1>2, <3>1
    <3> QED
      BY <2>2, <3>1, <3>2 DEF C!Active
  <2>3. db.count[k].active /\ db.count[l].active
    BY <1>10, <2>2
  <2> QED
    BY <2>3 DEF CountsIInv
<1>11. ASSUME NEW e \in Clients, snap'[e] # NoSnapshot
       PROVE  CountsKnown(snap'[e]) /\ \A x \in Items : Older(snap'[e].item[x], db'.item[x])
  <2>1. snap'[e] = snap[e] /\ snap[e] # NoSnapshot
    BY <1>2, <1>11 DEF V!Ended
  <2>2. CountsKnown(snap[e]) /\ \A x \in Items : Older(snap[e].item[x], db.item[x])
    BY <2>1 DEF CountsIInv
  <2>3. \A x \in Items : snap[e].item[x].version \in Nat
    <3>1. snap[e] \in C!Databases
      BY <2>1 DEF CountsIInv, C!TypeOK
    <3> QED
      BY <3>1, CountsRecord
  <2>4. \A x \in Items : Older(snap[e].item[x], db'.item[x])
    BY <1>6, <1>8, <2>2, <2>3 DEF Older
  <2> QED
    BY <2>1, <2>2, <2>4
<1> QED
  BY <1>2, <1>9, <1>10, <1>11 DEF CountsIInv

\* What a sheet's fields are.
LEMMA CountsFields ==
  ASSUME NEW d \in C!Databases, NEW k \in Counts, NEW x \in Items
  PROVE  /\ d.count[k] \in C!CountDocs /\ d.count[k].line \in [Items -> C!Lines]
         /\ d.count[k].line[x] \in C!Lines
         /\ d.count[k].line[x].system \in 0..MaxOnHand /\ d.count[k].line[x].version \in Nat
         /\ d.count[k].line[x].physical \in {C!NotCounted} \cup 0..MaxOnHand
         /\ d.count[k].line[x].missing \in Int
         /\ d.item[x].quantity \in 0..MaxOnHand /\ d.item[x].version \in Nat
         /\ d.shelf[x].quantity \in Nat /\ d.shelf[x].moves \in 0..MaxMoves
<1>1. d.count[k] \in C!CountDocs
  BY CountsRecord
<1>2. d.count[k].line \in [Items -> C!Lines]
  BY <1>1 DEF C!CountDocs
<1>3. d.count[k].line[x] \in C!Lines
  BY <1>2
<1>4. /\ d.count[k].line[x].system \in 0..MaxOnHand /\ d.count[k].line[x].version \in Nat
      /\ d.count[k].line[x].physical \in {C!NotCounted} \cup 0..MaxOnHand
      /\ d.count[k].line[x].missing \in Int
  BY <1>3 DEF C!Lines
<1>5. /\ d.item[x].quantity \in 0..MaxOnHand /\ d.item[x].version \in Nat
      /\ d.shelf[x].quantity \in Nat /\ d.shelf[x].moves \in 0..MaxMoves
  BY CountsRecord
<1> QED
  BY <1>1, <1>2, <1>3, <1>4, <1>5

\* A movement, which leaves the sheets alone.
LEMMA CountsMove ==
  ASSUME CountsIInv, NEW c \in C!Callers, C!Reads(c), NEW x \in Items, NEW qty \in {-1, 1},
         C!Move(c, x, qty)
  PROVE  CountsIInv' /\ C!ApprovalExplains
<1> DEFINE d == C!View(c)
<1>1. d \in C!Databases /\ CountsKnown(d)
  BY CountsSeen
<1>2. PICK item : item = [quantity |-> d.item[x].quantity + qty,
                          version |-> d.item[x].version + 1]
  OBVIOUS
<1>3. PICK shelf : shelf = [quantity |-> d.shelf[x].quantity + qty,
                            moves |-> d.shelf[x].moves + 1]
  OBVIOUS
<1>4. PICK e : e = [d EXCEPT !.item[x] = item]
  OBVIOUS
<1>5. PICK new : new = [e EXCEPT !.shelf[x] = shelf]
  OBVIOUS
<1>6. /\ d.item[x].quantity + qty \in 0..MaxOnHand
      /\ d.shelf[x].quantity + qty >= 0 /\ d.shelf[x].moves < MaxMoves
      /\ C!Commit(c, [d EXCEPT
            !.item[x] = [quantity |-> @.quantity + qty, version |-> @.version + 1],
            !.shelf[x] = [quantity |-> @.quantity + qty, moves |-> @.moves + 1]])
  BY Zenon DEF C!Move
<1> HIDE DEF d
<1>7. MaxMoves \in Nat /\ d.item[x].version \in Nat /\ d.shelf[x].moves \in 0..MaxMoves
      /\ d.shelf[x].quantity \in Nat
  BY <1>1, CountsRecord, RestaurantAssumption DEF C!CountsAssumption
<1>8. item \in [quantity : 0..MaxOnHand, version : Nat]
      /\ shelf \in [quantity : Nat, moves : 0..MaxMoves]
  BY <1>2, <1>3, <1>6, <1>7
<1>9. /\ e \in C!Databases /\ e.shelf = d.shelf /\ e.count = d.count /\ e.item[x] = item
      /\ \A i \in Items \ {x} : e.item[i] = d.item[i]
  BY <1>1, <1>4, <1>8, CountsItemSet
<1>10. new \in C!Databases /\ new.item = e.item /\ new.count = e.count
  BY <1>5, <1>8, <1>9, CountsShelfSet
<1>11. C!Commit(c, new)
  <2>1. e.shelf[x] = d.shelf[x]
    BY <1>9
  <2>2. new = [d EXCEPT
            !.item[x] = [quantity |-> @.quantity + qty, version |-> @.version + 1],
            !.shelf[x] = [quantity |-> @.quantity + qty, moves |-> @.moves + 1]]
    BY <1>2, <1>3, <1>4, <1>5, <2>1, Zenon
  <2> QED
    BY <1>6, <2>2, Zenon
<1>12. CountsKnown(new)
  <2>1. ASSUME NEW k \in Counts, NEW i \in Items, new.count[k].status # "absent"
        PROVE  LineKnown(new.count[k].line[i], new.item[i])
    <3>1. LineKnown(d.count[k].line[i], d.item[i])
      BY <1>1, <1>9, <1>10, <2>1 DEF CountsKnown
    <3>2. CASE i = x
      <4>1. d.count[k].line[x].version \in Nat
        BY <1>1, CountsFields
      <4> QED
        BY <1>2, <1>7, <1>9, <1>10, <3>1, <3>2, <4>1 DEF LineKnown
    <3>3. CASE i # x
      BY <1>9, <1>10, <3>1, <3>3
    <3> QED
      BY <3>2, <3>3
  <2> QED
    BY <1>1, <1>9, <1>10, <2>1 DEF CountsKnown
<1>13. \A i \in Items : new.item[i] # d.item[i] => new.item[i].version = d.item[i].version + 1
  BY <1>2, <1>9, <1>10
<1>14. CountsIInv'
  BY <1>9, <1>10, <1>11, <1>12, <1>13, CountsWritten DEF d
<1>15. \A k \in Counts : db'.count[k] = db.count[k]
  BY <1>9, <1>10, <1>11, CountsCommit DEF CountsIInv, d
<1> QED
  BY <1>14, <1>15 DEF C!ApprovalExplains

\* What disappears is on no sheet, and in no book.
LEMMA CountsShrink ==
  ASSUME CountsIInv, NEW x \in Items, C!Shrink(x)
  PROVE  CountsIInv' /\ C!ApprovalExplains
<1>1. Prompt \in C!Callers /\ C!Reads(Prompt) /\ C!View(Prompt) = db
  BY RestaurantAssumption DEF C!Callers, C!Reads, C!View, B!PromptAssumption
<1>2. db \in C!Databases /\ CountsKnown(db)
  BY DEF CountsIInv, C!TypeOK
<1>3. PICK shelf : shelf = [quantity |-> db.shelf[x].quantity - 1,
                            moves |-> db.shelf[x].moves + 1]
  OBVIOUS
<1>4. PICK new : new = [db EXCEPT !.shelf[x] = shelf]
  OBVIOUS
<1>5. db.shelf[x].quantity > 0 /\ db.shelf[x].moves < MaxMoves /\ C!Commit(Prompt, new)
  BY <1>3, <1>4, Zenon DEF C!Shrink
<1>6. MaxMoves \in Nat /\ db.shelf[x].moves \in 0..MaxMoves /\ db.shelf[x].quantity \in Nat
  BY <1>2, CountsRecord, RestaurantAssumption DEF C!CountsAssumption
<1>7. shelf \in [quantity : Nat, moves : 0..MaxMoves]
  BY <1>3, <1>5, <1>6
<1>8. new \in C!Databases /\ new.item = db.item /\ new.count = db.count
  BY <1>2, <1>4, <1>7, CountsShelfSet
<1>9. CountsKnown(new)
  BY <1>2, <1>8 DEF CountsKnown
<1>10. CountsIInv'
  BY <1>1, <1>5, <1>8, <1>9, CountsWritten
<1>11. \A k \in Counts : db'.count[k] = db.count[k]
  BY <1>1, <1>5, <1>8, CountsCommit DEF CountsIInv
<1> QED
  BY <1>10, <1>11 DEF C!ApprovalExplains

\* A sheet is in order.
SheetKnown(doc, d) ==
    /\ doc.active <=> doc.status \in {"draft", "counting", "submitted"}
    /\ doc.status = "submitted" => \A x \in Items : doc.line[x].physical # C!NotCounted
    /\ doc.status # "absent" => \A x \in Items : LineKnown(doc.line[x], d.item[x])

\* A transaction that writes one sheet, and approves none.
LEMMA CountsSheet ==
  ASSUME CountsIInv, NEW c \in C!Callers, C!Reads(c), NEW k \in Counts,
         NEW doc \in C!CountDocs, C!Commit(c, [C!View(c) EXCEPT !.count[k] = doc]),
         SheetKnown(doc, C!View(c)), doc.status # "approved",
         doc.active /\ ~C!View(c).count[k].active => C!Active(db) = {}
  PROVE  CountsIInv' /\ C!ApprovalExplains
<1> DEFINE d == C!View(c)
<1>1. d \in C!Databases /\ CountsKnown(d)
  BY CountsSeen
<1>2. PICK new : new = [d EXCEPT !.count[k] = doc]
  OBVIOUS
<1>3. C!Commit(c, new) /\ SheetKnown(doc, d)
  BY <1>2, Zenon
<1>4. doc.active /\ ~d.count[k].active => C!Active(db) = {}
  OBVIOUS
<1> HIDE DEF d
<1>5. /\ new \in C!Databases /\ new.item = d.item /\ new.count[k] = doc
      /\ \A i \in Counts \ {k} : new.count[i] = d.count[i]
  BY <1>1, <1>2, CountsCountSet
<1>6. CountsKnown(new)
  BY <1>1, <1>3, <1>5 DEF CountsKnown, SheetKnown
<1>7. \A i, l \in Counts : new.count[i].active /\ ~d.count[i].active
         => C!Active(db) = {} /\ (l # i => new.count[l] = d.count[l])
  BY <1>4, <1>5
<1>8. CountsIInv'
  BY <1>3, <1>5, <1>6, <1>7, CountsWritten DEF d
<1>9. \A i \in Counts : db'.count[i] = db.count[i] \/ (i = k /\ db'.count[i] = doc)
  <2>1. \A i \in Counts :
           IF new.count[i] = d.count[i] THEN db'.count[i] = db.count[i]
           ELSE db'.count[i] = new.count[i] /\ d.count[i] = db.count[i]
    BY <1>3, <1>5, CountsCommit DEF CountsIInv, d
  <2> QED
    BY <1>5, <2>1
<1> QED
  BY <1>8, <1>9 DEF C!ApprovalExplains

\* createStockCount
LEMMA CountsCreate ==
  ASSUME CountsIInv, NEW c \in C!Callers, C!Reads(c), NEW k \in Counts, C!Create(c, k)
  PROVE  CountsIInv' /\ C!ApprovalExplains
<1> DEFINE d == C!View(c)
           line(x) == [system |-> d.item[x].quantity, version |-> d.item[x].version,
                       physical |-> C!NotCounted, missing |-> 0]
<1>1. d \in C!Databases /\ CountsKnown(d)
  BY CountsSeen
<1>2. PICK lines : lines = [x \in Items |-> line(x)]
  OBVIOUS
<1>3. PICK doc : doc = [status |-> "draft", active |-> TRUE, line |-> lines]
  OBVIOUS
<1>4. C!Active(db) = {} /\ C!Commit(c, [d EXCEPT !.count[k] = doc])
  BY <1>2, <1>3, Zenon DEF C!Create, C!BranchFree
<1> HIDE DEF d
<1>5. \A x \in Items : line(x) \in C!Lines
  BY <1>1, CountsFields DEF C!Lines
<1>6. lines \in [Items -> C!Lines]
  BY <1>2, <1>5
<1>7. doc \in C!CountDocs
  BY <1>3, <1>6 DEF C!CountDocs, C!Statuses
<1>8. \A x \in Items : LineKnown(lines[x], d.item[x])
  BY <1>1, <1>2, CountsFields DEF LineKnown
<1>9. SheetKnown(doc, d)
  BY <1>3, <1>8 DEF SheetKnown
<1> QED
  BY <1>3, <1>4, <1>7, <1>9, CountsSheet DEF d

\* updateStockCount
LEMMA CountsEnter ==
  ASSUME CountsIInv, NEW c \in C!Callers, C!Reads(c), NEW k \in Counts, NEW x \in Items,
         NEW physical \in {C!NotCounted} \cup 0..MaxOnHand, C!Enter(c, k, x, physical)
  PROVE  CountsIInv' /\ C!ApprovalExplains
<1> DEFINE d == C!View(c)
           old == d.count[k]
<1>1. d \in C!Databases /\ CountsKnown(d)
  BY CountsSeen
<1>2. PICK a : a = [old.line[x] EXCEPT !.physical = physical]
  OBVIOUS
<1>3. PICK b : b = [a EXCEPT !.missing = d.item[x].quantity - physical]
  OBVIOUS
<1>4. PICK first : first = [old.line EXCEPT ![x] = a]
  OBVIOUS
<1>5. PICK line : line = [first EXCEPT ![x] = b]
  OBVIOUS
<1>6. PICK status : status = IF \E y \in Items : line[y].physical # C!NotCounted
                             THEN "counting" ELSE old.status
  OBVIOUS
<1>7. PICK doc : doc = [status |-> status, active |-> old.active, line |-> line]
  OBVIOUS
<1> DEFINE entered == [old.line EXCEPT ![x].physical = physical,
                                       ![x].missing = d.item[x].quantity - physical]
<1>8. /\ old.status \in {"draft", "counting"}
      /\ C!Commit(c, [d EXCEPT !.count[k] =
            [status |-> IF \E y \in Items : entered[y].physical # C!NotCounted
                        THEN "counting" ELSE @.status,
             active |-> @.active, line |-> entered]])
  BY Zenon DEF C!Enter, C!EDITABLE_STATUSES
<1> HIDE DEF d
<1>9. /\ old \in C!CountDocs /\ old.line \in [Items -> C!Lines] /\ old.line[x] \in C!Lines
      /\ d.item[x].quantity \in 0..MaxOnHand /\ MaxOnHand \in Nat /\ physical \in Int
  BY <1>1, CountsFields, RestaurantAssumption DEF C!CountsAssumption, C!NotCounted
<1>10. /\ a \in C!Lines /\ a.system = old.line[x].system /\ a.version = old.line[x].version
       /\ a.physical = physical
  BY <1>2, <1>9 DEF C!Lines
<1>11. /\ b \in C!Lines /\ b.system = old.line[x].system /\ b.version = old.line[x].version
       /\ b.physical = physical /\ b.missing = d.item[x].quantity - physical
  BY <1>3, <1>9, <1>10 DEF C!Lines
<1>12. first \in [Items -> C!Lines] /\ first[x] = a
       /\ \A y \in Items \ {x} : first[y] = old.line[y]
  BY <1>4, <1>9, <1>10
<1>13. line \in [Items -> C!Lines] /\ line[x] = b
       /\ \A y \in Items \ {x} : line[y] = old.line[y]
  BY <1>5, <1>11, <1>12
<1>14. entered = line
  <2>1. first = [old.line EXCEPT ![x].physical = physical]
    BY <1>2, <1>4, Zenon
  <2>2. line = [first EXCEPT ![x].missing = d.item[x].quantity - physical]
    BY <1>3, <1>5, <1>12, Zenon
  <2> QED
    BY <2>1, <2>2, Zenon
<1>15. C!Commit(c, [d EXCEPT !.count[k] = doc])
  <2>1. [d EXCEPT !.count[k] = doc] = [d EXCEPT !.count[k] =
            [status |-> IF \E y \in Items : entered[y].physical # C!NotCounted
                        THEN "counting" ELSE @.status,
             active |-> @.active, line |-> entered]]
    <3> HIDE DEF entered
    <3> QED
      BY <1>6, <1>7, <1>14, Zenon
  <2> HIDE DEF entered, old
  <2> QED
    BY <1>8, <2>1, Zenon
<1>16. status \in {"draft", "counting"}
  BY <1>6, <1>8
<1>17. old.active \in BOOLEAN
  BY <1>9 DEF C!CountDocs
<1>18. doc \in C!CountDocs
  BY <1>7, <1>13, <1>16, <1>17 DEF C!CountDocs, C!Statuses
<1>19. old.active <=> old.status \in {"draft", "counting", "submitted"}
  BY <1>1 DEF CountsKnown
<1>20. \A y \in Items : LineKnown(line[y], d.item[y])
  <2>1. \A y \in Items : LineKnown(old.line[y], d.item[y])
    BY <1>1, <1>8 DEF CountsKnown
  <2>2. LineKnown(b, d.item[x])
    BY <1>11, <2>1 DEF LineKnown
  <2> QED
    BY <1>13, <2>1, <2>2
<1>21. SheetKnown(doc, d)
  BY <1>7, <1>8, <1>16, <1>19, <1>20 DEF SheetKnown
<1>22. doc.status # "approved" /\ doc.active = old.active
  BY <1>7, <1>16
<1> QED
  BY <1>15, <1>18, <1>21, <1>22, CountsSheet DEF d

\* submitStockCount
LEMMA CountsSubmit ==
  ASSUME CountsIInv, NEW c \in C!Callers, C!Reads(c), NEW k \in Counts, C!Submit(c, k)
  PROVE  CountsIInv' /\ C!ApprovalExplains
<1> DEFINE d == C!View(c)
           old == d.count[k]
<1>1. d \in C!Databases /\ CountsKnown(d)
  BY CountsSeen
<1>2. PICK doc : doc = [old EXCEPT !.status = "submitted"]
  OBVIOUS
<1>3. /\ old.status \in {"draft", "counting"}
      /\ \A x \in Items : old.line[x].physical # C!NotCounted
      /\ C!Commit(c, [d EXCEPT !.count[k].status = "submitted"])
  BY Zenon DEF C!Submit, C!EDITABLE_STATUSES
<1> HIDE DEF d
<1>4. old \in C!CountDocs
  BY <1>1, CountsRecord
<1>5. /\ doc \in C!CountDocs /\ doc.status = "submitted" /\ doc.active = old.active
      /\ doc.line = old.line
  BY <1>2, <1>4 DEF C!CountDocs, C!Statuses
<1>6. C!Commit(c, [d EXCEPT !.count[k] = doc])
  BY <1>2, <1>3, Zenon
<1>7. SheetKnown(doc, d)
  BY <1>1, <1>3, <1>5 DEF SheetKnown, CountsKnown
<1> QED
  BY <1>5, <1>6, <1>7, CountsSheet DEF d

\* A sheet that is set aside, or rejected.
LEMMA CountsReleased ==
  ASSUME CountsIInv, NEW c \in C!Callers, C!Reads(c), NEW k \in Counts,
         C!View(c).count[k].status = "submitted", NEW status \in {"rejected", "stale"},
         C!Commit(c, [C!View(c) EXCEPT !.count[k] = C!Released(@, status)])
  PROVE  CountsIInv' /\ C!ApprovalExplains
<1> DEFINE d == C!View(c)
           old == d.count[k]
<1>1. d \in C!Databases /\ CountsKnown(d)
  BY CountsSeen
<1>2. PICK doc : doc = C!Released(old, status)
  OBVIOUS
<1>3. C!Commit(c, [d EXCEPT !.count[k] = doc])
  BY <1>2, Zenon
<1>4. old.status = "submitted"
  OBVIOUS
<1> HIDE DEF d
<1>5. old \in C!CountDocs
  BY <1>1, CountsRecord
<1>6. /\ doc \in C!CountDocs /\ doc.status = status /\ doc.active = FALSE
      /\ doc.line = old.line
  BY <1>2, <1>5 DEF C!CountDocs, C!Statuses, C!Released
<1>7. SheetKnown(doc, d)
  BY <1>1, <1>4, <1>6 DEF SheetKnown, CountsKnown
<1> QED
  BY <1>3, <1>6, <1>7, CountsSheet DEF d

\* An approval, which corrects the items that differ.
LEMMA CountsApprove ==
  ASSUME CountsIInv, NEW c \in C!Callers, C!Reads(c), NEW k \in Counts, C!Approve(c, k)
  PROVE  CountsIInv' /\ C!ApprovalExplains
<1> DEFINE d == C!View(c)
           old == d.count[k]
           line == old.line
           fixed(x) == IF C!Variance(line[x]) = 0 THEN d.item[x]
                       ELSE [quantity |-> d.item[x].quantity + C!Variance(line[x]),
                             version |-> d.item[x].version + 1]
<1>1. d \in C!Databases /\ CountsKnown(d) /\ \A x \in Items : Older(d.item[x], db.item[x])
  BY CountsSeen
<1>2. PICK doc : doc = C!Released(old, "approved")
  OBVIOUS
<1>3. PICK items : items = [x \in Items |-> fixed(x)]
  OBVIOUS
<1>4. PICK e : e = [d EXCEPT !.count[k] = doc]
  OBVIOUS
<1>5. PICK new : new = [e EXCEPT !.item = items]
  OBVIOUS
<1>6. /\ old.status = "submitted" /\ C!Stale(d, k) = {}
      /\ C!Commit(c, [d EXCEPT
            !.count[k] = C!Released(@, "approved"),
            !.item = [x \in Items |->
                IF C!Variance(line[x]) = 0 THEN @[x]
                ELSE [quantity |-> @[x].quantity + C!Variance(line[x]),
                      version |-> @[x].version + 1]]])
  BY Zenon DEF C!Approve
<1> HIDE DEF d
<1>7. /\ old \in C!CountDocs
      /\ \A x \in Items : /\ line[x].physical # C!NotCounted
                          /\ d.item[x].quantity = line[x].system
                          /\ d.item[x].version = line[x].version
                          /\ LineKnown(line[x], d.item[x])
  BY <1>1, <1>6, CountsRecord DEF CountsKnown, C!Stale
<1>8. \A x \in Items : /\ line[x].physical \in 0..MaxOnHand /\ line[x].system \in 0..MaxOnHand
                       /\ d.item[x].version \in Nat
                       /\ d.item[x] \in [quantity : 0..MaxOnHand, version : Nat]
                       /\ line[x].missing = line[x].system - line[x].physical
  BY <1>1, <1>7, CountsFields, CountsRecord DEF LineKnown
<1>9. MaxOnHand \in Nat
  BY RestaurantAssumption DEF C!CountsAssumption
<1>10. /\ doc \in C!CountDocs /\ doc.status = "approved" /\ doc.active = FALSE
       /\ doc.line = line
  BY <1>2, <1>7 DEF C!CountDocs, C!Statuses, C!Released
<1>11. \A x \in Items : /\ items[x] \in [quantity : 0..MaxOnHand, version : Nat]
                        /\ items[x].quantity = line[x].physical
                        /\ line[x].physical # line[x].system
                              => items[x].version = d.item[x].version + 1
                        /\ line[x].physical = line[x].system => items[x] = d.item[x]
  <2> SUFFICES ASSUME NEW x \in Items
               PROVE  /\ items[x] \in [quantity : 0..MaxOnHand, version : Nat]
                      /\ items[x].quantity = line[x].physical
                      /\ line[x].physical # line[x].system
                            => items[x].version = d.item[x].version + 1
                      /\ line[x].physical = line[x].system => items[x] = d.item[x]
    OBVIOUS
  <2>1. items[x] = fixed(x)
    BY <1>3
  <2>2. CASE line[x].physical = line[x].system
    BY <1>7, <1>8, <1>9, <2>1, <2>2 DEF C!Variance
  <2>3. CASE line[x].physical # line[x].system
    <3>1. C!Variance(line[x]) # 0 /\ C!Variance(line[x]) = line[x].physical - line[x].system
      BY <1>8, <1>9, <2>3 DEF C!Variance
    <3>2. items[x] = [quantity |-> d.item[x].quantity + C!Variance(line[x]),
                      version |-> d.item[x].version + 1]
      BY <2>1, <3>1
    <3>3. d.item[x].quantity + C!Variance(line[x]) = line[x].physical
      BY <1>7, <1>8, <1>9, <3>1
    <3> QED
      BY <1>8, <1>9, <2>3, <3>2, <3>3
  <2> QED
    BY <2>2, <2>3
<1>12. items \in [Items -> [quantity : 0..MaxOnHand, version : Nat]]
  BY <1>3, <1>11
<1>13. /\ e \in C!Databases /\ e.item = d.item /\ e.count[k] = doc
       /\ \A i \in Counts \ {k} : e.count[i] = d.count[i]
  BY <1>1, <1>4, <1>10, CountsCountSet
<1>14. new \in C!Databases /\ new.item = items /\ new.count = e.count
  BY <1>5, <1>12, <1>13, CountsItemSet
<1>15. C!Commit(c, new)
  <2>1. new = [d EXCEPT
            !.count[k] = C!Released(@, "approved"),
            !.item = [x \in Items |->
                IF C!Variance(line[x]) = 0 THEN @[x]
                ELSE [quantity |-> @[x].quantity + C!Variance(line[x]),
                      version |-> @[x].version + 1]]]
    BY <1>2, <1>3, <1>4, <1>5, <1>13, Zenon
  <2> QED
    BY <1>6, <2>1, Zenon
<1>16. CountsKnown(new)
  <2>1. ASSUME NEW i \in Counts, NEW x \in Items, new.count[i].status # "absent"
        PROVE  LineKnown(new.count[i].line[x], new.item[x])
    <3>1. new.count[i].line = d.count[i].line /\ d.count[i].status # "absent"
      BY <1>6, <1>10, <1>13, <1>14, <2>1
    <3>2. LineKnown(d.count[i].line[x], d.item[x]) /\ d.count[i].line[x].version \in Nat
      BY <1>1, <3>1, CountsFields DEF CountsKnown
    <3>3. CASE line[x].physical = line[x].system
      BY <1>11, <1>14, <3>1, <3>2, <3>3
    <3>4. CASE line[x].physical # line[x].system
      BY <1>8, <1>11, <1>14, <3>1, <3>2, <3>4 DEF LineKnown
    <3> QED
      BY <3>3, <3>4
  <2>2. \A i \in Counts : /\ new.count[i].active
                                <=> new.count[i].status \in {"draft", "counting", "submitted"}
                          /\ new.count[i].status = "submitted" =>
                                \A x \in Items : new.count[i].line[x].physical # C!NotCounted
    BY <1>1, <1>10, <1>13, <1>14 DEF CountsKnown
  <2> QED
    BY <2>1, <2>2 DEF CountsKnown
<1>17. \A x \in Items : new.item[x] # d.item[x] => new.item[x].version = d.item[x].version + 1
  BY <1>11, <1>14
<1>18. \A i, l \in Counts : new.count[i].active /\ ~d.count[i].active
          => C!Active(db) = {} /\ (l # i => new.count[l] = d.count[l])
  BY <1>10, <1>13, <1>14
<1>19. CountsIInv'
  BY <1>14, <1>15, <1>16, <1>17, <1>18, CountsWritten DEF d
<1>20. /\ \A x \in Items : IF new.item[x] = d.item[x] THEN db'.item[x] = db.item[x]
                           ELSE db'.item[x] = new.item[x] /\ d.item[x] = db.item[x]
       /\ \A i \in Counts : IF new.count[i] = d.count[i] THEN db'.count[i] = db.count[i]
                            ELSE db'.count[i] = new.count[i] /\ d.count[i] = db.count[i]
  BY <1>14, <1>15, CountsCommit DEF CountsIInv, d
<1>21. \A i \in Counts \ {k} : db'.count[i] = db.count[i]
  BY <1>13, <1>14, <1>20
<1>22. db.count[k] = old
  BY <1>6, <1>10, <1>13, <1>14, <1>20
<1>23. ASSUME NEW x \in Items
       PROVE  db'.item[x].quantity = db.item[x].quantity - db.count[k].line[x].missing
  <2>1. db.item[x].quantity \in 0..MaxOnHand
    BY CountsFields DEF CountsIInv, C!TypeOK
  <2>2. CASE line[x].physical = line[x].system
    <3>1. db'.item[x] = db.item[x] /\ line[x].missing = 0
      BY <1>8, <1>9, <1>11, <1>14, <1>20, <2>2
    <3> QED
      BY <1>9, <1>22, <2>1, <3>1
  <2>3. CASE line[x].physical # line[x].system
    <3>1. db'.item[x].quantity = line[x].physical /\ db.item[x].quantity = line[x].system
      BY <1>7, <1>8, <1>11, <1>14, <1>20, <2>3
    <3> QED
      BY <1>8, <1>9, <1>22, <3>1
  <2> QED
    BY <2>2, <2>3
<1> QED
  BY <1>19, <1>21, <1>23 DEF C!ApprovalExplains

\* Every step keeps the invariant, and an approval explains itself.
LEMMA CountsStep ==
  ASSUME CountsIInv, C!Next
  PROVE  CountsIInv' /\ C!ApprovalExplains
<1>1. ASSUME NEW c \in Clients, C!Begin(c) \/ C!Refused(c)
      PROVE  CountsIInv' /\ C!ApprovalExplains
  <2>1. V!Begin(c) \/ V!End(c)
    BY <1>1, CountsSnapshots DEF C!Refused
  <2>2. db' = db
    BY <2>1 DEF V!Begin, V!End
  <2>3. /\ snap' \in [Clients -> C!Databases \cup {NoSnapshot}]
        /\ \A e \in Clients : snap'[e] \in {snap[e], db, NoSnapshot}
    BY <2>1 DEF CountsIInv, C!TypeOK, V!Begin, V!End, V!Ended
  <2>4. Tracked'
    BY <2>1, TrackedBegin, TrackedEnd DEF CountsIInv
  <2>5. C!TypeOK'
    BY <2>2, <2>3 DEF CountsIInv, C!TypeOK
  <2>6. CountsKnown(db')
    BY <2>2 DEF CountsIInv
  <2>7. \A x \in Items : Older(db.item[x], db.item[x])
    BY CountsRecord DEF CountsIInv, C!TypeOK, Older
  <2>8. \A e \in Clients : snap'[e] # NoSnapshot =>
           CountsKnown(snap'[e]) /\ \A x \in Items : Older(snap'[e].item[x], db'.item[x])
    BY <2>2, <2>3, <2>7 DEF CountsIInv
  <2>9. \A k, l \in Counts : db'.count[k].active /\ db'.count[l].active => k = l
    BY <2>2 DEF CountsIInv
  <2> QED
    BY <2>2, <2>4, <2>5, <2>6, <2>8, <2>9 DEF CountsIInv, C!ApprovalExplains
<1>2. ASSUME NEW c \in C!Callers, C!Reads(c), NEW k \in Counts, C!CountStep(c, k)
      PROVE  CountsIInv' /\ C!ApprovalExplains
  <2>1. CASE C!Reject(c, k)
    BY <1>2, <2>1, CountsReleased DEF C!Reject
  <2>2. CASE C!SetAside(c, k) \/ C!Recover(c, k)
    BY <1>2, <2>2, CountsReleased DEF C!SetAside, C!Recover
  <2> QED
    BY <1>2, <2>1, <2>2, CountsCreate, CountsEnter, CountsSubmit, CountsApprove
    DEF C!CountStep
<1> QED
  BY <1>1, <1>2, CountsShrink, CountsMove DEF C!Next

\* At first there is one of each item, and no sheet.
LEMMA CountsInit ==
  ASSUME C!Init
  PROVE  CountsIInv
<1>1. /\ db = [item |-> [x \in Items |-> [quantity |-> 1, version |-> 0]],
               shelf |-> [x \in Items |-> [quantity |-> 1, moves |-> 0]],
               count |-> [k \in Counts |-> [status |-> "absent", active |-> FALSE,
                                            line |-> [x \in Items |-> C!Line0]]]]
      /\ snap = [c \in Clients |-> NoSnapshot] /\ behind = [c \in Clients |-> {}]
  BY DEF C!Init, C!OutsideTransactions
<1>2. MaxOnHand \in Nat \ {0} /\ MaxMoves \in Nat
  BY RestaurantAssumption DEF C!CountsAssumption
<1>3. C!Line0 \in C!Lines
  BY <1>2 DEF C!Line0, C!Lines
<1>4. \A k \in Counts : db.count[k] \in C!CountDocs
  BY <1>1, <1>3 DEF C!CountDocs, C!Statuses
<1>5. db.count \in [Counts -> C!CountDocs]
  BY <1>1, <1>4
<1>6. /\ db.item \in [Items -> [quantity : 0..MaxOnHand, version : Nat]]
      /\ db.shelf \in [Items -> [quantity : Nat, moves : 0..MaxMoves]]
  BY <1>1, <1>2
<1>7. db = [item |-> db.item, shelf |-> db.shelf, count |-> db.count]
  BY <1>1
<1>8. C!TypeOK
  BY <1>1, <1>5, <1>6, <1>7 DEF C!TypeOK, C!Databases
<1>9. Tracked
  BY <1>1 DEF Tracked
<1>10. \A k \in Counts : db.count[k].status = "absent" /\ db.count[k].active = FALSE
  BY <1>1
<1> QED
  BY <1>1, <1>8, <1>9, <1>10 DEF CountsIInv, CountsKnown

\* One sheet is open.
LEMMA CountsOne ==
  ASSUME CountsIInv
  PROVE  C!OneActiveCount
<1>1. Cardinality(C!Active(db)) <= 1
  <2>1. CASE C!Active(db) = {}
    BY <2>1, FS_EmptySet
  <2>2. CASE C!Active(db) # {}
    <3>1. PICK k \in Counts : C!Active(db) = {k}
      BY <2>2 DEF CountsIInv, C!Active
    <3>2. Cardinality({k}) = 1
      BY FS_Singleton
    <3> QED
      BY <3>1, <3>2
  <2> QED
    BY <2>1, <2>2
<1>2. \A k \in Counts :
         db.count[k].active <=> db.count[k].status \in {"draft", "counting", "submitted"}
  BY Zenon DEF CountsIInv, CountsKnown
<1>3. C!Cardinality(C!Active(db)) <= 1
  <2>1. C!Cardinality(C!Active(db)) = Cardinality(C!Active(db))
    BY Zenon DEF C!Cardinality, Cardinality
  <2> QED
    BY <1>1, <2>1
<1> QED
  BY <1>2, <1>3, Zenon DEF C!OneActiveCount

-------------------------------------------------------------------------------
(* The closings of a month.                                                *)

\* The revisions of a month have no gap, no request knows of one that does not exist, and
\* those below the number that a request found free exist.
MonthIInv ==
    /\ M!TypeOK
    /\ \A r \in M!Revisions : db.month[r].status # "absent" =>
          \A q \in 1..r : db.month[q].status # "absent"
    /\ \A c \in Closers : snap[c] # NoSnapshot =>
          \A r \in M!Revisions :
              snap[c].month[r].status # "absent" => db.month[r].status # "absent"
    /\ \A c \in Closers, q \in M!Revisions :
          q < db.request[c].revision => db.month[q].status # "absent"

\* A database is its three collections.
LEMMA MonthRecord ==
  ASSUME NEW d \in M!Databases
  PROVE  /\ DOMAIN d = {"sale", "month", "request"}
         /\ DOMAIN d.sale = Sales /\ DOMAIN d.month = M!Revisions /\ DOMAIN d.request = Closers
         /\ d = [sale |-> d.sale, month |-> d.month, request |-> d.request]
         /\ d.sale \in [Sales -> [status : {"open", "completed", "cancelled"}]]
         /\ d.month \in [M!Revisions -> [status : {"absent", "closed", "reopened"},
                                         revenue : Nat]]
         /\ d.request \in [Closers -> [revision : Nat]]
         /\ \A r \in M!Revisions : d.month[r] \in [status : {"absent", "closed", "reopened"},
                                                   revenue : Nat]
BY DEF M!Databases

\* What a request sees is a database.
LEMMA MonthView ==
  ASSUME MonthIInv, NEW c \in M!Callers, M!Reads(c)
  PROVE  /\ M!View(c) \in M!Databases
         /\ \A r \in M!Revisions :
               M!View(c).month[r].status # "absent" => db.month[r].status # "absent"
BY DEF MonthIInv, M!TypeOK, M!View, M!Reads

\* What is the case when no revision is taken back, and the numbers found free are right.
LEMMA MonthWritten ==
  ASSUME MonthIInv, db' \in M!Databases,
         \A c \in Closers : snap'[c] \in {snap[c], db, NoSnapshot},
         snap' \in [Closers -> M!Databases \cup {NoSnapshot}],
         \A r \in M!Revisions :
             /\ db.month[r].status # "absent" =>
                   /\ db'.month[r].revenue = db.month[r].revenue
                   /\ db'.month[r].status # "absent"
                   /\ db.month[r].status = "reopened" => db'.month[r].status = "reopened"
             /\ db'.month[r].status # "absent" => \A q \in 1..r : db'.month[q].status # "absent",
         \A c \in Closers, q \in M!Revisions :
             q < db'.request[c].revision => db'.month[q].status # "absent"
  PROVE  MonthIInv' /\ M!KeepsRevisions
<1>1. M!KeepsRevisions
  BY DEF M!KeepsRevisions
<1>2. M!TypeOK'
  BY DEF M!TypeOK
<1>3. ASSUME NEW c \in Closers, snap'[c] # NoSnapshot, NEW r \in M!Revisions,
             snap'[c].month[r].status # "absent"
      PROVE  db'.month[r].status # "absent"
  <2>1. db.month[r].status # "absent"
    BY <1>3 DEF MonthIInv
  <2> QED
    BY <2>1
<1>4. \A r \in M!Revisions : db'.month[r].status # "absent" =>
         \A q \in 1..r : db'.month[q].status # "absent"
  OBVIOUS
<1>5. M!Revisions' = M!Revisions
  BY DEF M!Revisions
<1> QED
  BY <1>1, <1>2, <1>3, <1>4, <1>5 DEF MonthIInv

\* A database with one order replaced, one revision, or one request.
LEMMA MonthSets ==
  ASSUME NEW d \in M!Databases
  PROVE  /\ \A o \in Sales, doc \in [status : {"open", "completed", "cancelled"}] :
               LET e == [d EXCEPT !.sale[o] = doc]
               IN  e \in M!Databases /\ e.month = d.month /\ e.request = d.request
         /\ \A r \in M!Revisions,
               doc \in [status : {"absent", "closed", "reopened"}, revenue : Nat] :
               LET e == [d EXCEPT !.month[r] = doc]
               IN  /\ e \in M!Databases /\ e.sale = d.sale /\ e.request = d.request
                   /\ e.month[r] = doc /\ \A q \in M!Revisions \ {r} : e.month[q] = d.month[q]
         /\ \A c \in Closers, doc \in [revision : Nat] :
               LET e == [d EXCEPT !.request[c] = doc]
               IN  /\ e \in M!Databases /\ e.sale = d.sale /\ e.month = d.month
                   /\ e.request[c] = doc /\ \A b \in Closers \ {c} : e.request[b] = d.request[b]
<1>1. ASSUME NEW o \in Sales, NEW doc \in [status : {"open", "completed", "cancelled"}]
      PROVE  LET e == [d EXCEPT !.sale[o] = doc]
             IN  e \in M!Databases /\ e.month = d.month /\ e.request = d.request
  <2> DEFINE docs == [d.sale EXCEPT ![o] = doc]
             e == [d EXCEPT !.sale[o] = doc]
  <2>1. e = [d EXCEPT !.sale = docs]
    OBVIOUS
  <2>2. docs \in [Sales -> [status : {"open", "completed", "cancelled"}]]
    BY MonthRecord
  <2> HIDE DEF docs, e
  <2>3. [d EXCEPT !.sale = docs] = [sale |-> docs, month |-> d.month, request |-> d.request]
    BY MonthRecord
  <2>4. e \in M!Databases /\ e.month = d.month /\ e.request = d.request
    BY <2>1, <2>2, <2>3, MonthRecord DEF M!Databases
  <2> QED
    BY <2>4 DEF e
<1>2. ASSUME NEW r \in M!Revisions,
             NEW doc \in [status : {"absent", "closed", "reopened"}, revenue : Nat]
      PROVE  LET e == [d EXCEPT !.month[r] = doc]
             IN  /\ e \in M!Databases /\ e.sale = d.sale /\ e.request = d.request
                 /\ e.month[r] = doc /\ \A q \in M!Revisions \ {r} : e.month[q] = d.month[q]
  <2> DEFINE docs == [d.month EXCEPT ![r] = doc]
             e == [d EXCEPT !.month[r] = doc]
  <2>1. e = [d EXCEPT !.month = docs]
    OBVIOUS
  <2>2. /\ docs \in [M!Revisions -> [status : {"absent", "closed", "reopened"}, revenue : Nat]]
        /\ docs[r] = doc /\ \A q \in M!Revisions \ {r} : docs[q] = d.month[q]
    BY MonthRecord
  <2> HIDE DEF docs, e
  <2>3. [d EXCEPT !.month = docs] = [sale |-> d.sale, month |-> docs, request |-> d.request]
    BY MonthRecord
  <2>4. e \in M!Databases /\ e.sale = d.sale /\ e.request = d.request /\ e.month = docs
    BY <2>1, <2>2, <2>3, MonthRecord DEF M!Databases
  <2> QED
    BY <2>2, <2>4 DEF e
<1>3. ASSUME NEW c \in Closers, NEW doc \in [revision : Nat]
      PROVE  LET e == [d EXCEPT !.request[c] = doc]
             IN  /\ e \in M!Databases /\ e.sale = d.sale /\ e.month = d.month
                 /\ e.request[c] = doc /\ \A b \in Closers \ {c} : e.request[b] = d.request[b]
  <2> DEFINE docs == [d.request EXCEPT ![c] = doc]
             e == [d EXCEPT !.request[c] = doc]
  <2>1. e = [d EXCEPT !.request = docs]
    OBVIOUS
  <2>2. /\ docs \in [Closers -> [revision : Nat]]
        /\ docs[c] = doc /\ \A b \in Closers \ {c} : docs[b] = d.request[b]
    BY MonthRecord
  <2> HIDE DEF docs, e
  <2>3. [d EXCEPT !.request = docs] = [sale |-> d.sale, month |-> d.month, request |-> docs]
    BY MonthRecord
  <2>4. e \in M!Databases /\ e.sale = d.sale /\ e.month = d.month /\ e.request = docs
    BY <2>1, <2>2, <2>3, MonthRecord DEF M!Databases
  <2> QED
    BY <2>2, <2>4 DEF e
<1> QED
  BY <1>1, <1>2, <1>3

\* Where no revision is missing, as many are taken as the last one's number.
LEMMA MonthTaken ==
  ASSUME MonthIInv, NEW q \in M!Revisions,
         q < Cardinality({r \in M!Revisions : db.month[r].status # "absent"}) + 1
  PROVE  db.month[q].status # "absent"
<1> DEFINE taken == {r \in M!Revisions : db.month[r].status # "absent"}
<1>1. MaxRevisions \in Nat /\ q \in Nat \ {0}
  BY RestaurantAssumption DEF M!MonthAssumption, M!Revisions
<1>2. ASSUME db.month[q].status = "absent"
      PROVE  FALSE
  <2>1. taken \subseteq 1..(q - 1)
    <3>1. ASSUME NEW r \in taken
          PROVE  r \in 1..(q - 1)
      <4>1. r \in Nat \ {0} /\ ~(q \in 1..r)
        BY <1>1, <1>2 DEF MonthIInv, M!Revisions
      <4> QED
        BY <1>1, <4>1
    <3> QED
      BY <3>1
  <2> HIDE DEF taken
  <2>2. IsFiniteSet(1..(q - 1)) /\ Cardinality(1..(q - 1)) = q - 1
    <3>1. q - 1 \in Int /\ (1 > q - 1 => q - 1 = 0)
      BY <1>1
    <3> QED
      BY <1>1, <3>1, FS_Interval
  <2>3. Cardinality(taken) \in Nat /\ Cardinality(taken) <= q - 1
    BY <2>1, <2>2, FS_Subset, FS_CardinalityType
  <2>4. q < Cardinality(taken) + 1
    BY DEF taken
  <2> QED
    BY <1>1, <2>3, <2>4
<1> QED
  BY <1>2

\* Snapshots are dropped, or stay.
LEMMA MonthEnded ==
  ASSUME MonthIInv, NEW c, snap' = M!Ended(c) \/ snap' = snap
  PROVE  /\ \A b \in Closers : snap'[b] \in {snap[b], db, NoSnapshot}
         /\ snap' \in [Closers -> M!Databases \cup {NoSnapshot}]
BY DEF MonthIInv, M!TypeOK, M!Ended

\* Orders are settled, cancelled and reopened.
LEMMA MonthSettle ==
  ASSUME MonthIInv, NEW o \in Sales, NEW status \in {"open", "completed", "cancelled"},
         M!Settle(o, status)
  PROVE  MonthIInv' /\ M!KeepsRevisions
<1>1. db \in M!Databases
  BY DEF MonthIInv, M!TypeOK
<1>2. PICK doc : doc = [db.sale[o] EXCEPT !.status = status]
  OBVIOUS
<1>3. doc \in [status : {"open", "completed", "cancelled"}]
  <2>1. db.sale[o] \in [status : {"open", "completed", "cancelled"}]
    BY <1>1, MonthRecord
  <2> QED
    BY <1>2, <2>1
<1>4. db' = [db EXCEPT !.sale[o] = doc] /\ snap' = snap
  <2>1. db' = [db EXCEPT !.sale[o].status = status] /\ snap' = snap
    BY Zenon DEF M!Settle, M!Update
  <2> QED
    BY <1>2, <2>1, Zenon
<1>5. db' \in M!Databases /\ db'.month = db.month /\ db'.request = db.request
  BY <1>1, <1>3, <1>4, MonthSets
<1>6. \A r \in M!Revisions : db.month[r].status # "absent" =>
         \A q \in 1..r : db.month[q].status # "absent"
  BY DEF MonthIInv
<1>7. \A c \in Closers, q \in M!Revisions :
         q < db.request[c].revision => db.month[q].status # "absent"
  BY DEF MonthIInv
<1>8. /\ \A b \in Closers : snap'[b] \in {snap[b], db, NoSnapshot}
      /\ snap' \in [Closers -> M!Databases \cup {NoSnapshot}]
  BY <1>4, MonthEnded
<1> QED
  BY <1>5, <1>6, <1>7, <1>8, MonthWritten

\* A request finds the number of the next revision.
LEMMA MonthNext ==
  ASSUME MonthIInv, NEW c \in Closers, M!NextRevision(c)
  PROVE  MonthIInv' /\ M!KeepsRevisions
<1> DEFINE taken == {r \in M!Revisions : db.month[r].status # "absent"}
<1>1. db \in M!Databases
  BY DEF MonthIInv, M!TypeOK
<1>2. PICK n : n = Cardinality(taken) + 1
  OBVIOUS
<1>3. n \in Nat
  <2>1. IsFiniteSet(M!Revisions)
    BY RestaurantAssumption, FS_Interval DEF M!MonthAssumption, M!Revisions
  <2>2. Cardinality(taken) \in Nat
    BY <2>1, FS_Subset, FS_CardinalityType
  <2> HIDE DEF taken
  <2> QED
    BY <1>2, <2>2
<1>4. PICK doc : doc = [db.request[c] EXCEPT !.revision = n]
  OBVIOUS
<1>5. doc \in [revision : Nat] /\ doc.revision = n
  <2>1. db.request[c] \in [revision : Nat]
    BY <1>1, MonthRecord
  <2> QED
    BY <1>3, <1>4, <2>1
<1>6. db' = [db EXCEPT !.request[c] = doc] /\ snap' = snap
  <2>1. M!Cardinality(taken) = Cardinality(taken)
    BY Zenon DEF M!Cardinality, Cardinality
  <2>2. db' = [db EXCEPT !.request[c].revision = M!Cardinality(taken) + 1] /\ snap' = snap
    BY Zenon DEF M!NextRevision, M!Update
  <2> HIDE DEF taken
  <2> QED
    BY <1>2, <1>4, <2>1, <2>2, Zenon
<1>7. /\ db' \in M!Databases /\ db'.month = db.month /\ db'.request[c] = doc
      /\ \A b \in Closers \ {c} : db'.request[b] = db.request[b]
  BY <1>1, <1>5, <1>6, MonthSets
<1>8. \A r \in M!Revisions : db.month[r].status # "absent" =>
         \A q \in 1..r : db.month[q].status # "absent"
  BY DEF MonthIInv
<1>9. ASSUME NEW b \in Closers, NEW q \in M!Revisions, q < db'.request[b].revision
      PROVE  db'.month[q].status # "absent"
  <2>1. CASE b = c
    BY <1>2, <1>5, <1>7, <1>9, <2>1, MonthTaken
  <2>2. CASE b # c
    BY <1>7, <1>9, <2>2 DEF MonthIInv
  <2> QED
    BY <2>1, <2>2
<1>10. /\ \A b \in Closers : snap'[b] \in {snap[b], db, NoSnapshot}
       /\ snap' \in [Closers -> M!Databases \cup {NoSnapshot}]
  BY <1>6, MonthEnded
<1> QED
  BY <1>7, <1>8, <1>9, <1>10, MonthWritten

\* What orders come to is a number.
LEMMA MonthRevenue ==
  ASSUME NEW d
  PROVE  M!Revenue(d) \in Nat
<1> DEFINE done == {o \in Sales : d.sale[o].status = "completed"}
<1>1. IsFiniteSet(Sales)
  <2>1. M!IsFiniteSet(Sales)
    BY RestaurantAssumption DEF M!MonthAssumption
  <2> QED
    BY <2>1, Zenon DEF M!IsFiniteSet, IsFiniteSet
<1>2. Cardinality(done) \in Nat
  BY <1>1, FS_Subset, FS_CardinalityType
<1>3. M!Cardinality(done) = Cardinality(done)
  BY Zenon DEF M!Cardinality, Cardinality
<1> QED
  BY <1>2, <1>3 DEF M!Revenue

\* The revision is inserted.
LEMMA MonthClosed ==
  ASSUME MonthIInv, NEW c \in Closers, M!Close(c)
  PROVE  MonthIInv' /\ M!KeepsRevisions
<1>1. db \in M!Databases
  BY DEF MonthIInv, M!TypeOK
<1>2. PICK r : r = db.request[c].revision
  OBVIOUS
<1>3. PICK doc : doc = [status |-> "closed", revenue |-> M!Revenue(M!View(c))]
  OBVIOUS
<1>4. doc \in [status : {"absent", "closed", "reopened"}, revenue : Nat]
  BY <1>3, MonthRevenue
<1>5. PICK asked : asked = [db.request[c] EXCEPT !.revision = 0]
  OBVIOUS
<1>6. asked \in [revision : Nat] /\ asked.revision = 0
  <2>1. db.request[c] \in [revision : Nat]
    BY <1>1, MonthRecord
  <2> QED
    BY <1>5, <2>1
<1>7. PICK e : e = [db EXCEPT !.month[r] = doc]
  OBVIOUS
<1>8. /\ r \in M!Revisions /\ db.month[r].status = "absent"
      /\ db' = [db EXCEPT !.month[r] = [status |-> "closed", revenue |-> M!Revenue(M!View(c))],
                          !.request[c].revision = 0]
      /\ snap' = M!Ended(c)
  BY <1>2, Zenon DEF M!Close, M!RevisionFree
<1>9. /\ e \in M!Databases /\ e.request = db.request /\ e.month[r] = doc
      /\ \A q \in M!Revisions \ {r} : e.month[q] = db.month[q]
  BY <1>1, <1>4, <1>7, <1>8, MonthSets
<1>10. db' = [e EXCEPT !.request[c] = asked]
  <2>1. e.request[c] = db.request[c]
    BY <1>9
  <2> QED
    BY <1>3, <1>5, <1>7, <1>8, <2>1, Zenon
<1>11. /\ db' \in M!Databases /\ db'.month = e.month /\ db'.request[c] = asked
       /\ \A b \in Closers \ {c} : db'.request[b] = e.request[b]
  BY <1>6, <1>9, <1>10, MonthSets
<1>12. \A q \in M!Revisions : q < r => db.month[q].status # "absent"
  BY <1>2 DEF MonthIInv
<1>13. MaxRevisions \in Nat
  BY RestaurantAssumption DEF M!MonthAssumption
<1>14. \A q \in 1..r : q \in M!Revisions /\ (q < r \/ q = r)
  BY <1>8, <1>13 DEF M!Revisions
<1>15. doc.status = "closed"
  BY <1>3
<1>16. /\ db'.month[r] = doc /\ \A q \in M!Revisions \ {r} : db'.month[q] = db.month[q]
       /\ \A q \in M!Revisions : db.month[q].status # "absent" =>
             db'.month[q] = db.month[q] /\ db'.month[q].status # "absent"
  <2>1. db'.month[r] = doc /\ \A q \in M!Revisions \ {r} : db'.month[q] = db.month[q]
    BY <1>9, <1>11
  <2>2. ASSUME NEW q \in M!Revisions, db.month[q].status # "absent"
        PROVE  db'.month[q] = db.month[q]
    BY <1>8, <2>1, <2>2
  <2> QED
    BY <2>1, <2>2
<1>17. ASSUME NEW p \in M!Revisions, db'.month[p].status # "absent"
       PROVE  \A q \in 1..p : db'.month[q].status # "absent"
  <2>1. CASE p = r
    BY <1>12, <1>14, <1>15, <1>16, <2>1
  <2>2. CASE p # r
    <3>1. \A q \in 1..p : db.month[q].status # "absent"
      BY <1>16, <1>17, <2>2 DEF MonthIInv
    <3>2. \A q \in 1..p : q \in M!Revisions
      BY <1>13 DEF M!Revisions
    <3> QED
      BY <1>16, <3>1, <3>2
  <2> QED
    BY <2>1, <2>2
<1>18. ASSUME NEW b \in Closers, NEW q \in M!Revisions, q < db'.request[b].revision
       PROVE  db'.month[q].status # "absent"
  <2>1. CASE b = c
    <3>1. q \in Nat
      BY <1>13 DEF M!Revisions
    <3> QED
      BY <1>6, <1>11, <1>18, <2>1, <3>1
  <2>2. CASE b # c
    BY <1>9, <1>11, <1>16, <1>18, <2>2 DEF MonthIInv
  <2> QED
    BY <2>1, <2>2
<1>19. /\ \A b \in Closers : snap'[b] \in {snap[b], db, NoSnapshot}
       /\ snap' \in [Closers -> M!Databases \cup {NoSnapshot}]
  BY <1>8, MonthEnded
<1> QED
  BY <1>11, <1>16, <1>17, <1>18, <1>19, MonthWritten

\* A request to close is refused, and forgets what it read.
LEMMA MonthRefused ==
  ASSUME MonthIInv, NEW c \in Closers, M!CloseRefused(c)
  PROVE  MonthIInv' /\ M!KeepsRevisions
<1>1. db \in M!Databases
  BY DEF MonthIInv, M!TypeOK
<1>2. PICK asked : asked = [db.request[c] EXCEPT !.revision = 0]
  OBVIOUS
<1>3. asked \in [revision : Nat] /\ asked.revision = 0
  <2>1. db.request[c] \in [revision : Nat]
    BY <1>1, MonthRecord
  <2> QED
    BY <1>2, <2>1
<1>4. db' = [db EXCEPT !.request[c] = asked] /\ snap' = M!Ended(c)
  <2>1. db' = [db EXCEPT !.request[c].revision = 0] /\ snap' = M!Ended(c)
    BY Zenon DEF M!CloseRefused
  <2> QED
    BY <1>2, <2>1, Zenon
<1>5. /\ db' \in M!Databases /\ db'.month = db.month /\ db'.request[c] = asked
      /\ \A b \in Closers \ {c} : db'.request[b] = db.request[b]
  BY <1>1, <1>3, <1>4, MonthSets
<1>6. \A r \in M!Revisions : db.month[r].status # "absent" =>
         \A q \in 1..r : db.month[q].status # "absent"
  BY DEF MonthIInv
<1>7. ASSUME NEW b \in Closers, NEW q \in M!Revisions, q < db'.request[b].revision
      PROVE  db'.month[q].status # "absent"
  <2>1. q \in Nat \ {0}
    BY RestaurantAssumption DEF M!MonthAssumption, M!Revisions
  <2>2. b # c
    BY <1>3, <1>5, <1>7, <2>1
  <2> QED
    BY <1>5, <1>7, <2>2 DEF MonthIInv
<1>8. /\ \A b \in Closers : snap'[b] \in {snap[b], db, NoSnapshot}
      /\ snap' \in [Closers -> M!Databases \cup {NoSnapshot}]
  BY <1>4, MonthEnded
<1> QED
  BY <1>5, <1>6, <1>7, <1>8, MonthWritten

\* A month is reopened: the save sets a status, and nothing else.
LEMMA MonthReopens ==
  ASSUME MonthIInv, NEW c \in M!Callers, M!Reads(c), NEW r \in M!Revisions, M!Reopen(c, r)
  PROVE  MonthIInv' /\ M!KeepsRevisions
<1> DEFINE d == M!View(c)
<1>1. db \in M!Databases /\ d \in M!Databases
      /\ (d.month[r].status # "absent" => db.month[r].status # "absent")
  BY MonthView DEF MonthIInv, M!TypeOK
<1>2. PICK doc : doc = [d.month[r] EXCEPT !.status = "reopened"]
  OBVIOUS
<1>3. PICK new : new = [d EXCEPT !.month[r] = doc]
  OBVIOUS
<1>4. d.month[r].status = "closed" /\ M!Save(c, new)
  <2>1. d.month[r].status = "closed" /\ M!Save(c, [d EXCEPT !.month[r].status = "reopened"])
    BY Zenon DEF M!Reopen
  <2> QED
    BY <1>2, <1>3, <2>1, Zenon
<1>5. /\ db' = [coll \in DOMAIN db |-> [k \in DOMAIN db[coll] |->
                  IF new[coll][k] = d[coll][k] THEN db[coll][k]
                  ELSE [field \in DOMAIN db[coll][k] |->
                           IF new[coll][k][field] # d[coll][k][field]
                           THEN new[coll][k][field] ELSE db[coll][k][field]]]]
      /\ snap' = M!Ended(c)
  BY <1>4, Zenon DEF M!Save
<1> HIDE DEF d
<1>6. d.month[r] \in [status : {"absent", "closed", "reopened"}, revenue : Nat]
      /\ db.month[r] \in [status : {"absent", "closed", "reopened"}, revenue : Nat]
  BY <1>1, MonthRecord
<1>7. doc \in [status : {"absent", "closed", "reopened"}, revenue : Nat]
      /\ doc.status = "reopened" /\ doc.revenue = d.month[r].revenue
  BY <1>2, <1>6
<1>8. /\ new \in M!Databases /\ new.sale = d.sale /\ new.request = d.request
      /\ new.month[r] = doc /\ \A q \in M!Revisions \ {r} : new.month[q] = d.month[q]
  BY <1>1, <1>3, <1>7, MonthSets
<1>9. /\ DOMAIN db = {"sale", "month", "request"}
      /\ DOMAIN db.sale = Sales /\ DOMAIN db.month = M!Revisions /\ DOMAIN db.request = Closers
  BY <1>1, MonthRecord
<1>10. /\ DOMAIN db' = {"sale", "month", "request"}
       /\ db' = [coll \in {"sale", "month", "request"} |-> db'[coll]]
       /\ db'.sale = [k \in Sales |-> db.sale[k]]
       /\ db'.request = [k \in Closers |-> db.request[k]]
       /\ db'.month = [k \in M!Revisions |-> db'.month[k]]
  BY <1>5, <1>8, <1>9
<1>11. \A q \in M!Revisions \ {r} : db'.month[q] = db.month[q]
  BY <1>5, <1>8, <1>9
<1>12. db'.month[r] = [status |-> "reopened", revenue |-> db.month[r].revenue]
  <2>1. DOMAIN db.month[r] = {"status", "revenue"}
    BY <1>6
  <2>2. new.month[r] # d.month[r]
    BY <1>4, <1>7, <1>8
  <2>3. db'.month[r] = [field \in DOMAIN db.month[r] |->
                           IF new.month[r][field] # d.month[r][field]
                           THEN new.month[r][field] ELSE db.month[r][field]]
    BY <1>5, <1>9, <2>2
  <2>4. new.month[r].status # d.month[r].status /\ new.month[r].status = "reopened"
        /\ new.month[r].revenue = d.month[r].revenue
    BY <1>4, <1>7, <1>8
  <2> QED
    BY <2>1, <2>3, <2>4
<1>13. db' = [sale |-> db.sale, month |-> db'.month, request |-> db.request]
  <2>1. db.sale = [k \in Sales |-> db.sale[k]] /\ db.request = [k \in Closers |-> db.request[k]]
    BY <1>1, MonthRecord
  <2> QED
    BY <1>10, <2>1
<1>14. \A q \in M!Revisions :
          db'.month[q] \in [status : {"absent", "closed", "reopened"}, revenue : Nat]
  BY <1>1, <1>6, <1>11, <1>12, MonthRecord
<1>15. db'.month \in [M!Revisions -> [status : {"absent", "closed", "reopened"}, revenue : Nat]]
  BY <1>10, <1>14
<1>16. db' \in M!Databases
  BY <1>1, <1>13, <1>15, MonthRecord DEF M!Databases
<1>17. db.month[r].status # "absent"
  BY <1>1, <1>4
<1>18. \A q \in M!Revisions :
          /\ db.month[q].status # "absent" =>
                /\ db'.month[q].revenue = db.month[q].revenue
                /\ db'.month[q].status # "absent"
                /\ db.month[q].status = "reopened" => db'.month[q].status = "reopened"
          /\ db'.month[q].status # "absent" => db.month[q].status # "absent"
  BY <1>11, <1>12, <1>17
<1>19. ASSUME NEW p \in M!Revisions, db'.month[p].status # "absent"
       PROVE  \A q \in 1..p : db'.month[q].status # "absent"
  <2>1. \A q \in 1..p : db.month[q].status # "absent"
    BY <1>18, <1>19 DEF MonthIInv
  <2>2. \A q \in 1..p : q \in M!Revisions
    BY RestaurantAssumption DEF M!MonthAssumption, M!Revisions
  <2> QED
    BY <1>18, <2>1, <2>2
<1>20. ASSUME NEW b \in Closers, NEW q \in M!Revisions, q < db'.request[b].revision
       PROVE  db'.month[q].status # "absent"
  BY <1>10, <1>18, <1>20 DEF MonthIInv
<1>21. /\ \A b \in Closers : snap'[b] \in {snap[b], db, NoSnapshot}
       /\ snap' \in [Closers -> M!Databases \cup {NoSnapshot}]
  BY <1>5, MonthEnded
<1> QED
  BY <1>16, <1>18, <1>19, <1>20, <1>21, MonthWritten

\* Every step keeps the invariant, and the revisions.
LEMMA MonthStep ==
  ASSUME MonthIInv, M!Next
  PROVE  MonthIInv' /\ M!KeepsRevisions
<1>1. ASSUME NEW c \in Closers, M!Begin(c)
      PROVE  MonthIInv' /\ M!KeepsRevisions
  <2>1. db' = db /\ snap' = [snap EXCEPT ![c] = db]
    BY <1>1 DEF M!Begin
  <2>2. db \in M!Databases /\ snap \in [Closers -> M!Databases \cup {NoSnapshot}]
    BY DEF MonthIInv, M!TypeOK
  <2>3. /\ \A b \in Closers : snap'[b] \in {snap[b], db, NoSnapshot}
        /\ snap' \in [Closers -> M!Databases \cup {NoSnapshot}]
    BY <2>1, <2>2
  <2>4. /\ \A r \in M!Revisions : db.month[r].status # "absent" =>
              \A q \in 1..r : db.month[q].status # "absent"
        /\ \A b \in Closers, q \in M!Revisions :
              q < db.request[b].revision => db.month[q].status # "absent"
    BY DEF MonthIInv
  <2> QED
    BY <2>1, <2>2, <2>3, <2>4, MonthWritten
<1> QED
  BY <1>1, MonthRefused, MonthSettle, MonthNext, MonthClosed, MonthReopens DEF M!Next

\* At first nothing is closed.
LEMMA MonthInit ==
  ASSUME M!Init
  PROVE  MonthIInv
<1>1. /\ db = [sale |-> [o \in Sales |-> [status |-> "open"]],
               month |-> [r \in M!Revisions |-> [status |-> "absent", revenue |-> 0]],
               request |-> [c \in Closers |-> [revision |-> 0]]]
      /\ snap = [c \in Closers |-> NoSnapshot]
  BY DEF M!Init, M!OutsideTransactions
<1>2. M!TypeOK
  BY <1>1 DEF M!TypeOK, M!Databases
<1>3. \A q \in M!Revisions : q \in Nat
  BY RestaurantAssumption DEF M!MonthAssumption, M!Revisions
<1> QED
  BY <1>1, <1>2, <1>3 DEF MonthIInv

-------------------------------------------------------------------------------
(* The tax invoices.                                                       *)

\* The transactions are those of Snapshots.
LEMMA InvoicesSnapshots ==
  /\ \A c : T!View(c) = V!View(c) /\ (T!Reads(c) <=> V!Reads(c))
  /\ \A c : (T!Begin(c) <=> V!Begin(c)) /\ (T!End(c) <=> V!End(c)) /\ T!Ended(c) = V!Ended(c)
  /\ \A c, docs : T!Overtaken(c, docs) = V!Overtaken(c, docs)
  /\ \A old, new : T!Written(old, new) = V!Written(old, new)
  /\ \A c, new : T!Commit(c, new) <=> V!Commit(c, new)
  /\ \A c, new : T!Save(c, new) <=> V!Save(c, new)
  /\ T!Callers = V!Callers
<1>1. \A c : T!View(c) = V!View(c) /\ (T!Reads(c) <=> V!Reads(c))
  BY DEF T!View, V!View, T!Reads, V!Reads
<1>2. \A c : (T!Begin(c) <=> V!Begin(c)) /\ (T!End(c) <=> V!End(c)) /\ T!Ended(c) = V!Ended(c)
  BY DEF T!Begin, V!Begin, T!End, V!End, T!Ended, V!Ended
<1>3. \A c, docs : T!Overtaken(c, docs) = V!Overtaken(c, docs)
  BY DEF T!Overtaken, V!Overtaken
<1>4. \A old, new : T!Written(old, new) = V!Written(old, new)
  BY DEF T!Written, V!Written
<1>5. \A c, new : T!Commit(c, new) <=> V!Commit(c, new)
  BY DEF T!Commit, V!Commit, T!NoConflict, V!NoConflict, T!View, V!View, T!Written, V!Written,
     T!Ended, V!Ended, T!Overtaken, V!Overtaken
<1>6. \A c, new : T!Save(c, new) <=> V!Save(c, new)
  BY DEF T!Save, V!Save, T!View, V!View, T!Written, V!Written, T!Ended, V!Ended,
     T!Overtaken, V!Overtaken
<1>7. T!Callers = V!Callers
  BY DEF T!Callers, V!Callers
<1> QED
  BY <1>1, <1>2, <1>3, <1>4, <1>5, <1>6, <1>7

\* What a request sees is a database.
LEMMA InvoicesView ==
  ASSUME T!TypeOK, NEW c \in T!Callers, T!Reads(c)
  PROVE  T!View(c) \in T!Databases
BY DEF T!TypeOK, T!View, T!Reads

\* A database is its three collections.
LEMMA InvoicesRecord ==
  ASSUME NEW d \in T!Databases
  PROVE  /\ DOMAIN d = {"order", "counter", "profile"}
         /\ DOMAIN d.order = Checks /\ DOMAIN d.counter = {"value"} /\ DOMAIN d.profile = {"seller"}
         /\ d = [order |-> d.order, counter |-> d.counter, profile |-> d.profile]
         /\ d.order \in [Checks -> T!OrderDocs]
         /\ d.counter \in [{"value"} -> [value : Nat]]
         /\ d.profile \in [{"seller"} -> [pan : Sellers \cup {NoSeller}]]
         /\ \A doc \in Checks : d.order[doc] \in T!OrderDocs
         /\ \A doc \in {"value"} : d.counter[doc] \in [value : Nat]
         /\ \A doc \in {"seller"} : d.profile[doc] \in [pan : Sellers \cup {NoSeller}]
BY DEF T!Databases

\* Documents of their kinds make a database.
LEMMA InvoicesOf ==
  ASSUME NEW d, NEW e \in T!Databases,
         d = [coll \in DOMAIN e |-> d[coll]],
         \A coll \in DOMAIN e : d[coll] = [doc \in DOMAIN e[coll] |-> d[coll][doc]],
         \A doc \in Checks : d.order[doc] \in T!OrderDocs,
         \A doc \in {"value"} : d.counter[doc] \in [value : Nat],
         \A doc \in {"seller"} : d.profile[doc] \in [pan : Sellers \cup {NoSeller}]
  PROVE  d \in T!Databases
<1>1. /\ DOMAIN e = {"order", "counter", "profile"}
      /\ DOMAIN e.order = Checks /\ DOMAIN e.counter = {"value"} /\ DOMAIN e.profile = {"seller"}
  BY InvoicesRecord
<1>2. d = [order |-> d.order, counter |-> d.counter, profile |-> d.profile]
  BY <1>1
<1>3. d.order \in [Checks -> T!OrderDocs]
  <2>1. d.order = [doc \in Checks |-> d.order[doc]]
    BY <1>1
  <2> QED
    BY <2>1
<1>4. d.counter \in [{"value"} -> [value : Nat]]
  <2>1. d.counter = [doc \in {"value"} |-> d.counter[doc]]
    BY <1>1
  <2> QED
    BY <2>1
<1>5. d.profile \in [{"seller"} -> [pan : Sellers \cup {NoSeller}]]
  <2>1. d.profile = [doc \in {"seller"} |-> d.profile[doc]]
    BY <1>1
  <2> QED
    BY <2>1
<1> QED
  BY <1>2, <1>3, <1>4, <1>5 DEF T!Databases

\* What a commit makes of the collections.
LEMMA InvoicesCommit ==
  ASSUME T!TypeOK, Tracked, NEW c \in T!Callers, T!Reads(c), NEW new \in T!Databases,
         T!Commit(c, new)
  PROVE  /\ T!TypeOK' /\ snap' = V!Ended(c) /\ behind' = V!Overtaken(c, V!Written(T!View(c), new))
         /\ Tracked'
         /\ \A doc \in Checks :
               IF new.order[doc] = T!View(c).order[doc] THEN db'.order[doc] = db.order[doc]
               ELSE db'.order[doc] = new.order[doc] /\ T!View(c).order[doc] = db.order[doc]
         /\ \A doc \in {"value"} :
               IF new.counter[doc] = T!View(c).counter[doc] THEN db'.counter[doc] = db.counter[doc]
               ELSE db'.counter[doc] = new.counter[doc] /\ T!View(c).counter[doc] = db.counter[doc]
         /\ \A doc \in {"seller"} :
               IF new.profile[doc] = T!View(c).profile[doc] THEN db'.profile[doc] = db.profile[doc]
               ELSE db'.profile[doc] = new.profile[doc] /\ T!View(c).profile[doc] = db.profile[doc]
<1> DEFINE read == T!View(c)
<1>1. /\ db \in T!Databases /\ read \in T!Databases
      /\ V!Commit(c, new) /\ read = V!View(c) /\ c \in V!Callers /\ V!Reads(c)
  BY InvoicesSnapshots, InvoicesView DEF T!TypeOK
<1>2. Alike(new, db) /\ Alike(read, db)
  BY <1>1, InvoicesRecord DEF Alike
<1>3. /\ Tracked'
      /\ \A coll \in DOMAIN db : \A doc \in DOMAIN db[coll] :
            IF new[coll][doc] = read[coll][doc] THEN db'[coll][doc] = db[coll][doc]
            ELSE db'[coll][doc] = new[coll][doc] /\ read[coll][doc] = db[coll][doc]
  <2> HIDE DEF read
  <2> QED
    BY <1>1, <1>2, CommitWrites
<1>4. /\ DOMAIN db = {"order", "counter", "profile"}
      /\ DOMAIN db.order = Checks /\ DOMAIN db.counter = {"value"} /\ DOMAIN db.profile = {"seller"}
  BY <1>1, InvoicesRecord
<1>5. /\ db' = [coll \in DOMAIN db |-> db'[coll]]
      /\ \A coll \in DOMAIN db : db'[coll] = [doc \in DOMAIN db[coll] |-> db'[coll][doc]]
      /\ snap' = V!Ended(c) /\ behind' = V!Overtaken(c, V!Written(read, new))
  BY <1>1 DEF V!Commit
<1> HIDE DEF read
<1>6. \A doc \in Checks : db'.order[doc] \in T!OrderDocs
  BY <1>1, <1>3, <1>4, InvoicesRecord
<1>7. \A doc \in {"value"} : db'.counter[doc] \in [value : Nat]
  BY <1>1, <1>3, <1>4, InvoicesRecord
<1>8. \A doc \in {"seller"} : db'.profile[doc] \in [pan : Sellers \cup {NoSeller}]
  BY <1>1, <1>3, <1>4, InvoicesRecord
<1>9. db' \in T!Databases
  BY <1>1, <1>5, <1>6, <1>7, <1>8, InvoicesOf
<1>10. snap' \in [Clients -> T!Databases \cup {NoSnapshot}]
  BY <1>5 DEF V!Ended, T!TypeOK
<1>11. T!TypeOK'
  BY <1>9, <1>10 DEF T!TypeOK
<1>12. \A doc \in Checks :
          IF new.order[doc] = read.order[doc] THEN db'.order[doc] = db.order[doc]
          ELSE db'.order[doc] = new.order[doc] /\ read.order[doc] = db.order[doc]
  BY <1>3, <1>4
<1>13. \A doc \in {"value"} :
          IF new.counter[doc] = read.counter[doc] THEN db'.counter[doc] = db.counter[doc]
          ELSE db'.counter[doc] = new.counter[doc] /\ read.counter[doc] = db.counter[doc]
  BY <1>3, <1>4
<1>14. \A doc \in {"seller"} :
          IF new.profile[doc] = read.profile[doc] THEN db'.profile[doc] = db.profile[doc]
          ELSE db'.profile[doc] = new.profile[doc] /\ read.profile[doc] = db.profile[doc]
  BY <1>3, <1>4
<1> QED
  BY <1>3, <1>5, <1>11, <1>12, <1>13, <1>14 DEF read

\* A database with another order collection, or one document of it replaced.
LEMMA InvoicesOrderSet ==
  ASSUME NEW d \in T!Databases
  PROVE  /\ \A docs \in [Checks -> T!OrderDocs] :
               LET e == [d EXCEPT !.order = docs]
               IN  /\ e \in T!Databases /\ e.order = docs
                   /\ e.counter = d.counter /\ e.profile = d.profile
         /\ \A k \in Checks, doc \in T!OrderDocs :
               LET e == [d EXCEPT !.order[k] = doc]
               IN  /\ e \in T!Databases /\ e.counter = d.counter /\ e.profile = d.profile
                   /\ e.order = [d.order EXCEPT ![k] = doc] /\ e.order[k] = doc
                   /\ \A i \in Checks \ {k} : e.order[i] = d.order[i]
<1>1. ASSUME NEW docs \in [Checks -> T!OrderDocs]
      PROVE  LET e == [d EXCEPT !.order = docs]
             IN  /\ e \in T!Databases /\ e.order = docs
                 /\ e.counter = d.counter /\ e.profile = d.profile
  <2>1. [d EXCEPT !.order = docs] = [order |-> docs, counter |-> d.counter, profile |-> d.profile]
    BY InvoicesRecord
  <2> QED
    BY <2>1, InvoicesRecord DEF T!Databases
<1>2. ASSUME NEW k \in Checks, NEW doc \in T!OrderDocs
      PROVE  LET e == [d EXCEPT !.order[k] = doc]
             IN  /\ e \in T!Databases /\ e.counter = d.counter /\ e.profile = d.profile
                 /\ e.order = [d.order EXCEPT ![k] = doc] /\ e.order[k] = doc
                 /\ \A i \in Checks \ {k} : e.order[i] = d.order[i]
  <2> DEFINE docs == [d.order EXCEPT ![k] = doc]
             e == [d EXCEPT !.order[k] = doc]
  <2>1. e = [d EXCEPT !.order = docs]
    OBVIOUS
  <2>2. /\ docs \in [Checks -> T!OrderDocs] /\ docs[k] = doc
        /\ \A i \in Checks \ {k} : docs[i] = d.order[i]
    BY InvoicesRecord
  <2> HIDE DEF docs, e
  <2>3. e \in T!Databases /\ e.order = docs /\ e.counter = d.counter /\ e.profile = d.profile
    BY <1>1, <2>1, <2>2
  <2> QED
    BY <2>2, <2>3 DEF docs, e
<1> QED
  BY <1>1, <1>2

\* A database with another counter collection, or one document of it replaced.
LEMMA InvoicesCounterSet ==
  ASSUME NEW d \in T!Databases
  PROVE  /\ \A docs \in [{"value"} -> [value : Nat]] :
               LET e == [d EXCEPT !.counter = docs]
               IN  /\ e \in T!Databases /\ e.counter = docs
                   /\ e.order = d.order /\ e.profile = d.profile
         /\ \A k \in {"value"}, doc \in [value : Nat] :
               LET e == [d EXCEPT !.counter[k] = doc]
               IN  /\ e \in T!Databases /\ e.order = d.order /\ e.profile = d.profile
                   /\ e.counter = [d.counter EXCEPT ![k] = doc] /\ e.counter[k] = doc
                   /\ \A i \in {"value"} \ {k} : e.counter[i] = d.counter[i]
<1>1. ASSUME NEW docs \in [{"value"} -> [value : Nat]]
      PROVE  LET e == [d EXCEPT !.counter = docs]
             IN  e \in T!Databases /\ e.counter = docs /\ e.order = d.order /\ e.profile = d.profile
  <2>1. [d EXCEPT !.counter = docs] = [order |-> d.order, counter |-> docs, profile |-> d.profile]
    BY InvoicesRecord
  <2> QED
    BY <2>1, InvoicesRecord DEF T!Databases
<1>2. ASSUME NEW k \in {"value"}, NEW doc \in [value : Nat]
      PROVE  LET e == [d EXCEPT !.counter[k] = doc]
             IN  /\ e \in T!Databases /\ e.order = d.order /\ e.profile = d.profile
                 /\ e.counter = [d.counter EXCEPT ![k] = doc] /\ e.counter[k] = doc
                 /\ \A i \in {"value"} \ {k} : e.counter[i] = d.counter[i]
  <2> DEFINE docs == [d.counter EXCEPT ![k] = doc]
             e == [d EXCEPT !.counter[k] = doc]
  <2>1. e = [d EXCEPT !.counter = docs]
    OBVIOUS
  <2>2. /\ docs \in [{"value"} -> [value : Nat]] /\ docs[k] = doc
        /\ \A i \in {"value"} \ {k} : docs[i] = d.counter[i]
    BY InvoicesRecord
  <2> HIDE DEF docs, e
  <2>3. e \in T!Databases /\ e.counter = docs /\ e.order = d.order /\ e.profile = d.profile
    BY <1>1, <2>1, <2>2
  <2> QED
    BY <2>2, <2>3 DEF docs, e
<1> QED
  BY <1>1, <1>2

\* A database with another profile collection, or one document of it replaced.
LEMMA InvoicesProfileSet ==
  ASSUME NEW d \in T!Databases
  PROVE  /\ \A docs \in [{"seller"} -> [pan : Sellers \cup {NoSeller}]] :
               LET e == [d EXCEPT !.profile = docs]
               IN  /\ e \in T!Databases /\ e.profile = docs
                   /\ e.order = d.order /\ e.counter = d.counter
         /\ \A k \in {"seller"}, doc \in [pan : Sellers \cup {NoSeller}] :
               LET e == [d EXCEPT !.profile[k] = doc]
               IN  /\ e \in T!Databases /\ e.order = d.order /\ e.counter = d.counter
                   /\ e.profile = [d.profile EXCEPT ![k] = doc] /\ e.profile[k] = doc
                   /\ \A i \in {"seller"} \ {k} : e.profile[i] = d.profile[i]
<1>1. ASSUME NEW docs \in [{"seller"} -> [pan : Sellers \cup {NoSeller}]]
      PROVE  LET e == [d EXCEPT !.profile = docs]
             IN  e \in T!Databases /\ e.profile = docs /\ e.order = d.order /\ e.counter = d.counter
  <2>1. [d EXCEPT !.profile = docs] = [order |-> d.order, counter |-> d.counter, profile |-> docs]
    BY InvoicesRecord
  <2> QED
    BY <2>1, InvoicesRecord DEF T!Databases
<1>2. ASSUME NEW k \in {"seller"}, NEW doc \in [pan : Sellers \cup {NoSeller}]
      PROVE  LET e == [d EXCEPT !.profile[k] = doc]
             IN  /\ e \in T!Databases /\ e.order = d.order /\ e.counter = d.counter
                 /\ e.profile = [d.profile EXCEPT ![k] = doc] /\ e.profile[k] = doc
                 /\ \A i \in {"seller"} \ {k} : e.profile[i] = d.profile[i]
  <2> DEFINE docs == [d.profile EXCEPT ![k] = doc]
             e == [d EXCEPT !.profile[k] = doc]
  <2>1. e = [d EXCEPT !.profile = docs]
    OBVIOUS
  <2>2. /\ docs \in [{"seller"} -> [pan : Sellers \cup {NoSeller}]] /\ docs[k] = doc
        /\ \A i \in {"seller"} \ {k} : docs[i] = d.profile[i]
    BY InvoicesRecord
  <2> HIDE DEF docs, e
  <2>3. e \in T!Databases /\ e.profile = docs /\ e.order = d.order /\ e.counter = d.counter
    BY <1>1, <2>1, <2>2
  <2> QED
    BY <2>2, <2>3 DEF docs, e
<1> QED
  BY <1>1, <1>2

\* No order has a number that the counter has not reached, and an order that exists comes
\* to something.
InvoicesIInv ==
    /\ T!TypeOK
    /\ Tracked
    /\ \A k \in Checks : /\ db.order[k].invoiceNo <= db.counter["value"].value
                         /\ db.order[k].status # "absent" => db.order[k].total > 0

\* The properties of a step.
InvoicesKept == T!NumberedInSequence /\ T!CancellationVoids

\* The fields of an order and the counter.
LEMMA InvoicesFields ==
  ASSUME NEW d \in T!Databases
  PROVE  /\ \A k \in Checks : /\ d.order[k] \in T!OrderDocs
                              /\ d.order[k].total \in Nat /\ d.order[k].invoiceNo \in Nat
                              /\ d.order[k].invoicedTotal \in Nat
                              /\ d.order[k].printCount \in Nat /\ d.order[k].voided \in BOOLEAN
         /\ d.counter["value"] \in [value : Nat] /\ d.counter["value"].value \in Nat
         /\ d.profile["seller"].pan \in Sellers \cup {NoSeller}
<1>1. \A doc \in T!OrderDocs : /\ doc.total \in Nat /\ doc.invoiceNo \in Nat
                               /\ doc.invoicedTotal \in Nat
                               /\ doc.printCount \in Nat /\ doc.voided \in BOOLEAN
  BY DEF T!OrderDocs
<1>2. \A k \in Checks : d.order[k] \in T!OrderDocs
  BY InvoicesRecord
<1>3. /\ d.counter["value"] \in [value : Nat]
      /\ d.profile["seller"] \in [pan : Sellers \cup {NoSeller}]
  BY InvoicesRecord
<1> QED
  BY <1>1, <1>2, <1>3

\* The number of elements is that of FiniteSets.
LEMMA InvoicesCardinality == \A set : T!Cardinality(set) = Cardinality(set)
BY Zenon DEF T!Cardinality, Cardinality

\* A transaction that gives no number, or one order the next.
LEMMA InvoicesWritten ==
  ASSUME InvoicesIInv, NEW c \in T!Callers, T!Reads(c), NEW new \in T!Databases,
         T!SaveOrders(c, new), NEW given \in SUBSET Checks,
         \A k \in Checks : /\ new.order[k].status # "absent" =>
                                 \/ new.order[k].total > 0
                                 \/ /\ T!View(c).order[k].status # "absent"
                                    /\ new.order[k].total = T!View(c).order[k].total
                           /\ new.order[k].invoiceNo > 0 =>
                                 k \in given \/ T!View(c).order[k].invoiceNo > 0
                           /\ T!View(c).order[k].invoiceNo > 0 /\ T!View(c).order[k].voided =>
                                 new.order[k].voided,
         \A k \in given :
             /\ given = {k} /\ T!View(c).order[k].invoiceNo = 0
             /\ new.counter["value"].value = T!View(c).counter["value"].value + 1
             /\ new.order[k].invoiceNo = new.counter["value"].value
             /\ new.order[k].invoicedTotal = T!View(c).order[k].total,
         given = {} => new.counter["value"] = T!View(c).counter["value"],
         \A k \in Checks :
            T!View(c).order[k].status = "open" /\ new.order[k].status = "cancelled"
            /\ new.order[k].invoiceNo > 0 /\ T!View(c).order[k] = db.order[k]
               => \/ new.order[k].voided
                  \/ \E other \in Checks :
                        new.order[other].total # T!View(c).order[other].total
  PROVE  InvoicesIInv' /\ InvoicesKept
<1> DEFINE d == T!View(c)
<1>1. db \in T!Databases /\ d \in T!Databases
  BY InvoicesView DEF InvoicesIInv, T!TypeOK
<1>2. T!Commit(c, new) /\ \A k \in Checks : T!Frozen(d.order[k], new.order[k])
  BY Zenon DEF T!SaveOrders
<1>3. /\ T!TypeOK' /\ Tracked'
      /\ \A k \in Checks : IF new.order[k] = d.order[k] THEN db'.order[k] = db.order[k]
                           ELSE db'.order[k] = new.order[k] /\ d.order[k] = db.order[k]
      /\ \A v \in {"value"} :
            IF new.counter[v] = d.counter[v] THEN db'.counter[v] = db.counter[v]
            ELSE db'.counter[v] = new.counter[v] /\ d.counter[v] = db.counter[v]
  BY <1>2, InvoicesCommit DEF InvoicesIInv
<1>4. \A k \in Checks : /\ new.order[k].status # "absent" =>
                              \/ new.order[k].total > 0
                              \/ /\ d.order[k].status # "absent"
                                 /\ new.order[k].total = d.order[k].total
                        /\ new.order[k].invoiceNo > 0 => k \in given \/ d.order[k].invoiceNo > 0
                        /\ d.order[k].invoiceNo > 0 /\ d.order[k].voided => new.order[k].voided
  OBVIOUS
<1>5. \A k \in given :
          /\ given = {k} /\ d.order[k].invoiceNo = 0
          /\ new.counter["value"].value = d.counter["value"].value + 1
          /\ new.order[k].invoiceNo = new.counter["value"].value
          /\ new.order[k].invoicedTotal = d.order[k].total
  OBVIOUS
<1>6. given = {} => new.counter["value"] = d.counter["value"]
  OBVIOUS
<1>7. \A k \in Checks :
         d.order[k].status = "open" /\ new.order[k].status = "cancelled"
         /\ new.order[k].invoiceNo > 0 /\ d.order[k] = db.order[k]
            => \/ new.order[k].voided
               \/ \E other \in Checks : new.order[other].total # d.order[other].total
  OBVIOUS
<1> HIDE DEF d
<1>8. db' \in T!Databases
  BY <1>3 DEF T!TypeOK
<1>9. \A e \in T!Databases : /\ e.counter["value"].value \in Nat
                             /\ \A k \in Checks : /\ e.order[k].invoiceNo \in Nat
                                                  /\ e.order[k].printCount \in Nat
  BY InvoicesFields
<1>10. /\ \A k \in Checks :
             \/ db'.order[k] = db.order[k]
             \/ db'.order[k] = new.order[k] /\ d.order[k] = db.order[k]
       /\ given = {} => db'.counter["value"] = db.counter["value"]
       /\ given # {} => db'.counter["value"].value = db.counter["value"].value + 1
       /\ \A k \in given : /\ given = {k} /\ db.order[k].invoiceNo = 0
                           /\ db'.order[k].invoiceNo = db.counter["value"].value + 1
                           /\ db'.order[k].invoicedTotal = db.order[k].total
  <2>1. \A k \in Checks :
           \/ db'.order[k] = db.order[k]
           \/ db'.order[k] = new.order[k] /\ d.order[k] = db.order[k]
    BY <1>3
  <2>2. given = {} => db'.counter["value"] = db.counter["value"]
    BY <1>3, <1>6
  <2>3. ASSUME NEW k \in given
        PROVE  /\ db'.counter["value"].value = db.counter["value"].value + 1
               /\ given = {k} /\ db.order[k].invoiceNo = 0
               /\ db'.order[k].invoiceNo = db.counter["value"].value + 1
               /\ db'.order[k].invoicedTotal = db.order[k].total
    <3>1. d.counter["value"].value \in Nat /\ d.order[k].invoiceNo = 0
      BY <1>1, <1>5, <1>9
    <3>2. new.counter["value"] # d.counter["value"]
      BY <1>5, <3>1
    <3>3. db'.counter["value"] = new.counter["value"] /\ d.counter["value"] = db.counter["value"]
      BY <1>3, <3>2
    <3>4. new.order[k] # d.order[k]
      BY <1>5, <3>1
    <3>5. db'.order[k] = new.order[k] /\ d.order[k] = db.order[k]
      BY <1>3, <3>4
    <3> QED
      BY <1>5, <3>3, <3>5
  <2> QED
    BY <2>1, <2>2, <2>3
<1>11. \A k \in Checks : /\ db'.order[k].invoiceNo <= db'.counter["value"].value
                         /\ db'.order[k].status # "absent" => db'.order[k].total > 0
  <2> SUFFICES ASSUME NEW k \in Checks
               PROVE  /\ db'.order[k].invoiceNo <= db'.counter["value"].value
                      /\ db'.order[k].status # "absent" => db'.order[k].total > 0
    OBVIOUS
  <2>1. db'.order[k].status # "absent" => db'.order[k].total > 0
    BY <1>4, <1>10 DEF InvoicesIInv
  <2>2. db.counter["value"].value <= db'.counter["value"].value
    BY <1>1, <1>9, <1>10
  <2>3. CASE k \in given
    BY <1>1, <1>8, <1>9, <1>10, <2>1, <2>3
  <2>4. CASE k \notin given
    <3>1. db'.order[k].invoiceNo = db.order[k].invoiceNo \/ db'.order[k].invoiceNo = 0
      <4>1. CASE db'.order[k] = new.order[k] /\ d.order[k] = db.order[k]
        <5>1. CASE d.order[k].invoiceNo > 0
          BY <1>2, <4>1, <5>1 DEF T!Frozen
        <5>2. CASE ~(d.order[k].invoiceNo > 0)
          <6>1. ~(new.order[k].invoiceNo > 0) /\ new.order[k].invoiceNo \in Nat
            BY <1>4, <1>9, <2>4, <5>2
          <6> QED
            BY <4>1, <6>1
        <5> QED
          BY <5>1, <5>2
      <4> QED
        BY <1>10, <4>1
    <3>2. /\ db.order[k].invoiceNo <= db.counter["value"].value
          /\ db.order[k].invoiceNo \in Nat /\ db.counter["value"].value \in Nat
          /\ db'.counter["value"].value \in Nat
      BY <1>1, <1>8, <1>9 DEF InvoicesIInv
    <3> QED
      BY <2>1, <2>2, <3>1, <3>2
  <2> QED
    BY <2>1, <2>3, <2>4
<1>12. InvoicesIInv'
  BY <1>3, <1>11 DEF InvoicesIInv
<1>13. \A k \in Checks : T!Frozen(db.order[k], db'.order[k])
  BY <1>1, <1>2, <1>9, <1>10 DEF T!Frozen
<1>14. T!Invoiced(db) \subseteq T!Invoiced(db')
  BY <1>13 DEF T!Invoiced, T!Frozen
<1>15. T!Invoiced(db') \ T!Invoiced(db) = given
  <2>1. ASSUME NEW k \in given
        PROVE  k \in T!Invoiced(db') \ T!Invoiced(db)
    BY <1>1, <1>9, <1>10, <2>1 DEF T!Invoiced
  <2>2. ASSUME NEW k \in T!Invoiced(db') \ T!Invoiced(db)
        PROVE  k \in given
    <3>1. k \in Checks /\ db'.order[k].invoiceNo > 0 /\ ~(db.order[k].invoiceNo > 0)
      BY DEF T!Invoiced
    <3> QED
      BY <1>4, <1>10, <3>1
  <2> QED
    BY <2>1, <2>2
<1>16. T!Cardinality(given) = db'.counter["value"].value - db.counter["value"].value
  <2>1. CASE given = {}
    <3>1. T!Cardinality({}) = 0
      BY InvoicesCardinality, FS_EmptySet
    <3> QED
      BY <1>1, <1>9, <1>10, <2>1, <3>1
  <2>2. CASE given # {}
    <3>1. PICK k \in given : given = {k}
      BY <1>10, <2>2
    <3>2. T!Cardinality({k}) = 1
      BY InvoicesCardinality, FS_Singleton
    <3> QED
      BY <1>1, <1>9, <1>10, <2>2, <3>1, <3>2
  <2> QED
    BY <2>1, <2>2
<1>17. \A k \in given, other \in T!Invoiced(db) :
          db.order[other].invoiceNo # db'.order[k].invoiceNo
  <2> SUFFICES ASSUME NEW k \in given, NEW other \in T!Invoiced(db)
               PROVE  db.order[other].invoiceNo # db'.order[k].invoiceNo
    OBVIOUS
  <2>1. other \in Checks
    BY DEF T!Invoiced
  <2>2. db.order[other].invoiceNo <= db.counter["value"].value
    BY <2>1 DEF InvoicesIInv
  <2> QED
    BY <1>1, <1>9, <1>10, <2>1, <2>2
<1>18. \A k \in T!Invoiced(db) : db.order[k].voided => db'.order[k].voided
  BY <1>4, <1>10 DEF T!Invoiced
<1>19. \A k \in given : /\ db'.order[k].invoiceNo = db.counter["value"].value + 1
                        /\ db'.order[k].invoicedTotal = db.order[k].total
  BY <1>10
<1>20. \A k \in T!Invoiced(db) : k \in Checks
  BY DEF T!Invoiced
<1>21. T!NumberedInSequence
  BY <1>13, <1>14, <1>15, <1>16, <1>17, <1>18, <1>19, <1>20 DEF T!NumberedInSequence
<1>22. T!CancellationVoids
  <2> SUFFICES ASSUME NEW k \in T!Invoiced(db'), db.order[k].status = "open",
                      db'.order[k].status = "cancelled",
                      \A other \in Checks : db'.order[other].total = db.order[other].total
               PROVE  db'.order[k].voided
    BY DEF T!CancellationVoids
  <2>1. k \in Checks /\ db'.order[k].invoiceNo > 0
    BY DEF T!Invoiced
  <2>2. db'.order[k] = new.order[k] /\ d.order[k] = db.order[k]
    BY <1>10, <2>1
  <2>3. ~ \E other \in Checks : new.order[other].total # d.order[other].total
    BY <1>3
  <2> QED
    BY <1>7, <2>1, <2>2, <2>3
<1> QED
  BY <1>12, <1>21, <1>22 DEF InvoicesKept

\* A transaction that writes one order and gives it no number.
LEMMA InvoicesOrder ==
  ASSUME InvoicesIInv, NEW c \in T!Callers, T!Reads(c), NEW k \in Checks,
         NEW doc \in T!OrderDocs,
         T!SaveOrders(c, [T!View(c) EXCEPT !.order[k] = doc]),
         doc.status # "absent" => T!View(c).order[k].status # "absent",
         doc.total = T!View(c).order[k].total, doc.invoiceNo = T!View(c).order[k].invoiceNo,
         T!View(c).order[k].invoiceNo > 0 /\ T!View(c).order[k].voided => doc.voided,
         T!View(c).order[k].status = "open" /\ doc.status = "cancelled" /\ doc.invoiceNo > 0
            => doc.voided
  PROVE  InvoicesIInv' /\ InvoicesKept
<1> DEFINE d == T!View(c)
<1>1. d \in T!Databases
  BY InvoicesView DEF InvoicesIInv
<1>2. PICK new : new = [d EXCEPT !.order[k] = doc]
  OBVIOUS
<1>3. T!SaveOrders(c, new)
  BY <1>2, Zenon
<1>4. /\ doc.status # "absent" => d.order[k].status # "absent"
      /\ doc.total = d.order[k].total
      /\ doc.invoiceNo = d.order[k].invoiceNo
      /\ d.order[k].invoiceNo > 0 /\ d.order[k].voided => doc.voided
  OBVIOUS
<1>5. d.order[k].status = "open" /\ doc.status = "cancelled" /\ doc.invoiceNo > 0 => doc.voided
  OBVIOUS
<1> HIDE DEF d
<1>6. /\ new \in T!Databases /\ new.counter = d.counter /\ new.order[k] = doc
      /\ \A i \in Checks \ {k} : new.order[i] = d.order[i]
  BY <1>1, <1>2, InvoicesOrderSet
<1>7. \A i \in Checks : /\ new.order[i].status # "absent" =>
                              \/ new.order[i].total > 0
                              \/ /\ d.order[i].status # "absent"
                                 /\ new.order[i].total = d.order[i].total
                        /\ new.order[i].invoiceNo > 0 => i \in {} \/ d.order[i].invoiceNo > 0
                        /\ d.order[i].invoiceNo > 0 /\ d.order[i].voided => new.order[i].voided
  BY <1>4, <1>6
<1>8. \A i \in Checks :
         d.order[i].status = "open" /\ new.order[i].status = "cancelled"
         /\ new.order[i].invoiceNo > 0 => new.order[i].voided
  BY <1>5, <1>6
<1>9. new.counter["value"] = d.counter["value"] /\ {} \in SUBSET Checks
  BY <1>6
<1> QED
  BY <1>3, <1>6, <1>7, <1>8, <1>9, InvoicesWritten DEF d

\* getReceipt, for an order that was printed before.
LEMMA InvoicesReprint ==
  ASSUME InvoicesIInv, NEW c \in T!Callers, T!Reads(c), NEW k \in Checks, T!Reprint(c, k)
  PROVE  InvoicesIInv' /\ InvoicesKept
<1> DEFINE d == T!View(c)
           old == d.order[k]
<1>1. d \in T!Databases
  BY InvoicesView DEF InvoicesIInv
<1>2. PICK n : n = old.printCount + 1
  OBVIOUS
<1>3. PICK doc : doc = [old EXCEPT !.printCount = n]
  OBVIOUS
<1>4. T!SaveOrders(c, [d EXCEPT !.order[k] = doc]) /\ old.invoiceNo > 0
  <2>1. T!SaveOrders(c, [d EXCEPT !.order[k].printCount = @ + 1]) /\ old.invoiceNo > 0
    BY Zenon DEF T!Reprint
  <2> QED
    BY <1>2, <1>3, <2>1, Zenon
<1> HIDE DEF d
<1>5. old \in T!OrderDocs /\ n \in Nat
  BY <1>1, <1>2, InvoicesFields
<1>6. /\ doc \in T!OrderDocs /\ doc.status = old.status /\ doc.total = old.total
      /\ doc.invoiceNo = old.invoiceNo /\ doc.voided = old.voided
  BY <1>3, <1>5 DEF T!OrderDocs
<1> QED
  BY <1>4, <1>6, InvoicesOrder DEF d

\* PATCH /orders/:id/status: the invoice, if there is one, is voided.
LEMMA InvoicesCancel ==
  ASSUME InvoicesIInv, NEW c \in T!Callers, T!Reads(c), NEW k \in Checks, T!CancelOrder(c, k)
  PROVE  InvoicesIInv' /\ InvoicesKept
<1> DEFINE d == T!View(c)
           old == d.order[k]
<1>1. d \in T!Databases
  BY InvoicesView DEF InvoicesIInv
<1>2. PICK void \in BOOLEAN : void = (old.invoiceNo > 0)
  <2>1. old.invoiceNo \in Nat
    BY <1>1, InvoicesFields
  <2>2. (old.invoiceNo > 0) \in BOOLEAN
    BY <2>1
  <2> QED
    BY <2>2, Zenon
<1>3. PICK first : first = [old EXCEPT !.voided = void]
  OBVIOUS
<1>4. PICK doc : doc = [first EXCEPT !.status = "cancelled"]
  OBVIOUS
<1>5. T!SaveOrders(c, [d EXCEPT !.order[k] = doc]) /\ old.status \in {"pending", "open"}
  <2>1. /\ T!SaveOrders(c, [d EXCEPT !.order[k] = [T!Voided(@) EXCEPT !.status = "cancelled"]])
        /\ old.status \in {"pending", "open"}
    BY Zenon DEF T!CancelOrder
  <2>2. first = T!Voided(old)
    BY <1>2, <1>3, Zenon DEF T!Voided
  <2> QED
    BY <1>4, <2>1, <2>2, Zenon
<1> HIDE DEF d
<1>6. old \in T!OrderDocs
  BY <1>1, InvoicesFields
<1>7. /\ first \in T!OrderDocs /\ first.total = old.total
      /\ first.invoiceNo = old.invoiceNo /\ first.voided = void
  BY <1>3, <1>6 DEF T!OrderDocs
<1>8. /\ doc \in T!OrderDocs /\ doc.total = old.total
      /\ doc.invoiceNo = old.invoiceNo /\ doc.voided = void
  BY <1>4, <1>7 DEF T!OrderDocs
<1>9. old.invoiceNo > 0 => doc.voided
  BY <1>2, <1>8
<1> QED
  BY <1>5, <1>8, <1>9, InvoicesOrder DEF d

\* A status that is no cancellation of an accepted order.
LEMMA InvoicesStatus ==
  ASSUME InvoicesIInv, NEW c \in T!Callers, T!Reads(c), NEW k \in Checks,
         NEW status \in {"open", "ready", "completed", "cancelled"},
         T!View(c).order[k].status # "absent",
         T!View(c).order[k].status = "open" => status # "cancelled",
         T!SaveOrders(c, [T!View(c) EXCEPT !.order[k].status = status])
  PROVE  InvoicesIInv' /\ InvoicesKept
<1> DEFINE d == T!View(c)
           old == d.order[k]
<1>1. d \in T!Databases
  BY InvoicesView DEF InvoicesIInv
<1>2. PICK doc : doc = [old EXCEPT !.status = status]
  OBVIOUS
<1>3. T!SaveOrders(c, [d EXCEPT !.order[k] = doc])
  BY <1>2, Zenon
<1>4. old.status # "absent" /\ (old.status = "open" => status # "cancelled")
  OBVIOUS
<1> HIDE DEF d
<1>5. old \in T!OrderDocs
  BY <1>1, InvoicesFields
<1>6. /\ doc \in T!OrderDocs /\ doc.status = status /\ doc.total = old.total
      /\ doc.invoiceNo = old.invoiceNo /\ doc.voided = old.voided
  BY <1>2, <1>5 DEF T!OrderDocs
<1> QED
  BY <1>3, <1>4, <1>6, InvoicesOrder DEF d

\* getReceipt, for an order without a number: it is given the next.
LEMMA InvoicesIssue ==
  ASSUME InvoicesIInv, NEW c \in T!Callers, T!Reads(c), NEW k \in Checks,
         T!IssueInvoice(c, k)
  PROVE  InvoicesIInv' /\ InvoicesKept
<1> DEFINE d == T!View(c)
           old == d.order[k]
<1>1. d \in T!Databases
  BY InvoicesView DEF InvoicesIInv
<1>2. PICK n : n = T!nextInvoiceNumber(d)
  OBVIOUS
<1>3. PICK prints : prints = old.printCount + 1
  OBVIOUS
<1>4. PICK seller : seller = T!captureInvoiceIdentity(d)
  OBVIOUS
<1>5. PICK doc : doc = T!Issued(d, old)
  OBVIOUS
<1>6. PICK counter : counter = [d.counter["value"] EXCEPT !.value = n]
  OBVIOUS
<1>7. PICK e : e = [d EXCEPT !.counter["value"] = counter]
  OBVIOUS
<1>8. PICK new : new = [e EXCEPT !.order[k] = doc]
  OBVIOUS
<1>9. /\ old.status \notin {"absent", "cancelled"} /\ old.invoiceNo = 0
      /\ T!SaveOrders(c, [d EXCEPT !.counter["value"].value = T!nextInvoiceNumber(d),
                                   !.order[k] = T!Issued(d, @)])
  BY Zenon DEF T!IssueInvoice
<1> HIDE DEF d
<1>10. /\ old \in T!OrderDocs /\ old.total \in Nat /\ old.printCount \in Nat
       /\ d.counter["value"] \in [value : Nat]
       /\ n = d.counter["value"].value + 1 /\ n \in Nat /\ prints \in Nat
       /\ seller \in Sellers \cup {NoSeller}
  BY <1>1, <1>2, <1>3, <1>4, InvoicesFields
  DEF T!nextInvoiceNumber, T!captureInvoiceIdentity
<1>11. /\ doc \in T!OrderDocs /\ doc.status = old.status /\ doc.total = old.total
       /\ doc.invoiceNo = n /\ doc.invoicedTotal = old.total /\ doc.voided = old.voided
  <2>1. doc = [old EXCEPT !.invoiceNo = n, !.invoicedTotal = old.total,
                          !.seller = seller, !.printCount = prints]
    BY <1>2, <1>3, <1>4, <1>5, Zenon DEF T!Issued
  <2> QED
    BY <1>10, <2>1 DEF T!OrderDocs
<1>12. counter \in [value : Nat] /\ counter.value = n
  BY <1>6, <1>10
<1>13. e \in T!Databases /\ e.order = d.order /\ e.counter["value"] = counter
  BY <1>1, <1>7, <1>12, InvoicesCounterSet
<1>14. /\ new \in T!Databases /\ new.counter = e.counter /\ new.order[k] = doc
       /\ \A i \in Checks \ {k} : new.order[i] = d.order[i]
  BY <1>8, <1>11, <1>13, InvoicesOrderSet
<1>15. T!SaveOrders(c, new)
  <2>1. e = [d EXCEPT !.counter["value"].value = T!nextInvoiceNumber(d)]
    BY <1>2, <1>6, <1>7, Zenon
  <2>2. e.order[k] = old
    BY <1>13
  <2>3. new = [e EXCEPT !.order[k] = T!Issued(d, @)]
    BY <1>5, <1>8, <2>2, Zenon
  <2> QED
    BY <1>9, <2>1, <2>3, Zenon
<1>16. \A i \in Checks : /\ new.order[i].status # "absent" =>
                               \/ new.order[i].total > 0
                               \/ /\ d.order[i].status # "absent"
                                  /\ new.order[i].total = d.order[i].total
                         /\ new.order[i].invoiceNo > 0 => i \in {k} \/ d.order[i].invoiceNo > 0
                         /\ d.order[i].invoiceNo > 0 /\ d.order[i].voided => new.order[i].voided
  BY <1>11, <1>14
<1>17. \A i \in {k} :
           /\ {k} = {i} /\ d.order[i].invoiceNo = 0
           /\ new.counter["value"].value = d.counter["value"].value + 1
           /\ new.order[i].invoiceNo = new.counter["value"].value
           /\ new.order[i].invoicedTotal = d.order[i].total
  BY <1>9, <1>10, <1>11, <1>12, <1>13, <1>14
<1>18. \A i \in Checks :
          d.order[i].status = "open" /\ new.order[i].status = "cancelled"
          /\ new.order[i].invoiceNo > 0 => new.order[i].voided
  BY <1>9, <1>11, <1>14
<1>19. {k} # {} /\ {k} \in SUBSET Checks
  OBVIOUS
<1> QED
  BY <1>14, <1>15, <1>16, <1>17, <1>18, <1>19, InvoicesWritten DEF d

\* A database with one order replaced.
InvoiceWritten(e, k, doc) == [e EXCEPT !.order[k] = doc]

\* One order is written.
LEMMA InvoicesOne ==
  ASSUME NEW e \in T!Databases, NEW k \in Checks, NEW doc \in T!OrderDocs
  PROVE  /\ InvoiceWritten(e, k, doc) \in T!Databases
         /\ InvoiceWritten(e, k, doc).counter = e.counter
         /\ InvoiceWritten(e, k, doc).order[k] = doc
         /\ \A i \in Checks \ {k} : InvoiceWritten(e, k, doc).order[i] = e.order[i]
  BY InvoicesOrderSet DEF InvoiceWritten

\* splitOrder
LEMMA InvoicesSplit ==
  ASSUME InvoicesIInv, NEW c \in T!Callers, T!Reads(c), NEW k \in Checks, NEW child \in Checks,
         NEW units \in 1..T!View(c).order[k].total, T!SplitOrder(c, k, child, units)
  PROVE  InvoicesIInv' /\ InvoicesKept
<1> DEFINE d == T!View(c)
           old == d.order[k]
<1>1. d \in T!Databases /\ units \in 1..old.total
  BY InvoicesView DEF InvoicesIInv
<1>2. PICK left : left = old.total - units
  OBVIOUS
<1>3. PICK doc : doc = [old EXCEPT !.total = left]
  OBVIOUS
<1>4. PICK status : status = IF old.status = "pending" THEN "open" ELSE old.status
  OBVIOUS
<1>5. PICK second : second = T!Uninvoiced(status, units)
  OBVIOUS
<1>6. PICK e : e = [d EXCEPT !.order[k] = doc]
  OBVIOUS
<1>7. PICK new : new = [e EXCEPT !.order[child] = second]
  OBVIOUS
<1>8. /\ T!IsOpen(old) /\ units < old.total /\ d.order[child].status = "absent"
      /\ T!SaveOrders(c, [d EXCEPT
            !.order[k].total = d.order[k].total - units,
            !.order[child] = T!Uninvoiced(IF d.order[k].status = "pending" THEN "open"
                                          ELSE d.order[k].status, units)])
  BY Zenon DEF T!SplitOrder
<1> HIDE DEF d
<1>9. T!SaveOrders(c, new)
  <2>1. e = [d EXCEPT !.order[k].total = d.order[k].total - units]
    BY <1>2, <1>3, <1>6, Zenon
  <2>2. new = [d EXCEPT
            !.order[k].total = d.order[k].total - units,
            !.order[child] = T!Uninvoiced(IF d.order[k].status = "pending" THEN "open"
                                          ELSE d.order[k].status, units)]
    BY <1>4, <1>5, <1>7, <2>1, Zenon
  <2> QED
    BY <1>8, <2>2, Zenon
<1>10. /\ old \in T!OrderDocs /\ old.total \in Nat
      /\ old.status \in {"pending", "open", "ready"}
  BY <1>1, <1>8, InvoicesFields DEF T!IsOpen
<1>11. units \in Nat /\ left \in Nat /\ left > 0 /\ units > 0
  BY <1>1, <1>2, <1>8, <1>10
<1>12. /\ doc \in T!OrderDocs /\ doc.status = old.status /\ doc.total = left
       /\ doc.invoiceNo = old.invoiceNo /\ doc.voided = old.voided
  BY <1>3, <1>10, <1>11 DEF T!OrderDocs
<1>13. /\ second \in T!OrderDocs /\ second.status = status /\ second.total = units
       /\ second.invoiceNo = 0 /\ status \in {"open", "ready"}
  BY <1>4, <1>5, <1>10, <1>11 DEF T!OrderDocs, T!Uninvoiced
<1>14. k # child
  BY <1>8, <1>10
<1>15. /\ new \in T!Databases /\ new.counter = d.counter
       /\ new.order[k] = doc /\ new.order[child] = second
       /\ \A i \in Checks \ {k, child} : new.order[i] = d.order[i]
  <2>1. /\ e \in T!Databases /\ e.counter = d.counter /\ e.order[k] = doc
        /\ \A i \in Checks \ {k} : e.order[i] = d.order[i]
    <3>1. e = InvoiceWritten(d, k, doc)
      BY <1>6, Zenon DEF InvoiceWritten
    <3> QED
      BY <1>1, <1>12, <3>1, InvoicesOne
  <2>2. /\ new \in T!Databases /\ new.counter = e.counter /\ new.order[child] = second
        /\ \A i \in Checks \ {child} : new.order[i] = e.order[i]
    <3>1. new = InvoiceWritten(e, child, second)
      BY <1>7, Zenon DEF InvoiceWritten
    <3> QED
      BY <1>13, <2>1, <3>1, InvoicesOne
  <2> QED
    BY <1>14, <2>1, <2>2
<1>16. d.order[child].invoiceNo \in Nat /\ d.order[child].invoiceNo = 0
  <2>1. T!Frozen(d.order[child], new.order[child])
    BY <1>9, Zenon DEF T!SaveOrders, d
  <2>2. d.order[child].invoiceNo \in Nat
    BY <1>1, InvoicesFields
  <2> QED
    BY <1>13, <1>15, <2>1, <2>2 DEF T!Frozen
<1>17. \A i \in Checks : /\ new.order[i].status # "absent" =>
                               \/ new.order[i].total > 0
                               \/ /\ d.order[i].status # "absent"
                                  /\ new.order[i].total = d.order[i].total
                         /\ new.order[i].invoiceNo > 0 => i \in {} \/ d.order[i].invoiceNo > 0
                         /\ d.order[i].invoiceNo > 0 /\ d.order[i].voided => new.order[i].voided
  BY <1>11, <1>12, <1>13, <1>15, <1>16
<1>18. \A i \in Checks :
          d.order[i].status = "open" /\ new.order[i].status = "cancelled"
          /\ new.order[i].invoiceNo > 0 => new.order[i].voided
  BY <1>10, <1>12, <1>13, <1>15
<1>19. new.counter["value"] = d.counter["value"] /\ {} \in SUBSET Checks
  BY <1>15
<1> QED
  BY <1>9, <1>15, <1>17, <1>18, <1>19, InvoicesWritten DEF d

\* mergeTableOrders
LEMMA InvoicesMerge ==
  ASSUME InvoicesIInv, NEW c \in T!Callers, T!Reads(c), NEW from \in Checks, NEW into \in Checks,
         T!MergeOrders(c, from, into)
  PROVE  InvoicesIInv' /\ InvoicesKept
<1> DEFINE d == T!View(c)
<1>1. d \in T!Databases
  BY InvoicesView DEF InvoicesIInv
<1>2. PICK sum : sum = d.order[into].total + d.order[from].total
  OBVIOUS
<1>3. PICK doc : doc = [d.order[into] EXCEPT !.total = sum]
  OBVIOUS
<1>4. PICK second : second = [d.order[from] EXCEPT !.status = "cancelled"]
  OBVIOUS
<1>5. PICK e : e = [d EXCEPT !.order[into] = doc]
  OBVIOUS
<1>6. PICK new : new = [e EXCEPT !.order[from] = second]
  OBVIOUS
<1>7. /\ from # into /\ d.order[from].status \in {"open", "ready"}
      /\ d.order[into].status \in {"open", "ready"}
      /\ T!SaveOrders(c, [d EXCEPT !.order[into].total = @ + d.order[from].total,
                                   !.order[from].status = "cancelled"])
  BY DEF T!MergeOrders
<1> HIDE DEF d
<1>8. /\ d.order[into] \in T!OrderDocs /\ d.order[from] \in T!OrderDocs
      /\ d.order[into].total \in Nat /\ d.order[from].total \in Nat
  BY <1>1, InvoicesFields
<1>9. /\ doc \in T!OrderDocs /\ doc.status = d.order[into].status /\ doc.total = sum
      /\ doc.invoiceNo = d.order[into].invoiceNo /\ doc.voided = d.order[into].voided
  BY <1>2, <1>3, <1>8 DEF T!OrderDocs
<1>10. /\ second \in T!OrderDocs /\ second.status = "cancelled"
       /\ second.total = d.order[from].total
       /\ second.invoiceNo = d.order[from].invoiceNo /\ second.voided = d.order[from].voided
  BY <1>4, <1>8 DEF T!OrderDocs
<1>11. e.order[from] = d.order[from]
  BY <1>1, <1>5, <1>7, <1>9, InvoicesOrderSet
<1>12. T!SaveOrders(c, new)
  <2>1. e = [d EXCEPT !.order[into].total = @ + d.order[from].total]
    BY <1>2, <1>3, <1>5, Zenon
  <2>2. new = [e EXCEPT !.order[from].status = "cancelled"]
    BY <1>4, <1>6, <1>11, Zenon
  <2> QED
    BY <1>7, <2>1, <2>2, Zenon
<1>13. /\ new \in T!Databases /\ new.counter = d.counter
       /\ new.order[into] = doc /\ new.order[from] = second
       /\ \A i \in Checks \ {into, from} : new.order[i] = d.order[i]
  <2>1. /\ e \in T!Databases /\ e.counter = d.counter /\ e.order[into] = doc
        /\ \A i \in Checks \ {into} : e.order[i] = d.order[i]
    <3>1. e = InvoiceWritten(d, into, doc)
      BY <1>5, Zenon DEF InvoiceWritten
    <3> QED
      BY <1>1, <1>9, <3>1, InvoicesOne
  <2>2. /\ new \in T!Databases /\ new.counter = e.counter /\ new.order[from] = second
        /\ \A i \in Checks \ {from} : new.order[i] = e.order[i]
    <3>1. new = InvoiceWritten(e, from, second)
      BY <1>6, Zenon DEF InvoiceWritten
    <3> QED
      BY <1>10, <2>1, <3>1, InvoicesOne
  <2> QED
    BY <1>7, <2>1, <2>2
<1>14. \A i \in Checks : /\ new.order[i].status # "absent" =>
                               \/ new.order[i].total > 0
                               \/ /\ d.order[i].status # "absent"
                                  /\ new.order[i].total = d.order[i].total
                         /\ new.order[i].invoiceNo > 0 => i \in {} \/ d.order[i].invoiceNo > 0
                         /\ d.order[i].invoiceNo > 0 /\ d.order[i].voided => new.order[i].voided
  <2>1. doc.total > 0 \/ doc.total = d.order[into].total
    BY <1>2, <1>8, <1>9
  <2> QED
    BY <1>7, <1>9, <1>10, <1>13, <2>1
<1>15. \A i \in Checks :
          d.order[i].status = "open" /\ new.order[i].status = "cancelled"
          /\ new.order[i].invoiceNo > 0 /\ d.order[i] = db.order[i]
             => \E other \in Checks : new.order[other].total # d.order[other].total
  <2> SUFFICES ASSUME NEW i \in Checks, d.order[i].status = "open",
                      new.order[i].status = "cancelled", d.order[i] = db.order[i]
               PROVE  \E other \in Checks : new.order[other].total # d.order[other].total
    OBVIOUS
  <2>1. i = from
    BY <1>7, <1>9, <1>13
  <2>2. d.order[from].total > 0
    BY <1>7, <2>1 DEF InvoicesIInv
  <2>3. new.order[into].total # d.order[into].total
    BY <1>2, <1>8, <1>9, <1>13, <2>2
  <2> QED
    BY <2>3
<1>16. new.counter["value"] = d.counter["value"] /\ {} \in SUBSET Checks
  BY <1>13
<1> QED
  BY <1>12, <1>13, <1>14, <1>15, <1>16, InvoicesWritten DEF d

\* A step that writes no order and no number.
LEMMA InvoicesSame ==
  ASSUME InvoicesIInv, db'.order = db.order, db'.counter = db.counter
  PROVE  InvoicesKept
<1>1. db \in T!Databases
  BY DEF InvoicesIInv, T!TypeOK
<1>2. \A k \in Checks : T!Frozen(db.order[k], db'.order[k])
  BY <1>1, InvoicesFields DEF T!Frozen
<1>3. T!Invoiced(db') = T!Invoiced(db)
  BY DEF T!Invoiced
<1>4. T!Cardinality(T!Invoiced(db') \ T!Invoiced(db)) = 0
  <2>1. T!Invoiced(db') \ T!Invoiced(db) = {}
    BY <1>3
  <2>2. T!Cardinality({}) = 0
    BY InvoicesCardinality, FS_EmptySet
  <2> QED
    BY <2>1, <2>2
<1>5. db'.counter["value"].value - db.counter["value"].value = 0
  <2>1. PICK n \in Nat : n = db.counter["value"].value
    BY <1>1, InvoicesFields
  <2> QED
    BY <2>1
<1>6. \A k \in T!Invoiced(db) : /\ T!Frozen(db.order[k], db'.order[k])
                                /\ db.order[k].voided => db'.order[k].voided
  BY <1>2 DEF T!Invoiced
<1>7. T!Invoiced(db') \ T!Invoiced(db) = {} /\ T!Invoiced(db) \subseteq T!Invoiced(db')
  BY <1>3
<1>8. T!NumberedInSequence
  BY <1>4, <1>5, <1>6, <1>7 DEF T!NumberedInSequence
<1>9. T!CancellationVoids
  BY DEF T!CancellationVoids, T!Invoiced
<1> QED
  BY <1>8, <1>9 DEF InvoicesKept

\* The profile is edited.
LEMMA InvoicesProfile ==
  ASSUME InvoicesIInv, NEW pan \in Sellers \cup {NoSeller}, T!EditProfile(pan)
  PROVE  InvoicesIInv' /\ InvoicesKept
<1>1. db \in T!Databases
  BY DEF InvoicesIInv, T!TypeOK
<1>2. PICK profile : profile = [db.profile["seller"] EXCEPT !.pan = pan]
  OBVIOUS
<1>3. PICK new : new = [db EXCEPT !.profile["seller"] = profile]
  OBVIOUS
<1>4. T!Update(Prompt, new)
  <2>1. T!Update(Prompt, [db EXCEPT !.profile["seller"].pan = pan])
    BY Zenon DEF T!EditProfile
  <2> QED
    BY <1>2, <1>3, <2>1, Zenon
<1>5. profile \in [pan : Sellers \cup {NoSeller}]
  <2>1. db.profile["seller"] \in [pan : Sellers \cup {NoSeller}]
    BY <1>1, InvoicesRecord
  <2> QED
    BY <1>2, <2>1
<1>6. new \in T!Databases /\ new.order = db.order /\ new.counter = db.counter
  BY <1>1, <1>3, <1>5, InvoicesProfileSet
<1>7. db' = new /\ snap' = snap /\ behind' = V!Overtaken(Prompt, V!Written(db, new))
  BY <1>4, InvoicesSnapshots DEF T!Update
<1>8. snap' = V!Ended(Prompt)
  <2>1. Prompt \notin Clients
    BY RestaurantAssumption DEF B!PromptAssumption
  <2> QED
    BY <1>7, <2>1 DEF V!Ended, InvoicesIInv, Tracked
<1>9. Alike(db', db)
  BY <1>1, <1>6, <1>7, InvoicesRecord DEF Alike
<1>10. \A coll \in DOMAIN db : \A doc \in DOMAIN db[coll] :
          <<coll, doc>> \notin V!Written(db, new) => db'[coll][doc] = db[coll][doc]
  <2>1. \A coll \in DOMAIN db : \A doc \in DOMAIN db[coll] :
           coll \in DOMAIN new /\ doc \in DOMAIN new[coll]
    BY <1>7, <1>9 DEF Alike
  <2> QED
    BY <1>7, <2>1, WrittenIs
<1>11. Tracked'
  BY <1>7, <1>8, <1>9, <1>10, TrackedWrite DEF InvoicesIInv
<1>12. T!TypeOK'
  BY <1>6, <1>7 DEF InvoicesIInv, T!TypeOK
<1>13. InvoicesIInv'
  BY <1>6, <1>7, <1>11, <1>12 DEF InvoicesIInv
<1> QED
  BY <1>6, <1>7, <1>13, InvoicesSame

\* Every step keeps the invariant, and the invoices.
LEMMA InvoicesStep ==
  ASSUME InvoicesIInv, T!Next
  PROVE  InvoicesIInv' /\ InvoicesKept
<1>1. ASSUME NEW c \in Clients, T!Begin(c) \/ T!Refused(c)
      PROVE  InvoicesIInv' /\ InvoicesKept
  <2>1. V!Begin(c) \/ V!End(c)
    BY <1>1, InvoicesSnapshots DEF T!Refused
  <2>2. db' = db
    BY <2>1 DEF V!Begin, V!End
  <2>3. snap' \in [Clients -> T!Databases \cup {NoSnapshot}]
    BY <2>1 DEF InvoicesIInv, T!TypeOK, V!Begin, V!End, V!Ended
  <2>4. Tracked'
    BY <2>1, TrackedBegin, TrackedEnd DEF InvoicesIInv
  <2>5. InvoicesIInv'
    BY <2>2, <2>3, <2>4 DEF InvoicesIInv, T!TypeOK
  <2> QED
    BY <2>2, <2>5, InvoicesSame
<1>2. ASSUME NEW c \in T!Callers, T!Reads(c), NEW k \in Checks, T!OrderStep(c, k)
      PROVE  InvoicesIInv' /\ InvoicesKept
  <2>1. CASE T!RejectOrder(c, k)
    BY <1>2, <2>1, InvoicesStatus DEF T!RejectOrder
  <2>2. ASSUME NEW status \in {"open", "ready", "completed"}, T!AdvanceOrder(c, k, status)
        PROVE  InvoicesIInv' /\ InvoicesKept
    <3>1. /\ T!View(c).order[k].status # "absent"
          /\ T!SaveOrders(c, [T!View(c) EXCEPT !.order[k].status = status])
      BY <2>2 DEF T!AdvanceOrder, T!IsOpen
    <3> QED
      BY <1>2, <3>1, InvoicesStatus
  <2> QED
    BY <1>2, <2>1, <2>2, InvoicesIssue, InvoicesReprint, InvoicesCancel, InvoicesMerge,
       InvoicesSplit DEF T!OrderStep
<1> QED
  BY <1>1, <1>2, InvoicesProfile DEF T!Next

\* The counters before the index become one, at the highest of them.
LEMMA InvoicesConsolidated ==
  ASSUME NEW counters \in SUBSET (1..MaxLegacy)
  PROVE  /\ T!Consolidated(counters) \in Nat
         /\ \A n \in {0} \cup counters : n <= T!Consolidated(counters)
<1>1. MaxLegacy \in Nat
  BY RestaurantAssumption DEF T!InvoicesAssumption
<1>2. CASE counters = {}
  BY <1>2 DEF T!Consolidated
<1>3. CASE counters # {}
  <2>1. IsFiniteSet(counters) /\ counters \subseteq Int
    <3>1. IsFiniteSet(1..MaxLegacy)
      BY <1>1, FS_Interval
    <3>2. counters \subseteq 1..MaxLegacy /\ 1..MaxLegacy \subseteq Int
      BY <1>1
    <3> QED
      BY <3>1, <3>2, FS_Subset, Zenon
  <2>2. \E x \in counters : \A y \in counters : y <= x
    BY <1>3, <2>1, Greatest
  <2>3. PICK max : max = T!Max(counters)
    OBVIOUS
  <2>4. max \in counters /\ \A y \in counters : max >= y
    BY <2>1, <2>2, <2>3 DEF T!Max
  <2>5. T!Consolidated(counters) = max
    BY <1>3, <2>3 DEF T!Consolidated
  <2> QED
    BY <1>1, <2>4, <2>5
<1> QED
  BY <1>2, <1>3

\* At first what was printed has a number no counter is behind.
LEMMA InvoicesInit ==
  ASSUME T!Init
  PROVE  InvoicesIInv
<1>1. PICK bill \in MCBills, status \in {"pending", "open"}, counters \in SUBSET (1..MaxLegacy) :
           \E given \in [{k \in Checks : bill[k] > 0} -> {0} \cup counters] :
        db = [order |-> [k \in Checks |->
                  IF bill[k] = 0 THEN T!Uninvoiced("absent", 0)
                  ELSE [T!Uninvoiced(status, bill[k]) EXCEPT
                           !.invoiceNo = given[k],
                           !.printCount = IF given[k] = 0 THEN 0 ELSE 1]],
              counter |-> [v \in {"value"} |-> [value |-> T!Consolidated(counters)]],
              profile |-> [p \in {"seller"} |-> [pan |-> NoSeller]]]
  BY Zenon DEF T!Init
<1>2. PICK given \in [{k \in Checks : bill[k] > 0} -> {0} \cup counters] :
        db = [order |-> [k \in Checks |->
                  IF bill[k] = 0 THEN T!Uninvoiced("absent", 0)
                  ELSE [T!Uninvoiced(status, bill[k]) EXCEPT
                           !.invoiceNo = given[k],
                           !.printCount = IF given[k] = 0 THEN 0 ELSE 1]],
              counter |-> [v \in {"value"} |-> [value |-> T!Consolidated(counters)]],
              profile |-> [p \in {"seller"} |-> [pan |-> NoSeller]]]
  BY <1>1, Zenon
<1>3. PICK top : top = T!Consolidated(counters)
  OBVIOUS
<1>4. top \in Nat /\ \A n \in {0} \cup counters : n <= top
  BY <1>3, InvoicesConsolidated
<1>5. \A k \in Checks : bill[k] \in Nat
  BY RestaurantAssumption DEF T!InvoicesAssumption
<1>6. MaxLegacy \in Nat
  BY RestaurantAssumption DEF T!InvoicesAssumption
<1>7. \A k \in Checks : db.order[k] = IF bill[k] = 0 THEN T!Uninvoiced("absent", 0)
                                      ELSE [T!Uninvoiced(status, bill[k]) EXCEPT
                                               !.invoiceNo = given[k],
                                               !.printCount = IF given[k] = 0 THEN 0 ELSE 1]
  BY <1>2
<1>8. ASSUME NEW k \in Checks
      PROVE  /\ db.order[k] \in T!OrderDocs /\ db.order[k].invoiceNo <= top
             /\ db.order[k].status # "absent" => db.order[k].total > 0
  <2>1. CASE bill[k] = 0
    <3>1. db.order[k] = T!Uninvoiced("absent", 0)
      BY <1>7, <2>1
    <3> QED
      BY <1>4, <3>1 DEF T!Uninvoiced, T!OrderDocs
  <2>2. CASE bill[k] # 0
    <3>1. bill[k] > 0 /\ given[k] \in {0} \cup counters
      BY <1>5, <2>2
    <3>2. PICK number : number = given[k]
      OBVIOUS
    <3>3. number \in {0} \cup counters
      BY <3>1, <3>2
    <3>4. counters \subseteq Nat
      BY <1>6
    <3>5. number \in Nat /\ number <= top
      BY <1>4, <3>3, <3>4
    <3>6. PICK prints : prints = IF number = 0 THEN 0 ELSE 1
      OBVIOUS
    <3>7. prints \in Nat
      BY <3>6
    <3>8. PICK fresh : fresh = T!Uninvoiced(status, bill[k])
      OBVIOUS
    <3>9. fresh \in T!OrderDocs /\ fresh.total = bill[k]
      BY <1>5, <3>8 DEF T!Uninvoiced, T!OrderDocs
    <3>10. db.order[k] = [fresh EXCEPT !.invoiceNo = number, !.printCount = prints]
      BY <1>7, <2>2, <3>2, <3>6, <3>8
    <3> QED
      BY <3>1, <3>5, <3>7, <3>9, <3>10 DEF T!OrderDocs
  <2> QED
    BY <2>1, <2>2
<1>9. /\ db.order \in [Checks -> T!OrderDocs]
      /\ db.counter = [v \in {"value"} |-> [value |-> top]]
      /\ db.profile = [p \in {"seller"} |-> [pan |-> NoSeller]]
      /\ db = [order |-> db.order, counter |-> db.counter, profile |-> db.profile]
  BY <1>2, <1>3, <1>8
<1>10. snap = [c \in Clients |-> NoSnapshot] /\ behind = [c \in Clients |-> {}]
  BY DEF T!Init, T!OutsideTransactions
<1>11. T!TypeOK
  BY <1>4, <1>9, <1>10 DEF T!TypeOK, T!Databases
<1>12. Tracked
  BY <1>10 DEF Tracked
<1>13. db.counter["value"].value = top
  BY <1>9
<1> QED
  BY <1>8, <1>11, <1>12, <1>13 DEF InvoicesIInv

-------------------------------------------------------------------------------
(* The books.                                                              *)

\* StockCounts, MonthClose and TaxInvoices together.
BooksIInv ==
    /\ part = "counts" => CountsIInv
    /\ part = "month" => MonthIInv
    /\ part = "invoices" => InvoicesIInv

\* A step of one of them keeps the books.
BooksStepKept ==
    /\ part = "counts" => C!ApprovalExplains
    /\ part = "month" => M!KeepsRevisions
    /\ part = "invoices" => T!NumberedInSequence /\ T!CancellationVoids

\* Whatever happens, one of the restaurant's steps keeps the books in order.
LEMMA BooksNext ==
  ASSUME BooksIInv, [Next]_vars
  PROVE  BooksIInv' /\ [BooksStepKept]_vars
<1>1. CASE UNCHANGED vars
  <2>1. part' = part /\ db' = db /\ snap' = snap /\ behind' = behind
    BY <1>1 DEF vars
  <2>2. CountsIInv' <=> CountsIInv
    BY <2>1 DEF CountsIInv, C!TypeOK, Tracked, AsRead
  <2>3. MonthIInv' <=> MonthIInv
    BY <2>1 DEF MonthIInv, M!TypeOK
  <2>4. InvoicesIInv' <=> InvoicesIInv
    BY <2>1 DEF InvoicesIInv, T!TypeOK, Tracked, AsRead
  <2> QED
    BY <1>1, <2>1, <2>2, <2>3, <2>4 DEF BooksIInv
<1>2. CASE Next
  <2>1. part' = part
    BY <1>2 DEF Next
  <2>2. part = "counts" => CountsIInv' /\ C!ApprovalExplains
    <3>1. part = "counts" => C!Next
      BY <1>2 DEF Next
    <3> QED
      BY <3>1, CountsStep DEF BooksIInv
  <2>3. part = "month" => MonthIInv' /\ M!KeepsRevisions
    <3>1. part = "month" => M!Next
      BY <1>2 DEF Next
    <3> QED
      BY <3>1, MonthStep DEF BooksIInv
  <2>4. part = "invoices" => InvoicesIInv' /\ InvoicesKept
    <3>1. part = "invoices" => T!Next
      BY <1>2 DEF Next
    <3> QED
      BY <3>1, InvoicesStep DEF BooksIInv
  <2> QED
    BY <2>1, <2>2, <2>3, <2>4 DEF BooksIInv, BooksStepKept, InvoicesKept
<1> QED
  BY <1>1, <1>2

\* StockCounts, MonthClose, TaxInvoices: however requests overlap, one sheet at a time is open
\* in the branch, an approval corrects the books by what was missing when it was counted, the
\* revisions of a closed month and the tax invoices are numbered without a gap and keep their
\* figures, and the invoice of an order that is cancelled is void.
THEOREM BooksKeptTheorem == Spec => BooksKept
<1>1. Init => BooksIInv
  BY CountsInit, MonthInit, InvoicesInit DEF Init, BooksIInv
<1>2. BooksIInv /\ [Next]_vars => BooksIInv' /\ [BooksStepKept]_vars
  BY BooksNext
<1>3. BooksIInv => (part = "counts" => C!OneActiveCount)
  BY CountsOne DEF BooksIInv
<1>4. BooksStepKept <=> /\ part = "counts" => C!ApprovalExplains
                        /\ part = "month" => M!KeepsRevisions
                        /\ part = "invoices" => T!NumberedInSequence /\ T!CancellationVoids
  BY DEF BooksStepKept
<1> QED
  BY <1>1, <1>2, <1>3, <1>4, PTL DEF Spec, BooksKept
===============================================================================
