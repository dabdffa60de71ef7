----------------------------- MODULE ServerProofs -----------------------------
(***************************************************************************)
(* Proofs about the parts of MCServer, for every value of the constants    *)
(* and any number of requests: the audit trail never forks, the platform   *)
(* keeps a super administrator, a restaurant has one trial, an order fits  *)
(* its month's allowance, pages that are live are current, what is sent is *)
(* booked once, what was revoked stays out, and every part keeps the       *)
(* shapes and bounds of its documents.                                     *)
(***************************************************************************)
EXTENDS MCServer, Sums

-------------------------------------------------------------------------------
(* The audit trail.                                                        *)

\* The highest number that a row may have.
Last == MaxRows + MaxLost

\* The numbers that are stored, and those on their way.
Stored == {row.sequence : row \in db}

\* The numbers of rows that are on their way.
Travelling == {asks[r].sequence : r \in T!OnTheWay}

\* A request on its way holds a number that nobody else has, and that this server knows.
Numbered(r) ==
    /\ asks[r].sequence \in 1..Last
    /\ asks[r].prevHash = asks[r].sequence - 1
    /\ asks[r].sequence <= cache
    /\ asks[r].sequence \notin Stored
    /\ \A q \in T!OnTheWay : asks[q].sequence = asks[r].sequence => q = r

\* What a request read is as new as the rows, or this server has given out more since.
UpToDate(r) == \A n \in Stored : n <= asks[r].stored \/ n <= cache

\* While no number was given out for nothing, each is stored or on its way.
NoGap ==
    now = 0 =>
        /\ \A n \in 1..cache : n \in Stored \cup Travelling
        /\ \A n \in Stored : n <= cache
        /\ \A r \in Calls : asks[r].pc = "reading" => asks[r].stored <= cache

\* Numbers are given out once, and each row follows the one before it.
TrailIInv ==
    /\ T!TypeOK
    /\ \A row \in db : row.prevHash = row.sequence - 1
    /\ \A row, other \in db : row.sequence = other.sequence => row = other
    /\ \A r \in Calls :
          /\ asks[r].pc = "reading" => asks[r].stored \in Nat /\ UpToDate(r)
          /\ asks[r].pc = "inserting" => Numbered(r)
    /\ NoGap

\* The head that is read is the highest number that is stored.
LEMMA HeadIsLast ==
  ASSUME T!TypeOK
  PROVE  /\ T!chainHead \in Nat
         /\ \A n \in Stored : n <= T!chainHead
         /\ T!chainHead # 0 => T!chainHead \in Stored
<1>1. Last \in Nat /\ \A row \in db : row.sequence \in 1..Last
  BY ServerAssumption DEF T!AuditAssumption, T!TypeOK, T!Rows, Last
<1>2. CASE db = {}
  BY <1>2 DEF T!chainHead, T!NoHead, Stored
<1>3. CASE db # {}
  <2>1. Stored \subseteq 1..Last /\ Stored # {}
    BY <1>1, <1>3 DEF Stored
  <2>a. IsFiniteSet(1..Last) /\ Stored \subseteq Int
    BY <1>1, <2>1, FS_Interval
  <2>2. IsFiniteSet(Stored)
    BY <2>1, <2>a, FS_Subset
  <2>3. PICK n \in Stored : \A m \in Stored : m <= n
    BY ONLY <2>1, <2>a, <2>2, Greatest
  <2>4. PICK row \in db : row.sequence = n
    BY <2>3 DEF Stored
  <2>5. \A other \in db : other.sequence <= row.sequence
    BY <2>3, <2>4 DEF Stored
  <2> DEFINE head == CHOOSE r \in db : \A other \in db : other.sequence <= r.sequence
  <2>6. head \in db /\ \A other \in db : other.sequence <= head.sequence
    BY <2>4, <2>5
  <2>7. T!chainHead = head.sequence
    BY <1>3 DEF T!chainHead
  <2> HIDE DEF head
  <2>a1. head.sequence \in 1..Last
    BY <1>1, <2>6
  <2>8. T!chainHead \in Stored /\ T!chainHead \in Nat
    BY <1>1, <2>a1, <2>6, <2>7 DEF Stored
  <2>9. \A k \in Stored : k <= T!chainHead
    BY <2>6, <2>7 DEF Stored
  <2> QED
    BY <2>8, <2>9
<1> QED
  BY <1>2, <1>3

\* What a request keeps when it has read, and when it is given a number.
Reading(a, h) == [a EXCEPT !.pc = "reading", !.stored = h]

\* A request that takes the number after h.
Numbering(a, h) == [a EXCEPT !.pc = "inserting", !.sequence = h + 1, !.prevHash = h]

\* Either keeps the shape, and has what was put in it.
LEMMA AskFilled ==
  ASSUME NEW a \in T!AskDocs, NEW h \in Nat
  PROVE  /\ Reading(a, h) \in T!AskDocs
         /\ Reading(a, h).pc = "reading" /\ Reading(a, h).stored = h
         /\ Numbering(a, h) \in T!AskDocs
         /\ Numbering(a, h).pc = "inserting"
         /\ Numbering(a, h).sequence = h + 1 /\ Numbering(a, h).prevHash = h
<1>1. PICK b : b = [a EXCEPT !.pc = "reading"]
  OBVIOUS
<1>2. PICK c : c = [b EXCEPT !.stored = h]
  OBVIOUS
<1>3. Reading(a, h) = c
  BY ONLY <1>1, <1>2, Zenon DEF Reading
<1>4. b \in T!AskDocs /\ b.pc = "reading"
  BY <1>1 DEF T!AskDocs
<1>5. c \in T!AskDocs /\ c.pc = "reading" /\ c.stored = h
  BY <1>2, <1>4 DEF T!AskDocs
<1>6. PICK d : d = [a EXCEPT !.pc = "inserting"]
  OBVIOUS
<1>7. PICK e : e = [d EXCEPT !.sequence = h + 1]
  OBVIOUS
<1>8. PICK f : f = [e EXCEPT !.prevHash = h]
  OBVIOUS
<1>9. Numbering(a, h) = f
  BY ONLY <1>6, <1>7, <1>8, Zenon DEF Numbering
<1>10. d \in T!AskDocs /\ d.pc = "inserting"
  BY <1>6 DEF T!AskDocs
<1>11. e \in T!AskDocs /\ e.pc = "inserting" /\ e.sequence = h + 1
  BY <1>7, <1>10 DEF T!AskDocs
<1>12. /\ f \in T!AskDocs
       /\ f.pc = "inserting" /\ f.sequence = h + 1 /\ f.prevHash = h
  BY <1>8, <1>11 DEF T!AskDocs
<1> QED
  BY ONLY <1>3, <1>5, <1>9, <1>12, Zenon

\* No rows, no numbers.
LEMMA TrailInit ==
  ASSUME T!Init
  PROVE  TrailIInv
<1>1. Last \in Nat /\ MaxLost \in Nat
  BY ServerAssumption DEF T!AuditAssumption, Last
<1>2. T!TypeOK
  BY <1>1 DEF T!Init, T!TypeOK, T!NoHead, T!NoAsk, T!AskDocs, Last
<1> QED
  BY <1>2 DEF T!Init, T!NoHead, T!NoAsk, TrailIInv, NoGap, Stored

\* A request reads the head.
LEMMA TrailRead ==
  ASSUME TrailIInv, NEW r \in Calls, T!Read(r)
  PROVE  TrailIInv'
<1> DEFINE ask == Reading(T!NoAsk, T!chainHead)
<1>1. /\ asks[r].pc = "idle" /\ asks' = [asks EXCEPT ![r] = ask]
      /\ db' = db /\ cache' = cache /\ now' = now
  BY DEF T!Read, T!At, Reading
<1>2. T!chainHead \in Nat /\ (\A n \in Stored : n <= T!chainHead)
      /\ (T!chainHead # 0 => T!chainHead \in Stored)
  BY HeadIsLast DEF TrailIInv
<1>3. T!NoAsk \in T!AskDocs
  BY DEF T!NoAsk, T!NoHead, T!AskDocs
<1>4. ask \in T!AskDocs /\ ask.pc = "reading" /\ ask.stored = T!chainHead
  BY <1>2, <1>3, AskFilled
<1> HIDE DEF ask
<1>5. asks \in [Calls -> T!AskDocs]
  BY DEF TrailIInv, T!TypeOK
<1>6. \A q \in Calls : asks'[q] = IF q = r THEN ask ELSE asks[q]
  BY <1>1, <1>5
<1>7. T!TypeOK'
  BY <1>1, <1>4, <1>5 DEF TrailIInv, T!TypeOK
<1>8. T!OnTheWay' = T!OnTheWay /\ r \notin T!OnTheWay
  BY <1>1, <1>4, <1>6 DEF T!OnTheWay
<1>9. Stored' = Stored /\ Travelling' = Travelling
  BY <1>1, <1>6, <1>8 DEF Stored, Travelling
<1>10. \A q \in Calls : asks'[q].pc = "inserting" => Numbered(q)'
  BY <1>1, <1>4, <1>6, <1>8, <1>9 DEF TrailIInv, Numbered, T!OnTheWay
<1>11. \A q \in Calls : asks'[q].pc = "reading" => asks'[q].stored \in Nat /\ UpToDate(q)'
  BY <1>1, <1>2, <1>4, <1>6, <1>9 DEF TrailIInv, UpToDate
<1>12. NoGap'
  <2>1. now = 0 => T!chainHead <= cache
    <3>1. cache \in Nat
      BY ServerAssumption DEF TrailIInv, T!TypeOK, T!AuditAssumption
    <3> QED
      BY <1>2, <3>1 DEF TrailIInv, NoGap
  <2> QED
    BY <1>1, <1>4, <1>6, <1>9, <2>1 DEF TrailIInv, NoGap
<1> QED
  BY <1>1, <1>7, <1>10, <1>11, <1>12 DEF TrailIInv

\* A request is given the number after the head.
LEMMA TrailStamp ==
  ASSUME TrailIInv, NEW r \in Calls, T!Stamp(r)
  PROVE  TrailIInv'
<1> DEFINE head == T!Head(asks[r].stored)
           ask == Numbering(asks[r], head)
<1>1. /\ asks[r].pc = "reading" /\ head < Last
      /\ asks' = [asks EXCEPT ![r] = ask]
      /\ db' = db /\ cache' = head + 1 /\ now' = now
  BY DEF T!Stamp, T!At, Last, Numbering
<1>2. asks \in [Calls -> T!AskDocs] /\ asks[r] \in T!AskDocs
  BY DEF TrailIInv, T!TypeOK
<1>3. /\ Last \in Nat /\ cache \in 0..Last /\ Stored \subseteq 1..Last
      /\ asks[r].stored \in Nat /\ UpToDate(r)
  BY <1>1, ServerAssumption DEF TrailIInv, T!TypeOK, T!AuditAssumption, T!Rows, Last, Stored
<1>4. /\ head \in Nat /\ cache <= head /\ asks[r].stored <= head
      /\ head = cache \/ head = asks[r].stored
  BY <1>3 DEF T!Head
<1>5. \A n \in Stored : n <= head
  BY <1>3, <1>4 DEF UpToDate
<1> HIDE DEF head
<1>6. /\ ask \in T!AskDocs
      /\ ask.pc = "inserting" /\ ask.sequence = head + 1 /\ ask.prevHash = head
  BY <1>2, <1>4, AskFilled
<1> HIDE DEF ask
<1>7. \A q \in Calls : asks'[q] = IF q = r THEN ask ELSE asks[q]
  BY <1>1, <1>2
<1>8. T!TypeOK'
  <2>1. cache' \in 0..MaxRows + MaxLost
    BY <1>1, <1>3, <1>4 DEF Last
  <2> QED
    BY <1>1, <1>2, <1>6, <2>1 DEF TrailIInv, T!TypeOK
<1>9. T!OnTheWay' = T!OnTheWay \cup {r} /\ r \notin T!OnTheWay
  BY <1>1, <1>6, <1>7 DEF T!OnTheWay
<1>10. Stored' = Stored
  BY <1>1 DEF Stored
<1>11. \A q \in T!OnTheWay : q \in Calls /\ Numbered(q)
  BY DEF TrailIInv, T!OnTheWay
<1>12. ASSUME NEW q \in Calls, asks'[q].pc = "inserting"
       PROVE  Numbered(q)'
  <2>1. CASE q = r
    BY <1>1, <1>3, <1>4, <1>5, <1>6, <1>7, <1>9, <1>10, <1>11, <2>1 DEF Numbered
  <2>2. CASE q # r
    <3>1. q \in T!OnTheWay /\ asks'[q] = asks[q]
      BY <1>7, <1>12, <2>2 DEF T!OnTheWay
    <3>2. asks[q].sequence <= head
      BY <1>3, <1>4, <1>11, <3>1 DEF Numbered
    <3> QED
      BY <1>1, <1>3, <1>4, <1>6, <1>7, <1>9, <1>10, <1>11, <2>2, <3>1, <3>2 DEF Numbered
  <2> QED
    BY <2>1, <2>2
<1>13. ASSUME NEW q \in Calls, asks'[q].pc = "reading"
       PROVE  asks'[q].stored \in Nat /\ UpToDate(q)'
  <2>1. asks'[q] = asks[q] /\ asks[q].stored \in Nat /\ UpToDate(q)
    BY <1>6, <1>7, <1>13 DEF TrailIInv
  <2> QED
    BY <1>1, <1>3, <1>4, <1>10, <2>1 DEF UpToDate
<1>14. NoGap'
  <2>1. SUFFICES ASSUME now = 0
                 PROVE  /\ \A n \in 1..cache' : n \in Stored' \cup Travelling'
                        /\ \A n \in Stored' : n <= cache'
                        /\ \A q \in Calls : asks'[q].pc = "reading" => asks'[q].stored <= cache'
    BY <1>1 DEF NoGap
  <2>2. head = cache
    BY <1>1, <1>3, <1>4, <2>1 DEF TrailIInv, NoGap
  <2>3. \A n \in Travelling : n \in Travelling'
    <3>1. \A q \in T!OnTheWay : asks'[q] = asks[q]
      BY <1>7, <1>9, <1>11
    <3> QED
      BY <1>9, <3>1 DEF Travelling
  <2>4. head + 1 \in Travelling'
    BY <1>6, <1>7, <1>9 DEF Travelling
  <2>5. ASSUME NEW n \in 1..cache'
        PROVE  n \in Stored' \cup Travelling'
    <3>1. n = head + 1 \/ n \in 1..cache
      BY <1>1, <1>3, <2>2
    <3>2. \A m \in 1..cache : m \in Stored \cup Travelling
      BY <2>1 DEF TrailIInv, NoGap
    <3> QED
      BY <1>10, <2>3, <2>4, <3>1, <3>2
  <2>6. ASSUME NEW q \in Calls, asks'[q].pc = "reading"
        PROVE  asks'[q].stored <= cache'
    <3>1. asks'[q] = asks[q] /\ asks[q].stored \in Nat
      BY <1>6, <1>7, <2>6 DEF TrailIInv
    <3>2. asks[q].stored <= cache
      BY <2>1, <2>6, <3>1 DEF TrailIInv, NoGap
    <3> QED
      BY <1>1, <1>3, <2>2, <3>1, <3>2
  <2> QED
    BY <1>1, <1>3, <1>4, <1>5, <1>10, <2>5, <2>6
<1> QED
  BY <1>1, <1>8, <1>12, <1>13, <1>14 DEF TrailIInv

\* A row is inserted under its number.
LEMMA TrailInsert ==
  ASSUME TrailIInv, NEW r \in Calls, T!Insert(r)
  PROVE  TrailIInv'
<1> DEFINE new == [sequence |-> asks[r].sequence, by |-> r, prevHash |-> asks[r].prevHash]
<1>1. /\ asks[r].pc = "inserting" /\ db' = db \cup {new}
      /\ asks' = [asks EXCEPT ![r] = T!NoAsk]
      /\ cache' = cache /\ now' = now
  BY DEF T!Insert, T!At
<1>2. asks \in [Calls -> T!AskDocs] /\ Last \in Nat /\ cache \in 0..Last
  BY ServerAssumption DEF TrailIInv, T!TypeOK, T!AuditAssumption, Last
<1>3. T!NoAsk \in T!AskDocs /\ T!NoAsk.pc = "idle"
  BY DEF T!NoAsk, T!NoHead, T!AskDocs
<1>4. \A q \in Calls : asks'[q] = IF q = r THEN T!NoAsk ELSE asks[q]
  BY <1>1, <1>2
<1>5. Numbered(r)
  BY <1>1 DEF TrailIInv
<1>6. /\ new \in T!Rows /\ new.sequence = asks[r].sequence
      /\ new.prevHash = new.sequence - 1 /\ new.sequence \notin Stored
      /\ new.sequence \in 1..Last
  BY <1>2, <1>5 DEF T!Rows, Numbered, Last
<1> HIDE DEF new
<1>7. T!TypeOK'
  BY <1>1, <1>2, <1>3, <1>6 DEF TrailIInv, T!TypeOK
<1>8. T!OnTheWay' = T!OnTheWay \ {r} /\ r \in T!OnTheWay
  BY <1>1, <1>3, <1>4 DEF T!OnTheWay
<1>9. Stored' = Stored \cup {new.sequence}
  BY <1>1 DEF Stored
<1>10. \A row \in db' : row.prevHash = row.sequence - 1
  BY <1>1, <1>6 DEF TrailIInv
<1>11. \A row, other \in db' : row.sequence = other.sequence => row = other
  BY <1>1, <1>6 DEF TrailIInv, Stored
<1>12. \A q \in T!OnTheWay : q \in Calls /\ Numbered(q)
  BY DEF TrailIInv, T!OnTheWay
<1>13. ASSUME NEW q \in Calls, asks'[q].pc = "inserting"
       PROVE  Numbered(q)'
  <2>1. q # r /\ q \in T!OnTheWay /\ asks'[q] = asks[q]
    BY <1>3, <1>4, <1>13 DEF T!OnTheWay
  <2>2. asks[q].sequence # new.sequence
    BY <1>5, <1>6, <2>1 DEF Numbered
  <2> QED
    BY <1>1, <1>4, <1>8, <1>9, <1>12, <2>1, <2>2 DEF Numbered
<1>14. ASSUME NEW q \in Calls, asks'[q].pc = "reading"
       PROVE  asks'[q].stored \in Nat /\ UpToDate(q)'
  <2>1. asks'[q] = asks[q] /\ asks[q].stored \in Nat /\ UpToDate(q)
    BY <1>3, <1>4, <1>14 DEF TrailIInv
  <2>2. new.sequence <= cache
    BY <1>5, <1>6 DEF Numbered
  <2> QED
    BY <1>1, <1>9, <2>1, <2>2 DEF UpToDate
<1>15. NoGap'
  <2>1. SUFFICES ASSUME now = 0
                 PROVE  /\ \A n \in 1..cache : n \in Stored' \cup Travelling'
                        /\ \A n \in Stored' : n <= cache
                        /\ \A q \in Calls : asks'[q].pc = "reading" => asks'[q].stored <= cache
    BY <1>1 DEF NoGap
  <2>2. \A n \in Travelling : n \in Travelling' \/ n = new.sequence
    <3>1. \A q \in T!OnTheWay \ {r} : asks'[q] = asks[q]
      BY <1>4, <1>12
    <3> QED
      BY <1>6, <1>8, <3>1 DEF Travelling
  <2>3. \A n \in 1..cache : n \in Stored \cup Travelling
    BY <2>1 DEF TrailIInv, NoGap
  <2>4. new.sequence <= cache
    BY <1>5, <1>6 DEF Numbered
  <2>5. \A n \in Stored : n <= cache
    BY <2>1 DEF TrailIInv, NoGap
  <2>6. \A q \in Calls : asks'[q].pc = "reading" => asks'[q].stored <= cache
    BY <1>3, <1>4, <2>1 DEF TrailIInv, NoGap
  <2> QED
    BY <1>9, <2>2, <2>3, <2>4, <2>5, <2>6
<1> QED
  BY <1>1, <1>7, <1>10, <1>11, <1>13, <1>14, <1>15 DEF TrailIInv

\* A row is not inserted: its number was given out for nothing.
LEMMA TrailFail ==
  ASSUME TrailIInv, NEW r \in Calls, T!Fail(r)
  PROVE  TrailIInv'
<1>1. /\ asks[r].pc = "inserting" /\ db' = db /\ cache' = cache
      /\ now < MaxLost /\ now' = now + 1
      /\ asks' = [asks EXCEPT ![r] = T!NoAsk]
  BY DEF T!Fail, T!At
<1>2. asks \in [Calls -> T!AskDocs] /\ now \in 0..MaxLost /\ MaxLost \in Nat
  BY ServerAssumption DEF TrailIInv, T!TypeOK, T!AuditAssumption
<1>3. T!NoAsk \in T!AskDocs /\ T!NoAsk.pc = "idle"
  BY DEF T!NoAsk, T!NoHead, T!AskDocs
<1>4. \A q \in Calls : asks'[q] = IF q = r THEN T!NoAsk ELSE asks[q]
  BY <1>1, <1>2
<1>5. T!TypeOK'
  BY <1>1, <1>2, <1>3 DEF TrailIInv, T!TypeOK
<1>6. T!OnTheWay' = T!OnTheWay \ {r} /\ Stored' = Stored
  BY <1>1, <1>3, <1>4 DEF T!OnTheWay, Stored
<1>7. ASSUME NEW q \in Calls, asks'[q].pc = "inserting"
      PROVE  Numbered(q)'
  <2>1. q # r /\ asks'[q] = asks[q] /\ Numbered(q)
    BY <1>3, <1>4, <1>7 DEF TrailIInv
  <2>2. \A p \in T!OnTheWay' : p \in T!OnTheWay /\ asks'[p] = asks[p]
    BY <1>4, <1>6 DEF T!OnTheWay
  <2> QED
    BY <1>1, <1>6, <2>1, <2>2 DEF Numbered
<1>8. ASSUME NEW q \in Calls, asks'[q].pc = "reading"
      PROVE  asks'[q].stored \in Nat /\ UpToDate(q)'
  <2>1. asks'[q] = asks[q] /\ asks[q].stored \in Nat /\ UpToDate(q)
    BY <1>3, <1>4, <1>8 DEF TrailIInv
  <2> QED
    BY <1>1, <1>6, <2>1 DEF UpToDate
<1>9. NoGap'
  BY <1>1, <1>2 DEF NoGap
<1> QED
  BY <1>1, <1>5, <1>7, <1>8, <1>9 DEF TrailIInv

\* The server restarts: nobody is reading or inserting, and a number was lost.
LEMMA TrailRestart ==
  ASSUME TrailIInv, T!Restart
  PROVE  TrailIInv'
<1>1. /\ db' = db /\ cache' = 0 /\ now < MaxLost /\ now' = now + 1
      /\ asks' = [r \in Calls |-> T!NoAsk]
  BY DEF T!Restart, T!NoHead
<1>2. now \in 0..MaxLost /\ MaxLost \in Nat /\ MaxRows \in Nat
  BY ServerAssumption DEF TrailIInv, T!TypeOK, T!AuditAssumption
<1>3. T!NoAsk \in T!AskDocs /\ T!NoAsk.pc = "idle"
  BY DEF T!NoAsk, T!NoHead, T!AskDocs
<1>4. T!TypeOK'
  BY <1>1, <1>2, <1>3 DEF TrailIInv, T!TypeOK
<1>5. NoGap'
  BY <1>1, <1>2 DEF NoGap
<1>6. \A q \in Calls : asks'[q].pc = "idle"
  BY <1>1, <1>3
<1> QED
  BY <1>1, <1>4, <1>5, <1>6 DEF TrailIInv

\* Nothing happens.
LEMMA TrailStutter ==
  ASSUME TrailIInv, db' = db, cache' = cache, now' = now, asks' = asks
  PROVE  TrailIInv'
BY DEF TrailIInv, T!TypeOK, NoGap, Numbered, UpToDate, Stored, Travelling, T!OnTheWay

\* Once no row is on its way, each number up to the head is a row's.
LEMMA TrailNeverForks ==
  ASSUME TrailIInv
  PROVE  T!NoFork
<1>1. Last \in Nat /\ cache \in 0..Last /\ \A row \in db : row.sequence \in 1..Last
  BY ServerAssumption DEF TrailIInv, T!TypeOK, T!AuditAssumption, T!Rows, Last
<1>2. \A row \in db : row.prevHash = row.sequence - 1
  BY DEF TrailIInv
<1>3. \A row, other \in db : row.sequence = other.sequence => row = other
  BY DEF TrailIInv
<1>4. ASSUME NEW row \in db, NEW other \in db, row # other
      PROVE  row.sequence # other.sequence /\ row.prevHash # other.prevHash
  BY <1>1, <1>2, <1>3, <1>4
<1>5. ASSUME T!Quiet, now = 0, NEW row \in db, row.sequence # 1
      PROVE  \E other \in db : /\ other.sequence = row.sequence - 1
                              /\ other.sequence = row.prevHash
  <2>1. Travelling = {}
    BY <1>5 DEF T!Quiet, Travelling
  <2>2. row.sequence <= cache
    BY <1>5 DEF TrailIInv, NoGap, Stored
  <2>3. row.sequence - 1 \in 1..cache
    BY <1>1, <1>5, <2>2
  <2>4. row.sequence - 1 \in Stored
    BY <1>5, <2>1, <2>3 DEF TrailIInv, NoGap
  <2> QED
    BY <1>2, <2>4 DEF Stored
<1>6. ASSUME T!Quiet, now = 0
      PROVE  T!Verified
  BY <1>1, <1>3, <1>5, <1>6 DEF T!Verified
<1> QED
  BY <1>4, <1>6 DEF T!NoFork

\* The trail keeps its invariant in every behaviour.
LEMMA TrailHolds == Spec => [](part = "audit" => TrailIInv)
<1> DEFINE IInv == part = "audit" => TrailIInv
<1>1. Init => IInv
  BY TrailInit DEF Init
<1>2. ASSUME IInv, [Next]_vars
      PROVE  IInv'
  <2>1. CASE part # "audit"
    BY <1>2, <2>1 DEF Next, vars
  <2>2. CASE part = "audit"
    <3>1. \/ T!Restart
          \/ \E r \in Calls : T!Read(r) \/ T!Stamp(r) \/ T!Insert(r) \/ T!Fail(r)
          \/ db' = db /\ cache' = cache /\ now' = now /\ asks' = asks
      BY <1>2, <2>2 DEF Next, vars, T!Next, T!AuditStep
    <3> QED
      BY <1>2, <2>2, <3>1, TrailRead, TrailStamp, TrailInsert, TrailFail, TrailRestart,
         TrailStutter
  <2> QED
    BY <2>1, <2>2
<1> QED
  BY <1>1, <1>2, PTL DEF Spec

\* auditTrail.js:116: whatever is written at once, fails or is cut short by a restart, no two
\* audit rows share a number or what they follow, and while no number was given out for
\* nothing, the chain verifies whenever no row is on its way.
THEOREM NoForkTheorem == Spec => []NoFork
<1>1. (part = "audit" => TrailIInv) => NoFork
  BY TrailNeverForks DEF NoFork
<1> QED
  BY <1>1, TrailHolds, PTL

-------------------------------------------------------------------------------
(* The operators of the platform.                                          *)

\* A request that is about to save, and had no company, leaves the platform a super
\* administrator: it does not touch one, or there is another.
Left(r) ==
    LET ask == asks[r]
        u == ask.target
    IN  IF ask.op = "active" THEN ask.on \/ db.user[u].rank # F!super_admin
        ELSE db.user[u].rank # F!super_admin \/ F!Remaining(u) # {}

\* Accounts and the restaurant.
PlatformDocs ==
    [user : [Users -> F!UserDocs],
     restaurant : [status : F!TENANT_STATUSES \cup {"none"}, owned : BOOLEAN]]

PlatformTypeOK == db \in PlatformDocs /\ asks \in [Requests -> F!AskDocs]

PlatformIInv ==
    /\ PlatformTypeOK
    /\ \A r, q \in Requests :
          asks[r].alone /\ asks[r].pc # "idle" /\ asks[q].pc # "idle" => q = r
    /\ \A r \in Requests :
          asks[r].alone /\ asks[r].pc = "saving" /\ asks[r].target # NoUser => Left(r)
    /\ \A r \in Requests : asks[r].pc = "counting" => asks[r].op # "active"

\* A request comes to have company, or not; it goes on, and its rest stays as it is.
LEMMA AloneSet ==
  ASSUME NEW a \in F!AskDocs, NEW b \in BOOLEAN
  PROVE  /\ [a EXCEPT !.alone = b] \in F!AskDocs
         /\ [a EXCEPT !.alone = b].pc = a.pc /\ [a EXCEPT !.alone = b].alone = b
         /\ [a EXCEPT !.alone = b].op = a.op /\ [a EXCEPT !.alone = b].target = a.target
BY DEF F!AskDocs

\* A request goes on to another place.
LEMMA PcSet ==
  ASSUME NEW a \in F!AskDocs,
         NEW pc \in {"idle", "authorized", "counting", "saving", "owning"}
  PROVE  /\ [a EXCEPT !.pc = pc] \in F!AskDocs
         /\ [a EXCEPT !.pc = pc].pc = pc /\ [a EXCEPT !.pc = pc].alone = a.alone
         /\ [a EXCEPT !.pc = pc].op = a.op /\ [a EXCEPT !.pc = pc].target = a.target
         /\ [a EXCEPT !.pc = pc].on = a.on
BY DEF F!AskDocs

\* A request that starts, with others or alone.
LEMMA PlatformStarts ==
  ASSUME PlatformIInv, NEW r \in Requests, asks[r].pc = "idle",
         NEW a \in F!AskDocs, a.pc \in {"authorized", "owning"}, F!Starts(r, a),
         db' \in PlatformDocs
  PROVE  PlatformIInv'
<1> DEFINE begun == [a EXCEPT !.alone = F!Busy = {}]
           others(q) == [asks[q] EXCEPT !.alone = FALSE]
<1>1. asks' = [q \in Requests |-> IF q = r THEN begun ELSE others(q)]
  BY DEF F!Starts
<1>2. asks \in [Requests -> F!AskDocs]
  BY DEF PlatformIInv, PlatformTypeOK
<1>3. (F!Busy = {}) \in BOOLEAN
  OBVIOUS
<1>4. begun \in F!AskDocs /\ begun.pc = a.pc /\ begun.alone = (F!Busy = {})
  BY <1>3, AloneSet, Zenon
<1>5. \A q \in Requests : /\ others(q) \in F!AskDocs /\ others(q).pc = asks[q].pc
                            /\ others(q).op = asks[q].op /\ others(q).alone = FALSE
  BY <1>2, AloneSet, Zenon
<1> HIDE DEF begun, others
<1>6. \A q \in Requests : asks'[q] = IF q = r THEN begun ELSE others(q)
  BY <1>1
<1>7. asks' \in [Requests -> F!AskDocs]
  BY <1>1, <1>4, <1>5
<1>8. ASSUME NEW q \in Requests, asks'[q].alone, asks'[q].pc # "idle"
      PROVE  q = r /\ \A p \in Requests \ {r} : asks'[p].pc = "idle"
  <2>1. q = r
    BY <1>5, <1>6, <1>8
  <2>2. F!Busy = {}
    BY <1>4, <1>6, <1>8, <2>1
  <2>3. \A p \in Requests : asks[p].pc = "idle"
    BY <2>2 DEF F!Busy
  <2> QED
    BY <1>5, <1>6, <2>1, <2>3
<1>9. asks'[r].pc \notin {"saving", "counting"}
  BY <1>4, <1>6
<1>10. \A q \in Requests : asks'[q].pc = "counting" => asks'[q].op # "active"
  BY <1>5, <1>6, <1>9 DEF PlatformIInv
<1> QED
  BY <1>7, <1>8, <1>9, <1>10 DEF PlatformIInv, PlatformTypeOK

\* A request that goes on: whoever else is in progress was in its company.
LEMMA PlatformGoesOn ==
  ASSUME PlatformIInv, NEW r \in Requests, asks[r].pc # "idle",
         NEW a \in F!AskDocs, asks' = [asks EXCEPT ![r] = a],
         a.pc # "idle" => a.alone = asks[r].alone,
         db' \in PlatformDocs,
         a.pc = "saving" /\ a.alone /\ a.target # NoUser => Left(r)',
         a.pc = "counting" => a.op # "active"
  PROVE  PlatformIInv'
<1>1. asks \in [Requests -> F!AskDocs]
  BY DEF PlatformIInv, PlatformTypeOK
<1>2. \A q \in Requests : asks'[q] = IF q = r THEN a ELSE asks[q]
  BY <1>1
<1>3. asks' \in [Requests -> F!AskDocs]
  BY <1>1
<1>4. ASSUME NEW q \in Requests, asks'[q].alone, asks'[q].pc # "idle"
      PROVE  q = r /\ \A p \in Requests \ {r} : asks'[p].pc = "idle"
  <2>1. asks[q].alone /\ asks[q].pc # "idle"
    BY <1>2, <1>4
  <2>2. q = r /\ \A p \in Requests \ {q} : asks[p].pc = "idle"
    BY <2>1 DEF PlatformIInv
  <2> QED
    BY <1>2, <2>2
<1>5. asks'[r] = a
  BY <1>2
<1>6. \A q \in Requests :
         asks'[q].alone /\ asks'[q].pc = "saving" /\ asks'[q].target # NoUser => Left(q)'
  <2> SUFFICES ASSUME NEW q \in Requests, asks'[q].alone, asks'[q].pc = "saving",
                      asks'[q].target # NoUser
               PROVE  Left(q)'
    OBVIOUS
  <2>1. asks'[q].pc # "idle"
    OBVIOUS
  <2>2. q = r
    BY <1>4, <2>1
  <2> QED
    BY <1>5, <2>2
<1>7. \A q \in Requests : asks'[q].pc = "counting" => asks'[q].op # "active"
  BY <1>2 DEF PlatformIInv
<1> QED
  BY <1>3, <1>4, <1>6, <1>7 DEF PlatformIInv, PlatformTypeOK

\* Requests are authorized, by whom and whatever they are for.
LEMMA PlatformAuthorized ==
  ASSUME PlatformIInv, NEW r \in Requests, NEW actor \in Users, NEW ask \in F!AskDocs,
         F!assertPlatform(r, actor, ask)
  PROVE  PlatformIInv'
<1>1. db \in PlatformDocs /\ db.user[actor].rank \in F!Ranks
  BY DEF PlatformIInv, PlatformTypeOK, PlatformDocs, F!UserDocs
<1>2. PICK a : a = [ask EXCEPT !.pc = "authorized"]
  OBVIOUS
<1>3. PICK b : b = [a EXCEPT !.rank = db.user[actor].rank]
  OBVIOUS
<1>a. a \in F!AskDocs /\ a.pc = "authorized"
  BY <1>2 DEF F!AskDocs
<1>b. b \in F!AskDocs /\ b.pc = "authorized"
  BY <1>1, <1>3, <1>a DEF F!AskDocs
<1>4. [ask EXCEPT !.pc = "authorized", !.rank = db.user[actor].rank] = b
  BY <1>2, <1>3, Zenon
<1>5. asks[r].pc = "idle" /\ F!Starts(r, b) /\ db' = db
  BY <1>4, Zenon DEF F!assertPlatform
<1> QED
  BY <1>1, <1>b, <1>5, PlatformStarts

\* A request that is not in progress.
LEMMA NoAskTyped == F!NoAsk \in F!AskDocs /\ F!NoAsk.pc = "idle"
BY DEF F!NoAsk, F!AskDocs, F!Operations, F!Ranks, F!TENANT_STATUSES

\* Switching an account on or off.
LEMMA ActiveAsked ==
  ASSUME NEW u \in Users, NEW on \in BOOLEAN
  PROVE  [F!NoAsk EXCEPT !.op = "active", !.target = u, !.on = on] \in F!AskDocs
<1>1. PICK a : a = [F!NoAsk EXCEPT !.op = "active"]
  OBVIOUS
<1>2. a \in F!AskDocs
  BY <1>1, NoAskTyped DEF F!AskDocs, F!Operations, F!Ranks, F!TENANT_STATUSES
<1>3. PICK b : b = [a EXCEPT !.target = u]
  OBVIOUS
<1>4. b \in F!AskDocs
  BY <1>3, <1>2 DEF F!AskDocs, F!Operations, F!Ranks, F!TENANT_STATUSES
<1>5. PICK c : c = [b EXCEPT !.on = on]
  OBVIOUS
<1>6. c \in F!AskDocs
  BY <1>5, <1>4 DEF F!AskDocs, F!Operations, F!Ranks, F!TENANT_STATUSES
<1>7. [F!NoAsk EXCEPT !.op = "active", !.target = u, !.on = on] = c
  BY <1>1, <1>3, <1>5, Zenon
<1> QED
  BY <1>6, <1>7, Zenon

\* Giving an operator another role.
LEMMA RoleAsked ==
  ASSUME NEW u \in Users, NEW k \in F!Ranks
  PROVE  [F!NoAsk EXCEPT !.target = u, !.wanted = k] \in F!AskDocs
<1>1. PICK a : a = [F!NoAsk EXCEPT !.target = u]
  OBVIOUS
<1>2. a \in F!AskDocs
  BY <1>1, NoAskTyped DEF F!AskDocs, F!Operations, F!Ranks, F!TENANT_STATUSES
<1>3. PICK b : b = [a EXCEPT !.wanted = k]
  OBVIOUS
<1>4. b \in F!AskDocs
  BY <1>3, <1>2 DEF F!AskDocs, F!Operations, F!Ranks, F!TENANT_STATUSES
<1>5. [F!NoAsk EXCEPT !.target = u, !.wanted = k] = b
  BY <1>1, <1>3, Zenon
<1> QED
  BY <1>4, <1>5, Zenon

\* The same from the shell.
LEMMA ScriptAsked ==
  ASSUME NEW u \in Users, NEW k \in F!Ranks
  PROVE  /\ [F!NoAsk EXCEPT !.pc = "authorized", !.op = "script", !.target = u,
                             !.wanted = k] \in F!AskDocs
         /\ [F!NoAsk EXCEPT !.pc = "authorized", !.op = "script", !.target = u,
                             !.wanted = k].pc = "authorized"
<1>1. PICK a : a = [F!NoAsk EXCEPT !.pc = "authorized"]
  OBVIOUS
<1>2. a \in F!AskDocs /\ a.pc = "authorized"
  BY <1>1, NoAskTyped DEF F!AskDocs, F!Operations, F!Ranks, F!TENANT_STATUSES
<1>3. PICK b : b = [a EXCEPT !.op = "script"]
  OBVIOUS
<1>4. b \in F!AskDocs /\ b.pc = "authorized"
  BY <1>3, <1>2 DEF F!AskDocs, F!Operations, F!Ranks, F!TENANT_STATUSES
<1>5. PICK c : c = [b EXCEPT !.target = u]
  OBVIOUS
<1>6. c \in F!AskDocs /\ c.pc = "authorized"
  BY <1>5, <1>4 DEF F!AskDocs, F!Operations, F!Ranks, F!TENANT_STATUSES
<1>7. PICK d : d = [c EXCEPT !.wanted = k]
  OBVIOUS
<1>8. d \in F!AskDocs /\ d.pc = "authorized"
  BY <1>7, <1>6 DEF F!AskDocs, F!Operations, F!Ranks, F!TENANT_STATUSES
<1>9. [F!NoAsk EXCEPT !.pc = "authorized", !.op = "script", !.target = u, !.wanted = k] = d
  BY <1>1, <1>3, <1>5, <1>7, Zenon
<1> QED
  BY <1>8, <1>9, Zenon

\* A restaurant that provisions itself.
LEMMA ProvisionAsked ==
  ASSUME TRUE
  PROVE  /\ [F!NoAsk EXCEPT !.pc = "owning", !.op = "provision"] \in F!AskDocs
         /\ [F!NoAsk EXCEPT !.pc = "owning", !.op = "provision"].pc = "owning"
<1>1. PICK a : a = [F!NoAsk EXCEPT !.pc = "owning"]
  OBVIOUS
<1>2. a \in F!AskDocs /\ a.pc = "owning"
  BY <1>1, NoAskTyped DEF F!AskDocs, F!Operations, F!Ranks, F!TENANT_STATUSES
<1>3. PICK b : b = [a EXCEPT !.op = "provision"]
  OBVIOUS
<1>4. b \in F!AskDocs /\ b.pc = "owning"
  BY <1>3, <1>2 DEF F!AskDocs, F!Operations, F!Ranks, F!TENANT_STATUSES
<1>5. [F!NoAsk EXCEPT !.pc = "owning", !.op = "provision"] = b
  BY <1>1, <1>3, Zenon
<1> QED
  BY <1>4, <1>5, Zenon

\* Changing what a restaurant may do.
LEMMA StatusAsked ==
  ASSUME NEW status \in F!TENANT_STATUSES
  PROVE  [F!NoAsk EXCEPT !.op = "status", !.status = status] \in F!AskDocs
<1>1. PICK a : a = [F!NoAsk EXCEPT !.op = "status"]
  OBVIOUS
<1>2. a \in F!AskDocs
  BY <1>1, NoAskTyped DEF F!AskDocs, F!Operations, F!Ranks, F!TENANT_STATUSES
<1>3. PICK b : b = [a EXCEPT !.status = status]
  OBVIOUS
<1>4. b \in F!AskDocs
  BY <1>3, <1>2 DEF F!AskDocs, F!Operations, F!Ranks, F!TENANT_STATUSES
<1>5. [F!NoAsk EXCEPT !.op = "status", !.status = status] = b
  BY <1>1, <1>3, Zenon
<1> QED
  BY <1>4, <1>5, Zenon

\* An account and a restaurant, with one field replaced.
LEMMA PlatformDocSet ==
  ASSUME NEW d \in PlatformDocs, NEW u \in Users
  PROVE  /\ \A on \in BOOLEAN :
               LET e == [d EXCEPT !.user[u].active = on]
               IN  /\ e \in PlatformDocs
                   /\ e.user[u].active = on /\ e.user[u].rank = d.user[u].rank
                   /\ \A v \in Users \ {u} : e.user[v] = d.user[v]
         /\ \A k \in F!Ranks :
               LET e == [d EXCEPT !.user[u].rank = k]
               IN  /\ e \in PlatformDocs
                   /\ e.user[u].rank = k /\ e.user[u].active = d.user[u].active
                   /\ \A v \in Users \ {u} : e.user[v] = d.user[v]
<1>1. d.user \in [Users -> F!UserDocs] /\ d.user[u] \in F!UserDocs
  BY DEF PlatformDocs
<1>2. d = [user |-> d.user, restaurant |-> d.restaurant]
  BY DEF PlatformDocs
<1>3. ASSUME NEW on \in BOOLEAN
      PROVE  LET e == [d EXCEPT !.user[u].active = on]
             IN  /\ e \in PlatformDocs
                 /\ e.user[u].active = on /\ e.user[u].rank = d.user[u].rank
                 /\ \A v \in Users \ {u} : e.user[v] = d.user[v]
  <2> DEFINE doc == [d.user[u] EXCEPT !.active = on]
  <2>1. doc \in F!UserDocs /\ doc.active = on /\ doc.rank = d.user[u].rank
    BY <1>1 DEF F!UserDocs
  <2> DEFINE docs == [d.user EXCEPT ![u] = doc]
  <2>2. docs \in [Users -> F!UserDocs] /\ docs[u] = doc
        /\ \A v \in Users \ {u} : docs[v] = d.user[v]
    BY <1>1, <2>1
  <2>a. [d EXCEPT !.user[u].active = on] = [d EXCEPT !.user = docs]
    OBVIOUS
  <2> HIDE DEF doc, docs
  <2>b. [d EXCEPT !.user = docs] = [user |-> docs, restaurant |-> d.restaurant]
    BY DEF PlatformDocs
  <2>3. [d EXCEPT !.user[u].active = on] = [user |-> docs, restaurant |-> d.restaurant]
    BY <2>a, <2>b, Zenon
  <2>4. d.restaurant \in [status : F!TENANT_STATUSES \cup {"none"}, owned : BOOLEAN]
    BY DEF PlatformDocs
  <2>5. [user |-> docs, restaurant |-> d.restaurant] \in PlatformDocs
    BY <2>2, <2>4 DEF PlatformDocs
  <2> QED
    BY <2>1, <2>2, <2>3, <2>5
<1>4. ASSUME NEW k \in F!Ranks
      PROVE  LET e == [d EXCEPT !.user[u].rank = k]
             IN  /\ e \in PlatformDocs
                 /\ e.user[u].rank = k /\ e.user[u].active = d.user[u].active
                 /\ \A v \in Users \ {u} : e.user[v] = d.user[v]
  <2> DEFINE doc == [d.user[u] EXCEPT !.rank = k]
  <2>1. doc \in F!UserDocs /\ doc.rank = k /\ doc.active = d.user[u].active
    BY <1>1 DEF F!UserDocs
  <2> DEFINE docs == [d.user EXCEPT ![u] = doc]
  <2>2. docs \in [Users -> F!UserDocs] /\ docs[u] = doc
        /\ \A v \in Users \ {u} : docs[v] = d.user[v]
    BY <1>1, <2>1
  <2>a. [d EXCEPT !.user[u].rank = k] = [d EXCEPT !.user = docs]
    OBVIOUS
  <2> HIDE DEF doc, docs
  <2>b. [d EXCEPT !.user = docs] = [user |-> docs, restaurant |-> d.restaurant]
    BY DEF PlatformDocs
  <2>3. [d EXCEPT !.user[u].rank = k] = [user |-> docs, restaurant |-> d.restaurant]
    BY <2>a, <2>b, Zenon
  <2>4. d.restaurant \in [status : F!TENANT_STATUSES \cup {"none"}, owned : BOOLEAN]
    BY DEF PlatformDocs
  <2>5. [user |-> docs, restaurant |-> d.restaurant] \in PlatformDocs
    BY <2>2, <2>4 DEF PlatformDocs
  <2> QED
    BY <2>1, <2>2, <2>3, <2>5
<1> QED
  BY <1>3, <1>4

\* A restaurant's status, and that it has an owner.
LEMMA RestaurantSet ==
  ASSUME NEW d \in PlatformDocs
  PROVE  /\ \A x \in F!TENANT_STATUSES :
               /\ [d EXCEPT !.restaurant.status = x] \in PlatformDocs
               /\ [d EXCEPT !.restaurant.status = x].user = d.user
         /\ [d EXCEPT !.restaurant.owned = TRUE] \in PlatformDocs
         /\ [d EXCEPT !.restaurant.owned = TRUE].user = d.user
<1>1. /\ d.restaurant \in [status : F!TENANT_STATUSES \cup {"none"}, owned : BOOLEAN]
      /\ d.user \in [Users -> F!UserDocs]
  BY DEF PlatformDocs
<1>2. ASSUME NEW x \in F!TENANT_STATUSES
      PROVE  /\ [d EXCEPT !.restaurant.status = x] \in PlatformDocs
             /\ [d EXCEPT !.restaurant.status = x].user = d.user
  <2> DEFINE doc == [d.restaurant EXCEPT !.status = x]
  <2>1. doc \in [status : F!TENANT_STATUSES \cup {"none"}, owned : BOOLEAN]
    BY <1>1
  <2>2. [d EXCEPT !.restaurant.status = x] = [d EXCEPT !.restaurant = doc]
    OBVIOUS
  <2> HIDE DEF doc
  <2>3. [d EXCEPT !.restaurant = doc] = [user |-> d.user, restaurant |-> doc]
    BY DEF PlatformDocs
  <2>4. [user |-> d.user, restaurant |-> doc] \in PlatformDocs
    BY <1>1, <2>1 DEF PlatformDocs
  <2> QED
    BY <2>2, <2>3, <2>4
<1>3. ASSUME NEW x \in {TRUE}
      PROVE  /\ [d EXCEPT !.restaurant.owned = x] \in PlatformDocs
             /\ [d EXCEPT !.restaurant.owned = x].user = d.user
  <2> DEFINE doc == [d.restaurant EXCEPT !.owned = x]
  <2>1. doc \in [status : F!TENANT_STATUSES \cup {"none"}, owned : BOOLEAN]
    BY <1>1
  <2>2. [d EXCEPT !.restaurant.owned = x] = [d EXCEPT !.restaurant = doc]
    OBVIOUS
  <2> HIDE DEF doc
  <2>3. [d EXCEPT !.restaurant = doc] = [user |-> d.user, restaurant |-> doc]
    BY DEF PlatformDocs
  <2>4. [user |-> d.user, restaurant |-> doc] \in PlatformDocs
    BY <1>1, <2>1 DEF PlatformDocs
  <2> QED
    BY <2>2, <2>3, <2>4
<1> QED
  BY <1>2, <1>3

\* The target is read: nobody switches off a super administrator.
LEMMA PlatformLoads ==
  ASSUME PlatformIInv, NEW r \in Requests, F!LoadTarget(r)
  PROVE  PlatformIInv'
<1> DEFINE ask == asks[r]
           target == db.user[ask.target]
           demotes == ask.op # "active" /\ target.rank = F!super_admin
           may == CASE ask.op = "active" -> F!MaySetActive(ask, target)
                    [] ask.op = "role" -> F!MaySetRole(ask, target)
                    [] ask.op = "script" -> F!MayGrantFromShell(ask, target)
           pc == IF demotes THEN "counting" ELSE "saving"
           next == [ask EXCEPT !.pc = pc]
<1>1. /\ ask.pc = "authorized" /\ ask.target # NoUser /\ db' = db
      /\ asks' = [asks EXCEPT ![r] = IF ~may THEN F!NoAsk ELSE next]
  BY Zenon DEF F!LoadTarget, F!At
<1>2. asks \in [Requests -> F!AskDocs] /\ ask \in F!AskDocs /\ db \in PlatformDocs
  BY DEF PlatformIInv, PlatformTypeOK
<1>3. /\ pc \in {"idle", "authorized", "counting", "saving", "owning"}
      /\ pc \in {"counting", "saving"} /\ (pc = "saving" => ~demotes)
      /\ pc = "counting" => ask.op # "active"
  OBVIOUS
<1>4. ask.op = "active" /\ may => F!MaySetActive(ask, target)
  BY Zenon
<1>5. target \in F!UserDocs /\ target.rank \in F!Ranks /\ ask.rank \in F!Ranks
  BY <1>1, <1>2 DEF F!AskDocs, PlatformDocs, F!UserDocs
<1>6. ask.op = "active" /\ may => target.rank # F!super_admin
  BY <1>4, <1>5 DEF F!MaySetActive, F!canAdministerPlatformUser, F!Ranks, F!super_admin
<1> HIDE DEF may, pc
<1>7. /\ next \in F!AskDocs /\ next.pc = pc /\ next.alone = ask.alone
      /\ next.op = ask.op /\ next.target = ask.target /\ next.on = ask.on
  BY <1>2, <1>3, PcSet, Zenon
<1> HIDE DEF next
<1>8. CASE may
  <2>1. asks' = [asks EXCEPT ![r] = next]
    BY <1>1, <1>8
  <2>2. asks'[r] = next
    BY <1>2, <2>1
  <2>3. next.pc = "saving" => Left(r)'
    <3>1. next.pc = "saving" => target.rank # F!super_admin
      BY <1>3, <1>6, <1>7, <1>8
    <3> QED
      BY <1>1, <1>7, <2>2, <3>1 DEF Left
  <2> QED
    BY <1>1, <1>2, <1>3, <1>7, <2>1, <2>3, PlatformGoesOn
<1>9. CASE ~may
  BY <1>1, <1>2, <1>9, NoAskTyped, PlatformGoesOn
<1> QED
  BY <1>8, <1>9

\* Another super administrator is found, or the request is refused.
LEMMA PlatformCounts ==
  ASSUME PlatformIInv, NEW r \in Requests, F!CountSupers(r)
  PROVE  PlatformIInv'
<1> DEFINE next == [asks[r] EXCEPT !.pc = "saving"]
<1>1. /\ asks[r].pc = "counting" /\ db' = db
      /\ asks' = [asks EXCEPT ![r] = IF F!Remaining(asks[r].target) = {} THEN F!NoAsk ELSE next]
  BY Zenon DEF F!CountSupers, F!At
<1>2. asks \in [Requests -> F!AskDocs] /\ asks[r] \in F!AskDocs /\ db \in PlatformDocs
  BY DEF PlatformIInv, PlatformTypeOK
<1>3. /\ next \in F!AskDocs /\ next.pc = "saving" /\ next.alone = asks[r].alone
      /\ next.op = asks[r].op /\ next.target = asks[r].target /\ next.on = asks[r].on
  BY <1>2, PcSet, Zenon
<1> HIDE DEF next
<1>4. CASE F!Remaining(asks[r].target) = {}
  BY <1>1, <1>2, <1>4, NoAskTyped, PlatformGoesOn
<1>5. CASE F!Remaining(asks[r].target) # {}
  <2>1. asks' = [asks EXCEPT ![r] = next] /\ asks'[r] = next
    BY <1>1, <1>2, <1>5
  <2>2. asks[r].op # "active"
    BY <1>1 DEF PlatformIInv
  <2>3. Left(r)'
    BY <1>1, <1>3, <1>5, <2>1, <2>2 DEF Left, F!Remaining, F!Supers
  <2> QED
    BY <1>1, <1>2, <1>3, <2>1, <2>3, PlatformGoesOn
<1> QED
  BY <1>4, <1>5

\* What was asked for is written.
LEMMA PlatformSaves ==
  ASSUME PlatformIInv, NEW r \in Requests, F!SaveTarget(r)
  PROVE  PlatformIInv'
<1> DEFINE ask == asks[r]
           u == ask.target
<1>1. /\ ask.pc = "saving" /\ u # NoUser /\ asks' = [asks EXCEPT ![r] = F!NoAsk]
      /\ db' = IF ask.op = "active" THEN [db EXCEPT !.user[u].active = ask.on]
               ELSE [db EXCEPT !.user[u].rank = ask.wanted]
  BY DEF F!SaveTarget, F!At
<1>2. db \in PlatformDocs /\ ask \in F!AskDocs
  BY DEF PlatformIInv, PlatformTypeOK
<1>3. u \in Users /\ ask.on \in BOOLEAN /\ ask.wanted \in F!Ranks
  BY <1>1, <1>2 DEF F!AskDocs
<1> HIDE DEF ask, u
<1>4. db' \in PlatformDocs
  <2>1. /\ [db EXCEPT !.user[u].active = ask.on] \in PlatformDocs
        /\ [db EXCEPT !.user[u].rank = ask.wanted] \in PlatformDocs
    BY <1>2, <1>3, PlatformDocSet
  <2> QED
    BY <1>1, <2>1
<1>5. asks[r].pc # "idle"
  BY <1>1 DEF ask
<1> QED
  BY <1>1, <1>4, <1>5, NoAskTyped, PlatformGoesOn

\* A restaurant switches an account of its own: who is in progress has company.
LEMMA PlatformSwitches ==
  ASSUME PlatformIInv, NEW u \in Users, F!SetAccountActive(u)
  PROVE  PlatformIInv'
<1> DEFINE ask(q) == [asks[q] EXCEPT !.alone = @ /\ asks[q].pc = "idle"]
<1>1. asks' = [q \in Requests |-> ask(q)] /\ db' = [db EXCEPT !.user[u].active = ~@]
  BY DEF F!SetAccountActive
<1>2. asks \in [Requests -> F!AskDocs] /\ db \in PlatformDocs
  BY DEF PlatformIInv, PlatformTypeOK
<1>3. ASSUME NEW q \in Requests
      PROVE  /\ ask(q) \in F!AskDocs /\ ask(q).pc = asks[q].pc /\ ask(q).op = asks[q].op
             /\ asks[q].pc # "idle" => ~ask(q).alone
  <2>1. (asks[q].alone /\ asks[q].pc = "idle") \in BOOLEAN
    OBVIOUS
  <2>2. ask(q) = [asks[q] EXCEPT !.alone = (asks[q].alone /\ asks[q].pc = "idle")]
    BY Zenon
  <2>3. asks[q] \in F!AskDocs
    BY <1>2
  <2> HIDE DEF ask
  <2>4. /\ ask(q) \in F!AskDocs /\ ask(q).pc = asks[q].pc /\ ask(q).op = asks[q].op
        /\ ask(q).alone = (asks[q].alone /\ asks[q].pc = "idle")
    BY <2>1, <2>2, <2>3, AloneSet, Zenon
  <2> QED
    BY <2>4
<1> HIDE DEF ask
<1>4. \A q \in Requests : asks'[q] = ask(q)
  BY <1>1
<1>5. db' \in PlatformDocs
  <2>1. db' = [db EXCEPT !.user[u].active = ~db.user[u].active]
    BY <1>1, Zenon
  <2>2. (~db.user[u].active) \in BOOLEAN
    OBVIOUS
  <2> QED
    BY <1>2, <2>1, <2>2, PlatformDocSet
<1>6. asks' \in [Requests -> F!AskDocs]
  BY <1>1, <1>3
<1>7. \A q \in Requests : asks'[q].pc # "idle" => ~asks'[q].alone
  BY <1>3, <1>4
<1>8. \A q \in Requests : asks'[q].pc = "counting" => asks'[q].op # "active"
  BY <1>3, <1>4 DEF PlatformIInv
<1> QED
  BY <1>5, <1>6, <1>7, <1>8 DEF PlatformIInv, PlatformTypeOK

\* Nothing changes but the restaurant, or nothing at all.
LEMMA PlatformElsewhere ==
  ASSUME PlatformIInv, db' \in PlatformDocs, db'.user = db.user, asks' = asks
  PROVE  PlatformIInv'
<1>1. \A u : (F!Remaining(u))' = F!Remaining(u)
  BY DEF F!Remaining, F!Supers
<1>2. \A r \in Requests : Left(r) => Left(r)'
  BY <1>1 DEF Left
<1> QED
  BY <1>2 DEF PlatformIInv, PlatformTypeOK

\* What restaurants do.
LEMMA PlatformTenants ==
  ASSUME PlatformIInv, NEW r \in Requests, F!TenantStep(r)
  PROVE  PlatformIInv'
<1>1. asks \in [Requests -> F!AskDocs] /\ db \in PlatformDocs /\ asks[r] \in F!AskDocs
  BY DEF PlatformIInv, PlatformTypeOK
<1>2. CASE F!CreateRestaurant(r)
  <2>1. asks' = asks
        /\ \E status \in F!TENANT_STATUSES : db' = [db EXCEPT !.restaurant.status = status]
    BY <1>2 DEF F!CreateRestaurant
  <2>2. db' \in PlatformDocs /\ db'.user = db.user
    BY <1>1, <2>1, RestaurantSet
  <2> QED
    BY <2>1, <2>2, PlatformElsewhere
<1>3. CASE F!ProvisionRestaurant(r)
  <2>1. /\ asks[r].pc = "idle" /\ db' = [db EXCEPT !.restaurant.status = "active"]
        /\ F!Starts(r, [F!NoAsk EXCEPT !.pc = "owning", !.op = "provision"])
    BY <1>3 DEF F!ProvisionRestaurant
  <2>2. "active" \in F!TENANT_STATUSES
    BY DEF F!TENANT_STATUSES
  <2>3. db' \in PlatformDocs
    BY <1>1, <2>1, <2>2, RestaurantSet
  <2>4. PICK a : a = [F!NoAsk EXCEPT !.pc = "owning", !.op = "provision"]
    OBVIOUS
  <2>5. a \in F!AskDocs /\ a.pc = "owning"
    BY <2>4, ProvisionAsked, Zenon
  <2>6. F!Starts(r, a)
    BY <2>1, <2>4, Zenon
  <2> QED
    BY <2>1, <2>3, <2>5, <2>6, PlatformStarts
<1>4. CASE F!CreateOwner(r)
  <2>1. /\ asks[r].pc = "owning" /\ db' \in {db, [db EXCEPT !.restaurant.owned = TRUE]}
        /\ asks' = [asks EXCEPT ![r] = F!NoAsk]
    BY <1>4 DEF F!CreateOwner, F!At
  <2>2. db' \in PlatformDocs
    BY <1>1, <2>1, RestaurantSet
  <2> QED
    BY <2>1, <2>2, NoAskTyped, PlatformGoesOn
<1>5. CASE F!LIFECYCLE(r)
  <2>1. PICK actor \in Users, status \in F!TENANT_STATUSES :
           F!assertPlatform(r, actor, [F!NoAsk EXCEPT !.op = "status", !.status = status])
    BY <1>5 DEF F!LIFECYCLE
  <2>2. PICK a : a = [F!NoAsk EXCEPT !.op = "status", !.status = status]
    OBVIOUS
  <2>3. a \in F!AskDocs
    BY <2>2, StatusAsked, Zenon
  <2>4. F!assertPlatform(r, actor, a)
    BY <2>1, <2>2, Zenon
  <2> QED
    BY <2>3, <2>4, PlatformAuthorized
<1>6. CASE F!SetRestaurantStatus(r)
  <2>1. /\ asks[r].pc = "authorized" /\ asks' = [asks EXCEPT ![r] = F!NoAsk]
        /\ db' = [db EXCEPT !.restaurant.status = asks[r].status]
    BY <1>6 DEF F!SetRestaurantStatus, F!At
  <2>2. asks[r].status \in F!TENANT_STATUSES
    BY <1>1 DEF F!AskDocs
  <2>3. db' \in PlatformDocs
    BY <1>1, <2>1, <2>2, RestaurantSet
  <2> QED
    BY <2>1, <2>3, NoAskTyped, PlatformGoesOn
<1> QED
  BY <1>2, <1>3, <1>4, <1>5, <1>6 DEF F!TenantStep

\* What operators do.
LEMMA PlatformOperators ==
  ASSUME PlatformIInv, NEW r \in Requests, F!OperatorStep(r)
  PROVE  PlatformIInv'
<1>1. CASE F!SetPlatformUserActive(r)
  <2>1. PICK actor \in Users, u \in Users, on \in BOOLEAN :
           F!assertPlatform(r, actor, [F!NoAsk EXCEPT !.op = "active", !.target = u, !.on = on])
    BY <1>1 DEF F!SetPlatformUserActive
  <2>2. PICK a : a = [F!NoAsk EXCEPT !.op = "active", !.target = u, !.on = on]
    OBVIOUS
  <2>3. a \in F!AskDocs
    BY <2>2, ActiveAsked, Zenon
  <2>4. F!assertPlatform(r, actor, a)
    BY <2>1, <2>2, Zenon
  <2> QED
    BY <2>3, <2>4, PlatformAuthorized
<1>2. CASE F!SetPlatformRole(r)
  <2>1. PICK actor \in Users, u \in Users, k \in F!Ranks :
           F!assertPlatform(r, actor, [F!NoAsk EXCEPT !.target = u, !.wanted = k])
    BY <1>2 DEF F!SetPlatformRole
  <2>2. PICK a : a = [F!NoAsk EXCEPT !.target = u, !.wanted = k]
    OBVIOUS
  <2>3. a \in F!AskDocs
    BY <2>2, RoleAsked, Zenon
  <2>4. F!assertPlatform(r, actor, a)
    BY <2>1, <2>2, Zenon
  <2> QED
    BY <2>3, <2>4, PlatformAuthorized
<1>3. CASE \E target \in Users, rank \in F!Ranks : F!PlatformAdminScript(r, target, rank)
  <2>1. PICK u \in Users, k \in F!Ranks : F!PlatformAdminScript(r, u, k)
    BY <1>3
  <2>2. PICK a : a = [F!NoAsk EXCEPT !.pc = "authorized", !.op = "script", !.target = u,
                                     !.wanted = k]
    OBVIOUS
  <2>3. a \in F!AskDocs /\ a.pc = "authorized"
    BY <2>2, ScriptAsked, Zenon
  <2>4. asks[r].pc = "idle" /\ F!Starts(r, a) /\ db' = db
    BY <2>1, <2>2, Zenon DEF F!PlatformAdminScript
  <2>5. db' \in PlatformDocs
    BY <2>4 DEF PlatformIInv, PlatformTypeOK
  <2> QED
    BY <2>3, <2>4, <2>5, PlatformStarts
<1> QED
  BY <1>1, <1>2, <1>3, PlatformLoads, PlatformCounts, PlatformSaves DEF F!OperatorStep

\* Nobody has asked for anything.
LEMMA PlatformInit ==
  ASSUME F!Init
  PROVE  PlatformIInv
<1>1. asks = [r \in Requests |-> F!NoAsk]
  BY DEF F!Init
<1>2. db \in PlatformDocs
  BY DEF F!Init, PlatformDocs, F!TENANT_STATUSES
<1>3. \A r \in Requests : asks[r].pc = "idle" /\ asks[r] \in F!AskDocs
  BY <1>1, NoAskTyped
<1> QED
  BY <1>1, <1>2, <1>3, NoAskTyped DEF PlatformIInv, PlatformTypeOK

\* A write of a request that was alone leaves a super administrator.
LEMMA PlatformKeepsSuper ==
  ASSUME PlatformIInv
  PROVE  F!ASuperStays
<1> SUFFICES ASSUME NEW r \in Requests, asks[r].alone, F!SaveTarget(r), F!Supers(db) # {}
             PROVE  F!Supers(db') # {}
  BY DEF F!ASuperStays
<1> DEFINE ask == asks[r]
           u == ask.target
<1>1. /\ ask.pc = "saving" /\ u # NoUser
      /\ db' = IF ask.op = "active" THEN [db EXCEPT !.user[u].active = ask.on]
               ELSE [db EXCEPT !.user[u].rank = ask.wanted]
  BY DEF F!SaveTarget
<1>2. db \in PlatformDocs /\ ask \in F!AskDocs
  BY DEF PlatformIInv, PlatformTypeOK
<1>3. u \in Users /\ ask.on \in BOOLEAN /\ ask.wanted \in F!Ranks
  BY <1>1, <1>2 DEF F!AskDocs
<1>4. IF ask.op = "active" THEN ask.on \/ db.user[u].rank # F!super_admin
      ELSE db.user[u].rank # F!super_admin \/ F!Remaining(u) # {}
  BY <1>1 DEF PlatformIInv, Left
<1> HIDE DEF ask, u
<1>5. \A v \in Users \ {u} : db'.user[v] = db.user[v]
  BY <1>1, <1>2, <1>3, PlatformDocSet
<1>6. PICK v \in Users : db.user[v].rank = F!super_admin /\ db.user[v].active
  BY DEF F!Supers
<1>7. CASE ask.op = "active"
  <2>1. db'.user[u].active = ask.on /\ db'.user[u].rank = db.user[u].rank
    BY <1>1, <1>2, <1>3, <1>7, PlatformDocSet
  <2>2. db'.user[v].rank = F!super_admin /\ db'.user[v].active
    BY <1>4, <1>5, <1>6, <1>7, <2>1
  <2> QED
    BY <2>2 DEF F!Supers
<1>8. CASE ask.op # "active"
  <2>1. PICK w \in Users \ {u} : db.user[w].rank = F!super_admin /\ db.user[w].active
    BY <1>4, <1>6, <1>8 DEF F!Remaining, F!Supers
  <2>2. db'.user[w].rank = F!super_admin /\ db'.user[w].active
    BY <1>5, <2>1
  <2> QED
    BY <2>2 DEF F!Supers
<1> QED
  BY <1>7, <1>8

\* The platform keeps its invariant in every behaviour.
LEMMA PlatformHolds == Spec => [](part = "platform" => PlatformIInv)
<1> DEFINE IInv == part = "platform" => PlatformIInv
<1>1. Init => IInv
  BY PlatformInit DEF Init
<1>2. ASSUME IInv, [Next]_vars
      PROVE  IInv'
  <2>1. CASE part # "platform"
    BY <1>2, <2>1 DEF Next, vars
  <2>2. CASE part = "platform"
    <3>1. \/ \E r \in Requests : F!OperatorStep(r) \/ F!TenantStep(r)
          \/ \E u \in Users : F!SetAccountActive(u)
          \/ db' = db /\ asks' = asks
      BY <1>2, <2>2 DEF Next, vars, F!Next
    <3>2. PlatformIInv
      BY <1>2, <2>2
    <3>3. CASE db' = db /\ asks' = asks
      BY <3>2, <3>3, PlatformElsewhere DEF PlatformIInv, PlatformTypeOK
    <3> QED
      BY <3>1, <3>2, <3>3, PlatformOperators, PlatformTenants, PlatformSwitches
  <2> QED
    BY <2>1, <2>2
<1> QED
  BY <1>1, <1>2, PTL DEF Spec

\* platformAdmin.js:367, scripts/platform-admin.js:130: whatever operators and restaurants did
\* before it, a request to the platform that nothing overlaps leaves the platform a super
\* administrator who can sign in, when it had one.
THEOREM ASuperStaysTheorem == Spec => ASuperStays
<1> DEFINE IInv == part = "platform" => PlatformIInv
           Body == part = "platform" => F!ASuperStays
<1>1. IInv /\ [Next]_vars => Body
  BY PlatformKeepsSuper
<1> QED
  BY <1>1, PlatformHolds, PTL DEF Spec, ASuperStays

-------------------------------------------------------------------------------
(* The subscription of a restaurant.                                       *)

\* What a request writes of the status begins no trial, and a period that begins with it
\* is not over.
Begins(r) ==
    asks[r].pc \in {"saving", "ending"} /\ "status" \in asks[r].set =>
        /\ asks[r].doc.status # "trialing"
        /\ asks[r].doc.status \in S!OPERATIONAL_SUBSCRIPTION_STATUSES =>
              "end" \in asks[r].set /\ asks[r].doc.end > now

\* Types, and what each request is about to write.
SubscriptionIInv ==
    /\ db \in S!Subscription
    /\ now \in 0..MaxNow
    /\ asks \in [Requests -> S!AskDocs]
    /\ \A r \in Requests : Begins(r)

\* A document that was changed as administrators and the sweep change it: the status begins
\* no trial, and a period begins with it.
Proper(doc) ==
    /\ doc \in S!Subscription
    /\ doc.status # db.status =>
          /\ doc.status # "trialing"
          /\ doc.status \in S!OPERATIONAL_SUBSCRIPTION_STATUSES => doc.end > now

\* The fields that a save goes over.
LEMMA SubscriptionFields ==
  ASSUME db \in S!Subscription
  PROVE  S!Fields = {"plan", "status", "end", "cancelAtPeriodEnd"}
BY DEF S!Subscription, S!Fields

\* What a save takes from a document that was changed: a status with the period that begins
\* with it.
LEMMA SavingProper ==
  ASSUME SubscriptionIInv, NEW doc, Proper(doc), NEW pc \in {"saving", "ending"}
  PROVE  /\ S!Saving(pc, doc) \in S!AskDocs
         /\ S!Saving(pc, doc).pc = pc /\ S!Saving(pc, doc).doc = doc
         /\ "status" \in S!Saving(pc, doc).set => doc.status # db.status
         /\ doc.status # db.status /\ doc.status \in S!OPERATIONAL_SUBSCRIPTION_STATUSES
               => "end" \in S!Saving(pc, doc).set
<1> DEFINE set == {f \in S!Fields : doc[f] # db[f]}
                     \cup (IF doc.status \in S!OPERATIONAL_SUBSCRIPTION_STATUSES
                              /\ doc.status # db.status THEN {"end"} ELSE {})
<1>1. S!Saving(pc, doc) = [pc |-> pc, doc |-> doc, set |-> set]
  BY DEF S!Saving
<1>2. set \in SUBSET {"plan", "status", "end", "cancelAtPeriodEnd"}
  BY SubscriptionFields DEF SubscriptionIInv
<1>3. "status" \in set => doc.status # db.status
  OBVIOUS
<1>4. doc.status # db.status /\ doc.status \in S!OPERATIONAL_SUBSCRIPTION_STATUSES
        => "end" \in set
  OBVIOUS
<1> HIDE DEF set
<1>5. doc \in S!Subscription
  BY DEF Proper
<1>6. [pc |-> pc, doc |-> doc, set |-> set] \in S!AskDocs
  BY <1>2, <1>5 DEF S!AskDocs
<1> QED
  BY <1>1, <1>3, <1>4, <1>6

\* A request comes to where it is about to save a document.
LEMMA SubscriptionSaving ==
  ASSUME SubscriptionIInv, NEW r \in Requests, NEW doc, Proper(doc),
         NEW pc \in {"saving", "ending"}, S!At(r, S!Saving(pc, doc)), db' = db, now' = now
  PROVE  SubscriptionIInv'
<1> DEFINE ask == S!Saving(pc, doc)
<1>1. asks' = [asks EXCEPT ![r] = ask]
  BY DEF S!At
<1>2. /\ ask \in S!AskDocs /\ ask.pc = pc /\ ask.doc = doc
      /\ "status" \in ask.set => doc.status # db.status
      /\ doc.status # db.status /\ doc.status \in S!OPERATIONAL_SUBSCRIPTION_STATUSES
            => "end" \in ask.set
  BY SavingProper
<1> HIDE DEF ask
<1>3. asks \in [Requests -> S!AskDocs]
  BY DEF SubscriptionIInv
<1>4. \A q \in Requests : asks'[q] = IF q = r THEN ask ELSE asks[q]
  BY <1>1, <1>3
<1>5. asks' \in [Requests -> S!AskDocs]
  BY <1>1, <1>2, <1>3
<1>6. ASSUME NEW q \in Requests
      PROVE  Begins(q)'
  <2>1. CASE q = r
    BY <1>2, <1>4, <2>1 DEF Begins, Proper
  <2>2. CASE q # r
    BY <1>4, <2>2 DEF Begins, SubscriptionIInv
  <2> QED
    BY <2>1, <2>2
<1> QED
  BY <1>5, <1>6 DEF SubscriptionIInv

\* A request comes to where it has nothing to save.
LEMMA SubscriptionElse ==
  ASSUME SubscriptionIInv, NEW r \in Requests, NEW ask \in S!AskDocs, S!At(r, ask),
         ask.pc \notin {"saving", "ending"}, db' \in S!Subscription, now' = now
  PROVE  SubscriptionIInv'
<1>1. asks' = [asks EXCEPT ![r] = ask] /\ asks \in [Requests -> S!AskDocs]
  BY DEF S!At, SubscriptionIInv
<1>2. \A q \in Requests : asks'[q] = IF q = r THEN ask ELSE asks[q]
  BY <1>1
<1>3. asks' \in [Requests -> S!AskDocs]
  BY <1>1
<1>4. \A q \in Requests : Begins(q)'
  BY <1>2 DEF Begins, SubscriptionIInv
<1> QED
  BY <1>3, <1>4 DEF SubscriptionIInv

\* A subscription with one field replaced.
LEMMA SubscriptionSet ==
  ASSUME NEW d \in S!Subscription
  PROVE  /\ \A p \in Plans : /\ [d EXCEPT !.plan = p] \in S!Subscription
                             /\ [d EXCEPT !.plan = p].status = d.status
         /\ \A k \in S!SUBSCRIPTION_STATUSES :
               /\ [d EXCEPT !.status = k] \in S!Subscription /\ [d EXCEPT !.status = k].status = k
         /\ \A b \in BOOLEAN :
               /\ [d EXCEPT !.cancelAtPeriodEnd = b] \in S!Subscription
               /\ [d EXCEPT !.cancelAtPeriodEnd = b].status = d.status
         /\ \A n \in 0..MaxNow + Trial + Period :
               /\ [d EXCEPT !.end = n] \in S!Subscription
               /\ [d EXCEPT !.end = n].status = d.status /\ [d EXCEPT !.end = n].end = n
<1>1. ASSUME NEW p \in Plans
      PROVE  /\ [d EXCEPT !.plan = p] \in S!Subscription
             /\ [d EXCEPT !.plan = p].status = d.status
  BY DEF S!Subscription
<1>2. ASSUME NEW k \in S!SUBSCRIPTION_STATUSES
      PROVE  /\ [d EXCEPT !.status = k] \in S!Subscription /\ [d EXCEPT !.status = k].status = k
  BY DEF S!Subscription
<1>3. ASSUME NEW b \in BOOLEAN
      PROVE  /\ [d EXCEPT !.cancelAtPeriodEnd = b] \in S!Subscription
             /\ [d EXCEPT !.cancelAtPeriodEnd = b].status = d.status
  BY DEF S!Subscription
<1>4. ASSUME NEW n \in 0..MaxNow + Trial + Period
      PROVE  /\ [d EXCEPT !.end = n] \in S!Subscription
             /\ [d EXCEPT !.end = n].status = d.status /\ [d EXCEPT !.end = n].end = n
  BY DEF S!Subscription
<1> QED
  BY <1>1, <1>2, <1>3, <1>4, Zenon

\* A period that begins is not over.
LEMMA RenewedProper ==
  ASSUME SubscriptionIInv, NEW d \in S!Subscription
  PROVE  Proper(S!Renewed(d))
<1>1. /\ now + Period \in 0..MaxNow + Trial + Period /\ now + Period > now
      /\ FALSE \in BOOLEAN /\ "active" \in S!SUBSCRIPTION_STATUSES
  BY ServerAssumption DEF SubscriptionIInv, S!SubscriptionsAssumption, S!SUBSCRIPTION_STATUSES
<1>2. PICK a : a = [d EXCEPT !.status = "active"]
  OBVIOUS
<1>3. PICK b : b = [a EXCEPT !.cancelAtPeriodEnd = FALSE]
  OBVIOUS
<1>4. PICK c : c = [b EXCEPT !.end = now + Period]
  OBVIOUS
<1>5. a \in S!Subscription /\ a.status = "active"
  BY <1>1, <1>2, SubscriptionSet, Zenon
<1>6. b \in S!Subscription /\ b.status = "active"
  BY <1>1, <1>3, <1>5, SubscriptionSet, Zenon
<1>7. c \in S!Subscription /\ c.status = "active" /\ c.end = now + Period
  BY <1>1, <1>4, <1>6, SubscriptionSet, Zenon
<1>8. S!Renewed(d) = c
  BY <1>2, <1>3, <1>4, Zenon DEF S!Renewed
<1> QED
  BY <1>1, <1>7, <1>8 DEF Proper

\* A document that an administrator reads and changes.
LEMMA SubscriptionReads ==
  ASSUME SubscriptionIInv, NEW r \in Requests, NEW doc, Proper(doc), S!Reads(r, doc)
  PROVE  SubscriptionIInv'
BY SubscriptionSaving DEF S!Reads

\* Assigning a plan.
LEMMA SubscriptionAssigns ==
  ASSUME SubscriptionIInv, NEW r \in Requests, NEW plan \in Plans, S!AssignPlan(r, plan)
  PROVE  SubscriptionIInv'
<1> DEFINE doc == [db EXCEPT !.plan = plan]
<1>1. doc \in S!Subscription /\ doc.status = db.status
  BY SubscriptionSet, Zenon DEF SubscriptionIInv
<1>2. S!Reads(r, IF db.status \in {"cancelled", "expired"} THEN S!Renewed(doc) ELSE doc)
  BY DEF S!AssignPlan
<1> HIDE DEF doc
<1>3. Proper(doc)
  BY <1>1 DEF Proper
<1>4. Proper(S!Renewed(doc))
  BY <1>1, RenewedProper
<1> QED
  BY <1>2, <1>3, <1>4, SubscriptionReads

\* Extending a trial, while it runs.
LEMMA SubscriptionExtends ==
  ASSUME SubscriptionIInv, NEW r \in Requests, S!ExtendTrial(r)
  PROVE  SubscriptionIInv'
<1> DEFINE n == Trial + (IF db.end > now THEN db.end ELSE now)
           doc == [db EXCEPT !.end = n]
<1>1. db.end <= MaxNow /\ S!Reads(r, doc)
  BY Zenon DEF S!ExtendTrial
<1>2. db \in S!Subscription /\ db.end \in Nat /\ now \in 0..MaxNow
  BY DEF SubscriptionIInv, S!Subscription
<1>3. n \in 0..MaxNow + Trial + Period
  BY <1>1, <1>2, ServerAssumption DEF S!SubscriptionsAssumption
<1> HIDE DEF n
<1>4. doc \in S!Subscription /\ doc.status = db.status
  BY <1>2, <1>3, SubscriptionSet, Zenon
<1> QED
  BY <1>1, <1>4, SubscriptionReads DEF Proper

\* Cancelling, at once or at the period's end.
LEMMA SubscriptionCancels ==
  ASSUME SubscriptionIInv, NEW r \in Requests, S!CancelSubscription(r)
  PROVE  SubscriptionIInv'
<1>1. db \in S!Subscription /\ TRUE \in BOOLEAN /\ FALSE \in BOOLEAN
      /\ "cancelled" \in S!SUBSCRIPTION_STATUSES
  BY DEF SubscriptionIInv, S!SUBSCRIPTION_STATUSES
<1>2. CASE S!Reads(r, [db EXCEPT !.cancelAtPeriodEnd = TRUE])
  <2>1. PICK a : a = [db EXCEPT !.cancelAtPeriodEnd = TRUE]
    OBVIOUS
  <2>2. a \in S!Subscription /\ a.status = db.status
    BY <1>1, <2>1, SubscriptionSet, Zenon
  <2>3. S!Reads(r, a)
    BY <1>2, <2>1, Zenon
  <2> QED
    BY <2>2, <2>3, SubscriptionReads DEF Proper
<1>3. CASE S!Reads(r, [db EXCEPT !.status = "cancelled", !.cancelAtPeriodEnd = FALSE])
  <2>1. PICK a : a = [db EXCEPT !.status = "cancelled"]
    OBVIOUS
  <2>2. PICK b : b = [a EXCEPT !.cancelAtPeriodEnd = FALSE]
    OBVIOUS
  <2>3. a \in S!Subscription /\ a.status = "cancelled"
    BY <1>1, <2>1, SubscriptionSet, Zenon
  <2>4. b \in S!Subscription /\ b.status = "cancelled"
    BY <1>1, <2>2, <2>3, SubscriptionSet, Zenon
  <2>5. S!Reads(r, b)
    BY <1>3, <2>1, <2>2, Zenon
  <2> QED
    BY <2>4, <2>5, SubscriptionReads DEF Proper, S!OPERATIONAL_SUBSCRIPTION_STATUSES
<1> QED
  BY <1>2, <1>3 DEF S!CancelSubscription

\* Reactivating what was cancelled, or is over.
LEMMA SubscriptionReactivates ==
  ASSUME SubscriptionIInv, NEW r \in Requests, S!ReactivateSubscription(r)
  PROVE  SubscriptionIInv'
<1>1. db \in S!Subscription /\ FALSE \in BOOLEAN
  BY DEF SubscriptionIInv
<1>2. CASE S!Reads(r, [db EXCEPT !.cancelAtPeriodEnd = FALSE])
  <2>1. PICK a : a = [db EXCEPT !.cancelAtPeriodEnd = FALSE]
    OBVIOUS
  <2>2. a \in S!Subscription /\ a.status = db.status
    BY <1>1, <2>1, SubscriptionSet, Zenon
  <2>3. S!Reads(r, a)
    BY <1>2, <2>1, Zenon
  <2> QED
    BY <2>2, <2>3, SubscriptionReads DEF Proper
<1>3. CASE S!Reads(r, S!Renewed(db))
  BY <1>1, <1>3, RenewedProper, SubscriptionReads
<1> QED
  BY <1>2, <1>3 DEF S!ReactivateSubscription

\* Marking a subscription past due.
LEMMA SubscriptionPastDue ==
  ASSUME SubscriptionIInv, NEW r \in Requests, S!MarkPastDue(r)
  PROVE  SubscriptionIInv'
<1>1. db \in S!Subscription /\ "past_due" \in S!SUBSCRIPTION_STATUSES
  BY DEF SubscriptionIInv, S!SUBSCRIPTION_STATUSES
<1>2. PICK a : a = [db EXCEPT !.status = "past_due"]
  OBVIOUS
<1>3. a \in S!Subscription /\ a.status = "past_due"
  BY <1>1, <1>2, SubscriptionSet, Zenon
<1>4. S!Reads(r, a)
  BY <1>2, Zenon DEF S!MarkPastDue
<1> QED
  BY <1>3, <1>4, SubscriptionReads DEF Proper, S!OPERATIONAL_SUBSCRIPTION_STATUSES

\* The sweep ends a trial or a period: what it saves has no period.
LEMMA SubscriptionExpires ==
  ASSUME SubscriptionIInv, NEW r \in Requests, S!ExpireSubscription(r)
  PROVE  SubscriptionIInv'
<1> DEFINE target == S!targetStatus(asks[r].doc)
           flag == db.cancelAtPeriodEnd /\ target # "cancelled"
           doc == [db EXCEPT !.status = target, !.cancelAtPeriodEnd = flag]
<1>1. /\ asks[r].pc = "expiring" /\ db' = db /\ now' = now
      /\ S!At(r, IF db.status # target /\ S!canTransition(db.status, target)
                 THEN S!Saving("ending", doc) ELSE S!NoAsk)
  BY Zenon DEF S!ExpireSubscription
<1>2. target \in {"cancelled", "expired"} /\ flag \in BOOLEAN
  BY DEF S!targetStatus
<1>3. db \in S!Subscription /\ target \in S!SUBSCRIPTION_STATUSES
  BY <1>2 DEF SubscriptionIInv, S!SUBSCRIPTION_STATUSES
<1> HIDE DEF target, flag
<1>4. PICK a : a = [db EXCEPT !.status = target]
  OBVIOUS
<1>5. PICK b : b = [a EXCEPT !.cancelAtPeriodEnd = flag]
  OBVIOUS
<1>6. a \in S!Subscription /\ a.status = target
  BY <1>3, <1>4, SubscriptionSet, Zenon
<1>7. b \in S!Subscription /\ b.status = target
  BY <1>2, <1>5, <1>6, SubscriptionSet, Zenon
<1>8. doc = b
  BY <1>4, <1>5, Zenon
<1>9. Proper(doc)
  BY <1>2, <1>7, <1>8 DEF Proper, S!OPERATIONAL_SUBSCRIPTION_STATUSES
<1> HIDE DEF doc
<1>10. S!NoAsk \in S!AskDocs /\ S!NoAsk.pc = "idle"
  BY ServerAssumption DEF S!NoAsk, S!AskDocs, S!Unsubscribed, S!Subscription,
     S!SUBSCRIPTION_STATUSES, S!SubscriptionsAssumption
<1>11. CASE db.status # target /\ S!canTransition(db.status, target)
  BY <1>1, <1>9, <1>11, SubscriptionSaving
<1>12. CASE ~(db.status # target /\ S!canTransition(db.status, target))
  BY <1>1, <1>3, <1>10, <1>12, SubscriptionElse
<1> QED
  BY <1>11, <1>12

\* A request that is nowhere.
LEMMA SubscriptionNoAsk ==
  /\ S!NoAsk \in S!AskDocs /\ S!NoAsk.pc = "idle"
  /\ S!Recording \in S!AskDocs /\ S!Recording.pc = "recording"
<1>1. S!Unsubscribed \in S!Subscription
  BY ServerAssumption DEF S!Unsubscribed, S!Subscription, S!SUBSCRIPTION_STATUSES,
     S!SubscriptionsAssumption
<1>2. S!NoAsk = [pc |-> "idle", doc |-> S!Unsubscribed, set |-> {}]
  BY DEF S!NoAsk
<1>3. S!Recording = [pc |-> "recording", doc |-> S!Unsubscribed, set |-> {}]
  BY DEF S!Recording, S!NoAsk
<1> QED
  BY <1>1, <1>2, <1>3 DEF S!AskDocs

\* The first plan of a restaurant.
LEMMA SubscriptionAssignsFirst ==
  ASSUME SubscriptionIInv, NEW r \in Requests, NEW plan \in Plans, NEW trial \in BOOLEAN,
         S!AssignFirst(r, plan, trial)
  PROVE  SubscriptionIInv'
<1> DEFINE n == now + IF trial THEN Trial ELSE Period
           doc == [plan |-> plan, status |-> IF trial THEN "trialing" ELSE "active",
                   end |-> n, cancelAtPeriodEnd |-> FALSE]
           ask == [pc |-> "creating", set |-> {}, doc |-> doc]
<1>1. S!At(r, ask) /\ db' = db /\ now' = now
  BY Zenon DEF S!AssignFirst
<1>2. n \in 0..MaxNow + Trial + Period
  BY ServerAssumption DEF SubscriptionIInv, S!SubscriptionsAssumption
<1> HIDE DEF n
<1>3. doc \in S!Subscription
  BY <1>2 DEF S!Subscription, S!SUBSCRIPTION_STATUSES
<1> HIDE DEF doc
<1>4. ask \in S!AskDocs /\ ask.pc = "creating"
  BY <1>3 DEF S!AskDocs
<1> HIDE DEF ask
<1> QED
  BY <1>1, <1>4, SubscriptionElse DEF SubscriptionIInv

\* The sweep selects what is over.
LEMMA SubscriptionSelects ==
  ASSUME SubscriptionIInv, NEW r \in Requests, S!Select(r)
  PROVE  SubscriptionIInv'
<1> DEFINE ask == [pc |-> "expiring", doc |-> db, set |-> {}]
<1>1. S!At(r, ask) /\ db' = db /\ now' = now
  BY DEF S!Select
<1>2. ask \in S!AskDocs /\ ask.pc = "expiring"
  BY DEF S!AskDocs, SubscriptionIInv
<1> HIDE DEF ask
<1> QED
  BY <1>1, <1>2, SubscriptionElse DEF SubscriptionIInv

\* What a save leaves of the document.
LEMMA SavedSubscription ==
  ASSUME SubscriptionIInv, NEW r \in Requests
  PROVE  /\ S!Saved(asks[r]) \in S!Subscription
         /\ "status" \notin asks[r].set => S!Saved(asks[r]).status = db.status
         /\ "status" \in asks[r].set => S!Saved(asks[r]).status = asks[r].doc.status
         /\ "end" \in asks[r].set => S!Saved(asks[r]).end = asks[r].doc.end
<1> DEFINE set == asks[r].set
           doc == asks[r].doc
<1>1. db \in S!Subscription /\ asks[r] \in S!AskDocs
  BY DEF SubscriptionIInv
<1>2. doc \in S!Subscription
  BY <1>1 DEF S!AskDocs
<1>3. S!Saved(asks[r]) = [f \in {"plan", "status", "end", "cancelAtPeriodEnd"} |->
                             IF f \in set THEN doc[f] ELSE db[f]]
  BY <1>1, SubscriptionFields DEF S!Saved
<1> HIDE DEF set, doc
<1>4. S!Saved(asks[r]) = [plan |-> IF "plan" \in set THEN doc.plan ELSE db.plan,
                          status |-> IF "status" \in set THEN doc.status ELSE db.status,
                          end |-> IF "end" \in set THEN doc.end ELSE db.end,
                          cancelAtPeriodEnd |-> IF "cancelAtPeriodEnd" \in set
                              THEN doc.cancelAtPeriodEnd ELSE db.cancelAtPeriodEnd]
  BY <1>3
<1>5. S!Saved(asks[r]) \in S!Subscription
  BY <1>1, <1>2, <1>4 DEF S!Subscription
<1> QED
  BY <1>4, <1>5 DEF set, doc

\* A save, or a row of history, of what was read before.
LEMMA SubscriptionWrites ==
  ASSUME SubscriptionIInv, NEW r \in Requests, S!WriteStep(r)
  PROVE  SubscriptionIInv'
<1>1. CASE S!Save(r)
  <2>1. db' = S!Saved(asks[r]) /\ S!At(r, S!Recording) /\ now' = now
    BY <1>1 DEF S!Save
  <2> QED
    BY <2>1, SavedSubscription, SubscriptionNoAsk, SubscriptionElse
<1>2. CASE S!Create(r)
  <2>1. asks[r].doc \in S!Subscription /\ db \in S!Subscription
    BY DEF SubscriptionIInv, S!AskDocs
  <2>2. /\ now' = now
        /\ \/ db' = db /\ S!At(r, S!NoAsk)
           \/ db' = asks[r].doc /\ S!At(r, S!Recording)
    BY <1>2 DEF S!Create
  <2>3. db' \in S!Subscription
    BY <2>1, <2>2
  <2> QED
    BY <2>2, <2>3, SubscriptionNoAsk, SubscriptionElse
<1>3. CASE S!RecordSubscriptionChange(r)
  BY <1>3, SubscriptionNoAsk, SubscriptionElse DEF S!RecordSubscriptionChange, SubscriptionIInv
<1> QED
  BY <1>1, <1>2, <1>3 DEF S!WriteStep

\* A day passes between a write and the next read.
LEMMA SubscriptionTicks ==
  ASSUME SubscriptionIInv, S!Tick
  PROVE  SubscriptionIInv'
<1>1. now' \in 0..MaxNow
  BY ServerAssumption DEF SubscriptionIInv, S!Tick, S!SubscriptionsAssumption
<1> QED
  BY <1>1 DEF SubscriptionIInv, S!Tick, Begins

\* Every step keeps the invariant.
LEMMA SubscriptionStep ==
  ASSUME SubscriptionIInv,
         S!Next \/ (db' = db /\ now' = now /\ asks' = asks)
  PROVE  SubscriptionIInv'
<1>1. CASE db' = db /\ now' = now /\ asks' = asks
  BY <1>1 DEF SubscriptionIInv, Begins
<1>2. ASSUME NEW r \in Requests, S!AdminStep(r)
      PROVE  SubscriptionIInv'
  BY <1>2, SubscriptionAssigns, SubscriptionAssignsFirst, SubscriptionExtends,
     SubscriptionCancels, SubscriptionReactivates, SubscriptionPastDue DEF S!AdminStep
<1>3. ASSUME NEW r \in Requests, S!SweepStep(r)
      PROVE  SubscriptionIInv'
  BY <1>3, SubscriptionSelects, SubscriptionExpires DEF S!SweepStep
<1> QED
  BY <1>1, <1>2, <1>3, SubscriptionWrites, SubscriptionTicks DEF S!Next

\* A restaurant begins unsubscribed.
LEMMA SubscriptionInit ==
  ASSUME S!Init
  PROVE  SubscriptionIInv
<1>1. db \in S!Subscription /\ now \in 0..MaxNow
  BY ServerAssumption DEF S!Init, S!Unsubscribed, S!Subscription, S!SUBSCRIPTION_STATUSES,
     S!SubscriptionsAssumption
<1>2. \A r \in Requests : asks[r] \in S!AskDocs /\ asks[r].pc = "idle"
  BY SubscriptionNoAsk DEF S!Init
<1>3. asks \in [Requests -> S!AskDocs]
  BY SubscriptionNoAsk DEF S!Init
<1> QED
  BY <1>1, <1>2, <1>3 DEF SubscriptionIInv, Begins

\* No step begins a trial again, or a period that is over.
LEMMA SubscriptionTrialedOnce ==
  ASSUME SubscriptionIInv,
         S!Next \/ (db' = db /\ now' = now /\ asks' = asks)
  PROVE  S!TrialedOnce
<1>1. SUFFICES ASSUME S!Exists
               PROVE  /\ db'.status = "trialing" => db.status = "trialing"
                      /\ /\ db.status \notin S!OPERATIONAL_SUBSCRIPTION_STATUSES
                         /\ db'.status \in S!OPERATIONAL_SUBSCRIPTION_STATUSES
                         => db'.end > now
  BY DEF S!TrialedOnce
<1>2. ASSUME NEW r \in Requests, S!Save(r)
      PROVE  /\ db'.status = "trialing" => db.status = "trialing"
             /\ /\ db.status \notin S!OPERATIONAL_SUBSCRIPTION_STATUSES
                /\ db'.status \in S!OPERATIONAL_SUBSCRIPTION_STATUSES
                => db'.end > now
  <2>1. asks[r].pc \in {"saving", "ending"} /\ db' = S!Saved(asks[r])
    BY <1>2 DEF S!Save
  <2>2. Begins(r)
    BY DEF SubscriptionIInv
  <2>3. CASE "status" \in asks[r].set
    BY <2>1, <2>2, <2>3, SavedSubscription DEF Begins
  <2>4. CASE "status" \notin asks[r].set
    BY <2>1, <2>4, SavedSubscription
  <2> QED
    BY <2>3, <2>4
<1>3. ASSUME NEW r \in Requests, S!WriteStep(r), ~S!Save(r)
      PROVE  db' = db
  BY <1>1, <1>3 DEF S!WriteStep, S!Create, S!RecordSubscriptionChange
<1>4. ASSUME NEW r \in Requests, S!AdminStep(r) \/ S!SweepStep(r)
      PROVE  db' = db
  BY <1>4 DEF S!AdminStep, S!SweepStep, S!AssignPlan, S!AssignFirst, S!ExtendTrial,
     S!CancelSubscription, S!ReactivateSubscription, S!MarkPastDue, S!Reads, S!Select,
     S!ExpireSubscription
<1>5. \/ db' = db
      \/ \E r \in Requests : S!Save(r)
  BY <1>3, <1>4 DEF S!Next, S!Tick
<1> QED
  BY <1>2, <1>5

-------------------------------------------------------------------------------
(* The orders that a plan allows.                                          *)

\* Orders, and counters without a bound.
QuotaDocs == [order : [Orders -> Q!OrderDocs], counter : [Q!Counters -> Nat]]

\* What a request works with, without a bound.
QuotaWork ==
    [pc : {"idle", "overall", "online", "save"}, source : {"pos", "online"},
     month : Q!Months, overall : Nat, online : Nat]

\* A request has counted what it needs of the resource.
Counted(c, resource) ==
    \/ work[c].pc = "save" /\ resource \in Q!Resourced(work[c].source)
    \/ work[c].pc = "online" /\ resource = "overall"

\* Nobody has written the counter since the request's transaction began.
Untouched(c, resource) == <<"counter", <<work[c].month, resource>>>> \notin asks[c]

QuotaTypeOK ==
    /\ db \in QuotaDocs
    /\ cache \in [Requests -> QuotaDocs \cup {NoSnapshot}]
    /\ asks = [c \in Requests |-> asks[c]]
    /\ clock \in [month : Q!Months, plan : MCPlans]
    /\ work \in [Requests -> QuotaWork]

\* What a request counted is no less than the orders that took a counter since, as long as
\* nobody has written that counter.
QuotaIInv ==
    /\ QuotaTypeOK
    /\ \A c \in Requests : work[c].pc # "idle" => cache[c] # NoSnapshot
    /\ \A c \in Requests : \A resource \in Q!Resources :
          Counted(c, resource) /\ ~Q!isUnlimited(resource) /\ Untouched(c, resource)
             => Cardinality(Q!Kept(db, work[c].month, resource)) <= work[c][resource]

\* A counter is raised to what was counted, if that is more.
LEMMA RaisedIs ==
  ASSUME NEW m \in Nat, NEW n \in Nat
  PROVE  /\ Q!Raised(m, n) \in Nat /\ Q!Raised(m, n) >= m /\ Q!Raised(m, n) >= n
         /\ Q!Raised(m, n) \in {m, n}
<1>1. PICK x \in {m, n} : \A y \in {m, n} : x >= y
  OBVIOUS
<1>2. Q!Raised(m, n) = CHOOSE z \in {m, n} : \A y \in {m, n} : z >= y
  BY DEF Q!Raised, Q!Max
<1>3. Q!Raised(m, n) \in {m, n} /\ \A y \in {m, n} : Q!Raised(m, n) >= y
  BY <1>1, <1>2
<1> QED
  BY <1>3

\* A document is written when it differs.
LEMMA QuotaWritten ==
  ASSUME NEW old \in QuotaDocs, NEW new \in QuotaDocs
  PROVE  /\ \A o \in Orders :
               <<"order", o>> \in Q!Written(old, new) <=> new.order[o] # old.order[o]
         /\ \A k \in Q!Counters :
               <<"counter", k>> \in Q!Written(old, new) <=> new.counter[k] # old.counter[k]
<1> DEFINE docs(coll) == {<<coll, doc>> : doc \in {d \in DOMAIN new[coll] :
                                                       new[coll][d] # old[coll][d]}}
<1>1. DOMAIN new = {"order", "counter"} /\ DOMAIN new.order = Orders
      /\ DOMAIN new.counter = Q!Counters
  BY DEF QuotaDocs
<1>2. Q!Written(old, new) = UNION {docs(coll) : coll \in DOMAIN new}
  BY Zenon DEF Q!Written
<1>3. Q!Written(old, new) = docs("order") \cup docs("counter")
  BY <1>1, <1>2
<1>4. \A o \in Orders : <<"order", o>> \in docs("order") <=> new.order[o] # old.order[o]
  BY <1>1
<1>5. \A k \in Q!Counters : <<"counter", k>> \in docs("counter") <=> new.counter[k] # old.counter[k]
  BY <1>1
<1>6. \A x : <<"order", x>> \notin docs("counter") /\ <<"counter", x>> \notin docs("order")
  OBVIOUS
<1> QED
  BY <1>3, <1>4, <1>5, <1>6

\* What a commit does.
LEMMA QuotaCommit ==
  ASSUME QuotaTypeOK, NEW c \in Requests, cache[c] \in QuotaDocs, NEW new \in QuotaDocs,
         Q!Commit(c, new)
  PROVE  /\ db' \in QuotaDocs
         /\ \A o \in Orders : db'.order[o] = IF new.order[o] # cache[c].order[o]
                                             THEN new.order[o] ELSE db.order[o]
         /\ \A k \in Q!Counters : db'.counter[k] = IF new.counter[k] # cache[c].counter[k]
                                                  THEN new.counter[k] ELSE db.counter[k]
         /\ \A k \in Q!Counters : new.counter[k] # cache[c].counter[k]
                                     => <<"counter", k>> \notin asks[c]
         /\ cache' = Q!Ended(c) /\ asks' = Q!Overtaken(c, Q!Written(cache[c], new))
<1> DEFINE docs == Q!Written(cache[c], new)
<1>1. Q!View(c) = cache[c]
  BY DEF Q!View
<1>2. /\ docs \cap asks[c] = {}
      /\ db' = [coll \in DOMAIN db |-> [doc \in DOMAIN db[coll] |->
                   IF <<coll, doc>> \in docs THEN new[coll][doc] ELSE db[coll][doc]]]
      /\ cache' = Q!Ended(c) /\ asks' = Q!Overtaken(c, docs)
  BY <1>1 DEF Q!Commit, Q!NoConflict
<1>3. /\ db \in QuotaDocs /\ DOMAIN db = {"order", "counter"}
      /\ DOMAIN db.order = Orders /\ DOMAIN db.counter = Q!Counters
  BY DEF QuotaTypeOK, QuotaDocs
<1>4. /\ \A o \in Orders : <<"order", o>> \in docs <=> new.order[o] # cache[c].order[o]
      /\ \A k \in Q!Counters : <<"counter", k>> \in docs <=> new.counter[k] # cache[c].counter[k]
  BY QuotaWritten
<1> HIDE DEF docs
<1> DEFINE order == [o \in Orders |-> IF <<"order", o>> \in docs THEN new.order[o]
                                      ELSE db.order[o]]
           counter == [k \in Q!Counters |-> IF <<"counter", k>> \in docs THEN new.counter[k]
                                            ELSE db.counter[k]]
<1>5. db' = [order |-> order, counter |-> counter]
  BY <1>2, <1>3
<1>6. order \in [Orders -> Q!OrderDocs] /\ counter \in [Q!Counters -> Nat]
  BY <1>3 DEF QuotaDocs
<1>7. db' \in QuotaDocs /\ db'.order = order /\ db'.counter = counter
  BY <1>5, <1>6 DEF QuotaDocs
<1>8. \A o \in Orders : db'.order[o] = IF new.order[o] # cache[c].order[o]
                                         THEN new.order[o] ELSE db.order[o]
  BY <1>4, <1>7
<1>9. \A k \in Q!Counters : db'.counter[k] = IF new.counter[k] # cache[c].counter[k]
                                              THEN new.counter[k] ELSE db.counter[k]
  BY <1>4, <1>7
<1> HIDE DEF order, counter
<1>10. \A k \in Q!Counters : new.counter[k] # cache[c].counter[k] => <<"counter", k>> \notin asks[c]
  BY <1>2, <1>4
<1> QED
  BY <1>2, <1>7, <1>8, <1>9, <1>10 DEF docs

\* A reservation writes the counter that it takes, unless there is no limit, and nothing else.
LEMMA Reserved ==
  ASSUME NEW d \in QuotaDocs, NEW m \in Q!Months, NEW resource \in Q!Resources,
         NEW actual \in Nat
  PROVE  LET e == Q!reserveQuota(d, m, resource, actual)
         IN  /\ e \in QuotaDocs /\ e.order = d.order
             /\ ~Q!isUnlimited(resource) => e.counter[<<m, resource>>] > d.counter[<<m, resource>>]
             /\ e.counter[<<m, resource>>] \in
                   {d.counter[<<m, resource>>], d.counter[<<m, resource>>] + 1, actual + 1}
             /\ \A k \in Q!Counters \ {<<m, resource>>} : e.counter[k] = d.counter[k]
<1> DEFINE k == <<m, resource>>
           n == Q!Raised(d.counter[k], actual) + 1
           e == [d EXCEPT !.counter[k] = n]
<1>1. k \in Q!Counters /\ d.counter[k] \in Nat /\ d.counter \in [Q!Counters -> Nat]
  BY DEF Q!Counters, QuotaDocs
<1>2. /\ Q!Raised(d.counter[k], actual) \in {d.counter[k], actual}
      /\ Q!Raised(d.counter[k], actual) >= d.counter[k]
  BY <1>1, RaisedIs
<1>3. n \in Nat /\ n > d.counter[k] /\ n \in {d.counter[k] + 1, actual + 1}
  BY <1>1, <1>2
<1>4. Q!reserveQuota(d, m, resource, actual) = IF Q!isUnlimited(resource) THEN d ELSE e
  BY Zenon DEF Q!reserveQuota
<1> HIDE DEF n
<1> DEFINE counter == [d.counter EXCEPT ![k] = n]
<1>5. e = [d EXCEPT !.counter = counter]
  OBVIOUS
<1>6. /\ counter \in [Q!Counters -> Nat] /\ counter[k] = n
      /\ \A j \in Q!Counters \ {k} : counter[j] = d.counter[j]
  BY <1>1, <1>3
<1> HIDE DEF counter
<1>7. [d EXCEPT !.counter = counter] = [order |-> d.order, counter |-> counter]
  BY DEF QuotaDocs
<1>8. d.order \in [Orders -> Q!OrderDocs]
  BY DEF QuotaDocs
<1>9. e \in QuotaDocs /\ e.order = d.order /\ e.counter = counter
  BY <1>5, <1>6, <1>7, <1>8 DEF QuotaDocs
<1> HIDE DEF e, k
<1> QED
  BY <1>3, <1>4, <1>6, <1>9 DEF k

\* The module's cardinality is that of FiniteSets.
LEMMA SameCardinality == \A set : Q!Cardinality(set) = Cardinality(set)
BY Zenon DEF Q!Cardinality, Cardinality

\* The orders that took a counter are finitely many.
LEMMA KeptFinite ==
  ASSUME NEW d, NEW m, NEW resource
  PROVE  /\ IsFiniteSet(Q!Kept(d, m, resource))
         /\ Cardinality(Q!Kept(d, m, resource)) \in Nat
<1>1. Q!Kept(d, m, resource) \subseteq Orders
  BY DEF Q!Kept, Q!Countable
<1>2. IsFiniteSet(Orders)
  BY ServerAssumption DEF Q!OrderQuotaAssumption, Q!IsFiniteSet, IsFiniteSet
<1>3. IsFiniteSet(Q!Kept(d, m, resource))
  BY <1>1, <1>2, FS_Subset
<1> QED
  BY <1>3, FS_CardinalityType

\* Fewer orders are no more.
LEMMA KeptFewer ==
  ASSUME NEW d, NEW e, NEW m, NEW resource,
         Q!Kept(e, m, resource) \subseteq Q!Kept(d, m, resource)
  PROVE  Cardinality(Q!Kept(e, m, resource)) <= Cardinality(Q!Kept(d, m, resource))
BY KeptFinite, FS_Subset

\* One request does something: what the others counted still holds, unless they have been
\* overtaken.
LEMMA QuotaStep ==
  ASSUME QuotaIInv, QuotaTypeOK', NEW c \in Requests, clock'.plan = clock.plan,
         \A q \in Requests \ {c} :
             /\ work'[q] = work[q] /\ cache'[q] = cache[q]
             /\ cache[q] # NoSnapshot => asks[q] \subseteq asks'[q],
         \A m \in Q!Months : \A resource \in Q!Resources :
             \/ Q!isUnlimited(resource)
             \/ Q!Kept(db', m, resource) \subseteq Q!Kept(db, m, resource)
             \/ \A q \in Requests \ {c} :
                   cache[q] # NoSnapshot => <<"counter", <<m, resource>>>> \in asks'[q],
         work'[c].pc # "idle" => cache'[c] # NoSnapshot,
         \A resource \in Q!Resources :
             Counted(c, resource)' /\ ~Q!isUnlimited(resource) /\ Untouched(c, resource)'
                => Cardinality(Q!Kept(db', work'[c].month, resource)) <= work'[c][resource]
  PROVE  QuotaIInv'
<1>1. \A resource \in Q!Resources : Q!isUnlimited(resource)' <=> Q!isUnlimited(resource)
  BY DEF Q!isUnlimited
<1>2. \A q \in Requests : work'[q].pc # "idle" => cache'[q] # NoSnapshot
  BY DEF QuotaIInv
<1>3. ASSUME NEW q \in Requests, NEW resource \in Q!Resources,
             Counted(q, resource)', ~Q!isUnlimited(resource), Untouched(q, resource)'
      PROVE  Cardinality(Q!Kept(db', work'[q].month, resource)) <= work'[q][resource]
  <2>1. CASE q = c
    BY <1>3, <2>1
  <2>2. CASE q # c
    <3>1. work'[q] = work[q] /\ work[q] \in QuotaWork /\ work[q].month \in Q!Months
          /\ work[q][resource] \in Nat
      <4>1. work'[q] = work[q] /\ work[q] \in QuotaWork
        BY <2>2 DEF QuotaIInv, QuotaTypeOK
      <4>2. resource = "overall" \/ resource = "online"
        BY DEF Q!Resources
      <4> QED
        BY <4>1, <4>2 DEF QuotaWork
    <3>2. Counted(q, resource)
      BY <1>3, <3>1 DEF Counted
    <3>3. work[q].pc # "idle"
      BY <3>2 DEF Counted
    <3>4. cache[q] # NoSnapshot
      BY <3>3 DEF QuotaIInv
    <3>5. Untouched(q, resource)
      BY <1>3, <2>2, <3>1, <3>4 DEF Untouched
    <3>6. Cardinality(Q!Kept(db, work[q].month, resource)) <= work[q][resource]
      BY <1>3, <3>2, <3>5 DEF QuotaIInv
    <3>7. <<"counter", <<work[q].month, resource>>>> \notin asks'[q]
      BY <1>3, <3>1 DEF Untouched
    <3>8. Q!Kept(db', work[q].month, resource) \subseteq Q!Kept(db, work[q].month, resource)
      BY <1>3, <2>2, <3>1, <3>4, <3>7
    <3>9. Cardinality(Q!Kept(db', work[q].month, resource))
            <= Cardinality(Q!Kept(db, work[q].month, resource))
      BY <3>8, KeptFewer
    <3>10. /\ Cardinality(Q!Kept(db', work[q].month, resource)) \in Nat
           /\ Cardinality(Q!Kept(db, work[q].month, resource)) \in Nat
      BY KeptFinite
    <3> HIDE DEF QuotaIInv
    <3> QED
      BY <3>1, <3>6, <3>9, <3>10
  <2> QED
    BY <2>1, <2>2
<1> QED
  BY <1>1, <1>2, <1>3 DEF QuotaIInv

\* No database is NoSnapshot.
LEMMA QuotaSnapshot == NoSnapshot \notin QuotaDocs
BY ServerAssumption DEF Q!OrderQuotaAssumption, QuotaDocs

\* A request opens its transaction.
LEMMA QuotaBegins ==
  ASSUME QuotaTypeOK, NEW c \in Requests, Q!Begin(c)
  PROVE  /\ db' = db /\ asks' = asks /\ cache' \in [Requests -> QuotaDocs \cup {NoSnapshot}]
         /\ cache'[c] # NoSnapshot
         /\ \A q \in Requests \ {c} : cache'[q] = cache[q]
BY QuotaSnapshot DEF Q!Begin, QuotaTypeOK

\* A request ends its transaction without a write.
LEMMA QuotaEnds ==
  ASSUME QuotaTypeOK, NEW c \in Requests, Q!End(c)
  PROVE  /\ db' = db /\ asks' = [q \in Requests |-> asks'[q]]
         /\ cache' \in [Requests -> QuotaDocs \cup {NoSnapshot}]
         /\ \A q \in Requests \ {c} : cache'[q] = cache[q] /\ asks'[q] = asks[q]
BY DEF Q!End, Q!Ended, QuotaTypeOK

\* A request that commits overtakes every other whose transaction is open.
LEMMA QuotaOvertakes ==
  ASSUME QuotaTypeOK, NEW c \in Requests, NEW docs, cache' = Q!Ended(c),
         asks' = Q!Overtaken(c, docs)
  PROVE  /\ asks' = [q \in Requests |-> asks'[q]]
         /\ cache' \in [Requests -> QuotaDocs \cup {NoSnapshot}]
         /\ \A q \in Requests \ {c} :
               /\ cache'[q] = cache[q]
               /\ cache[q] # NoSnapshot => asks'[q] = asks[q] \cup docs
BY DEF Q!Ended, Q!Overtaken, QuotaTypeOK

\* What a request works with, with one field replaced.
LEMMA WorkSet ==
  ASSUME NEW w \in QuotaWork
  PROVE  /\ \A pc \in {"idle", "overall", "online", "save"} :
               /\ [w EXCEPT !.pc = pc] \in QuotaWork /\ [w EXCEPT !.pc = pc].pc = pc
               /\ [w EXCEPT !.pc = pc].source = w.source /\ [w EXCEPT !.pc = pc].month = w.month
               /\ [w EXCEPT !.pc = pc].overall = w.overall
         /\ \A x \in {"pos", "online"} :
               /\ [w EXCEPT !.source = x] \in QuotaWork /\ [w EXCEPT !.source = x].pc = w.pc
         /\ \A m \in Q!Months :
               /\ [w EXCEPT !.month = m] \in QuotaWork /\ [w EXCEPT !.month = m].pc = w.pc
         /\ \A n \in Nat :
               /\ [w EXCEPT !.overall = n] \in QuotaWork /\ [w EXCEPT !.overall = n].pc = w.pc
               /\ [w EXCEPT !.overall = n].source = w.source
               /\ [w EXCEPT !.overall = n].month = w.month
               /\ [w EXCEPT !.overall = n].overall = n
         /\ \A n \in Nat :
               /\ [w EXCEPT !.online = n] \in QuotaWork /\ [w EXCEPT !.online = n].pc = w.pc
               /\ [w EXCEPT !.online = n].source = w.source
               /\ [w EXCEPT !.online = n].month = w.month
               /\ [w EXCEPT !.online = n].overall = w.overall
               /\ [w EXCEPT !.online = n].online = n
<1>1. ASSUME NEW pc \in {"idle", "overall", "online", "save"}
      PROVE  /\ [w EXCEPT !.pc = pc] \in QuotaWork /\ [w EXCEPT !.pc = pc].pc = pc
             /\ [w EXCEPT !.pc = pc].source = w.source /\ [w EXCEPT !.pc = pc].month = w.month
             /\ [w EXCEPT !.pc = pc].overall = w.overall
  BY DEF QuotaWork
<1>2. ASSUME NEW x \in {"pos", "online"}
      PROVE  [w EXCEPT !.source = x] \in QuotaWork /\ [w EXCEPT !.source = x].pc = w.pc
  BY DEF QuotaWork
<1>3. ASSUME NEW m \in Q!Months
      PROVE  [w EXCEPT !.month = m] \in QuotaWork /\ [w EXCEPT !.month = m].pc = w.pc
  BY DEF QuotaWork
<1>4. ASSUME NEW n \in Nat
      PROVE  /\ [w EXCEPT !.overall = n] \in QuotaWork /\ [w EXCEPT !.overall = n].pc = w.pc
             /\ [w EXCEPT !.overall = n].source = w.source
             /\ [w EXCEPT !.overall = n].month = w.month
             /\ [w EXCEPT !.overall = n].overall = n
  BY DEF QuotaWork
<1>5. ASSUME NEW n \in Nat
      PROVE  /\ [w EXCEPT !.online = n] \in QuotaWork /\ [w EXCEPT !.online = n].pc = w.pc
             /\ [w EXCEPT !.online = n].source = w.source
             /\ [w EXCEPT !.online = n].month = w.month
             /\ [w EXCEPT !.online = n].overall = w.overall
             /\ [w EXCEPT !.online = n].online = n
  BY DEF QuotaWork
<1> QED
  BY <1>1, <1>2, <1>3, <1>4, <1>5, Zenon

\* A request that has nothing to do.
LEMMA IdleWork == Q!Idle \in QuotaWork /\ Q!Idle.pc = "idle"
BY ServerAssumption DEF Q!Idle, QuotaWork, Q!Months, Q!OrderQuotaAssumption

\* A request that does not count or write: it comes to work with w.
LEMMA QuotaQuiet ==
  ASSUME QuotaIInv, NEW c \in Requests, Q!Begin(c) \/ Q!End(c),
         NEW w \in QuotaWork, work' = [work EXCEPT ![c] = w], clock' = clock,
         w.pc = "idle" \/ (w.pc = "overall" /\ Q!Begin(c))
  PROVE  QuotaIInv'
<1>1. QuotaTypeOK
  BY DEF QuotaIInv
<1>2. work' \in [Requests -> QuotaWork] /\ work'[c] = w
      /\ \A q \in Requests \ {c} : work'[q] = work[q]
  BY <1>1 DEF QuotaTypeOK
<1>3. /\ db' = db /\ asks' = [q \in Requests |-> asks'[q]]
      /\ cache' \in [Requests -> QuotaDocs \cup {NoSnapshot}]
      /\ \A q \in Requests \ {c} : cache'[q] = cache[q] /\ asks'[q] = asks[q]
  <2>1. CASE Q!Begin(c)
    BY <1>1, <2>1, QuotaBegins DEF QuotaTypeOK
  <2>2. CASE Q!End(c)
    BY <1>1, <2>2, QuotaEnds
  <2> QED
    BY <2>1, <2>2
<1>4. QuotaTypeOK'
  BY <1>1, <1>2, <1>3 DEF QuotaTypeOK
<1>5. work'[c].pc # "idle" => cache'[c] # NoSnapshot
  BY <1>1, <1>2, QuotaBegins
<1>6. \A resource : ~Counted(c, resource)'
  BY <1>2 DEF Counted
<1> HIDE DEF QuotaIInv
<1> QED
  BY <1>2, <1>3, <1>4, <1>5, <1>6, QuotaStep

\* A request that reaches its quota has counted nothing.
LEMMA QuotaReaches ==
  ASSUME QuotaIInv, NEW c \in Requests, NEW source \in {"pos", "online"}, Q!Reach(c, source)
  PROVE  QuotaIInv'
<1>1. clock.month \in Q!Months
  BY DEF QuotaIInv, QuotaTypeOK
<1>2. PICK w1 : w1 = [Q!Idle EXCEPT !.pc = "overall"]
  OBVIOUS
<1>3. w1 \in QuotaWork /\ w1.pc = "overall"
  BY <1>2, IdleWork, WorkSet
<1>4. PICK w2 : w2 = [w1 EXCEPT !.source = source]
  OBVIOUS
<1>5. w2 \in QuotaWork /\ w2.pc = "overall"
  BY <1>3, <1>4, WorkSet
<1>6. PICK w3 : w3 = [w2 EXCEPT !.month = clock.month]
  OBVIOUS
<1>7. w3 \in QuotaWork /\ w3.pc = "overall"
  BY <1>1, <1>5, <1>6, WorkSet
<1>8. [Q!Idle EXCEPT !.pc = "overall", !.source = source, !.month = clock.month] = w3
  BY <1>2, <1>4, <1>6, Zenon
<1>9. Q!Begin(c) /\ work' = [work EXCEPT ![c] = w3] /\ clock' = clock
  BY <1>8, Zenon DEF Q!Reach
<1> QED
  BY <1>7, <1>9, QuotaQuiet

\* A request that gives up, or one that cancels an order and has not done it yet.
LEMMA QuotaLeaves ==
  ASSUME QuotaIInv, NEW c \in Requests,
         Q!Abort(c) \/ Q!BeginCancel(c) \/ Q!GiveUp(c)
  PROVE  QuotaIInv'
<1>1. CASE Q!Abort(c)
  BY <1>1, IdleWork, QuotaQuiet DEF Q!Abort
<1>2. CASE Q!BeginCancel(c) \/ Q!GiveUp(c)
  <2>1. /\ Q!Begin(c) \/ Q!End(c)
        /\ work[c].pc = "idle" /\ work' = work /\ clock' = clock
    BY <1>2 DEF Q!BeginCancel, Q!GiveUp
  <2>2. work \in [Requests -> QuotaWork]
    BY DEF QuotaIInv, QuotaTypeOK
  <2>3. work[c] \in QuotaWork /\ work' = [work EXCEPT ![c] = work[c]]
    BY <2>1, <2>2
  <2> QED
    BY <2>1, <2>3, QuotaQuiet
<1> QED
  BY <1>1, <1>2

\* What is counted is a number, and no less than what took a counter among it.
LEMMA QuotaUsage ==
  ASSUME NEW d, NEW m
  PROVE  /\ Q!getOrderUsage(d, m) \in Nat
         /\ Cardinality(Q!Kept(d, m, "overall")) <= Q!getOrderUsage(d, m)
         /\ Q!getOnlineOrderUsage(d, m) \in Nat
         /\ Cardinality(Q!Kept(d, m, "online")) <= Q!getOnlineOrderUsage(d, m)
<1> DEFINE all == Q!Countable(d, m)
           web == {o \in all : d.order[o].source = "online"}
<1>1. IsFiniteSet(Orders)
  BY ServerAssumption DEF Q!OrderQuotaAssumption, Q!IsFiniteSet, IsFiniteSet
<1>2. all \subseteq Orders /\ web \subseteq Orders
  BY DEF Q!Countable
<1>3. IsFiniteSet(all) /\ IsFiniteSet(web)
  BY <1>1, <1>2, FS_Subset
<1>4. Q!Kept(d, m, "overall") \subseteq all /\ Q!Kept(d, m, "online") \subseteq web
  BY DEF Q!Kept
<1>5. Cardinality(all) \in Nat /\ Cardinality(web) \in Nat
  BY <1>3, FS_CardinalityType
<1>6. /\ Cardinality(Q!Kept(d, m, "overall")) <= Cardinality(all)
      /\ Cardinality(Q!Kept(d, m, "online")) <= Cardinality(web)
  BY <1>3, <1>4, FS_Subset
<1>7. /\ Q!getOrderUsage(d, m) = Cardinality(all)
      /\ Q!getOnlineOrderUsage(d, m) = Cardinality(web)
  BY SameCardinality DEF Q!getOrderUsage, Q!getOnlineOrderUsage
<1> HIDE DEF all, web
<1> QED
  BY <1>5, <1>6, <1>7

\* A count changes nothing but what its request works with.
LEMMA QuotaTallies ==
  ASSUME QuotaIInv, NEW c \in Requests, NEW w \in QuotaWork, work[c].pc # "idle",
         work' \in [Requests -> QuotaWork], work'[c] = w,
         \A q \in Requests \ {c} : work'[q] = work[q],
         UNCHANGED <<db, cache, asks, clock>>,
         \A resource \in Q!Resources :
             Counted(c, resource)' /\ ~Q!isUnlimited(resource) /\ Untouched(c, resource)'
                => Cardinality(Q!Kept(db, w.month, resource)) <= w[resource]
  PROVE  QuotaIInv'
<1>1. QuotaTypeOK'
  BY DEF QuotaIInv, QuotaTypeOK
<1>2. cache'[c] # NoSnapshot
  BY DEF QuotaIInv
<1>3. /\ \A q \in Requests \ {c} :
             /\ work'[q] = work[q] /\ cache'[q] = cache[q]
             /\ cache[q] # NoSnapshot => asks[q] \subseteq asks'[q]
      /\ \A m \in Q!Months : \A resource \in Q!Resources :
             Q!Kept(db', m, resource) \subseteq Q!Kept(db, m, resource)
  OBVIOUS
<1>4. \A resource \in Q!Resources :
          Counted(c, resource)' /\ ~Q!isUnlimited(resource) /\ Untouched(c, resource)'
             => Cardinality(Q!Kept(db', work'[c].month, resource)) <= work'[c][resource]
  OBVIOUS
<1> HIDE DEF QuotaIInv
<1> QED
  BY <1>1, <1>2, <1>3, <1>4, QuotaStep

\* countActual() of the orders.
LEMMA QuotaCounts ==
  ASSUME QuotaIInv, NEW c \in Requests, Q!CountOverall(c)
  PROVE  QuotaIInv'
<1> DEFINE n == Q!getOrderUsage(db, work[c].month)
<1>1. work \in [Requests -> QuotaWork] /\ work[c].pc = "overall"
      /\ UNCHANGED <<db, cache, asks, clock>>
  BY DEF Q!CountOverall, QuotaIInv, QuotaTypeOK
<1>2. n \in Nat /\ Cardinality(Q!Kept(db, work[c].month, "overall")) <= n
  BY QuotaUsage
<1>3. PICK pc \in {"idle", "overall", "online", "save"} :
        pc = IF work[c].source = "online" THEN "online" ELSE "save"
  OBVIOUS
<1>4. work' = [work EXCEPT ![c].pc = pc, ![c].overall = n]
  BY <1>3, Zenon DEF Q!CountOverall
<1> HIDE DEF n
<1>5. PICK w1 : w1 = [work[c] EXCEPT !.pc = pc]
  OBVIOUS
<1>6. /\ w1 \in QuotaWork /\ w1.pc = pc /\ w1.source = work[c].source
      /\ w1.month = work[c].month
  BY <1>1, <1>5, WorkSet
<1>7. PICK w2 : w2 = [w1 EXCEPT !.overall = n]
  OBVIOUS
<1>8. /\ w2 \in QuotaWork /\ w2.pc = pc /\ w2.source = work[c].source
      /\ w2.month = work[c].month /\ w2.overall = n
  BY <1>2, <1>6, <1>7, WorkSet
<1>9. PICK u1 : u1 = [work EXCEPT ![c] = w1]
  OBVIOUS
<1>10. u1 = [work EXCEPT ![c].pc = pc] /\ u1[c] = w1 /\ u1 \in [Requests -> QuotaWork]
  BY <1>1, <1>5, <1>6, <1>9
<1>11. work' = [u1 EXCEPT ![c].overall = n]
  BY <1>4, <1>10, Zenon
<1>12. work' = [u1 EXCEPT ![c] = w2]
  BY <1>7, <1>10, <1>11
<1>13. /\ work' \in [Requests -> QuotaWork] /\ work'[c] = w2
       /\ \A q \in Requests \ {c} : work'[q] = work[q]
  BY <1>1, <1>8, <1>9, <1>10, <1>12
<1>14. \A resource \in Q!Resources : Counted(c, resource)' => resource = "overall"
  BY <1>3, <1>8, <1>13 DEF Counted, Q!Resourced
<1> QED
  BY <1>1, <1>2, <1>8, <1>13, <1>14, QuotaTallies

\* countActual() of the web orders.
LEMMA QuotaCountsOnline ==
  ASSUME QuotaIInv, NEW c \in Requests, Q!CountOnline(c)
  PROVE  QuotaIInv'
<1> DEFINE n == Q!getOnlineOrderUsage(db, work[c].month)
<1>1. work \in [Requests -> QuotaWork] /\ work[c].pc = "online"
      /\ UNCHANGED <<db, cache, asks, clock>>
  BY DEF Q!CountOnline, QuotaIInv, QuotaTypeOK
<1>2. n \in Nat /\ Cardinality(Q!Kept(db, work[c].month, "online")) <= n
  BY QuotaUsage
<1>3. work' = [work EXCEPT ![c].pc = "save", ![c].online = n]
  BY Zenon DEF Q!CountOnline
<1> HIDE DEF n
<1>4. PICK w1 : w1 = [work[c] EXCEPT !.pc = "save"]
  OBVIOUS
<1>5. /\ w1 \in QuotaWork /\ w1.pc = "save" /\ w1.source = work[c].source
      /\ w1.month = work[c].month /\ w1.overall = work[c].overall
  BY <1>1, <1>4, WorkSet
<1>6. PICK w2 : w2 = [w1 EXCEPT !.online = n]
  OBVIOUS
<1>7. /\ w2 \in QuotaWork /\ w2.pc = "save" /\ w2.source = work[c].source
      /\ w2.month = work[c].month /\ w2.overall = work[c].overall /\ w2.online = n
  BY <1>2, <1>5, <1>6, WorkSet
<1>8. PICK u1 : u1 = [work EXCEPT ![c] = w1]
  OBVIOUS
<1>9. u1 = [work EXCEPT ![c].pc = "save"] /\ u1[c] = w1 /\ u1 \in [Requests -> QuotaWork]
  BY <1>1, <1>4, <1>5, <1>8
<1>10. work' = [u1 EXCEPT ![c].online = n]
  BY <1>3, <1>9, Zenon
<1>11. work' = [u1 EXCEPT ![c] = w2]
  BY <1>6, <1>9, <1>10
<1>12. /\ work' \in [Requests -> QuotaWork] /\ work'[c] = w2
       /\ \A q \in Requests \ {c} : work'[q] = work[q]
  BY <1>1, <1>7, <1>8, <1>9, <1>11
<1>13. ASSUME ~Q!isUnlimited("overall"), Untouched(c, "overall")'
       PROVE  Cardinality(Q!Kept(db, w2.month, "overall")) <= w2.overall
  <2>1. Counted(c, "overall") /\ Untouched(c, "overall")
    BY <1>1, <1>7, <1>12, <1>13 DEF Counted, Untouched
  <2> QED
    BY <1>7, <1>13, <2>1 DEF QuotaIInv, Q!Resources
<1>14. \A resource \in Q!Resources : resource = "overall" \/ resource = "online"
  BY DEF Q!Resources
<1>15. \A resource \in Q!Resources :
          ~Q!isUnlimited(resource) /\ Untouched(c, resource)'
             => Cardinality(Q!Kept(db, w2.month, resource)) <= w2[resource]
  BY <1>2, <1>7, <1>13, <1>14
<1> QED
  BY <1>1, <1>7, <1>12, <1>15, QuotaTallies

\* What a request reserves: it writes each counter with a limit that its order takes.
LEMMA QuotaReserves ==
  ASSUME NEW d \in QuotaDocs, NEW w \in QuotaWork
  PROVE  LET e == Q!withMonthlyOrderQuota(d, w)
         IN  /\ e \in QuotaDocs /\ e.order = d.order
             /\ \A resource \in Q!Resourced(w.source) :
                   ~Q!isUnlimited(resource) =>
                       e.counter[<<w.month, resource>>] > d.counter[<<w.month, resource>>]
             /\ \A k \in Q!Counters :
                   e.counter[k] \in {d.counter[k], d.counter[k] + 1, w.overall + 1, w.online + 1}
<1> DEFINE a == Q!reserveQuota(d, w.month, "overall", w.overall)
           b == Q!reserveQuota(a, w.month, "online", w.online)
           m == w.month
<1>1. /\ m \in Q!Months /\ w.overall \in Nat /\ w.online \in Nat
      /\ "overall" \in Q!Resources /\ "online" \in Q!Resources
  BY DEF QuotaWork, Q!Resources
<1>2. /\ a \in QuotaDocs /\ a.order = d.order
      /\ ~Q!isUnlimited("overall") => a.counter[<<m, "overall">>] > d.counter[<<m, "overall">>]
      /\ a.counter[<<m, "overall">>] \in
            {d.counter[<<m, "overall">>], d.counter[<<m, "overall">>] + 1, w.overall + 1}
      /\ \A k \in Q!Counters \ {<<m, "overall">>} : a.counter[k] = d.counter[k]
  BY <1>1, Reserved, Zenon
<1> HIDE DEF a
<1>3. /\ b \in QuotaDocs /\ b.order = a.order
      /\ ~Q!isUnlimited("online") => b.counter[<<m, "online">>] > a.counter[<<m, "online">>]
      /\ b.counter[<<m, "online">>] \in
            {a.counter[<<m, "online">>], a.counter[<<m, "online">>] + 1, w.online + 1}
      /\ \A k \in Q!Counters \ {<<m, "online">>} : b.counter[k] = a.counter[k]
  BY <1>1, <1>2, Reserved, Zenon
<1> HIDE DEF b
<1>4. Q!withMonthlyOrderQuota(d, w) = IF w.source = "online" THEN b ELSE a
  BY Zenon DEF Q!withMonthlyOrderQuota, a, b
<1>5. <<m, "overall">> \in Q!Counters \ {<<m, "online">>}
      /\ <<m, "online">> \in Q!Counters \ {<<m, "overall">>}
  BY <1>1 DEF Q!Counters
<1>6. b.counter[<<m, "overall">>] = a.counter[<<m, "overall">>]
      /\ a.counter[<<m, "online">>] = d.counter[<<m, "online">>]
  BY <1>2, <1>3, <1>5
<1> HIDE DEF m
<1>7. ASSUME NEW k \in Q!Counters
      PROVE  /\ a.counter[k] \in {d.counter[k], d.counter[k] + 1, w.overall + 1}
             /\ b.counter[k] \in {d.counter[k], d.counter[k] + 1, w.overall + 1, w.online + 1}
  <2>1. CASE k = <<m, "overall">>
    BY <1>2, <1>6, <2>1
  <2>2. CASE k = <<m, "online">>
    BY <1>3, <1>6, <2>2
  <2>3. CASE k # <<m, "overall">> /\ k # <<m, "online">>
    BY <1>2, <1>3, <2>3
  <2> QED
    BY <2>1, <2>2, <2>3
<1>8. CASE w.source = "online"
  BY <1>2, <1>3, <1>4, <1>6, <1>7, <1>8 DEF Q!Resourced, Q!Resources, m
<1>9. CASE w.source # "online"
  BY <1>2, <1>4, <1>7, <1>9 DEF Q!Resourced, m
<1> QED
  BY <1>8, <1>9

\* An order that is placed is the only one that changes, and its transaction is the first to
\* write the counters it takes since it read them.
LEMMA QuotaPlaces ==
  ASSUME QuotaIInv, NEW c \in Requests, NEW o \in Orders, Q!Place(c, o)
  PROVE  /\ db' \in QuotaDocs /\ db.order[o].status = "absent"
         /\ db'.order[o].source = work[c].source /\ db'.order[o].taken = work[c].month
         /\ \A p \in Orders \ {o} : db'.order[p] = db.order[p]
         /\ \A k \in Q!Counters :
               db'.counter[k] \in {db.counter[k], cache[c].counter[k] + 1, work[c].overall + 1,
                                  work[c].online + 1}
         /\ db'.order[o].status = "open"
         /\ cache[c] \in QuotaDocs /\ work[c].pc = "save" /\ Q!Allowed(cache[c], work[c])
         /\ cache' = Q!Ended(c)
         /\ \E docs :
               /\ asks' = Q!Overtaken(c, docs)
               /\ \A resource \in Q!Resourced(work[c].source) :
                     ~Q!isUnlimited(resource) =>
                         /\ Untouched(c, resource)
                         /\ <<"counter", <<work[c].month, resource>>>> \in docs
<1> DEFINE w == work[c]
           d == cache[c]
           row == [status |-> "open", source |-> w.source, month |-> clock.month,
                   taken |-> w.month]
           e == Q!withMonthlyOrderQuota(d, w)
           new == [e EXCEPT !.order[o] = row]
           docs == Q!Written(d, new)
<1>1. /\ w.pc = "save" /\ d.order[o].status = "absent" /\ db.order[o].status = "absent"
      /\ Q!Allowed(d, w) /\ Q!Commit(c, new)
  BY Zenon DEF Q!Place
<1>2. QuotaTypeOK /\ w \in QuotaWork /\ clock.month \in Q!Months
  BY DEF QuotaIInv, QuotaTypeOK
<1>3. d \in QuotaDocs
  BY <1>1, <1>2 DEF QuotaIInv, QuotaTypeOK
<1>4. row \in Q!OrderDocs /\ row.status = "open" /\ row.source = w.source /\ row.taken = w.month
  BY <1>2 DEF Q!OrderDocs, QuotaWork
<1> HIDE DEF w, d, row
<1>5. /\ e \in QuotaDocs /\ e.order = d.order
      /\ \A resource \in Q!Resourced(w.source) :
            ~Q!isUnlimited(resource) =>
                e.counter[<<w.month, resource>>] > d.counter[<<w.month, resource>>]
      /\ \A k \in Q!Counters :
            e.counter[k] \in {d.counter[k], d.counter[k] + 1, w.overall + 1, w.online + 1}
  BY <1>2, <1>3, QuotaReserves
<1> HIDE DEF e
<1> DEFINE orders == [e.order EXCEPT ![o] = row]
<1>6. new = [e EXCEPT !.order = orders]
  OBVIOUS
<1>7. /\ orders \in [Orders -> Q!OrderDocs] /\ orders[o] = row
      /\ \A p \in Orders \ {o} : orders[p] = d.order[p]
  BY <1>4, <1>5 DEF QuotaDocs
<1> HIDE DEF orders
<1>8. [e EXCEPT !.order = orders] = [order |-> orders, counter |-> e.counter]
  BY <1>5 DEF QuotaDocs
<1>9. new \in QuotaDocs /\ new.order = orders /\ new.counter = e.counter
  BY <1>5, <1>6, <1>7, <1>8 DEF QuotaDocs
<1> HIDE DEF new
<1>10. /\ db' \in QuotaDocs
       /\ \A p \in Orders : db'.order[p] = IF new.order[p] # d.order[p]
                                           THEN new.order[p] ELSE db.order[p]
       /\ \A k \in Q!Counters : db'.counter[k] = IF new.counter[k] # d.counter[k]
                                                THEN new.counter[k] ELSE db.counter[k]
       /\ \A k \in Q!Counters : new.counter[k] # d.counter[k] => <<"counter", k>> \notin asks[c]
       /\ cache' = Q!Ended(c) /\ asks' = Q!Overtaken(c, docs)
  BY <1>1, <1>2, <1>3, <1>9, QuotaCommit DEF d
<1>11. \A k \in Q!Counters : <<"counter", k>> \in docs <=> new.counter[k] # d.counter[k]
  BY <1>3, <1>9, QuotaWritten
<1>12. ASSUME NEW resource \in Q!Resourced(w.source), ~Q!isUnlimited(resource)
       PROVE  <<w.month, resource>> \in Q!Counters
              /\ new.counter[<<w.month, resource>>] # d.counter[<<w.month, resource>>]
  <2>1. resource \in Q!Resources /\ w.month \in Q!Months
    BY <1>2 DEF Q!Resourced, Q!Resources, QuotaWork
  <2>2. <<w.month, resource>> \in Q!Counters
    BY <2>1 DEF Q!Counters
  <2>3. d.counter[<<w.month, resource>>] \in Nat /\ e.counter[<<w.month, resource>>] \in Nat
    BY <1>3, <1>5, <2>2 DEF QuotaDocs
  <2>4. e.counter[<<w.month, resource>>] > d.counter[<<w.month, resource>>]
    BY <1>5, <1>12
  <2> QED
    BY <1>9, <2>2, <2>3, <2>4
<1>13. db'.order[o] = row
  BY <1>1, <1>4, <1>7, <1>9, <1>10
<1>14. \A p \in Orders \ {o} : db'.order[p] = db.order[p]
  BY <1>7, <1>9, <1>10
<1>15. \A k \in Q!Counters :
          db'.counter[k] \in {db.counter[k], d.counter[k] + 1, w.overall + 1, w.online + 1}
  BY <1>5, <1>9, <1>10
<1> HIDE DEF docs, QuotaIInv
<1>16. \A resource \in Q!Resourced(w.source) :
          ~Q!isUnlimited(resource) =>
              /\ <<"counter", <<w.month, resource>>>> \notin asks[c]
              /\ <<"counter", <<w.month, resource>>>> \in docs
  BY <1>10, <1>11, <1>12
<1> QED
  BY <1>1, <1>3, <1>4, <1>10, <1>13, <1>14, <1>15, <1>16 DEF w, d, Untouched

\* An order that is placed takes the counters it writes, which overtakes whoever counted.
LEMMA QuotaKeepsPlaced ==
  ASSUME QuotaIInv, NEW c \in Requests, NEW o \in Orders, Q!Place(c, o)
  PROVE  QuotaIInv'
<1>1. /\ db' \in QuotaDocs /\ db.order[o].status = "absent"
      /\ db'.order[o].source = work[c].source /\ db'.order[o].taken = work[c].month
      /\ \A p \in Orders \ {o} : db'.order[p] = db.order[p]
      /\ cache' = Q!Ended(c)
  BY QuotaPlaces
<1>2. PICK docs :
        /\ asks' = Q!Overtaken(c, docs)
        /\ \A resource \in Q!Resourced(work[c].source) :
              ~Q!isUnlimited(resource) =>
                  <<"counter", <<work[c].month, resource>>>> \in docs
  BY QuotaPlaces
<1>3. QuotaTypeOK
  BY DEF QuotaIInv
<1>4. /\ asks' = [q \in Requests |-> asks'[q]]
      /\ cache' \in [Requests -> QuotaDocs \cup {NoSnapshot}]
      /\ \A q \in Requests \ {c} :
            /\ cache'[q] = cache[q]
            /\ cache[q] # NoSnapshot => asks'[q] = asks[q] \cup docs
  BY <1>1, <1>2, <1>3, QuotaOvertakes
<1>5. work' = [work EXCEPT ![c] = Q!Idle] /\ clock' = clock
  BY Zenon DEF Q!Place
<1>6. /\ work' \in [Requests -> QuotaWork] /\ work'[c].pc = "idle"
      /\ \A q \in Requests \ {c} : work'[q] = work[q]
  BY <1>3, <1>5, IdleWork DEF QuotaTypeOK
<1>7. QuotaTypeOK'
  BY <1>1, <1>3, <1>4, <1>5, <1>6 DEF QuotaTypeOK
<1>8. \A resource : ~Counted(c, resource)'
  BY <1>6 DEF Counted
<1>9. ASSUME NEW m \in Q!Months, NEW resource \in Q!Resources, ~Q!isUnlimited(resource)
      PROVE  \/ Q!Kept(db', m, resource) \subseteq Q!Kept(db, m, resource)
             \/ \A q \in Requests \ {c} :
                   cache[q] # NoSnapshot => <<"counter", <<m, resource>>>> \in asks'[q]
  <2>1. CASE m = work[c].month /\ resource \in Q!Resourced(work[c].source)
    BY <1>2, <1>4, <1>9, <2>1
  <2>2. CASE m # work[c].month
    BY <1>1, <2>2 DEF Q!Kept, Q!Countable
  <2>3. CASE resource \notin Q!Resourced(work[c].source)
    <3>1. resource = "online" /\ work[c].source # "online"
      BY <2>3 DEF Q!Resourced, Q!Resources
    <3> QED
      BY <1>1, <3>1 DEF Q!Kept, Q!Countable
  <2> QED
    BY <2>1, <2>2, <2>3
<1>10. \A q \in Requests \ {c} :
          /\ work'[q] = work[q] /\ cache'[q] = cache[q]
          /\ cache[q] # NoSnapshot => asks[q] \subseteq asks'[q]
  BY <1>4, <1>6
<1> HIDE DEF QuotaIInv
<1> QED
  BY <1>5, <1>6, <1>7, <1>8, <1>9, <1>10, QuotaStep

\* A counter that is set back stays a number, and no order changes with it.
LEMMA QuotaSyncs ==
  ASSUME NEW d \in QuotaDocs, NEW resource \in Q!Resources, NEW actual \in Nat,
         clock.month \in Q!Months
  PROVE  LET e == Q!syncQuotaCounter(d, resource, actual)
         IN  /\ e \in QuotaDocs /\ e.order = d.order
             /\ \A k \in Q!Counters : e.counter[k] <= d.counter[k]
<1> DEFINE k == <<clock.month, resource>>
           n == IF d.counter[k] > actual THEN actual ELSE d.counter[k]
           e == [d EXCEPT !.counter[k] = n]
<1>1. k \in Q!Counters /\ d.counter[k] \in Nat /\ d.counter \in [Q!Counters -> Nat]
  BY DEF Q!Counters, QuotaDocs
<1>2. n \in Nat /\ n <= d.counter[k]
  BY <1>1
<1>3. Q!syncQuotaCounter(d, resource, actual) = e
  BY Zenon DEF Q!syncQuotaCounter
<1> HIDE DEF n
<1> DEFINE counter == [d.counter EXCEPT ![k] = n]
<1>4. e = [d EXCEPT !.counter = counter]
  OBVIOUS
<1>5. /\ counter \in [Q!Counters -> Nat]
      /\ \A j \in Q!Counters : counter[j] <= d.counter[j]
  BY <1>1, <1>2
<1> HIDE DEF counter
<1>6. [d EXCEPT !.counter = counter] = [order |-> d.order, counter |-> counter]
  BY DEF QuotaDocs
<1>7. d.order \in [Orders -> Q!OrderDocs]
  BY DEF QuotaDocs
<1> QED
  BY <1>3, <1>4, <1>5, <1>6, <1>7 DEF QuotaDocs

\* An order that is cancelled is the only one that changes.
LEMMA QuotaCancels ==
  ASSUME QuotaIInv, NEW c \in Requests, NEW o \in Orders, Q!Cancel(c, o)
  PROVE  /\ db' \in QuotaDocs /\ db'.order[o].status = "cancelled"
         /\ \A p \in Orders \ {o} : db'.order[p] = db.order[p]
         /\ \A k \in Q!Counters :
               db'.counter[k] = db.counter[k] \/ db'.counter[k] <= cache[c].counter[k]
         /\ cache[c] \in QuotaDocs
         /\ cache' = Q!Ended(c) /\ \E docs : asks' = Q!Overtaken(c, docs)
<1> DEFINE d == cache[c]
           a == [d EXCEPT !.order[o].status = "cancelled"]
           new == Q!reconcileMonthlyOrderQuota(a)
<1>1. d # NoSnapshot /\ d.order[o].status = "open" /\ Q!Commit(c, new)
  BY Zenon DEF Q!Cancel
<1>2. QuotaTypeOK /\ clock.month \in Q!Months
  BY DEF QuotaIInv, QuotaTypeOK
<1>3. d \in QuotaDocs
  BY <1>1, <1>2 DEF QuotaTypeOK
<1> HIDE DEF d
<1> DEFINE row == [d.order[o] EXCEPT !.status = "cancelled"]
           orders == [d.order EXCEPT ![o] = row]
<1>4. row \in Q!OrderDocs /\ row.status = "cancelled"
  BY <1>3 DEF QuotaDocs, Q!OrderDocs
<1>5. a = [d EXCEPT !.order = orders]
  OBVIOUS
<1> HIDE DEF row
<1>6. /\ orders \in [Orders -> Q!OrderDocs] /\ orders[o] = row
      /\ \A p \in Orders \ {o} : orders[p] = d.order[p]
  BY <1>3, <1>4 DEF QuotaDocs
<1> HIDE DEF orders
<1>7. [d EXCEPT !.order = orders] = [order |-> orders, counter |-> d.counter]
  BY <1>3 DEF QuotaDocs
<1>8. a \in QuotaDocs /\ a.order = orders /\ a.counter = d.counter
  BY <1>3, <1>5, <1>6, <1>7 DEF QuotaDocs
<1> HIDE DEF a
<1> DEFINE x == Q!getOrderUsage(a, clock.month)
           y == Q!getOnlineOrderUsage(a, clock.month)
           b == Q!syncQuotaCounter(a, "overall", x)
<1>9. x \in Nat /\ y \in Nat /\ "overall" \in Q!Resources /\ "online" \in Q!Resources
  BY QuotaUsage DEF Q!Resources
<1>10. new = Q!syncQuotaCounter(b, "online", y)
  BY Zenon DEF Q!reconcileMonthlyOrderQuota
<1> HIDE DEF x, y, new
<1>11. b \in QuotaDocs /\ b.order = a.order /\ \A k \in Q!Counters : b.counter[k] <= a.counter[k]
  BY <1>2, <1>8, <1>9, QuotaSyncs
<1> HIDE DEF b
<1>12. /\ new \in QuotaDocs /\ new.order = orders
       /\ \A k \in Q!Counters : new.counter[k] <= b.counter[k]
  BY <1>2, <1>8, <1>9, <1>10, <1>11, QuotaSyncs
<1>13. /\ db' \in QuotaDocs
       /\ \A k \in Q!Counters : db'.counter[k] = IF new.counter[k] # d.counter[k]
                                                THEN new.counter[k] ELSE db.counter[k]
       /\ \A p \in Orders : db'.order[p] = IF new.order[p] # d.order[p]
                                           THEN new.order[p] ELSE db.order[p]
       /\ cache' = Q!Ended(c) /\ asks' = Q!Overtaken(c, Q!Written(d, new))
  BY <1>1, <1>2, <1>3, <1>12, QuotaCommit DEF d
<1>14. db'.order[o] = row
  BY <1>1, <1>4, <1>6, <1>12, <1>13
<1>15. \A p \in Orders \ {o} : db'.order[p] = db.order[p]
  BY <1>6, <1>12, <1>13
<1>16. ASSUME NEW k \in Q!Counters
       PROVE  db'.counter[k] = db.counter[k] \/ db'.counter[k] <= d.counter[k]
  <2>1. new.counter[k] \in Nat /\ a.counter[k] \in Nat /\ b.counter[k] \in Nat
    BY <1>8, <1>11, <1>12 DEF QuotaDocs
  <2>2. new.counter[k] <= d.counter[k]
    BY <1>8, <1>11, <1>12, <2>1
  <2> QED
    BY <1>13, <2>2
<1> QED
  BY <1>3, <1>4, <1>13, <1>14, <1>15, <1>16 DEF d

\* An order that is cancelled leaves what took a counter no more than it was.
LEMMA QuotaKeepsCancelled ==
  ASSUME QuotaIInv, NEW c \in Requests, NEW o \in Orders, Q!Cancel(c, o)
  PROVE  QuotaIInv'
<1>1. /\ db' \in QuotaDocs /\ db'.order[o].status = "cancelled"
      /\ \A p \in Orders \ {o} : db'.order[p] = db.order[p]
      /\ cache' = Q!Ended(c)
  BY QuotaCancels
<1>2. PICK docs : asks' = Q!Overtaken(c, docs)
  BY QuotaCancels
<1>3. QuotaTypeOK
  BY DEF QuotaIInv
<1>4. /\ asks' = [q \in Requests |-> asks'[q]]
      /\ cache' \in [Requests -> QuotaDocs \cup {NoSnapshot}]
      /\ \A q \in Requests \ {c} :
            /\ cache'[q] = cache[q]
            /\ cache[q] # NoSnapshot => asks'[q] = asks[q] \cup docs
  BY <1>1, <1>2, <1>3, QuotaOvertakes
<1>5. work[c].pc = "idle" /\ work' = work /\ clock' = clock
  BY DEF Q!Cancel
<1>6. QuotaTypeOK'
  BY <1>1, <1>3, <1>4, <1>5 DEF QuotaTypeOK
<1>7. \A resource : ~Counted(c, resource)'
  BY <1>5 DEF Counted
<1>8. \A m, resource : Q!Kept(db', m, resource) \subseteq Q!Kept(db, m, resource)
  BY <1>1 DEF Q!Kept, Q!Countable
<1>9. \A q \in Requests \ {c} :
          /\ work'[q] = work[q] /\ cache'[q] = cache[q]
          /\ cache[q] # NoSnapshot => asks[q] \subseteq asks'[q]
  BY <1>4, <1>5
<1> HIDE DEF QuotaIInv
<1> QED
  BY <1>5, <1>6, <1>7, <1>8, <1>9, QuotaStep

\* Another month, or nothing at all.
LEMMA QuotaTurns ==
  ASSUME QuotaIInv, Q!Turn \/ UNCHANGED <<db, cache, asks, clock, work>>
  PROVE  QuotaIInv'
<1>1. /\ UNCHANGED <<db, cache, asks, work>> /\ clock'.plan = clock.plan
      /\ clock' \in [month : Q!Months, plan : MCPlans]
  <2>1. clock \in [month : Q!Months, plan : MCPlans]
    BY DEF QuotaIInv, QuotaTypeOK
  <2>2. CASE Q!Turn
    <3>1. clock.month < MaxMonth /\ clock' = [clock EXCEPT !.month = clock.month + 1]
      BY <2>2 DEF Q!Turn
    <3>2. clock.month + 1 \in Q!Months
      BY <2>1, <3>1, ServerAssumption DEF Q!Months, Q!OrderQuotaAssumption
    <3> QED
      BY <2>1, <2>2, <3>1, <3>2 DEF Q!Turn
  <2> QED
    BY <2>1, <2>2
<1> QED
  BY <1>1 DEF QuotaIInv, QuotaTypeOK, Counted, Untouched, Q!isUnlimited

\* Every step keeps the invariant.
LEMMA QuotaKept ==
  ASSUME QuotaIInv, Q!Next \/ UNCHANGED <<db, cache, asks, clock, work>>
  PROVE  QuotaIInv'
<1>1. ASSUME NEW c \in Requests,
             \/ \E source \in {"pos", "online"} : Q!Reach(c, source)
             \/ Q!CountOverall(c) \/ Q!CountOnline(c) \/ Q!Abort(c)
             \/ Q!BeginCancel(c) \/ Q!GiveUp(c)
             \/ \E o \in Orders : Q!Place(c, o) \/ Q!Cancel(c, o)
      PROVE  QuotaIInv'
  BY <1>1, QuotaReaches, QuotaCounts, QuotaCountsOnline, QuotaLeaves, QuotaKeepsPlaced,
     QuotaKeepsCancelled
<1> QED
  BY <1>1, QuotaTurns DEF Q!Next

\* Enforcement begins with orders that no counter has counted, and nobody at work.
LEMMA QuotaInit ==
  ASSUME Q!Init
  PROVE  QuotaIInv
<1>1. PICK rows \in SUBSET Orders, plan \in MCPlans :
        /\ db = [order |-> [o \in Orders |->
                    [status |-> IF o \in rows THEN "open" ELSE "absent",
                     source |-> "pos", month |-> 0, taken |-> 0]],
                 counter |-> [k \in Q!Counters |-> 0]]
        /\ clock = [month |-> 0, plan |-> plan]
  BY DEF Q!Init
<1>2. work = [c \in Requests |-> Q!Idle] /\ Q!OutsideTransactions
  BY DEF Q!Init
<1>3. 0 \in Q!Months
  BY ServerAssumption DEF Q!Months, Q!OrderQuotaAssumption
<1>4. db \in QuotaDocs
  BY <1>1, <1>3 DEF QuotaDocs, Q!OrderDocs
<1>5. clock \in [month : Q!Months, plan : MCPlans]
  BY <1>1, <1>3
<1>6. work \in [Requests -> QuotaWork] /\ \A c \in Requests : work[c].pc = "idle"
  BY <1>2, IdleWork
<1>7. /\ cache \in [Requests -> QuotaDocs \cup {NoSnapshot}]
      /\ asks = [c \in Requests |-> asks[c]]
  BY <1>2 DEF Q!OutsideTransactions
<1>8. \A c \in Requests : \A resource : ~Counted(c, resource)
  BY <1>6 DEF Counted
<1> QED
  BY <1>4, <1>5, <1>6, <1>7, <1>8 DEF QuotaIInv, QuotaTypeOK

\* An order that is placed fits: what took its counter before it was no more than was counted,
\* and the counter was below the limit.
LEMMA QuotaFits ==
  ASSUME QuotaIInv, NEW c \in Requests, NEW o \in Orders, Q!Place(c, o),
         NEW resource \in Q!Resourced(work[c].source), ~Q!isUnlimited(resource)
  PROVE  Cardinality(Q!Kept(db', work[c].month, resource)) <= clock.plan[resource]
<1> DEFINE w == work[c]
           m == w.month
           old == Q!Kept(db, m, resource)
           new == Q!Kept(db', m, resource)
           count == cache[c].counter[<<m, resource>>]
<1>1. /\ \A p \in Orders \ {o} : db'.order[p] = db.order[p]
      /\ cache[c] \in QuotaDocs /\ w.pc = "save" /\ Q!Allowed(cache[c], w)
      /\ Untouched(c, resource)
  BY QuotaPlaces
<1>2. w \in QuotaWork /\ clock.plan \in MCPlans
  BY DEF QuotaIInv, QuotaTypeOK
<1>3. resource = "overall" \/ resource = "online"
  BY DEF Q!Resourced, Q!Resources
<1>4. resource \in Q!Resources /\ m \in Q!Months /\ w[resource] \in Nat
  BY <1>2, <1>3 DEF Q!Resources, QuotaWork
<1>5. count \in Nat
  BY <1>1, <1>4 DEF QuotaDocs, Q!Counters
<1>6. clock.plan[resource] \in Nat
  <2>1. clock.plan \in [{"overall", "online"} -> Nat \cup {NoLimit}]
    BY <1>2, ServerAssumption DEF Q!OrderQuotaAssumption
  <2> QED
    BY <1>3, <2>1 DEF Q!isUnlimited
<1>7. Q!Raised(count, w[resource]) < clock.plan[resource]
  BY <1>1 DEF Q!Allowed, Q!Fits
<1>8. Q!Raised(count, w[resource]) \in Nat /\ Q!Raised(count, w[resource]) >= w[resource]
  BY <1>4, <1>5, RaisedIs
<1>9. Cardinality(old) <= w[resource]
  BY <1>1, <1>4 DEF QuotaIInv, Counted
<1>10. IsFiniteSet(old) /\ Cardinality(old) \in Nat /\ Cardinality(new) \in Nat
  BY KeptFinite
<1>11. new \subseteq old \cup {o}
  BY <1>1 DEF Q!Kept, Q!Countable
<1> HIDE DEF old, new, count, w, m, QuotaIInv
<1>12. /\ IsFiniteSet(old \cup {o})
       /\ Cardinality(old \cup {o}) \in Nat
       /\ Cardinality(old \cup {o}) <= Cardinality(old) + 1
  <2>1. IsFiniteSet(old \cup {o})
    BY <1>10, FS_AddElement
  <2>2. \/ Cardinality(old \cup {o}) = Cardinality(old)
        \/ Cardinality(old \cup {o}) = Cardinality(old) + 1
    BY <1>10, FS_AddElement
  <2> QED
    BY <1>10, <2>1, <2>2
<1>13. Cardinality(new) <= Cardinality(old \cup {o})
  BY <1>11, <1>12, FS_Subset
<1>14. Cardinality(new) <= clock.plan[resource]
  BY <1>4, <1>6, <1>7, <1>8, <1>9, <1>10, <1>12, <1>13
<1> QED
  BY <1>14 DEF new, m, w

\* An order is open that was absent only when it is placed.
LEMMA QuotaAccepts ==
  ASSUME QuotaIInv, Q!Next \/ UNCHANGED <<db, cache, asks, clock, work>>
  PROVE  Q!AcceptedUnderCeiling
<1> SUFFICES ASSUME NEW o \in Orders,
                    db.order[o].status = "absent", db'.order[o].status = "open",
                    NEW resource \in Q!Resourced(db'.order[o].source),
                    ~Q!isUnlimited(resource)
             PROVE  Q!Cardinality(Q!Kept(db', db'.order[o].taken, resource))
                      <= clock.plan[resource]
  BY DEF Q!AcceptedUnderCeiling
<1>1. db' # db
  OBVIOUS
<1>2. ~\E c \in Requests : \E p \in Orders : Q!Cancel(c, p)
  <2> SUFFICES ASSUME NEW c \in Requests, NEW p \in Orders, Q!Cancel(c, p)
               PROVE  FALSE
    OBVIOUS
  <2>1. /\ db'.order[p].status = "cancelled"
        /\ \A q \in Orders \ {p} : db'.order[q] = db.order[q]
    BY QuotaCancels
  <2> QED
    BY <2>1
<1>3. PICK c \in Requests, p \in Orders : Q!Place(c, p)
  BY <1>1, <1>2 DEF Q!Next, Q!Reach, Q!Begin, Q!CountOverall, Q!CountOnline, Q!Abort, Q!End,
     Q!BeginCancel, Q!GiveUp, Q!Turn
<1>4. /\ db'.order[p].source = work[c].source /\ db'.order[p].taken = work[c].month
      /\ \A q \in Orders \ {p} : db'.order[q] = db.order[q]
  BY <1>3, QuotaPlaces
<1>5. p = o
  BY <1>4
<1>6. resource \in Q!Resourced(work[c].source) /\ db'.order[o].taken = work[c].month
  BY <1>4, <1>5
<1>7. Cardinality(Q!Kept(db', work[c].month, resource)) <= clock.plan[resource]
  BY <1>3, <1>6, QuotaFits
<1> QED
  BY <1>6, <1>7, SameCardinality

\* A step of the subscription, or of the quota, is one of its own.
LEMMA PlanSteps ==
  ASSUME [Next]_vars
  PROVE  /\ part' = part
         /\ part = "subscription" => S!Next \/ (db' = db /\ now' = now /\ asks' = asks)
         /\ part = "quota" => Q!Next \/ UNCHANGED <<db, cache, asks, clock, work>>
BY DEF Next, vars

\* Both keep their invariants in every behaviour.
LEMMA PlanHolds ==
  Spec => [](/\ part = "subscription" => SubscriptionIInv
             /\ part = "quota" => QuotaIInv)
<1> DEFINE IInv == /\ part = "subscription" => SubscriptionIInv
                   /\ part = "quota" => QuotaIInv
<1>1. Init => IInv
  BY SubscriptionInit, QuotaInit DEF Init
<1>2. IInv /\ [Next]_vars => IInv'
  BY PlanSteps, SubscriptionStep, QuotaKept
<1> QED
  BY <1>1, <1>2, PTL DEF Spec

\* models/billing.js:222, quotaGuard.js header of reserveQuota: a restaurant has one trial,
\* and an order that the quota let through fits its month's allowance, with whatever other
\* administrators, sweeps, orders and cancellations did meanwhile.
THEOREM PlanKeptTheorem == Spec => PlanKept
<1> DEFINE IInv == /\ part = "subscription" => SubscriptionIInv
                   /\ part = "quota" => QuotaIInv
           Body == /\ part = "subscription" => S!TrialedOnce
                   /\ part = "quota" => Q!AcceptedUnderCeiling
<1>1. IInv /\ [Next]_vars => Body
  BY PlanSteps, SubscriptionTrialedOnce, QuotaAccepts
<1> QED
  BY <1>1, PlanHolds, PTL DEF Spec, PlanKept

-------------------------------------------------------------------------------
(* The panes.                                                              *)

\* What is shown is the document that is selected, or came after an action on another.
Right == db.shown \in {NoDoc, db.selected} \/ db.stray

\* The answer that counts is about the document that is selected, or comes after an action,
\* and when none is awaited the pane shows what is selected, unless the last one was an error; a
\* pane that is cleared as soon as another is chosen never shows another, and the history
\* of an order says that it is loading as long as an answer counts.
PaneIInv ==
    /\ D!TypeOK(MCPanes)
    /\ db.latest # NoRequest =>
          /\ D!Loading(db.latest) /\ D!Numbered(db.latest)
          /\ asks[db.latest].by # "after" => asks[db.latest].doc = db.selected
    /\ db.kind.clears => Right
    /\ (db.latest = NoRequest /\ db.failed = "no") => db.shown = db.selected \/ db.stray
    /\ db.kind = D!OrderHistory =>
          /\ db.latest # NoRequest => db.waiting
          /\ (db.latest = NoRequest /\ db.failed = "said") => Right

\* What is used of the four panes.
LEMMA FourPanes ==
  ASSUME NEW kind \in MCPanes
  PROVE  /\ kind.guards
         /\ kind.clears \/ kind = D!OrderHistory \/ kind.acts = "shown"
         /\ kind.after = "loads" => kind.acts = "shown" /\ ~kind.clears
<1>1. kind \in {D!OrderHistory, D!InvoicePayments, D!loadSupplierCatalog, D!loadStatement}
  BY DEF MCPanes
<1>2. CASE kind = D!OrderHistory
  BY <1>2 DEF D!OrderHistory
<1>3. CASE kind = D!InvoicePayments
  BY <1>3 DEF D!InvoicePayments
<1>4. CASE kind = D!loadSupplierCatalog
  BY <1>4 DEF D!loadSupplierCatalog
<1>5. CASE kind = D!loadStatement
  BY <1>5 DEF D!loadStatement
<1> QED
  BY <1>1, <1>2, <1>3, <1>4, <1>5

\* The history of an order waits for whatever it asks for, is emptied by an error that it
\* shows, and has nothing to be done while it waits.
LEMMA HistoryPane ==
  /\ D!OrderHistory.waits = {"open", "event"} /\ D!OrderHistory.says = {"open"}
  /\ D!OrderHistory.empties /\ D!OrderHistory.hides /\ ~D!OrderHistory.clears
  /\ D!OrderHistory.acts = "selected" /\ D!OrderHistory.after = "opens"
BY DEF D!OrderHistory

\* The shape of a pane and of its requests.
LEMMA PaneShape ==
  ASSUME D!TypeOK(MCPanes)
  PROVE  /\ db.kind \in MCPanes /\ db.kind.guards
         /\ db = [kind |-> db.kind, selected |-> db.selected, shown |-> db.shown,
                  latest |-> db.latest, waiting |-> db.waiting, failed |-> db.failed,
                  stray |-> db.stray]
         /\ db.selected \in Docs \cup {NoDoc} /\ db.shown \in Docs \cup {NoDoc}
         /\ db.latest \in Calls \cup {NoRequest} /\ db.waiting \in BOOLEAN
         /\ db.failed \in {"no", "said", "unsaid"} /\ db.stray \in BOOLEAN
         /\ DOMAIN asks = Calls /\ asks = [r \in Calls |-> asks[r]]
         /\ \A r \in Calls : asks[r] \in D!Asks \/ asks[r] = D!Idle
<1>1. db \in D!PaneDocs(MCPanes) /\ asks \in [Calls -> D!Asks \cup {D!Idle}]
  BY DEF D!TypeOK
<1>2. db.kind \in MCPanes
  BY <1>1 DEF D!PaneDocs
<1>3. db.kind.guards
  BY <1>2, FourPanes
<1> QED
  BY <1>1, <1>2, <1>3 DEF D!PaneDocs

\* A request that is under way is about a document.
LEMMA PaneRequest ==
  ASSUME D!TypeOK(MCPanes), NEW r \in Calls
  PROVE  /\ D!Loading(r) => /\ asks[r].doc \in Docs
                            /\ asks[r].by \in {"open", "event", "after"}
         /\ asks[r].by = "action" => asks[r].doc \in Docs /\ ~D!Loading(r)
         /\ asks[r] = D!Idle => ~D!Loading(r)
BY PaneShape DEF D!Asks, D!Idle, D!Loading

\* A pane that opens shows nothing, and nothing was asked for.
LEMMA PaneInit ==
  ASSUME D!Init(MCPanes)
  PROVE  PaneIInv
<1>1. db.kind \in MCPanes
  BY DEF D!Init
<1>2. D!TypeOK(MCPanes)
  BY <1>1 DEF D!Init, D!TypeOK, D!PaneDocs
<1> QED
  BY <1>1, <1>2 DEF D!Init, PaneIInv, Right

\* A document is asked for, by a pane that otherwise becomes p.
LEMMA PaneAsks ==
  ASSUME PaneIInv, NEW r \in Calls, NEW doc \in Docs, NEW by \in {"open", "event", "after"},
         NEW p \in D!PaneDocs(MCPanes), D!Ask(r, doc, by, p), p.kind = db.kind,
         by # "after" => doc = p.selected, by = "after" => p.kind.after = "loads",
         p.kind.clears => p.shown \in {NoDoc, p.selected} \/ p.stray
  PROVE  PaneIInv'
<1>1. /\ db' = [p EXCEPT !.latest = r, !.waiting = @ \/ by \in p.kind.waits, !.failed = "no"]
      /\ asks' = [asks EXCEPT ![r] = [doc |-> doc, by |-> by]]
  BY DEF D!Ask
<1>2. /\ db'.kind = p.kind /\ db'.selected = p.selected /\ db'.shown = p.shown
      /\ db'.latest = r /\ db'.failed = "no" /\ db'.stray = p.stray
      /\ db'.waiting = (p.waiting \/ by \in p.kind.waits)
  BY <1>1 DEF D!PaneDocs
<1>3. /\ asks'[r] = [doc |-> doc, by |-> by] /\ [doc |-> doc, by |-> by] \in D!Asks
      /\ asks' \in [Calls -> D!Asks \cup {D!Idle}]
  BY <1>1 DEF PaneIInv, D!TypeOK, D!Asks
<1>4. (p.waiting \/ by \in p.kind.waits) \in BOOLEAN
  OBVIOUS
<1>5. db' \in D!PaneDocs(MCPanes)
  BY <1>1, <1>4 DEF D!PaneDocs
<1>6. D!TypeOK(MCPanes)'
  BY <1>3, <1>5 DEF D!TypeOK
<1>7. db'.kind = D!OrderHistory => by \in db'.kind.waits
  BY <1>2, HistoryPane
<1>8. D!Loading(r)' /\ D!Numbered(r)'
  BY <1>2, <1>3 DEF D!Loading, D!Numbered
<1>9. r # NoRequest
  BY ServerAssumption DEF D!PanesAssumption
<1>10. asks'[r].by # "after" => asks'[r].doc = db'.selected
  BY <1>2, <1>3
<1>11. db'.kind.clears => Right'
  BY <1>2 DEF Right
<1>12. db'.kind = D!OrderHistory => db'.waiting
  BY <1>2, <1>7
<1> QED
  BY <1>2, <1>6, <1>8, <1>9, <1>10, <1>11, <1>12, ZenonT(30) DEF PaneIInv

\* What a request was made for changes, but not of the one that counts.
LEMMA PaneOther ==
  ASSUME PaneIInv, NEW r \in Calls, NEW ask \in D!Asks \cup {D!Idle}, r # db.latest,
         asks' = [asks EXCEPT ![r] = ask], db' = db
  PROVE  PaneIInv'
<1>1. D!TypeOK(MCPanes)'
  BY DEF PaneIInv, D!TypeOK
<1>2. db.latest # NoRequest => asks'[db.latest] = asks[db.latest]
  BY PaneShape DEF PaneIInv
<1> QED
  BY <1>1, <1>2 DEF PaneIInv, Right, D!Loading, D!Numbered

\* A pane shows what came, or nothing, or what it did.
LEMMA PaneBecomes ==
  ASSUME PaneIInv, NEW r \in Calls, asks' = [asks EXCEPT ![r] = D!Idle],
         NEW shown \in Docs \cup {NoDoc}, NEW failed \in {"no", "said", "unsaid"},
         NEW stray \in BOOLEAN,
         db' = [D!Settled(r) EXCEPT !.shown = shown, !.failed = failed, !.stray = stray],
         db.kind.clears => shown \in {NoDoc, db.selected} \/ stray,
         failed = "no" /\ (r = db.latest \/ db.latest = NoRequest)
            => shown = db.selected \/ stray,
         failed = "said" /\ db.kind = D!OrderHistory /\ (r = db.latest \/ db.latest = NoRequest)
            => shown \in {NoDoc, db.selected} \/ stray
  PROVE  PaneIInv'
<1>1. D!TypeOK(MCPanes)
  BY DEF PaneIInv
<1>2. /\ db'.kind = db.kind /\ db'.selected = db.selected /\ db'.shown = shown
      /\ db'.failed = failed /\ db'.stray = stray
  BY <1>1, PaneShape DEF D!Settled
<1>3. /\ r = db.latest => db'.latest = NoRequest
      /\ r # db.latest => db'.latest = db.latest /\ db'.waiting = db.waiting
  BY <1>1, PaneShape DEF D!Settled
<1>4. db' \in D!PaneDocs(MCPanes)
  <2>1. db \in D!PaneDocs(MCPanes)
    BY <1>1 DEF D!TypeOK
  <2>2. CASE db.latest # r
    BY <2>1, <2>2 DEF D!Settled, D!PaneDocs
  <2>3. CASE db.latest = r
    <3>1. (db.waiting /\ asks[r].by \notin db.kind.ends) \in BOOLEAN
      OBVIOUS
    <3> QED
      BY <2>1, <2>3, <3>1 DEF D!Settled, D!PaneDocs
  <2> QED
    BY <2>2, <2>3
<1>5. D!TypeOK(MCPanes)'
  BY <1>1, <1>4 DEF D!TypeOK
<1>6. r # db.latest /\ db.latest # NoRequest => asks'[db.latest] = asks[db.latest]
  BY <1>1, PaneShape
<1> QED
  BY <1>2, <1>3, <1>5, <1>6 DEF PaneIInv, Right, D!Loading, D!Numbered

\* An answer that counts in the sequence is the one that is awaited.
LEMMA PaneShow ==
  ASSUME PaneIInv, NEW r \in Calls, D!Show(r)
  PROVE  PaneIInv'
<1>1. D!TypeOK(MCPanes)
  BY DEF PaneIInv
<1>2. /\ D!Loading(r) /\ asks[r].doc \in Docs /\ asks' = [asks EXCEPT ![r] = D!Idle]
  BY <1>1, PaneRequest DEF D!Show
<1>3. CASE D!Counts(r)
  <2> DEFINE stray == asks[r].by = "after" /\ asks[r].doc # db.selected
  <2>1. D!Numbered(r) => db.latest = r
    BY <1>1, <1>3, PaneShape DEF D!Counts
  <2>2. asks[r].by # "after" => D!Numbered(r)
    BY DEF D!Numbered
  <2>3. asks[r].doc = db.selected \/ stray
    <3>1. CASE asks[r].by = "after"
      BY <3>1
    <3>2. CASE asks[r].by # "after"
      BY <2>1, <2>2, <3>2, ServerAssumption DEF PaneIInv, D!PanesAssumption
    <3> QED
      BY <3>1, <3>2
  <2>4. stray \in BOOLEAN
    OBVIOUS
  <2>5. db' = [D!Settled(r) EXCEPT !.shown = asks[r].doc, !.stray = stray]
    BY <1>3 DEF D!Show
  <2> HIDE DEF stray
  <2>6. db' = [D!Settled(r) EXCEPT !.shown = asks[r].doc, !.failed = db.failed, !.stray = stray]
    BY <1>1, <2>5, PaneShape DEF D!Settled
  <2> QED
    BY <1>1, <1>2, <2>3, <2>4, <2>6, PaneBecomes, PaneShape
<1>4. CASE ~D!Counts(r)
  <2>1. db' = db /\ db.latest # r
    BY <1>4 DEF D!Show, D!Counts
  <2> QED
    BY <1>2, <2>1, PaneOther
<1> QED
  BY <1>3, <1>4

\* An error empties the pane, or is a reload's.
LEMMA PaneFail ==
  ASSUME PaneIInv, NEW r \in Calls, D!Fail(r)
  PROVE  PaneIInv'
<1>1. D!TypeOK(MCPanes)
  BY DEF PaneIInv
<1>2. D!Loading(r) /\ asks' = [asks EXCEPT ![r] = D!Idle]
  BY DEF D!Fail
<1>3. CASE D!Counts(r) /\ D!Numbered(r)
  <2> DEFINE shown == IF db.kind.empties /\ asks[r].by # "event" THEN NoDoc ELSE db.shown
             failed == IF asks[r].by \in db.kind.says THEN "said" ELSE "unsaid"
  <2>1. db' = [D!Settled(r) EXCEPT !.shown = shown, !.failed = failed]
    <3>1. db' = [D!Settled(r) EXCEPT
                    !.shown = IF db.kind.empties /\ asks[r].by # "event" THEN NoDoc ELSE @,
                    !.failed = failed]
      BY <1>3 DEF D!Fail
    <3>2. D!Settled(r).shown = db.shown
      BY <1>1, PaneShape DEF D!Settled
    <3> QED
      BY <1>1, <3>1, <3>2, PaneShape DEF D!Settled
  <2>2. shown \in {NoDoc, db.shown} /\ failed \in {"said", "unsaid"}
    OBVIOUS
  <2>3. failed = "said" /\ db.kind = D!OrderHistory => shown = NoDoc
    BY HistoryPane
  <2> HIDE DEF shown, failed
  <2>4. db' = [D!Settled(r) EXCEPT !.shown = shown, !.failed = failed, !.stray = db.stray]
    BY <1>1, <2>1, PaneShape DEF D!Settled
  <2>5. db.kind.clears => shown \in {NoDoc, db.selected} \/ db.stray
    BY <2>2 DEF PaneIInv, Right
  <2> QED
    BY <1>1, <1>2, <2>2, <2>3, <2>4, <2>5, PaneBecomes, PaneShape
<1>4. CASE ~(D!Counts(r) /\ D!Numbered(r))
  <2>1. db' = db
    BY <1>4 DEF D!Fail
  <2>2. db.latest # r
    BY <1>4, ServerAssumption DEF PaneIInv, D!Counts, D!PanesAssumption
  <2> QED
    BY <1>2, <2>1, <2>2, PaneOther
<1> QED
  BY <1>3, <1>4

\* A document is chosen.
LEMMA PaneChosen ==
  ASSUME PaneIInv, NEW doc \in Docs
  PROVE  /\ D!Chosen(doc) \in D!PaneDocs(MCPanes) /\ D!Chosen(doc).kind = db.kind
         /\ D!Chosen(doc).selected = doc
         /\ db.kind.clears => D!Chosen(doc).shown \in {NoDoc, doc} \/ D!Chosen(doc).stray
<1>1. D!TypeOK(MCPanes) /\ db \in D!PaneDocs(MCPanes)
  BY DEF PaneIInv, D!TypeOK
<1>2. /\ D!Chosen(doc).kind = db.kind /\ D!Chosen(doc).selected = doc
      /\ D!Chosen(doc).stray = db.stray
      /\ D!Chosen(doc).shown = IF db.kind.clears /\ doc # db.selected THEN NoDoc ELSE db.shown
  BY <1>1, PaneShape DEF D!Chosen
<1>3. D!Chosen(doc) \in D!PaneDocs(MCPanes)
  BY <1>1 DEF D!Chosen, D!PaneDocs
<1> QED
  BY <1>2, <1>3 DEF PaneIInv, Right

\* Every step keeps the invariant.
LEMMA PaneStep ==
  ASSUME PaneIInv, D!Next
  PROVE  PaneIInv'
<1>1. D!TypeOK(MCPanes) /\ db \in D!PaneDocs(MCPanes)
  BY DEF PaneIInv, D!TypeOK
<1>2. \A r \in Calls : ~D!Loading(r) => db.latest # r
  BY ServerAssumption DEF PaneIInv, D!PanesAssumption
<1>3. ASSUME NEW r \in Calls, NEW doc \in Docs, D!Select(r, doc)
      PROVE  PaneIInv'
  BY <1>3, PaneChosen, PaneAsks DEF D!Select
<1>4. ASSUME NEW r \in Calls, D!Refresh(r)
      PROVE  PaneIInv'
  <2>1. D!Ask(r, db.selected, "event", db) /\ db.selected \in Docs
    BY <1>1, <1>4, PaneShape DEF D!Refresh
  <2> QED
    BY <1>1, <2>1, PaneAsks DEF PaneIInv, Right
<1>5. ASSUME NEW r \in Calls, D!Act(r)
      PROVE  PaneIInv'
  <2> DEFINE ask == [doc |-> db.selected, by |-> "action"]
  <2>1. db.selected \in Docs /\ asks[r] = D!Idle /\ asks' = [asks EXCEPT ![r] = ask] /\ db' = db
    BY <1>1, <1>5, PaneShape DEF D!Act
  <2>2. ask \in D!Asks
    BY <2>1 DEF D!Asks
  <2>3. r # db.latest
    BY <1>1, <1>2, <2>1, PaneRequest
  <2> QED
    BY <2>1, <2>2, <2>3, PaneOther
<1>6. ASSUME NEW r \in Calls, D!Done(r)
      PROVE  PaneIInv'
  <2>1. asks[r].by = "action" /\ asks[r].doc \in Docs /\ r # db.latest
    BY <1>1, <1>2, <1>6, PaneRequest DEF D!Done
  <2>2. CASE db.kind.after = "opens" /\ D!Ask(r, asks[r].doc, "open", D!Chosen(asks[r].doc))
    BY <2>1, <2>2, PaneChosen, PaneAsks
  <2>3. CASE db.kind.after = "loads" /\ D!Ask(r, asks[r].doc, "after", db)
    BY <1>1, <2>1, <2>3, PaneAsks DEF PaneIInv, Right
  <2>4. CASE db' = db /\ asks' = [asks EXCEPT ![r].by = "after"]
    <3>1. asks[r] \in D!Asks
      BY <1>1, <2>1, PaneShape DEF D!Idle
    <3>2. [asks[r] EXCEPT !.by = "after"] \in D!Asks
      BY <3>1 DEF D!Asks
    <3> QED
      BY <2>1, <2>4, <3>2, PaneOther
  <2> QED
    BY <1>6, <2>2, <2>3, <2>4 DEF D!Done
<1>7. ASSUME NEW r \in Calls, D!Refused(r)
      PROVE  PaneIInv'
  BY <1>1, <1>2, <1>7, PaneRequest, PaneOther DEF D!Refused
<1>8. ASSUME D!Close
      PROVE  PaneIInv'
  <2>1. /\ db' = [db EXCEPT !.selected = NoDoc, !.shown = NoDoc, !.latest = NoRequest,
                            !.waiting = FALSE, !.failed = "no", !.stray = FALSE]
        /\ asks' = asks
    BY <1>8 DEF D!Close
  <2>2. /\ db'.selected = NoDoc /\ db'.shown = NoDoc
        /\ db'.latest = NoRequest /\ db'.failed = "no"
    BY <1>1, <2>1, PaneShape
  <2>3. D!TypeOK(MCPanes)'
    BY <1>1, <2>1 DEF D!TypeOK, D!PaneDocs
  <2> QED
    BY <2>2, <2>3 DEF PaneIInv, Right
<1> QED
  BY <1>3, <1>4, <1>5, <1>6, <1>7, <1>8, PaneShow, PaneFail DEF D!Next

\* A button names the document that is shown; with nothing on its way that is the one that
\* is selected.
LEMMA PaneShows ==
  ASSUME PaneIInv
  PROVE  D!ActsOnWhatItShows /\ D!ShowsWhatIsSelected
<1>1. D!TypeOK(MCPanes)
  BY DEF PaneIInv
<1>2. db.kind.clears \/ db.kind = D!OrderHistory \/ db.kind.acts = "shown"
  BY <1>1, PaneShape, FourPanes
<1>3. D!ActsOnWhatItShows
  <2> SUFFICES ASSUME D!MayAct, db.failed # "unsaid", ~db.stray, db.kind.acts # "shown"
               PROVE  db.shown = db.selected
    BY DEF D!ActsOnWhatItShows, D!Named
  <2>1. db.shown # NoDoc /\ ~(db.kind.hides /\ db.waiting)
    BY DEF D!MayAct
  <2>2. CASE db.kind.clears
    BY <2>1, <2>2 DEF PaneIInv, Right
  <2>3. CASE db.kind = D!OrderHistory
    <3>1. db.latest = NoRequest
      BY <2>1, <2>3, HistoryPane DEF PaneIInv
    <3> QED
      BY <1>1, <2>1, <2>3, <3>1, PaneShape DEF PaneIInv, Right
  <2> QED
    BY <1>2, <2>2, <2>3
<1>4. D!ShowsWhatIsSelected
  <2> SUFFICES ASSUME \A r \in Calls : asks[r] = D!Idle, db.failed = "no", ~db.stray
               PROVE  db.shown = db.selected
    BY DEF D!ShowsWhatIsSelected
  <2>1. db.latest = NoRequest
    BY <1>1, PaneShape, PaneRequest DEF PaneIInv
  <2> QED
    BY <2>1 DEF PaneIInv
<1> QED
  BY <1>3, <1>4

-------------------------------------------------------------------------------
(* The pages that load their list when their socket is in its room.        *)

\* An event is on the wire.
EventComes == \E i \in 1..Len(work) : work[i].type = "event"

\* What will make the page show the list as it is: the newest change is still to be
\* published, an event is on its way or waits for the timer, or the load that counts will
\* read, or has read, the newest version; or that load failed, and the page says so.
Catches ==
    \/ tokens.shown = db.version
    \/ db.version \in db.unpublished
    \/ EventComes
    \/ tokens.timer
    \/ asks[tokens.latest].pc = "asked"
    \/ asks[tokens.latest].pc = "answered" /\ asks[tokens.latest].seen = db.version
    \/ tokens.failed /\ asks[tokens.latest].pc = "idle"

\* The answer that counts is no older than what is shown.
Newer(page, ask) ==
    /\ page.shown <= db.version
    /\ ask.pc = "answered" => page.shown <= ask.seen /\ ask.seen <= db.version

\* A page whose socket is in its room will catch up; the room is left with the connection,
\* and nothing is on the wire of a socket that is in no room.
PageIInv ==
    /\ G!TypeOK(MCPages)
    /\ tokens.latest \in Requests
    /\ work # <<>> => cache
    /\ cache => tokens.socket \in {"joining", "joined"}
    /\ tokens.socket = "joined" => cache /\ Catches
    /\ Newer(tokens, asks[tokens.latest])

\* What is used of the two pages.
LEMMA TwoPages ==
  ASSUME "kds" \notin Parts, NEW kind \in MCPages
  PROVE  /\ kind.guards /\ kind.loads = "joined" /\ kind.on \in {"queue", "load"}
         /\ kind # G!RiderApp
<1>1. kind \in {G!Purchasing, G!Inventory}
  BY DEF MCPages
<1>2. CASE kind = G!Purchasing
  BY <1>2 DEF G!Purchasing, G!RiderApp
<1>3. CASE kind = G!Inventory
  BY <1>3 DEF G!Inventory, G!RiderApp
<1> QED
  BY <1>1, <1>2, <1>3

\* A page that is mounted is not connected yet.
LEMMA PageInit ==
  ASSUME G!Init(MCPages)
  PROVE  PageIInv
<1>1. PICK r \in Requests, kind \in MCPages :
        /\ tokens = [kind |-> kind, socket |-> "down", shown |-> 0, latest |-> r,
                     timer |-> FALSE, failed |-> FALSE]
        /\ asks = [q \in Requests |-> IF q = r THEN [G!NoAsk EXCEPT !.pc = "asked"] ELSE G!NoAsk]
  BY DEF G!Init
<1>2. MaxChanges \in Nat
  BY ServerAssumption DEF G!PagesAssumption
<1>3. asks \in [Requests -> G!AskDocs]
  BY <1>1, <1>2 DEF G!NoAsk, G!AskDocs, G!Versions
<1>4. cache = FALSE /\ work = <<>> /\ db = [version |-> 0, unpublished |-> {}]
  BY DEF G!Init
<1> db \in G!Databases
  BY <1>2, <1>4 DEF G!Databases, G!Versions
<1> work \in Seq(G!Messages)
  BY <1>4
<1>5. tokens \in G!PageDocs(MCPages)
  BY <1>1, <1>2 DEF G!PageDocs, G!Versions
<1>6. asks[tokens.latest].pc = "asked"
  BY <1>1 DEF G!NoAsk
<1>7. tokens.latest = r /\ tokens.socket = "down" /\ tokens.shown = 0 /\ db.version = 0
  BY <1>1, <1>4
<1>8. G!TypeOK(MCPages)
  BY <1>3, <1>4, <1>5 DEF G!TypeOK
<1> QED
  BY <1>4, <1>6, <1>7, <1>8 DEF PageIInv, Newer

\* A page that loads will read the list, and nothing newer was asked for.
LEMMA PageLoads ==
  ASSUME PageIInv, NEW r \in Requests, NEW p \in G!PageDocs(MCPages), G!Load(r, p)
  PROVE  /\ tokens' \in G!PageDocs(MCPages) /\ asks' \in [Requests -> G!AskDocs]
         /\ tokens'.latest = r /\ asks'[r].pc = "asked" /\ tokens'.socket = p.socket
      /\ tokens'.shown = p.shown
         /\ tokens'.shown = p.shown
<1>1. /\ tokens' = [p EXCEPT !.latest = r]
      /\ asks' = [asks EXCEPT ![r] = [G!NoAsk EXCEPT !.pc = "asked"]]
      /\ asks \in [Requests -> G!AskDocs]
  BY DEF G!Load, PageIInv, G!TypeOK
<1>2. MaxChanges \in Nat
  BY ServerAssumption DEF G!PagesAssumption
<1>3. [G!NoAsk EXCEPT !.pc = "asked"] = [pc |-> "asked", seen |-> 0]
  BY DEF G!NoAsk
<1>4. asks' \in [Requests -> G!AskDocs] /\ asks'[r].pc = "asked"
  BY <1>1, <1>2, <1>3 DEF G!AskDocs, G!Versions
<1> QED
  BY <1>1, <1>4 DEF G!PageDocs

\* The same of a page that loads when something happens to it: its list is unchanged.
LEMMA PageLoading ==
  ASSUME PageIInv, NEW r \in Requests, NEW p \in G!PageDocs(MCPages), G!Load(r, p),
         p.shown = tokens.shown, db' = db, cache' = cache,
         work' \in Seq(G!Messages), work' # <<>> => work # <<>>,
         p.socket = tokens.socket \/ (cache /\ p.socket = "joined")
           \/ (p.socket = "joining" /\ tokens.socket = "down")
  PROVE  PageIInv'
<1>1. /\ tokens' \in G!PageDocs(MCPages) /\ asks' \in [Requests -> G!AskDocs]
      /\ tokens'.latest = r /\ asks'[r].pc = "asked" /\ tokens'.socket = p.socket
      /\ tokens'.shown = p.shown
  BY PageLoads
<1>2. G!TypeOK(MCPages)'
  BY <1>1 DEF PageIInv, G!TypeOK
<1>3. Catches'
  BY <1>1 DEF Catches
<1> QED
  BY <1>1, <1>2, <1>3 DEF PageIInv, Newer

\* A load is answered, shown, or fails.
LEMMA PageAnswers ==
  ASSUME "kds" \notin Parts, PageIInv, NEW r \in Requests,
         G!Answer(r) \/ G!Show(r) \/ G!Fail(r)
  PROVE  PageIInv'
<1>1. /\ db \in G!Databases /\ tokens \in G!PageDocs(MCPages) /\ asks \in [Requests -> G!AskDocs]
      /\ tokens.kind \in MCPages /\ tokens.latest \in Requests /\ MaxChanges \in Nat
  BY ServerAssumption DEF PageIInv, G!TypeOK, G!PageDocs, G!PagesAssumption
<1>2. tokens.kind.guards
  BY <1>1, TwoPages
<1>3. CASE G!Answer(r)
  <2>1. /\ asks' = [asks EXCEPT ![r] = [pc |-> "answered", seen |-> db.version]]
        /\ db' = db /\ cache' = cache /\ work' = work /\ tokens' = tokens
        /\ asks[r].pc = "asked"
    BY <1>3 DEF G!Answer
  <2>2. asks' \in [Requests -> G!AskDocs]
    BY <1>1, <2>1 DEF G!AskDocs, G!Databases
  <2>3. G!TypeOK(MCPages)'
    BY <2>1, <2>2 DEF PageIInv, G!TypeOK
  <2>4. Catches => Catches'
    BY <1>1, <2>1 DEF Catches, EventComes
  <2> QED
    BY <1>1, <2>1, <2>3, <2>4 DEF G!Databases, G!PageDocs, G!Versions, PageIInv, Newer
<1>4. CASE G!Show(r)
  <2>1. /\ asks' = [asks EXCEPT ![r] = G!NoAsk] /\ asks[r].pc = "answered"
        /\ db' = db /\ cache' = cache /\ work' = work
    BY <1>4 DEF G!Show
  <2>2. asks' \in [Requests -> G!AskDocs] /\ asks'[r].pc = "idle"
    BY <1>1, <2>1 DEF G!AskDocs, G!NoAsk, G!Versions
  <2>3. CASE tokens.latest = r
    <3>1. tokens' = [tokens EXCEPT !.shown = asks[r].seen, !.failed = FALSE]
      BY <1>2, <1>4, <2>3 DEF G!Show, G!Counts
    <3>2. /\ tokens' \in G!PageDocs(MCPages) /\ tokens'.shown = asks[r].seen
          /\ tokens'.timer = tokens.timer /\ tokens'.socket = tokens.socket /\ tokens'.latest = r
      BY <1>1, <2>3, <3>1 DEF G!PageDocs, G!AskDocs
    <3>3. EventComes => EventComes'
      BY <2>1 DEF EventComes
    <3>4. Catches => Catches'
      BY <1>1, <2>1, <2>3, <3>2, <3>3 DEF Catches, PageIInv, Newer, G!AskDocs, G!Databases,
         G!PageDocs, G!Versions
    <3>5. G!TypeOK(MCPages)'
      BY <2>1, <2>2, <3>2 DEF PageIInv, G!TypeOK
    <3> QED
      BY <2>1, <2>2, <2>3, <3>2, <3>4, <3>5 DEF PageIInv, Newer
  <2>4. CASE tokens.latest # r
    <3>1. tokens' = tokens
      BY <1>2, <1>4, <2>4 DEF G!Show, G!Counts
    <3>2. asks'[tokens.latest] = asks[tokens.latest]
      BY <1>1, <2>1, <2>4
    <3>3. Catches => Catches'
      BY <2>1, <3>1, <3>2 DEF Catches, EventComes
    <3>4. G!TypeOK(MCPages)'
      BY <2>1, <2>2, <3>1 DEF PageIInv, G!TypeOK
    <3> QED
      BY <2>1, <3>1, <3>2, <3>3, <3>4 DEF PageIInv, Newer
  <2> QED
    BY <2>3, <2>4
<1>5. CASE G!Fail(r)
  <2>1. /\ asks' = [asks EXCEPT ![r] = G!NoAsk]
        /\ db' = db /\ cache' = cache /\ work' = work
    BY <1>5 DEF G!Fail
  <2>2. asks' \in [Requests -> G!AskDocs] /\ asks'[r].pc = "idle"
    BY <1>1, <2>1 DEF G!AskDocs, G!NoAsk, G!Versions
  <2>3. CASE tokens.latest = r
    <3>1. tokens' = [tokens EXCEPT !.failed = TRUE]
      BY <1>2, <1>5, <2>3 DEF G!Fail, G!Counts
    <3>2. /\ tokens' \in G!PageDocs(MCPages) /\ tokens'.failed /\ tokens'.shown = tokens.shown
          /\ tokens'.socket = tokens.socket /\ tokens'.latest = r
      BY <1>1, <2>3, <3>1 DEF G!PageDocs
    <3>3. Catches'
      BY <2>2, <3>2 DEF Catches
    <3>4. G!TypeOK(MCPages)'
      BY <2>1, <2>2, <3>2 DEF PageIInv, G!TypeOK
    <3> QED
      BY <2>1, <2>2, <3>2, <3>3, <3>4 DEF PageIInv, Newer
  <2>4. CASE tokens.latest # r
    <3>1. tokens' = tokens
      BY <1>2, <1>5, <2>4 DEF G!Fail, G!Counts
    <3>2. asks'[tokens.latest] = asks[tokens.latest]
      BY <1>1, <2>1, <2>4
    <3>3. Catches => Catches'
      BY <2>1, <3>1, <3>2 DEF Catches, EventComes
    <3>4. G!TypeOK(MCPages)'
      BY <2>1, <2>2, <3>1 DEF PageIInv, G!TypeOK
    <3> QED
      BY <2>1, <3>1, <3>2, <3>3, <3>4 DEF PageIInv, Newer
  <2> QED
    BY <2>3, <2>4
<1> QED
  BY <1>3, <1>4, <1>5

\* The list changes, and its changes are published, in any order.
LEMMA PageChanges ==
  ASSUME PageIInv, G!Change \/ G!Publish \/ G!JoinBranch
  PROVE  PageIInv'
<1>1. /\ db \in G!Databases /\ tokens \in G!PageDocs(MCPages) /\ asks \in [Requests -> G!AskDocs]
      /\ work \in Seq(G!Messages) /\ cache \in BOOLEAN /\ MaxChanges \in Nat
      /\ tokens' = tokens /\ asks' = asks
  BY ServerAssumption DEF PageIInv, G!TypeOK, G!PagesAssumption, G!Change, G!Publish, G!JoinBranch
<1>2. CASE G!Change
  <2>1. /\ db.version < MaxChanges /\ cache' = cache /\ work' = work
        /\ db' = [version |-> db.version + 1, unpublished |-> db.unpublished \cup {db.version + 1}]
    BY <1>2 DEF G!Change
  <2>2. db' \in G!Databases /\ db'.version \in db'.unpublished
    BY <1>1, <2>1 DEF G!Databases, G!Versions
  <2>3. db'.version = db.version + 1 /\ db.version \in Int
    BY <1>1, <2>1 DEF G!Databases, G!Versions
  <2>4. (tokens.shown <= db.version => tokens.shown <= db'.version)
        /\ \A n \in Int : n <= db.version => n <= db'.version
    BY <1>1, <2>3 DEF G!PageDocs, G!Versions
  <2>5. asks[tokens.latest].seen \in Int
    BY <1>1 DEF PageIInv, G!AskDocs, G!Versions
  <2> QED
    BY <1>1, <2>1, <2>2, <2>4, <2>5 DEF PageIInv, G!TypeOK, Catches, Newer
<1>3. CASE G!Publish
  <2>0. PICK v \in db.unpublished :
          /\ db' = [db EXCEPT !.unpublished = @ \ {v}]
          /\ \E seen \in v..db.version :
                work' = IF cache THEN Append(work, [type |-> "event", version |-> seen]) ELSE work
    BY <1>3 DEF G!Publish
  <2>1. PICK seen \in v..db.version :
          work' = IF cache THEN Append(work, [type |-> "event", version |-> seen]) ELSE work
    BY <2>0
  <2>2. /\ db' \in G!Databases /\ db'.version = db.version /\ cache' = cache
        /\ db'.unpublished = db.unpublished \ {v}
    BY <1>1, <1>3, <2>0 DEF G!Databases, G!Publish
  <2>3. [type |-> "event", version |-> seen] \in G!Messages
    BY <1>1, <2>0, <2>1 DEF G!Databases, G!Messages, G!Versions
  <2>4. CASE cache
    <3>1. work' = Append(work, [type |-> "event", version |-> seen])
      BY <2>1, <2>4
    <3>2. work' \in Seq(G!Messages) /\ EventComes'
      BY <1>1, <2>3, <3>1 DEF EventComes
    <3> QED
      BY <1>1, <2>2, <2>4, <3>2 DEF PageIInv, G!TypeOK, Catches, Newer
  <2>5. CASE ~cache
    <3>1. work' = work /\ tokens.socket # "joined"
      BY <2>1, <2>5 DEF PageIInv
    <3> QED
      BY <1>1, <2>2, <2>5, <3>1 DEF PageIInv, G!TypeOK, Newer
  <2> QED
    BY <2>4, <2>5
<1>4. CASE G!JoinBranch
  <2>1. /\ tokens.socket = "joining" /\ cache' = TRUE /\ db' = db
        /\ work' = Append(work, G!Joined)
    BY <1>4 DEF G!JoinBranch
  <2>2. work' \in Seq(G!Messages)
    BY <1>1, <2>1 DEF G!Joined, G!Messages, G!Versions
  <2> QED
    BY <1>1, <2>1, <2>2 DEF PageIInv, G!TypeOK, Newer
<1> QED
  BY <1>2, <1>3, <1>4

\* A message arrives: the room is joined, or the list has changed.
LEMMA PageReceives ==
  ASSUME "kds" \notin Parts, PageIInv, G!Receive
  PROVE  PageIInv'
<1>1. /\ tokens \in G!PageDocs(MCPages) /\ tokens.kind \in MCPages
      /\ work \in Seq(G!Messages) /\ work # <<>> /\ cache
      /\ work' = Tail(work) /\ work' \in Seq(G!Messages) /\ db' = db /\ cache' = cache
  BY DEF PageIInv, G!TypeOK, G!PageDocs, G!Receive
<1>2. tokens.kind.loads = "joined" /\ tokens.kind.on \in {"queue", "load"}
  BY <1>1, TwoPages
<1>3. CASE G!Acknowledged
  <2> DEFINE p == [tokens EXCEPT !.socket = "joined"]
  <2>1. PICK r \in Requests : G!Load(r, p)
    BY <1>2, <1>3 DEF G!Acknowledged, G!Reached
  <2>2. p \in G!PageDocs(MCPages) /\ p.socket = "joined" /\ p.shown = tokens.shown
    BY <1>1 DEF G!PageDocs
  <2> HIDE DEF p
  <2> QED
    BY <1>1, <2>1, <2>2, PageLoading
<1>4. CASE G!OnUpdate
  <2>1. CASE tokens.kind.on = "load"
    <3>1. PICK r \in Requests : G!Load(r, tokens)
      BY <1>4, <2>1 DEF G!OnUpdate
    <3> QED
      BY <1>1, <3>1, PageLoading
  <2>2. CASE tokens.kind.on = "queue"
    <3>1. tokens' = [tokens EXCEPT !.timer = TRUE] /\ asks' = asks
      BY <1>4, <2>2 DEF G!OnUpdate
    <3>2. /\ tokens' \in G!PageDocs(MCPages) /\ tokens'.timer /\ tokens'.latest = tokens.latest
          /\ tokens'.socket = tokens.socket /\ tokens'.shown = tokens.shown
      BY <1>1, <3>1 DEF G!PageDocs
    <3> QED
      BY <1>1, <3>1, <3>2 DEF PageIInv, G!TypeOK, Catches, Newer
  <2> QED
    BY <1>2, <2>1, <2>2
<1> QED
  BY <1>3, <1>4 DEF G!Receive

\* Connections come and go, and with them what was on the wire.
LEMMA PageConnects ==
  ASSUME "kds" \notin Parts, PageIInv, G!Connect \/ G!Disconnect \/ G!Restart
  PROVE  PageIInv'
<1>1. /\ db \in G!Databases /\ tokens \in G!PageDocs(MCPages) /\ tokens.kind \in MCPages
      /\ asks \in [Requests -> G!AskDocs] /\ MaxChanges \in Nat /\ work \in Seq(G!Messages)
  BY ServerAssumption DEF PageIInv, G!TypeOK, G!PageDocs, G!PagesAssumption
<1>2. CASE G!Connect
  <2>1. tokens.kind # G!RiderApp /\ tokens.kind.loads = "joined"
    BY <1>1, TwoPages
  <2>2. /\ tokens.socket = "down" /\ tokens' = [tokens EXCEPT !.socket = "joining"] /\ asks' = asks
        /\ db' = db /\ work' = work /\ cache' = cache
    BY <1>2, <2>1 DEF G!Connect, G!Reached
  <2>3. /\ tokens' \in G!PageDocs(MCPages) /\ tokens'.socket = "joining"
        /\ tokens'.latest = tokens.latest /\ tokens'.shown = tokens.shown
    BY <1>1, <2>2 DEF G!PageDocs
  <2> QED
    BY <2>2, <2>3 DEF PageIInv, G!TypeOK, Newer
<1>3. CASE G!Disconnect
  <2>1. /\ tokens' = [tokens EXCEPT !.socket = "down"] /\ cache' = FALSE /\ work' = <<>>
        /\ db' = db /\ asks' = asks
    BY <1>3 DEF G!Disconnect
  <2>2. /\ tokens' \in G!PageDocs(MCPages) /\ tokens'.socket = "down"
        /\ tokens'.latest = tokens.latest /\ tokens'.shown = tokens.shown
        /\ work' \in Seq(G!Messages)
    BY <1>1, <2>1 DEF G!PageDocs
  <2> QED
    BY <2>1, <2>2 DEF PageIInv, G!TypeOK, Newer
<1>4. CASE G!Restart
  <2>1. PICK failed \in BOOLEAN : tokens' = [tokens EXCEPT !.socket = "down", !.failed = failed]
    BY <1>1, <1>4 DEF G!Restart, G!PageDocs
  <2>2. /\ db' = [db EXCEPT !.unpublished = {}] /\ cache' = FALSE /\ work' = <<>>
        /\ asks' = [r \in Requests |-> G!NoAsk]
    BY <1>4 DEF G!Restart
  <2>3. /\ tokens' \in G!PageDocs(MCPages) /\ tokens'.socket = "down"
        /\ tokens'.latest = tokens.latest /\ tokens'.shown = tokens.shown
    BY <1>1, <2>1 DEF G!PageDocs
  <2> work' \in Seq(G!Messages)
    BY <2>2
  <2>4. /\ db' \in G!Databases /\ asks' \in [Requests -> G!AskDocs] /\ db'.version = db.version
        /\ \A r \in Requests : asks'[r].pc = "idle"
    BY <1>1, <2>2 DEF G!Databases, G!AskDocs, G!NoAsk, G!Versions
  <2> QED
    BY <1>1, <2>2, <2>3, <2>4 DEF PageIInv, G!TypeOK, Newer
<1> QED
  BY <1>2, <1>3, <1>4

\* Every step keeps the invariant.
LEMMA PageStep ==
  ASSUME "kds" \notin Parts, PageIInv, G!Next
  PROVE  PageIInv'
<1>1. tokens \in G!PageDocs(MCPages) /\ work \in Seq(G!Messages)
  BY DEF PageIInv, G!TypeOK
<1>2. ASSUME NEW r \in Requests, G!Poll(r)
      PROVE  PageIInv'
  <2>1. G!Load(r, tokens) /\ db' = db /\ cache' = cache /\ work' = work
    BY <1>2 DEF G!Poll
  <2> QED
    BY <1>1, <2>1, PageLoading
<1>3. ASSUME NEW r \in Requests, G!FlushUpdates(r)
      PROVE  PageIInv'
  <2> DEFINE p == [tokens EXCEPT !.timer = FALSE]
  <2>1. G!Load(r, p) /\ db' = db /\ cache' = cache /\ work' = work
    BY <1>3 DEF G!FlushUpdates
  <2>2. p \in G!PageDocs(MCPages) /\ p.socket = tokens.socket /\ p.shown = tokens.shown
    BY <1>1 DEF G!PageDocs
  <2> HIDE DEF p
  <2> QED
    BY <1>1, <2>1, <2>2, PageLoading
<1> QED
  BY <1>2, <1>3, PageAnswers, PageChanges, PageReceives, PageConnects
  DEF G!Next, G!ServerStep, G!PageStep

\* With nothing on its way, a page that would catch up has.
LEMMA PageShows ==
  ASSUME PageIInv
  PROVE  G!LiveIsCurrent
BY DEF PageIInv, Catches, EventComes, G!LiveIsCurrent, G!Quiet

\* realtime.js:157, Customers.jsx:7: whatever is lost with a connection, published late or
\* answered out of order, a page in its room shows the list as it is once nothing is on its
\* way, unless it shows an error, and a pane names the document it shows.  The kitchen
\* display is another matter: it joins its room after it has loaded.
THEOREM LiveIsCurrentTheorem ==
  ASSUME "kds" \notin Parts
  PROVE  Spec => []LiveIsCurrent
<1> DEFINE IInv == /\ part = "page" => PageIInv
                   /\ part = "pane" => PaneIInv
                   /\ part \in Parts
<1>1. Init => IInv
  BY PageInit, PaneInit DEF Init
<1>2. ASSUME [Next]_vars, part = "page"
      PROVE  part' = part /\ (G!Next \/ UNCHANGED <<db, cache, work, tokens, asks>>)
  BY <1>2 DEF Next, vars
<1>3. ASSUME [Next]_vars, part = "pane"
      PROVE  part' = part /\ (D!Next \/ UNCHANGED <<db, asks>>)
  BY <1>3 DEF Next, vars
<1>4. ASSUME [Next]_vars
      PROVE  part' = part
  BY <1>4 DEF Next, vars
<1>5. UNCHANGED <<db, cache, work, tokens, asks>> => (PageIInv <=> PageIInv')
  BY DEF PageIInv, Catches, EventComes, G!TypeOK, Newer
<1>6. UNCHANGED <<db, asks>> => (PaneIInv <=> PaneIInv')
  BY DEF PaneIInv, Right, D!TypeOK, D!Loading, D!Numbered
<1>7. IInv /\ [Next]_vars => IInv'
  BY <1>2, <1>3, <1>4, <1>5, <1>6, PageStep, PaneStep
<1>8. IInv => LiveIsCurrent
  BY PageShows, PaneShows DEF LiveIsCurrent
<1> QED
  BY <1>1, <1>7, <1>8, PTL DEF Spec

-------------------------------------------------------------------------------
(* The forms.                                                              *)

\* A submission is still on its way, or its booking answers what the form holds.
Waits == cache.pc = "sent"

\* A key stands for one intent, of which there are no more than can be submitted.
KeyIsIntent ==
    /\ cache.key = cache.intent /\ cache.next = cache.intent + 1
    /\ cache.next + (IF Waits THEN 1 ELSE 0) <= 2 * MaxSubmits + cache.submits
    /\ \A q \in work : q.key = q.intent
    /\ \A row \in db : row.key = row.intent

\* A submission is sent, and booked, once.
SubmittedOnce ==
    /\ \A q \in work : q.id <= cache.submits
    /\ \A row \in db : row.id <= cache.submits
    /\ \A row, other \in db : row.id = other.id => row = other
    /\ \A q, other \in work : q.id = other.id => q = other
    /\ \A row \in db, q \in work : row.id # q.id

\* No two bookings have one key, and what the form waits for is what it holds.
FormIInv ==
    /\ B!TypeOK(MCForms)
    /\ KeyIsIntent
    /\ SubmittedOnce
    /\ \A row, other \in db : row.key = other.key => row = other
    /\ Waits => \A q \in work : q.id = cache.submits => q.content = cache.content
    /\ B!SaysWhatWasBooked

\* What is used of the two forms.
LEMMA TwoForms ==
  ASSUME NEW kind \in MCForms
  PROVE  kind.key = "held" /\ kind.service.compares
<1>1. kind \in {B!CreateOrder, B!Receive}
  BY DEF MCForms
<1>2. CASE kind = B!CreateOrder
  BY <1>2 DEF B!CreateOrder, B!createPurchaseOrder
<1>3. CASE kind = B!Receive
  BY <1>3 DEF B!Receive, B!receivePurchaseOrder
<1> QED
  BY <1>1, <1>2, <1>3

\* There is room for the keys and the submissions.
LEMMA FormBounds ==
  /\ MaxSubmits \in Nat /\ MaxSubmits >= 1
  /\ B!Keys = 1..(4 * MaxSubmits + 1) /\ B!NoKey = 0
BY ServerAssumption DEF B!FormsAssumption, B!Keys, B!NoKey

\* A form opens with a key of its own.
LEMMA FormInit ==
  ASSUME B!Init(MCForms)
  PROVE  FormIInv
<1>1. /\ db = {} /\ work = {} /\ asks = {}
      /\ cache \in [kind : MCForms, pc : {"editing"}, content : Contents, key : {1}, next : {2},
                    intent : {1}, version : {0}, submits : {0}]
  BY DEF B!Init
<1>2. cache \in B!FormDocs(MCForms)
  BY <1>1, FormBounds DEF B!FormDocs
<1>3. B!TypeOK(MCForms)
  BY <1>1, <1>2 DEF B!TypeOK
<1>4. KeyIsIntent
  BY <1>1, FormBounds DEF KeyIsIntent, Waits
<1> QED
  BY <1>1, <1>3, <1>4 DEF FormIInv, SubmittedOnce, Waits, B!SaysWhatWasBooked

\* The document has been booked on as often as there were submissions, at most.
LEMMA FormVersion ==
  ASSUME FormIInv
  PROVE  B!Version \in 0..MaxSubmits
<1>1. /\ db \subseteq B!Rows /\ MaxSubmits \in Nat
      /\ \A row, other \in db : row.id = other.id => row = other
  BY FormBounds DEF FormIInv, B!TypeOK, SubmittedOnce
<1> DEFINE f == [row \in db |-> row.id]
<1>2. f \in Injection(db, 1..MaxSubmits)
  <2>1. f \in [db -> 1..MaxSubmits]
    BY <1>1 DEF B!Rows
  <2> QED
    BY <1>1, <2>1 DEF Injection, IsInjective
<1>3. IsFiniteSet(1..MaxSubmits) /\ Cardinality(1..MaxSubmits) = MaxSubmits
  BY <1>1, FS_Interval
<1> HIDE DEF f
<1>4. IsFiniteSet(db) /\ Cardinality(db) <= MaxSubmits
  BY <1>2, <1>3, FS_Injection
<1>5. Cardinality(db) \in Nat
  BY <1>4, FS_CardinalityType
<1>6. B!Version = Cardinality(db)
  BY Zenon DEF B!Version, B!Cardinality, Cardinality
<1> QED
  BY <1>1, <1>4, <1>5, <1>6

\* The page: what it holds changes only while nothing is sent, and an answer makes room for
\* the next intent.
LEMMA FormStepKept ==
  ASSUME FormIInv, B!FormStep
  PROVE  FormIInv'
<1>1. /\ cache \in B!FormDocs(MCForms) /\ db \subseteq B!Rows /\ work \subseteq B!Submissions
      /\ asks \subseteq B!Answers /\ cache.kind \in MCForms /\ cache.next \in Int
      /\ cache.intent \in Int /\ cache.submits \in Int
  BY FormBounds DEF FormIInv, B!TypeOK, B!FormDocs
<1>2. cache.kind.key = "held"
  BY <1>1, TwoForms
<1>3. ASSUME NEW content \in Contents, B!Edit(content)
      PROVE  FormIInv'
  <2>1. /\ cache.pc = "editing" /\ cache' = [cache EXCEPT !.content = content]
        /\ db' = db /\ work' = work /\ asks' = asks
    BY <1>3 DEF B!Edit
  <2>2. /\ cache' \in B!FormDocs(MCForms) /\ cache'.pc = "editing" /\ cache'.key = cache.key
        /\ cache'.next = cache.next /\ cache'.intent = cache.intent
        /\ cache'.submits = cache.submits
    BY <1>1, <2>1 DEF B!FormDocs
  <2> QED
    BY <2>1, <2>2 DEF FormIInv, B!TypeOK, KeyIsIntent, SubmittedOnce, Waits, B!SaysWhatWasBooked
<1>4. ASSUME B!Load
      PROVE  FormIInv'
  <2>1. /\ cache' = [cache EXCEPT !.version = B!Version]
        /\ db' = db /\ work' = work /\ asks' = asks
    BY <1>4 DEF B!Load
  <2>2. /\ cache' \in B!FormDocs(MCForms) /\ cache'.pc = cache.pc /\ cache'.key = cache.key
        /\ cache'.next = cache.next /\ cache'.intent = cache.intent
        /\ cache'.submits = cache.submits /\ cache'.content = cache.content
    BY <1>1, <2>1, FormVersion DEF B!FormDocs
  <2> QED
    BY <2>1, <2>2 DEF FormIInv, B!TypeOK, KeyIsIntent, SubmittedOnce, Waits, B!SaysWhatWasBooked
<1>5. ASSUME B!Submit
      PROVE  FormIInv'
  <2> DEFINE sent == [key |-> cache.key, content |-> cache.content, intent |-> cache.intent,
                      version |-> cache.version, id |-> cache.submits + 1]
  <2>1. /\ cache.pc = "editing" /\ cache.submits < MaxSubmits
        /\ cache' = [cache EXCEPT !.pc = "sent", !.submits = @ + 1]
        /\ work' = work \cup {sent} /\ asks' = {} /\ db' = db
    BY <1>2, <1>5 DEF B!Submit, B!SentKey
  <2>2. /\ cache' \in B!FormDocs(MCForms) /\ cache'.pc = "sent" /\ cache'.key = cache.key
        /\ cache'.next = cache.next /\ cache'.intent = cache.intent
        /\ cache'.submits = cache.submits + 1 /\ cache'.content = cache.content
    <3>1. PICK n \in 0..MaxSubmits : n = cache.submits + 1
      BY <1>1, <2>1, FormBounds DEF B!FormDocs
    <3>2. cache' = [cache EXCEPT !.pc = "sent", !.submits = n]
      BY <2>1, <3>1
    <3> QED
      BY <1>1, <3>1, <3>2 DEF B!FormDocs
  <2>3. sent \in B!Submissions
    BY <1>1, <2>1, FormBounds DEF B!Submissions, B!FormDocs
  <2>4. /\ sent.key = cache.key /\ sent.content = cache.content /\ sent.intent = cache.intent
        /\ sent.id = cache.submits + 1
    OBVIOUS
  <2> HIDE DEF sent
  <2>5. B!TypeOK(MCForms)'
    BY <1>1, <2>1, <2>2, <2>3 DEF B!TypeOK
  <2>6. KeyIsIntent'
    BY <1>1, <2>1, <2>2, <2>4, FormBounds DEF FormIInv, KeyIsIntent, Waits
  <2>7. \A q \in work : q.id \in Int /\ q.id <= cache.submits
    BY <1>1, FormBounds DEF FormIInv, SubmittedOnce, B!Submissions
  <2>8. \A row \in db : row.id \in Int /\ row.id <= cache.submits
    BY <1>1, FormBounds DEF FormIInv, SubmittedOnce, B!Rows
  <2>9. SubmittedOnce'
    <3>1. /\ \A q \in work' : q.id <= cache'.submits
          /\ \A row \in db' : row.id <= cache'.submits
      BY <1>1, <2>1, <2>2, <2>4, <2>7, <2>8
    <3>2. \A q, other \in work' : q.id = other.id => q = other
      BY <1>1, <2>1, <2>4, <2>7 DEF FormIInv, SubmittedOnce
    <3>3. \A row \in db', q \in work' : row.id # q.id
      BY <1>1, <2>1, <2>4, <2>8 DEF FormIInv, SubmittedOnce
    <3> QED
      BY <2>1, <3>1, <3>2, <3>3 DEF FormIInv, SubmittedOnce
  <2> QED
    BY <1>1, <2>1, <2>2, <2>4, <2>5, <2>6, <2>7, <2>9 DEF FormIInv, Waits, B!SaysWhatWasBooked
<1>6. ASSUME NEW answer \in asks, B!Done(answer)
      PROVE  FormIInv'
  <2>1. /\ cache.pc = "sent" /\ cache' = B!Cleared(cache)
        /\ asks' = {} /\ db' = db /\ work' = work
    BY <1>6 DEF B!Done
  <2>2. cache' = [[cache EXCEPT !.key = cache.next, !.next = @ + 1]
                    EXCEPT !.pc = "editing", !.intent = @ + 1]
    BY <2>1 DEF B!Cleared, B!Renewed
  <2>3. cache.next + 1 <= 2 * MaxSubmits + cache.submits /\ cache.intent + 1 = cache.next
    BY <1>1, <2>1 DEF FormIInv, KeyIsIntent, Waits
  <2>4. cache.submits <= MaxSubmits /\ cache.next >= 1
    BY <1>1, FormBounds DEF B!FormDocs
  <2>5. cache.next + 1 \in B!Keys /\ cache.intent + 1 \in B!Keys
    BY <1>1, <2>3, <2>4, FormBounds
  <2>6. /\ cache' \in B!FormDocs(MCForms) /\ cache'.pc = "editing" /\ cache'.key = cache.next
        /\ cache'.next = cache.next + 1 /\ cache'.intent = cache.intent + 1
        /\ cache'.submits = cache.submits
    BY <1>1, <2>2, <2>5 DEF B!FormDocs
  <2>7. KeyIsIntent'
    BY <1>1, <2>1, <2>3, <2>6, FormBounds DEF FormIInv, KeyIsIntent, Waits
  <2> QED
    BY <2>1, <2>6, <2>7 DEF FormIInv, B!TypeOK, SubmittedOnce, Waits, B!SaysWhatWasBooked
<1>7. ASSUME B!Refused \/ \E answer \in asks : B!DoneButStale(answer)
      PROVE  FormIInv'
  <2>1. /\ cache' = [cache EXCEPT !.pc = "editing"]
        /\ asks' = {} /\ db' = db /\ work' = work
    BY <1>7 DEF B!Refused, B!DoneButStale
  <2>2. /\ cache' \in B!FormDocs(MCForms) /\ cache'.pc = "editing" /\ cache'.key = cache.key
        /\ cache'.next = cache.next /\ cache'.intent = cache.intent
        /\ cache'.submits = cache.submits
    BY <1>1, <2>1 DEF B!FormDocs
  <2>3. KeyIsIntent'
    BY <1>1, <2>1, <2>2, FormBounds DEF FormIInv, KeyIsIntent, Waits
  <2> QED
    BY <2>1, <2>2, <2>3 DEF FormIInv, B!TypeOK, SubmittedOnce, Waits, B!SaysWhatWasBooked
<1>8. ASSUME B!Reopen
      PROVE  FormIInv'
  <2>1. /\ cache.pc = "editing" /\ cache.next < 2 * MaxSubmits
        /\ cache' = [B!Cleared(cache) EXCEPT !.version = B!Version]
        /\ asks' = asks /\ db' = db /\ work' = work
    BY <1>8 DEF B!Reopen
  <2>2. cache' = [[[cache EXCEPT !.key = cache.next, !.next = @ + 1]
                    EXCEPT !.pc = "editing", !.intent = @ + 1] EXCEPT !.version = B!Version]
    BY <2>1 DEF B!Cleared, B!Renewed
  <2>3. cache.intent + 1 = cache.next /\ cache.submits >= 0 /\ cache.next >= 1
    BY <1>1, FormBounds DEF FormIInv, KeyIsIntent, B!FormDocs
  <2>4. cache.next + 1 \in B!Keys /\ cache.intent + 1 \in B!Keys
    BY <1>1, <2>1, <2>3, FormBounds
  <2>5. /\ cache' \in B!FormDocs(MCForms) /\ cache'.pc = "editing" /\ cache'.key = cache.next
        /\ cache'.next = cache.next + 1 /\ cache'.intent = cache.intent + 1
        /\ cache'.submits = cache.submits
    BY <1>1, <2>2, <2>4, FormVersion DEF B!FormDocs
  <2>6. KeyIsIntent'
    BY <1>1, <2>1, <2>3, <2>5, FormBounds DEF FormIInv, KeyIsIntent, Waits
  <2> QED
    BY <2>1, <2>5, <2>6 DEF FormIInv, B!TypeOK, SubmittedOnce, Waits, B!SaysWhatWasBooked
<1> QED
  BY <1>3, <1>4, <1>5, <1>6, <1>7, <1>8 DEF B!FormStep

\* The service: a key that was booked books nothing more, and is answered only to a
\* submission with the same contents.
LEMMA FormHandled ==
  ASSUME FormIInv, NEW q \in work, B!Handle(q)
  PROVE  FormIInv'
<1>1. /\ cache \in B!FormDocs(MCForms) /\ db \subseteq B!Rows /\ work \subseteq B!Submissions
      /\ asks \subseteq B!Answers /\ cache.kind \in MCForms
      /\ cache' = cache /\ work' = work \ {q}
  BY DEF FormIInv, B!TypeOK, B!FormDocs, B!Handle
<1>2. cache.kind.service.compares
  BY <1>1, TwoForms
<1>3. q.key # B!NoKey /\ q \in B!Submissions /\ q.key = q.intent
  <2>1. q.key = q.intent /\ q \in B!Submissions /\ q.intent \in B!Keys
    BY <1>1 DEF FormIInv, KeyIsIntent, B!Submissions
  <2> QED
    BY <2>1, FormBounds
<1>4. ASSUME NEW ok \in BOOLEAN, NEW content \in Contents, B!Told(q, ok, content),
             ok => content = q.content
      PROVE  asks' \subseteq B!Answers /\ B!SaysWhatWasBooked'
  <2>1. CASE cache.pc = "sent" /\ cache.submits = q.id
    <3>1. asks' = asks \cup {[ok |-> ok, content |-> content]}
      BY <1>4, <2>1 DEF B!Told
    <3>2. q.content = cache.content
      BY <2>1 DEF FormIInv, Waits
    <3> QED
      BY <1>1, <1>4, <3>1, <3>2 DEF FormIInv, B!SaysWhatWasBooked, B!Answers
  <2>2. CASE ~(cache.pc = "sent" /\ cache.submits = q.id)
    <3>1. asks' = asks
      BY <1>4, <2>2 DEF B!Told
    <3> QED
      BY <1>1, <3>1 DEF FormIInv, B!SaysWhatWasBooked
  <2> QED
    BY <2>1, <2>2
<1>5. CASE B!Replay(q)
  <2>1. PICK row \in B!Prior(q) : B!Told(q, TRUE, row.content)
    BY <1>5 DEF B!Replay
  <2>2. row.content = q.content /\ db' = db
    BY <1>2, <1>5 DEF B!Replay, B!Same
  <2>3. q.content \in Contents
    BY <1>3 DEF B!Submissions
  <2>4. asks' \subseteq B!Answers /\ B!SaysWhatWasBooked'
    BY <1>4, <2>1, <2>2, <2>3
  <2> QED
    BY <1>1, <2>2, <2>4 DEF FormIInv, B!TypeOK, KeyIsIntent, SubmittedOnce, Waits
<1>6. CASE B!Conflict(q)
  <2>1. B!Told(q, FALSE, q.content) /\ db' = db /\ q.content \in Contents
    BY <1>3, <1>6 DEF B!Conflict, B!Submissions
  <2>2. asks' \subseteq B!Answers /\ B!SaysWhatWasBooked'
    BY <1>4, <2>1
  <2> QED
    BY <1>1, <2>1, <2>2 DEF FormIInv, B!TypeOK, KeyIsIntent, SubmittedOnce, Waits
<1>7. CASE B!Book(q)
  <2> DEFINE new == [key |-> q.key, content |-> q.content, intent |-> q.intent, id |-> q.id]
  <2>1. B!Told(q, TRUE, q.content) /\ db' = db \cup {new} /\ B!Prior(q) = {}
    BY <1>7 DEF B!Book
  <2>2. q.content \in Contents
    BY <1>3 DEF B!Submissions
  <2>3. asks' \subseteq B!Answers /\ B!SaysWhatWasBooked'
    BY <1>4, <2>1, <2>2
  <2>4. /\ new.key = q.key /\ new.intent = q.intent /\ new.id = q.id
        /\ q.id <= cache.submits
    BY DEF FormIInv, SubmittedOnce
  <2>5. new \in B!Rows
    <3>1. q.id \in 1..MaxSubmits
      BY <1>1, <1>3, <2>4, FormBounds DEF B!Submissions, B!FormDocs
    <3> QED
      BY <1>3, <3>1 DEF B!Rows, B!Submissions
  <2> HIDE DEF new
  <2>6. \A row \in db : row.key # new.key /\ row.id # new.id
    BY <1>3, <2>1, <2>4 DEF B!Prior, FormIInv, SubmittedOnce
  <2>7. KeyIsIntent'
    BY <1>1, <1>3, <2>1, <2>4 DEF FormIInv, KeyIsIntent, Waits
  <2>8. SubmittedOnce'
    <3>1. /\ \A p \in work' : p.id <= cache'.submits
          /\ \A row \in db' : row.id <= cache'.submits
          /\ \A p, other \in work' : p.id = other.id => p = other
      BY <1>1, <2>1, <2>4 DEF FormIInv, SubmittedOnce
    <3>2. \A row, other \in db' : row.id = other.id => row = other
      BY <2>1, <2>6 DEF FormIInv, SubmittedOnce
    <3>3. \A row \in db', p \in work' : row.id # p.id
      BY <1>1, <2>1, <2>4 DEF FormIInv, SubmittedOnce
    <3> QED
      BY <3>1, <3>2, <3>3 DEF SubmittedOnce
  <2>9. \A row, other \in db' : row.key = other.key => row = other
    BY <2>1, <2>6 DEF FormIInv
  <2> QED
    BY <1>1, <2>1, <2>3, <2>5, <2>7, <2>8, <2>9 DEF FormIInv, B!TypeOK, Waits
<1> QED
  BY <1>5, <1>6, <1>7 DEF B!Handle

\* One intent is one key, and one booking.
LEMMA FormBooks ==
  ASSUME FormIInv
  PROVE  B!BookedOnce /\ B!SaysWhatWasBooked
BY DEF FormIInv, KeyIsIntent, B!BookedOnce

-------------------------------------------------------------------------------
(* The catalogues.                                                         *)

\* A form was filled from a version of the document, which is the one stored unless there
\* was another since; what was checked is what the form was filled from.
Filled(e) ==
    /\ asks[e].pc \in {"idle", "editing", "sent", "checked"}
    /\ asks[e].pc # "idle" =>
          /\ asks[e].seen \in C!Documents(db.kind)
          /\ asks[e].seen.v <= db.v
          /\ asks[e].seen.v = db.v => asks[e].seen = db
    /\ asks[e].pc \in {"sent", "checked"} =>
          /\ DOMAIN asks[e].patch \subseteq C!Fields(db.kind)
          /\ \A field \in DOMAIN asks[e].patch : asks[e].patch[field] \in Contents
    /\ asks[e].pc = "checked" => asks[e].row = asks[e].seen

\* Every write counts, so a number, and a history, are no longer than the writes.
Tallied(doc) ==
    /\ doc.number <= doc.v + 1
    /\ doc.kind = "catalogue" => Len(doc.past) <= doc.v + 1

\* What HistoryTells says of a document.
Tells(doc) ==
    /\ doc.kind = "menu" =>
          /\ Len(doc.past) = C!Min({KeptVersions, doc.number - 1})
          /\ \A i \in DOMAIN doc.past : doc.past[i].number = doc.number - Len(doc.past) + i - 1
    /\ doc.kind = "catalogue" => doc.past[Len(doc.past)].value = doc.fields["price"]

\* The document is counted, its history tells, and every form knows its version.
CatalogueIInv ==
    /\ C!TypeOK
    /\ Tallied(db) /\ Tells(db)
    /\ asks = [e \in Requests |-> asks[e]]
    /\ \A e \in Requests : Filled(e)

\* The greater and the lesser of two numbers.
LEMMA OfTwo ==
  ASSUME NEW a \in Int, NEW b \in Int
  PROVE  /\ C!Min({a, b}) = IF a <= b THEN a ELSE b
         /\ C!Max({a, b}) = IF a <= b THEN b ELSE a
<1>1. CASE a <= b
  <2>1. C!Min({a, b}) = a
    <3>1. C!Min({a, b}) = CHOOSE x \in {a, b} : \A y \in {a, b} : x <= y
      BY Zenon DEF C!Min
    <3> QED
      BY <1>1, <3>1
  <2>2. C!Max({a, b}) = b
    <3>1. C!Max({a, b}) = CHOOSE x \in {a, b} : \A y \in {a, b} : x >= y
      BY Zenon DEF C!Max
    <3> QED
      BY <1>1, <3>1
  <2> QED
    BY <1>1, <2>1, <2>2
<1>2. CASE ~(a <= b)
  <2>1. C!Min({a, b}) = b
    <3>1. C!Min({a, b}) = CHOOSE x \in {a, b} : \A y \in {a, b} : x <= y
      BY Zenon DEF C!Min
    <3> QED
      BY <1>2, <3>1
  <2>2. C!Max({a, b}) = a
    <3>1. C!Max({a, b}) = CHOOSE x \in {a, b} : \A y \in {a, b} : x >= y
      BY Zenon DEF C!Max
    <3> QED
      BY <1>2, <3>1
  <2> QED
    BY <1>2, <2>1, <2>2
<1> QED
  BY <1>1, <1>2

\* Histories are sequences of bounded length.
LEMMA Histories ==
  ASSUME NEW s
  PROVE  s \in UNION {[1..n -> C!Trace] : n \in 0..(MaxEdits + 1)}
           <=> s \in Seq(C!Trace) /\ Len(s) <= MaxEdits + 1
<1>1. MaxEdits \in Nat
  BY ServerAssumption DEF C!CataloguesAssumption
<1>2. ASSUME s \in UNION {[1..n -> C!Trace] : n \in 0..(MaxEdits + 1)}
      PROVE  s \in Seq(C!Trace) /\ Len(s) <= MaxEdits + 1
  <2>1. PICK n \in 0..(MaxEdits + 1) : s \in [1..n -> C!Trace]
    BY <1>2
  <2> QED
    BY <1>1, <2>1
<1>3. ASSUME s \in Seq(C!Trace), Len(s) <= MaxEdits + 1
      PROVE  s \in UNION {[1..n -> C!Trace] : n \in 0..(MaxEdits + 1)}
  <2>1. s \in [1..Len(s) -> C!Trace] /\ Len(s) \in 0..(MaxEdits + 1)
    BY <1>1, <1>3
  <2> QED
    BY <2>1
<1> QED
  BY <1>2, <1>3

\* The history is cut to the newest.
LEMMA NewestAre ==
  ASSUME NEW s \in Seq(C!Trace), Len(s) <= KeptVersions + 1
  PROVE  LET cut == C!Newest(s)
             gone == IF Len(s) <= KeptVersions THEN 0 ELSE 1
         IN  /\ cut \in Seq(C!Trace)
             /\ Len(cut) = Len(s) - gone
             /\ \A i \in 1..Len(cut) : cut[i] = s[i + gone]
<1>1. KeptVersions \in Nat /\ KeptVersions >= 1 /\ Len(s) \in Nat
  BY ServerAssumption DEF C!CataloguesAssumption
<1> DEFINE from == Len(s) - KeptVersions + 1
           top == C!Max({1, from})
<1>2. C!Newest(s) = SubSeq(s, top, Len(s))
  BY DEF C!Newest
<1>3. top = IF 1 <= from THEN from ELSE 1
  <2>1. 1 \in Int /\ from \in Int
    BY <1>1
  <2> HIDE DEF from
  <2> QED
    BY <2>1, OfTwo
<1> HIDE DEF top
<1>4. CASE Len(s) <= KeptVersions
  <2>0. top = 1
    BY <1>1, <1>3, <1>4
  <2>1. C!Newest(s) = SubSeq(s, 1, Len(s))
    BY <1>2, <2>0
  <2>2. SubSeq(s, 1, Len(s)) = s
    OBVIOUS
  <2> QED
    BY <1>1, <1>4, <2>1, <2>2
<1>5. CASE ~(Len(s) <= KeptVersions)
  <2>0. top = 2 /\ Len(s) >= 2
    BY <1>1, <1>3, <1>5
  <2>1. C!Newest(s) = SubSeq(s, 2, Len(s)) /\ Len(s) >= 2
    BY <1>2, <2>0
  <2>2. /\ SubSeq(s, 2, Len(s)) \in Seq(C!Trace) /\ Len(SubSeq(s, 2, Len(s))) = Len(s) - 1
        /\ \A i \in 1..(Len(s) - 1) : SubSeq(s, 2, Len(s))[i] = s[i + 1]
    BY <1>1, <2>1
  <2> QED
    BY <1>1, <1>5, <2>1, <2>2
<1> QED
  BY <1>4, <1>5

\* A patched document differs in the fields of the patch, and is a version later.
LEMMA PatchedIs ==
  ASSUME NEW k \in C!DocKinds, NEW row \in C!Documents(k), row.v < MaxEdits,
         NEW patch, DOMAIN patch \subseteq C!Fields(k),
         \A field \in DOMAIN patch : patch[field] \in Contents
  PROVE  LET doc == C!Patched(row, patch)
         IN  /\ doc \in C!Documents(k)
             /\ doc.kind = k /\ doc.v = row.v + 1 /\ doc.number = row.number
             /\ doc.past = row.past
             /\ \A field \in C!Fields(k) :
                   doc.fields[field] = IF field \in DOMAIN patch THEN patch[field]
                                       ELSE row.fields[field]
<1>1. /\ MaxEdits \in Nat /\ row.fields \in [C!Fields(k) -> Contents]
      /\ row.v \in 0..MaxEdits /\ row.kind = k
  BY ServerAssumption DEF C!CataloguesAssumption, C!Documents
<1> DEFINE fields == [field \in DOMAIN row.fields |->
                         IF field \in DOMAIN patch THEN patch[field] ELSE row.fields[field]]
<1>2. fields \in [C!Fields(k) -> Contents]
  BY <1>1
<1>3. PICK n \in 0..MaxEdits : n = row.v + 1
  BY <1>1
<1>4. C!Patched(row, patch) = [row EXCEPT !.v = n, !.fields = fields]
  BY <1>3 DEF C!Patched
<1>5. \A field \in C!Fields(k) :
         fields[field] = IF field \in DOMAIN patch THEN patch[field] ELSE row.fields[field]
  BY <1>1
<1> HIDE DEF fields
<1>6. PICK doc : doc = [row EXCEPT !.v = n, !.fields = fields]
  OBVIOUS
<1>7. /\ doc \in C!Documents(k)
      /\ doc.kind = k /\ doc.v = n /\ doc.number = row.number
      /\ doc.past = row.past /\ doc.fields = fields
  BY <1>1, <1>2, <1>6 DEF C!Documents
<1> QED
  BY <1>3, <1>4, <1>5, <1>6, <1>7

\* A document that is written is a version later, and its history still tells.
LEMMA UpdatedIs ==
  ASSUME NEW k \in C!DocKinds, NEW row \in C!Documents(k), row.v < MaxEdits,
         Tallied(row), Tells(row),
         NEW patch, DOMAIN patch \subseteq C!Fields(k),
         \A field \in DOMAIN patch : patch[field] \in Contents
  PROVE  LET doc == C!Updated(row, patch)
         IN  /\ doc \in C!Documents(k) /\ doc.kind = k /\ doc.v = row.v + 1
              /\ Tallied(doc) /\ Tells(doc)
<1> DEFINE p == C!Patched(row, patch)
<1>1. /\ MaxEdits \in Nat /\ row.kind = k /\ row.v \in 0..MaxEdits /\ row.number \in Int
      /\ row.number >= 1 /\ row.past \in Seq(C!Trace) /\ Len(row.past) <= MaxEdits + 1
      /\ row.fields \in [C!Fields(k) -> Contents]
  BY ServerAssumption, Histories DEF C!CataloguesAssumption, C!Documents, C!Numbers
<1>2. /\ p \in C!Documents(k)
      /\ p.kind = k /\ p.v = row.v + 1 /\ p.number = row.number /\ p.past = row.past
      /\ \A field \in C!Fields(k) :
            p.fields[field] = IF field \in DOMAIN patch THEN patch[field] ELSE row.fields[field]
  BY PatchedIs
<1> HIDE DEF p
<1>3. C!Changed(row, patch) \subseteq DOMAIN patch
  BY DEF C!Changed
<1>4. CASE k = "menu"
  <2>1. "recipe" \in C!Fields(k)
    BY <1>4 DEF C!Fields, C!menuItem
  <2>2. CASE "recipe" \in C!Changed(row, patch)
    <3> DEFINE replaced == [number |-> row.number, value |-> row.fields["recipe"]]
               longer == Append(row.past, replaced)
               cut == C!Newest(longer)
               gone == IF Len(longer) <= KeptVersions THEN 0 ELSE 1
    <3>1. C!Updated(row, patch)
            = [p EXCEPT !.number = @ + 1, !.past = C!Newest(Append(@, replaced))]
      BY <1>1, <1>4, <2>2 DEF C!Updated, C!updateMenuItem, p
    <3>2. KeptVersions \in Nat /\ Len(row.past) = IF KeptVersions <= row.number - 1
                                                   THEN KeptVersions ELSE row.number - 1
      <4>1. KeptVersions \in Int /\ row.number - 1 \in Int
        BY <1>1, ServerAssumption DEF C!CataloguesAssumption
      <4>2. PICK m : m = row.number - 1
        OBVIOUS
      <4>3. C!Min({KeptVersions, m}) = IF KeptVersions <= m THEN KeptVersions ELSE m
        BY <4>1, <4>2, OfTwo
      <4> QED
        BY <1>1, <1>4, <4>2, <4>3, ServerAssumption DEF Tells, C!CataloguesAssumption
    <3>3. replaced \in C!Trace
      BY <1>1, <2>1 DEF C!Trace, C!Documents
    <3>4. /\ longer \in Seq(C!Trace) /\ Len(longer) = Len(row.past) + 1
          /\ Len(longer) <= KeptVersions + 1
          /\ \A i \in 1..Len(row.past) : longer[i] = row.past[i]
          /\ longer[Len(row.past) + 1] = replaced /\ replaced.number = row.number
      BY <1>1, <3>2, <3>3
    <3> HIDE DEF longer, replaced
    <3>5. /\ cut \in Seq(C!Trace) /\ Len(cut) = Len(longer) - gone
          /\ \A i \in 1..Len(cut) : cut[i] = longer[i + gone]
      BY <3>4, NewestAre
    <3>6. PICK n \in C!Numbers : n = row.number + 1
      BY <1>1 DEF Tallied, C!Numbers
    <3>7. PICK doc : doc = [p EXCEPT !.number = n, !.past = cut]
      OBVIOUS
    <3>8. C!Updated(row, patch) = doc
      BY <1>2, <3>1, <3>6, <3>7 DEF longer
    <3> HIDE DEF cut
    <3>9. gone \in {0, 1} /\ Len(cut) \in Nat /\ Len(longer) \in Nat /\ Len(row.past) \in Nat
      BY <1>1, <3>4, <3>5
    <3>10. Len(cut) = IF KeptVersions <= n - 1 THEN KeptVersions ELSE n - 1
      BY <1>1, <3>2, <3>4, <3>5, <3>6, <3>9
    <3>11. \A i \in 1..Len(cut) : cut[i].number = n - Len(cut) + i - 1
      <4> SUFFICES ASSUME NEW i \in 1..Len(cut)
                   PROVE  cut[i].number = n - Len(cut) + i - 1
        OBVIOUS
      <4>1. cut[i] = longer[i + gone] /\ i + gone \in 1..Len(longer)
        BY <3>5, <3>9
      <4>2. \A j \in 1..Len(row.past) : row.past[j].number = row.number - Len(row.past) + j - 1
        BY <1>1, <1>4 DEF Tells
      <4>3. Len(cut) = Len(row.past) + 1 - gone
        BY <3>4, <3>5
      <4> HIDE DEF gone
      <4>4. cut[i].number = row.number - Len(row.past) + (i + gone) - 1
        <5>1. CASE i + gone <= Len(row.past)
          <6>1. i + gone \in 1..Len(row.past)
            BY <3>9, <4>1, <5>1
          <6>2. longer[i + gone] = row.past[i + gone]
            BY <3>4, <6>1
          <6> QED
            BY <4>1, <4>2, <6>1, <6>2
        <5>2. CASE i + gone = Len(row.past) + 1
          <6>1. cut[i].number = row.number
            BY <3>4, <4>1, <5>2
          <6> QED
            BY <1>1, <3>9, <5>2, <6>1
        <5> QED
          BY <3>4, <3>9, <4>1, <5>1, <5>2
      <4>5. PICK a \in Int, b \in Int, c \in Int, g \in Int :
              a = row.number /\ b = Len(row.past) /\ c = Len(cut) /\ g = gone
        BY <1>1, <3>9
      <4>6. cut[i].number = a - b + (i + g) - 1 /\ c = b + 1 - g /\ n = a + 1 /\ i \in Int
        BY <3>6, <3>9, <4>3, <4>4, <4>5
      <4>7. n - c + i - 1 = a - b + (i + g) - 1
        <5>1. ASSUME NEW x \in Int, NEW y \in Int, NEW z \in Int
              PROVE  (x + 1) - (y + 1 - z) + i - 1 = x - y + (i + z) - 1
          BY <4>6
        <5> QED
          BY <4>5, <4>6, <5>1
      <4>8. cut[i].number = n - c + i - 1
        BY <4>6, <4>7
      <4> QED
        BY <4>5, <4>8
    <3>12. Len(cut) <= MaxEdits + 1
      BY <1>1, <3>4, <3>5, <3>9, <3>2, <1>4 DEF Tallied
    <3>13. cut \in UNION {[1..m -> C!Trace] : m \in 0..(MaxEdits + 1)}
      BY <3>5, <3>12, Histories
    <3>14. doc \in C!Documents(k) /\ doc.kind = k /\ doc.v = p.v /\ doc.number = n /\ doc.past = cut
      BY <1>2, <3>7, <3>13 DEF C!Documents
    <3>15. C!Min({KeptVersions, n - 1}) = IF KeptVersions <= n - 1 THEN KeptVersions ELSE n - 1
      <4>1. PICK m : m = n - 1
        OBVIOUS
      <4>2. KeptVersions \in Int /\ m \in Int
        BY <1>1, <3>2, <3>6, <4>1
      <4> QED
        BY <4>1, <4>2, OfTwo
    <3>16. DOMAIN cut = 1..Len(cut)
      BY <3>5
    <3>17. Tallied(doc)
      BY <1>1, <1>2, <1>4, <3>6, <3>14 DEF Tallied
    <3>18. Tells(doc)
      BY <1>4, <3>10, <3>11, <3>14, <3>15, <3>16 DEF Tells
    <3> QED
      BY <1>2, <3>8, <3>14, <3>17, <3>18
  <2>3. CASE "recipe" \notin C!Changed(row, patch)
    <3>1. C!Updated(row, patch) = p
      BY <1>1, <1>4, <2>3 DEF C!Updated, C!updateMenuItem, p
    <3>2. Tallied(p)
      BY <1>1, <1>2, <1>4 DEF Tallied
    <3>3. Tells(p)
      BY <1>1, <1>2, <1>4 DEF Tells
    <3> QED
      BY <1>2, <3>1, <3>2, <3>3
  <2> QED
    BY <2>2, <2>3
<1>5. CASE k = "catalogue"
  <2>1. "price" \in C!Fields(k)
    BY <1>5 DEF C!Fields, C!supplierIngredient
  <2>2. CASE "price" \in C!Changed(row, patch)
    <3> DEFINE new == [number |-> 1, value |-> patch["price"]]
               longer == Append(row.past, new)
    <3>1. C!Updated(row, patch) = [p EXCEPT !.past = Append(@, new)]
      BY <1>1, <1>5, <2>2 DEF C!Updated, C!updateCatalogItem, p
    <3>2. "price" \in DOMAIN patch
      BY <1>3, <2>2
    <3>3. new \in C!Trace
      BY <1>1, <3>2 DEF C!Trace, C!Numbers
    <3>4. /\ longer \in Seq(C!Trace) /\ Len(longer) = Len(row.past) + 1
          /\ longer[Len(longer)].value = patch["price"]
      BY <1>1, <3>3
    <3>5. PICK doc : doc = [p EXCEPT !.past = longer]
      OBVIOUS
    <3>6. C!Updated(row, patch) = doc
      BY <1>2, <3>1, <3>5
    <3> HIDE DEF longer, new
    <3>7. Len(row.past) <= row.v + 1 /\ Len(row.past) \in Nat
      BY <1>1, <1>5 DEF Tallied
    <3>8. longer \in UNION {[1..m -> C!Trace] : m \in 0..(MaxEdits + 1)}
      <4>1. Len(longer) <= MaxEdits + 1
        BY <1>1, <3>4, <3>7
      <4> QED
        BY <3>4, <4>1, Histories
    <3>9. /\ doc \in C!Documents(k) /\ doc.kind = k /\ doc.v = p.v /\ doc.number = p.number
          /\ doc.past = longer /\ doc.fields = p.fields
      BY <1>2, <3>5, <3>8 DEF C!Documents
    <3>10. Tallied(doc)
      BY <1>1, <1>2, <3>4, <3>7, <3>9 DEF Tallied
    <3>11. Tells(doc)
      BY <1>2, <1>5, <2>1, <3>2, <3>4, <3>9 DEF Tells
    <3> QED
      BY <1>2, <3>6, <3>9, <3>10, <3>11
  <2>3. CASE "price" \notin C!Changed(row, patch)
    <3>1. C!Updated(row, patch) = p
      BY <1>1, <1>5, <2>3 DEF C!Updated, C!updateCatalogItem, p
    <3>2. p.fields["price"] = row.fields["price"]
      BY <1>2, <2>1, <2>3 DEF C!Changed
    <3>3. Tallied(p)
      BY <1>1, <1>2, <1>5 DEF Tallied
    <3>4. Tells(p)
      BY <1>1, <1>2, <1>5, <3>2 DEF Tells
    <3> QED
      BY <1>2, <3>1, <3>3, <3>4
  <2> QED
    BY <2>2, <2>3
<1>6. CASE k \in {"ingredient", "supplier"}
  <2>1. C!Updated(row, patch) = p
    BY <1>1, <1>6 DEF C!Updated, C!updateIngredient, C!updateSupplier, p
  <2>2. Tallied(p)
    BY <1>1, <1>2, <1>6 DEF Tallied
  <2>3. Tells(p)
    BY <1>2, <1>6 DEF Tells
  <2> QED
    BY <1>2, <2>1, <2>2, <2>3
<1> QED
  BY <1>4, <1>5, <1>6 DEF C!DocKinds

\* A document that was just created tells.
LEMMA CatalogueInit ==
  ASSUME C!Init
  PROVE  CatalogueIInv
<1>1. /\ MaxEdits \in Nat /\ KeptVersions \in Nat /\ KeptVersions >= 1
      /\ cache \in [Branches -> {"none", "empty", "some"}]
      /\ asks = [e \in Requests |-> C!NoEdit]
  BY ServerAssumption DEF C!CataloguesAssumption, C!Init
<1>2. ASSUME NEW k \in C!DocKinds, NEW past \in Seq(C!Trace),
             NEW fields \in [C!Fields(k) -> Contents],
             db = [kind |-> k, v |-> 0, fields |-> fields, number |-> 1, past |-> past],
             k # "catalogue" => past = <<>>,
             k = "catalogue" => Len(past) = 1 /\ past[1].value = fields["price"]
      PROVE  CatalogueIInv
  <2>1. Len(past) <= 1 /\ Len(past) \in Nat
    <3>1. CASE k = "catalogue"
      <4>1. Len(past) = 1
        BY <1>2, <3>1
      <4> QED
        BY <4>1
    <3>2. CASE past = <<>>
      BY <3>2
    <3> QED
      BY <1>2, <3>1, <3>2
  <2>2. past \in UNION {[1..n -> C!Trace] : n \in 0..(MaxEdits + 1)}
    BY <1>1, <2>1, Histories
  <2>3. db \in C!Documents(k)
    <3>1. 0 \in 0..MaxEdits /\ 1 \in C!Numbers
      BY <1>1 DEF C!Numbers
    <3> QED
      BY <1>2, <2>2, <3>1 DEF C!Documents
  <2>4. /\ db.kind = k /\ db.v = 0 /\ db.number = 1 /\ db.past = past /\ db.fields = fields
    BY <1>2
  <2>5. \A e \in Requests : asks[e].pc = "idle"
    BY <1>1 DEF C!NoEdit
  <2>6. C!TypeOK
    BY <1>1, <2>3, <2>4, <2>5 DEF C!TypeOK
  <2>7. Tallied(db)
    BY <2>1, <2>4 DEF Tallied
  <2>8. Tells(db)
    <3>1. CASE k = "menu"
      <4>1. C!Min({KeptVersions, 0}) = 0
        BY <1>1, OfTwo
      <4>2. Len(past) = 0 /\ DOMAIN past = {}
        BY <1>2, <3>1
      <4>3. PICK m : m = db.number - 1
        OBVIOUS
      <4>4. C!Min({KeptVersions, m}) = 0
        BY <2>4, <4>1, <4>3
      <4> QED
        BY <2>4, <3>1, <4>2, <4>3, <4>4 DEF Tells
    <3>2. CASE k # "menu"
      BY <1>2, <2>4, <3>2 DEF Tells
    <3> QED
      BY <3>1, <3>2
  <2> QED
    BY <1>1, <2>5, <2>6, <2>7, <2>8 DEF CatalogueIInv, Filled
<1> DEFINE fields(k, value) == [field \in C!Fields(k) |-> value]
<1>3. PICK value \in Contents :
        db \in {C!createMenuItem(fields("menu", value)),
                C!createIngredient(fields("ingredient", value)),
               C!createSupplier(fields("supplier", value)),
               C!createCatalogItem(fields("catalogue", value))}
  BY DEF C!Init
<1>4. ASSUME NEW k \in C!DocKinds \ {"catalogue"}, db = C!Created(k, fields(k, value))
      PROVE  CatalogueIInv
  <2>1. fields(k, value) \in [C!Fields(k) -> Contents]
    OBVIOUS
  <2>2. <<>> \in Seq(C!Trace)
    OBVIOUS
  <2>3. db = [kind |-> k, v |-> 0, fields |-> fields(k, value), number |-> 1, past |-> <<>>]
    BY <1>4 DEF C!Created
  <2> HIDE DEF fields
  <2> QED
    BY <1>2, <2>1, <2>2, <2>3
<1>5. CASE db = C!createCatalogItem(fields("catalogue", value))
  <2>1. fields("catalogue", value) \in [C!Fields("catalogue") -> Contents]
    OBVIOUS
  <2>2. PICK first : first = [number |-> 1, value |-> fields("catalogue", value)["price"]]
    OBVIOUS
  <2>3. "price" \in C!Fields("catalogue") /\ "catalogue" \in C!DocKinds
    BY DEF C!Fields, C!supplierIngredient, C!DocKinds
  <2>4. first \in C!Trace /\ first.value = fields("catalogue", value)["price"]
    BY <1>1, <2>1, <2>2, <2>3 DEF C!Trace, C!Numbers
  <2>5. db = [kind |-> "catalogue", v |-> 0, fields |-> fields("catalogue", value), number |-> 1,
              past |-> <<first>>]
    BY <1>5, <2>2 DEF C!createCatalogItem, C!Created
  <2>6. <<first>> \in Seq(C!Trace) /\ Len(<<first>>) = 1 /\ <<first>>[1] = first
    BY <2>4
  <2> HIDE DEF fields
  <2>7. PICK past : past = <<first>>
    OBVIOUS
  <2> QED
    BY <1>2, <2>1, <2>3, <2>4, <2>5, <2>6, <2>7
<1>6. /\ db = C!createMenuItem(fields("menu", value))
         => db = C!Created("menu", fields("menu", value))
      /\ db = C!createIngredient(fields("ingredient", value)) =>
           db = C!Created("ingredient", fields("ingredient", value))
      /\ db = C!createSupplier(fields("supplier", value)) =>
           db = C!Created("supplier", fields("supplier", value))
  BY DEF C!createMenuItem, C!createIngredient, C!createSupplier
<1> HIDE DEF fields
<1> QED
  BY <1>3, <1>4, <1>5, <1>6 DEF C!DocKinds

\* A form is opened, sent, checked or left.
LEMMA CatalogueForms ==
  ASSUME CatalogueIInv, NEW e \in Requests, NEW edit,
         asks' = [asks EXCEPT ![e] = edit], db' = db, cache' = cache,
         edit.pc \in {"idle", "editing", "sent", "checked"},
         edit.pc # "idle" =>
            /\ edit.seen \in C!Documents(db.kind)
            /\ edit.seen.v <= db.v
            /\ edit.seen.v = db.v => edit.seen = db,
         edit.pc \in {"sent", "checked"} =>
            /\ DOMAIN edit.patch \subseteq C!Fields(db.kind)
            /\ \A field \in DOMAIN edit.patch : edit.patch[field] \in Contents,
         edit.pc = "checked" => edit.row = edit.seen
  PROVE  CatalogueIInv'
<1>1. /\ asks'[e] = edit /\ asks' = [q \in Requests |-> asks'[q]]
      /\ \A q \in Requests \ {e} : asks'[q] = asks[q]
  BY DEF CatalogueIInv
<1>2. \A q \in Requests : Filled(q)'
  <2>1. Filled(e)'
    BY <1>1 DEF Filled
  <2>2. ASSUME NEW q \in Requests \ {e}
        PROVE  Filled(q)'
    BY <1>1, <2>2 DEF CatalogueIInv, Filled
  <2> QED
    BY <2>1, <2>2
<1>3. C!TypeOK'
  BY <1>2 DEF CatalogueIInv, C!TypeOK, Filled
<1>4. Tallied(db)' /\ Tells(db)'
  BY DEF CatalogueIInv, Tallied, Tells
<1> QED
  BY <1>1, <1>2, <1>3, <1>4 DEF CatalogueIInv

\* A form holds fields of the document, and what it replaces is what it was filled from.
LEMMA CatalogueEdits ==
  ASSUME CatalogueIInv, NEW e \in Requests,
         C!startEdit(e) \/ C!submit(e) \/ C!toggleActive(e) \/ C!resetForm(e) \/ C!Check(e)
  PROVE  CatalogueIInv' /\ db' = db
<1>1. /\ db.kind \in C!DocKinds /\ db \in C!Documents(db.kind) /\ db.v \in 0..MaxEdits
      /\ MaxEdits \in Nat /\ Filled(e)
  BY ServerAssumption DEF CatalogueIInv, C!TypeOK, C!Documents, C!CataloguesAssumption
<1>2. db' = db /\ cache' = cache
  BY DEF C!startEdit, C!submit, C!toggleActive, C!resetForm, C!Check, C!Sent
<1> SUFFICES CatalogueIInv'
  BY <1>2
<1>3. CASE C!startEdit(e)
  <2>1. PICK edit : edit = [pc |-> "editing", seen |-> db]
    OBVIOUS
  <2>2. asks' = [asks EXCEPT ![e] = edit]
    BY <1>3, <2>1 DEF C!startEdit
  <2>3. edit.pc = "editing" /\ edit.seen = db
    BY <2>1
  <2>4. edit.seen \in C!Documents(db.kind) /\ edit.seen.v <= db.v
    BY <1>1, <2>3
  <2> QED
    BY <1>2, <2>2, <2>3, <2>4, CatalogueForms
<1>4. ASSUME NEW patch, C!Sent(e, patch), DOMAIN patch \subseteq C!Fields(db.kind),
             \A field \in DOMAIN patch : patch[field] \in Contents
      PROVE  CatalogueIInv'
  <2>1. PICK edit : edit = [pc |-> "sent", seen |-> asks[e].seen, patch |-> patch]
    OBVIOUS
  <2>2. asks' = [asks EXCEPT ![e] = edit] /\ asks[e].pc = "editing"
    BY <1>4, <2>1 DEF C!Sent
  <2>3. edit.pc = "sent" /\ edit.seen = asks[e].seen /\ edit.patch = patch
    BY <2>1
  <2> QED
    BY <1>1, <1>2, <1>4, <2>2, <2>3, CatalogueForms DEF Filled
<1>5. CASE C!submit(e)
  <2>1. PICK patch \in [C!FormFields(db.kind) -> Contents] : C!Sent(e, patch)
    BY <1>5 DEF C!submit
  <2>2. C!FormFields(db.kind) \subseteq C!Fields(db.kind)
    BY <1>1 DEF C!FormFields, C!Fields, C!DocKinds, C!menuForm, C!ingredientForm, C!supplierForm,
       C!catalogueForm, C!menuItem, C!ingredient, C!supplier, C!supplierIngredient
  <2> QED
    BY <1>4, <2>1, <2>2
<1>6. CASE C!toggleActive(e)
  <2>1. PICK value \in Contents : C!Sent(e, [field \in {"active"} |-> value])
    BY <1>6 DEF C!toggleActive
  <2>2. "active" \in C!Fields(db.kind)
    BY <1>1 DEF C!Fields, C!DocKinds, C!menuItem, C!ingredient, C!supplier, C!supplierIngredient
  <2>3. PICK patch : patch = [field \in {"active"} |-> value]
    OBVIOUS
  <2>4. DOMAIN patch = {"active"} /\ patch["active"] = value
    BY <2>3
  <2> QED
    BY <1>4, <2>1, <2>2, <2>3, <2>4
<1>7. CASE C!resetForm(e)
  <2>1. asks' = [asks EXCEPT ![e] = C!NoEdit] /\ C!NoEdit.pc = "idle"
    BY <1>7 DEF C!resetForm, C!NoEdit
  <2> QED
    BY <1>2, <2>1, CatalogueForms
<1>8. CASE C!Check(e)
  <2>1. PICK edit : edit = [pc |-> "checked", seen |-> asks[e].seen, patch |-> asks[e].patch,
                            row |-> db]
    OBVIOUS
  <2>2. /\ asks' = [asks EXCEPT ![e] = edit] /\ asks[e].pc = "sent"
        /\ db.v = asks[e].seen.v
    BY <1>8, <2>1 DEF C!Check
  <2>3. /\ edit.pc = "checked" /\ edit.seen = asks[e].seen /\ edit.patch = asks[e].patch
        /\ edit.row = db
    BY <2>1
  <2> QED
    BY <1>1, <1>2, <2>2, <2>3, CatalogueForms DEF Filled
<1> QED
  BY <1>2, <1>3, <1>5, <1>6, <1>7, <1>8

\* What is saved was filled from the document as it is.
LEMMA CatalogueSaves ==
  ASSUME CatalogueIInv, NEW e \in Requests, C!Save(e)
  PROVE  /\ CatalogueIInv'
         /\ asks[e] # C!NoEdit /\ asks'[e] = C!NoEdit /\ asks[e].seen = db
<1>1. /\ db.kind \in C!DocKinds /\ db \in C!Documents(db.kind) /\ db.v \in 0..MaxEdits
      /\ MaxEdits \in Nat /\ Filled(e)
  BY ServerAssumption DEF CatalogueIInv, C!TypeOK, C!Documents, C!CataloguesAssumption
<1>2. /\ asks[e].pc = "checked" /\ db.v = asks[e].row.v /\ db.v < MaxEdits
      /\ asks' = [asks EXCEPT ![e] = C!NoEdit] /\ cache' = cache
      /\ db' = db \/ db' = C!Updated(asks[e].row, asks[e].patch)
  BY DEF C!Save, C!StillThere
<1>3. asks[e].row = db /\ asks[e].seen = db
  BY <1>1, <1>2 DEF Filled
<1>4. /\ asks'[e] = C!NoEdit /\ C!NoEdit.pc = "idle" /\ asks[e] # C!NoEdit
      /\ asks' = [q \in Requests |-> asks'[q]]
      /\ \A q \in Requests \ {e} : asks'[q] = asks[q]
  BY <1>2 DEF CatalogueIInv, C!NoEdit
<1>5. CASE db' = db
  BY <1>2, <1>4, <1>3, <1>5, CatalogueForms
<1>6. CASE db' = C!Updated(db, asks[e].patch)
  <2>1. /\ DOMAIN asks[e].patch \subseteq C!Fields(db.kind)
        /\ \A field \in DOMAIN asks[e].patch : asks[e].patch[field] \in Contents
    BY <1>1, <1>2 DEF Filled
  <2>2. /\ db' \in C!Documents(db.kind) /\ db'.kind = db.kind /\ db'.v = db.v + 1
        /\ Tallied(db') /\ Tells(db')
    BY <1>1, <1>2, <1>6, <2>1, UpdatedIs DEF CatalogueIInv
  <2>3. Tallied(db)' /\ Tells(db)'
    BY <2>2 DEF Tallied, Tells
  <2>4. ASSUME NEW q \in Requests
        PROVE  Filled(q)'
    <3>1. CASE q = e
      BY <1>4, <3>1 DEF Filled
    <3>2. CASE q # e
      <4>1. asks'[q] = asks[q] /\ Filled(q)
        BY <1>4, <3>2 DEF CatalogueIInv
      <4>2. asks[q].pc # "idle" => asks[q].seen.v \in Int
        BY <1>1, <4>1 DEF Filled, C!Documents
      <4> QED
        BY <1>1, <2>2, <4>1, <4>2 DEF Filled
    <3> QED
      BY <3>1, <3>2
  <2>5. C!TypeOK'
    BY <1>1, <1>2, <2>2, <2>4 DEF CatalogueIInv, C!TypeOK, Filled
  <2> QED
    BY <1>3, <1>4, <2>3, <2>4, <2>5 DEF CatalogueIInv
<1> QED
  BY <1>2, <1>3, <1>4, <1>5, <1>6

\* Every step keeps the invariant, and overwrites nothing unseen.
LEMMA CatalogueStep ==
  ASSUME CatalogueIInv, C!Next
  PROVE  CatalogueIInv' /\ C!NoEditLost
<1>1. ASSUME NEW b \in Branches, C!Stock(b)
      PROVE  CatalogueIInv' /\ db' = db
  <2>1. /\ db' = db /\ asks' = asks /\ cache \in [Branches -> {"none", "empty", "some"}]
        /\ \E level \in {"empty", "some"} : cache' = [cache EXCEPT ![b] = level]
    BY <1>1 DEF C!Stock, CatalogueIInv, C!TypeOK
  <2>2. cache' \in [Branches -> {"none", "empty", "some"}]
    BY <2>1
  <2>3. C!TypeOK'
    BY <2>1, <2>2 DEF CatalogueIInv, C!TypeOK
  <2>4. Tallied(db)' /\ Tells(db)' /\ \A q \in Requests : Filled(q)'
    BY <2>1 DEF CatalogueIInv, Tallied, Tells, Filled
  <2> QED
    BY <2>1, <2>3, <2>4 DEF CatalogueIInv
<1> QED
  BY <1>1, CatalogueEdits, CatalogueSaves DEF C!Next, C!NoEditLost

\* A recipe that was used is found in its history, and the newest price is the one agreed.
LEMMA CatalogueTells ==
  ASSUME CatalogueIInv
  PROVE  C!HistoryTells
BY DEF CatalogueIInv, Tells, C!HistoryTells

\* A step keeps both invariants, and no edit of a document is lost by it.
LEMMA FormsKept ==
  ASSUME [Next]_vars,
         part = "form" => FormIInv,
         part = "catalogue" => CatalogueIInv
  PROVE  /\ part' = part
         /\ part = "form" => FormIInv'
         /\ part = "catalogue" => CatalogueIInv' /\ C!NoEditLost
<1>1. /\ part' = part
      /\ part = "form" => B!Next \/ UNCHANGED <<db, cache, work, asks>>
      /\ part = "catalogue" => C!Next \/ UNCHANGED <<db, cache, asks>>
  BY DEF Next, vars
<1>2. UNCHANGED <<db, cache, work, asks>> => (FormIInv <=> FormIInv')
  BY DEF FormIInv, KeyIsIntent, SubmittedOnce, Waits, B!TypeOK, B!SaysWhatWasBooked
<1>3. UNCHANGED <<db, cache, asks>> => (CatalogueIInv <=> CatalogueIInv') /\ C!NoEditLost
  BY DEF CatalogueIInv, Tallied, Tells, Filled, C!TypeOK, C!NoEditLost
<1>4. FormIInv /\ B!Next => FormIInv'
  BY FormStepKept, FormHandled DEF B!Next
<1> QED
  BY <1>1, <1>2, <1>3, <1>4, CatalogueStep

\* Both hold in every behaviour.
LEMMA FormsHold ==
  Spec => [](/\ part = "form" => FormIInv
             /\ part = "catalogue" => CatalogueIInv)
<1> DEFINE IInv == /\ part = "form" => FormIInv
                   /\ part = "catalogue" => CatalogueIInv
<1>1. Init => IInv
  BY FormInit, CatalogueInit DEF Init
<1>2. IInv /\ [Next]_vars => IInv'
  BY FormsKept
<1> QED
  BY <1>1, <1>2, PTL DEF Spec

\* README.md:3011, recipes.js:583: whatever is repeated, lost or answered late, one intent is
\* booked once and the page says what was booked; and of any number of editors of a document
\* nobody overwrites what they did not see, while its histories stay without a gap.
THEOREM SentOnceSavedOnceTheorem == Spec => SentOnceSavedOnce
<1> DEFINE IInv == /\ part = "form" => FormIInv
                   /\ part = "catalogue" => CatalogueIInv
           Inv == /\ part = "form" => B!BookedOnce /\ B!SaysWhatWasBooked
                  /\ part = "catalogue" => C!HistoryTells
           Body == part = "catalogue" => C!NoEditLost
<1>1. IInv => Inv
  BY FormBooks, CatalogueTells
<1>2. IInv /\ [Next]_vars => Body
  BY FormsKept
<1> QED
  BY <1>1, <1>2, FormsHold, PTL DEF Spec, SentOnceSavedOnce

-------------------------------------------------------------------------------
(* The change streams.                                                     *)

\* A stream that is not open has the timer armed that will open another.
StreamIInv == stream \in R!Streams /\ R!NeverGivesUp

\* The same module of two caches.
LEMMA SameStreams ==
  /\ R!Streams = E!Streams /\ R!Running = E!Running
  /\ R!StreamFails = E!StreamFails /\ R!LateError = E!LateError
  /\ R!StreamReturns = E!StreamReturns /\ R!HandleEvent = E!HandleEvent
  /\ \A s : R!Hears(s) = E!Hears(s)
BY DEF R!Streams, E!Streams, R!Running, E!Running, R!StreamFails, E!StreamFails, R!LateError,
   E!LateError, R!AfterLateError, E!AfterLateError, R!StreamReturns, E!StreamReturns,
   R!HandleEvent, E!HandleEvent, R!Hears, E!Hears

\* A stream that runs has not failed.
LEMMA StreamInit ==
  ASSUME stream = R!Running
  PROVE  StreamIInv
BY DEF R!Running, R!Streams, R!NeverGivesUp, StreamIInv

\* A stream fails with its timer armed, and returns when it fires.
LEMMA StreamStep ==
  ASSUME StreamIInv,
         \/ stream' = stream
         \/ stream' = R!Hears(stream)
         \/ R!StreamFails \/ R!LateError \/ R!StreamReturns \/ R!HandleEvent
  PROVE  StreamIInv'
<1>1. CASE stream' = R!Hears(stream)
  BY <1>1 DEF StreamIInv, R!Streams, R!NeverGivesUp, R!Hears
<1>2. CASE R!StreamFails
  BY <1>2 DEF StreamIInv, R!Streams, R!NeverGivesUp, R!StreamFails
<1>3. CASE R!LateError
  BY <1>3 DEF StreamIInv, R!Streams, R!NeverGivesUp, R!LateError, R!AfterLateError
<1>4. CASE R!StreamReturns
  BY <1>4 DEF StreamIInv, R!Streams, R!NeverGivesUp, R!StreamReturns
<1>5. CASE R!HandleEvent
  BY <1>5 DEF StreamIInv, R!Streams, R!NeverGivesUp, R!HandleEvent
<1>6. CASE stream' = stream
  BY <1>6 DEF StreamIInv, R!NeverGivesUp
<1> QED
  BY <1>1, <1>2, <1>3, <1>4, <1>5, <1>6

-------------------------------------------------------------------------------
(* The role cache.                                                         *)

\* An entry is of a version that there was, and ends within one TTL of the load that made
\* it; of a version that was replaced, within that of the end of a load that was under way.
EntryKnown(d, entry, time) ==
    entry # R!NoEntry =>
        /\ entry.version \in 0..d.role.version
        /\ entry.expires <= time + RoleTTL
        /\ entry.version # d.role.version =>
              entry.expires <= d.replacedAt[entry.version] + MaxWait + RoleTTL

\* No step of a request takes longer than MaxWait; what was loaded was current then, and
\* what is checked was current one TTL and one step ago.
AskKnown(d, ask, time) ==
    /\ ask.pc # "idle" => ask.since <= time /\ time - ask.since <= MaxWait
    /\ ask.pc \in {"filling", "checking"} => ask.version \in 0..d.role.version
    /\ (ask.pc = "filling" /\ ask.version # d.role.version) =>
          ask.since <= d.replacedAt[ask.version]
    /\ (ask.pc = "checking" /\ ask.version # d.role.version) =>
          ask.since <= d.replacedAt[ask.version] + MaxWait + RoleTTL

\* How stale an entry, and what a request knows, may be.
RoleIInv ==
    /\ R!TypeOK /\ StreamIInv
    /\ EntryKnown(db, cache.entry, now)
    /\ \A r \in Requests : AskKnown(db, asks[r], now)

\* Bounds are numbers.
LEMMA RoleBounds ==
  /\ RoleTTL \in Nat /\ MaxWait \in Nat /\ MaxEdits \in Nat /\ MaxTime \in Nat
  /\ R!Versions = 0..MaxEdits
BY ServerAssumption DEF R!RoleCacheAssumption, R!Versions

\* Nothing is cached and nobody asks.
LEMMA RoleInit ==
  ASSUME R!Init
  PROVE  RoleIInv
<1>1. R!NoAsk \in R!AskDocs /\ R!NoEntry \in [version : -1..MaxEdits, expires : Int]
  BY RoleBounds DEF R!NoAsk, R!AskDocs, R!NoEntry
<1>2. db \in R!Databases
  <2>1. db = [role |-> [version |-> 0, live |-> TRUE], replacedAt |-> [v \in R!Versions |-> -1]]
    BY DEF R!Init
  <2>2. [version |-> 0, live |-> TRUE] \in [version : R!Versions, live : BOOLEAN]
    BY RoleBounds
  <2>3. [v \in R!Versions |-> -1] \in [R!Versions -> -1..MaxTime]
    BY RoleBounds
  <2> QED
    BY <2>1, <2>2, <2>3 DEF R!Databases
<1>3. /\ now = 0 /\ cache = [entry |-> R!NoEntry, inflight |-> NoRequest]
      /\ asks = [r \in Requests |-> R!NoAsk] /\ stream = R!Running
  BY DEF R!Init
<1>4. cache.entry = R!NoEntry /\ cache.inflight = NoRequest
  BY <1>3
<1>5. StreamIInv
  BY <1>3, StreamInit
<1>6. R!TypeOK
  BY <1>1, <1>2, <1>3, <1>4, <1>5, RoleBounds DEF R!TypeOK, StreamIInv
<1>7. \A r \in Requests : asks[r].pc = "idle"
  BY <1>3 DEF R!NoAsk
<1> QED
  BY <1>4, <1>5, <1>6, <1>7 DEF RoleIInv, EntryKnown, AskKnown

\* A request takes a step: what the cache and the request know then.
LEMMA RoleAsks ==
  ASSUME RoleIInv, NEW entry \in [version : -1..MaxEdits, expires : Int],
         cache'.entry = entry, cache'.inflight \in Requests \cup {NoRequest},
         EntryKnown(db, entry, now),
         db' = db, now' = now, stream' = stream,
         asks' \in [Requests -> R!AskDocs], \A r \in Requests : AskKnown(db, asks'[r], now)
  PROVE  RoleIInv'
<1>1. R!TypeOK'
  BY DEF RoleIInv, R!TypeOK
<1>2. StreamIInv'
  BY StreamStep DEF RoleIInv
<1>3. PICK d, time : d = db /\ d = db' /\ time = now /\ time = now'
  OBVIOUS
<1>4. EntryKnown(db', cache'.entry, now')
  BY <1>3
<1>5. \A r \in Requests : AskKnown(db', asks'[r], now')
  BY <1>3
<1> QED
  BY <1>1, <1>2, <1>4, <1>5 DEF RoleIInv

\* The same of a request of which only one document changes.
LEMMA RoleAsksOne ==
  ASSUME RoleIInv, NEW r \in Requests, NEW ask \in R!AskDocs, R!At(r, ask),
         AskKnown(db, ask, now),
         cache'.entry \in {cache.entry, R!NoEntry}, cache'.inflight \in Requests \cup {NoRequest},
         db' = db, now' = now, stream' = stream
  PROVE  RoleIInv'
<1>1. asks \in [Requests -> R!AskDocs] /\ asks' = [asks EXCEPT ![r] = ask]
  BY DEF RoleIInv, R!TypeOK, R!At
<1>2. asks' \in [Requests -> R!AskDocs]
  BY <1>1
<1>3. \A q \in Requests : AskKnown(db, asks'[q], now)
  BY <1>1 DEF RoleIInv
<1>4. PICK entry \in [version : -1..MaxEdits, expires : Int] :
        entry = cache'.entry /\ EntryKnown(db, entry, now)
  <2>1. R!NoEntry \in [version : -1..MaxEdits, expires : Int] /\ EntryKnown(db, R!NoEntry, now)
    BY RoleBounds DEF R!NoEntry, EntryKnown
  <2>2. cache.entry \in [version : -1..MaxEdits, expires : Int] /\ EntryKnown(db, cache.entry, now)
    BY DEF RoleIInv, R!TypeOK
  <2> QED
    BY <2>1, <2>2
<1> QED
  BY <1>2, <1>3, <1>4, RoleAsks

\* Every step of a request keeps the invariant.
LEMMA RoleAskStep ==
  ASSUME RoleIInv, NEW r \in Requests, R!AskStep(r)
  PROVE  RoleIInv'
<1>1. /\ db \in R!Databases /\ now \in 0..MaxTime /\ asks \in [Requests -> R!AskDocs]
      /\ cache.entry \in [version : -1..MaxEdits, expires : Int]
      /\ cache.inflight \in Requests \cup {NoRequest}
      /\ asks[r] \in R!AskDocs /\ AskKnown(db, asks[r], now) /\ EntryKnown(db, cache.entry, now)
  BY DEF RoleIInv, R!TypeOK
<1>2. /\ db.role.version \in 0..MaxEdits /\ db.role.live \in BOOLEAN
      /\ \A v \in 0..MaxEdits : db.replacedAt[v] \in Int
  BY <1>1, RoleBounds DEF R!Databases
<1>3. R!NoAsk \in R!AskDocs /\ R!NoAsk.pc = "idle" /\ AskKnown(db, R!NoAsk, now)
  BY RoleBounds DEF R!NoAsk, R!AskDocs, AskKnown
<1>4. CASE R!Ask(r)
  <2>1. db' = db /\ now' = now /\ stream' = stream
    BY <1>4 DEF R!Ask
  <2>2. CASE R!Fresh(cache.entry) /\ cache' = cache
             /\ R!At(r, [pc |-> "checking", version |-> cache.entry.version, live |-> TRUE,
                         since |-> now])
    <3>1. PICK ask : ask = [pc |-> "checking", version |-> cache.entry.version, live |-> TRUE,
                            since |-> now]
      OBVIOUS
    <3>2. cache.entry # R!NoEntry /\ cache.entry.expires > now
      BY <2>2 DEF R!Fresh
    <3>3. /\ ask \in R!AskDocs /\ ask.pc = "checking"
          /\ ask.version = cache.entry.version /\ ask.since = now
      BY <1>1, <3>1 DEF R!AskDocs
    <3>4. AskKnown(db, ask, now)
      BY <1>1, <1>2, <3>2, <3>3, RoleBounds DEF AskKnown, EntryKnown
    <3> QED
      BY <1>1, <2>1, <2>2, <3>1, <3>3, <3>4, RoleAsksOne
  <2>3. ASSUME NEW pc \in {"waiting", "loading"}, NEW inflight \in Requests \cup {NoRequest},
               R!At(r, [R!NoAsk EXCEPT !.pc = pc, !.since = now]),
               cache'.entry = R!NoEntry, cache'.inflight = inflight
        PROVE  RoleIInv'
    <3>1. PICK ask : ask = [R!NoAsk EXCEPT !.pc = pc, !.since = now]
      OBVIOUS
    <3>2. ask = [pc |-> pc, version |-> -1, live |-> FALSE, since |-> now]
      BY <3>1 DEF R!NoAsk
    <3>3. ask \in R!AskDocs /\ ask.pc = pc /\ ask.since = now
      BY <1>1, <3>2, RoleBounds DEF R!AskDocs
    <3>4. AskKnown(db, ask, now)
      BY <1>1, <2>3, <3>3, RoleBounds DEF AskKnown
    <3> QED
      BY <1>1, <2>1, <2>3, <3>1, <3>3, <3>4, RoleAsksOne
  <2>4. CASE R!At(r, [R!NoAsk EXCEPT !.pc = "waiting", !.since = now])
             /\ cache' = [cache EXCEPT !.entry = R!NoEntry]
    <3>1. cache'.entry = R!NoEntry /\ cache'.inflight = cache.inflight
      BY <2>4 DEF RoleIInv
    <3> QED
      BY <1>1, <2>3, <2>4, <3>1
  <2>5. CASE R!At(r, [R!NoAsk EXCEPT !.pc = "loading", !.since = now])
             /\ cache' = [entry |-> R!NoEntry, inflight |-> r]
    <3>1. cache'.entry = R!NoEntry /\ cache'.inflight = r
      BY <2>5
    <3> QED
      BY <2>3, <2>5, <3>1
  <2> QED
    BY <1>4, <2>2, <2>4, <2>5 DEF R!Ask
<1>5. CASE R!Load(r)
  <2>1. PICK ask : ask = [pc |-> "filling", version |-> db.role.version, live |-> db.role.live,
                          since |-> now]
    OBVIOUS
  <2>2. ask \in R!AskDocs /\ ask.pc = "filling" /\ ask.version = db.role.version /\ ask.since = now
    BY <1>1, <1>2, <2>1 DEF R!AskDocs
  <2>3. AskKnown(db, ask, now)
    BY <1>1, <1>2, <2>2, RoleBounds DEF AskKnown
  <2>4. R!At(r, ask) /\ cache' = cache /\ db' = db /\ now' = now /\ stream' = stream
    BY <1>5, <2>1 DEF R!Load
  <2> QED
    BY <1>1, <2>2, <2>3, <2>4, RoleAsksOne
<1>6. CASE R!Fill(r)
  <2>1. /\ asks[r].pc = "filling" /\ db' = db /\ now' = now /\ stream' = stream
        /\ cache' = [entry |-> IF asks[r].live
                               THEN [version |-> asks[r].version, expires |-> now + RoleTTL]
                               ELSE cache.entry,
                     inflight |-> NoRequest]
    BY <1>6 DEF R!Fill
  <2>2. PICK ask : ask = [asks[r] EXCEPT !.pc = "checking", !.since = now]
    OBVIOUS
  <2>3. PICK joined : asks' = [q \in Requests |-> IF q \in joined \cup {r} THEN ask ELSE asks[q]]
    BY <1>6, <2>2 DEF R!Fill
  <2>4. ask \in R!AskDocs /\ ask.pc = "checking" /\ ask.version = asks[r].version /\ ask.since = now
    BY <1>1, <2>2 DEF R!AskDocs
  <2>5. asks[r].version \in 0..db.role.version /\ asks[r].since \in Int
    BY <1>1, <2>1 DEF AskKnown, R!AskDocs
  <2>6. AskKnown(db, ask, now)
    BY <1>1, <1>2, <2>1, <2>4, <2>5, RoleBounds DEF AskKnown
  <2>7. PICK entry : entry = IF asks[r].live
                             THEN [version |-> asks[r].version, expires |-> now + RoleTTL]
                             ELSE cache.entry
    OBVIOUS
  <2>8. entry \in [version : -1..MaxEdits, expires : Int] /\ EntryKnown(db, entry, now)
    <3>1. CASE asks[r].live
      <4>1. entry = [version |-> asks[r].version, expires |-> now + RoleTTL]
        BY <2>7, <3>1
      <4>2. entry.version = asks[r].version /\ entry.expires = now + RoleTTL
        BY <4>1
      <4>3. entry \in [version : -1..MaxEdits, expires : Int]
        BY <1>1, <1>2, <2>5, <4>1, RoleBounds
      <4>4. EntryKnown(db, entry, now)
        BY <1>1, <1>2, <2>1, <2>5, <4>2, RoleBounds DEF EntryKnown, AskKnown
      <4> QED
        BY <4>3, <4>4
    <3>2. CASE ~asks[r].live
      BY <1>1, <2>7, <3>2
    <3> QED
      BY <3>1, <3>2
  <2>9. cache'.entry = entry /\ cache'.inflight = NoRequest
    BY <2>1, <2>7
  <2>10. asks' \in [Requests -> R!AskDocs]
    BY <1>1, <2>3, <2>4
  <2>11. \A q \in Requests : AskKnown(db, asks'[q], now)
    BY <2>3, <2>6 DEF RoleIInv
  <2> QED
    BY <2>1, <2>8, <2>9, <2>10, <2>11, RoleAsks
<1>7. CASE R!Granted(r)
  BY <1>1, <1>3, <1>7, RoleAsksOne DEF R!Granted
<1>8. CASE R!Denied(r)
  <2>1. /\ R!At(r, R!NoAsk) /\ db' = db /\ now' = now /\ stream' = stream
        /\ cache' = cache \/ cache' = R!Invalidated
    BY <1>8 DEF R!Denied
  <2>2. cache'.entry \in {cache.entry, R!NoEntry} /\ cache'.inflight \in Requests \cup {NoRequest}
    BY <1>1, <2>1 DEF R!Invalidated
  <2> QED
    BY <1>3, <2>1, <2>2, RoleAsksOne
<1> QED
  BY <1>4, <1>5, <1>6, <1>7, <1>8 DEF R!AskStep

\* What was current is, from when it is replaced, as stale as it is old.
LEMMA RoleWrites ==
  ASSUME RoleIInv, NEW live \in BOOLEAN, R!Written(live)
  PROVE  RoleIInv'
<1>1. /\ db \in R!Databases /\ now \in 0..MaxTime /\ asks \in [Requests -> R!AskDocs]
      /\ cache.entry \in [version : -1..MaxEdits, expires : Int]
  BY DEF RoleIInv, R!TypeOK
<1>2. /\ db.role.version \in 0..MaxEdits /\ db.role.version < MaxEdits
      /\ db.replacedAt \in [0..MaxEdits -> -1..MaxTime]
      /\ now' = now /\ cache' = cache /\ asks' = asks /\ stream' = R!Hears(stream)
  BY <1>1, RoleBounds DEF R!Databases, R!Written
<1>3. PICK d : d = [role |-> [version |-> db.role.version + 1, live |-> live],
                    replacedAt |-> [db.replacedAt EXCEPT ![db.role.version] = now]]
  OBVIOUS
<1>4. db' = d
  BY <1>3 DEF R!Written
<1>5. /\ d.role.version = db.role.version + 1
      /\ \A v \in 0..MaxEdits :
            d.replacedAt[v] = IF v = db.role.version THEN now ELSE db.replacedAt[v]
  BY <1>2, <1>3
<1>6. d \in R!Databases
  <2>1. [version |-> db.role.version + 1, live |-> live] \in [version : R!Versions, live : BOOLEAN]
    BY <1>2, RoleBounds
  <2>2. [db.replacedAt EXCEPT ![db.role.version] = now] \in [R!Versions -> -1..MaxTime]
    BY <1>1, <1>2, RoleBounds
  <2> QED
    BY <1>3, <2>1, <2>2 DEF R!Databases
<1>7. \A v \in 0..MaxEdits : db.replacedAt[v] \in Int
  BY <1>2, RoleBounds
<1>8. EntryKnown(d, cache.entry, now)
  <2> SUFFICES ASSUME cache.entry # R!NoEntry
               PROVE  /\ cache.entry.version \in 0..d.role.version
                      /\ cache.entry.expires <= now + RoleTTL
                      /\ cache.entry.expires
                             <= d.replacedAt[cache.entry.version] + MaxWait + RoleTTL
    BY DEF EntryKnown
  <2>1. /\ cache.entry.version \in 0..db.role.version /\ cache.entry.version \in 0..MaxEdits
        /\ cache.entry.expires <= now + RoleTTL
        /\ cache.entry.version # db.role.version =>
              cache.entry.expires <= db.replacedAt[cache.entry.version] + MaxWait + RoleTTL
    BY <1>1, <1>2, RoleBounds DEF RoleIInv, EntryKnown
  <2>2. CASE cache.entry.version = db.role.version
    <3>1. d.replacedAt[cache.entry.version] = now
      BY <1>5, <2>1, <2>2
    <3> QED
      BY <1>1, <1>2, <1>5, <2>1, <2>2, <3>1, RoleBounds
  <2>3. CASE cache.entry.version # db.role.version
    <3>1. d.replacedAt[cache.entry.version] = db.replacedAt[cache.entry.version]
      BY <1>5, <2>1, <2>3
    <3> QED
      BY <1>1, <1>2, <1>5, <2>1, <2>3, <3>1, RoleBounds
  <2> QED
    BY <2>2, <2>3
<1>9. ASSUME NEW r \in Requests
      PROVE  AskKnown(d, asks[r], now)
  <2>1. AskKnown(db, asks[r], now) /\ asks[r].since \in Int
    BY <1>1, <1>9 DEF RoleIInv, R!AskDocs
  <2> DEFINE v == asks[r].version
  <2>2. CASE asks[r].pc \in {"filling", "checking"}
    <3>1. v \in 0..db.role.version /\ v \in 0..MaxEdits
      BY <1>2, <2>1, <2>2, RoleBounds DEF AskKnown
    <3>2. CASE v = db.role.version
      <4>1. d.replacedAt[v] = now /\ asks[r].since <= now
        BY <1>5, <2>1, <2>2, <3>1, <3>2 DEF AskKnown
      <4> QED
        BY <1>1, <1>2, <1>5, <2>1, <2>2, <3>1, <4>1, RoleBounds DEF AskKnown
    <3>3. CASE v # db.role.version
      <4>1. d.replacedAt[v] = db.replacedAt[v]
        BY <1>5, <3>1, <3>3
      <4>2. v \in 0..d.role.version
        BY <1>2, <1>5, <3>1
      <4> QED
        BY <2>1, <2>2, <3>3, <4>1, <4>2 DEF AskKnown
    <3> QED
      BY <3>2, <3>3
  <2>3. CASE asks[r].pc \notin {"filling", "checking"}
    BY <2>1, <2>3 DEF AskKnown
  <2> QED
    BY <2>2, <2>3
<1>10. StreamIInv'
  BY <1>2, StreamStep DEF RoleIInv
<1>11. R!TypeOK'
  BY <1>2, <1>4, <1>6, <1>10 DEF RoleIInv, R!TypeOK, StreamIInv
<1> QED
  BY <1>2, <1>4, <1>8, <1>9, <1>10, <1>11 DEF RoleIInv

\* Every step keeps the invariant.
LEMMA RoleStep ==
  ASSUME RoleIInv, R!Next
  PROVE  RoleIInv'
<1>1. CASE R!UpdateRole \/ R!WithdrawRole
  BY <1>1, RoleWrites DEF R!UpdateRole, R!WithdrawRole
<1>2. ASSUME db' = db, now' = now, asks' = asks, cache' = cache \/ cache' = R!Invalidated,
             StreamIInv'
      PROVE  RoleIInv'
  <2>1. cache'.entry \in {cache.entry, R!NoEntry} /\ cache'.inflight \in Requests \cup {NoRequest}
    BY <1>2 DEF R!Invalidated, RoleIInv, R!TypeOK
  <2>2. R!NoEntry \in [version : -1..MaxEdits, expires : Int] /\ EntryKnown(db, R!NoEntry, now)
    BY RoleBounds DEF R!NoEntry, EntryKnown
  <2>3. R!TypeOK'
    BY <1>2, <2>1, <2>2 DEF RoleIInv, R!TypeOK, StreamIInv
  <2>4. PICK d, time : d = db /\ d = db' /\ time = now /\ time = now'
    BY <1>2
  <2>5. EntryKnown(d, cache'.entry, time)
    BY <2>1, <2>2, <2>4 DEF RoleIInv
  <2>6. \A r \in Requests : AskKnown(d, asks'[r], time)
    BY <1>2, <2>4 DEF RoleIInv
  <2> QED
    BY <1>2, <2>3, <2>4, <2>5, <2>6 DEF RoleIInv
<1>3. CASE R!RefreshRoleHolders \/ R!OnChange \/ R!OnError \/ R!Restart
  <2>1. /\ db' = db /\ now' = now /\ asks' = asks /\ (cache' = cache \/ cache' = R!Invalidated)
        /\ \/ stream' = stream
           \/ R!StreamFails \/ R!LateError \/ R!StreamReturns \/ R!HandleEvent
    BY <1>3 DEF R!RefreshRoleHolders, R!OnChange, R!OnError, R!Restart
  <2>2. StreamIInv'
    BY <2>1, StreamStep DEF RoleIInv
  <2> QED
    BY <1>2, <2>1, <2>2
<1>4. CASE R!Tick
  <2>1. /\ now < MaxTime /\ now' = now + 1 /\ now \in 0..MaxTime
        /\ db' = db /\ cache' = cache /\ asks' = asks /\ stream' = stream
        /\ \A r \in Requests : asks[r].pc # "idle" => now - asks[r].since < MaxWait
    BY <1>4 DEF R!Tick, RoleIInv, R!TypeOK
  <2>2. now' \in 0..MaxTime
    BY <2>1, RoleBounds
  <2>3. R!TypeOK'
    BY <2>1, <2>2 DEF RoleIInv, R!TypeOK
  <2>4. StreamIInv'
    BY <2>1, StreamStep DEF RoleIInv
  <2>5. PICK d : d = db /\ d = db'
    BY <2>1
  <2>6. EntryKnown(d, cache.entry, now')
    <3>1. /\ EntryKnown(db, cache.entry, now)
          /\ cache.entry \in [version : -1..MaxEdits, expires : Int]
      BY DEF RoleIInv, R!TypeOK
    <3> QED
      BY <2>1, <2>5, <3>1, RoleBounds DEF EntryKnown
  <2>7. ASSUME NEW r \in Requests
        PROVE  AskKnown(d, asks[r], now')
    <3>1. AskKnown(db, asks[r], now) /\ asks[r].since \in Int
      BY <2>7 DEF RoleIInv, R!TypeOK, R!AskDocs
    <3> QED
      BY <2>1, <2>5, <3>1, RoleBounds DEF AskKnown
  <2> QED
    BY <2>1, <2>3, <2>4, <2>5, <2>6, <2>7 DEF RoleIInv
<1> QED
  BY <1>1, <1>3, <1>4, RoleAskStep DEF R!Next

\* What is granted is of a role that is active, by permissions that are not staler than the
\* TTL and two steps.
LEMMA RoleGrants ==
  ASSUME RoleIInv
  PROVE  R!WithdrawnIsRefused /\ R!StaleForOneTTL
<1>1. R!WithdrawnIsRefused
  BY DEF R!WithdrawnIsRefused, R!Granted, R!StillLive
<1>2. ASSUME NEW r \in Requests, R!Granted(r), asks[r].version # db.role.version
      PROVE  now - db.replacedAt[asks[r].version] <= RoleTTL + 2 * MaxWait
  <2>1. /\ AskKnown(db, asks[r], now) /\ asks[r].since \in Int /\ now \in Int
        /\ asks[r].pc = "checking" /\ db \in R!Databases
    BY <1>2 DEF RoleIInv, R!TypeOK, R!AskDocs, R!Granted
  <2>2. asks[r].version \in 0..MaxEdits /\ db.role.version \in 0..MaxEdits
    BY <2>1, RoleBounds DEF AskKnown, R!Databases
  <2>3. PICK at \in Int : at = db.replacedAt[asks[r].version]
    BY <2>1, <2>2, RoleBounds DEF R!Databases
  <2>4. asks[r].since <= at + MaxWait + RoleTTL /\ now - asks[r].since <= MaxWait
    BY <1>2, <2>1, <2>3 DEF AskKnown
  <2>5. PICK since \in Int, time \in Int : since = asks[r].since /\ time = now
    BY <2>1
  <2>6. since <= at + MaxWait + RoleTTL /\ time - since <= MaxWait
    BY <2>4, <2>5
  <2>7. time - at <= RoleTTL + 2 * MaxWait
    BY <2>5, <2>6, RoleBounds
  <2> QED
    BY <2>3, <2>5, <2>7
<1> QED
  BY <1>1, <1>2 DEF R!StaleForOneTTL

-------------------------------------------------------------------------------
(* The entitlement cache.                                                  *)

\* What was read is of versions that there were.
Grown(d, read) == \A doc \in E!Documents : read[doc] \in -1..d.version[doc]

\* Every document that counts was read.
Whole(read) == \A doc \in E!Documents : read[doc] >= 0 \/ E!Suspended(read["restaurant"])

\* A version that was replaced was so no longer than lag before.
Behind(d, read, time, lag) ==
    \A doc \in E!Documents :
        read[doc] >= 0 /\ read[doc] # d.version[doc] => time <= d.replacedAt[doc][read[doc]] + lag

\* How long before a request's latest read, or hit, what it read first may have been replaced.
Lag(pc) ==
    CASE pc \in {"restaurant", "subscription"} -> 0
      [] pc = "plan" -> MaxWait
      [] pc = "remember" -> 2 * MaxWait
      [] pc = "answer" -> 3 * MaxWait + PlanTTL

\* What a request has read when it reads on.
ReadSoFar(pc, read) ==
    /\ pc = "restaurant" => read = E!Unread
    /\ pc \in {"subscription", "plan"} => read["restaurant"] >= 0
    /\ pc = "plan" => read["subscription"] >= 0
    /\ pc \in {"remember", "answer"} => Whole(read)

\* No step takes longer than MaxWait; what was read was current at most Lag before.
PlanAskKnown(d, ask, time) ==
    ask.pc # "idle" =>
        /\ ask.since <= time /\ time - ask.since <= MaxWait
        /\ Grown(d, ask.value.read) /\ ReadSoFar(ask.pc, ask.value.read)
        /\ Behind(d, ask.value.read, ask.since, Lag(ask.pc))
        /\ (ask.pc = "answer" /\ ask.value.operational) => ask.since < PeriodEnd + PlanTTL

\* An entry ends within one TTL of the load that made it.
PlanEntryKnown(d, entry, time) ==
    /\ entry.expires <= time + PlanTTL
    /\ Grown(d, entry.value.read)
    /\ entry.expires >= 0 => Whole(entry.value.read)
    /\ Behind(d, entry.value.read, entry.expires, Lag("answer"))
    /\ entry.value.operational => entry.expires < PeriodEnd + PlanTTL

\* The documents, the clock, the entry and the requests have their shapes.
PlanShapes ==
    /\ db \in E!Databases /\ now \in 0..MaxTime
    /\ cache \in [value : E!Entitlements, expires : Int]
    /\ asks \in [PlanAskers -> E!AskDocs]

\* How stale the entry, and what a request knows, may be.
PlanIInv ==
    /\ PlanShapes /\ StreamIInv
    /\ PlanEntryKnown(db, cache, now)
    /\ \A r \in PlanAskers : PlanAskKnown(db, asks[r], now)

\* Bounds are numbers.
LEMMA PlanBounds ==
  /\ PlanTTL \in Nat /\ MaxWait \in Nat /\ PlanEdits \in Nat /\ MaxTime \in Nat /\ PeriodEnd \in Nat
  /\ E!Versions = 0..PlanEdits
BY ServerAssumption DEF E!EntitlementAssumption, E!Versions

\* The documents are these.
LEMMA PlanDocuments ==
  /\ E!Documents = {"restaurant", "subscription", "plan"}
  /\ "restaurant" \in E!Documents /\ "subscription" \in E!Documents /\ "plan" \in E!Documents
BY DEF E!Documents

\* Each lag is one step longer than that of the read before.
LEMMA Lags ==
  /\ Lag("restaurant") = 0 /\ Lag("subscription") = 0 /\ Lag("plan") = MaxWait
  /\ Lag("remember") = 2 * MaxWait /\ Lag("answer") = 3 * MaxWait + PlanTTL
BY DEF Lag

\* An entry that was forgotten, and a request that has read nothing, say nothing.
LEMMA NothingRead ==
  ASSUME PlanShapes
  PROVE  /\ E!Unread \in [E!Documents -> -1..PlanEdits]
         /\ E!NoEntry \in [value : E!Entitlements, expires : Int]
         /\ E!NoEntry.value \in E!Entitlements /\ E!NoEntry.value.read = E!Unread
         /\ Grown(db, E!Unread) /\ \A time, lag : Behind(db, E!Unread, time, lag)
         /\ PlanEntryKnown(db, E!NoEntry, now)
         /\ E!NoAsk \in E!AskDocs /\ E!NoAsk.pc = "idle"
         /\ E!NoAsk.value = E!NoEntry.value
<1>1. E!Unread \in [E!Documents -> -1..PlanEdits] /\ \A doc \in E!Documents : E!Unread[doc] = -1
  BY PlanBounds DEF E!Unread
<1>2. /\ E!NoEntry.value = [read |-> E!Unread, operational |-> FALSE] /\ E!NoEntry.expires = -1
      /\ E!NoEntry = [value |-> [read |-> E!Unread, operational |-> FALSE], expires |-> -1]
  BY DEF E!NoEntry
<1>3. /\ E!NoEntry.value \in E!Entitlements /\ E!NoEntry.value.read = E!Unread
      /\ ~E!NoEntry.value.operational
  BY <1>1, <1>2 DEF E!Entitlements
<1>4. E!NoEntry \in [value : E!Entitlements, expires : Int]
  <2>1. -1 \in Int
    OBVIOUS
  <2> QED
    BY <1>2, <1>3, <2>1
<1>5. \A doc \in E!Documents : db.version[doc] \in 0..PlanEdits
  BY PlanBounds DEF PlanShapes, E!Databases
<1>6. Grown(db, E!Unread)
  BY <1>1, <1>5, PlanBounds DEF Grown
<1>7. \A time, lag : Behind(db, E!Unread, time, lag)
  BY <1>1 DEF Behind
<1>8. PlanEntryKnown(db, E!NoEntry, now)
  BY <1>2, <1>3, <1>6, <1>7, PlanBounds DEF PlanEntryKnown, PlanShapes
<1>9. E!NoAsk \in E!AskDocs /\ E!NoAsk.pc = "idle" /\ E!NoAsk.value = E!NoEntry.value
  <2>1. E!NoAsk = [pc |-> "idle", value |-> E!NoEntry.value, since |-> 0] /\ 0 \in 0..MaxTime
    BY PlanBounds DEF E!NoAsk
  <2> QED
    BY <1>3, <2>1 DEF E!AskDocs
<1> QED
  BY <1>1, <1>3, <1>4, <1>6, <1>7, <1>8, <1>9

\* Nothing is remembered and nobody asks.
LEMMA PlanInit ==
  ASSUME E!Init
  PROVE  PlanIInv
<1>1. /\ now = 0 /\ cache = E!NoEntry /\ asks = [r \in PlanAskers |-> E!NoAsk] /\ stream = E!Running
      /\ db = [version |-> [doc \in E!Documents |-> 0],
               replacedAt |-> [doc \in E!Documents |-> [v \in E!Versions |-> -1]]]
  BY DEF E!Init
<1>2. db \in E!Databases /\ now \in 0..MaxTime
  <2>1. [doc \in E!Documents |-> 0] \in [E!Documents -> E!Versions]
    BY PlanBounds
  <2>2. [doc \in E!Documents |-> [v \in E!Versions |-> -1]]
           \in [E!Documents -> [E!Versions -> -1..MaxTime]]
    BY PlanBounds
  <2> QED
    BY <1>1, <2>1, <2>2, PlanBounds DEF E!Databases
<1>3. E!Unread \in [E!Documents -> -1..PlanEdits]
  BY PlanBounds DEF E!Unread
<1>4. /\ [read |-> E!Unread, operational |-> FALSE] \in E!Entitlements
      /\ -1 \in Int /\ 0 \in 0..MaxTime
  BY <1>3, PlanBounds DEF E!Entitlements
<1>5. cache \in [value : E!Entitlements, expires : Int]
  BY <1>1, <1>4 DEF E!NoEntry
<1>6. E!NoAsk \in E!AskDocs /\ E!NoAsk.pc = "idle"
  BY <1>4 DEF E!NoAsk, E!AskDocs, E!NoEntry
<1>7. PlanShapes
  BY <1>1, <1>2, <1>5, <1>6 DEF PlanShapes
<1>8. StreamIInv
  BY <1>1, SameStreams, StreamInit
<1>9. PlanEntryKnown(db, cache, now)
  BY <1>1, <1>7, NothingRead
<1>10. \A r \in PlanAskers : asks[r].pc = "idle"
  BY <1>1, <1>6
<1> QED
  BY <1>7, <1>8, <1>9, <1>10 DEF PlanIInv, PlanAskKnown

\* A request takes a step: what it, and the entry, say then.
LEMMA PlanAsks ==
  ASSUME PlanIInv, NEW r \in PlanAskers, NEW ask \in E!AskDocs, E!At(r, ask),
         PlanAskKnown(db, ask, now),
         NEW entry \in [value : E!Entitlements, expires : Int], cache' = entry,
         PlanEntryKnown(db, entry, now),
         db' = db, now' = now, stream' = stream
  PROVE  PlanIInv'
<1>1. asks \in [PlanAskers -> E!AskDocs] /\ asks' = [asks EXCEPT ![r] = ask]
  BY DEF PlanIInv, PlanShapes, E!At
<1>2. asks' \in [PlanAskers -> E!AskDocs]
  BY <1>1
<1>3. \A q \in PlanAskers : PlanAskKnown(db, asks'[q], now)
  BY <1>1 DEF PlanIInv
<1>4. PICK d, time : d = db /\ d = db' /\ time = now /\ time = now'
  OBVIOUS
<1>5. PlanEntryKnown(db', cache', now')
  BY <1>4
<1>6. \A q \in PlanAskers : PlanAskKnown(db', asks'[q], now')
  BY <1>3, <1>4
<1>7. PlanShapes'
  BY <1>2 DEF PlanIInv, PlanShapes
<1>8. StreamIInv'
  BY StreamStep DEF PlanIInv
<1> QED
  BY <1>5, <1>6, <1>7, <1>8 DEF PlanIInv

\* What is read is current; what was read before it is one step older.
LEMMA ReadsOn ==
  ASSUME PlanIInv, NEW r \in PlanAskers, NEW doc \in E!Documents, E!Read(r, doc)
  PROVE  PlanIInv'
<1>1. /\ db \in E!Databases /\ now \in 0..MaxTime /\ asks[r] \in E!AskDocs
      /\ PlanAskKnown(db, asks[r], now) /\ asks[r].pc = doc /\ asks[r].pc # "idle"
      /\ cache \in [value : E!Entitlements, expires : Int] /\ PlanEntryKnown(db, cache, now)
      /\ db' = db /\ now' = now /\ cache' = cache /\ stream' = stream
  BY PlanDocuments DEF PlanIInv, PlanShapes, E!Read
<1>2. PICK v \in 0..PlanEdits : v = db.version[doc]
  BY <1>1, PlanBounds DEF E!Databases
<1>3. PICK pc : pc = E!NextDocument(doc, v)
  OBVIOUS
<1>4. PICK read : read = [asks[r].value.read EXCEPT ![doc] = v]
  OBVIOUS
<1>5. PICK value : value = [read |-> read, operational |-> asks[r].value.operational]
  OBVIOUS
<1>6. PICK ask : ask = [pc |-> pc, value |-> value, since |-> now]
  OBVIOUS
<1>7. /\ asks[r].value.read \in [E!Documents -> -1..PlanEdits]
      /\ asks[r].value.operational \in BOOLEAN /\ asks[r].since \in 0..MaxTime
  BY <1>1 DEF E!AskDocs, E!Entitlements
<1>8. E!At(r, ask)
  <2>1. E!At(r, [pc |-> pc, value |-> [asks[r].value EXCEPT !.read[doc] = v], since |-> now])
    BY <1>2, <1>3 DEF E!Read
  <2>2. asks[r].value \in [read : [E!Documents -> -1..PlanEdits], operational : BOOLEAN]
    BY <1>1 DEF E!AskDocs, E!Entitlements
  <2>3. [asks[r].value EXCEPT !.read[doc] = v]
          = [read |-> read, operational |-> asks[r].value.operational]
    BY <1>4, <2>2
  <2> QED
    BY <1>5, <1>6, <2>1, <2>3
<1>9. /\ pc \in E!Documents \cup {"remember"}
      /\ doc = "restaurant" => pc = IF E!Suspended(v) THEN "remember" ELSE "subscription"
      /\ doc = "subscription" => pc = "plan"
      /\ doc = "plan" => pc = "remember"
  BY <1>3, PlanDocuments DEF E!NextDocument
<1>10. read \in [E!Documents -> -1..PlanEdits]
  BY <1>2, <1>4, <1>7, PlanBounds
<1>11. /\ ask \in E!AskDocs /\ ask.pc = pc /\ ask.value.read = read /\ ask.since = now
       /\ ask.pc # "answer" /\ ask.pc # "idle"
  <2>1. value \in E!Entitlements /\ value.read = read
    BY <1>5, <1>7, <1>10 DEF E!Entitlements
  <2>2. ask \in E!AskDocs
    BY <1>1, <1>6, <1>9, <2>1 DEF E!AskDocs
  <2> QED
    BY <1>6, <1>9, <2>1, <2>2, PlanDocuments
<1>12. /\ read[doc] = v /\ \A x \in E!Documents : x # doc => read[x] = asks[r].value.read[x]
  BY <1>4, <1>7
<1>13. Grown(db, read)
  <2>1. \A x \in E!Documents : asks[r].value.read[x] \in -1..db.version[x]
    BY <1>1 DEF PlanAskKnown, Grown
  <2>2. v \in -1..db.version[doc]
    BY <1>2, PlanBounds
  <2> QED
    BY <1>12, <2>1, <2>2 DEF Grown
<1>14. ReadSoFar(pc, read)
  <2>1. ReadSoFar(doc, asks[r].value.read)
    BY <1>1 DEF PlanAskKnown
  <2>2. v >= 0
    BY <1>2
  <2>3. CASE doc = "restaurant"
    <3>1. read["restaurant"] = v
      BY <1>12, <2>3
    <3>2. E!Suspended(v) => Whole(read)
      BY <3>1 DEF Whole
    <3> QED
      BY <1>9, <2>2, <2>3, <3>1, <3>2, PlanDocuments DEF ReadSoFar
  <2>4. CASE doc = "subscription"
    <3>1. read["subscription"] = v /\ read["restaurant"] = asks[r].value.read["restaurant"]
      BY <1>12, <2>4, PlanDocuments
    <3> QED
      BY <1>9, <2>1, <2>2, <2>4, <3>1 DEF ReadSoFar
  <2>5. CASE doc = "plan"
    <3>1. /\ read["plan"] = v /\ read["restaurant"] = asks[r].value.read["restaurant"]
          /\ read["subscription"] = asks[r].value.read["subscription"]
      BY <1>12, <2>5, PlanDocuments
    <3>2. \A x \in E!Documents : read[x] >= 0
      BY <2>1, <2>2, <2>5, <3>1, PlanDocuments DEF ReadSoFar
    <3>3. Whole(read)
      BY <3>2 DEF Whole
    <3> QED
      BY <1>9, <2>5, <3>3 DEF ReadSoFar
  <2> QED
    BY <2>3, <2>4, <2>5, PlanDocuments
<1>15. Behind(db, read, now, Lag(pc))
  <2> SUFFICES ASSUME NEW x \in E!Documents, read[x] >= 0, read[x] # db.version[x]
               PROVE  now <= db.replacedAt[x][read[x]] + Lag(pc)
    BY DEF Behind
  <2>1. x # doc /\ read[x] = asks[r].value.read[x]
    BY <1>2, <1>12
  <2>2. doc # "restaurant"
    <3>1. doc = "restaurant" => asks[r].value.read = E!Unread
      BY <1>1 DEF PlanAskKnown, ReadSoFar
    <3>2. E!Unread[x] = -1
      BY DEF E!Unread
    <3> QED
      BY <2>1, <3>1, <3>2
  <2>3. asks[r].since <= db.replacedAt[x][read[x]] + Lag(doc) /\ now - asks[r].since <= MaxWait
    BY <1>1, <2>1 DEF PlanAskKnown, Behind
  <2>4. PICK at \in Int : at = db.replacedAt[x][read[x]]
    <3>1. read[x] \in 0..PlanEdits
      BY <1>10
    <3> QED
      BY <1>1, <3>1, PlanBounds DEF E!Databases
  <2>5. CASE doc = "subscription"
    <3>1. Lag(doc) = 0 /\ Lag(pc) = MaxWait
      BY <1>9, <2>5, Lags
    <3> QED
      BY <1>1, <1>7, <2>3, <2>4, <3>1, PlanBounds
  <2>6. CASE doc = "plan"
    <3>1. Lag(doc) = MaxWait /\ Lag(pc) = 2 * MaxWait
      BY <1>9, <2>6, Lags
    <3> QED
      BY <1>1, <1>7, <2>3, <2>4, <3>1, PlanBounds
  <2> QED
    BY <2>2, <2>5, <2>6, PlanDocuments
<1>16. PlanAskKnown(db, ask, now)
  BY <1>1, <1>11, <1>13, <1>14, <1>15, PlanBounds DEF PlanAskKnown
<1> QED
  BY <1>1, <1>8, <1>11, <1>16, PlanAsks

\* Every step of a request keeps the invariant.
LEMMA PlanAskStep ==
  ASSUME PlanIInv, NEW r \in PlanAskers, E!AskStep(r)
  PROVE  PlanIInv'
<1>1. /\ db \in E!Databases /\ now \in 0..MaxTime /\ asks[r] \in E!AskDocs
      /\ PlanAskKnown(db, asks[r], now) /\ PlanShapes
      /\ cache \in [value : E!Entitlements, expires : Int] /\ PlanEntryKnown(db, cache, now)
  BY DEF PlanIInv, PlanShapes
<1>2. \A doc \in E!Documents :
         /\ db.version[doc] \in 0..PlanEdits
         /\ \A v \in 0..PlanEdits : db.replacedAt[doc][v] \in Int
  BY <1>1, PlanBounds DEF E!Databases
<1>3. CASE E!Hit(r)
  <2>1. PICK ask : ask = [pc |-> "answer", value |-> cache.value, since |-> now]
    OBVIOUS
  <2>2. /\ E!At(r, ask) /\ cache.expires >= now
        /\ db' = db /\ now' = now /\ cache' = cache /\ stream' = stream
    BY <1>3, <2>1 DEF E!Hit, E!Remembered
  <2>3. ask \in E!AskDocs /\ ask.pc = "answer" /\ ask.value = cache.value /\ ask.since = now
    BY <1>1, <2>1 DEF E!AskDocs
  <2>4. cache.expires >= 0
    BY <1>1, <2>2, PlanBounds
  <2>5. Behind(db, cache.value.read, now, Lag("answer"))
    <3> SUFFICES ASSUME NEW doc \in E!Documents, cache.value.read[doc] >= 0,
                        cache.value.read[doc] # db.version[doc]
                 PROVE  now <= db.replacedAt[doc][cache.value.read[doc]] + Lag("answer")
      BY DEF Behind
    <3>1. cache.expires <= db.replacedAt[doc][cache.value.read[doc]] + Lag("answer")
      BY <1>1 DEF PlanEntryKnown, Behind
    <3>2. PICK at \in Int : at = db.replacedAt[doc][cache.value.read[doc]]
      <4>1. cache.value.read[doc] \in 0..PlanEdits
        BY <1>1 DEF E!Entitlements
      <4> QED
        BY <1>2, <4>1
    <3>3. PICK expires \in Int : expires = cache.expires
      BY <1>1
    <3>4. expires <= at + (3 * MaxWait + PlanTTL) /\ expires >= now
      BY <2>2, <3>1, <3>2, <3>3, Lags
    <3>5. now <= at + (3 * MaxWait + PlanTTL)
      BY <1>1, <3>4, PlanBounds
    <3> QED
      BY <3>2, <3>5, Lags
  <2>6. PlanAskKnown(db, ask, now)
    BY <1>1, <2>2, <2>3, <2>4, <2>5, PlanBounds DEF PlanAskKnown, PlanEntryKnown, ReadSoFar
  <2> QED
    BY <1>1, <2>2, <2>3, <2>6, PlanAsks
<1>4. CASE E!Miss(r)
  <2>1. PICK ask : ask = [E!NoAsk EXCEPT !.pc = "restaurant", !.since = now]
    OBVIOUS
  <2>2. ask = [pc |-> "restaurant", value |-> E!NoEntry.value, since |-> now]
    BY <2>1 DEF E!NoAsk
  <2>3. /\ ask \in E!AskDocs /\ ask.pc = "restaurant" /\ ask.value = E!NoEntry.value
        /\ ask.since = now
    BY <1>1, <2>2, NothingRead, PlanDocuments DEF E!AskDocs
  <2>4. PlanAskKnown(db, ask, now)
    BY <1>1, <2>3, NothingRead, PlanBounds DEF PlanAskKnown, ReadSoFar
  <2> QED
    BY <1>1, <1>4, <2>1, <2>3, <2>4, PlanAsks DEF E!Miss
<1>5. CASE E!Remember(r)
  <2>1. PICK op \in BOOLEAN : op = E!Operational(asks[r].value)
    BY DEF E!Operational
  <2>2. PICK value : value = [read |-> asks[r].value.read, operational |-> op]
    OBVIOUS
  <2>3. value = [asks[r].value EXCEPT !.operational = E!Operational(asks[r].value)]
    BY <1>1, <2>1, <2>2 DEF E!AskDocs, E!Entitlements
  <2>4. PICK ask, entry : /\ ask = [pc |-> "answer", value |-> value, since |-> now]
                          /\ entry = [value |-> value, expires |-> now + PlanTTL]
    OBVIOUS
  <2>5. /\ asks[r].pc = "remember" /\ E!At(r, ask) /\ cache' = entry
        /\ db' = db /\ now' = now /\ stream' = stream
    BY <1>5, <2>3, <2>4 DEF E!Remember
  <2>6. /\ value \in E!Entitlements /\ value.read = asks[r].value.read
        /\ value.operational => now < PeriodEnd
    BY <1>1, <2>1, <2>2 DEF E!AskDocs, E!Entitlements, E!Operational
  <2>7. /\ ask \in E!AskDocs /\ ask.pc = "answer" /\ ask.value = value /\ ask.since = now
        /\ entry.value = value /\ entry.expires = now + PlanTTL
    BY <1>1, <2>4, <2>6 DEF E!AskDocs
  <2>8. entry \in [value : E!Entitlements, expires : Int]
    BY <1>1, <2>4, <2>6, PlanBounds
  <2>9. /\ Grown(db, value.read) /\ Whole(value.read)
        /\ asks[r].since <= now /\ now - asks[r].since <= MaxWait
        /\ Behind(db, value.read, asks[r].since, Lag("remember"))
    BY <1>1, <2>5, <2>6 DEF PlanAskKnown, ReadSoFar
  <2>10. ASSUME NEW time \in Int, time <= now + PlanTTL
         PROVE  Behind(db, value.read, time, Lag("answer"))
    <3> SUFFICES ASSUME NEW doc \in E!Documents, value.read[doc] >= 0,
                        value.read[doc] # db.version[doc]
                 PROVE  time <= db.replacedAt[doc][value.read[doc]] + Lag("answer")
      BY DEF Behind
    <3>1. asks[r].since <= db.replacedAt[doc][value.read[doc]] + Lag("remember")
      BY <2>9 DEF Behind
    <3>2. PICK at \in Int : at = db.replacedAt[doc][value.read[doc]]
      <4>1. value.read[doc] \in 0..PlanEdits
        BY <2>6 DEF E!Entitlements
      <4> QED
        BY <1>2, <4>1
    <3>3. PICK since \in Int : since = asks[r].since
      BY <1>1 DEF E!AskDocs
    <3>4. since <= at + 2 * MaxWait /\ now - since <= MaxWait
      BY <2>9, <3>1, <3>2, <3>3, Lags
    <3>5. time <= at + (3 * MaxWait + PlanTTL)
      BY <1>1, <2>10, <3>4, PlanBounds
    <3> QED
      BY <3>2, <3>5, Lags
  <2>11. PlanAskKnown(db, ask, now)
    <3>1. Behind(db, value.read, now, Lag("answer"))
      BY <1>1, <2>10, PlanBounds
    <3> QED
      BY <1>1, <2>6, <2>7, <2>9, <3>1, PlanBounds DEF PlanAskKnown, ReadSoFar
  <2>12. PlanEntryKnown(db, entry, now)
    <3>1. Behind(db, value.read, now + PlanTTL, Lag("answer"))
      BY <1>1, <2>10, PlanBounds
    <3> QED
      BY <1>1, <2>6, <2>7, <2>9, <3>1, PlanBounds DEF PlanEntryKnown
  <2> QED
    BY <2>5, <2>7, <2>8, <2>11, <2>12, PlanAsks
<1>6. CASE E!Answer(r)
  <2>1. PlanAskKnown(db, E!NoAsk, now) /\ E!NoAsk \in E!AskDocs
    BY <1>1, NothingRead DEF PlanAskKnown
  <2> QED
    BY <1>1, <1>6, <2>1, PlanAsks DEF E!Answer
<1> QED
  BY <1>3, <1>4, <1>5, <1>6, ReadsOn DEF E!AskStep

\* What was current is, from when it is replaced, as stale as it is old.
LEMMA PlanWrites ==
  ASSUME PlanIInv, NEW doc \in E!Documents, E!WriteDocument(doc)
  PROVE  PlanIInv'
<1>1. /\ db \in E!Databases /\ now \in 0..MaxTime /\ asks \in [PlanAskers -> E!AskDocs]
      /\ cache \in [value : E!Entitlements, expires : Int] /\ PlanEntryKnown(db, cache, now)
      /\ now' = now /\ cache' = cache /\ asks' = asks
  BY DEF PlanIInv, PlanShapes, E!WriteDocument
<1>2. PICK old \in 0..PlanEdits : old = db.version[doc]
  BY <1>1, PlanBounds DEF E!Databases
<1>3. /\ db.version \in [E!Documents -> 0..PlanEdits] /\ old < PlanEdits
      /\ db.replacedAt \in [E!Documents -> [0..PlanEdits -> -1..MaxTime]]
  BY <1>1, <1>2, PlanBounds DEF E!Databases, E!WriteDocument
<1>4. PICK version, replacedAt :
        /\ version = [db.version EXCEPT ![doc] = old + 1]
        /\ replacedAt = [db.replacedAt EXCEPT ![doc][old] = now]
  OBVIOUS
<1>5. /\ version \in [E!Documents -> 0..PlanEdits]
      /\ version[doc] = old + 1
      /\ \A x \in E!Documents : x # doc => version[x] = db.version[x]
  BY <1>2, <1>3, <1>4, PlanBounds
<1>6. /\ replacedAt \in [E!Documents -> [0..PlanEdits -> -1..MaxTime]]
      /\ replacedAt[doc][old] = now
      /\ \A x \in E!Documents, v \in 0..PlanEdits :
            (x # doc \/ v # old) => replacedAt[x][v] = db.replacedAt[x][v]
  <2>1. PICK row : row = [db.replacedAt[doc] EXCEPT ![old] = now]
    OBVIOUS
  <2>2. db.replacedAt[doc] \in [0..PlanEdits -> -1..MaxTime] /\ now \in -1..MaxTime
    BY <1>1, <1>3, PlanBounds
  <2>3. /\ row \in [0..PlanEdits -> -1..MaxTime] /\ row[old] = now
        /\ \A v \in 0..PlanEdits : v # old => row[v] = db.replacedAt[doc][v]
    BY <1>2, <2>1, <2>2
  <2>4. replacedAt = [db.replacedAt EXCEPT ![doc] = row]
    BY <1>4, <2>1
  <2>5. /\ replacedAt \in [E!Documents -> [0..PlanEdits -> -1..MaxTime]]
        /\ replacedAt[doc] = row
        /\ \A x \in E!Documents : x # doc => replacedAt[x] = db.replacedAt[x]
    BY <1>3, <2>3, <2>4
  <2> QED
    BY <2>3, <2>5
<1>7. PICK d : d = [version |-> version, replacedAt |-> replacedAt]
  OBVIOUS
<1>8. db' = d
  <2>1. /\ version = [db.version EXCEPT ![doc] = @ + 1]
        /\ replacedAt = [db.replacedAt EXCEPT ![doc][db.version[doc]] = now]
    BY <1>2, <1>3, <1>4
  <2> QED
    BY <1>7, <2>1 DEF E!WriteDocument
<1>9. d \in E!Databases /\ d.version = version /\ d.replacedAt = replacedAt
  BY <1>5, <1>6, <1>7, PlanBounds DEF E!Databases
<1>10. ASSUME NEW read \in [E!Documents -> -1..PlanEdits], Grown(db, read)
       PROVE  Grown(d, read)
  <2> SUFFICES ASSUME NEW x \in E!Documents
               PROVE  read[x] \in -1..version[x]
    BY <1>9 DEF Grown
  <2>1. read[x] \in -1..db.version[x] /\ db.version[x] \in 0..PlanEdits
    BY <1>3, <1>10 DEF Grown
  <2>2. CASE x = doc
    BY <1>2, <1>5, <2>1, <2>2
  <2>3. CASE x # doc
    BY <1>5, <2>1, <2>3
  <2> QED
    BY <2>2, <2>3
<1>11. ASSUME NEW read \in [E!Documents -> -1..PlanEdits], Grown(db, read),
              NEW time \in Int, NEW lag \in Nat, Behind(db, read, time, lag),
              time <= now + lag
       PROVE  Behind(d, read, time, lag)
  <2> SUFFICES ASSUME NEW x \in E!Documents, read[x] >= 0, read[x] # version[x]
               PROVE  time <= replacedAt[x][read[x]] + lag
    BY <1>9 DEF Behind
  <2>1. read[x] \in 0..PlanEdits
    BY <1>11
  <2>2. CASE x = doc /\ read[x] = old
    <3>1. replacedAt[x][read[x]] = now
      BY <1>6, <2>2
    <3> QED
      BY <1>1, <1>11, <3>1
  <2>3. CASE x # doc \/ read[x] # old
    <3>1. replacedAt[x][read[x]] = db.replacedAt[x][read[x]]
      BY <1>6, <2>1, <2>3
    <3>2. read[x] # db.version[x]
      BY <1>2, <1>5, <2>3
    <3> QED
      BY <1>11, <3>1, <3>2 DEF Behind
  <2> QED
    BY <2>2, <2>3
<1>12. PlanEntryKnown(d, cache, now)
  <2>1. /\ cache.value.read \in [E!Documents -> -1..PlanEdits] /\ cache.expires \in Int
        /\ Lag("answer") \in Nat /\ cache.expires <= now + Lag("answer")
    BY <1>1, Lags, PlanBounds DEF E!Entitlements, PlanEntryKnown
  <2> QED
    BY <1>1, <1>10, <1>11, <2>1 DEF PlanEntryKnown
<1>13. ASSUME NEW r \in PlanAskers
       PROVE  PlanAskKnown(d, asks[r], now)
  <2>1. asks[r] \in E!AskDocs /\ PlanAskKnown(db, asks[r], now)
    BY <1>1, <1>13 DEF PlanIInv
  <2> SUFFICES ASSUME asks[r].pc # "idle"
               PROVE  PlanAskKnown(d, asks[r], now)
    BY DEF PlanAskKnown
  <2>2. asks[r].value.read \in [E!Documents -> -1..PlanEdits] /\ asks[r].since \in Int
    BY <2>1 DEF E!AskDocs, E!Entitlements
  <2>3. PICK lag \in Nat : lag = Lag(asks[r].pc)
    <3>1. asks[r].pc \in {"restaurant", "subscription", "plan", "remember", "answer"}
      BY <2>1, PlanDocuments DEF E!AskDocs
    <3> QED
      BY <3>1, Lags, PlanBounds
  <2>4. asks[r].since <= now + lag
    BY <1>1, <2>1, <2>2 DEF PlanAskKnown
  <2> QED
    BY <1>10, <1>11, <2>1, <2>2, <2>3, <2>4 DEF PlanAskKnown
<1>14. stream' = stream \/ stream' = E!Hears(stream)
  BY DEF E!WriteDocument
<1>15. StreamIInv'
  BY <1>14, SameStreams, StreamStep DEF PlanIInv
<1>16. PlanShapes'
  BY <1>1, <1>8, <1>9 DEF PlanShapes
<1> QED
  BY <1>1, <1>8, <1>12, <1>13, <1>15, <1>16 DEF PlanIInv

\* Every step keeps the invariant.
LEMMA PlanStep ==
  ASSUME PlanIInv, E!Next
  PROVE  PlanIInv'
<1>1. CASE E!InvalidateEntitlements \/ E!OnChange \/ E!OnError \/ E!Restart
  <2>1. /\ db' = db /\ now' = now /\ asks' = asks /\ cache' = E!NoEntry
        /\ \/ stream' = stream
           \/ E!StreamFails \/ E!LateError \/ E!StreamReturns \/ E!HandleEvent
    BY <1>1 DEF E!InvalidateEntitlements, E!OnChange, E!OnError, E!Restart
  <2>2. StreamIInv'
    BY <2>1, SameStreams, StreamStep DEF PlanIInv
  <2>3. PlanEntryKnown(db, E!NoEntry, now) /\ PlanShapes'
    BY <2>1, NothingRead DEF PlanIInv, PlanShapes
  <2>4. PICK d, time : d = db /\ d = db' /\ time = now /\ time = now'
    BY <2>1
  <2>5. PlanEntryKnown(d, cache', time)
    BY <2>1, <2>3, <2>4
  <2>6. \A r \in PlanAskers : PlanAskKnown(d, asks'[r], time)
    BY <2>1, <2>4 DEF PlanIInv
  <2> QED
    BY <2>2, <2>3, <2>4, <2>5, <2>6 DEF PlanIInv
<1>2. CASE E!Tick
  <2>1. /\ now < MaxTime /\ now' = now + 1 /\ now \in 0..MaxTime
        /\ db' = db /\ cache' = cache /\ asks' = asks /\ stream' = stream
        /\ \A r \in PlanAskers : asks[r].pc # "idle" => now - asks[r].since < MaxWait
    BY <1>2 DEF E!Tick, PlanIInv, PlanShapes
  <2>2. now' \in 0..MaxTime
    BY <2>1, PlanBounds
  <2>3. PlanShapes'
    BY <2>1, <2>2 DEF PlanIInv, PlanShapes
  <2>4. StreamIInv'
    BY <2>1, StreamStep DEF PlanIInv
  <2>5. PICK d : d = db /\ d = db'
    BY <2>1
  <2>6. PlanEntryKnown(d, cache, now')
    <3>1. PlanEntryKnown(db, cache, now) /\ cache \in [value : E!Entitlements, expires : Int]
      BY DEF PlanIInv, PlanShapes
    <3> QED
      BY <2>1, <2>5, <3>1, PlanBounds DEF PlanEntryKnown
  <2>7. ASSUME NEW r \in PlanAskers
        PROVE  PlanAskKnown(d, asks[r], now')
    <3>1. PlanAskKnown(db, asks[r], now) /\ asks[r].since \in Int
      BY <2>7 DEF PlanIInv, PlanShapes, E!AskDocs
    <3> QED
      BY <2>1, <2>5, <3>1, PlanBounds DEF PlanAskKnown
  <2> QED
    BY <2>1, <2>3, <2>4, <2>5, <2>6, <2>7 DEF PlanIInv
<1>3. CASE \E r \in PlanAskers : E!AskStep(r)
  BY <1>3, PlanAskStep
<1>4. CASE \E doc \in E!Documents : E!WriteDocument(doc)
  BY <1>4, PlanWrites
<1> QED
  BY <1>1, <1>2, <1>3, <1>4 DEF E!Next

\* What is answered is no staler than the TTL and the steps of a load.
LEMMA PlanAnswers ==
  ASSUME PlanIInv
  PROVE  E!PlanStaleForOneTTL
<1> SUFFICES ASSUME NEW r \in PlanAskers, E!Answer(r)
             PROVE  /\ \A doc \in E!Documents :
                          LET v == asks[r].value.read[doc]
                          IN  v >= 0 /\ v # db.version[doc]
                                 => now - db.replacedAt[doc][v] <= PlanTTL + 4 * MaxWait
                    /\ asks[r].value.operational => now - PeriodEnd < PlanTTL + MaxWait
  BY DEF E!PlanStaleForOneTTL
<1>1. /\ asks[r].pc = "answer" /\ asks[r] \in E!AskDocs /\ PlanAskKnown(db, asks[r], now)
      /\ db \in E!Databases
  BY DEF E!Answer, PlanIInv, PlanShapes
<1>2. PICK since \in Int, time \in Int : since = asks[r].since /\ time = now
  BY <1>1 DEF E!AskDocs, PlanIInv, PlanShapes
<1>3. /\ time - since <= MaxWait
      /\ Behind(db, asks[r].value.read, since, Lag("answer"))
      /\ asks[r].value.operational => since < PeriodEnd + PlanTTL
  BY <1>1, <1>2 DEF PlanAskKnown
<1>4. asks[r].value.operational => time - PeriodEnd < PlanTTL + MaxWait
  BY <1>3, PlanBounds
<1>5. ASSUME NEW doc \in E!Documents, NEW v, v = asks[r].value.read[doc],
             v >= 0, v # db.version[doc]
      PROVE  time - db.replacedAt[doc][v] <= PlanTTL + 4 * MaxWait
  <2>1. v \in 0..PlanEdits
    BY <1>1, <1>5 DEF E!AskDocs, E!Entitlements
  <2>2. PICK at \in Int : at = db.replacedAt[doc][v]
    BY <1>1, <2>1, PlanBounds DEF E!Databases
  <2>3. since <= at + (3 * MaxWait + PlanTTL)
    BY <1>3, <1>5, <2>2, Lags DEF Behind
  <2>4. time - at <= PlanTTL + 4 * MaxWait
    BY <1>3, <2>3, PlanBounds
  <2> QED
    BY <2>2, <2>4
<1> QED
  BY <1>2, <1>4, <1>5

\* The shapes of the plan's cache.
LEMMA PlanTypes ==
  ASSUME PlanIInv
  PROVE  E!TypeOK
<1>1. stream \in E!Streams
  BY SameStreams DEF PlanIInv, StreamIInv
<1>2. ASSUME NEW r \in PlanAskers, asks[r].pc = "answer", NEW doc \in E!Documents
      PROVE  asks[r].value.read[doc] \in E!Versions \/ E!Suspended(asks[r].value.read["restaurant"])
  <2>1. asks[r].value.read[doc] \in -1..PlanEdits /\ Whole(asks[r].value.read)
    BY <1>2 DEF PlanIInv, PlanShapes, PlanAskKnown, ReadSoFar, E!AskDocs, E!Entitlements
  <2> QED
    BY <2>1, PlanBounds DEF Whole
<1> QED
  BY <1>1, <1>2 DEF E!TypeOK, PlanIInv, PlanShapes

-------------------------------------------------------------------------------
(* Accounts and their tokens.                                              *)

\* A token is of a session of its account; one that ended is refused for its version or for
\* its session.
TokenKnown(d, t) ==
    /\ t.version <= d.user[t.user].version
    /\ d.session[t.sid].user = t.user
    /\ t.ended => t.version < d.user[t.user].version \/ d.session[t.sid].revoked

\* Requests that present a token, and those that will hand one out for their session.
Presents(ask) == ask.pc \in {"account", "session", "signed_in"}

Holds(ask) == Presents(ask) \/ A!KeepsSession(ask)

\* What a request has read is never newer than its account; whatever ended will be refused.
AccountAskKnown(d, ask) ==
    /\ ask.pc # "idle" => ask.user \in Users
    /\ Presents(ask) => ask.sid \in Sessions
    /\ ask.pc = "rotating" => ask.sid # NoSession
    /\ Holds(ask) => d.session[ask.sid].user = ask.user
    /\ ask.pc \in {"signing", "account"} => ask.version <= d.user[ask.user].version
    /\ (ask.pc = "signing" /\ ask.ended) => ask.version < d.user[ask.user].version
    /\ (ask.pc = "account" /\ ask.ended) =>
          ask.version < d.user[ask.user].version \/ d.session[ask.sid].revoked
    /\ ((ask.pc = "session" \/ A!KeepsSession(ask)) /\ ask.ended) => d.session[ask.sid].revoked

\* Tokens, and what requests hold, are known.
AccountsIInv ==
    /\ A!TypeOK
    /\ \A t \in tokens : TokenKnown(db, t)
    /\ \A r \in Requests : AccountAskKnown(db, asks[r])

\* Versions only grow, and sessions are nobody else's and are not revived.
Later(d, e) ==
    /\ \A u \in Users : d.user[u].version <= e.user[u].version
    /\ \A s \in Sessions :
          /\ d.session[s].user # NoUser => e.session[s].user = d.session[s].user
          /\ d.session[s].revoked => e.session[s].revoked

\* Assumptions on accounts.
LEMMA AccountBounds ==
  NoUser \notin Users /\ NoSession \notin Sessions /\ MaxVersion \in Nat
BY ServerAssumption DEF A!AccountsAssumption

\* What an account and a session of the database are.
LEMMA AccountRows ==
  ASSUME NEW d \in A!Databases
  PROVE  /\ d.user \in [Users -> A!UserDocs] /\ d.session \in [Sessions -> A!SessionDocs]
         /\ d = [user |-> d.user, session |-> d.session]
         /\ \A u \in Users :
               /\ d.user[u].version \in 0..MaxVersion /\ d.user[u].base \in A!BaseRoles
               /\ d.user[u].active \in BOOLEAN /\ d.user[u].version \in Int
         /\ \A s \in Sessions :
               d.session[s].user \in Users \cup {NoUser} /\ d.session[s].revoked \in BOOLEAN
BY AccountBounds DEF A!Databases, A!UserDocs, A!SessionDocs

\* A write of one field of a session.
LEMMA SessionWrites ==
  ASSUME NEW d \in A!Databases, NEW s \in Sessions, NEW x
  PROVE  /\ [d EXCEPT !.session[s].user = x]
               = [user |-> d.user,
                  session |-> [d.session EXCEPT ![s] = [user |-> x,
                                                        revoked |-> d.session[s].revoked]]]
         /\ [d EXCEPT !.session[s].revoked = x]
               = [user |-> d.user,
                  session |-> [d.session EXCEPT ![s] = [user |-> d.session[s].user,
                                                        revoked |-> x]]]
<1>1. PICK users, rows : /\ d \in [user : users, session : [Sessions -> rows]]
                         /\ rows = [user : Users \cup {NoUser}, revoked : BOOLEAN]
  BY DEF A!Databases, A!SessionDocs
<1> QED
  BY <1>1

\* A write of one field of an account.
LEMMA UserWrites ==
  ASSUME NEW d \in A!Databases, NEW u \in Users, NEW x
  PROVE  /\ [d EXCEPT !.user[u].version = x]
               = [session |-> d.session,
                  user |-> [d.user EXCEPT ![u] = [base |-> d.user[u].base, version |-> x,
                                                  active |-> d.user[u].active]]]
         /\ [d EXCEPT !.user[u].active = x]
               = [session |-> d.session,
                  user |-> [d.user EXCEPT ![u] = [base |-> d.user[u].base, active |-> x,
                                                  version |-> d.user[u].version]]]
         /\ [d EXCEPT !.user[u].base = x]
               = [session |-> d.session,
                  user |-> [d.user EXCEPT ![u] = [base |-> x, active |-> d.user[u].active,
                                                  version |-> d.user[u].version]]]
<1>1. PICK sessions, rows, versions :
        /\ d \in [user : [Users -> rows], session : sessions]
        /\ rows = [base : A!BaseRoles, active : BOOLEAN, version : versions]
  BY DEF A!Databases, A!UserDocs
<1> QED
  BY <1>1

\* Nothing is later than itself.
LEMMA LaterSelf ==
  ASSUME NEW d \in A!Databases
  PROVE  Later(d, d)
BY AccountRows DEF Later

\* A request that keeps a session keeps one of the sessions.
LEMMA KeptSession ==
  ASSUME NEW ask \in A!AskDocs, A!KeepsSession(ask)
  PROVE  ask.sid \in Sessions /\ ask.pc # "idle"
BY DEF A!AskDocs, A!KeepsSession

\* What is known of a token stays known.
LEMMA TokenStays ==
  ASSUME NEW d \in A!Databases, NEW e \in A!Databases, Later(d, e),
         NEW t \in A!Tokens, TokenKnown(d, t)
  PROVE  TokenKnown(e, t)
<1>1. t.user \in Users /\ t.sid \in Sessions /\ t.version \in Int
  BY AccountBounds DEF A!Tokens
<1>2. d.user[t.user].version \in Int /\ e.user[t.user].version \in Int
  BY <1>1, AccountRows
<1>3. /\ d.user[t.user].version <= e.user[t.user].version
      /\ d.session[t.sid].user # NoUser => e.session[t.sid].user = d.session[t.sid].user
      /\ d.session[t.sid].revoked => e.session[t.sid].revoked
  BY <1>1 DEF Later
<1> QED
  BY <1>1, <1>2, <1>3, AccountBounds DEF TokenKnown

\* What a request knows stays known.
LEMMA AskStays ==
  ASSUME NEW d \in A!Databases, NEW e \in A!Databases, Later(d, e),
         NEW ask \in A!AskDocs, AccountAskKnown(d, ask)
  PROVE  AccountAskKnown(e, ask)
<1>1. ask.version \in Int
  BY AccountBounds DEF A!AskDocs
<1>2. ASSUME ask.user \in Users
      PROVE  /\ d.user[ask.user].version \in Int /\ e.user[ask.user].version \in Int
             /\ d.user[ask.user].version <= e.user[ask.user].version
  BY <1>2, AccountRows DEF Later
<1>3. ASSUME ask.sid \in Sessions
      PROVE  /\ d.session[ask.sid].user # NoUser
                => e.session[ask.sid].user = d.session[ask.sid].user
             /\ d.session[ask.sid].revoked => e.session[ask.sid].revoked
  BY <1>3 DEF Later
<1>4. Holds(ask) => ask.sid \in Sessions /\ ask.user \in Users /\ ask.user # NoUser
  BY KeptSession, AccountBounds DEF Holds, Presents, AccountAskKnown
<1>5. /\ ask.pc # "idle" => ask.user \in Users
      /\ Presents(ask) => ask.sid \in Sessions
      /\ ask.pc = "rotating" => ask.sid # NoSession
  BY DEF AccountAskKnown
<1>6. Holds(ask) => e.session[ask.sid].user = ask.user
  BY <1>3, <1>4 DEF AccountAskKnown
<1>7. /\ ask.pc \in {"signing", "account"} => ask.version <= e.user[ask.user].version
      /\ (ask.pc = "signing" /\ ask.ended) => ask.version < e.user[ask.user].version
  BY <1>1, <1>2, <1>5 DEF AccountAskKnown
<1>8. (ask.pc = "account" /\ ask.ended) =>
          ask.version < e.user[ask.user].version \/ e.session[ask.sid].revoked
  <2> SUFFICES ASSUME ask.pc = "account", ask.ended
               PROVE  ask.version < e.user[ask.user].version \/ e.session[ask.sid].revoked
    OBVIOUS
  <2>1. ask.user \in Users /\ ask.sid \in Sessions
    BY <1>5 DEF Presents
  <2>2. ask.version < d.user[ask.user].version \/ d.session[ask.sid].revoked
    BY DEF AccountAskKnown
  <2> QED
    BY <1>1, <1>2, <1>3, <2>1, <2>2
<1>9. ((ask.pc = "session" \/ A!KeepsSession(ask)) /\ ask.ended) => e.session[ask.sid].revoked
  BY <1>3, <1>4 DEF AccountAskKnown, Holds, Presents
<1> QED
  BY <1>5, <1>6, <1>7, <1>8, <1>9 DEF AccountAskKnown

\* Nobody has signed in.
LEMMA AccountsInit ==
  ASSUME A!Init
  PROVE  AccountsIInv
<1>1. tokens = {} /\ asks = [r \in Requests |-> A!NoAsk]
  BY DEF A!Init
<1>2. A!NoAsk \in A!AskDocs /\ A!NoAsk.pc = "idle"
  BY AccountBounds DEF A!NoAsk, A!AskDocs, A!BaseRoles
<1>3. db \in A!Databases
  <2>1. PICK users, sessions :
          /\ users \in [Users -> [base : A!BaseRoles, active : {TRUE}, version : {0}]]
          /\ sessions = [s \in Sessions |-> [user |-> NoUser, revoked |-> FALSE]]
          /\ db = [user |-> users, session |-> sessions]
    BY DEF A!Init
  <2>2. users \in [Users -> A!UserDocs]
    <3>1. \A u \in Users : users[u] \in [base : A!BaseRoles, active : {TRUE}, version : {0}]
      BY <2>1
    <3>2. 0 \in 0..MaxVersion
      BY AccountBounds
    <3>3. ASSUME NEW u \in Users
          PROVE  users[u] \in A!UserDocs
      <4>1. PICK base \in A!BaseRoles : users[u] = [base |-> base, active |-> TRUE, version |-> 0]
        BY <3>1
      <4> QED
        BY <3>2, <4>1 DEF A!UserDocs
    <3> QED
      BY <2>1, <3>3
  <2>3. sessions \in [Sessions -> A!SessionDocs]
    BY <2>1 DEF A!SessionDocs
  <2> QED
    BY <2>1, <2>2, <2>3 DEF A!Databases
<1>4. A!TypeOK
  BY <1>1, <1>2, <1>3 DEF A!TypeOK
<1>5. \A r \in Requests : AccountAskKnown(db, asks[r])
  BY <1>1, <1>2 DEF AccountAskKnown, Holds, Presents, A!KeepsSession
<1> QED
  BY <1>1, <1>4, <1>5 DEF AccountsIInv

\* One request takes a step: no more tokens than one.
LEMMA AccountsMove ==
  ASSUME AccountsIInv, NEW r \in Requests, NEW ask \in A!AskDocs, A!At(r, ask),
         NEW d, d = db', d \in A!Databases, Later(db, d), AccountAskKnown(d, ask),
         \A t \in tokens' \ tokens : t \in A!Tokens /\ TokenKnown(d, t)
  PROVE  AccountsIInv'
<1>1. /\ db \in A!Databases /\ tokens \subseteq A!Tokens
      /\ asks \in [Requests -> A!AskDocs] /\ asks' = [asks EXCEPT ![r] = ask]
  BY DEF AccountsIInv, A!TypeOK, A!At
<1>2. asks' \in [Requests -> A!AskDocs]
  BY <1>1
<1>3. \A t \in tokens : t \in A!Tokens /\ TokenKnown(d, t)
  BY <1>1, TokenStays DEF AccountsIInv
<1>4. \A q \in Requests : AccountAskKnown(d, asks[q])
  BY <1>1, AskStays DEF AccountsIInv
<1>5. \A q \in Requests : AccountAskKnown(d, asks'[q])
  BY <1>1, <1>4
<1>6. \A t \in tokens' : t \in A!Tokens /\ TokenKnown(d, t)
  BY <1>3
<1>7. A!TypeOK'
  BY <1>2, <1>6 DEF A!TypeOK
<1> QED
  BY <1>5, <1>6, <1>7 DEF AccountsIInv

\* A request that leaves the documents alone.
LEMMA AccountsAsk ==
  ASSUME AccountsIInv, NEW r \in Requests, NEW ask \in A!AskDocs, A!At(r, ask),
         db' = db, AccountAskKnown(db, ask),
         \A t \in tokens' \ tokens : t \in A!Tokens /\ TokenKnown(db, t)
  PROVE  AccountsIInv'
<1>1. db \in A!Databases
  BY DEF AccountsIInv, A!TypeOK
<1>2. PICK d : d = db
  OBVIOUS
<1>3. d = db' /\ d \in A!Databases /\ Later(db, d) /\ AccountAskKnown(d, ask)
  BY <1>1, <1>2, LaterSelf
<1>4. \A t \in tokens' \ tokens : t \in A!Tokens /\ TokenKnown(d, t)
  BY <1>2
<1> QED
  BY <1>3, <1>4, AccountsMove

\* A request that is over knows nothing.
LEMMA NobodyAsks ==
  /\ A!NoAsk \in A!AskDocs /\ \A d : AccountAskKnown(d, A!NoAsk)
<1>1. A!NoAsk \in A!AskDocs /\ A!NoAsk.pc = "idle"
  BY AccountBounds DEF A!NoAsk, A!AskDocs, A!BaseRoles
<1> QED
  BY <1>1 DEF AccountAskKnown, Holds, Presents, A!KeepsSession

\* A token that is signed carries what its request has read.
LEMMA SignedIs ==
  ASSUME NEW ask
  PROVE  /\ A!Signed(ask) = [user |-> ask.user, base |-> ask.base, version |-> ask.version,
                             sid |-> ask.sid, ended |-> ask.ended]
         /\ A!Signed(ask).user = ask.user /\ A!Signed(ask).version = ask.version
         /\ A!Signed(ask).sid = ask.sid /\ A!Signed(ask).ended = ask.ended
BY DEF A!Signed

\* Signing in, and being let in or not.
LEMMA AuthKeeps ==
  ASSUME AccountsIInv, NEW r \in Requests,
         \/ \E u \in Users : A!Login(r, u)
         \/ \E s \in Sessions : A!CreateDeviceSession(r, s)
         \/ \E t \in tokens : A!Present(r, t)
         \/ A!ResolvePrincipal(r) \/ A!Accepted(r) \/ A!Refused(r) \/ A!Leave(r)
         \/ A!LogoutAll(r)
  PROVE  AccountsIInv'
<1>1. /\ db \in A!Databases /\ tokens \subseteq A!Tokens /\ asks[r] \in A!AskDocs
      /\ AccountAskKnown(db, asks[r])
  BY DEF AccountsIInv, A!TypeOK
<1>2. ASSUME NEW u \in Users, A!Login(r, u)
      PROVE  AccountsIInv'
  <2>1. PICK ask : ask = [A!NoAsk EXCEPT !.pc = "signing", !.user = u, !.base = db.user[u].base,
                                         !.version = db.user[u].version]
    OBVIOUS
  <2>2. ask = [pc |-> "signing", user |-> u, base |-> db.user[u].base,
               version |-> db.user[u].version, sid |-> NoSession, ended |-> FALSE]
    BY <2>1 DEF A!NoAsk
  <2>3. db.user[u].base \in A!BaseRoles /\ db.user[u].version \in 0..MaxVersion
    BY <1>1, AccountRows
  <2>4. ask \in A!AskDocs
    BY <2>2, <2>3 DEF A!AskDocs
  <2>5. /\ ask.pc = "signing" /\ ask.user = u /\ ask.version = db.user[u].version
        /\ ask.ended = FALSE
    BY <2>2
  <2>6. AccountAskKnown(db, ask)
    BY <2>3, <2>5, AccountBounds DEF AccountAskKnown, Holds, Presents, A!KeepsSession
  <2> QED
    BY <1>2, <2>1, <2>4, <2>6, AccountsAsk DEF A!Login
<1>3. ASSUME NEW s \in Sessions, A!CreateDeviceSession(r, s)
      PROVE  AccountsIInv'
  <2>1. /\ asks[r].pc = "signing" /\ db.session[s].user = NoUser
        /\ db' = [db EXCEPT !.session[s].user = asks[r].user]
        /\ tokens' = tokens \cup {A!Signed([asks[r] EXCEPT !.sid = s])}
        /\ A!At(r, A!NoAsk)
    BY <1>3 DEF A!CreateDeviceSession
  <2>2. asks[r].user \in Users /\ asks[r].version \in 0..MaxVersion /\ asks[r].base \in A!BaseRoles
        /\ asks[r].ended \in BOOLEAN
    BY <1>1, <2>1 DEF AccountAskKnown, A!AskDocs
  <2>3. PICK row, sessions, d :
           /\ row = [user |-> asks[r].user, revoked |-> db.session[s].revoked]
           /\ sessions = [db.session EXCEPT ![s] = row]
           /\ d = [user |-> db.user, session |-> sessions]
    OBVIOUS
  <2>4. d = db'
    BY <1>1, <2>1, <2>3, SessionWrites
  <2>5. row \in A!SessionDocs /\ row.user = asks[r].user /\ row.revoked = db.session[s].revoked
    BY <1>1, <2>2, <2>3, AccountRows DEF A!SessionDocs
  <2>6. /\ sessions \in [Sessions -> A!SessionDocs] /\ sessions[s] = row
        /\ \A x \in Sessions : x # s => sessions[x] = db.session[x]
    BY <1>1, <2>3, <2>5, AccountRows
  <2>7. d \in A!Databases /\ d.user = db.user /\ d.session = sessions
    BY <1>1, <2>3, <2>6, AccountRows DEF A!Databases
  <2>8. Later(db, d)
    BY <1>1, <2>1, <2>5, <2>6, <2>7, AccountRows DEF Later
  <2>9. ASSUME NEW t \in tokens' \ tokens
        PROVE  t \in A!Tokens /\ TokenKnown(d, t)
    <3>1. PICK ask : ask = [asks[r] EXCEPT !.sid = s]
      OBVIOUS
    <3>2. /\ ask.user = asks[r].user /\ ask.base = asks[r].base /\ ask.version = asks[r].version
          /\ ask.sid = s /\ ask.ended = asks[r].ended
      BY <1>1, <3>1 DEF A!AskDocs
    <3>3. t = A!Signed(ask)
      BY <2>1, <2>9, <3>1
    <3>4. /\ t = [user |-> asks[r].user, base |-> asks[r].base, version |-> asks[r].version,
                  sid |-> s, ended |-> asks[r].ended]
          /\ t.user = asks[r].user /\ t.version = asks[r].version /\ t.sid = s
          /\ t.ended = asks[r].ended
      BY <3>2, <3>3, SignedIs
    <3>5. t \in A!Tokens
      BY <2>2, <3>4 DEF A!Tokens
    <3>6. /\ asks[r].version <= db.user[asks[r].user].version
          /\ asks[r].ended => asks[r].version < db.user[asks[r].user].version
      BY <1>1, <2>1 DEF AccountAskKnown
    <3>7. TokenKnown(d, t)
      BY <2>5, <2>6, <2>7, <3>4, <3>6 DEF TokenKnown
    <3> QED
      BY <3>5, <3>7
  <2> QED
    BY <2>1, <2>4, <2>7, <2>8, <2>9, NobodyAsks, AccountsMove
<1>4. ASSUME NEW t \in tokens, A!Present(r, t)
      PROVE  AccountsIInv'
  <2>1. PICK ask : ask = [pc |-> "account", user |-> t.user, base |-> t.base,
                          version |-> t.version, sid |-> t.sid, ended |-> t.ended]
    OBVIOUS
  <2>2. t \in A!Tokens /\ TokenKnown(db, t)
    BY <1>1 DEF AccountsIInv
  <2>3. /\ t.user \in Users /\ t.sid \in Sessions
        /\ ask.pc = "account" /\ ask.user = t.user /\ ask.version = t.version
        /\ ask.sid = t.sid /\ ask.ended = t.ended
    BY <2>1, <2>2 DEF A!Tokens
  <2>4. ask \in A!AskDocs
    BY <2>1, <2>2 DEF A!AskDocs, A!Tokens
  <2>5. AccountAskKnown(db, ask)
    BY <2>2, <2>3 DEF AccountAskKnown, TokenKnown, Holds, Presents, A!KeepsSession
  <2> QED
    BY <1>4, <2>1, <2>4, <2>5, AccountsAsk DEF A!Present
<1>5. CASE A!ResolvePrincipal(r)
  <2>1. asks[r].pc = "account" /\ db' = db /\ tokens' = tokens
    BY <1>5 DEF A!ResolvePrincipal
  <2>2. CASE A!PrincipalFound(asks[r])
    <3>1. PICK ask : ask = [asks[r] EXCEPT !.pc = "session"]
      OBVIOUS
    <3>2. A!At(r, ask)
      BY <1>5, <2>2, <3>1 DEF A!ResolvePrincipal
    <3>3. /\ ask \in A!AskDocs /\ ask.pc = "session" /\ ask.user = asks[r].user
          /\ ask.sid = asks[r].sid /\ ask.ended = asks[r].ended
      BY <1>1, <3>1 DEF A!AskDocs
    <3>4. asks[r].version = db.user[asks[r].user].version
      BY <2>2 DEF A!PrincipalFound, A!SameVersion
    <3>5. /\ asks[r].user \in Users /\ asks[r].sid \in Sessions
          /\ db.session[asks[r].sid].user = asks[r].user
          /\ asks[r].ended =>
                asks[r].version < db.user[asks[r].user].version \/ db.session[asks[r].sid].revoked
      BY <1>1, <2>1 DEF AccountAskKnown, Holds, Presents
    <3>6. db.user[asks[r].user].version \in Int
      BY <1>1, <3>5, AccountRows
    <3>7. asks[r].ended => db.session[asks[r].sid].revoked
      BY <3>4, <3>5, <3>6
    <3>8. AccountAskKnown(db, ask)
      BY <3>3, <3>5, <3>7 DEF AccountAskKnown, Holds, Presents, A!KeepsSession
    <3> QED
      BY <2>1, <3>2, <3>3, <3>8, AccountsAsk
  <2>3. CASE ~A!PrincipalFound(asks[r])
    <3>1. A!At(r, A!NoAsk)
      BY <1>5, <2>3 DEF A!ResolvePrincipal
    <3> QED
      BY <2>1, <3>1, NobodyAsks, AccountsAsk
  <2> QED
    BY <2>2, <2>3
<1>6. CASE A!Accepted(r)
  <2>1. PICK ask : ask = [asks[r] EXCEPT !.pc = "signed_in"]
    OBVIOUS
  <2>2. /\ asks[r].pc = "session" /\ A!At(r, ask) /\ db' = db /\ tokens' = tokens
    BY <1>6, <2>1 DEF A!Accepted
  <2>3. /\ ask \in A!AskDocs /\ ask.pc = "signed_in" /\ ask.user = asks[r].user
        /\ ask.sid = asks[r].sid
    BY <1>1, <2>1 DEF A!AskDocs
  <2>4. AccountAskKnown(db, ask)
    BY <1>1, <2>2, <2>3 DEF AccountAskKnown, Holds, Presents, A!KeepsSession
  <2> QED
    BY <2>2, <2>3, <2>4, AccountsAsk
<1>7. CASE A!Refused(r) \/ A!Leave(r)
  BY <1>7, NobodyAsks, AccountsAsk DEF A!Refused, A!Leave
<1>8. CASE A!LogoutAll(r)
  <2>1. PICK ask :
          ask = [A!NoAsk EXCEPT !.pc = "revoking", !.user = asks[r].user, !.sid = NoSession]
    OBVIOUS
  <2>2. /\ asks[r].pc = "signed_in" /\ A!At(r, ask) /\ db' = db /\ tokens' = tokens
    BY <1>8, <2>1 DEF A!LogoutAll, A!Revoking
  <2>3. ask = [pc |-> "revoking", user |-> asks[r].user, base |-> "manager", version |-> 0,
               sid |-> NoSession, ended |-> FALSE]
    BY <2>1 DEF A!NoAsk
  <2>4. asks[r].user \in Users
    BY <1>1, <2>2 DEF AccountAskKnown
  <2>5. ask \in A!AskDocs
    BY <2>3, <2>4, AccountBounds DEF A!AskDocs, A!BaseRoles
  <2>6. AccountAskKnown(db, ask)
    BY <2>3, <2>4 DEF AccountAskKnown, Holds, Presents, A!KeepsSession
  <2> QED
    BY <2>2, <2>5, <2>6, AccountsAsk
<1> QED
  BY <1>2, <1>3, <1>4, <1>5, <1>6, <1>7, <1>8

\* An account of which one field changes, its version growing, is a later one.
LEMMA UserLater ==
  ASSUME NEW d \in A!Databases, NEW u \in Users, NEW row \in A!UserDocs,
         d.user[u].version <= row.version,
         NEW e, e = [session |-> d.session, user |-> [d.user EXCEPT ![u] = row]]
  PROVE  /\ e \in A!Databases /\ Later(d, e) /\ e.session = d.session
         /\ e.user[u] = row
         /\ \A x \in Users : x # u => e.user[x] = d.user[x]
<1>1. PICK users : users = [d.user EXCEPT ![u] = row]
  OBVIOUS
<1>2. /\ users \in [Users -> A!UserDocs] /\ users[u] = row
      /\ \A x \in Users : x # u => users[x] = d.user[x]
  BY <1>1, AccountRows
<1>3. e \in A!Databases /\ e.session = d.session /\ e.user = users
  BY <1>1, <1>2, AccountRows DEF A!Databases
<1>4. Later(d, e)
  BY <1>2, <1>3, AccountRows DEF Later
<1> QED
  BY <1>2, <1>3, <1>4

\* Accounts are switched off, given another role or another password.
LEMMA AdminKeeps ==
  ASSUME AccountsIInv, NEW r \in Requests,
         \/ \E u \in Users :
               A!ResetPassword(r, u) \/ \E active \in BOOLEAN : A!SetAccountActive(r, u, active)
         \/ A!Rotate(r)
         \/ \E u \in Users, base \in A!BaseRoles : A!AssignUserRole(r, u, base)
         \/ A!SaveRole(r)
  PROVE  AccountsIInv'
<1>1. /\ db \in A!Databases /\ tokens \subseteq A!Tokens /\ asks[r] \in A!AskDocs
      /\ AccountAskKnown(db, asks[r])
  BY DEF AccountsIInv, A!TypeOK
<1>2. ASSUME NEW u \in Users, NEW sid \in Sessions \cup {NoSession}, NEW d \in A!Databases,
             sid # NoSession => d.session[sid].user = u
      PROVE  /\ [A!NoAsk EXCEPT !.pc = "revoking", !.user = u, !.sid = sid] \in A!AskDocs
             /\ AccountAskKnown(d, [A!NoAsk EXCEPT !.pc = "revoking", !.user = u, !.sid = sid])
  <2>1. PICK ask : ask = [A!NoAsk EXCEPT !.pc = "revoking", !.user = u, !.sid = sid]
    OBVIOUS
  <2>2. ask = [pc |-> "revoking", user |-> u, base |-> "manager", version |-> 0,
               sid |-> sid, ended |-> FALSE]
    BY <2>1 DEF A!NoAsk
  <2>3. ask \in A!AskDocs
    BY <2>2, AccountBounds DEF A!AskDocs, A!BaseRoles
  <2>4. AccountAskKnown(d, ask)
    BY <1>2, <2>2 DEF AccountAskKnown, Holds, Presents, A!KeepsSession
  <2> QED
    BY <2>1, <2>3, <2>4
<1>3. ASSUME NEW u \in Users, A!ResetPassword(r, u)
      PROVE  AccountsIInv'
  <2>1. PICK sid : sid = IF u = asks[r].user THEN asks[r].sid ELSE NoSession
    OBVIOUS
  <2>2. /\ asks[r].pc = "signed_in" /\ db' = db /\ tokens' = tokens
        /\ A!At(r, [A!NoAsk EXCEPT !.pc = "revoking", !.user = u, !.sid = sid])
    BY <1>3, <2>1 DEF A!ResetPassword, A!Revoking
  <2>3. sid \in Sessions \cup {NoSession} /\ (sid # NoSession => db.session[sid].user = u)
    BY <1>1, <2>1, <2>2 DEF AccountAskKnown, Holds, Presents
  <2>4. PICK ask : ask = [A!NoAsk EXCEPT !.pc = "revoking", !.user = u, !.sid = sid]
    OBVIOUS
  <2>5. ask \in A!AskDocs /\ AccountAskKnown(db, ask) /\ A!At(r, ask)
    BY <1>1, <1>2, <2>2, <2>3, <2>4
  <2> QED
    BY <2>2, <2>5, AccountsAsk
<1>4. ASSUME NEW u \in Users, NEW active \in BOOLEAN, A!SetAccountActive(r, u, active)
      PROVE  AccountsIInv'
  <2>1. /\ db' = [db EXCEPT !.user[u].active = active] /\ tokens' = tokens
        /\ A!At(r, [A!NoAsk EXCEPT !.pc = "revoking", !.user = u, !.sid = NoSession])
    BY <1>4 DEF A!SetAccountActive, A!Revoking
  <2>2. PICK row : row = [base |-> db.user[u].base, active |-> active,
                          version |-> db.user[u].version]
    OBVIOUS
  <2>3. /\ row \in A!UserDocs /\ row.version = db.user[u].version
        /\ db.user[u].version <= row.version
    BY <1>1, <2>2, AccountRows DEF A!UserDocs
  <2>4. PICK d : d = [session |-> db.session, user |-> [db.user EXCEPT ![u] = row]]
    OBVIOUS
  <2>5. d = db'
    BY <1>1, <2>1, <2>2, <2>4, UserWrites
  <2>6. d \in A!Databases /\ Later(db, d)
    BY <1>1, <2>3, <2>4, UserLater
  <2>7. PICK ask : ask = [A!NoAsk EXCEPT !.pc = "revoking", !.user = u, !.sid = NoSession]
    OBVIOUS
  <2>8. ask \in A!AskDocs /\ AccountAskKnown(d, ask) /\ A!At(r, ask)
    BY <1>2, <2>1, <2>6, <2>7
  <2> QED
    BY <2>1, <2>5, <2>6, <2>8, AccountsMove
<1>5. CASE A!Rotate(r)
  <2>1. /\ asks[r].pc = "rotating" /\ A!At(r, A!NoAsk) /\ db' = db
        /\ tokens' = tokens \cup
              {A!Signed([asks[r] EXCEPT !.base = db.user[asks[r].user].base,
                                        !.version = db.user[asks[r].user].version])}
    BY <1>5 DEF A!Rotate
  <2>2. /\ asks[r].user \in Users /\ A!KeepsSession(asks[r]) /\ Holds(asks[r])
        /\ db.session[asks[r].sid].user = asks[r].user
        /\ asks[r].ended => db.session[asks[r].sid].revoked
    BY <1>1, <2>1 DEF AccountAskKnown, Holds, A!KeepsSession
  <2>3. asks[r].sid \in Sessions /\ asks[r].ended \in BOOLEAN
    BY <1>1, <2>2, KeptSession DEF A!AskDocs
  <2>4. PICK base \in A!BaseRoles, version \in 0..MaxVersion :
           base = db.user[asks[r].user].base /\ version = db.user[asks[r].user].version
    BY <1>1, <2>2, AccountRows
  <2>5. PICK ask : ask = [asks[r] EXCEPT !.base = base, !.version = version]
    OBVIOUS
  <2>6. /\ ask.user = asks[r].user /\ ask.base = base /\ ask.version = version
        /\ ask.sid = asks[r].sid /\ ask.ended = asks[r].ended
    BY <1>1, <2>5 DEF A!AskDocs
  <2>7. PICK t : t = A!Signed(ask)
    OBVIOUS
  <2>8. /\ t = [user |-> asks[r].user, base |-> base, version |-> version,
                sid |-> asks[r].sid, ended |-> asks[r].ended]
        /\ t.user = asks[r].user /\ t.version = version /\ t.sid = asks[r].sid
        /\ t.ended = asks[r].ended
    BY <2>6, <2>7, SignedIs
  <2>9. t \in A!Tokens
    BY <2>2, <2>3, <2>8 DEF A!Tokens
  <2>10. TokenKnown(db, t)
    BY <2>2, <2>4, <2>8, AccountBounds DEF TokenKnown
  <2>11. tokens' = tokens \cup {t}
    BY <2>1, <2>4, <2>5, <2>7
  <2>12. \A x \in tokens' \ tokens : x \in A!Tokens /\ TokenKnown(db, x)
    BY <2>9, <2>10, <2>11
  <2> QED
    BY <2>1, <2>12, NobodyAsks, AccountsAsk
<1>6. ASSUME NEW u \in Users, NEW base \in A!BaseRoles, A!AssignUserRole(r, u, base)
      PROVE  AccountsIInv'
  <2>1. PICK ask : ask = [A!NoAsk EXCEPT !.pc = "assigning", !.user = u, !.base = base]
    OBVIOUS
  <2>2. A!At(r, ask) /\ db' = db /\ tokens' = tokens
    BY <1>6, <2>1 DEF A!AssignUserRole
  <2>3. ask = [pc |-> "assigning", user |-> u, base |-> base, version |-> 0,
               sid |-> NoSession, ended |-> FALSE]
    BY <2>1 DEF A!NoAsk
  <2>4. ask \in A!AskDocs
    BY <2>3, AccountBounds DEF A!AskDocs
  <2>5. AccountAskKnown(db, ask)
    BY <2>3 DEF AccountAskKnown, Holds, Presents, A!KeepsSession
  <2> QED
    BY <2>2, <2>4, <2>5, AccountsAsk
<1>7. CASE A!SaveRole(r)
  <2>1. PICK u, base : u = asks[r].user /\ base = asks[r].base
    OBVIOUS
  <2>2. /\ db' = [db EXCEPT !.user[u].base = base] /\ tokens' = tokens
        /\ A!At(r, A!NoAsk) /\ asks[r].pc = "assigning"
    BY <1>7, <2>1 DEF A!SaveRole
  <2>3. u \in Users /\ base \in A!BaseRoles
    BY <1>1, <2>1, <2>2 DEF AccountAskKnown, A!AskDocs
  <2>4. PICK row : row = [base |-> base, active |-> db.user[u].active,
                          version |-> db.user[u].version]
    OBVIOUS
  <2>5. row \in A!UserDocs /\ db.user[u].version <= row.version
    BY <1>1, <2>3, <2>4, AccountRows DEF A!UserDocs
  <2>6. PICK d : d = [session |-> db.session, user |-> [db.user EXCEPT ![u] = row]]
    OBVIOUS
  <2>7. d = db'
    BY <1>1, <2>2, <2>3, <2>4, <2>6, UserWrites
  <2>8. d \in A!Databases /\ Later(db, d)
    BY <1>1, <2>3, <2>5, <2>6, UserLater
  <2> QED
    BY <2>2, <2>7, <2>8, NobodyAsks, AccountsMove
<1> QED
  BY <1>3, <1>4, <1>5, <1>6, <1>7

\* Tokens and requests are ended of a session that is revoked, or of a version that is over.
LEMMA AccountsEnd ==
  ASSUME AccountsIInv, NEW r \in Requests, NEW ask \in A!AskDocs,
         NEW d, d = db', d \in A!Databases, Later(db, d), AccountAskKnown(d, ask),
         NEW over \in SUBSET tokens, NEW overdue \in SUBSET Requests,
         \A x \in tokens' : \E t \in tokens : x = [t EXCEPT !.ended = t.ended \/ t \in over],
         asks' = [q \in Requests |->
                     IF q = r THEN ask
                      ELSE [asks[q] EXCEPT !.ended = asks[q].ended \/ q \in overdue]],
         \A t \in over : (t \in A!Tokens /\ TokenKnown(db, t)) =>
               t.version < d.user[t.user].version \/ d.session[t.sid].revoked,
         \A q \in overdue : (asks[q] \in A!AskDocs /\ AccountAskKnown(db, asks[q])) =>
               \/ asks[q].pc = "signing" /\ asks[q].version < d.user[asks[q].user].version
               \/ A!KeepsSession(asks[q]) /\ d.session[asks[q].sid].revoked
  PROVE  AccountsIInv'
<1>1. /\ db \in A!Databases /\ tokens \subseteq A!Tokens /\ asks \in [Requests -> A!AskDocs]
      /\ \A t \in tokens : TokenKnown(db, t)
      /\ \A q \in Requests : AccountAskKnown(db, asks[q])
  BY DEF AccountsIInv, A!TypeOK
<1>2. ASSUME NEW t \in tokens'
      PROVE  t \in A!Tokens /\ TokenKnown(d, t)
  <2>1. PICK x \in tokens : t = [x EXCEPT !.ended = x.ended \/ x \in over]
    BY <1>2
  <2>2. x \in A!Tokens /\ TokenKnown(db, x) /\ TokenKnown(d, x)
    BY <1>1, TokenStays
  <2>3. PICK ended \in BOOLEAN : ended = (x.ended \/ x \in over)
    OBVIOUS
  <2>4. t = [x EXCEPT !.ended = ended]
    BY <2>1, <2>3
  <2>5. /\ t \in A!Tokens /\ t.user = x.user /\ t.version = x.version /\ t.sid = x.sid
        /\ t.ended = ended
    BY <2>2, <2>4 DEF A!Tokens
  <2>6. x \in over => x.version < d.user[x.user].version \/ d.session[x.sid].revoked
    BY <2>2
  <2>7. t.ended => t.version < d.user[t.user].version \/ d.session[t.sid].revoked
    BY <2>2, <2>3, <2>5, <2>6 DEF TokenKnown
  <2> QED
    BY <2>2, <2>5, <2>7 DEF TokenKnown
<1>3. ASSUME NEW q \in Requests
      PROVE  asks'[q] \in A!AskDocs /\ AccountAskKnown(d, asks'[q])
  <2>1. CASE q = r
    BY <2>1
  <2>2. CASE q # r
    <3>1. PICK x : x = asks[q]
      OBVIOUS
    <3>2. x \in A!AskDocs /\ AccountAskKnown(db, x) /\ AccountAskKnown(d, x)
      BY <1>1, <3>1, AskStays
    <3>3. PICK ended \in BOOLEAN : ended = (x.ended \/ q \in overdue)
      OBVIOUS
    <3>4. asks'[q] = [x EXCEPT !.ended = ended]
      BY <2>2, <3>1, <3>3
    <3>5. PICK y : y = [x EXCEPT !.ended = ended]
      OBVIOUS
    <3>6. /\ y \in A!AskDocs /\ y.pc = x.pc /\ y.user = x.user /\ y.version = x.version
          /\ y.sid = x.sid /\ y.ended = ended
      BY <3>2, <3>5 DEF A!AskDocs
    <3>7. q \in overdue =>
             \/ x.pc = "signing" /\ x.version < d.user[x.user].version
             \/ A!KeepsSession(x) /\ d.session[x.sid].revoked
      BY <3>1, <3>2
    <3>8. y.ended => x.ended \/ q \in overdue
      BY <3>3, <3>6
    <3>9. AccountAskKnown(d, y)
      BY <3>2, <3>6, <3>7, <3>8 DEF AccountAskKnown, Holds, Presents, A!KeepsSession
    <3> QED
      BY <3>4, <3>5, <3>6, <3>9
  <2> QED
    BY <2>1, <2>2
<1>4. A!TypeOK'
  <2>1. asks' \in [Requests -> A!AskDocs]
    BY <1>3
  <2>2. tokens' \subseteq A!Tokens
    BY <1>2
  <2> QED
    BY <2>1, <2>2 DEF A!TypeOK
<1> QED
  BY <1>2, <1>3, <1>4 DEF AccountsIInv

\* Signing out: the session is revoked, and whatever is of it has ended.
LEMMA LogoutKeeps ==
  ASSUME AccountsIInv, NEW r \in Requests, A!Logout(r)
  PROVE  AccountsIInv'
<1>1. /\ db \in A!Databases /\ asks[r] \in A!AskDocs /\ AccountAskKnown(db, asks[r])
  BY DEF AccountsIInv, A!TypeOK
<1>2. PICK sid : sid = asks[r].sid
  OBVIOUS
<1>3. asks[r].pc = "signed_in" /\ db' = [db EXCEPT !.session[sid].revoked = TRUE]
  BY <1>2 DEF A!Logout
<1>4. sid \in Sessions
  BY <1>1, <1>2, <1>3 DEF AccountAskKnown, Presents
<1>5. PICK row, sessions, d :
         /\ row = [user |-> db.session[sid].user, revoked |-> TRUE]
         /\ sessions = [db.session EXCEPT ![sid] = row]
         /\ d = [user |-> db.user, session |-> sessions]
  OBVIOUS
<1>6. d = db'
  BY <1>1, <1>3, <1>4, <1>5, SessionWrites
<1>7. row \in A!SessionDocs /\ row.user = db.session[sid].user /\ row.revoked = TRUE
  BY <1>1, <1>4, <1>5, AccountRows DEF A!SessionDocs
<1>8. /\ sessions \in [Sessions -> A!SessionDocs] /\ sessions[sid] = row
      /\ \A x \in Sessions : x # sid => sessions[x] = db.session[x]
  BY <1>1, <1>4, <1>5, <1>7, AccountRows
<1>9. d \in A!Databases /\ d.user = db.user /\ d.session = sessions
  BY <1>1, <1>5, <1>8, AccountRows DEF A!Databases
<1>10. Later(db, d)
  BY <1>1, <1>7, <1>8, <1>9, AccountRows DEF Later
<1>11. PICK over, overdue :
         /\ over = {t \in tokens : t.sid = sid}
         /\ overdue = {q \in Requests : A!KeepsSession(asks[q]) /\ asks[q].sid = sid}
  OBVIOUS
<1>12. \A x \in tokens' : \E t \in tokens : x = [t EXCEPT !.ended = t.ended \/ t \in over]
  <2>1. tokens' = {[t EXCEPT !.ended = t.ended \/ t.sid = sid] : t \in tokens}
    BY <1>2 DEF A!Logout, A!EndTokens
  <2>2. \A t \in tokens : (t.sid = sid) <=> t \in over
    BY <1>11
  <2>3. \A t \in tokens : [t EXCEPT !.ended = t.ended \/ t.sid = sid]
                             = [t EXCEPT !.ended = t.ended \/ t \in over]
    BY <2>2
  <2> SUFFICES ASSUME NEW x \in tokens'
               PROVE  \E t \in tokens : x = [t EXCEPT !.ended = t.ended \/ t \in over]
    OBVIOUS
  <2>4. PICK t \in tokens : x = [t EXCEPT !.ended = t.ended \/ t.sid = sid]
    BY <2>1
  <2>5. x = [t EXCEPT !.ended = t.ended \/ t \in over]
    BY <2>3, <2>4
  <2> QED
    BY <2>5
<1>13. asks' = [q \in Requests |->
                   IF q = r THEN A!NoAsk
                   ELSE [asks[q] EXCEPT !.ended = asks[q].ended \/ q \in overdue]]
  <2>1. asks' = [q \in Requests |->
                    IF q = r THEN A!NoAsk
                    ELSE [asks[q] EXCEPT !.ended = asks[q].ended
                             \/ (A!KeepsSession(asks[q]) /\ asks[q].sid = sid)]]
    BY <1>2 DEF A!Logout, A!EndAsks
  <2>2. \A q \in Requests : (A!KeepsSession(asks[q]) /\ asks[q].sid = sid) <=> q \in overdue
    BY <1>11
  <2>3. \A q \in Requests :
           [asks[q] EXCEPT !.ended = asks[q].ended
                                    \/ (A!KeepsSession(asks[q]) /\ asks[q].sid = sid)]
              = [asks[q] EXCEPT !.ended = asks[q].ended \/ q \in overdue]
    BY <2>2
  <2> QED
    BY <2>1, <2>3
<1>14. d.session[sid].revoked
  BY <1>7, <1>8, <1>9
<1>15. \A t \in over : d.session[t.sid].revoked
  BY <1>11, <1>14
<1>16. \A q \in overdue : A!KeepsSession(asks[q]) /\ d.session[asks[q].sid].revoked
  BY <1>11, <1>14
<1>17. over \in SUBSET tokens /\ overdue \in SUBSET Requests
  BY <1>11
<1> QED
  BY <1>6, <1>9, <1>10, <1>12, <1>13, <1>15, <1>16, <1>17, NobodyAsks, AccountsEnd

\* Everywhere signed out: whatever was read or issued is of an older version.
LEMMA RevokeKeeps ==
  ASSUME AccountsIInv, NEW r \in Requests, A!RevokeUserSessions(r)
  PROVE  AccountsIInv'
<1>1. /\ db \in A!Databases /\ asks[r] \in A!AskDocs /\ AccountAskKnown(db, asks[r])
  BY DEF AccountsIInv, A!TypeOK
<1>2. PICK u : u = asks[r].user
  OBVIOUS
<1>3. PICK version : version = db.user[u].version + 1
  OBVIOUS
<1>4. /\ asks[r].pc = "revoking" /\ db.user[u].version < MaxVersion
      /\ db' = [db EXCEPT !.user[u].version = version] /\ u \in Users
  <2>1. asks[r].pc = "revoking"
    BY DEF A!RevokeUserSessions
  <2> QED
    BY <1>1, <1>2, <1>3, <2>1 DEF A!RevokeUserSessions, AccountAskKnown
<1>5. PICK row : row = [base |-> db.user[u].base, active |-> db.user[u].active,
                        version |-> version]
  OBVIOUS
<1>6. PICK d : d = [session |-> db.session, user |-> [db.user EXCEPT ![u] = row]]
  OBVIOUS
<1>7. /\ row \in A!UserDocs /\ db.user[u].version <= row.version
      /\ db.user[u].version < row.version
  <2>1. version \in 0..MaxVersion /\ version > db.user[u].version
    BY <1>1, <1>3, <1>4, AccountRows, AccountBounds
  <2>2. row \in A!UserDocs /\ row.version = version
    BY <1>1, <1>4, <1>5, <2>1, AccountRows DEF A!UserDocs
  <2> QED
    BY <1>1, <1>4, <2>1, <2>2, AccountRows, AccountBounds
<1>8. /\ d \in A!Databases /\ Later(db, d) /\ d.session = db.session
      /\ d.user[u] = row
  <2>1. PICK old \in A!Databases : old = db
    BY <1>1
  <2>2. u \in Users /\ row \in A!UserDocs /\ old.user[u].version <= row.version
    BY <1>4, <1>7, <2>1
  <2>3. d = [session |-> old.session, user |-> [old.user EXCEPT ![u] = row]]
    BY <1>6, <2>1
  <2>4. d \in A!Databases /\ Later(old, d)
    BY <2>2, <2>3, UserLater
  <2>5. d.session = old.session /\ d.user[u] = row
    BY <2>2, <2>3, AccountRows
  <2> QED
    BY <2>1, <2>4, <2>5
<1>9. d = db'
  <2>1. db \in A!Databases /\ u \in Users /\ db' = [db EXCEPT !.user[u].version = version]
    BY <1>1, <1>4
  <2>2. PICK old \in A!Databases : old = db
    BY <2>1
  <2>3. [old EXCEPT !.user[u].version = version]
           = [session |-> old.session,
              user |-> [old.user EXCEPT ![u] = [base |-> old.user[u].base, version |-> version,
                                                active |-> old.user[u].active]]]
    BY <2>1, UserWrites
  <2> QED
    BY <1>5, <1>6, <2>1, <2>2, <2>3
<1>10. PICK ask : ask = [asks[r] EXCEPT !.pc = "closing"]
  OBVIOUS
<1>11. ask \in A!AskDocs /\ AccountAskKnown(d, ask)
  <2>1. /\ ask \in A!AskDocs /\ ask.pc = "closing" /\ ask.user = asks[r].user
        /\ ask.sid = asks[r].sid /\ ask.ended = asks[r].ended
    BY <1>1, <1>10 DEF A!AskDocs
  <2>2. A!KeepsSession(ask) => A!KeepsSession(asks[r])
    BY <1>4, <2>1 DEF A!KeepsSession
  <2> QED
    BY <1>1, <1>2, <1>4, <1>8, <2>1, <2>2 DEF AccountAskKnown, Holds, Presents
<1>12. PICK over, overdue :
         /\ over = {t \in tokens : t.user = u}
         /\ overdue = {q \in Requests : asks[q].pc = "signing" /\ asks[q].user = u}
  OBVIOUS
<1>13. \A x \in tokens' : \E t \in tokens : x = [t EXCEPT !.ended = t.ended \/ t \in over]
  <2>1. tokens' = {[t EXCEPT !.ended = t.ended \/ t.user = u] : t \in tokens}
    BY <1>2 DEF A!RevokeUserSessions, A!EndTokens
  <2>2. \A t \in tokens : (t.user = u) <=> t \in over
    BY <1>12
  <2>3. \A t \in tokens : [t EXCEPT !.ended = t.ended \/ t.user = u]
                             = [t EXCEPT !.ended = t.ended \/ t \in over]
    BY <2>2
  <2> SUFFICES ASSUME NEW x \in tokens'
               PROVE  \E t \in tokens : x = [t EXCEPT !.ended = t.ended \/ t \in over]
    OBVIOUS
  <2>4. PICK t \in tokens : x = [t EXCEPT !.ended = t.ended \/ t.user = u]
    BY <2>1
  <2>5. x = [t EXCEPT !.ended = t.ended \/ t \in over]
    BY <2>3, <2>4
  <2> QED
    BY <2>5
<1>14. asks' = [q \in Requests |->
                   IF q = r THEN ask
                   ELSE [asks[q] EXCEPT !.ended = asks[q].ended \/ q \in overdue]]
  <2>1. asks' = [q \in Requests |->
                    IF q = r THEN ask
                    ELSE [asks[q] EXCEPT !.ended = asks[q].ended
                             \/ (asks[q].pc = "signing" /\ asks[q].user = u)]]
    BY <1>2, <1>10 DEF A!RevokeUserSessions, A!EndAsks
  <2>2. \A q \in Requests : (asks[q].pc = "signing" /\ asks[q].user = u) <=> q \in overdue
    BY <1>12
  <2>3. \A q \in Requests :
           [asks[q] EXCEPT !.ended = asks[q].ended \/ (asks[q].pc = "signing" /\ asks[q].user = u)]
              = [asks[q] EXCEPT !.ended = asks[q].ended \/ q \in overdue]
    BY <2>2
  <2> QED
    BY <2>1, <2>3
<1>15. ASSUME NEW t \in over, t \in A!Tokens, TokenKnown(db, t)
       PROVE  t.version < d.user[t.user].version
  BY <1>1, <1>4, <1>7, <1>8, <1>12, <1>15, AccountRows, AccountBounds
     DEF TokenKnown, A!Tokens, A!UserDocs
<1>16. ASSUME NEW q \in overdue, asks[q] \in A!AskDocs, AccountAskKnown(db, asks[q])
       PROVE  asks[q].pc = "signing" /\ asks[q].version < d.user[asks[q].user].version
  BY <1>1, <1>4, <1>7, <1>8, <1>12, <1>16, AccountRows, AccountBounds
     DEF AccountAskKnown, A!AskDocs, A!UserDocs
<1>17. over \in SUBSET tokens /\ overdue \in SUBSET Requests
  BY <1>12
<1> QED
  BY <1>8, <1>9, <1>11, <1>13, <1>14, <1>15, <1>16, <1>17, AccountsEnd

\* The device sessions but the caller's own are revoked.
LEMMA CloseKeeps ==
  ASSUME AccountsIInv, NEW r \in Requests, A!RevokeAllDeviceSessions(r)
  PROVE  AccountsIInv'
<1>1. /\ db \in A!Databases /\ asks[r] \in A!AskDocs /\ AccountAskKnown(db, asks[r])
  BY DEF AccountsIInv, A!TypeOK
<1>2. PICK u, sid, closed :
         /\ u = asks[r].user /\ sid = asks[r].sid
         /\ closed = {s \in Sessions \ {sid} : db.session[s].user = u}
  OBVIOUS
<1>3. PICK sessions :
         sessions = [s \in Sessions |->
                        [db.session[s] EXCEPT !.revoked = db.session[s].revoked \/ s \in closed]]
  OBVIOUS
<1>4. /\ asks[r].pc = "closing" /\ db' = [db EXCEPT !.session = sessions]
  BY <1>2, <1>3 DEF A!RevokeAllDeviceSessions, A!Spared
<1>5. u \in Users
  BY <1>1, <1>2, <1>4 DEF AccountAskKnown
<1>6. ASSUME NEW s \in Sessions
      PROVE  /\ sessions[s] \in A!SessionDocs /\ sessions[s].user = db.session[s].user
             /\ db.session[s].revoked => sessions[s].revoked
             /\ s \in closed => sessions[s].revoked
  <2>1. db.session[s] \in [user : Users \cup {NoUser}, revoked : BOOLEAN]
    BY <1>1, AccountRows DEF A!SessionDocs
  <2>2. PICK revoked \in BOOLEAN : revoked = (db.session[s].revoked \/ s \in closed)
    OBVIOUS
  <2>3. sessions[s] = [db.session[s] EXCEPT !.revoked = revoked]
    BY <1>3, <2>2
  <2>4. sessions[s] = [user |-> db.session[s].user, revoked |-> revoked]
    BY <2>1, <2>3
  <2>5. sessions[s].user = db.session[s].user /\ sessions[s].revoked = revoked
    BY <2>4
  <2>6. sessions[s] \in A!SessionDocs
    BY <2>1, <2>4 DEF A!SessionDocs
  <2>7. (db.session[s].revoked => revoked) /\ (s \in closed => revoked)
    BY <2>2
  <2> QED
    BY <2>5, <2>6, <2>7
<1>7. PICK d : d = [user |-> db.user, session |-> sessions]
  OBVIOUS
<1>8. d = db'
  BY <1>1, <1>4, <1>7, AccountRows
<1>9. sessions \in [Sessions -> A!SessionDocs]
  BY <1>3, <1>6
<1>10. d \in A!Databases /\ d.user = db.user /\ d.session = sessions
  BY <1>1, <1>7, <1>9, AccountRows DEF A!Databases
<1>11. Later(db, d)
  BY <1>1, <1>6, <1>10, AccountRows DEF Later
<1>12. PICK ask : ask = IF sid = NoSession THEN A!NoAsk ELSE [asks[r] EXCEPT !.pc = "rotating"]
  OBVIOUS
<1>13. ask \in A!AskDocs /\ AccountAskKnown(d, ask)
  <2>1. CASE sid = NoSession
    BY <1>12, <2>1, NobodyAsks
  <2>2. CASE sid # NoSession
    <3>1. ask = [asks[r] EXCEPT !.pc = "rotating"]
      BY <1>12, <2>2
    <3>2. /\ ask \in A!AskDocs /\ ask.pc = "rotating" /\ ask.user = u
          /\ ask.sid = sid /\ ask.ended = asks[r].ended
      BY <1>1, <1>2, <3>1 DEF A!AskDocs
    <3>3. A!KeepsSession(asks[r]) /\ sid \in Sessions
      BY <1>1, <1>2, <1>4, <2>2, KeptSession DEF A!KeepsSession
    <3>4. db.session[sid].user = u /\ (asks[r].ended => db.session[sid].revoked)
      BY <1>1, <1>2, <3>3 DEF AccountAskKnown, Holds
    <3>5. d.session[sid].user = u /\ (asks[r].ended => d.session[sid].revoked)
      BY <1>6, <1>10, <3>3, <3>4
    <3> QED
      BY <1>5, <2>2, <3>2, <3>5 DEF AccountAskKnown, Holds, Presents, A!KeepsSession
  <2> QED
    BY <2>1, <2>2
<1>14. PICK over, overdue :
         /\ over = {t \in tokens : t.user = u /\ t.sid # sid}
         /\ overdue = {q \in Requests : /\ A!KeepsSession(asks[q])
                                        /\ asks[q].user = u /\ asks[q].sid # sid}
  OBVIOUS
<1>15. \A x \in tokens' : \E t \in tokens : x = [t EXCEPT !.ended = t.ended \/ t \in over]
  <2>1. tokens' = {[t EXCEPT !.ended = t.ended \/ (t.user = u /\ t.sid # sid)] : t \in tokens}
    BY <1>2 DEF A!RevokeAllDeviceSessions, A!EndTokens
  <2>2. \A t \in tokens : (t.user = u /\ t.sid # sid) <=> t \in over
    BY <1>14
  <2>3. \A t \in tokens : [t EXCEPT !.ended = t.ended \/ (t.user = u /\ t.sid # sid)]
                             = [t EXCEPT !.ended = t.ended \/ t \in over]
    BY <2>2
  <2> SUFFICES ASSUME NEW x \in tokens'
               PROVE  \E t \in tokens : x = [t EXCEPT !.ended = t.ended \/ t \in over]
    OBVIOUS
  <2>4. PICK t \in tokens : x = [t EXCEPT !.ended = t.ended \/ (t.user = u /\ t.sid # sid)]
    BY <2>1
  <2>5. x = [t EXCEPT !.ended = t.ended \/ t \in over]
    BY <2>3, <2>4
  <2> QED
    BY <2>5
<1>16. asks' = [q \in Requests |->
                   IF q = r THEN ask
                   ELSE [asks[q] EXCEPT !.ended = asks[q].ended \/ q \in overdue]]
  <2>1. asks' = [q \in Requests |->
                    IF q = r THEN ask
                    ELSE [asks[q] EXCEPT !.ended = asks[q].ended
                             \/ (A!KeepsSession(asks[q]) /\ asks[q].user = u /\ asks[q].sid # sid)]]
    BY <1>2, <1>12 DEF A!RevokeAllDeviceSessions, A!EndAsks
  <2>2. \A q \in Requests :
           (A!KeepsSession(asks[q]) /\ asks[q].user = u /\ asks[q].sid # sid) <=> q \in overdue
    BY <1>14
  <2>3. \A q \in Requests :
           [asks[q] EXCEPT !.ended = asks[q].ended
                      \/ (A!KeepsSession(asks[q]) /\ asks[q].user = u /\ asks[q].sid # sid)]
              = [asks[q] EXCEPT !.ended = asks[q].ended \/ q \in overdue]
    BY <2>2
  <2> QED
    BY <2>1, <2>3
<1>17. ASSUME NEW t \in over, t \in A!Tokens, TokenKnown(db, t)
       PROVE  d.session[t.sid].revoked
  <2>1. t.sid \in closed
    BY <1>2, <1>14, <1>17 DEF TokenKnown, A!Tokens
  <2> QED
    BY <1>2, <1>6, <1>10, <2>1
<1>18. ASSUME NEW q \in overdue, asks[q] \in A!AskDocs, AccountAskKnown(db, asks[q])
       PROVE  A!KeepsSession(asks[q]) /\ d.session[asks[q].sid].revoked
  <2>1. A!KeepsSession(asks[q]) /\ asks[q].user = u /\ asks[q].sid # sid
    BY <1>14, <1>18
  <2>2. asks[q].sid \in closed
    BY <1>2, <1>18, <2>1, KeptSession DEF AccountAskKnown, Holds
  <2> QED
    BY <1>2, <1>6, <1>10, <2>1, <2>2
<1>19. over \in SUBSET tokens /\ overdue \in SUBSET Requests
  BY <1>14
<1> QED
  BY <1>8, <1>10, <1>11, <1>13, <1>15, <1>16, <1>17, <1>18, <1>19, AccountsEnd

\* Every step keeps the invariant.
LEMMA AccountsStep ==
  ASSUME AccountsIInv, A!Next
  PROVE  AccountsIInv'
<1>1. PICK r \in Requests : A!AuthStep(r) \/ A!AccountStep(r) \/ A!RoleStep(r)
  BY DEF A!Next
<1>2. CASE A!AuthStep(r)
  BY <1>2, AuthKeeps, LogoutKeeps DEF A!AuthStep
<1>3. CASE A!AccountStep(r)
  BY <1>3, AdminKeeps, RevokeKeeps, CloseKeeps DEF A!AccountStep
<1>4. CASE A!RoleStep(r)
  BY <1>4, AdminKeeps DEF A!RoleStep
<1> QED
  BY <1>1, <1>2, <1>3, <1>4

\* Whoever is let in holds nothing that ended.
LEMMA AccountsAccept ==
  ASSUME AccountsIInv
  PROVE  A!RevokedStaysOut
<1> SUFFICES ASSUME NEW r \in Requests, A!Accepted(r)
             PROVE  ~asks[r].ended
  BY DEF A!RevokedStaysOut
<1>1. asks[r].pc = "session" /\ ~db.session[asks[r].sid].revoked /\ AccountAskKnown(db, asks[r])
  BY DEF A!Accepted, A!AssertSessionLive, AccountsIInv
<1> QED
  BY <1>1 DEF AccountAskKnown

-------------------------------------------------------------------------------
(* The sockets and their rooms.                                            *)

\* Somebody with what doc says of a socket may hear what is published: the join was under
\* way, or an assignment that there was since allows it.
Covered(w, doc, s) ==
    \/ s \in w.joining
    \/ \E held \in w.held :
          /\ held.user = doc.user /\ held.role = doc.role
          /\ held.role = "owner" \/ held.branch = w.branch

\* A socket in the room of what is published is covered, or yet to be checked or evicted.
SocketKnown(w, doc, s) ==
    /\ doc.pc # "on" => doc.room = NoDoc
    /\ (w # K!NoNews /\ doc.room = w.branch) => Covered(w, doc, s) \/ s \in w.todo \/ s \in w.stale

\* Whoever is about to join the room is covered.
JoinKnown(w, ask, docs) ==
    ask.pc = "joining" =>
        \A s \in ask.socket :
            /\ docs[s].pc # "new"
            /\ (w # K!NoNews /\ ask.branch = w.branch) => Covered(w, docs[s], s)

\* The assignments that there are have been noted, and one socket is evicted at a time.
NewsKnown(w, d) ==
    w # K!NoNews =>
        /\ w.branch \in Docs
        /\ \A u \in Staff :
              [user |-> u, role |-> d.user[u].role, branch |-> d.user[u].branch] \in w.held
        /\ \A s, t \in w.stale : s = t

\* Each version is a write.
VersionsCounted(d, edits) == \A u \in Staff : d.user[u].version <= edits

\* Who is in the room of what is published, or about to be, and why.
SocketIInv ==
    /\ K!TypeOK /\ VersionsCounted(db, now)
    /\ NewsKnown(work, db)
    /\ \A s \in Devices : SocketKnown(work, cache[s], s)
    /\ \A r \in Requests : JoinKnown(work, asks[r], cache)

\* Assumptions on sockets.
LEMMA SocketBounds ==
  NoDoc \notin Docs /\ MaxEdits \in Nat
BY ServerAssumption DEF K!SocketsAssumption

\* What the documents of this part are.
LEMMA SocketRows ==
  ASSUME K!TypeOK
  PROVE  /\ db.user \in [Staff -> K!UserDocs] /\ db.ended \in SUBSET Devices
         /\ db = [user |-> db.user, ended |-> db.ended] /\ db \in K!Databases
         /\ now \in 0..MaxEdits
         /\ cache \in [Devices -> K!SocketDocs]
         /\ asks \in [Requests -> K!AskDocs]
         /\ work \in K!NewsDocs
BY DEF K!TypeOK, K!Databases

\* What an account is.
LEMMA StaffRows ==
  ASSUME NEW users \in [Staff -> K!UserDocs], NEW u \in Staff
  PROVE  /\ users[u].role \in K!Roles /\ users[u].branch \in Docs
         /\ users[u].version \in 0..MaxEdits /\ users[u].version \in Int
         /\ users[u] = [role |-> users[u].role, branch |-> users[u].branch,
                        version |-> users[u].version]
BY SocketBounds DEF K!UserDocs

\* No ask, and no news, say anything.
LEMMA NobodyJoins ==
  /\ K!NoAsk \in K!AskDocs /\ \A w, docs : JoinKnown(w, K!NoAsk, docs)
  /\ K!NoNews \in K!NewsDocs /\ K!NoNews.branch = NoDoc
  /\ \A d : NewsKnown(K!NoNews, d)
<1>1. K!NoAsk \in K!AskDocs /\ K!NoAsk.pc = "idle"
  BY DEF K!NoAsk, K!AskDocs
<1>2. K!NoNews \in K!NewsDocs /\ K!NoNews.branch = NoDoc
  BY DEF K!NoNews, K!NewsDocs
<1> QED
  BY <1>1, <1>2 DEF JoinKnown, NewsKnown

\* Nobody is connected.
LEMMA SocketInit ==
  ASSUME K!Init
  PROVE  SocketIInv
<1>1. /\ now = 0 /\ asks = [r \in Requests |-> K!NoAsk] /\ work = K!NoNews
      /\ cache \in [Devices -> [pc : {"new"}, user : Staff, role : {"staff"}, version : {0},
                                room : {NoDoc}, data : {NoDoc}]]
  BY DEF K!Init
<1>2. 0 \in 0..MaxEdits
  BY SocketBounds
<1>3. PICK users : /\ users \in [Staff -> [role : K!Roles, branch : Docs, version : {0}]]
                   /\ db = [user |-> users, ended |-> {}]
  BY DEF K!Init
<1>4. ASSUME NEW u \in Staff
      PROVE  users[u] \in K!UserDocs /\ users[u].version = 0
  <2>1. PICK role \in K!Roles, b \in Docs : users[u] = [role |-> role, branch |-> b, version |-> 0]
    BY <1>3
  <2> QED
    BY <1>2, <2>1 DEF K!UserDocs
<1>5. db \in K!Databases /\ db.user = users
  BY <1>3, <1>4 DEF K!Databases
<1>6. ASSUME NEW s \in Devices
      PROVE  cache[s] \in K!SocketDocs /\ cache[s].pc # "on" /\ cache[s].room = NoDoc
  <2>1. PICK u \in Staff : cache[s] = [pc |-> "new", user |-> u, role |-> "staff", version |-> 0,
                                       room |-> NoDoc, data |-> NoDoc]
    BY <1>1
  <2> QED
    BY <1>2, <2>1 DEF K!SocketDocs, K!Roles
<1>7. K!TypeOK
  BY <1>1, <1>2, <1>5, <1>6, NobodyJoins DEF K!TypeOK
<1>8. VersionsCounted(db, now)
  BY <1>1, <1>4, <1>5 DEF VersionsCounted
<1>9. \A s \in Devices : SocketKnown(work, cache[s], s)
  BY <1>1, <1>6 DEF SocketKnown
<1>10. \A r \in Requests : JoinKnown(work, asks[r], cache)
  BY <1>1, NobodyJoins
<1> QED
  BY <1>1, <1>7, <1>8, <1>9, <1>10, NobodyJoins DEF SocketIInv

\* Sockets change rooms, but whose they are only until they are connected; no ask becomes one
\* that joins.
LEMMA SocketsTurn ==
  ASSUME SocketIInv, db' = db, now' = now, work' = work,
         NEW docs, cache' = docs, docs \in [Devices -> K!SocketDocs],
         \A s \in Devices :
            /\ docs[s].user = cache[s].user
            /\ cache[s].pc # "new" => docs[s].role = cache[s].role /\ docs[s].pc # "new"
            /\ SocketKnown(work, docs[s], s),
         asks' \in [Requests -> K!AskDocs],
         \A r \in Requests : asks'[r] = asks[r] \/ asks'[r].pc # "joining"
  PROVE  SocketIInv'
<1>1. K!TypeOK'
  BY DEF SocketIInv, K!TypeOK
<1>2. asks \in [Requests -> K!AskDocs]
  BY DEF SocketIInv, K!TypeOK
<1>3. PICK w, d, n : w = work /\ w = work' /\ d = db /\ d = db' /\ n = now /\ n = now'
  OBVIOUS
<1>4. VersionsCounted(d, n) /\ NewsKnown(w, d)
  BY <1>3 DEF SocketIInv
<1>5. ASSUME NEW r \in Requests
      PROVE  JoinKnown(w, asks'[r], docs)
  <2>1. CASE asks'[r].pc # "joining"
    BY <2>1 DEF JoinKnown
  <2>2. CASE asks'[r] = asks[r] /\ asks[r].pc = "joining"
    <3> SUFFICES ASSUME NEW s \in asks[r].socket
                 PROVE  /\ docs[s].pc # "new"
                        /\ (w # K!NoNews /\ asks[r].branch = w.branch) => Covered(w, docs[s], s)
      BY <2>2 DEF JoinKnown
    <3>1. s \in Devices
      BY <1>2 DEF K!AskDocs
    <3>2. /\ cache[s].pc # "new"
          /\ (w # K!NoNews /\ asks[r].branch = w.branch) => Covered(w, cache[s], s)
      BY <1>3, <2>2 DEF SocketIInv, JoinKnown
    <3>3. docs[s].user = cache[s].user /\ docs[s].role = cache[s].role /\ docs[s].pc # "new"
      BY <3>1, <3>2
    <3>4. Covered(w, cache[s], s) => Covered(w, docs[s], s)
      BY <3>3 DEF Covered
    <3> QED
      BY <3>2, <3>3, <3>4
  <2> QED
    BY <2>1, <2>2
<1> QED
  BY <1>1, <1>3, <1>4, <1>5 DEF SocketIInv

\* A request takes a step that changes no socket.
LEMMA SocketsAsk ==
  ASSUME SocketIInv, NEW r \in Requests, NEW ask \in K!AskDocs, K!At(r, ask),
         cache' = cache, work' = work, JoinKnown(work, ask, cache),
         NEW d, d = db', d \in K!Databases, NEW n \in 0..MaxEdits, n = now',
         VersionsCounted(d, n), NewsKnown(work, d)
  PROVE  SocketIInv'
<1>1. asks \in [Requests -> K!AskDocs] /\ asks' = [asks EXCEPT ![r] = ask]
  BY DEF SocketIInv, K!TypeOK, K!At
<1>2. asks' \in [Requests -> K!AskDocs]
  BY <1>1
<1>3. K!TypeOK'
  BY <1>2 DEF SocketIInv, K!TypeOK
<1>4. \A q \in Requests : JoinKnown(work, asks'[q], cache)
  BY <1>1 DEF SocketIInv
<1>5. PICK w, docs : w = work /\ w = work' /\ docs = cache /\ docs = cache'
  OBVIOUS
<1>6. /\ \A q \in Requests : JoinKnown(w, asks'[q], docs)
      /\ \A s \in Devices : SocketKnown(w, docs[s], s)
      /\ NewsKnown(w, d)
  BY <1>4, <1>5 DEF SocketIInv
<1> QED
  BY <1>3, <1>5, <1>6 DEF SocketIInv

\* The same of a request that writes nothing.
LEMMA SocketsAskOnly ==
  ASSUME SocketIInv, NEW r \in Requests, NEW ask \in K!AskDocs, K!At(r, ask),
         cache' = cache, work' = work, db' = db, now' = now, JoinKnown(work, ask, cache)
  PROVE  SocketIInv'
<1>1. PICK d, n : d = db /\ n = now
  OBVIOUS
<1>2. /\ d = db' /\ n = now' /\ d \in K!Databases /\ n \in 0..MaxEdits
      /\ VersionsCounted(d, n) /\ NewsKnown(work, d)
  BY <1>1 DEF SocketIInv, K!TypeOK
<1> QED
  BY <1>2, SocketsAsk

\* What leaves a room, or is off, is known of.
LEMMA LeavesKnown ==
  ASSUME K!TypeOK, NewsKnown(work, db), NEW s \in Devices, SocketKnown(work, cache[s], s)
  PROVE  /\ K!Off(cache[s]) \in K!SocketDocs /\ SocketKnown(work, K!Off(cache[s]), s)
         /\ K!Off(cache[s]).user = cache[s].user /\ K!Off(cache[s]).role = cache[s].role
         /\ K!Off(cache[s]).pc # "new"
         /\ \A b : /\ K!Left(cache[s], b) \in K!SocketDocs
                   /\ SocketKnown(work, K!Left(cache[s], b), s)
                   /\ K!Left(cache[s], b).user = cache[s].user
                   /\ K!Left(cache[s], b).role = cache[s].role
                   /\ K!Left(cache[s], b).pc = cache[s].pc
                   /\ K!Left(cache[s], b).room \in {cache[s].room, NoDoc}
                   /\ K!Left(cache[s], b).room = b => b = NoDoc
<1>1. cache[s] \in K!SocketDocs
  BY SocketRows
<1>2. work # K!NoNews => work.branch # NoDoc
  BY SocketBounds DEF NewsKnown
<1>3. PICK off : off = K!Off(cache[s])
  OBVIOUS
<1>4. /\ off \in K!SocketDocs /\ off.user = cache[s].user /\ off.role = cache[s].role
      /\ off.pc = "off" /\ off.room = NoDoc
  BY <1>1, <1>3 DEF K!Off, K!SocketDocs
<1>5. SocketKnown(work, off, s)
  BY <1>2, <1>4 DEF SocketKnown
<1>6. ASSUME NEW b
      PROVE  /\ K!Left(cache[s], b) \in K!SocketDocs
             /\ SocketKnown(work, K!Left(cache[s], b), s)
             /\ K!Left(cache[s], b).user = cache[s].user
             /\ K!Left(cache[s], b).role = cache[s].role
             /\ K!Left(cache[s], b).pc = cache[s].pc
             /\ K!Left(cache[s], b).room \in {cache[s].room, NoDoc}
             /\ K!Left(cache[s], b).room = b => b = NoDoc
  <2>1. PICK room : room = IF cache[s].room = b THEN NoDoc ELSE cache[s].room
    OBVIOUS
  <2>2. room \in Docs \cup {NoDoc} /\ room \in {cache[s].room, NoDoc} /\ (room = b => b = NoDoc)
    BY <1>1, <2>1 DEF K!SocketDocs
  <2>3. PICK doc : doc = [cache[s] EXCEPT !.room = room, !.data = NoDoc]
    OBVIOUS
  <2>4. doc = K!Left(cache[s], b)
    BY <2>1, <2>3 DEF K!Left
  <2>5. /\ doc \in K!SocketDocs /\ doc.user = cache[s].user /\ doc.role = cache[s].role
        /\ doc.pc = cache[s].pc /\ doc.room = room
    BY <1>1, <2>2, <2>3 DEF K!SocketDocs
  <2>6. SocketKnown(work, doc, s)
    <3>1. Covered(work, cache[s], s) => Covered(work, doc, s)
      BY <2>5 DEF Covered
    <3> QED
      BY <1>2, <2>2, <2>5, <3>1 DEF SocketKnown
  <2> QED
    BY <2>2, <2>4, <2>5, <2>6
<1> QED
  BY <1>3, <1>4, <1>5, <1>6

\* One socket changes: the others stay as they are.
LEMMA SocketsTurnOne ==
  ASSUME SocketIInv, db' = db, now' = now, work' = work,
         NEW s \in Devices, NEW doc \in K!SocketDocs,
         cache' = [cache EXCEPT ![s] = doc],
         doc.user = cache[s].user,
         cache[s].pc # "new" => doc.role = cache[s].role /\ doc.pc # "new",
         SocketKnown(work, doc, s),
         asks' \in [Requests -> K!AskDocs],
         \A r \in Requests : asks'[r] = asks[r] \/ asks'[r].pc # "joining"
  PROVE  SocketIInv'
<1>1. cache \in [Devices -> K!SocketDocs] /\ \A x \in Devices : SocketKnown(work, cache[x], x)
  BY DEF SocketIInv, K!TypeOK
<1>2. PICK docs : docs = [cache EXCEPT ![s] = doc]
  OBVIOUS
<1>3. /\ docs \in [Devices -> K!SocketDocs] /\ docs[s] = doc
      /\ \A x \in Devices : x # s => docs[x] = cache[x]
  BY <1>1, <1>2
<1>4. ASSUME NEW x \in Devices
      PROVE  /\ docs[x].user = cache[x].user
             /\ cache[x].pc # "new" => docs[x].role = cache[x].role /\ docs[x].pc # "new"
             /\ SocketKnown(work, docs[x], x)
  BY <1>1, <1>3
<1> QED
  BY <1>2, <1>3, <1>4, SocketsTurn

\* Connections come and go, and leave rooms.
LEMMA ConnectionKeeps ==
  ASSUME SocketIInv, NEW s \in Devices,
         \/ K!Handshake(s) \/ K!Connect(s) \/ K!Disconnect(s)
         \/ \E b \in Docs : K!LeaveBranch(s, b)
  PROVE  SocketIInv'
<1>1. /\ K!TypeOK /\ NewsKnown(work, db) /\ cache[s] \in K!SocketDocs
      /\ SocketKnown(work, cache[s], s) /\ asks \in [Requests -> K!AskDocs]
      /\ asks' \in [Requests -> K!AskDocs]
      /\ \A r \in Requests : asks'[r] = asks[r]
      /\ db' = db /\ now' = now /\ work' = work
  BY DEF SocketIInv, K!TypeOK, K!Handshake, K!Connect, K!Disconnect, K!LeaveBranch
<1>2. CASE K!Handshake(s)
  <2>1. PICK role, version : /\ role = db.user[cache[s].user].role
                             /\ version = db.user[cache[s].user].version
    OBVIOUS
  <2>2. cache[s].user \in Staff
    BY <1>1 DEF K!SocketDocs
  <2>3. role \in K!Roles /\ version \in 0..MaxEdits
    BY <1>1, <2>1, <2>2, SocketRows, StaffRows
  <2>4. PICK doc : doc = [cache[s] EXCEPT !.pc = "opening", !.role = role, !.version = version]
    OBVIOUS
  <2>5. cache[s].pc = "new" /\ cache' = [cache EXCEPT ![s] = doc]
    BY <1>2, <2>1, <2>4 DEF K!Handshake
  <2>6. /\ doc \in K!SocketDocs /\ doc.user = cache[s].user /\ doc.room = cache[s].room
        /\ doc.pc = "opening"
    BY <1>1, <2>3, <2>4 DEF K!SocketDocs
  <2>7. SocketKnown(work, doc, s)
    BY <1>1, <2>5, <2>6, SocketBounds DEF SocketKnown, NewsKnown
  <2> QED
    BY <1>1, <2>5, <2>6, <2>7, SocketsTurnOne
<1>3. CASE K!Connect(s)
  <2>1. PICK doc : doc = [cache[s] EXCEPT !.pc = "on"]
    OBVIOUS
  <2>2. cache[s].pc = "opening" /\ cache' = [cache EXCEPT ![s].pc = "on"]
    BY <1>3 DEF K!Connect
  <2>3. cache' = [cache EXCEPT ![s] = doc]
    BY <1>1, <2>1, <2>2, SocketRows
  <2>4. /\ doc \in K!SocketDocs /\ doc.user = cache[s].user /\ doc.room = cache[s].room
        /\ doc.pc = "on" /\ doc.role = cache[s].role
    BY <1>1, <2>1 DEF K!SocketDocs
  <2>5. SocketKnown(work, doc, s)
    BY <1>1, <2>2, <2>4, SocketBounds DEF SocketKnown, NewsKnown
  <2> QED
    BY <1>1, <2>3, <2>4, <2>5, SocketsTurnOne
<1>4. CASE K!Disconnect(s)
  <2>1. PICK doc : doc = K!Off(cache[s])
    OBVIOUS
  <2>2. cache' = [cache EXCEPT ![s] = doc]
    BY <1>4, <2>1 DEF K!Disconnect
  <2>3. /\ doc \in K!SocketDocs /\ doc.user = cache[s].user /\ doc.role = cache[s].role
        /\ doc.pc # "new" /\ SocketKnown(work, doc, s)
    BY <1>1, <2>1, LeavesKnown
  <2> QED
    BY <1>1, <2>2, <2>3, SocketsTurnOne
<1>5. ASSUME NEW b \in Docs, K!LeaveBranch(s, b)
      PROVE  SocketIInv'
  <2>1. PICK doc : doc = K!Left(cache[s], b)
    OBVIOUS
  <2>2. cache[s].pc = "on" /\ cache' = [cache EXCEPT ![s] = doc]
    BY <1>5, <2>1 DEF K!LeaveBranch
  <2>3. /\ doc \in K!SocketDocs /\ doc.user = cache[s].user /\ doc.role = cache[s].role
        /\ doc.pc = cache[s].pc /\ SocketKnown(work, doc, s)
    BY <1>1, <2>1, LeavesKnown
  <2> QED
    BY <1>1, <2>2, <2>3, SocketsTurnOne
<1> QED
  BY <1>2, <1>3, <1>4, <1>5

\* Joining: who may enter is assigned to the branch now, and whoever enters was granted it.
LEMMA JoinKeeps ==
  ASSUME SocketIInv, NEW r \in Requests,
         (\E s \in Devices, b \in Docs : K!StartJoin(r, s, b)) \/ K!FinishJoin(r)
  PROVE  SocketIInv'
<1>1. /\ K!TypeOK /\ NewsKnown(work, db) /\ asks \in [Requests -> K!AskDocs]
      /\ JoinKnown(work, asks[r], cache) /\ asks[r] \in K!AskDocs
  BY DEF SocketIInv, K!TypeOK
<1>2. ASSUME NEW s \in Devices, NEW b \in Docs, K!StartJoin(r, s, b)
      PROVE  SocketIInv'
  <2>1. PICK ask : ask = [K!NoAsk EXCEPT !.pc = "joining", !.socket = {s}, !.branch = b]
    OBVIOUS
  <2>2. /\ K!At(r, ask) /\ cache[s].pc = "on" /\ K!MayEnter(s, b)
        /\ db' = db /\ now' = now /\ cache' = cache /\ work' = work
    BY <1>2, <2>1 DEF K!StartJoin
  <2>3. ask = [pc |-> "joining", user |-> {}, socket |-> {s}, todo |-> {}, branch |-> b]
    BY <2>1 DEF K!NoAsk
  <2>4. ask \in K!AskDocs
    BY <2>3 DEF K!AskDocs
  <2>5. cache[s].user \in Staff
    BY <1>1, SocketRows DEF K!SocketDocs
  <2>6. PICK held : held = [user |-> cache[s].user, role |-> db.user[cache[s].user].role,
                            branch |-> db.user[cache[s].user].branch]
    OBVIOUS
  <2>7. /\ held.user = cache[s].user /\ held.role = cache[s].role
        /\ held.role = "owner" \/ held.branch = b
    BY <2>2, <2>6 DEF K!MayEnter, K!Grants, K!Assignment
  <2>8. work # K!NoNews => held \in work.held
    BY <1>1, <2>5, <2>6 DEF NewsKnown
  <2>9. JoinKnown(work, ask, cache)
    BY <2>2, <2>3, <2>7, <2>8 DEF JoinKnown, Covered
  <2> QED
    BY <2>2, <2>4, <2>9, SocketsAskOnly
<1>3. CASE K!FinishJoin(r)
  <2>1. /\ asks[r].pc = "joining" /\ K!At(r, K!NoAsk)
        /\ db' = db /\ now' = now /\ work' = work
    BY <1>3 DEF K!FinishJoin
  <2>2. PICK b : b = asks[r].branch
    OBVIOUS
  <2>3. PICK docs : docs = [s \in Devices |->
           IF s \in asks[r].socket /\ cache[s].pc = "on"
           THEN [cache[s] EXCEPT !.room = b, !.data = b] ELSE cache[s]]
    OBVIOUS
  <2>4. cache' = docs
    BY <1>3, <2>2, <2>3 DEF K!FinishJoin
  <2>5. b \in Docs \cup {NoDoc}
    BY <1>1, <2>2 DEF K!AskDocs
  <2>6. ASSUME NEW s \in Devices
        PROVE  /\ docs[s] \in K!SocketDocs /\ docs[s].user = cache[s].user
               /\ cache[s].pc # "new" => docs[s].role = cache[s].role /\ docs[s].pc # "new"
               /\ SocketKnown(work, docs[s], s)
    <3>1. cache[s] \in K!SocketDocs /\ SocketKnown(work, cache[s], s)
      BY <1>1, SocketRows DEF SocketIInv
    <3>2. CASE s \in asks[r].socket /\ cache[s].pc = "on"
      <4>1. PICK doc : doc = [cache[s] EXCEPT !.room = b, !.data = b]
        OBVIOUS
      <4>2. docs[s] = doc
        BY <2>3, <3>2, <4>1
      <4>3. /\ doc \in K!SocketDocs /\ doc.user = cache[s].user /\ doc.role = cache[s].role
            /\ doc.pc = "on" /\ doc.room = b
        BY <2>5, <3>1, <3>2, <4>1 DEF K!SocketDocs
      <4>4. (work # K!NoNews /\ b = work.branch) => Covered(work, cache[s], s)
        BY <1>1, <2>1, <2>2, <3>2 DEF JoinKnown
      <4>5. Covered(work, cache[s], s) => Covered(work, doc, s)
        BY <4>3 DEF Covered
      <4>6. SocketKnown(work, doc, s)
        BY <4>3, <4>4, <4>5 DEF SocketKnown
      <4> QED
        BY <4>2, <4>3, <4>6
    <3>3. CASE ~(s \in asks[r].socket /\ cache[s].pc = "on")
      <4>1. docs[s] = cache[s]
        BY <2>3, <3>3
      <4> QED
        BY <3>1, <4>1
    <3> QED
      BY <3>2, <3>3
  <2>7. docs \in [Devices -> K!SocketDocs]
    BY <2>3, <2>6
  <2>8. asks' = [asks EXCEPT ![r] = K!NoAsk]
    BY <2>1 DEF K!At
  <2>9. /\ asks' \in [Requests -> K!AskDocs]
        /\ \A q \in Requests : asks'[q] = asks[q] \/ asks'[q].pc # "joining"
    <3>1. K!NoAsk \in K!AskDocs /\ K!NoAsk.pc # "joining"
      BY NobodyJoins DEF K!NoAsk
    <3> QED
      BY <1>1, <2>8, <3>1
  <2> QED
    BY <2>1, <2>4, <2>6, <2>7, <2>9, SocketsTurn
<1> QED
  BY <1>2, <1>3

\* Accounts are written: an assignment that is saved has been noted.
LEMMA WritesKeep ==
  ASSUME SocketIInv, NEW r \in Requests,
         \/ \E u \in Staff, role \in K!Roles, b \in Docs : K!Assign(r, u, role, b)
         \/ \E u \in Staff : K!RevokeUserSessions(r, u)
         \/ \E s \in Devices : K!RevokeDeviceSession(r, s)
  PROVE  SocketIInv'
<1>1. /\ K!TypeOK /\ NewsKnown(work, db) /\ asks \in [Requests -> K!AskDocs]
      /\ VersionsCounted(db, now) /\ now \in 0..MaxEdits /\ db \in K!Databases
      /\ db.user \in [Staff -> K!UserDocs] /\ db.ended \in SUBSET Devices
      /\ db = [user |-> db.user, ended |-> db.ended]
  BY SocketRows DEF SocketIInv
<1>2. PICK n : n = now + 1
  OBVIOUS
<1>3. ASSUME now < MaxEdits
      PROVE  n \in 0..MaxEdits /\ n \in Int /\ now \in Int /\ now < n
  BY <1>1, <1>2, <1>3, SocketBounds
<1>4. ASSUME NEW pc \in {"assigned", "revoked"}, NEW u \in Staff
      PROVE  /\ [K!NoAsk EXCEPT !.pc = pc, !.user = {u}] \in K!AskDocs
             /\ \A w, docs : JoinKnown(w, [K!NoAsk EXCEPT !.pc = pc, !.user = {u}], docs)
  <2>1. PICK ask : ask = [K!NoAsk EXCEPT !.pc = pc, !.user = {u}]
    OBVIOUS
  <2>2. ask = [pc |-> pc, user |-> {u}, socket |-> {}, todo |-> {}, branch |-> NoDoc]
    BY <2>1 DEF K!NoAsk
  <2>3. ask \in K!AskDocs
    BY <2>2 DEF K!AskDocs
  <2>4. \A w, docs : JoinKnown(w, ask, docs)
    BY <2>2 DEF JoinKnown
  <2> QED
    BY <2>1, <2>3, <2>4
<1>5. ASSUME NEW s \in Devices, K!RevokeDeviceSession(r, s)
      PROVE  SocketIInv'
  <2>1. PICK u, ask, d : /\ u = cache[s].user
                         /\ ask = [K!NoAsk EXCEPT !.pc = "assigned", !.user = {u}]
                         /\ d = [user |-> db.user, ended |-> db.ended \cup {s}]
    OBVIOUS
  <2>2. /\ now < MaxEdits /\ now' = n /\ cache' = cache /\ work' = work /\ K!At(r, ask)
        /\ db' = [db EXCEPT !.ended = db.ended \cup {s}]
    BY <1>2, <1>5, <2>1 DEF K!RevokeDeviceSession
  <2>3. d = db'
    BY <1>1, <2>1, <2>2
  <2>4. d.user = db.user /\ d \in K!Databases
    BY <1>1, <2>1 DEF K!Databases
  <2>5. u \in Staff
    BY <1>1, <2>1, SocketRows DEF K!SocketDocs
  <2>6. ask \in K!AskDocs /\ JoinKnown(work, ask, cache)
    BY <1>4, <2>1, <2>5
  <2>7. VersionsCounted(d, n)
    <3>1. \A x \in Staff : db.user[x].version <= now /\ db.user[x].version \in Int
      BY <1>1, StaffRows DEF VersionsCounted
    <3> QED
      BY <1>3, <2>2, <2>4, <3>1 DEF VersionsCounted
  <2>8. NewsKnown(work, d)
    BY <1>1, <2>4 DEF NewsKnown
  <2> QED
    BY <1>3, <2>2, <2>3, <2>4, <2>6, <2>7, <2>8, SocketsAsk
<1>6. ASSUME NEW u \in Staff, K!RevokeUserSessions(r, u)
      PROVE  SocketIInv'
  <2>1. PICK ask, v, dead : /\ ask = [K!NoAsk EXCEPT !.pc = "revoked", !.user = {u}]
                            /\ v = db.user[u].version + 1
                            /\ dead = db.ended \cup {s \in Devices : cache[s].pc # "new"
                                                                     /\ cache[s].user = u}
    OBVIOUS
  <2>2. PICK row : row = [role |-> db.user[u].role, branch |-> db.user[u].branch, version |-> v]
    OBVIOUS
  <2>3. PICK users : users = [db.user EXCEPT ![u] = row]
    OBVIOUS
  <2>4. PICK d : d = [user |-> users, ended |-> dead]
    OBVIOUS
  <2>5. /\ now < MaxEdits /\ now' = n /\ cache' = cache /\ work' = work /\ K!At(r, ask)
        /\ db' = [user |-> [db.user EXCEPT ![u].version = v], ended |-> dead]
    BY <1>2, <1>6, <2>1 DEF K!RevokeUserSessions
  <2>6. [db.user EXCEPT ![u].version = v] = users
    <3>1. db.user \in [Staff -> [role : K!Roles, branch : Docs, version : 0..MaxEdits]]
      BY <1>1 DEF K!UserDocs
    <3> QED
      BY <2>2, <2>3, <3>1
  <2>7. d = db'
    BY <2>4, <2>5, <2>6
  <2>8. /\ db.user[u].role \in K!Roles /\ db.user[u].branch \in Docs
        /\ db.user[u].version \in 0..MaxEdits /\ db.user[u].version <= now
    BY <1>1, StaffRows DEF VersionsCounted
  <2>9. v \in 0..MaxEdits /\ v <= n
    BY <1>1, <1>2, <1>3, <2>1, <2>5, <2>8, SocketBounds
  <2>10. /\ row \in K!UserDocs /\ row.version = v
         /\ row.role = db.user[u].role /\ row.branch = db.user[u].branch
    BY <2>2, <2>8, <2>9 DEF K!UserDocs
  <2>11. /\ users \in [Staff -> K!UserDocs] /\ users[u] = row
         /\ \A x \in Staff : x # u => users[x] = db.user[x]
    BY <1>1, <2>3, <2>10
  <2>12. d \in K!Databases /\ d.user = users
    BY <1>1, <2>1, <2>4, <2>11 DEF K!Databases
  <2>13. VersionsCounted(d, n)
    <3> SUFFICES ASSUME NEW x \in Staff
                 PROVE  users[x].version <= n
      BY <2>12 DEF VersionsCounted
    <3>1. CASE x = u
      BY <2>9, <2>10, <2>11, <3>1
    <3>2. CASE x # u
      <4>1. users[x] = db.user[x] /\ db.user[x].version <= now /\ db.user[x].version \in Int
        BY <1>1, <2>11, <3>2, StaffRows DEF VersionsCounted
      <4> QED
        BY <1>3, <2>5, <4>1
    <3> QED
      BY <3>1, <3>2
  <2>14. NewsKnown(work, d)
    <3>1. \A x \in Staff : users[x].role = db.user[x].role /\ users[x].branch = db.user[x].branch
      BY <2>10, <2>11
    <3> QED
      BY <1>1, <2>12, <3>1 DEF NewsKnown
  <2>15. ask \in K!AskDocs /\ JoinKnown(work, ask, cache)
    BY <1>4, <2>1
  <2> QED
    BY <1>3, <2>5, <2>7, <2>12, <2>13, <2>14, <2>15, SocketsAsk
<1>7. ASSUME NEW u \in Staff, NEW role \in K!Roles, NEW b \in Docs, K!Assign(r, u, role, b)
      PROVE  SocketIInv'
  <2>1. PICK ask, held : /\ ask = [K!NoAsk EXCEPT !.pc = "assigned", !.user = {u}]
                         /\ held = [user |-> u, role |-> role, branch |-> b]
    OBVIOUS
  <2>2. PICK row : row = [db.user[u] EXCEPT !.role = role, !.branch = b]
    OBVIOUS
  <2>3. PICK users : users = [db.user EXCEPT ![u] = row]
    OBVIOUS
  <2>4. PICK d : d = [user |-> users, ended |-> db.ended]
    OBVIOUS
  <2>5. PICK w : w = IF work = K!NoNews THEN K!NoNews
                     ELSE [work EXCEPT !.held = work.held \cup {held}]
    OBVIOUS
  <2>6. /\ now < MaxEdits /\ now' = n /\ cache' = cache /\ work' = w /\ K!At(r, ask)
        /\ db' = [db EXCEPT !.user[u] = row]
    BY <1>2, <1>7, <2>1, <2>2, <2>5 DEF K!Assign
  <2>7. d = db'
    BY <1>1, <2>3, <2>4, <2>6
  <2>8. /\ row \in K!UserDocs /\ row.version = db.user[u].version
        /\ row.role = role /\ row.branch = b
    <3>1. db.user[u] \in K!UserDocs
      BY <1>1
    <3> QED
      BY <2>2, <3>1 DEF K!UserDocs
  <2>9. /\ users \in [Staff -> K!UserDocs] /\ users[u] = row
        /\ \A x \in Staff : x # u => users[x] = db.user[x]
    BY <1>1, <2>3, <2>8
  <2>10. d \in K!Databases /\ d.user = users
    BY <1>1, <2>4, <2>9 DEF K!Databases
  <2>11. VersionsCounted(d, n)
    <3>1. \A x \in Staff : users[x].version = db.user[x].version
      BY <2>8, <2>9
    <3>2. \A x \in Staff : db.user[x].version <= now /\ db.user[x].version \in Int
      BY <1>1, StaffRows DEF VersionsCounted
    <3> QED
      BY <1>3, <2>6, <2>10, <3>1, <3>2 DEF VersionsCounted
  <2>12. work \in K!NewsDocs
    BY <1>1, SocketRows
  <2>13. held \in [user : Staff, role : K!Roles, branch : Docs]
    BY <2>1
  <2>14. /\ w \in K!NewsDocs /\ w.branch = work.branch /\ w.todo = work.todo
         /\ w.stale = work.stale /\ w.joining = work.joining /\ work.held \subseteq w.held
         /\ w # K!NoNews => work # K!NoNews /\ held \in w.held
    <3>1. CASE work = K!NoNews
      BY <2>5, <2>12, <3>1
    <3>2. CASE work # K!NoNews
      <4>1. w = [work EXCEPT !.held = work.held \cup {held}]
        BY <2>5, <3>2
      <4> QED
        BY <2>12, <2>13, <3>2, <4>1 DEF K!NewsDocs
    <3> QED
      BY <3>1, <3>2
  <2>15. \A doc, s : Covered(work, doc, s) => Covered(w, doc, s)
    BY <2>14 DEF Covered
  <2>16. NewsKnown(w, d)
    <3> SUFFICES ASSUME w # K!NoNews, NEW x \in Staff
                 PROVE  [user |-> x, role |-> users[x].role, branch |-> users[x].branch] \in w.held
      BY <1>1, <2>10, <2>14 DEF NewsKnown
    <3>1. CASE x = u
      BY <2>1, <2>8, <2>9, <2>14, <3>1
    <3>2. CASE x # u
      BY <1>1, <2>9, <2>14, <3>2 DEF NewsKnown
    <3> QED
      BY <3>1, <3>2
  <2>17. ask \in K!AskDocs /\ JoinKnown(w, ask, cache)
    BY <1>4, <2>1
  <2>18. asks' = [asks EXCEPT ![r] = ask] /\ asks' \in [Requests -> K!AskDocs]
    BY <1>1, <2>6, <2>17 DEF K!At
  <2>19. ASSUME NEW q \in Requests
         PROVE  JoinKnown(w, asks'[q], cache)
    <3>1. CASE q = r
      BY <1>1, <2>17, <2>18, <3>1
    <3>2. CASE q # r
      <4>1. asks'[q] = asks[q] /\ JoinKnown(work, asks[q], cache)
        BY <1>1, <2>18, <3>2 DEF SocketIInv
      <4> QED
        BY <2>14, <2>15, <4>1 DEF JoinKnown
    <3> QED
      BY <3>1, <3>2
  <2>20. ASSUME NEW s \in Devices
         PROVE  SocketKnown(w, cache[s], s)
    <3>1. SocketKnown(work, cache[s], s)
      BY DEF SocketIInv
    <3> QED
      BY <2>14, <2>15, <3>1 DEF SocketKnown
  <2>21. K!TypeOK'
    BY <1>1, <1>3, <2>6, <2>7, <2>10, <2>14, <2>18 DEF K!TypeOK
  <2>22. PICK docs : docs = cache /\ docs = cache'
    BY <2>6
  <2> QED
    BY <2>6, <2>7, <2>11, <2>16, <2>19, <2>20, <2>21, <2>22 DEF SocketIInv
<1> QED
  BY <1>5, <1>6, <1>7

\* Sockets are refreshed one after the other, or ended.
LEMMA RefreshKeeps ==
  ASSUME SocketIInv, NEW r \in Requests,
         \/ \E s \in Devices : K!RefreshStep(r, s)
         \/ K!DisconnectUserSockets(r) \/ K!SocketsForUser(r) \/ K!Refreshed(r)
  PROVE  SocketIInv'
<1>1. /\ K!TypeOK /\ NewsKnown(work, db) /\ asks \in [Requests -> K!AskDocs]
      /\ asks[r] \in K!AskDocs /\ cache \in [Devices -> K!SocketDocs]
      /\ \A s \in Devices : SocketKnown(work, cache[s], s)
  BY SocketRows DEF SocketIInv, K!TypeOK
<1>2. ASSUME NEW ask \in K!AskDocs, ask.pc # "joining", K!At(r, ask)
      PROVE  /\ JoinKnown(work, ask, cache)
             /\ asks' \in [Requests -> K!AskDocs]
             /\ \A q \in Requests : asks'[q] = asks[q] \/ asks'[q].pc # "joining"
  BY <1>1, <1>2 DEF JoinKnown, K!At
<1>3. PICK on : on = [asks[r] EXCEPT !.pc = "refreshing", !.socket = {}, !.branch = NoDoc]
  OBVIOUS
<1>4. on \in K!AskDocs /\ on.pc = "refreshing"
  BY <1>1, <1>3 DEF K!AskDocs
<1>5. K!GoOn(r) => K!At(r, on)
  BY <1>3 DEF K!GoOn
<1>6. K!NoAsk \in K!AskDocs /\ K!NoAsk.pc = "idle"
  BY NobodyJoins DEF K!NoAsk
<1>7. ASSUME NEW s \in Devices, NEW doc \in K!SocketDocs, cache' = [cache EXCEPT ![s] = doc],
             doc.user = cache[s].user,
             cache[s].pc # "new" => doc.role = cache[s].role /\ doc.pc # "new",
             SocketKnown(work, doc, s), K!GoOn(r), db' = db, now' = now, work' = work
      PROVE  SocketIInv'
  BY <1>2, <1>4, <1>5, <1>7, SocketsTurnOne
<1>8. ASSUME NEW s \in Devices, K!RefreshStep(r, s)
      PROVE  SocketIInv'
  <2>1. CASE K!Resolve(r, s)
    <3>1. PICK pc \in {"known", "expired"} : pc = IF K!Resolves(s) THEN "known" ELSE "expired"
      OBVIOUS
    <3>2. PICK ask : ask = [asks[r] EXCEPT !.pc = pc, !.socket = {s}, !.todo = asks[r].todo \ {s}]
      OBVIOUS
    <3>3. K!At(r, ask) /\ db' = db /\ now' = now /\ cache' = cache /\ work' = work
      BY <2>1, <3>1, <3>2 DEF K!Resolve
    <3>4. ask \in K!AskDocs /\ ask.pc # "joining"
      BY <1>1, <3>1, <3>2 DEF K!AskDocs
    <3> QED
      BY <1>2, <3>3, <3>4, SocketsAskOnly
  <2>2. CASE K!End(r, s)
    <3>1. PICK doc : doc = K!Off(cache[s])
      OBVIOUS
    <3>2. cache' = [cache EXCEPT ![s] = doc] /\ K!GoOn(r) /\ db' = db /\ now' = now /\ work' = work
      BY <2>2, <3>1 DEF K!End
    <3>3. /\ doc \in K!SocketDocs /\ doc.user = cache[s].user /\ doc.role = cache[s].role
          /\ doc.pc # "new" /\ SocketKnown(work, doc, s)
      BY <1>1, <3>1, LeavesKnown
    <3> QED
      BY <1>7, <3>2, <3>3
  <2>3. ASSUME NEW b, cache' = [cache EXCEPT ![s] = K!Left(cache[s], b)],
               K!GoOn(r), db' = db, now' = now, work' = work
        PROVE  SocketIInv'
    <3>1. PICK doc : doc = K!Left(cache[s], b)
      OBVIOUS
    <3>2. /\ doc \in K!SocketDocs /\ doc.user = cache[s].user /\ doc.role = cache[s].role
          /\ doc.pc = cache[s].pc /\ SocketKnown(work, doc, s)
      BY <1>1, <3>1, LeavesKnown
    <3> QED
      BY <1>7, <2>3, <3>1, <3>2
  <2>4. ASSUME cache' = cache, K!GoOn(r), db' = db, now' = now, work' = work
        PROVE  SocketIInv'
    BY <1>2, <1>4, <1>5, <2>4, SocketsAskOnly
  <2>5. CASE K!Skip(r, s)
    <3>1. /\ K!GoOn(r) /\ db' = db /\ now' = now /\ work' = work
          /\ \/ cache' = [cache EXCEPT ![s] = K!Left(cache[s], cache[s].room)]
             \/ cache' = cache
      BY <2>5 DEF K!Skip
    <3> QED
      BY <2>3, <2>4, <3>1
  <2>6. CASE K!Recheck(r, s)
    <3>1. PICK b : b = cache[s].data
      OBVIOUS
    <3>2. PICK pc \in {"allowed", "denied"} :
            pc = IF K!MayEnter(s, cache[s].data) THEN "allowed" ELSE "denied"
      OBVIOUS
    <3>3. PICK ask : ask = [asks[r] EXCEPT !.pc = pc, !.branch = b]
      OBVIOUS
    <3>4. K!At(r, ask) /\ db' = db /\ now' = now /\ cache' = cache /\ work' = work
      BY <2>6, <3>1, <3>2, <3>3 DEF K!Recheck
    <3>5. b \in Docs \cup {NoDoc}
      BY <1>1, <3>1 DEF K!SocketDocs
    <3>6. ask \in K!AskDocs /\ ask.pc # "joining"
      BY <1>1, <3>2, <3>3, <3>5 DEF K!AskDocs
    <3> QED
      BY <1>2, <3>4, <3>6, SocketsAskOnly
  <2>7. CASE K!Deny(r, s)
    BY <2>3, <2>7 DEF K!Deny
  <2>8. CASE K!Keep(r, s)
    BY <2>4, <2>8 DEF K!Keep
  <2> QED
    BY <1>8, <2>1, <2>2, <2>5, <2>6, <2>7, <2>8 DEF K!RefreshStep
<1>9. CASE K!DisconnectUserSockets(r)
  <2>1. PICK gone : gone = {s \in Devices : \E u \in asks[r].user : s \in K!Live(u)}
    OBVIOUS
  <2>2. PICK docs : docs = [s \in Devices |-> IF s \in gone THEN K!Off(cache[s]) ELSE cache[s]]
    OBVIOUS
  <2>3. /\ cache' = docs /\ K!At(r, K!NoAsk) /\ db' = db /\ now' = now /\ work' = work
    <3>1. \A s \in Devices : (\E u \in asks[r].user : s \in K!Live(u)) <=> s \in gone
      BY <2>1
    <3> QED
      BY <1>9, <2>2, <3>1 DEF K!DisconnectUserSockets
  <2>4. ASSUME NEW s \in Devices
        PROVE  /\ docs[s] \in K!SocketDocs /\ docs[s].user = cache[s].user
               /\ cache[s].pc # "new" => docs[s].role = cache[s].role /\ docs[s].pc # "new"
               /\ SocketKnown(work, docs[s], s)
    <3>1. /\ K!Off(cache[s]) \in K!SocketDocs /\ SocketKnown(work, K!Off(cache[s]), s)
          /\ K!Off(cache[s]).user = cache[s].user /\ K!Off(cache[s]).role = cache[s].role
          /\ K!Off(cache[s]).pc # "new"
      BY <1>1, LeavesKnown
    <3>2. docs[s] = K!Off(cache[s]) \/ docs[s] = cache[s]
      BY <2>2
    <3> QED
      BY <1>1, <3>1, <3>2
  <2>5. docs \in [Devices -> K!SocketDocs]
    BY <2>2, <2>4
  <2> QED
    BY <1>2, <1>6, <2>3, <2>4, <2>5, SocketsTurn
<1>10. CASE K!SocketsForUser(r)
  <2>1. PICK u \in asks[r].user :
          K!At(r, [asks[r] EXCEPT !.pc = "refreshing", !.todo = K!Live(u)])
    BY <1>10 DEF K!SocketsForUser
  <2>2. PICK live : live = K!Live(u)
    OBVIOUS
  <2>3. live \in SUBSET Devices
    BY <2>2 DEF K!Live
  <2>4. PICK ask : ask = [asks[r] EXCEPT !.pc = "refreshing", !.todo = live]
    OBVIOUS
  <2>5. ask \in K!AskDocs /\ ask.pc # "joining"
    BY <1>1, <2>3, <2>4 DEF K!AskDocs
  <2>6. K!At(r, ask)
    BY <2>1, <2>2, <2>4
  <2>7. db' = db /\ now' = now /\ cache' = cache /\ work' = work
    BY <1>10 DEF K!SocketsForUser
  <2> QED
    BY <1>2, <2>5, <2>6, <2>7, SocketsAskOnly
<1>11. CASE K!Refreshed(r)
  <2>1. K!At(r, K!NoAsk) /\ db' = db /\ now' = now /\ cache' = cache /\ work' = work
    BY <1>11 DEF K!Refreshed
  <2> QED
    BY <2>1, NobodyJoins, SocketsAskOnly
<1> QED
  BY <1>8, <1>9, <1>10, <1>11

\* Publishing: whoever is in the room is checked, and leaves it if nothing covers it.
LEMMA NewsKeeps ==
  ASSUME SocketIInv,
         \/ \E b \in Docs : K!Publish(b)
         \/ \E s \in Devices : K!CheckMember(s) \/ K!Evict(s)
         \/ K!Emit
  PROVE  SocketIInv'
<1>1. /\ K!TypeOK /\ NewsKnown(work, db) /\ asks \in [Requests -> K!AskDocs]
      /\ cache \in [Devices -> K!SocketDocs] /\ work \in K!NewsDocs
      /\ \A s \in Devices : SocketKnown(work, cache[s], s)
      /\ \A r \in Requests : JoinKnown(work, asks[r], cache)
      /\ db.user \in [Staff -> K!UserDocs]
  BY SocketRows DEF SocketIInv
<1>2. ASSUME NEW w \in K!NewsDocs, w = work', db' = db, now' = now, asks' = asks,
             NEW docs \in [Devices -> K!SocketDocs], docs = cache',
             NewsKnown(w, db), \A s \in Devices : SocketKnown(w, docs[s], s),
             \A r \in Requests : JoinKnown(w, asks[r], docs)
      PROVE  SocketIInv'
  <2>1. K!TypeOK'
    BY <1>1, <1>2 DEF K!TypeOK
  <2>2. PICK d, n : d = db /\ d = db' /\ n = now /\ n = now'
    BY <1>2
  <2>3. VersionsCounted(d, n) /\ NewsKnown(w, d)
    BY <1>2, <2>2 DEF SocketIInv
  <2> QED
    BY <1>2, <2>1, <2>2, <2>3 DEF SocketIInv
<1>3. ASSUME NEW b \in Docs, K!Publish(b)
      PROVE  SocketIInv'
  <2>1. PICK todo, held, joining :
          /\ todo = K!Members(b)
          /\ held = {K!Assignment(u) : u \in Staff}
          /\ joining = UNION {asks[r].socket : r \in
                           {q \in Requests : asks[q].pc = "joining" /\ asks[q].branch = b}}
    OBVIOUS
  <2>2. PICK w : w = [branch |-> b, todo |-> todo, stale |-> {}, held |-> held,
                      joining |-> joining]
    OBVIOUS
  <2>3. work' = w /\ db' = db /\ now' = now /\ cache' = cache /\ asks' = asks
    BY <1>3, <2>1, <2>2 DEF K!Publish
  <2>4. todo \in SUBSET Devices /\ \A s \in Devices : cache[s].room = b => s \in todo
    BY <2>1 DEF K!Members
  <2>5. held \in SUBSET [user : Staff, role : K!Roles, branch : Docs]
    <3>1. ASSUME NEW u \in Staff
          PROVE  K!Assignment(u) \in [user : Staff, role : K!Roles, branch : Docs]
      <4>1. db.user[u].role \in K!Roles /\ db.user[u].branch \in Docs
        BY <1>1, StaffRows
      <4> QED
        BY <4>1 DEF K!Assignment
    <3> QED
      BY <2>1, <3>1
  <2>6. joining \in SUBSET Devices
    BY <1>1, <2>1 DEF K!AskDocs
  <2>7. ASSUME NEW r \in Requests, asks[r].pc = "joining", asks[r].branch = b,
               NEW s \in asks[r].socket
        PROVE  s \in joining
    BY <2>1, <2>7
  <2>8. /\ w \in K!NewsDocs /\ w.branch = b /\ w.todo = todo /\ w.stale = {} /\ w.held = held
        /\ w.joining = joining
    BY <2>2, <2>4, <2>5, <2>6 DEF K!NewsDocs
  <2>9. NewsKnown(w, db)
    BY <2>1, <2>8 DEF NewsKnown, K!Assignment
  <2>10. \A s \in Devices : SocketKnown(w, cache[s], s)
    BY <1>1, <2>4, <2>8 DEF SocketKnown
  <2>11. \A r \in Requests : JoinKnown(w, asks[r], cache)
    BY <1>1, <2>7, <2>8 DEF JoinKnown, Covered
  <2> QED
    BY <1>1, <1>2, <2>3, <2>8, <2>9, <2>10, <2>11
<1>4. ASSUME NEW s \in Devices, K!CheckMember(s)
      PROVE  SocketIInv'
  <2>1. /\ s \in work.todo /\ work.stale = {}
        /\ db' = db /\ now' = now /\ cache' = cache /\ asks' = asks
    BY <1>4 DEF K!CheckMember
  <2>2. PICK stale : stale = IF K!Stays(s, work.branch) THEN {} ELSE {s}
    OBVIOUS
  <2>3. PICK w : w = [work EXCEPT !.todo = work.todo \ {s}, !.stale = stale]
    OBVIOUS
  <2>4. work' = w
    BY <1>4, <2>2, <2>3 DEF K!CheckMember
  <2>5. /\ w \in K!NewsDocs /\ w.branch = work.branch /\ w.todo = work.todo \ {s}
        /\ w.stale = stale /\ w.held = work.held /\ w.joining = work.joining
    BY <1>1, <2>2, <2>3 DEF K!NewsDocs
  <2>6. work # K!NoNews
    BY <2>1 DEF K!NoNews
  <2>7. NewsKnown(w, db)
    BY <1>1, <2>2, <2>5, <2>6 DEF NewsKnown
  <2>8. \A doc, x : Covered(work, doc, x) <=> Covered(w, doc, x)
    BY <2>5 DEF Covered
  <2>9. K!Stays(s, work.branch) => Covered(work, cache[s], s)
    <3> SUFFICES ASSUME K!Stays(s, work.branch)
                 PROVE  Covered(work, cache[s], s)
      OBVIOUS
    <3>1. cache[s].user \in Staff
      BY <1>1 DEF K!SocketDocs
    <3>2. PICK held : held = [user |-> cache[s].user, role |-> db.user[cache[s].user].role,
                              branch |-> db.user[cache[s].user].branch]
      OBVIOUS
    <3>3. /\ held.user = cache[s].user /\ held.role = cache[s].role
          /\ held.role = "owner" \/ held.branch = work.branch
      BY <3>2 DEF K!Stays, K!MayEnter, K!Grants, K!Assignment
    <3>4. held \in work.held
      BY <1>1, <2>6, <3>1, <3>2 DEF NewsKnown
    <3> QED
      BY <3>3, <3>4 DEF Covered
  <2>10. ASSUME NEW x \in Devices
         PROVE  SocketKnown(w, cache[x], x)
    <3>1. SocketKnown(work, cache[x], x)
      BY <1>1
    <3>2. CASE x = s
      BY <2>2, <2>5, <2>6, <2>8, <2>9, <3>1, <3>2 DEF SocketKnown
    <3>3. CASE x # s
      BY <2>1, <2>5, <2>6, <2>8, <3>1, <3>3 DEF SocketKnown
    <3> QED
      BY <3>2, <3>3
  <2>11. \A r \in Requests : JoinKnown(w, asks[r], cache)
    BY <1>1, <2>5, <2>6, <2>8 DEF JoinKnown
  <2> QED
    BY <1>1, <1>2, <2>1, <2>4, <2>5, <2>7, <2>10, <2>11
<1>5. ASSUME NEW s \in Devices, K!Evict(s)
      PROVE  SocketIInv'
  <2>1. PICK b, doc, docs, w :
          /\ b = work.branch /\ doc = K!Left(cache[s], b)
          /\ docs = [cache EXCEPT ![s] = doc]
          /\ w = [work EXCEPT !.stale = {}]
    OBVIOUS
  <2>2. /\ s \in work.stale /\ cache' = docs /\ work' = w
        /\ db' = db /\ now' = now /\ asks' = asks
    BY <1>5, <2>1 DEF K!Evict
  <2>3. /\ doc \in K!SocketDocs /\ doc.user = cache[s].user /\ doc.role = cache[s].role
        /\ doc.pc = cache[s].pc /\ doc.room \in {cache[s].room, NoDoc}
        /\ doc.room = b => b = NoDoc
    BY <1>1, <2>1, LeavesKnown
  <2>4. /\ docs \in [Devices -> K!SocketDocs] /\ docs[s] = doc
        /\ \A x \in Devices : x # s => docs[x] = cache[x]
    BY <1>1, <2>1, <2>3
  <2>5. /\ w \in K!NewsDocs /\ w.branch = b /\ w.todo = work.todo
        /\ w.stale = {} /\ w.held = work.held /\ w.joining = work.joining
    BY <1>1, <2>1 DEF K!NewsDocs
  <2>6. work # K!NoNews /\ b \in Docs /\ b # NoDoc
    BY <1>1, <2>1, <2>2, SocketBounds DEF K!NoNews, NewsKnown
  <2>7. NewsKnown(w, db)
    BY <1>1, <2>1, <2>5, <2>6 DEF NewsKnown
  <2>8. \A x, y : Covered(work, x, y) <=> Covered(w, x, y)
    BY <2>1, <2>5 DEF Covered
  <2>9. \A x \in work.stale : x = s
    BY <1>1, <2>2, <2>6 DEF NewsKnown
  <2>10. ASSUME NEW x \in Devices
         PROVE  SocketKnown(w, docs[x], x)
    <3>1. SocketKnown(work, cache[x], x)
      BY <1>1
    <3>2. CASE x = s
      BY <2>3, <2>4, <2>5, <2>6, <3>1, <3>2 DEF SocketKnown
    <3>3. CASE x # s
      BY <2>1, <2>4, <2>5, <2>6, <2>8, <2>9, <3>1, <3>3 DEF SocketKnown
    <3> QED
      BY <3>2, <3>3
  <2>11. ASSUME NEW r \in Requests
         PROVE  JoinKnown(w, asks[r], docs)
    <3> SUFFICES ASSUME asks[r].pc = "joining", NEW x \in asks[r].socket
                 PROVE  /\ docs[x].pc # "new"
                        /\ (w # K!NoNews /\ asks[r].branch = w.branch) => Covered(w, docs[x], x)
      BY DEF JoinKnown
    <3>1. x \in Devices
      BY <1>1 DEF K!AskDocs
    <3>2. /\ cache[x].pc # "new"
          /\ asks[r].branch = b => Covered(work, cache[x], x)
      BY <1>1, <2>1, <2>6 DEF JoinKnown
    <3>3. /\ docs[x].pc = cache[x].pc /\ docs[x].user = cache[x].user
          /\ docs[x].role = cache[x].role
      BY <2>3, <2>4, <3>1
    <3>4. Covered(work, cache[x], x) => Covered(w, docs[x], x)
      BY <2>8, <3>3 DEF Covered
    <3> QED
      BY <2>5, <3>2, <3>3, <3>4
  <2> QED
    BY <1>2, <2>2, <2>4, <2>5, <2>7, <2>10, <2>11
<1>6. CASE K!Emit
  <2>1. /\ K!NoNews = work' /\ db' = db /\ now' = now /\ cache' = cache /\ asks' = asks
    BY <1>6 DEF K!Emit
  <2>2. \A s \in Devices : SocketKnown(K!NoNews, cache[s], s)
    BY <1>1 DEF SocketKnown
  <2>3. \A r \in Requests : JoinKnown(K!NoNews, asks[r], cache)
    BY <1>1 DEF JoinKnown
  <2> QED
    BY <1>1, <1>2, <2>1, <2>2, <2>3, NobodyJoins
<1> QED
  BY <1>3, <1>4, <1>5, <1>6

\* Every step keeps the invariant.
LEMMA SocketsStep ==
  ASSUME SocketIInv, K!Next
  PROVE  SocketIInv'
<1>1. CASE \E s \in Devices : K!SocketStep(s)
  BY <1>1, ConnectionKeeps, NewsKeeps DEF K!SocketStep
<1>2. CASE \E r \in Requests : K!RequestStep(r)
  <2>1. PICK r \in Requests : K!RequestStep(r)
    BY <1>2
  <2> QED
    BY <2>1, JoinKeeps, WritesKeep, RefreshKeeps DEF K!RequestStep
<1>3. CASE (\E b \in Docs : K!Publish(b)) \/ K!Emit
  BY <1>3, NewsKeeps
<1> QED
  BY <1>1, <1>2, <1>3 DEF K!Next

\* Whoever is in the room when the event is emitted is covered.
LEMMA TicketsCovered ==
  ASSUME SocketIInv
  PROVE  K!TicketsToAssigned
<1> SUFFICES ASSUME K!Emit, NEW s \in K!Members(work.branch)
             PROVE  \/ s \in work.joining
                    \/ \E held \in work.held : K!Grants(held, s, work.branch)
  BY DEF K!TicketsToAssigned
<1>1. /\ work # K!NoNews /\ work.todo = {} /\ work.stale = {}
      /\ s \in Devices /\ cache[s].room = work.branch
  BY DEF K!Emit, K!Members
<1>2. Covered(work, cache[s], s)
  BY <1>1 DEF SocketIInv, SocketKnown
<1> QED
  BY <1>2 DEF Covered, K!Grants

\* The caches, the accounts and the sockets keep their invariants in every behaviour.
LEMMA AccessHolds ==
  Spec => [](/\ part = "role" => RoleIInv
             /\ part = "plan" => PlanIInv
             /\ part = "accounts" => AccountsIInv
             /\ part = "socket" => SocketIInv)
<1> DEFINE IInv == /\ part = "role" => RoleIInv
                   /\ part = "plan" => PlanIInv
                   /\ part = "accounts" => AccountsIInv
                   /\ part = "socket" => SocketIInv
<1>1. Init => IInv
  BY RoleInit, PlanInit, AccountsInit, SocketInit DEF Init
<1>2. ASSUME [Next]_vars
      PROVE  part' = part
  BY <1>2 DEF Next, vars
<1>3. ASSUME RoleIInv, [Next]_vars, part = "role"
      PROVE  RoleIInv'
  <2>1. R!Next \/ UNCHANGED <<db, now, cache, asks, stream>>
    BY <1>3 DEF Next, vars
  <2>2. UNCHANGED <<db, now, cache, asks, stream>> => RoleIInv'
    BY <1>3 DEF RoleIInv, StreamIInv, EntryKnown, AskKnown, R!TypeOK, R!NeverGivesUp
  <2> QED
    BY <1>3, <2>1, <2>2, RoleStep
<1>4. ASSUME PlanIInv, [Next]_vars, part = "plan"
      PROVE  PlanIInv'
  <2>1. E!Next \/ UNCHANGED <<db, now, cache, asks, stream>>
    BY <1>4 DEF Next, vars
  <2>2. UNCHANGED <<db, now, cache, asks, stream>> => PlanIInv'
    BY <1>4 DEF PlanIInv, PlanShapes, StreamIInv, R!NeverGivesUp
  <2> QED
    BY <1>4, <2>1, <2>2, PlanStep
<1>5. ASSUME AccountsIInv, [Next]_vars, part = "accounts"
      PROVE  AccountsIInv'
  <2>1. A!Next \/ UNCHANGED <<db, tokens, asks>>
    BY <1>5 DEF Next, vars
  <2>2. UNCHANGED <<db, tokens, asks>> => AccountsIInv'
    BY <1>5 DEF AccountsIInv, A!TypeOK
  <2> QED
    BY <1>5, <2>1, <2>2, AccountsStep
<1>6. ASSUME SocketIInv, [Next]_vars, part = "socket"
      PROVE  SocketIInv'
  <2>1. K!Next \/ UNCHANGED <<db, now, cache, asks, work>>
    BY <1>6 DEF Next, vars
  <2>2. UNCHANGED <<db, now, cache, asks, work>> => SocketIInv'
    BY <1>6 DEF SocketIInv, K!TypeOK
  <2> QED
    BY <1>6, <2>1, <2>2, SocketsStep
<1>7. IInv /\ [Next]_vars => IInv'
  BY <1>2, <1>3, <1>4, <1>5, <1>6
<1> QED
  BY <1>1, <1>7, PTL DEF Spec

\* README:1122, auth.js:54, sockets.js: nobody acts by a token that was issued before its
\* sessions were revoked, or by a role that was withdrawn; permissions that were replaced, and
\* a plan or a period that is over, count for one TTL and the steps of a load; a ticket reaches
\* only the sockets of whoever was assigned to its branch; and a server that lost its change
\* stream opens another.
THEOREM RevokedStaysOutTheorem == Spec => RevokedStaysOut
<1> DEFINE IInv == /\ part = "role" => RoleIInv
                   /\ part = "plan" => PlanIInv
                   /\ part = "accounts" => AccountsIInv
                   /\ part = "socket" => SocketIInv
           Inv == part \in {"role", "plan"} => R!NeverGivesUp
           Body == /\ part = "accounts" => A!RevokedStaysOut
                   /\ part = "role" => R!WithdrawnIsRefused /\ R!StaleForOneTTL
                   /\ part = "plan" => E!PlanStaleForOneTTL
                   /\ part = "socket" => K!TicketsToAssigned
<1>1. IInv => Inv /\ Body
  BY RoleGrants, PlanAnswers, AccountsAccept, TicketsCovered
     DEF RoleIInv, PlanIInv, StreamIInv
<1>2. IInv => Inv
  BY <1>1
<1>3. IInv /\ [Next]_vars => Body
  BY <1>1
<1> QED
  BY <1>2, <1>3, AccessHolds, PTL DEF Spec, RevokedStaysOut

-------------------------------------------------------------------------------
(* The shapes of every part: what the invariants above leave open.         *)

\* The orders that were ever placed.
Placed(d) == {o \in Orders : d.order[o].status # "absent"}

Ceiling == Cardinality(Placed(db))

\* No counter, no snapshot of one and no count has outgrown the orders that were ever placed,
\* whoever placed or cancelled them meanwhile.
QuotaBounded ==
    /\ \A k \in Q!Counters : db.counter[k] <= Ceiling
    /\ \A c \in Requests : work[c].overall <= Ceiling /\ work[c].online <= Ceiling
    /\ \A c \in Requests :
          cache[c] # NoSnapshot => \A k \in Q!Counters : cache[c].counter[k] <= Ceiling

\* The orders that were ever placed are some of the orders.
LEMMA PlacedFinite ==
  ASSUME NEW d
  PROVE  /\ IsFiniteSet(Placed(d)) /\ Cardinality(Placed(d)) \in Nat
         /\ Cardinality(Orders) \in Nat /\ Cardinality(Placed(d)) <= Cardinality(Orders)
<1>1. IsFiniteSet(Orders)
  BY ServerAssumption DEF Q!OrderQuotaAssumption, Q!IsFiniteSet, IsFiniteSet
<1>2. Placed(d) \subseteq Orders
  BY DEF Placed
<1> QED
  BY <1>1, <1>2, FS_Subset, FS_CardinalityType

\* What is counted is some of what was ever placed.
LEMMA UsagePlaced ==
  ASSUME NEW d, NEW m
  PROVE  /\ Q!getOrderUsage(d, m) <= Cardinality(Placed(d))
         /\ Q!getOnlineOrderUsage(d, m) <= Cardinality(Placed(d))
<1> DEFINE all == Q!Countable(d, m)
           web == {o \in all : d.order[o].source = "online"}
<1>1. all \subseteq Placed(d) /\ web \subseteq Placed(d)
  BY DEF Q!Countable, Placed
<1>2. Cardinality(all) <= Cardinality(Placed(d)) /\ Cardinality(web) <= Cardinality(Placed(d))
  BY <1>1, PlacedFinite, FS_Subset
<1>3. /\ Q!getOrderUsage(d, m) = Cardinality(all)
      /\ Q!getOnlineOrderUsage(d, m) = Cardinality(web)
  BY SameCardinality DEF Q!getOrderUsage, Q!getOnlineOrderUsage
<1> HIDE DEF all, web
<1> QED
  BY <1>2, <1>3

\* Nothing was counted.
LEMMA BoundedInit ==
  ASSUME Q!Init
  PROVE  QuotaBounded
<1>1. \A k \in Q!Counters : db.counter[k] = 0
  BY DEF Q!Init
<1>2. \A c \in Requests : work[c].overall = 0 /\ work[c].online = 0
  BY DEF Q!Init, Q!Idle
<1>3. \A c \in Requests : cache[c] = NoSnapshot
  BY DEF Q!Init, Q!OutsideTransactions
<1>4. Ceiling \in Nat
  BY PlacedFinite DEF Ceiling
<1> QED
  BY <1>1, <1>2, <1>3, <1>4 DEF QuotaBounded

\* What stays below the ceiling as it is, when nothing is forgotten that was ever placed.
LEMMA BoundedOthers ==
  ASSUME QuotaIInv, QuotaBounded, Placed(db) \subseteq Placed(db')
  PROVE  /\ Ceiling \in Nat /\ Ceiling' \in Nat /\ Ceiling <= Ceiling'
         /\ \A k \in Q!Counters : db.counter[k] \in Nat /\ db.counter[k] <= Ceiling'
         /\ \A c \in Requests :
               /\ work[c].overall \in Nat /\ work[c].overall <= Ceiling'
               /\ work[c].online \in Nat /\ work[c].online <= Ceiling'
         /\ \A c \in Requests : cache[c] # NoSnapshot =>
               \A k \in Q!Counters :
                  cache[c].counter[k] \in Nat /\ cache[c].counter[k] <= Ceiling'
<1>1. Ceiling \in Nat /\ Ceiling' \in Nat /\ Ceiling <= Ceiling'
  BY PlacedFinite, FS_Subset DEF Ceiling
<1>2. \A k \in Q!Counters : db.counter[k] \in Nat /\ db.counter[k] <= Ceiling
  BY DEF QuotaBounded, QuotaIInv, QuotaTypeOK, QuotaDocs
<1>3. \A c \in Requests :
         /\ work[c].overall \in Nat /\ work[c].overall <= Ceiling
         /\ work[c].online \in Nat /\ work[c].online <= Ceiling
  BY DEF QuotaBounded, QuotaIInv, QuotaTypeOK, QuotaWork
<1>4. \A c \in Requests : cache[c] # NoSnapshot =>
         \A k \in Q!Counters : cache[c].counter[k] \in Nat /\ cache[c].counter[k] <= Ceiling
  BY DEF QuotaBounded, QuotaIInv, QuotaTypeOK, QuotaDocs
<1> QED
  BY <1>1, <1>2, <1>3, <1>4

\* An order that is placed raises the ceiling by one, and each counter to no more than that.
LEMMA BoundedPlaces ==
  ASSUME QuotaIInv, QuotaBounded, NEW c \in Requests, NEW o \in Orders, Q!Place(c, o)
  PROVE  QuotaBounded'
<1>1. /\ db.order[o].status = "absent" /\ db'.order[o].status = "open"
      /\ \A p \in Orders \ {o} : db'.order[p] = db.order[p]
      /\ \A k \in Q!Counters :
            db'.counter[k] \in {db.counter[k], cache[c].counter[k] + 1, work[c].overall + 1,
                               work[c].online + 1}
      /\ cache[c] \in QuotaDocs /\ cache' = Q!Ended(c)
  BY QuotaPlaces
<1>2. Placed(db') = Placed(db) \cup {o} /\ o \notin Placed(db)
  BY <1>1 DEF Placed
<1>3. Ceiling' = Ceiling + 1
  BY <1>2, PlacedFinite, FS_AddElement DEF Ceiling
<1>4. /\ Ceiling \in Nat /\ Ceiling' \in Nat /\ Ceiling <= Ceiling'
      /\ \A k \in Q!Counters : db.counter[k] \in Nat /\ db.counter[k] <= Ceiling'
      /\ \A q \in Requests :
            /\ work[q].overall \in Nat /\ work[q].overall <= Ceiling'
            /\ work[q].online \in Nat /\ work[q].online <= Ceiling'
      /\ \A q \in Requests : cache[q] # NoSnapshot =>
            \A k \in Q!Counters :
               cache[q].counter[k] \in Nat /\ cache[q].counter[k] <= Ceiling'
  BY <1>2, BoundedOthers
<1>5. work[c].overall <= Ceiling /\ work[c].online <= Ceiling
  BY DEF QuotaBounded
<1>6. cache[c] # NoSnapshot
  BY <1>1, QuotaSnapshot
<1>7. \A k \in Q!Counters : cache[c].counter[k] <= Ceiling
  BY <1>6 DEF QuotaBounded
<1>8. \A k \in Q!Counters : db'.counter[k] <= Ceiling'
  BY <1>1, <1>3, <1>4, <1>5, <1>6, <1>7
<1>9. /\ \A q \in Requests \ {c} : work'[q] = work[q] /\ cache'[q] = cache[q]
      /\ work'[c].overall = 0 /\ work'[c].online = 0 /\ cache'[c] = NoSnapshot
  <2>1. work' = [work EXCEPT ![c] = Q!Idle] /\ work \in [Requests -> QuotaWork]
    BY Zenon DEF Q!Place, QuotaIInv, QuotaTypeOK
  <2>2. Q!Idle.overall = 0 /\ Q!Idle.online = 0
    BY DEF Q!Idle
  <2> QED
    BY <1>1, <2>1, <2>2 DEF Q!Ended
<1> QED
  BY <1>4, <1>8, <1>9 DEF QuotaBounded

\* A cancellation puts counters back, and forgets no order.
LEMMA BoundedCancels ==
  ASSUME QuotaIInv, QuotaBounded, NEW c \in Requests, NEW o \in Orders, Q!Cancel(c, o)
  PROVE  QuotaBounded'
<1>1. /\ db' \in QuotaDocs /\ db'.order[o].status = "cancelled"
      /\ \A p \in Orders \ {o} : db'.order[p] = db.order[p]
      /\ \A k \in Q!Counters :
            db'.counter[k] = db.counter[k] \/ db'.counter[k] <= cache[c].counter[k]
      /\ cache[c] \in QuotaDocs /\ cache' = Q!Ended(c)
  BY QuotaCancels
<1>2. Placed(db) \subseteq Placed(db')
  BY <1>1 DEF Placed
<1>3. /\ Ceiling' \in Nat
      /\ \A k \in Q!Counters : db.counter[k] <= Ceiling'
      /\ \A q \in Requests : work[q].overall <= Ceiling' /\ work[q].online <= Ceiling'
      /\ \A q \in Requests : cache[q] # NoSnapshot =>
            \A k \in Q!Counters :
               cache[q].counter[k] \in Nat /\ cache[q].counter[k] <= Ceiling'
  BY <1>2, BoundedOthers
<1>4. cache[c] # NoSnapshot
  BY <1>1, QuotaSnapshot
<1>5. \A k \in Q!Counters : db'.counter[k] <= Ceiling'
  <2>1. \A k \in Q!Counters : db'.counter[k] \in Nat
    BY <1>1 DEF QuotaDocs
  <2> QED
    BY <1>1, <1>3, <1>4, <2>1
<1>6. /\ work' = work /\ cache'[c] = NoSnapshot
      /\ \A q \in Requests \ {c} : cache'[q] = cache[q]
  BY <1>1 DEF Q!Cancel, Q!Ended
<1> QED
  BY <1>3, <1>5, <1>6 DEF QuotaBounded

\* A count is no more than what was ever placed.
LEMMA BoundedCounts ==
  ASSUME QuotaIInv, QuotaBounded, NEW c \in Requests, Q!CountOverall(c) \/ Q!CountOnline(c)
  PROVE  QuotaBounded'
<1> DEFINE m == Q!getOrderUsage(db, work[c].month)
           n == Q!getOnlineOrderUsage(db, work[c].month)
<1>1. /\ work \in [Requests -> QuotaWork] /\ UNCHANGED <<db, cache>>
  BY DEF Q!CountOverall, Q!CountOnline, QuotaIInv, QuotaTypeOK
<1>2. m <= Ceiling /\ n <= Ceiling /\ Ceiling' = Ceiling
  BY <1>1, UsagePlaced DEF Ceiling
<1>3. CASE Q!CountOverall(c)
  <2>1. PICK pc : work' = [work EXCEPT ![c].pc = pc, ![c].overall = m]
    BY <1>3, Zenon DEF Q!CountOverall
  <2> HIDE DEF m
  <2>2. /\ work'[c].overall = m /\ work'[c].online = work[c].online
        /\ \A q \in Requests \ {c} : work'[q] = work[q]
    BY <1>1, <2>1 DEF QuotaWork
  <2> QED
    BY <1>1, <1>2, <2>2 DEF QuotaBounded
<1>4. CASE Q!CountOnline(c)
  <2>1. work' = [work EXCEPT ![c].pc = "save", ![c].online = n]
    BY <1>4, Zenon DEF Q!CountOnline
  <2> HIDE DEF n
  <2>2. /\ work'[c].online = n /\ work'[c].overall = work[c].overall
        /\ \A q \in Requests \ {c} : work'[q] = work[q]
    BY <1>1, <2>1 DEF QuotaWork
  <2> QED
    BY <1>1, <1>2, <2>2 DEF QuotaBounded
<1> QED
  BY <1>3, <1>4

\* A request that begins reads the counters, one that ends forgets them.
LEMMA BoundedQuiet ==
  ASSUME QuotaIInv, QuotaBounded, NEW c \in Requests, Q!Begin(c) \/ Q!End(c),
         \A q \in Requests : \/ work'[q].overall = 0 /\ work'[q].online = 0
                             \/ work'[q] = work[q]
  PROVE  QuotaBounded'
<1>1. /\ db' = db /\ Ceiling' = Ceiling /\ Ceiling \in Nat
      /\ \A q \in Requests : cache'[q] \in {cache[q], NoSnapshot, db}
  BY PlacedFinite DEF QuotaIInv, QuotaTypeOK, Q!Begin, Q!End, Q!Ended, Ceiling
<1>2. \A q \in Requests : cache'[q] # NoSnapshot =>
          \A k \in Q!Counters : cache'[q].counter[k] <= Ceiling
  BY <1>1 DEF QuotaBounded
<1> QED
  BY <1>1, <1>2 DEF QuotaBounded

\* Every step keeps the counters below what was ever placed.
LEMMA QuotaStaysBounded ==
  ASSUME QuotaIInv, QuotaBounded, Q!Next \/ UNCHANGED <<db, cache, asks, clock, work>>
  PROVE  QuotaBounded'
<1>1. work \in [Requests -> QuotaWork]
  BY DEF QuotaIInv, QuotaTypeOK
<1>2. ASSUME NEW c \in Requests, NEW source \in {"pos", "online"}, Q!Reach(c, source)
      PROVE  QuotaBounded'
  <2>1. PICK w : /\ w = [Q!Idle EXCEPT !.pc = "overall", !.source = source,
                                       !.month = clock.month]
                 /\ work' = [work EXCEPT ![c] = w]
    BY <1>2, Zenon DEF Q!Reach
  <2>2. w.overall = 0 /\ w.online = 0
    BY <2>1 DEF Q!Idle
  <2> QED
    BY <1>1, <1>2, <2>1, <2>2, BoundedQuiet DEF Q!Reach
<1>3. ASSUME NEW c \in Requests, Q!Abort(c)
      PROVE  QuotaBounded'
  <2>1. work' = [work EXCEPT ![c] = Q!Idle] /\ Q!End(c)
    BY <1>3 DEF Q!Abort
  <2>2. Q!Idle.overall = 0 /\ Q!Idle.online = 0
    BY DEF Q!Idle
  <2> QED
    BY <1>1, <2>1, <2>2, BoundedQuiet
<1>4. ASSUME NEW c \in Requests, Q!BeginCancel(c) \/ Q!GiveUp(c)
      PROVE  QuotaBounded'
  BY <1>4, BoundedQuiet DEF Q!BeginCancel, Q!GiveUp
<1>5. CASE UNCHANGED <<db, cache, work>>
  BY <1>5 DEF QuotaBounded, Ceiling
<1>6. Q!Turn => UNCHANGED <<db, cache, work>>
  BY DEF Q!Turn
<1> QED
  BY <1>2, <1>3, <1>4, <1>5, <1>6, BoundedCounts, BoundedPlaces, BoundedCancels DEF Q!Next

\* The shapes of the quota, with their bounds.
LEMMA QuotaTypes ==
  ASSUME QuotaIInv, QuotaBounded
  PROVE  Q!TypeOK
<1> DEFINE top == Q!Cardinality(Orders)
<1>1. top = Cardinality(Orders) /\ top \in Nat /\ Ceiling \in Nat /\ Ceiling <= top
  BY PlacedFinite, SameCardinality DEF Ceiling
<1> HIDE DEF top
<1>2. /\ db \in QuotaDocs /\ cache \in [Requests -> QuotaDocs \cup {NoSnapshot}]
      /\ clock \in [month : Q!Months, plan : MCPlans] /\ work \in [Requests -> QuotaWork]
  BY DEF QuotaIInv, QuotaTypeOK
<1>3. ASSUME NEW d \in QuotaDocs, \A k \in Q!Counters : d.counter[k] <= Ceiling
      PROVE  d \in Q!Databases
  <2>1. /\ d = [order |-> d.order, counter |-> d.counter]
        /\ d.order \in [Orders -> Q!OrderDocs] /\ d.counter \in [Q!Counters -> Nat]
    BY DEF QuotaDocs
  <2>2. d.counter \in [Q!Counters -> 0..top]
    BY <1>1, <1>3, <2>1
  <2> QED
    BY <2>1, <2>2 DEF Q!Databases, top
<1>4. db \in Q!Databases
  BY <1>2, <1>3 DEF QuotaBounded
<1>5. cache \in [Requests -> Q!Databases \cup {NoSnapshot}]
  BY <1>2, <1>3 DEF QuotaBounded
<1>6. ASSUME NEW c \in Requests
      PROVE  work[c] \in Q!WorkDocs
  <2>1. work[c] \in QuotaWork /\ work[c].overall <= Ceiling /\ work[c].online <= Ceiling
    BY <1>2 DEF QuotaBounded
  <2>2. work[c].overall \in 0..top /\ work[c].online \in 0..top
    BY <1>1, <2>1 DEF QuotaWork
  <2> QED
    BY <2>1, <2>2 DEF QuotaWork, Q!WorkDocs, top
<1> QED
  BY <1>2, <1>4, <1>5, <1>6 DEF Q!TypeOK

\* A page, of whatever kind, starts with its shape.
LEMMA PageTypesInit ==
  ASSUME G!Init(MCPages)
  PROVE  G!TypeOK(MCPages)
BY PageInit DEF PageIInv

\* A page that loads keeps its shape.
LEMMA PageTypesLoad ==
  ASSUME G!TypeOK(MCPages), NEW r \in Requests, NEW p \in G!PageDocs(MCPages), G!Load(r, p)
  PROVE  tokens' \in G!PageDocs(MCPages) /\ asks' \in [Requests -> G!AskDocs]
<1>1. MaxChanges \in Nat
  BY ServerAssumption DEF G!PagesAssumption
<1>2. [G!NoAsk EXCEPT !.pc = "asked"] \in G!AskDocs
  BY <1>1 DEF G!NoAsk, G!AskDocs, G!Versions
<1>3. asks' \in [Requests -> G!AskDocs]
  BY <1>2 DEF G!Load, G!TypeOK
<1>4. tokens' \in G!PageDocs(MCPages)
  BY DEF G!Load, G!PageDocs
<1> QED
  BY <1>3, <1>4

\* So does one whose socket gets somewhere.
LEMMA PageTypesReached ==
  ASSUME G!TypeOK(MCPages), NEW socket \in {"connected", "joining", "joined"}, G!Reached(socket)
  PROVE  tokens' \in G!PageDocs(MCPages) /\ asks' \in [Requests -> G!AskDocs]
<1> DEFINE p == [tokens EXCEPT !.socket = socket]
<1>1. p \in G!PageDocs(MCPages)
  BY DEF G!TypeOK, G!PageDocs
<1>2. \/ \E r \in Requests : G!Load(r, p)
      \/ tokens' = p /\ asks' = asks
  BY Zenon DEF G!Reached
<1> HIDE DEF p
<1> QED
  BY <1>1, <1>2, PageTypesLoad DEF G!TypeOK

\* What the server does keeps the shape of the page, of its messages and of the list.
LEMMA PageTypesServer ==
  ASSUME G!TypeOK(MCPages), G!ServerStep
  PROVE  G!TypeOK(MCPages)'
<1>1. /\ db \in G!Databases /\ tokens \in G!PageDocs(MCPages) /\ asks \in [Requests -> G!AskDocs]
      /\ work \in Seq(G!Messages) /\ cache \in BOOLEAN /\ MaxChanges \in Nat
  BY ServerAssumption DEF G!TypeOK, G!PagesAssumption
<1>2. CASE G!Change
  BY <1>1, <1>2 DEF G!Change, G!TypeOK, G!Databases, G!Versions
<1>3. CASE G!Publish
  <2>1. PICK v \in db.unpublished : \E seen \in v..db.version :
          /\ db' = [db EXCEPT !.unpublished = @ \ {v}]
          /\ work' = IF cache THEN Append(work, [type |-> "event", version |-> seen]) ELSE work
    BY <1>3 DEF G!Publish
  <2>2. PICK seen \in v..db.version :
          /\ db' = [db EXCEPT !.unpublished = @ \ {v}]
          /\ work' = IF cache THEN Append(work, [type |-> "event", version |-> seen]) ELSE work
    BY <2>1
  <2>3. db' \in G!Databases
    BY <1>1, <2>2 DEF G!Databases
  <2>4. [type |-> "event", version |-> seen] \in G!Messages
    BY <1>1, <2>1, <2>2 DEF G!Databases, G!Messages, G!Versions
  <2>5. work' \in Seq(G!Messages)
    BY <1>1, <2>2, <2>4
  <2> QED
    BY <1>1, <1>3, <2>3, <2>5 DEF G!Publish, G!TypeOK
<1>4. CASE G!JoinBranch
  <2>1. G!Joined \in G!Messages
    BY <1>1 DEF G!Joined, G!Messages, G!Versions
  <2>2. work' \in Seq(G!Messages)
    BY <1>1, <1>4, <2>1 DEF G!JoinBranch
  <2> QED
    BY <1>1, <1>4, <2>2 DEF G!JoinBranch, G!TypeOK
<1>5. ASSUME NEW r \in Requests, G!Answer(r)
      PROVE  G!TypeOK(MCPages)'
  <2>1. PICK row : row = [pc |-> "answered", seen |-> db.version]
    OBVIOUS
  <2>2. row \in G!AskDocs
    BY <1>1, <2>1 DEF G!AskDocs, G!Databases
  <2>3. asks' = [asks EXCEPT ![r] = row] /\ UNCHANGED <<db, cache, work, tokens>>
    BY <1>5, <2>1, Zenon DEF G!Answer
  <2> QED
    BY <1>1, <2>2, <2>3 DEF G!TypeOK
<1>6. CASE G!Restart
  <2>1. PICK failed \in BOOLEAN : tokens' = [tokens EXCEPT !.socket = "down", !.failed = failed]
    BY <1>1, <1>6 DEF G!Restart, G!PageDocs
  <2>2. tokens' \in G!PageDocs(MCPages)
    BY <1>1, <2>1 DEF G!PageDocs
  <2>3. db' \in G!Databases /\ asks' \in [Requests -> G!AskDocs]
    BY <1>1, <1>6 DEF G!Restart, G!Databases, G!AskDocs, G!NoAsk, G!Versions
  <2>4. cache' = FALSE /\ work' = <<>>
    BY <1>6 DEF G!Restart
  <2>5. work' \in Seq(G!Messages)
    BY <2>4
  <2> QED
    BY <2>2, <2>3, <2>4, <2>5 DEF G!TypeOK
<1> QED
  BY <1>2, <1>3, <1>4, <1>5, <1>6 DEF G!ServerStep

\* What the page does keeps its shape.
LEMMA PageTypesPage ==
  ASSUME G!TypeOK(MCPages), G!PageStep
  PROVE  G!TypeOK(MCPages)'
<1>1. /\ db \in G!Databases /\ tokens \in G!PageDocs(MCPages) /\ asks \in [Requests -> G!AskDocs]
      /\ work \in Seq(G!Messages) /\ cache \in BOOLEAN
  BY DEF G!TypeOK
<1>2. G!NoAsk \in G!AskDocs
  BY ServerAssumption DEF G!PagesAssumption, G!NoAsk, G!AskDocs, G!Versions
<1>3. ASSUME NEW r \in Requests, G!Show(r) \/ G!Fail(r)
      PROVE  G!TypeOK(MCPages)'
  <2>1. asks' \in [Requests -> G!AskDocs] /\ UNCHANGED <<db, cache, work>>
    BY <1>1, <1>2, <1>3 DEF G!Show, G!Fail
  <2>2. tokens' \in G!PageDocs(MCPages)
    BY <1>1, <1>3 DEF G!Show, G!Fail, G!PageDocs, G!AskDocs
  <2> QED
    BY <1>1, <2>1, <2>2 DEF G!TypeOK
<1>4. ASSUME NEW r \in Requests, G!Poll(r) \/ G!FlushUpdates(r)
      PROVE  G!TypeOK(MCPages)'
  <2>1. PICK p \in G!PageDocs(MCPages) : G!Load(r, p)
    <3>1. [tokens EXCEPT !.timer = FALSE] \in G!PageDocs(MCPages)
      BY <1>1 DEF G!PageDocs
    <3> QED
      BY <1>1, <1>4, <3>1 DEF G!Poll, G!FlushUpdates
  <2>2. tokens' \in G!PageDocs(MCPages) /\ asks' \in [Requests -> G!AskDocs]
    BY <2>1, PageTypesLoad
  <2> QED
    BY <1>1, <1>4, <2>2 DEF G!Poll, G!FlushUpdates, G!TypeOK
<1>5. CASE G!Connect
  <2>1. tokens' \in G!PageDocs(MCPages) /\ asks' \in [Requests -> G!AskDocs]
    BY <1>5, PageTypesReached DEF G!Connect
  <2>2. cache' \in BOOLEAN /\ db' = db /\ work' = work
    BY <1>1, <1>5 DEF G!Connect
  <2> QED
    BY <1>1, <2>1, <2>2 DEF G!TypeOK
<1>6. CASE G!Receive
  <2>1. work # <<>> /\ work' = Tail(work) /\ db' = db /\ cache' = cache
    BY <1>6 DEF G!Receive
  <2>2. work' \in Seq(G!Messages) /\ Head(work) \in G!Messages
    BY <1>1, <2>1
  <2>3. CASE G!Acknowledged
    <3>1. tokens' \in G!PageDocs(MCPages) /\ asks' \in [Requests -> G!AskDocs]
      BY <2>3, PageTypesReached DEF G!Acknowledged
    <3> QED
      BY <1>1, <2>1, <2>2, <3>1 DEF G!TypeOK
  <2>4. CASE G!OnUpdate
    <3>1. CASE \E r \in Requests : G!Load(r, tokens)
      <4>1. tokens' \in G!PageDocs(MCPages) /\ asks' \in [Requests -> G!AskDocs]
        BY <1>1, <3>1, PageTypesLoad
      <4> QED
        BY <1>1, <2>1, <2>2, <4>1 DEF G!TypeOK
    <3>2. CASE /\ asks' = asks
               /\ \/ tokens' = [tokens EXCEPT !.timer = TRUE]
                  \/ tokens' = [tokens EXCEPT !.shown = Head(work).version]
      <4>1. tokens' \in G!PageDocs(MCPages)
        BY <1>1, <2>2, <3>2 DEF G!PageDocs, G!Messages
      <4> QED
        BY <1>1, <2>1, <2>2, <3>2, <4>1 DEF G!TypeOK
    <3> QED
      BY <2>4, <3>1, <3>2 DEF G!OnUpdate
  <2> QED
    BY <1>6, <2>3, <2>4 DEF G!Receive
<1>7. CASE G!Disconnect
  <2>1. tokens' \in G!PageDocs(MCPages) /\ work' \in Seq(G!Messages)
    BY <1>1, <1>7 DEF G!Disconnect, G!PageDocs
  <2> QED
    BY <1>1, <1>7, <2>1 DEF G!Disconnect, G!TypeOK
<1> QED
  BY <1>3, <1>4, <1>5, <1>6, <1>7 DEF G!PageStep

\* The start of the server: a step that reads is one of its migration, and what it is about
\* to write are some of its documents.
StartIInv ==
    /\ M!TypeOK
    /\ asks = [step |-> asks.step, phase |-> asks.phase, writes |-> asks.writes,
               prepared |-> asks.prepared]
    /\ asks.phase \in {"reading", "writing"} => asks.step >= 1

\* A migration writes none but its documents, whatever it finds.
LEMMA WritesDocuments ==
  ASSUME NEW k \in M!AllKinds, NEW n \in 1..M!Steps(k), NEW d, NEW prepared
  PROVE  DOMAIN M!Writes(k, n, d, prepared) \subseteq M!Ids
<1>1. M!Present(d) \subseteq M!Ids /\ M!PaymentIds(d) \subseteq M!Ids
      /\ M!CatalogRows(d) \subseteq M!Ids /\ M!Open(d) \subseteq M!Ids
      /\ \A fields : M!Lacking(d, fields) \subseteq M!Ids
  BY DEF M!Present, M!PaymentIds, M!CatalogRows, M!Open, M!Lacking, M!Ids
<1>2. ASSUME NEW e, NEW selected, NEW fields
      PROVE  DOMAIN M!Fill(e, selected, fields) = selected
  BY Zenon DEF M!Fill
<1>3. k = "purchase_orders" => DOMAIN M!Writes(k, n, d, prepared) \subseteq M!Ids
  BY <1>1, <1>2 DEF M!Writes, M!backfillPurchaseOrders, M!backfillPurchaseOrderApprovals
<1>4. k = "receipts" => DOMAIN M!Writes(k, n, d, prepared) \subseteq M!Ids
  BY <1>1, <1>2 DEF M!Writes, M!backfillGoodsReceipts
<1>5. k = "returns" => DOMAIN M!Writes(k, n, d, prepared) \subseteq M!Ids
  BY <1>1, <1>2 DEF M!Writes, M!backfillPurchaseReturns
<1>6. k = "ledger" => DOMAIN M!Writes(k, n, d, prepared) \subseteq M!Ids
  BY <1>1, <1>2 DEF M!Writes, M!normalizedUpdates
<1>7. k = "lots" => DOMAIN M!Writes(k, n, d, prepared) \subseteq M!Ids
  BY <1>1, <1>2 DEF M!Writes, M!backfillCurrentBalances, M!Ids
<1>8. k = "invoices" => DOMAIN M!Writes(k, n, d, prepared) \subseteq M!Ids
  BY <1>1, <1>2 DEF M!Writes, M!backfillSupplierInvoices, M!matchingRebuilt
<1>9. k = "counters" => DOMAIN M!Writes(k, n, d, prepared) \subseteq M!Ids
  BY <1>1, <1>2 DEF M!Writes, M!consolidateSalesInvoiceCounters, M!dropDuplicateCounters, M!Ids
<1>10. k = "numbers" => DOMAIN M!Writes(k, n, d, prepared) \subseteq M!Ids
  BY <1>1, <1>2 DEF M!Writes, M!alignReceiptCounters, M!Ids
<1>11. k = "deliveries" => DOMAIN M!Writes(k, n, d, prepared) \subseteq M!Ids
  BY <1>1, <1>2 DEF M!Writes, M!backfillDeliveries, M!retireDuplicateDeliveries
<1>12. k = "catalog" => DOMAIN M!Writes(k, n, d, prepared) \subseteq M!Ids
  BY <1>1, <1>2 DEF M!Writes, M!backfillCatalogRows, M!backfillPriceHistory, M!Ids
<1>13. k = "tenants" => DOMAIN M!Writes(k, n, d, prepared) \subseteq M!Ids
  BY <1>1, <1>2 DEF M!Writes, M!backfillOrderTenants, M!backfillPaymentTenants, M!Ids
<1>14. k = "completed" => DOMAIN M!Writes(k, n, d, prepared) \subseteq M!Ids
  BY <1>1, <1>2 DEF M!Writes, M!backfillCompletedAt
<1>15. k = "alerts" => DOMAIN M!Writes(k, n, d, prepared) \subseteq M!Ids
  <2> SUFFICES ASSUME k = "alerts"
               PROVE  DOMAIN M!Writes(k, n, d, prepared) \subseteq M!Ids
    OBVIOUS
  <2>1. n = 1 \/ n = 2 \/ n = 3
    BY DEF M!Steps
  <2> QED
    BY <1>1, <2>1 DEF M!Writes, M!resolveReadAlerts, M!openAlerts, M!retireDuplicateAlerts
<1>16. k = "payments" => DOMAIN M!Writes(k, n, d, prepared) \subseteq M!Ids
  <2>1. DOMAIN M!alignCounters(d) \subseteq M!Ids
    BY DEF M!alignCounters, M!Ids
  <2>2. DOMAIN M!preparePaymentMigration(d) \subseteq M!Ids
    <3>1. PICK e : e = M!synthesized(d)
      OBVIOUS
    <3>2. PICK writes : /\ DOMAIN writes = {i \in M!PaymentIds(e) : e[i].form = "legacy"}
                        /\ M!preparePaymentMigration(d) = M!Over(writes, [i \in {1} |-> e[1]])
      BY <3>1, Zenon DEF M!preparePaymentMigration
    <3>3. DOMAIN M!Over(writes, [i \in {1} |-> e[1]]) = DOMAIN writes \cup {1}
      BY DEF M!Over
    <3> QED
      BY <3>2, <3>3 DEF M!PaymentIds, M!Ids
  <2> QED
    BY <2>1, <2>2, Zenon DEF M!Writes
<1> QED
  BY <1>3, <1>4, <1>5, <1>6, <1>7, <1>8, <1>9, <1>10, <1>11, <1>12, <1>13, <1>14, <1>15, <1>16 DEF M!AllKinds

\* A kind of document that is migrated, and the steps of its migration.
LEMMA KindSteps ==
  ASSUME NEW k \in Kinds
  PROVE  k \in M!AllKinds /\ M!Steps(k) \in 1..3
BY ServerAssumption DEF M!MigrationsAssumption, M!Steps

\* Documents, and a server that is down.
LEMMA StartInit ==
  ASSUME M!Init
  PROVE  StartIInv
<1>1. /\ cache \in Kinds /\ db \in M!Databases(cache) /\ asks = M!Down /\ now = 0 /\ clock = 0
      /\ MaxStarts \in Nat /\ MaxLive \in Nat
  BY ServerAssumption DEF M!Init, M!MigrationsAssumption
<1>2. \A a, b, c, e : DOMAIN M!All(a, b, c, e) = M!Ids
  BY Zenon DEF M!All
<1>3. DOMAIN db = M!Ids
  <2>1. \E a, b, c, e : db = M!All(a, b, c, e)
    BY <1>1 DEF M!Databases
  <2> QED
    BY <1>2, <2>1
<1>4. M!Steps(cache) \in 1..3
  BY <1>1, KindSteps
<1>5. asks = [step |-> 0, phase |-> "down", writes |-> <<>>, prepared |-> {}]
  BY <1>1 DEF M!Down
<1>6. DOMAIN asks.writes \subseteq M!Ids
  BY <1>5
<1> QED
  BY <1>1, <1>3, <1>4, <1>5, <1>6 DEF StartIInv, M!TypeOK

\* What the server does while it listens leaves as many documents.
LEMMA LiveDocuments ==
  ASSUME NEW k, NEW d, DOMAIN d = M!Ids, NEW e \in M!Added(k, d) \cup M!Changed(k, d)
  PROVE  DOMAIN e = M!Ids
<1>1. CASE e \in M!Added(k, d)
  BY <1>1 DEF M!Added
<1>2. e \in M!Paid(d) => DOMAIN e = M!Ids
  BY DEF M!Paid
<1>3. e \in M!Moved(d) => DOMAIN e = M!Ids
  BY DEF M!Moved
<1>4. CASE e \in M!Changed(k, d)
  BY <1>2, <1>3, <1>4 DEF M!Changed
<1> QED
  BY <1>1, <1>4

\* Every step of a start keeps it.
LEMMA StartStep ==
  ASSUME StartIInv, M!Next
  PROVE  StartIInv'
<1>1. /\ cache \in Kinds /\ cache \in M!AllKinds /\ M!Steps(cache) \in 1..3 /\ cache' = cache
      /\ DOMAIN db = M!Ids /\ DOMAIN asks.writes \subseteq M!Ids /\ asks.step \in 0..M!Steps(cache)
      /\ asks = [step |-> asks.step, phase |-> asks.phase, writes |-> asks.writes,
                 prepared |-> asks.prepared]
      /\ now \in 0..MaxStarts /\ clock \in 0..MaxLive /\ MaxStarts \in Nat /\ MaxLive \in Nat
  BY ServerAssumption, KindSteps DEF StartIInv, M!TypeOK, M!MigrationsAssumption, M!Next, M!Begin,
     M!Read, M!Write, M!Done, M!Stop, M!Live
<1>2. M!Steps(cache') = M!Steps(cache)
  BY <1>1
<1>3. M!Down = [step |-> 0, phase |-> "down", writes |-> <<>>, prepared |-> {}]
  BY DEF M!Down
<1>4. M!Listening = [step |-> 0, phase |-> "listening", writes |-> <<>>, prepared |-> {}]
  <2>1. PICK none : none = <<>>
    OBVIOUS
  <2>2. M!Down = [step |-> 0, phase |-> "down", writes |-> none, prepared |-> {}]
    BY <1>3, <2>1, Zenon
  <2>3. M!Listening = [M!Down EXCEPT !.phase = "listening"]
    BY Zenon DEF M!Listening
  <2>4. M!Listening = [step |-> 0, phase |-> "listening", writes |-> none, prepared |-> {}]
    BY <2>2, <2>3
  <2> QED
    BY <2>1, <2>4, Zenon
<1>5. DOMAIN <<>> \subseteq M!Ids
  OBVIOUS
<1>6. CASE M!Begin
  <2>1. \/ asks' = M!Down
        \/ asks' = [step |-> 1, phase |-> "reading", writes |-> <<>>, prepared |-> {}]
    BY <1>3, <1>6 DEF M!Begin
  <2>2. now' \in 0..MaxStarts /\ db' = db /\ clock' = clock
    BY <1>1, <1>6 DEF M!Begin
  <2> QED
    BY <1>1, <1>2, <1>3, <1>5, <2>1, <2>2 DEF StartIInv, M!TypeOK
<1>7. CASE M!Read
  <2>1. PICK writes : writes = M!Writes(cache, asks.step, db, asks.prepared)
    OBVIOUS
  <2>2. asks.phase = "reading" /\ asks.step \in 1..M!Steps(cache)
    BY <1>1, <1>7 DEF M!Read, StartIInv
  <2>3. DOMAIN writes \subseteq M!Ids
    BY <1>1, <2>1, <2>2, WritesDocuments
  <2>4. /\ \/ db' = M!Over(writes, db) /\ asks' = [asks EXCEPT !.phase = "writing"]
           \/ /\ db' = db
              /\ asks' = [asks EXCEPT !.phase = "writing", !.writes = writes,
                                      !.prepared = @ \cup DOMAIN writes]
        /\ now' = now /\ clock' = clock
    BY <1>7, <2>1 DEF M!Read
  <2>5. DOMAIN db' = M!Ids
    <3>1. DOMAIN M!Over(writes, db) = DOMAIN writes \cup DOMAIN db
      BY DEF M!Over
    <3> QED
      BY <1>1, <2>3, <2>4, <3>1
  <2>6. /\ asks' = [step |-> asks'.step, phase |-> asks'.phase, writes |-> asks'.writes,
                    prepared |-> asks'.prepared]
        /\ asks'.phase = "writing" /\ asks'.step = asks.step
        /\ asks'.writes = asks.writes \/ asks'.writes = writes
    BY <1>1, <2>4
  <2> QED
    BY <1>1, <1>2, <2>2, <2>3, <2>4, <2>5, <2>6 DEF StartIInv, M!TypeOK
<1>8. CASE M!Write
  <2>1. PICK i \in DOMAIN asks.writes :
          /\ db' = [db EXCEPT ![i] = asks.writes[i]]
          /\ asks' = [asks EXCEPT !.writes =
                        [j \in DOMAIN asks.writes \ {i} |-> asks.writes[j]]]
    BY <1>8 DEF M!Write
  <2>2. PICK left : left = [j \in DOMAIN asks.writes \ {i} |-> asks.writes[j]]
    OBVIOUS
  <2>3. DOMAIN left \subseteq M!Ids
    BY <1>1, <2>2
  <2>4. asks.phase = "writing" /\ now' = now /\ clock' = clock
    BY <1>8 DEF M!Write
  <2>5. DOMAIN db' = M!Ids
    BY <1>1, <2>1
  <2>6. asks' = [step |-> asks.step, phase |-> asks.phase, writes |-> left,
                 prepared |-> asks.prepared]
    BY <1>1, <2>1, <2>2
  <2> QED
    BY <1>1, <1>2, <2>3, <2>4, <2>5, <2>6 DEF StartIInv, M!TypeOK
<1>9. CASE M!Done
  <2>1. \/ /\ asks.step < M!Steps(cache)
           /\ asks' = [asks EXCEPT !.step = asks.step + 1, !.phase = "reading"]
        \/ asks' = M!Listening
    BY <1>9 DEF M!Done
  <2>2. db' = db /\ now' = now /\ clock' = clock
    BY <1>9 DEF M!Done
  <2>3. CASE asks' = M!Listening
    BY <1>1, <1>2, <1>4, <1>5, <2>2, <2>3 DEF StartIInv, M!TypeOK
  <2>4. CASE /\ asks.step < M!Steps(cache)
             /\ asks' = [asks EXCEPT !.step = asks.step + 1, !.phase = "reading"]
    <3>1. asks' = [step |-> asks.step + 1, phase |-> "reading", writes |-> asks.writes,
                   prepared |-> asks.prepared]
      BY <1>1, <2>4
    <3>2. asks.step + 1 \in 1..M!Steps(cache)
      BY <1>1, <2>4
    <3> QED
      BY <1>1, <1>2, <2>2, <3>1, <3>2 DEF StartIInv, M!TypeOK
  <2> QED
    BY <2>1, <2>3, <2>4
<1>10. CASE M!Stop
  <2>1. asks' = M!Down /\ db' = db /\ now' = now /\ clock' = clock
    BY <1>10 DEF M!Stop
  <2> QED
    BY <1>1, <1>2, <1>3, <1>5, <2>1 DEF StartIInv, M!TypeOK
<1>11. CASE M!Live
  <2>1. asks' = asks /\ now' = now /\ clock' \in 0..MaxLive /\ DOMAIN db' = M!Ids
    BY <1>1, <1>11, LiveDocuments DEF M!Live
  <2> QED
    BY <1>1, <1>2, <2>1 DEF StartIInv, M!TypeOK
<1> QED
  BY <1>6, <1>7, <1>8, <1>9, <1>10, <1>11 DEF M!Next

\* Accounts, plans, the platform's records and pages: each part's documents have their shapes,
\* within their bounds, in every behaviour.  Of a migration this says only which documents it
\* writes, not what they hold.
THEOREM ServerTypeTheorem == Spec => []TypeOK
<1> DEFINE IInv == /\ part \in {"page", "kds"} => G!TypeOK(MCPages)
                   /\ part = "pane" => PaneIInv
                   /\ part = "migration" => StartIInv
                   /\ part = "quota" => QuotaIInv /\ QuotaBounded
           Others == /\ part = "audit" => TrailIInv
                     /\ part = "platform" => PlatformIInv
                     /\ part = "subscription" => SubscriptionIInv
                     /\ part = "form" => FormIInv
                     /\ part = "catalogue" => CatalogueIInv
                     /\ part = "role" => RoleIInv
                     /\ part = "plan" => PlanIInv
                     /\ part = "accounts" => AccountsIInv
                     /\ part = "socket" => SocketIInv
<1>1. Init => IInv
  BY PageTypesInit, PaneInit, StartInit, QuotaInit, BoundedInit DEF Init
<1>2. ASSUME IInv, [Next]_vars
      PROVE  IInv'
  <2>1. /\ part' = part
        /\ part \in {"page", "kds"} => G!Next \/ UNCHANGED <<db, cache, work, tokens, asks>>
        /\ part = "pane" => D!Next \/ UNCHANGED <<db, asks>>
        /\ part = "migration" => M!Next \/ UNCHANGED <<cache, db, asks, now, clock>>
    BY <1>2 DEF Next, vars
  <2>2. CASE part \in {"page", "kds"}
    <3>1. UNCHANGED <<db, cache, work, tokens, asks>> => G!TypeOK(MCPages)'
      BY <1>2, <2>2 DEF G!TypeOK
    <3>2. G!Next => G!TypeOK(MCPages)'
      BY <1>2, <2>2, PageTypesServer, PageTypesPage DEF G!Next
    <3> QED
      BY <2>1, <2>2, <3>1, <3>2
  <2>3. CASE part = "pane"
    <3>1. UNCHANGED <<db, asks>> => PaneIInv'
      BY <1>2, <2>3 DEF PaneIInv, Right, D!TypeOK, D!Loading, D!Numbered
    <3> QED
      BY <1>2, <2>1, <2>3, <3>1, PaneStep
  <2>4. CASE part = "migration"
    <3>1. UNCHANGED <<cache, db, asks, now, clock>> => StartIInv'
      BY <1>2, <2>4 DEF StartIInv, M!TypeOK
    <3> QED
      BY <1>2, <2>1, <2>4, <3>1, StartStep
  <2>5. CASE part = "quota"
    BY <1>2, <2>1, <2>5, PlanSteps, QuotaKept, QuotaStaysBounded
  <2> QED
    BY <2>1, <2>2, <2>3, <2>4, <2>5
<1>3. IInv /\ Others => TypeOK
  <2> SUFFICES ASSUME IInv, Others
               PROVE  TypeOK
    OBVIOUS
  <2>1. /\ part = "audit" => T!TypeOK
        /\ part = "form" => B!TypeOK(MCForms)
        /\ part = "catalogue" => C!TypeOK
    BY DEF TrailIInv, FormIInv, CatalogueIInv
  <2>2. /\ part = "role" => R!TypeOK
        /\ part = "accounts" => A!TypeOK
        /\ part = "socket" => K!TypeOK
        /\ part = "plan" => E!TypeOK
    BY PlanTypes DEF RoleIInv, AccountsIInv, SocketIInv
  <2>3. /\ part = "platform" => F!TypeOK
        /\ part = "subscription" => S!TypeOK
    BY DEF PlatformIInv, PlatformTypeOK, PlatformDocs, F!TypeOK, SubscriptionIInv, S!TypeOK
  <2>4. /\ part \in {"page", "kds"} => G!TypeOK(MCPages)
        /\ part = "pane" => D!TypeOK(MCPanes)
        /\ part = "migration" => M!TypeOK
        /\ part = "quota" => Q!TypeOK
    BY QuotaTypes DEF PaneIInv, StartIInv
  <2> QED
    BY <2>1, <2>2, <2>3, <2>4 DEF TypeOK
<1>4. Spec => []IInv
  BY <1>1, <1>2, PTL DEF Spec
<1>5. Spec => []Others
  BY TrailHolds, PlatformHolds, PlanHolds, FormsHold, AccessHolds, PTL
<1> HIDE DEF IInv, Others
<1> QED
  BY <1>3, <1>4, <1>5, PTL
===============================================================================
