----------------------------- MODULE GuardProofs -----------------------------
(***************************************************************************)
(* The two guards that need no transaction: each is one document of the    *)
(* database and the conditional writes to it.                              *)
(*                                                                         *)
(* The scheduler's lease, for any number of instances and runs, any clock  *)
(* skew and any faults: with timely renewals, one sweeper; whatever the    *)
(* timing, an unexpired lease that nobody takes away.  Its invariant is    *)
(* inductive once it says where the lease document comes from: the run     *)
(* that may go on writing owns it, what is left of it is exactly what that *)
(* run's last timestamp bought, and no timestamp is older than MaxGap.     *)
(*                                                                         *)
(* The plan's counters, for any number of concurrent requests, any plan    *)
(* and any failures.  The argument counts, for each resource, the rows and *)
(* the units requests still hold.  A unit is taken only by the conditional *)
(* increment, so the sum stays below both the counter and the ceiling;     *)
(* every later step keeps it or trades a held unit for a row.  Trading one *)
(* for one needs that a request about to insert holds exactly the limited  *)
(* resources its row counts against, and that it never takes a resource    *)
(* twice: that is what TakenInOrder adds.  What a refusal means needs the  *)
(* converse: while nothing fails and nobody inserts past the gate, the     *)
(* counter is exactly the rows and the units held (ExactCounters).         *)
(***************************************************************************)
EXTENDS SchedulerLease, QuotaGuard, FiniteSetTheorems, TLAPS

-------------------------------------------------------------------------------
(* The scheduler's lease.                                                  *)

\* Every timestamp a run may still write, or stands on, is at most MaxGap old.
GapsBounded == \A r \in Runs : age[r] <= MaxGap /\ pending[r] <= MaxGap

-------------------------------------------------------------------------------
\* Type correctness of the lease and of the runs' locals, whatever the timing.
THEOREM LeaseTypeCorrect == LeaseSpec => []LeaseTypeOK
<1>1. LeaseInit => LeaseTypeOK
  BY DEF LeaseInit, LeaseTypeOK, NoLease, NotSent
<1>2. LeaseTypeOK /\ [LeaseNext]_leaseVars => LeaseTypeOK'
  <2> SUFFICES ASSUME LeaseTypeOK, [LeaseNext]_leaseVars PROVE LeaseTypeOK'
    OBVIOUS
  <2> USE HostAssumption, TimeAssumption, FailureAssumption
  <2>1. ASSUME NEW r \in Runs, Tick(r) PROVE LeaseTypeOK'
    <3> USE <2>1 DEF LeaseTypeOK, NotSent
    <3>0. \A a \in Nat : Expiry(r, a) \in Int
      BY DEF Expiry
    <3>1. CASE StartTick(r)
      BY <3>1 DEF StartTick
    <3>2. CASE AcquireGranted(r)
      BY <3>0, <3>2 DEF AcquireGranted
    <3>3. CASE AcquireRefused(r)
      BY <3>3 DEF AcquireRefused, Forget
    <3>4. CASE AcquireError(r)
      BY <3>0, <3>4 DEF AcquireError, Forget, CallFails
    <3>5. CASE RenewSend(r)
      BY <3>5 DEF RenewSend
    <3>6. CASE RenewAnswer(r)
      <4>1. lease' \in [owner : Runs \cup {None}, left : Int]
        BY <3>0, <3>6 DEF RenewAnswer, RenewDocument
      <4>2. age' \in [Runs -> Nat] /\ pending' \in [Runs -> Nat \cup {NotSent}]
        BY <3>6 DEF RenewAnswer, LoseLease
      <4>3. lost' \in [Runs -> BOOLEAN]
        BY <3>6, Zenon DEF RenewAnswer, LoseLease
      <4> QED
        BY <3>6, <4>1, <4>2, <4>3 DEF RenewAnswer
    <3>7. CASE RenewError(r)
      <4>1. lease' \in [owner : Runs \cup {None}, left : Int]
        BY <3>0, <3>7 DEF RenewError, RenewDocument
      <4>2. lost' \in [Runs -> BOOLEAN]
        BY <3>7, Zenon DEF RenewError, LoseLease
      <4> QED
        BY <3>7, <4>1, <4>2 DEF RenewError, LoseLease, CallFails
    <3>8. CASE FinishSweep(r)
      BY <3>8 DEF FinishSweep, Forget
    <3>9. CASE Release(r)
      BY <3>9 DEF Release, DeleteDocument, NoLease
    <3>10. CASE ReleaseError(r)
      BY <3>10 DEF ReleaseError, CallFails
    <3> QED
      BY <3>1, <3>2, <3>3, <3>4, <3>5, <3>6, <3>7, <3>8, <3>9, <3>10 DEF Tick
  <2>2. ASSUME NEW i \in Instances,
               StartScheduler(i) \/ StopScheduler(i) \/ ContainerDies(i)
        PROVE LeaseTypeOK'
    <3>1. CASE StartScheduler(i)
      BY <3>1 DEF LeaseTypeOK, StartScheduler
    <3>2. CASE StopScheduler(i)
      BY <3>2 DEF LeaseTypeOK, StopScheduler
    <3>3. CASE ContainerDies(i)
      <4>1. /\ phase' \in [Runs -> {"idle", "acquiring", "sweeping", "releasing"}]
            /\ pending' \in [Runs -> Nat \cup {NotSent}]
            /\ timer' \in [Instances -> BOOLEAN]
            /\ failures' \in Nat
        BY <3>3 DEF LeaseTypeOK, ContainerDies, CallFails, NotSent
      <4>2. /\ lost' \in [Runs -> BOOLEAN]
            /\ age' \in [Runs -> Nat]
            /\ current' \in [Runs -> BOOLEAN]
        BY <3>3 DEF LeaseTypeOK, ContainerDies, Forget
      <4> QED
        BY <3>3, <4>1, <4>2 DEF LeaseTypeOK, ContainerDies
    <3> QED
      BY <2>2, <3>1, <3>2, <3>3
  <2>3. CASE TTLMonitor
    BY <2>3 DEF LeaseTypeOK, TTLMonitor, NoLease
  <2>4. CASE Advance
    BY <2>4 DEF LeaseTypeOK, Advance, NotSent
  <2>5. CASE UNCHANGED leaseVars
    BY <2>5 DEF LeaseTypeOK, leaseVars
  <2> QED
    BY <2>1, <2>2, <2>3, <2>4, <2>5 DEF LeaseNext
<1> QED
  BY <1>1, <1>2, PTL DEF LeaseSpec

-------------------------------------------------------------------------------
\* No timestamp gets older than MaxGap: time stands still for a run that is due.
LEMMA GapsStayBounded == LeaseSpec => []GapsBounded
<1>1. LeaseInit => GapsBounded
  BY TimeAssumption DEF LeaseInit, GapsBounded, NotSent
<1>2. LeaseTypeOK /\ GapsBounded /\ [LeaseNext]_leaseVars => GapsBounded'
  <2> SUFFICES ASSUME LeaseTypeOK, GapsBounded, [LeaseNext]_leaseVars PROVE GapsBounded'
    OBVIOUS
  <2> USE TimeAssumption DEF LeaseTypeOK, GapsBounded, NotSent
  <2>1. ASSUME NEW r \in Runs, Tick(r) PROVE GapsBounded'
    <3>1. CASE StartTick(r) \/ AcquireGranted(r) \/ ReleaseError(r) \/ Release(r)
      BY <3>1 DEF StartTick, AcquireGranted, ReleaseError, Release
    <3>2. CASE AcquireRefused(r) \/ AcquireError(r) \/ FinishSweep(r)
      BY <3>2 DEF AcquireRefused, AcquireError, FinishSweep, Forget
    <3>3. CASE RenewSend(r)
      BY <3>3 DEF RenewSend
    <3>4. CASE RenewAnswer(r)
      BY <3>4 DEF RenewAnswer, LoseLease
    <3>5. CASE RenewError(r)
      BY <3>5 DEF RenewError, LoseLease
    <3> QED
      BY <2>1, <3>1, <3>2, <3>3, <3>4, <3>5 DEF Tick
  <2>2. ASSUME NEW i \in Instances,
               StartScheduler(i) \/ StopScheduler(i) \/ ContainerDies(i)
        PROVE GapsBounded'
    BY <2>2 DEF StartScheduler, StopScheduler, ContainerDies, Forget
  <2>3. CASE TTLMonitor
    BY <2>3 DEF TTLMonitor
  <2>4. CASE Advance
    BY <2>4 DEF Advance, Aging
  <2>5. CASE UNCHANGED leaseVars
    BY <2>5 DEF leaseVars
  <2> QED
    BY <2>1, <2>2, <2>3, <2>4, <2>5 DEF LeaseNext
<1> QED
  BY <1>1, <1>2, LeaseTypeCorrect, PTL DEF LeaseSpec

\* With timely renewals a lease that a run still stands on is lapsed for no one.
LEMMA SweeperNotLapsed ==
  ASSUME TimelyRenewal, LeaseTypeOK, GapsBounded, SweeperHoldsLease,
         NEW r \in Runs, ShouldContinue(r)
  PROVE  /\ lease.left > 0
         /\ \A s \in Runs : Acquirable(s) => FALSE
<1>1. age[r] \in Nat /\ age[r] <= MaxGap
  BY DEF LeaseTypeOK, GapsBounded
<1>2. lease.owner = r /\ lease.left = TTL + Skew[Host[r]] - age[r]
  BY DEF SweeperHoldsLease, Expiry
<1>3. Host[r] \in Instances /\ Skew[Host[r]] \in Int
  BY HostAssumption, TimeAssumption
<1>4. lease.left > 0
  BY <1>1, <1>2, <1>3, TimeAssumption DEF TimelyRenewal
<1>5. ASSUME NEW s \in Runs PROVE ~Acquirable(s)
  <2>1. Host[s] \in Instances /\ Skew[Host[s]] \in Int /\ age[s] \in Nat
    BY HostAssumption, TimeAssumption DEF LeaseTypeOK
  <2>2. MaxGap + Skew[Host[s]] - Skew[Host[r]] < TTL
    BY <1>3, <2>1 DEF TimelyRenewal
  <2> QED
    BY <1>1, <1>2, <1>3, <2>1, <2>2, NoneAssumption, TimeAssumption DEF Acquirable
<1> QED
  BY <1>4, <1>5

\* The lease document belongs to the run that may go on writing.
THEOREM HolderTheorem == ASSUME TimelyRenewal PROVE LeaseSpec => []SweeperHoldsLease
<1>1. LeaseInit => SweeperHoldsLease
  BY DEF LeaseInit, SweeperHoldsLease, ShouldContinue
<1>2. LeaseTypeOK /\ GapsBounded /\ SweeperHoldsLease /\ [LeaseNext]_leaseVars
        => SweeperHoldsLease'
  <2> SUFFICES ASSUME LeaseTypeOK, GapsBounded, SweeperHoldsLease, [LeaseNext]_leaseVars,
                      NEW s \in Runs, ShouldContinue(s)'
               PROVE  lease'.owner = s /\ lease'.left = Expiry(s, age[s])'
    BY DEF SweeperHoldsLease
  <2> USE HostAssumption, NoneAssumption, TimeAssumption
      DEF LeaseTypeOK, NotSent, ShouldContinue
  <2>0. ShouldContinue(s) => /\ lease.owner = s /\ lease.left = Expiry(s, age[s])
                             /\ lease.left > 0 /\ \A t \in Runs : ~Acquirable(t)
    BY SweeperNotLapsed DEF SweeperHoldsLease
  <2>1. ASSUME NEW r \in Runs, Tick(r)
        PROVE lease'.owner = s /\ lease'.left = Expiry(s, age[s])'
    <3>1. CASE StartTick(r)
      BY <2>0, <3>1 DEF StartTick, Expiry
    <3>2. CASE AcquireGranted(r)
      BY <2>0, <3>2 DEF AcquireGranted, Expiry
    <3>3. CASE AcquireRefused(r)
      BY <2>0, <3>3 DEF AcquireRefused, Expiry, Forget
    <3>4. CASE AcquireError(r)
      BY <2>0, <3>4 DEF AcquireError, Expiry, Forget
    <3>5. CASE RenewSend(r)
      BY <2>0, <3>5 DEF RenewSend, Expiry
    <3>6. CASE RenewAnswer(r)
      <4>1. ShouldContinue(s)
        BY <3>6 DEF RenewAnswer, LoseLease
      <4>2. CASE r = s
        <5>1. /\ age' = [age EXCEPT ![s] = pending[s]]
              /\ lease' = [lease EXCEPT !.left = Expiry(s, pending[s])]
          BY <2>0, <3>6, <4>1, <4>2 DEF RenewAnswer, RenewDocument, TimerArmed
        <5>2. Expiry(s, age[s])' = Expiry(s, pending[s])
          BY <5>1 DEF Expiry
        <5> QED
          BY <2>0, <4>1, <5>1, <5>2
      <4>3. CASE r # s
        BY <2>0, <3>6, <4>1, <4>3 DEF RenewAnswer, RenewDocument, LoseLease, Expiry
      <4> QED
        BY <4>2, <4>3
    <3>7. CASE RenewError(r)
      <4>1. r # s /\ ShouldContinue(s)
        BY <3>7 DEF RenewError, LoseLease
      <4> QED
        BY <2>0, <3>7, <4>1 DEF RenewError, RenewDocument, LoseLease, Expiry
    <3>8. CASE FinishSweep(r)
      BY <2>0, <3>8 DEF FinishSweep, Expiry, Forget
    <3>9. CASE Release(r)
      BY <2>0, <3>9 DEF Release, DeleteDocument, Expiry
    <3>10. CASE ReleaseError(r)
      BY <2>0, <3>10 DEF ReleaseError, Expiry
    <3> QED
      BY <2>1, <3>1, <3>2, <3>3, <3>4, <3>5, <3>6, <3>7, <3>8, <3>9, <3>10 DEF Tick
  <2>2. ASSUME NEW i \in Instances,
               StartScheduler(i) \/ StopScheduler(i) \/ ContainerDies(i)
        PROVE lease'.owner = s /\ lease'.left = Expiry(s, age[s])'
    BY <2>0, <2>2 DEF StartScheduler, StopScheduler, ContainerDies, Forget, Expiry
  <2>3. CASE TTLMonitor
    BY <2>0, <2>3 DEF TTLMonitor
  <2>4. CASE Advance
    <3>1. ShouldContinue(s)
      BY <2>4 DEF Advance
    <3>2. lease' = [lease EXCEPT !.left = @ - 1] /\ age'[s] = age[s] + 1
      BY <2>0, <2>4, <3>1 DEF Advance, Aging
    <3> QED
      BY <2>0, <3>1, <3>2 DEF Expiry
  <2>5. CASE UNCHANGED leaseVars
    BY <2>0, <2>5 DEF leaseVars, Expiry
  <2> QED
    BY <2>1, <2>2, <2>3, <2>4, <2>5 DEF LeaseNext
<1> QED
  BY <1>1, <1>2, LeaseTypeCorrect, GapsStayBounded, PTL DEF LeaseSpec

\* At most one run goes on writing, however many instances tick and whatever
\* fails, as long as renewals are timely.
THEOREM MutualExclusion == ASSUME TimelyRenewal PROVE LeaseSpec => []OneSweeper
<1>1. SweeperHoldsLease => OneSweeper
  BY DEF SweeperHoldsLease, OneSweeper
<1> QED
  BY <1>1, HolderTheorem, PTL

\* An unexpired lease only changes hands when its own run is past its sweep: no
\* answer, release or acquisition that a slow instance gets late can end it, and
\* this needs no assumption on how timely anybody renews.
THEOREM UnexpiredLeaseTheorem == LeaseSpec => UnexpiredLeaseIsKept
<1> DEFINE Kept == \A r \in Runs : lease.owner = r /\ ~LapsedForAll
                       => lease'.owner = r \/ phase[r] = "releasing"
<1>1. LeaseTypeOK /\ [LeaseNext]_leaseVars => Kept
  <2> SUFFICES ASSUME LeaseTypeOK, [LeaseNext]_leaseVars, NEW r \in Runs,
                      lease.owner = r, ~LapsedForAll, phase[r] # "releasing"
               PROVE  lease'.owner = r
    OBVIOUS
  <2> USE HostAssumption, NoneAssumption, TimeAssumption DEF LeaseTypeOK
  <2>1. lease.left > 0 /\ \A i \in Instances : lease.left > Skew[i]
    BY DEF LapsedForAll
  <2>2. ASSUME NEW s \in Runs PROVE ~Acquirable(s)
    BY <2>1 DEF Acquirable
  <2>3. ASSUME NEW s \in Runs, Tick(s) PROVE lease'.owner = r
    <3>1. CASE AcquireGranted(s) \/ AcquireRefused(s) \/ AcquireError(s)
      BY <2>2, <3>1 DEF AcquireGranted, AcquireRefused, AcquireError
    <3>2. CASE RenewAnswer(s) \/ RenewError(s)
      BY <3>2 DEF RenewAnswer, RenewError, RenewDocument
    <3>3. CASE Release(s)
      BY <3>3 DEF Release, DeleteDocument
    <3>4. CASE StartTick(s) \/ RenewSend(s) \/ FinishSweep(s) \/ ReleaseError(s)
      BY <3>4 DEF StartTick, RenewSend, FinishSweep, ReleaseError
    <3> QED
      BY <2>3, <3>1, <3>2, <3>3, <3>4 DEF Tick
  <2>4. CASE \E i \in Instances : StartScheduler(i) \/ StopScheduler(i) \/ ContainerDies(i)
    BY <2>4 DEF StartScheduler, StopScheduler, ContainerDies
  <2>5. CASE TTLMonitor
    BY <2>1, <2>5 DEF TTLMonitor
  <2>6. CASE Advance
    BY <2>6 DEF Advance
  <2>7. CASE UNCHANGED leaseVars
    BY <2>7 DEF leaseVars
  <2> QED
    BY <2>3, <2>4, <2>5, <2>6, <2>7 DEF LeaseNext
<1>2. UnexpiredLeaseIsKept <=> [][Kept]_leaseVars
  BY DEF UnexpiredLeaseIsKept
<1> QED
  BY <1>1, <1>2, LeaseTypeCorrect, PTL DEF LeaseSpec
-------------------------------------------------------------------------------
(* The plan's counters.                                                     *)

\* A request holds what its finished reservations took.
TakenInOrder ==
    \A p \in Requests :
        /\ pc[p] = "idle" => taken[p] = {} /\ step[p] = 1
        /\ pc[p] \in {"count", "settle", "raise", "take"} =>
               taken[p] = {Wants[p][i] : i \in 1..(step[p] - 1)} \cap Limited
        /\ pc[p] \in {"settle", "raise", "take"} => Target(p) \in Limited
        /\ pc[p] = "create" => taken[p] = WantSet(p) \cap Limited

-------------------------------------------------------------------------------
\* A request's target is one of the resources it wants.
LEMMA TargetWanted ==
  ASSUME TypeOK, NEW p \in Requests
  PROVE  /\ Target(p) \in Resources
         /\ Target(p) \in WantSet(p)
         /\ WantSet(p) \subseteq Resources
BY WantsAssumption DEF TypeOK, Target, WantSet

\* Any write of a proper value to one counter leaves proper counters.
LEMMA CounterUpdate ==
  ASSUME TypeOK, NEW t, NEW v, t \in Limited => v \in Int /\ v >= NoRow,
         counter' = [counter EXCEPT ![t] = v]
  PROVE  counter' \in [Limited -> Int] /\ \A r \in Limited : counter'[r] >= NoRow
<1>1. CASE t \in Limited
  BY <1>1 DEF TypeOK, NoRow
<1>2. CASE t \notin Limited
  BY <1>2 DEF TypeOK
<1> QED
  BY <1>1, <1>2

\* The variables of the document and of the requests keep their types.
LEMMA TypeStep == TypeOK /\ TakenInOrder /\ [Next]_vars => TypeOK'
<1> SUFFICES ASSUME TypeOK, TakenInOrder, [Next]_vars PROVE TypeOK'
  OBVIOUS
<1> USE LimitAssumption, BoundAssumption
<1>1. ASSUME NEW p \in Requests, Step(p) PROVE TypeOK'
  <2>0. /\ Target(p) \in Resources /\ WantSet(p) \subseteq Resources
        /\ Len(Wants[p]) \in Nat /\ Len(Wants[p]) >= 1 /\ step[p] \in 1..Len(Wants[p])
    BY TargetWanted DEF TypeOK
  <2>1. Continue(p) => /\ pc' \in [Requests -> Steps]
                       /\ step' \in [Requests -> Nat]
                       /\ \A q \in Requests : step'[q] \in 1..Len(Wants[q])
    <3> SUFFICES ASSUME Continue(p)
                 PROVE  /\ pc' \in [Requests -> Steps]
                        /\ step' \in [Requests -> Nat]
                        /\ \A q \in Requests : step'[q] \in 1..Len(Wants[q])
      OBVIOUS
    <3>1. pc' \in [Requests -> Steps] /\ step' \in [Requests -> Nat]
      <4>1. CASE step[p] < Len(Wants[p])
        <5>1. /\ step' = [step EXCEPT ![p] = step[p] + 1]
              /\ pc' = [pc EXCEPT ![p] = "count"]
          BY <4>1 DEF Continue
        <5>2. step[p] + 1 \in Nat
          BY DEF TypeOK
        <5> QED
          BY <5>1, <5>2 DEF TypeOK, Steps
      <4>2. CASE ~(step[p] < Len(Wants[p]))
        BY <4>2 DEF Continue, TypeOK, Steps
      <4> QED
        BY <4>1, <4>2
    <3>2. \A q \in Requests \ {p} : step'[q] = step[q]
      BY DEF Continue, TypeOK
    <3>3. step'[p] \in 1..Len(Wants[p])
      <4>1. CASE step[p] < Len(Wants[p])
        <5>1. step'[p] = step[p] + 1
          BY <4>1 DEF Continue, TypeOK
        <5> QED
          BY <2>0, <4>1, <5>1
      <4>2. CASE ~(step[p] < Len(Wants[p]))
        BY <2>0, <4>2 DEF Continue
      <4> QED
        BY <4>1, <4>2
    <3> QED
      BY <3>1, <3>2, <3>3 DEF TypeOK
  <2>2. Return(p) => /\ pc' \in [Requests -> Steps]
                     /\ step' \in [Requests -> Nat]
                     /\ \A q \in Requests : step'[q] \in 1..Len(Wants[q])
                     /\ seen' \in [Requests -> Int]
                     /\ taken' \in [Requests -> SUBSET Limited]
    BY <2>0 DEF Return, Goto, TypeOK, Steps
  <2>3. CASE Begin(p)
    BY <2>3 DEF Begin, Goto, TypeOK, Steps
  <2>4. CASE SkipUnlimited(p)
    BY <2>1, <2>4 DEF SkipUnlimited, TypeOK
  <2>5. CASE CountActual(p)
    BY <2>0, <2>5 DEF CountActual, Goto, TypeOK, Steps
  <2>6. CASE Settle(p)
    <3>1. Target(p) \in Limited => /\ Settled(counter[Target(p)]) \in Int
                                  /\ Settled(counter[Target(p)]) >= NoRow
      BY DEF Settled, TypeOK, NoRow
    <3> QED
      BY <2>6, <3>1, CounterUpdate DEF Settle, Goto, TypeOK, Steps
  <2>7. CASE Raise(p)
    <3>1. Target(p) \in Limited => /\ Raised(counter[Target(p)], seen[p]) \in Int
                                  /\ Raised(counter[Target(p)], seen[p]) >= NoRow
      BY DEF Raised, TypeOK, NoRow
    <3> QED
      BY <2>7, <3>1, CounterUpdate DEF Raise, Goto, TypeOK, Steps
  <2>8. CASE Take(p)
    <3>1. Target(p) \in Limited
      BY <2>8 DEF Take, TakenInOrder
    <3>2. taken' \in [Requests -> SUBSET Limited]
      BY <2>8, <3>1 DEF Take, TypeOK
    <3>3. counter[Target(p)] + 1 \in Int /\ counter[Target(p)] + 1 >= NoRow
      BY <3>1 DEF TypeOK, NoRow
    <3> QED
      BY <2>1, <2>8, <3>2, <3>3, CounterUpdate DEF Take, TypeOK
  <2>9. CASE Refuse(p)
    BY <2>9 DEF Refuse, Goto, TypeOK, Steps
  <2>10. CASE ReserveError(p)
    <3>1. Target(p) \in Limited => /\ counter[Target(p)] + 1 \in Int
                                  /\ counter[Target(p)] + 1 >= NoRow
      BY DEF TypeOK, NoRow
    <3>2. counter' \in [Limited -> Int] /\ \A r \in Limited : counter'[r] >= NoRow
      BY <2>10, <3>1, CounterUpdate DEF ReserveError, TypeOK
    <3> QED
      BY <2>10, <3>2 DEF ReserveError, Fault, Goto, TypeOK, Steps
  <2>11. CASE Create(p)
    BY <2>2, <2>11 DEF Create, Insert, TypeOK
  <2>12. CASE CreateFails(p)
    BY <2>12 DEF CreateFails, Goto, TypeOK, Steps
  <2>13. CASE CreateUnanswered(p)
    BY <2>13 DEF CreateUnanswered, Insert, Fault, Goto, TypeOK, Steps
  <2>14. CASE Unwind(p)
    <3>1. PICK r \in taken[p] :
              /\ taken' = [taken EXCEPT ![p] = @ \ {r}]
              /\ \/ counter' = [counter EXCEPT ![r] = Released(@)] /\ faults' = faults
                 \/ Fault /\ counter' = counter
      BY <2>14 DEF Unwind
    <3>2. r \in Limited
      BY <3>1 DEF TypeOK
    <3>3. Released(counter[r]) \in Int /\ Released(counter[r]) >= NoRow
      BY <3>2 DEF Released, TypeOK, NoRow
    <3>4. counter' \in [Limited -> Int] /\ \A q \in Limited : counter'[q] >= NoRow
      BY <3>1, <3>3, CounterUpdate DEF TypeOK
    <3>5. taken' \in [Requests -> SUBSET Limited]
      BY <3>1 DEF TypeOK
    <3> QED
      BY <2>14, <3>1, <3>4, <3>5 DEF Unwind, Fault, TypeOK
  <2>15. CASE Throw(p)
    BY <2>2, <2>15 DEF Throw, TypeOK
  <2>16. CASE Crash(p)
    BY <2>2, <2>16 DEF Crash, Fault, TypeOK
  <2> QED
    BY <1>1, <2>3, <2>4, <2>5, <2>6, <2>7, <2>8, <2>9, <2>10, <2>11, <2>12,
       <2>13, <2>14, <2>15, <2>16 DEF Step
<1>2. ASSUME NEW r \in Resources, UnguardedInsert(r) PROVE TypeOK'
  BY <1>2 DEF UnguardedInsert, TypeOK
<1>3. ASSUME NEW from \in Roles, NEW to \in Roles, AssignRole(from, to) PROVE TypeOK'
  BY <1>3 DEF AssignRole, TypeOK
<1>4. CASE UNCHANGED vars
  BY <1>4 DEF vars, TypeOK
<1> QED
  BY <1>1, <1>2, <1>3, <1>4 DEF Next

-------------------------------------------------------------------------------
\* Only the request that takes a step changes what it holds and where it is.
LEMMA OthersUntouched ==
  ASSUME TypeOK, NEW p \in Requests, Step(p), NEW q \in Requests, q # p
  PROVE  pc'[q] = pc[q] /\ step'[q] = step[q] /\ taken'[q] = taken[q]
<1> USE DEF TypeOK, Goto, Continue, Return
<1>1. CASE Begin(p) \/ SkipUnlimited(p) \/ CountActual(p) \/ Settle(p) \/ Raise(p)
  BY <1>1 DEF Begin, SkipUnlimited, CountActual, Settle, Raise
<1>2. CASE Take(p) \/ Refuse(p) \/ ReserveError(p)
  BY <1>2 DEF Take, Refuse, ReserveError
<1>3. CASE Create(p) \/ CreateFails(p) \/ CreateUnanswered(p)
  BY <1>3 DEF Create, CreateFails, CreateUnanswered
<1>4. CASE Unwind(p) \/ Throw(p) \/ Crash(p)
  BY <1>4 DEF Unwind, Throw, Crash
<1> QED
  BY <1>1, <1>2, <1>3, <1>4 DEF Step

\* What a request holds after each of its own steps.
LEMMA OrderStep == TypeOK /\ TakenInOrder /\ [Next]_vars => TakenInOrder'
<1> SUFFICES ASSUME TypeOK, TakenInOrder, [Next]_vars PROVE TakenInOrder'
  OBVIOUS
<1> DEFINE Held(p) ==
      /\ pc[p] = "idle" => taken[p] = {} /\ step[p] = 1
      /\ pc[p] \in {"count", "settle", "raise", "take"} =>
             taken[p] = {Wants[p][i] : i \in 1..(step[p] - 1)} \cap Limited
      /\ pc[p] \in {"settle", "raise", "take"} => Target(p) \in Limited
      /\ pc[p] = "create" => taken[p] = WantSet(p) \cap Limited
<1>1. ASSUME NEW p \in Requests, Step(p) PROVE TakenInOrder'
  <2>1. ASSUME NEW q \in Requests, q # p PROVE Held(q)'
    <3>1. pc'[q] = pc[q] /\ step'[q] = step[q] /\ taken'[q] = taken[q]
      BY <1>1, <2>1, OthersUntouched
    <3>2. Held(q)
      BY DEF TakenInOrder
    <3> QED
      BY <3>1, <3>2 DEF Target, WantSet
  <2>2. Held(p)'
    <3> DEFINE n == step[p]
    <3>0. /\ Held(p)
          /\ n \in 1..Len(Wants[p]) /\ Len(Wants[p]) \in Nat
          /\ taken[p] \subseteq Limited
      BY WantsAssumption DEF TakenInOrder, TypeOK
    <3>1. ASSUME Continue(p), taken'[p] = {Wants[p][i] : i \in 1..n} \cap Limited
          PROVE  Held(p)'
      <4>1. CASE n < Len(Wants[p])
        <5>1. step'[p] = n + 1 /\ pc'[p] = "count" /\ (n + 1) - 1 = n
          BY <3>0, <3>1, <4>1 DEF Continue, TypeOK
        <5> QED
          BY <3>1, <5>1
      <4>2. CASE ~(n < Len(Wants[p]))
        <5>1. n = Len(Wants[p]) /\ pc'[p] = "create"
          BY <3>0, <3>1, <4>2 DEF Continue, TypeOK
        <5> QED
          BY <3>1, <5>1 DEF WantSet
      <4> QED
        BY <4>1, <4>2
    <3>2. {Wants[p][i] : i \in 1..n} = {Wants[p][i] : i \in 1..(n-1)} \cup {Target(p)}
      <4>1. 1..n = 1..(n-1) \cup {n}
        BY <3>0
      <4> QED
        BY <4>1 DEF Target
    <3>3. CASE Begin(p)
      <4>1. pc'[p] = "count" /\ step'[p] = step[p] /\ taken'[p] = {} /\ step[p] = 1
        BY <3>0, <3>3 DEF Begin, Goto, TypeOK
      <4> QED
        BY <4>1
    <3>4. CASE SkipUnlimited(p)
      BY <3>0, <3>1, <3>2, <3>4 DEF SkipUnlimited
    <3>5. CASE CountActual(p) \/ Settle(p) \/ Raise(p)
      <4>1. /\ pc'[p] \in {"settle", "raise", "take"} /\ Target(p) \in Limited
            /\ step'[p] = step[p] /\ taken'[p] = taken[p]
            /\ pc[p] \in {"count", "settle", "raise"}
        BY <3>0, <3>5 DEF CountActual, Settle, Raise, Goto, TypeOK
      <4> QED
        BY <3>0, <4>1 DEF Target
    <3>6. CASE Take(p)
      <4>1. taken'[p] = taken[p] \cup {Target(p)} /\ Target(p) \in Limited /\ pc[p] = "take"
        BY <3>0, <3>6 DEF Take, TypeOK
      <4> QED
        BY <3>0, <3>1, <3>2, <3>6, <4>1 DEF Take
    <3>7. CASE Refuse(p) \/ ReserveError(p) \/ CreateFails(p) \/ CreateUnanswered(p)
               \/ Unwind(p)
      <4>1. pc'[p] = "unwind"
        BY <3>7 DEF Refuse, ReserveError, CreateFails, CreateUnanswered, Unwind,
                    Goto, TypeOK
      <4> QED
        BY <4>1
    <3>8. CASE Create(p) \/ Throw(p) \/ Crash(p)
      <4>1. pc'[p] = "idle" /\ taken'[p] = {} /\ step'[p] = 1
        BY <3>8 DEF Create, Throw, Crash, Return, Goto, TypeOK
      <4> QED
        BY <4>1
    <3> QED
      BY <1>1, <3>3, <3>4, <3>5, <3>6, <3>7, <3>8 DEF Step
  <2> QED
    BY <2>1, <2>2 DEF TakenInOrder
<1>2. CASE \/ \E r \in Resources \ Roles : UnguardedInsert(r)
           \/ \E from, to \in Roles : AssignRole(from, to)
           \/ UNCHANGED vars
  BY <1>2 DEF UnguardedInsert, AssignRole, vars, TakenInOrder, Target, WantSet
<1> QED
  BY <1>1, <1>2 DEF Next

\* Type correctness, and with it that requests hold what they reserved, for
\* every plan and every number of requests.
THEOREM TypeCorrect == Spec => [](TypeOK /\ TakenInOrder)
<1>1. Init => TypeOK /\ TakenInOrder
  BY LimitAssumption, WantsAssumption DEF Init, TypeOK, TakenInOrder, NoRow, Steps
<1> QED
  BY <1>1, TypeStep, OrderStep, PTL DEF Spec

-------------------------------------------------------------------------------
\* The units of a resource that requests hold, counted.
LEMMA HoldersFinite ==
  ASSUME TypeOK, NEW r \in Resources
  PROVE  /\ IsFiniteSet(Holders(r))
         /\ Cardinality(Holders(r)) \in Nat
BY RequestAssumption, FS_Subset, FS_CardinalityType DEF Holders

\* The same of the next state.
LEMMA HoldersFinitePrime ==
  ASSUME TypeOK', NEW r \in Resources
  PROVE  /\ IsFiniteSet(Holders(r)')
         /\ Cardinality(Holders(r))' \in Nat
<1>1. Holders(r)' \subseteq Requests
  BY DEF Holders
<1> QED
  BY <1>1, RequestAssumption, FS_Subset, FS_CardinalityType

\* No resource is reserved twice by one request.
LEMMA TargetNotTaken ==
  ASSUME TypeOK, TakenInOrder, NEW p \in Requests, pc[p] = "take"
  PROVE  Target(p) \notin taken[p]
<1>1. step[p] \in 1..Len(Wants[p]) /\ Len(Wants[p]) \in Nat
  BY WantsAssumption DEF TypeOK
<1>2. \A i \in 1..(step[p] - 1) : Wants[p][i] # Wants[p][step[p]]
  BY <1>1, WantsAssumption
<1> QED
  BY <1>2 DEF TakenInOrder, Target

\* A request that comes to hold S holds one unit of what is in S and none of
\* the rest; what the other requests hold is unchanged.
LEMMA HoldersChange ==
  ASSUME TypeOK, NEW p \in Requests, NEW S, taken' = [taken EXCEPT ![p] = S],
         NEW r \in Resources
  PROVE  /\ r \in S /\ r \notin taken[p] =>
                Cardinality(Holders(r))' = Cardinality(Holders(r)) + 1
         /\ r \notin S /\ r \in taken[p] =>
                Cardinality(Holders(r))' = Cardinality(Holders(r)) - 1
         /\ (r \in S <=> r \in taken[p]) =>
                Cardinality(Holders(r))' = Cardinality(Holders(r))
<1>1. IsFiniteSet(Holders(r)) /\ Cardinality(Holders(r)) \in Nat
  BY HoldersFinite
<1>2. CASE r \in S
  <2>1. Holders(r)' = Holders(r) \cup {p}
    BY <1>2 DEF Holders, TypeOK
  <2> QED
    BY <1>1, <1>2, <2>1, FS_AddElement DEF Holders
<1>3. CASE r \notin S
  <2>1. Holders(r)' = Holders(r) \ {p}
    BY <1>3 DEF Holders, TypeOK
  <2> QED
    BY <1>1, <1>3, <2>1, FS_RemoveElement DEF Holders
<1> QED
  BY <1>2, <1>3

\* A request that is over holds nothing.
LEMMA HoldersEmptied ==
  ASSUME TypeOK, NEW p \in Requests, taken' = [taken EXCEPT ![p] = {}],
         NEW r \in Resources
  PROVE  /\ r \in taken[p] => Cardinality(Holders(r))' = Cardinality(Holders(r)) - 1
         /\ r \notin taken[p] => Cardinality(Holders(r))' = Cardinality(Holders(r))
<1>1. r \notin {}
  OBVIOUS
<1> QED
  BY <1>1, HoldersChange

\* The two sums of ReservationsCounted for one resource.
Counted(r) ==
    /\ rows[r] + Cardinality(Holders(r)) <= Count(r) + outside[r]
    /\ rows[r] + Cardinality(Holders(r)) <= Limit[r] + outside[r]

\* Nothing that a counter loses outweighs the units given back with it.
LEMMA CountedStep ==
  TypeOK /\ TypeOK' /\ TakenInOrder /\ ReservationsCounted /\ [Next]_vars
      => ReservationsCounted'
<1> SUFFICES ASSUME TypeOK, TypeOK', TakenInOrder, ReservationsCounted, [Next]_vars,
                    NEW r \in Limited
             PROVE  Counted(r)'
  BY DEF ReservationsCounted, Counted
<1> DEFINE h == Cardinality(Holders(r))
<1>0. /\ r \in Resources /\ Limit[r] \in Nat
      /\ rows[r] \in Int /\ outside[r] \in Nat /\ h \in Nat
      /\ rows'[r] \in Int /\ outside'[r] \in Nat /\ h' \in Nat
      /\ counter[r] \in Int /\ counter[r] >= -1
      /\ counter'[r] \in Int /\ counter'[r] >= -1
      /\ Counted(r)
  <2>1. r \in Resources
    BY LimitAssumption
  <2>2. h \in Nat /\ h' \in Nat
    BY <2>1, HoldersFinite, HoldersFinitePrime
  <2> QED
    BY <2>1, <2>2, LimitAssumption DEF TypeOK, ReservationsCounted, Counted, NoRow
\* Every step that adds no row and no holder and lowers no counter.
<1>1. ASSUME /\ rows'[r] <= rows[r] /\ outside'[r] = outside[r]
             /\ h' <= h /\ Count(r)' >= Count(r)
      PROVE  Counted(r)'
  BY <1>0, <1>1 DEF Counted, Count, NoRow
<1>2. ASSUME NEW p \in Requests, Step(p) PROVE Counted(r)'
  <2>1. CASE \/ Begin(p) \/ SkipUnlimited(p) \/ CountActual(p)
             \/ Refuse(p) \/ CreateFails(p)
    <3>1. UNCHANGED <<counter, rows, taken, outside>>
      BY <2>1 DEF Begin, SkipUnlimited, CountActual, Refuse, CreateFails
    <3> QED
      BY <1>0, <1>1, <3>1 DEF Count, Holders, NoRow
  <2>2. CASE Settle(p) \/ Raise(p) \/ ReserveError(p)
    <3>1. UNCHANGED <<rows, taken, outside>>
      BY <2>2 DEF Settle, Raise, ReserveError
    <3>2. Count(r)' >= Count(r)
      <4>1. CASE Settle(p)
        BY <1>0, <4>1 DEF Settle, Settled, Count, NoRow, TypeOK
      <4>2. CASE Raise(p)
        BY <1>0, <4>2 DEF Raise, Raised, Count, NoRow, TypeOK
      <4>3. CASE ReserveError(p)
        <5>1. CASE counter' = counter
          BY <1>0, <5>1 DEF Count, NoRow
        <5>2. CASE /\ HasRoom(Target(p))
                   /\ counter' = [counter EXCEPT ![Target(p)] = @ + 1]
          <6>1. CASE r = Target(p)
            <7>1. counter'[r] = counter[r] + 1 /\ counter[r] # -1
              BY <5>2, <6>1 DEF HasRoom, NoRow, TypeOK
            <7> QED
              BY <1>0, <7>1 DEF Count, NoRow
          <6>2. CASE r # Target(p)
            BY <1>0, <5>2, <6>2 DEF Count, NoRow, TypeOK
          <6> QED
            BY <6>1, <6>2
        <5> QED
          BY <4>3, <5>1, <5>2 DEF ReserveError
      <4> QED
        BY <2>2, <4>1, <4>2, <4>3
    <3> QED
      BY <1>0, <1>1, <3>1, <3>2 DEF Holders
  <2>3. CASE Take(p)
    <3> DEFINE t == Target(p)
    <3>1. /\ t \in Limited /\ t \notin taken[p] /\ HasRoom(t)
          /\ counter' = [counter EXCEPT ![t] = @ + 1]
          /\ taken' = [taken EXCEPT ![p] = @ \cup {t}]
          /\ UNCHANGED <<rows, outside>>
      BY <2>3, TargetNotTaken DEF Take, TakenInOrder
    <3>2. CASE r = t
      <4>1. h' = h + 1
        BY <1>0, <3>1, <3>2, HoldersChange
      <4>2. counter[r] # -1 /\ counter[r] <= Limit[r] - 1 /\ counter'[r] = counter[r] + 1
        BY <1>0, <3>1, <3>2 DEF HasRoom, NoRow, TypeOK
      <4> QED
        BY <1>0, <3>1, <4>1, <4>2 DEF Counted, Count, NoRow
    <3>3. CASE r # t
      <4>0. r \in taken[p] \cup {t} <=> r \in taken[p]
        BY <3>3
      <4>1. h' = h
        BY <1>0, <3>1, <4>0, HoldersChange
      <4>2. counter'[r] = counter[r]
        BY <3>1, <3>3 DEF TypeOK
      <4> QED
        BY <1>0, <1>1, <3>1, <4>1, <4>2 DEF Count, NoRow
    <3> QED
      BY <3>2, <3>3
  <2>4. CASE Create(p)
    <3>1. /\ taken' = [taken EXCEPT ![p] = {}]
          /\ taken[p] = WantSet(p) \cap Limited
          /\ rows'[r] = IF r \in WantSet(p) THEN rows[r] + 1 ELSE rows[r]
          /\ UNCHANGED <<counter, outside>>
      BY <1>0, <2>4 DEF Create, Return, Insert, TakenInOrder
    <3>2. /\ r \in taken[p] => h' = h - 1
          /\ r \notin taken[p] => h' = h
      BY <1>0, <3>1, HoldersEmptied
    <3> QED
      BY <1>0, <3>1, <3>2 DEF Counted, Count, NoRow
  <2>5. CASE CreateUnanswered(p)
    <3>1. /\ rows'[r] - rows[r] = outside'[r] - outside[r]
          /\ UNCHANGED <<counter, taken>>
      BY <1>0, <2>5 DEF CreateUnanswered, Insert, TypeOK
    <3> QED
      BY <1>0, <3>1 DEF Counted, Count, Holders, NoRow
  <2>6. CASE Unwind(p)
    <3>1. PICK q \in taken[p] :
              /\ taken' = [taken EXCEPT ![p] = @ \ {q}]
              /\ \/ counter' = [counter EXCEPT ![q] = Released(@)]
                 \/ counter' = counter
      BY <2>6 DEF Unwind
    <3>2. UNCHANGED <<rows, outside>>
      BY <2>6 DEF Unwind
    <3>3. CASE r = q
      <4>0. r \notin taken[p] \ {q} /\ r \in taken[p]
        BY <3>1, <3>3
      <4>1. h' = h - 1
        BY <1>0, <3>1, <4>0, HoldersChange
      <4>2. Count(r)' >= Count(r) - 1
        BY <1>0, <3>1, <3>3 DEF Count, Released, NoRow, TypeOK
      <4> QED
        BY <1>0, <3>2, <4>1, <4>2 DEF Counted, Count, NoRow
    <3>4. CASE r # q
      <4>0. r \in taken[p] \ {q} <=> r \in taken[p]
        BY <3>4
      <4>1. h' = h
        BY <1>0, <3>1, <4>0, HoldersChange
      <4>2. counter'[r] = counter[r]
        BY <3>1, <3>4 DEF TypeOK
      <4> QED
        BY <1>0, <1>1, <3>2, <4>1, <4>2 DEF Count, NoRow
    <3> QED
      BY <3>3, <3>4
  <2>7. CASE Throw(p) \/ Crash(p)
    <3>1. taken' = [taken EXCEPT ![p] = {}] /\ UNCHANGED <<counter, rows, outside>>
      BY <2>7 DEF Throw, Crash, Return
    <3>2. h' = h - 1 \/ h' = h
      BY <1>0, <3>1, HoldersEmptied
    <3> QED
      BY <1>0, <1>1, <3>1, <3>2 DEF Count, NoRow
  <2> QED
    BY <1>2, <2>1, <2>2, <2>3, <2>4, <2>5, <2>6, <2>7 DEF Step
<1>3. CASE \/ \E x \in Resources \ Roles : UnguardedInsert(x)
           \/ \E from, to \in Roles : AssignRole(from, to)
  <2>1. UNCHANGED <<counter, taken>>
    BY <1>3 DEF UnguardedInsert, AssignRole
  <2>2. rows'[r] - rows[r] <= outside'[r] - outside[r]
    <3>1. ASSUME NEW x \in Resources \ Roles, UnguardedInsert(x)
          PROVE  rows'[r] - rows[r] <= outside'[r] - outside[r]
      BY <1>0, <3>1 DEF UnguardedInsert, TypeOK
    <3>2. ASSUME NEW from \in Roles, NEW to \in Roles, AssignRole(from, to)
          PROVE  rows'[r] - rows[r] <= outside'[r] - outside[r]
      BY <1>0, <3>2, LimitAssumption DEF AssignRole, TypeOK
    <3> QED
      BY <1>3, <3>1, <3>2
  <2> QED
    BY <1>0, <2>1, <2>2 DEF Counted, Count, Holders, NoRow
<1>4. CASE UNCHANGED vars
  BY <1>0, <1>1, <1>4 DEF vars, Count, Holders, NoRow
<1> QED
  BY <1>2, <1>3, <1>4 DEF Next

\* The counter covers the rows and the reservations still held, and both
\* together fit the plan.
THEOREM ReservationsTheorem == Spec => []ReservationsCounted
<1>1. Init => ReservationsCounted
  <2> SUFFICES ASSUME Init, NEW r \in Limited PROVE Counted(r)
    BY DEF ReservationsCounted, Counted
  <2>1. Holders(r) = {}
    BY DEF Init, Holders
  <2> QED
    BY <2>1, FS_EmptySet, LimitAssumption DEF Init, Counted, Count, NoRow
<1> QED
  BY <1>1, CountedStep, TypeCorrect, PTL DEF Spec

\* No interleaving, failure or crash takes a tenant past its plan by more than
\* the rows that never went through a reservation.
THEOREM PlanLimitsHold == Spec => []WithinPlan
<1>1. TypeOK /\ ReservationsCounted => WithinPlan
  <2> SUFFICES ASSUME TypeOK, ReservationsCounted, NEW r \in Limited
               PROVE  rows[r] <= Limit[r] + outside[r]
    BY DEF WithinPlan
  <2>1. r \in Resources /\ Limit[r] \in Nat
    BY LimitAssumption
  <2> QED
    BY <2>1, HoldersFinite DEF TypeOK, ReservationsCounted
<1> QED
  BY <1>1, TypeCorrect, ReservationsTheorem, PTL

-------------------------------------------------------------------------------
(* While nothing fails and nobody goes round the gate, the counter is      *)
(* exact.  That takes three facts more: no row count is negative, a        *)
(* counter that was settled stays, and what a request counted has not      *)
(* shrunk since.                                                           *)

\* Row counts are counts, and settled counters stay.
Steady ==
    /\ \A r \in Resources : rows[r] >= 0
    /\ \A p \in Requests :
          pc[p] \in {"raise", "take"} => counter[Target(p)] # NoRow

\* Undisturbed, a counter is the rows and the units held, no more and no less.
Exact(r) == Count(r) = rows[r] + Cardinality(Holders(r))

ExactCounters ==
    Undisturbed =>
        /\ \A r \in Limited : Exact(r)
        /\ \A p \in Requests :
              pc[p] \in {"settle", "raise"} => seen[p] <= rows[Target(p)]

\* A counter document is never removed.
LEMMA CountersStay ==
  ASSUME TypeOK, TakenInOrder, [Next]_vars, NEW r \in Limited, counter[r] # NoRow
  PROVE  counter'[r] # NoRow
<1>0. counter[r] \in Int /\ counter[r] >= 0
  BY DEF TypeOK, NoRow
<1>1. ASSUME NEW p \in Requests, Step(p) PROVE counter'[r] # NoRow
  <2>1. CASE \/ Begin(p) \/ SkipUnlimited(p) \/ CountActual(p) \/ Refuse(p)
             \/ Create(p) \/ CreateFails(p) \/ CreateUnanswered(p) \/ Throw(p) \/ Crash(p)
    BY <1>0, <2>1 DEF Begin, SkipUnlimited, CountActual, Refuse, Create, CreateFails,
                      CreateUnanswered, Throw, Crash
  <2>2. CASE Settle(p)
    BY <1>0, <2>2 DEF Settle, Settled, TypeOK, NoRow
  <2>3. CASE Raise(p)
    BY <1>0, <2>3 DEF Raise, Raised, TypeOK, NoRow
  <2>4. CASE Take(p) \/ ReserveError(p)
    <3>1. counter' = counter \/ counter' = [counter EXCEPT ![Target(p)] = @ + 1]
      BY <2>4 DEF Take, ReserveError
    <3> QED
      BY <1>0, <3>1 DEF TypeOK, NoRow
  <2>5. CASE Unwind(p)
    <3>1. PICK q \in taken[p] : counter' = counter \/ counter' = [counter EXCEPT ![q] = Released(@)]
      BY <2>5 DEF Unwind
    <3> QED
      BY <1>0, <3>1 DEF Released, TypeOK, NoRow
  <2> QED
    BY <1>1, <2>1, <2>2, <2>3, <2>4, <2>5 DEF Step
<1>2. CASE \/ \E x \in Resources \ Roles : UnguardedInsert(x)
           \/ \E from, to \in Roles : AssignRole(from, to)
           \/ UNCHANGED vars
  BY <1>2 DEF UnguardedInsert, AssignRole, vars
<1> QED
  BY <1>1, <1>2 DEF Next

\* A step keeps rows and counters from falling below nothing, and what they owe.
LEMMA SteadyStep ==
  ASSUME TypeOK, TypeOK', TakenInOrder, TakenInOrder', Steady, [Next]_vars
  PROVE  Steady'
<1>1. ASSUME NEW r \in Resources PROVE rows'[r] >= 0
  <2>0. rows[r] \in Int /\ rows[r] >= 0
    BY DEF Steady, TypeOK
  <2>1. ASSUME NEW p \in Requests, Step(p) PROVE rows'[r] >= 0
    <3>1. CASE Create(p) \/ CreateUnanswered(p)
      BY <2>0, <3>1 DEF Create, CreateUnanswered, Insert
    <3>2. CASE ~(Create(p) \/ CreateUnanswered(p))
      BY <2>0, <2>1, <3>2 DEF Step, Begin, SkipUnlimited, CountActual, Settle, Raise,
         Take, Refuse, ReserveError, CreateFails, Unwind, Throw, Crash
    <3> QED
      BY <3>1, <3>2
  <2>2. ASSUME NEW x \in Resources \ Roles, UnguardedInsert(x) PROVE rows'[r] >= 0
    BY <2>0, <2>2 DEF UnguardedInsert, TypeOK
  <2>3. ASSUME NEW from \in Roles, NEW to \in Roles, AssignRole(from, to)
        PROVE  rows'[r] >= 0
    <3>1. /\ from \in Resources /\ to \in Resources /\ from # to
          /\ rows[from] \in Int /\ rows[from] > 0
          /\ rows' = [rows EXCEPT ![from] = @ - 1, ![to] = @ + 1]
      BY <2>3, LimitAssumption DEF AssignRole, TypeOK
    <3>2. rows'[r] = IF r = to THEN rows[r] + 1
                     ELSE IF r = from THEN rows[r] - 1 ELSE rows[r]
      BY <3>1 DEF TypeOK
    <3> QED
      BY <2>0, <3>1, <3>2
  <2>4. CASE UNCHANGED vars
    BY <2>0, <2>4 DEF vars
  <2> QED
    BY <2>1, <2>2, <2>3, <2>4 DEF Next
<1>2. ASSUME NEW p \in Requests, pc'[p] \in {"raise", "take"}
      PROVE  counter'[Target(p)'] # NoRow
  <2>0. Target(p)' \in Limited
    BY <1>2 DEF TakenInOrder
  <2>1. CASE Settle(p)
    <3>1. Target(p)' = Target(p) /\ Target(p) \in Limited
      BY <2>0, <2>1 DEF Settle, Target
    <3> QED
      BY <2>1, <3>1 DEF Settle, Settled, TypeOK, NoRow
  <2>2. CASE ~Settle(p)
    <3>1. pc[p] \in {"raise", "take"} /\ Target(p)' = Target(p)
      <4>1. CASE Step(p)
        BY <1>2, <2>2, <4>1 DEF Step, Begin, SkipUnlimited, CountActual, Raise, Take,
           Refuse, ReserveError, Create, CreateFails, CreateUnanswered, Unwind, Throw,
           Crash, Goto, Continue, Return, Target, TypeOK
      <4>2. ASSUME NEW q \in Requests, q # p, Step(q)
            PROVE  pc[p] \in {"raise", "take"} /\ Target(p)' = Target(p)
        BY <1>2, <4>2, OthersUntouched DEF Target
      <4>3. CASE \/ \E x \in Resources \ Roles : UnguardedInsert(x)
                 \/ \E from, to \in Roles : AssignRole(from, to)
                 \/ UNCHANGED vars
        BY <1>2, <4>3 DEF UnguardedInsert, AssignRole, vars, Target
      <4> QED
        BY <4>1, <4>2, <4>3 DEF Next
    <3>2. counter[Target(p)] # NoRow
      BY <3>1 DEF Steady
    <3> QED
      BY <2>0, <3>1, <3>2, CountersStay
  <2> QED
    BY <2>1, <2>2
<1> QED
  BY <1>1, <1>2 DEF Steady, Target

\* What was disturbed stays so.
LEMMA DisturbedStays ==
  ASSUME TypeOK, TypeOK', [Next]_vars, Undisturbed'
  PROVE  /\ Undisturbed
         /\ outside' = outside /\ faults' = faults
<1>0. /\ \A r \in Resources : outside[r] \in Nat /\ outside'[r] = 0
      /\ faults \in Nat /\ faults' = 0
  BY DEF TypeOK, Undisturbed
<1>1. ASSUME NEW p \in Requests, Step(p) PROVE outside' = outside /\ faults' = faults
  <2>1. ~Fault
    BY <1>0 DEF Fault
  <2> QED
    BY <1>1, <2>1 DEF Step, Begin, SkipUnlimited, CountActual, Settle, Raise, Take,
       Refuse, ReserveError, Create, CreateFails, CreateUnanswered, Unwind, Throw, Crash
<1>2. ASSUME NEW x \in Resources \ Roles, UnguardedInsert(x) PROVE FALSE
  BY <1>0, <1>2 DEF UnguardedInsert, TypeOK
<1>3. ASSUME NEW from \in Roles, NEW to \in Roles, AssignRole(from, to) PROVE FALSE
  BY <1>0, <1>3, LimitAssumption DEF AssignRole, TypeOK
<1>4. outside' = outside /\ faults' = faults
  BY <1>1, <1>2, <1>3 DEF Next, vars
<1> QED
  BY <1>4 DEF Undisturbed

\* Undisturbed, only requests take steps, and none fails.
LEMMA UndisturbedSteps ==
  ASSUME TypeOK, TypeOK', [Next]_vars, Undisturbed'
  PROVE  UNCHANGED vars \/ \E p \in Requests :
            \/ Begin(p)  \/ SkipUnlimited(p) \/ CountActual(p) \/ Settle(p)
            \/ Raise(p)  \/ Take(p)          \/ Refuse(p)      \/ Create(p)
            \/ CreateFails(p) \/ Throw(p)
            \/ \E r \in taken[p] : /\ taken' = [taken EXCEPT ![p] = @ \ {r}]
                                   /\ counter' = [counter EXCEPT ![r] = Released(@)]
                                   /\ UNCHANGED <<rows, pc, step, seen, outside, faults>>
<1>0. /\ \A r \in Resources : outside[r] \in Nat
      /\ faults \in Nat /\ outside' = outside /\ faults' = faults /\ ~Fault
  BY DisturbedStays DEF TypeOK, Fault
<1>1. ASSUME NEW x \in Resources \ Roles, UnguardedInsert(x) PROVE FALSE
  BY <1>0, <1>1 DEF UnguardedInsert, TypeOK
<1>2. ASSUME NEW from \in Roles, NEW to \in Roles, AssignRole(from, to) PROVE FALSE
  BY <1>0, <1>2, LimitAssumption DEF AssignRole, TypeOK
<1>3. ASSUME NEW p \in Requests
      PROVE  ~ReserveError(p) /\ ~CreateUnanswered(p) /\ ~Crash(p)
  BY <1>0 DEF ReserveError, CreateUnanswered, Crash
<1>4. ASSUME NEW p \in Requests, Unwind(p)
      PROVE  \E r \in taken[p] : /\ taken' = [taken EXCEPT ![p] = @ \ {r}]
                                 /\ counter' = [counter EXCEPT ![r] = Released(@)]
                                 /\ UNCHANGED <<rows, pc, step, seen, outside, faults>>
  BY <1>0, <1>4 DEF Unwind
<1> QED
  BY <1>1, <1>2, <1>3, <1>4 DEF Next, Step

\* A count that a request has made is not above the rows when it is used.
LEMMA SeenStep ==
  ASSUME TypeOK, TypeOK', TakenInOrder, ExactCounters, [Next]_vars, Undisturbed',
         NEW p \in Requests, pc'[p] \in {"settle", "raise"}
  PROVE  seen'[p] <= rows'[Target(p)']
<1>0. /\ Undisturbed
      /\ pc[p] \in {"settle", "raise"} => seen[p] <= rows[Target(p)]
  BY DisturbedStays DEF ExactCounters
<1>1. Target(p) \in Resources
  BY TargetWanted
<1>2. /\ rows[Target(p)] \in Int /\ rows'[Target(p)] \in Int /\ seen[p] \in Int
  BY <1>1 DEF TypeOK
\* No row disappears.
<1>3. rows'[Target(p)] >= rows[Target(p)]
  <2>1. ASSUME NEW q \in Requests, Create(q) PROVE rows'[Target(p)] >= rows[Target(p)]
    BY <1>1, <1>2, <2>1 DEF Create, Insert
  <2>2. CASE UNCHANGED rows
    BY <1>2, <2>2
  <2>3. UNCHANGED rows \/ \E q \in Requests : Create(q)
    BY UndisturbedSteps DEF vars, Begin, SkipUnlimited, CountActual, Settle, Raise,
       Take, Refuse, CreateFails, Throw
  <2> QED
    BY <2>1, <2>2, <2>3
<1>4. CASE UNCHANGED vars
  BY <1>0, <1>4 DEF vars, Target
<1>5. CASE CountActual(p)
  BY <1>2, <1>5 DEF CountActual, Target, TypeOK
<1>6. CASE Settle(p)
  <2>1. pc[p] = "settle" /\ seen' = seen /\ rows' = rows /\ step' = step
    BY <1>6 DEF Settle
  <2> QED
    BY <1>0, <2>1 DEF Target
<1>7. ASSUME Step(p), ~CountActual(p), ~Settle(p) PROVE FALSE
  <2>1. ~ReserveError(p) /\ ~CreateUnanswered(p) /\ ~Crash(p)
    BY DisturbedStays DEF TypeOK, Fault, ReserveError, CreateUnanswered, Crash
  <2> QED
    BY <1>7, <2>1 DEF Step, Begin, SkipUnlimited, Raise, Take, Refuse, Create,
       CreateFails, Unwind, Throw, Goto, Continue, Return, TypeOK
<1>8. ASSUME NEW q \in Requests, q # p, Step(q)
      PROVE  seen'[p] <= rows'[Target(p)']
  <2>1. /\ pc'[p] = pc[p] /\ Target(p)' = Target(p)
    BY <1>8, OthersUntouched DEF Target
  <2>2. seen'[p] = seen[p]
    BY <1>8 DEF Step, Begin, SkipUnlimited, CountActual, Settle, Raise, Take, Refuse,
       ReserveError, Create, CreateFails, CreateUnanswered, Unwind, Throw, Crash,
       Return, TypeOK
  <2> QED
    BY <1>0, <1>2, <1>3, <2>1, <2>2
<1>9. UNCHANGED vars \/ \E q \in Requests : Step(q)
  <2>1. ASSUME NEW x \in Resources \ Roles, UnguardedInsert(x) PROVE FALSE
    BY <2>1, DisturbedStays DEF UnguardedInsert, TypeOK
  <2>2. ASSUME NEW from \in Roles, NEW to \in Roles, AssignRole(from, to) PROVE FALSE
    BY <2>2, DisturbedStays, LimitAssumption DEF AssignRole, TypeOK
  <2> QED
    BY <2>1, <2>2 DEF Next
<1> QED
  BY <1>4, <1>5, <1>6, <1>7, <1>8, <1>9

\* Every step of an undisturbed tenant moves the counter with the rows and the
\* units held, or moves none of them.
LEMMA ExactStep ==
  ASSUME TypeOK, TypeOK', TakenInOrder, Steady, ExactCounters, [Next]_vars,
         Undisturbed', NEW r \in Limited
  PROVE  Exact(r)'
<1> DEFINE h == Cardinality(Holders(r))
<1>0. /\ r \in Resources /\ rows[r] \in Int /\ rows[r] >= 0 /\ h \in Nat /\ h' \in Nat
      /\ counter[r] \in Int /\ counter[r] >= -1
      /\ rows'[r] \in Int
      /\ counter'[r] \in Int /\ counter'[r] >= -1
      /\ Count(r) = rows[r] + h
  <2>1. r \in Resources
    BY LimitAssumption
  <2>2. h \in Nat /\ h' \in Nat
    BY <2>1, HoldersFinite, HoldersFinitePrime
  <2>3. Exact(r)
    BY DisturbedStays DEF ExactCounters
  <2> QED
    BY <2>1, <2>2, <2>3 DEF TypeOK, Steady, Exact, NoRow
<1>1. ASSUME rows'[r] = rows[r], h' = h, Count(r)' = Count(r)
      PROVE  Exact(r)'
  BY <1>0, <1>1 DEF Exact
<1>2. CASE UNCHANGED <<counter, rows, taken>>
  BY <1>1, <1>2 DEF Count, Holders
<1>3. ASSUME NEW p \in Requests, Settle(p) PROVE Exact(r)'
  <2>1. UNCHANGED <<rows, taken>> /\ Count(r)' = Count(r)
    BY <1>0, <1>3 DEF Settle, Settled, Count, NoRow, TypeOK
  <2> QED
    BY <1>1, <2>1 DEF Holders
<1>4. ASSUME NEW p \in Requests, Raise(p) PROVE Exact(r)'
  <2>1. UNCHANGED <<rows, taken>>
    BY <1>4 DEF Raise
  <2>2. CASE r = Target(p)
    <3>1. counter[r] # -1 /\ seen[p] <= rows[r] /\ seen[p] \in Int
      BY <1>4, <2>2, DisturbedStays DEF Raise, Steady, ExactCounters, TypeOK, NoRow
    <3>2. Count(r) = counter[r]
      BY <3>1 DEF Count, NoRow
    <3>3. counter'[r] = counter[r]
      BY <1>0, <1>4, <2>2, <3>1, <3>2 DEF Raise, Raised, TypeOK
    <3> QED
      BY <1>1, <2>1, <3>3 DEF Count, Holders
  <2>3. CASE r # Target(p)
    BY <1>1, <1>4, <2>1, <2>3 DEF Raise, Count, Holders, TypeOK
  <2> QED
    BY <2>2, <2>3
<1>5. ASSUME NEW p \in Requests, Take(p) PROVE Exact(r)'
  <2> DEFINE t == Target(p)
  <2>1. /\ t \in Limited /\ t \notin taken[p] /\ HasRoom(t)
        /\ counter' = [counter EXCEPT ![t] = @ + 1]
        /\ taken' = [taken EXCEPT ![p] = @ \cup {t}]
        /\ rows' = rows
    BY <1>5, TargetNotTaken DEF Take, TakenInOrder
  <2>2. CASE r = t
    <3>1. h' = h + 1
      BY <1>0, <2>1, <2>2, HoldersChange
    <3>2. counter[r] # -1 /\ counter'[r] = counter[r] + 1
      BY <1>0, <2>1, <2>2 DEF HasRoom, NoRow, TypeOK
    <3> QED
      BY <1>0, <2>1, <3>1, <3>2 DEF Exact, Count, NoRow
  <2>3. CASE r # t
    <3>0. r \in taken[p] \cup {t} <=> r \in taken[p]
      BY <2>3
    <3>1. h' = h
      BY <1>0, <2>1, <3>0, HoldersChange
    <3>2. counter'[r] = counter[r]
      BY <2>1, <2>3 DEF TypeOK
    <3> QED
      BY <1>1, <2>1, <3>1, <3>2 DEF Count
  <2> QED
    BY <2>2, <2>3
<1>6. ASSUME NEW p \in Requests, Create(p) PROVE Exact(r)'
  <2>1. /\ taken' = [taken EXCEPT ![p] = {}]
        /\ taken[p] = WantSet(p) \cap Limited
        /\ rows'[r] = IF r \in WantSet(p) THEN rows[r] + 1 ELSE rows[r]
        /\ counter' = counter
    BY <1>0, <1>6 DEF Create, Return, Insert, TakenInOrder
  <2>2. /\ r \in taken[p] => h' = h - 1
        /\ r \notin taken[p] => h' = h
    BY <1>0, <2>1, HoldersEmptied
  <2>3. Count(r)' = Count(r)
    BY <2>1 DEF Count
  <2> HIDE DEF h
  <2>4. rows'[r] + h' = rows[r] + h
    BY <1>0, <2>1, <2>2
  <2> QED
    BY <1>0, <2>3, <2>4 DEF Exact, h
<1>7. ASSUME NEW p \in Requests, Throw(p) PROVE Exact(r)'
  <2>1. /\ taken' = [taken EXCEPT ![p] = {}] /\ r \notin taken[p]
        /\ UNCHANGED <<counter, rows>>
    BY <1>7 DEF Throw, Return
  <2>2. h' = h
    BY <1>0, <2>1, HoldersEmptied
  <2> QED
    BY <1>1, <2>1, <2>2 DEF Count
<1>8. ASSUME NEW p \in Requests, NEW q \in taken[p],
             taken' = [taken EXCEPT ![p] = @ \ {q}],
             counter' = [counter EXCEPT ![q] = Released(@)],
             rows' = rows
      PROVE  Exact(r)'
  <2>1. CASE r = q
    <3>0. r \notin taken[p] \ {q} /\ r \in taken[p]
      BY <2>1
    <3>1. h' = h - 1
      BY <1>0, <1>8, <3>0, HoldersChange
    <3>2. Count(r) >= 1
      BY <1>0, <3>1
    <3>3. counter'[r] = Released(counter[r])
      BY <1>8, <2>1 DEF TypeOK
    <3>4. Count(r)' = Count(r) - 1
      BY <1>0, <3>2, <3>3 DEF Count, Released, NoRow
    <3> QED
      BY <1>0, <1>8, <3>1, <3>4 DEF Exact
  <2>2. CASE r # q
    <3>0. r \in taken[p] \ {q} <=> r \in taken[p]
      BY <2>2
    <3>1. h' = h
      BY <1>0, <1>8, <3>0, HoldersChange
    <3>2. counter'[r] = counter[r]
      BY <1>8, <2>2 DEF TypeOK
    <3> QED
      BY <1>1, <1>8, <3>1, <3>2 DEF Count
  <2> QED
    BY <2>1, <2>2
<1>9. ASSUME NEW p \in Requests,
             \/ Begin(p) \/ SkipUnlimited(p) \/ CountActual(p)
             \/ Refuse(p) \/ CreateFails(p)
      PROVE  UNCHANGED <<counter, rows, taken>>
  BY <1>9 DEF Begin, SkipUnlimited, CountActual, Refuse, CreateFails
<1>10. CASE UNCHANGED vars
  BY <1>2, <1>10 DEF vars
<1> QED
  BY <1>2, <1>3, <1>4, <1>5, <1>6, <1>7, <1>8, <1>9, <1>10, UndisturbedSteps

\* The counters are settled and, while undisturbed, exact.
THEOREM CountersTheorem == Spec => [](Steady /\ ExactCounters)
<1>1. Init => Steady /\ ExactCounters
  <2> SUFFICES ASSUME Init PROVE Steady /\ ExactCounters
    OBVIOUS
  <2>1. Steady /\ \A p \in Requests : pc[p] = "idle"
    BY DEF Init, Steady
  <2>2. ASSUME NEW r \in Limited PROVE Exact(r)
    <3>1. Holders(r) = {} /\ r \in Resources
      BY LimitAssumption DEF Init, Holders
    <3> QED
      BY <3>1, FS_EmptySet DEF Init, Exact, Count, NoRow
  <2> QED
    BY <2>1, <2>2 DEF ExactCounters
<1>2. TypeOK /\ TypeOK' /\ TakenInOrder /\ TakenInOrder' /\ Steady /\ ExactCounters
        /\ [Next]_vars => Steady' /\ ExactCounters'
  BY SteadyStep, SeenStep, ExactStep DEF ExactCounters
<1> QED
  BY <1>1, <1>2, TypeCorrect, PTL DEF Spec

\* A compound create that is refused or fails leaves no seat counted that no
\* row occupies, whatever other creates did at the same time.
THEOREM AllOrNothingTheorem == Spec => []AllOrNothing
<1>1. TypeOK /\ TakenInOrder /\ ExactCounters => AllOrNothing
  <2> SUFFICES ASSUME TypeOK, TakenInOrder, ExactCounters, Undisturbed,
                      \A p \in Requests : pc[p] = "idle", NEW r \in Limited
               PROVE  Count(r) = rows[r]
    BY DEF AllOrNothing
  <2>1. Holders(r) = {}
    BY DEF TakenInOrder, Holders
  <2>2. Exact(r) /\ rows[r] \in Int
    BY LimitAssumption DEF ExactCounters, TypeOK
  <2> QED
    BY <2>1, <2>2, FS_EmptySet DEF Exact
<1> QED
  BY <1>1, TypeCorrect, CountersTheorem, PTL

\* A 402 means that the rows and the creates on their way fill the plan.
THEOREM RefusalTheorem == Spec => RefusedOnlyWhenFull
<1>1. ASSUME TypeOK, TakenInOrder, Steady, ExactCounters,
             NEW p \in Requests, Refuse(p), Undisturbed
      PROVE  rows[Target(p)] + Cardinality(Holders(Target(p))) >= Limit[Target(p)]
  <2> DEFINE t == Target(p)
  <2>1. t \in Limited /\ counter[t] # NoRow /\ ~HasRoom(t)
    BY <1>1 DEF Refuse, TakenInOrder, Steady
  <2>2. counter[t] \in Int /\ Limit[t] \in Nat
    BY <1>1, <2>1, LimitAssumption DEF TypeOK
  <2>3. Count(t) = counter[t] /\ Count(t) = rows[t] + Cardinality(Holders(t))
    BY <1>1, <2>1 DEF ExactCounters, Exact, Count
  <2> QED
    BY <2>1, <2>2, <2>3 DEF HasRoom
<1>2. TypeOK /\ TakenInOrder /\ Steady /\ ExactCounters /\ [Next]_vars =>
        [\A p \in Requests : Refuse(p) /\ Undisturbed =>
           rows[Target(p)] + Cardinality(Holders(Target(p))) >= Limit[Target(p)]]_vars
  BY <1>1
<1> QED
  BY <1>2, TypeCorrect, CountersTheorem, PTL DEF Spec, RefusedOnlyWhenFull

-------------------------------------------------------------------------------
\* The guard implements the plan: the insert of a request finds room under each
\* of its ceilings because its own reservations are counted there, and no other
\* step adds a row without counting it as outside.
THEOREM ImplementsPlan == Spec => PlanSpec
<1>1. Init => Plan!Init
  BY DEF Init, Plan!Init
<1>2. TypeOK /\ TakenInOrder /\ ReservationsCounted /\ [Next]_vars
        => [Plan!Next]_<<rows, outside>>
  <2> SUFFICES ASSUME TypeOK, TakenInOrder, ReservationsCounted, [Next]_vars
               PROVE  Plan!Next \/ UNCHANGED <<rows, outside>>
    OBVIOUS
  <2>1. ASSUME NEW p \in Requests, Create(p) PROVE Plan!Next
    <3>1. \A r \in WantSet(p) \cap Limited : rows[r] < Limit[r] + outside[r]
      <4> SUFFICES ASSUME NEW r \in WantSet(p) \cap Limited
                   PROVE  rows[r] < Limit[r] + outside[r]
        OBVIOUS
      <4>1. r \in Resources /\ Limit[r] \in Nat /\ rows[r] \in Int /\ outside[r] \in Nat
        BY LimitAssumption DEF TypeOK
      <4>2. p \in Holders(r)
        BY <2>1 DEF Create, TakenInOrder, Holders
      <4>3. Cardinality(Holders(r)) \in Nat /\ Cardinality(Holders(r)) # 0
        BY <4>1, <4>2, HoldersFinite, FS_EmptySet
      <4> QED
        BY <4>1, <4>3 DEF ReservationsCounted
    <3>2. Plan!Admit(WantSet(p))
      BY <2>1, <3>1 DEF Create, Insert, Plan!Admit
    <3> QED
      BY <3>2 DEF Plan!Next
  <2>2. ASSUME NEW p \in Requests, CreateUnanswered(p) PROVE Plan!Next
    BY <2>2 DEF CreateUnanswered, Insert, TypeOK, Plan!Next, Plan!Bypass
  <2>3. ASSUME NEW p \in Requests, Step(p), ~Create(p), ~CreateUnanswered(p)
        PROVE  UNCHANGED <<rows, outside>>
    BY <2>3 DEF Step, Begin, SkipUnlimited, CountActual, Settle, Raise, Take,
          Refuse, ReserveError, CreateFails, Unwind, Throw, Crash
  <2>4. ASSUME NEW x \in Resources \ Roles, UnguardedInsert(x) PROVE Plan!Next
    BY <2>4 DEF UnguardedInsert, TypeOK, Plan!Next, Plan!Bypass
  <2>5. ASSUME NEW from \in Roles, NEW to \in Roles, AssignRole(from, to)
        PROVE  Plan!Next
    BY <2>5, LimitAssumption DEF AssignRole, TypeOK, Plan!Next, Plan!Bypass
  <2>6. CASE UNCHANGED vars
    BY <2>6 DEF vars
  <2> QED
    BY <2>1, <2>2, <2>3, <2>4, <2>5, <2>6 DEF Next
<1> QED
  BY <1>1, <1>2, TypeCorrect, ReservationsTheorem, PTL DEF Spec, PlanSpec, Plan!Spec
===============================================================================
