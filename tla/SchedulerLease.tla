---------------------------- MODULE SchedulerLease ----------------------------
(***************************************************************************)
(* The background reorder scheduler of a deployment with several API       *)
(* containers and the MongoDB lease that is to leave one of them sweeping  *)
(* (services/schedulerLock.js and the tick of services/reorderScheduler.js)*)
(*                                                                         *)
(* A run is one execution of tick().  It draws a fresh owner token, so the *)
(* run itself stands for its token; a run is reused only once no request   *)
(* of it is pending and the lock document no longer carries it.            *)
(*                                                                         *)
(* Time.  expiresAt is kept relative to the database's clock: `left' is    *)
(* expiresAt minus that clock, so letting time pass lowers it.  The clock  *)
(* of instance i runs Skew[i] ahead of the database's.  `age' counts the   *)
(* ticks since a run took the timestamp it last wrote (or is about to      *)
(* write), `pending' the same for a renewal in flight.                     *)
(***************************************************************************)
EXTENDS Integers, FiniteSets

CONSTANTS
    Instances,   \* API containers, one scheduler each
    Runs,        \* executions of tick(), each with its owner token
    Host,        \* the instance a run executes on
    None,        \* no lock document
    TTL,         \* ttlSeconds, in ticks
    Skew,        \* how far an instance's clock is ahead of the database's
    MaxGap,      \* the longest a run goes from one timestamp to the next
    Floor,       \* bound: how far past its expiry a lease is followed
    MaxFailures  \* bound: crashes and failed database calls

ASSUME HostAssumption == Host \in [Runs -> Instances]
ASSUME NoneAssumption == None \notin Runs
ASSUME TimeAssumption == /\ TTL \in Nat \ {0}
                         /\ Skew \in [Instances -> Int]
                         /\ MaxGap \in Nat
                         /\ Floor \in Int
                         /\ Floor <= 0
                         /\ \A i \in Instances : Floor <= Skew[i] - MaxGap
ASSUME FailureAssumption == MaxFailures \in Nat

VARIABLES
    lease,     \* the scheduler_locks document: its owner and expiresAt
    phase,     \* where each run is
    lost,      \* leaseLost of each run
    age,       \* ticks since the timestamp behind the run's lease was taken
    pending,   \* ticks since a renewal was sent, or None
    timer,     \* the instance's scheduler is started
    current,   \* the run belongs to the scheduler object now installed
    failures

leaseVars == <<lease, phase, lost, age, pending, timer, current, failures>>

NotSent == -1

LeaseTypeOK ==
    /\ lease \in [owner : Runs \cup {None}, left : Int]
    /\ phase \in [Runs -> {"idle", "acquiring", "sweeping", "releasing"}]
    /\ lost \in [Runs -> BOOLEAN]
    /\ age \in [Runs -> Nat]
    /\ pending \in [Runs -> Nat \cup {NotSent}]
    /\ timer \in [Instances -> BOOLEAN]
    /\ current \in [Runs -> BOOLEAN]
    /\ failures \in Nat

NoLease == [owner |-> None, left |-> 0]

LeaseInit ==
    /\ lease = NoLease
    /\ phase = [r \in Runs |-> "idle"]
    /\ lost = [r \in Runs |-> FALSE]
    /\ age = [r \in Runs |-> 0]
    /\ pending = [r \in Runs |-> NotSent]
    /\ timer = [i \in Instances |-> FALSE]
    /\ current = [r \in Runs |-> FALSE]
    /\ failures = 0

-------------------------------------------------------------------------------
(* The lock document.                                                      *)

\* Mutant: the expiry comparison the wrong way round.
AcquirableReversed(r) == \/ lease.owner = None
                         \/ lease.left >= Skew[Host[r]] - age[r]

\* The filter of the acquisition: no document, or expiresAt <= now, where now
\* was read from the run's own clock when it sent the request.
Acquirable(r) == \/ lease.owner = None
                 \/ lease.left <= Skew[Host[r]] - age[r]

\* What expiresAt = (local now) + ttl is worth, a ticks after now was read.
Expiry(r, a) == TTL + Skew[Host[r]] - a

\* Mutant: a renewal that does not look at the owner.
RenewAnyDocument(r) == [lease EXCEPT !.left = Expiry(r, pending[r])]

\* updateOne({_id, owner}): a lapsed lease nobody took is extended too.
RenewDocument(r) ==
    IF lease.owner = r THEN [lease EXCEPT !.left = Expiry(r, pending[r])]
                       ELSE lease

\* Mutant: a release that does not look at the owner.
DeleteAnyDocument(r) == NoLease

\* deleteOne({_id, owner})
DeleteDocument(r) == IF lease.owner = r THEN NoLease ELSE lease

-------------------------------------------------------------------------------
(* A run's view of itself.                                                 *)

InFlight(i) == \E r \in Runs : /\ Host[r] = i
                               /\ current[r]
                               /\ phase[r] \in {"acquiring", "sweeping"}

\* shouldContinue(): the run believes it holds the lease.
ShouldContinue(r) == phase[r] = "sweeping" /\ ~lost[r]

\* Mutant: the renewal interval outlives the sweep.
TimerNeverCleared(r) == ~lost[r]

\* The renewal interval exists while the sweep runs and the lease is not
\* known to be lost.
TimerArmed(r) == ShouldContinue(r)

\* Every third of the lease, giving two chances to renew.
RenewEvery == TTL \div 3

\* A renewal was refused or threw.  Once the sweep is over nobody looks.
LoseLease(r) ==
    /\ lost' = [lost EXCEPT ![r] = phase[r] = "sweeping"]
    /\ age' = [age EXCEPT ![r] = 0]

\* Mutant: the timestamp is reset to the sentinel.
ForgetToSentinel(R) ==
    /\ lost' = [r \in Runs |-> lost[r] /\ r \notin R]
    /\ age' = [r \in Runs |-> IF r \in R THEN NotSent ELSE age[r]]
    /\ current' = [r \in Runs |-> current[r] /\ r \notin R]

\* The locals of a run that is over mean nothing any more.
Forget(R) ==
    /\ lost' = [r \in Runs |-> lost[r] /\ r \notin R]
    /\ age' = [r \in Runs |-> IF r \in R THEN 0 ELSE age[r]]
    /\ current' = [r \in Runs |-> current[r] /\ r \notin R]

CallFails == /\ failures < MaxFailures
             /\ failures' = failures + 1

-------------------------------------------------------------------------------
(* startReorderScheduler and stopReorderScheduler.  Stopping drops the     *)
(* scheduler object: a tick in flight goes on, and a scheduler started     *)
(* later does not see its inFlight flag.                                   *)

StartScheduler(i) ==
    /\ ~timer[i]
    /\ timer' = [timer EXCEPT ![i] = TRUE]
    /\ UNCHANGED <<lease, phase, lost, age, pending, current, failures>>

StopScheduler(i) ==
    /\ timer[i]
    /\ timer' = [timer EXCEPT ![i] = FALSE]
    /\ current' = [r \in Runs |-> current[r] /\ Host[r] # i]
    /\ UNCHANGED <<lease, phase, lost, age, pending, failures>>

-------------------------------------------------------------------------------
(* tick()                                                                  *)

\* The interval fires and no tick of this scheduler is in flight: the run
\* draws a token, reads its clock and sends the acquisition.
StartTick(r) ==
    /\ timer[Host[r]]
    /\ ~InFlight(Host[r])
    /\ phase[r] = "idle" /\ pending[r] = NotSent /\ lease.owner # r
    /\ phase' = [phase EXCEPT ![r] = "acquiring"]
    /\ current' = [current EXCEPT ![r] = TRUE]
    /\ UNCHANGED <<lease, lost, age, pending, timer, failures>>

\* The document was free or lapsed and is now ours.
AcquireGranted(r) ==
    /\ phase[r] = "acquiring"
    /\ Acquirable(r)
    /\ lease' = [owner |-> r, left |-> Expiry(r, age[r])]
    /\ phase' = [phase EXCEPT ![r] = "sweeping"]
    /\ UNCHANGED <<lost, age, pending, timer, current, failures>>

\* The upsert collides on _id: somebody else holds the lease.
AcquireRefused(r) ==
    /\ phase[r] = "acquiring"
    /\ ~Acquirable(r)
    /\ phase' = [phase EXCEPT ![r] = "idle"]
    /\ Forget({r})
    /\ UNCHANGED <<lease, pending, timer, failures>>

\* The call fails.  The document may have been written all the same, and then
\* nobody will release it.
AcquireError(r) ==
    /\ phase[r] = "acquiring"
    /\ CallFails
    /\ \/ lease' = lease
       \/ Acquirable(r) /\ lease' = [owner |-> r, left |-> Expiry(r, age[r])]
    /\ phase' = [phase EXCEPT ![r] = "idle"]
    /\ Forget({r})
    /\ UNCHANGED <<pending, timer>>

\* The renewal interval fires and reads the clock.
RenewSend(r) ==
    /\ TimerArmed(r)
    /\ pending[r] = NotSent
    /\ age[r] >= RenewEvery
    /\ pending' = [pending EXCEPT ![r] = 0]
    /\ UNCHANGED <<lease, phase, lost, age, timer, current, failures>>

\* The update reaches the database and its answer the run.
RenewAnswer(r) ==
    /\ pending[r] # NotSent
    /\ lease' = RenewDocument(r)
    /\ IF lease.owner = r
       THEN age' = [age EXCEPT ![r] = IF TimerArmed(r) THEN pending[r] ELSE @]
            /\ lost' = lost
       ELSE LoseLease(r)
    /\ pending' = [pending EXCEPT ![r] = NotSent]
    /\ UNCHANGED <<phase, timer, current, failures>>

\* A renewal that throws counts as a lost lease, whether or not it was applied.
RenewError(r) ==
    /\ pending[r] # NotSent
    /\ CallFails
    /\ lease' \in {lease, RenewDocument(r)}
    /\ LoseLease(r)
    /\ pending' = [pending EXCEPT ![r] = NotSent]
    /\ UNCHANGED <<phase, timer, current>>

\* Mutant: an abandoned sweep returns without its finally block.
FinishSweepIfHeld(r) ==
    /\ ShouldContinue(r)
    /\ phase' = [phase EXCEPT ![r] = "releasing"]
    /\ Forget({r})
    /\ UNCHANGED <<lease, pending, timer, failures>>

\* The sweep returns, completed or abandoned.  The finally block clears the
\* interval and inFlight and only then awaits the release; a renewal already
\* sent is not recalled.
FinishSweep(r) ==
    /\ phase[r] = "sweeping"
    /\ phase' = [phase EXCEPT ![r] = "releasing"]
    /\ Forget({r})
    /\ UNCHANGED <<lease, pending, timer, failures>>

Release(r) ==
    /\ phase[r] = "releasing"
    /\ lease' = DeleteDocument(r)
    /\ phase' = [phase EXCEPT ![r] = "idle"]
    /\ UNCHANGED <<lost, age, pending, timer, current, failures>>

\* The release throws and is swallowed: the lease is left to lapse.
ReleaseError(r) ==
    /\ phase[r] = "releasing"
    /\ CallFails
    /\ phase' = [phase EXCEPT ![r] = "idle"]
    /\ UNCHANGED <<lease, lost, age, pending, timer, current>>

-------------------------------------------------------------------------------
(* The environment.                                                        *)

\* The container dies.  Its requests die with it; one that was applied first
\* is an answer followed by a crash.
ContainerDies(i) ==
    /\ \E r \in Runs : Host[r] = i /\ phase[r] # "idle"
    /\ CallFails
    /\ timer' = [timer EXCEPT ![i] = FALSE]
    /\ phase' = [r \in Runs |-> IF Host[r] = i THEN "idle" ELSE phase[r]]
    /\ pending' = [r \in Runs |-> IF Host[r] = i THEN NotSent ELSE pending[r]]
    /\ Forget({r \in Runs : Host[r] = i})
    /\ UNCHANGED lease

\* MongoDB's TTL monitor removes a document whose expiresAt is past.
TTLMonitor ==
    /\ lease.owner # None
    /\ lease.left <= 0
    /\ lease' = NoLease
    /\ UNCHANGED <<phase, lost, age, pending, timer, current, failures>>

\* The run's clock reading still matters: it will be written or was.
Aging(r) == phase[r] = "acquiring" \/ ShouldContinue(r)

\* One tick of time.  No run is kept longer than MaxGap from the timestamp it
\* stands on; a stalled event loop or a slow network is a large MaxGap.
Advance ==
    /\ \A r \in Runs : Aging(r) => age[r] < MaxGap
    /\ \A r \in Runs : pending[r] < MaxGap
    /\ lease' = IF lease.owner # None /\ lease.left > Floor
                THEN [lease EXCEPT !.left = @ - 1] ELSE lease
    /\ age' = [r \in Runs |-> IF Aging(r) THEN age[r] + 1 ELSE age[r]]
    /\ pending' = [r \in Runs |-> IF pending[r] = NotSent THEN NotSent
                                  ELSE pending[r] + 1]
    /\ UNCHANGED <<phase, lost, timer, current, failures>>

Tick(r) ==
    \/ StartTick(r)   \/ AcquireGranted(r) \/ AcquireRefused(r)
    \/ AcquireError(r) \/ RenewSend(r)     \/ RenewAnswer(r)
    \/ RenewError(r)  \/ FinishSweep(r)    \/ Release(r)
    \/ ReleaseError(r)

LeaseNext ==
    \/ \E r \in Runs : Tick(r)
    \/ \E i \in Instances :
        StartScheduler(i) \/ StopScheduler(i) \/ ContainerDies(i)
    \/ TTLMonitor
    \/ Advance

LeaseSpec == LeaseInit /\ [][LeaseNext]_leaseVars

\* Fairness.  Timers fire and requests are answered or fail (the driver has
\* timeouts), a sweep ends, clocks run, and MongoDB runs its TTL monitor and
\* the orchestrator restarts a dead container.  Nothing is assumed about the
\* order in which two instances' timers fire.
Fairness ==
    /\ \A r \in Runs :
        /\ WF_leaseVars(StartTick(r))
        /\ WF_leaseVars(AcquireGranted(r) \/ AcquireRefused(r))
        /\ WF_leaseVars(RenewSend(r))
        /\ WF_leaseVars(RenewAnswer(r))
        /\ WF_leaseVars(FinishSweep(r))
        /\ WF_leaseVars(Release(r))
    /\ \A i \in Instances : WF_leaseVars(StartScheduler(i))
    /\ WF_leaseVars(Advance)
    /\ WF_leaseVars(TTLMonitor)

FairSpec == LeaseSpec /\ Fairness

-------------------------------------------------------------------------------
(* Properties.                                                             *)

\* The timing the lease relies on: a run is back with a fresh timestamp before
\* any other clock, or the database's, can see its lease lapse.
TimelyRenewal ==
    \A i \in Instances : /\ MaxGap - Skew[i] < TTL
                         /\ \A j \in Instances : MaxGap + Skew[j] - Skew[i] < TTL

\* "It does not keep writing while another instance believes it owns the work"
\* (README.md): at most one run is in its sweep with shouldContinue() true.
OneSweeper == \A r, s \in Runs : ShouldContinue(r) /\ ShouldContinue(s) => r = s

\* The lease document is what makes it so: whoever may go on writing holds it,
\* and what is left of it is what the run's last timestamp bought.
SweeperHoldsLease ==
    \A r \in Runs : ShouldContinue(r) =>
        /\ lease.owner = r
        /\ lease.left = Expiry(r, age[r])

\* A slow instance's release, renewal or acquisition never ends a lease that
\* another run holds and that no clock sees as lapsed: an unexpired lease only
\* changes hands when its own run is past its sweep.
LapsedForAll == lease.left <= 0 \/ \E i \in Instances : lease.left <= Skew[i]
UnexpiredLeaseIsKept ==
    [][\A r \in Runs : lease.owner = r /\ ~LapsedForAll
           => lease'.owner = r \/ phase[r] = "releasing"]_leaseVars

\* "A crashed process blocks the scheduler for at most the TTL, with no manual
\* cleanup" (README.md): the lease of a run that is over is released, lapses or
\* is taken over.
DeadLeaseEnds ==
    \A r \in Runs : (lease.owner = r /\ phase[r] = "idle")
                      ~> ~(lease.owner = r /\ phase[r] = "idle")

\* Whatever fails on the way, sweeping goes on as long as some scheduler is
\* started.
SweepsGoOn ==
    (\E i \in Instances : <>[]timer[i]) => []<>(\E r \in Runs : ShouldContinue(r))

-------------------------------------------------------------------------------
(* For the model checker: of two containers, a tick apart, the first may   *)
(* have an old run pending beside a new one.                               *)

OldAndNew == <<"first", "first", "second">>

TickApart == [first |-> 0, second |-> 1]

LongLapsed == -3
===============================================================================
