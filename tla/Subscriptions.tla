------------------------------ MODULE Subscriptions -----------------------------
(***************************************************************************)
(* The subscription of one restaurant (services/subscriptions.js,          *)
(* subscriptionLifecycle.js, subscriptionBackfill.js): administrators      *)
(* change it, a sweep ends what has lapsed (subscriptionScheduler.js).     *)
(* A request reads the document, saves what it changed and then records    *)
(* the change; nothing runs in a transaction, and the document carries no  *)
(* version.                                                                *)
(***************************************************************************)
EXTENDS Integers

CONSTANTS
    Requests,
    Plans,
    NoPlan,
    Trial,      \* how long a trial is, and what an extension adds
    Period,     \* how long a period is that was paid for
    MaxNow      \* the last day, and the last end of a trial that is extended

SubscriptionsAssumption ==
    /\ NoPlan \notin Plans /\ Trial \in Nat \ {0} /\ Period \in Nat \ {0}
    /\ MaxNow \in Nat

VARIABLES
    db,         \* the subscription; its plan is NoPlan before there is one
    now,
    asks

vars == <<db, now, asks>>

SUBSCRIPTION_STATUSES == {"trialing", "active", "past_due", "cancelled", "expired"}

OPERATIONAL_SUBSCRIPTION_STATUSES == {"trialing", "active"}

\* end: trialEnd of a trial, currentPeriodEnd otherwise
Subscription ==
    [plan : Plans \cup {NoPlan}, status : SUBSCRIPTION_STATUSES,
     end : 0..MaxNow + Trial + Period, cancelAtPeriodEnd : BOOLEAN]

Fields == DOMAIN db

canTransition(from, to) ==
    CASE from = "trialing" -> to \in {"active", "past_due", "cancelled", "expired"}
      [] from = "active" -> to \in {"past_due", "cancelled", "expired"}
      [] from = "past_due" -> to \in {"active", "cancelled", "expired"}
      [] from \in {"cancelled", "expired"} -> to = "active"

Unsubscribed == [plan |-> NoPlan, status |-> "expired", end |-> 0, cancelAtPeriodEnd |-> FALSE]

\* "creating", "saving": before the write of doc's fields; "expiring": the sweep has
\* selected the row, with the flag that it had; "recording": the event is not written yet.
AskDocs ==
    [pc : {"idle", "creating", "saving", "expiring", "ending", "recording"},
     doc : Subscription, set : SUBSET {"plan", "status", "end", "cancelAtPeriodEnd"}]

NoAsk == [pc |-> "idle", doc |-> Unsubscribed, set |-> {}]

Recording == [NoAsk EXCEPT !.pc = "recording"]

Init ==
    /\ db = Unsubscribed
    /\ now = 0
    /\ asks = [r \in Requests |-> NoAsk]

Exists == db.plan # NoPlan

At(r, ask) == asks' = [asks EXCEPT ![r] = ask]

\* Booleans and enumerations that keep their value are not written; dates are.
Saving(pc, doc) ==
    [pc |-> pc, doc |-> doc,
     set |-> {f \in Fields : doc[f] # db[f]}
                \cup (IF doc.status \in OPERATIONAL_SUBSCRIPTION_STATUSES
                         /\ doc.status # db.status THEN {"end"} ELSE {})]

Reads(r, doc) ==
    /\ asks[r].pc = "idle"
    /\ Exists
    /\ At(r, Saving("saving", doc))
    /\ UNCHANGED <<db, now>>

-------------------------------------------------------------------------------
(* What administrators do                                                  *)

\* The first plan; the backfill gives one to a restaurant without any.
AssignFirst(r, plan, trial) ==
    /\ asks[r].pc = "idle"
    /\ ~Exists
    /\ At(r, [pc |-> "creating", set |-> {},
              doc |-> [plan |-> plan, status |-> IF trial THEN "trialing" ELSE "active",
                       end |-> now + IF trial THEN Trial ELSE Period,
                       cancelAtPeriodEnd |-> FALSE]])
    /\ UNCHANGED <<db, now>>

\* Mutant: an ended subscription is made active in the period that is over.
Undated(doc) == [doc EXCEPT !.status = "active", !.cancelAtPeriodEnd = FALSE]

\* An ended subscription starts again.
Renewed(doc) ==
    [doc EXCEPT !.status = "active", !.cancelAtPeriodEnd = FALSE, !.end = now + Period]

AssignPlan(r, plan) ==
    /\ plan # db.plan
    /\ LET doc == [db EXCEPT !.plan = plan]
       IN  Reads(r, IF db.status \in {"cancelled", "expired"} THEN Renewed(doc) ELSE doc)

ExtendTrial(r) ==
    /\ db.status = "trialing"
    /\ db.end <= MaxNow
    /\ Reads(r, [db EXCEPT !.end = Trial + (IF @ > now THEN @ ELSE now)])

CancelSubscription(r) ==
    /\ db.status # "cancelled"
    /\ \/ Reads(r, [db EXCEPT !.cancelAtPeriodEnd = TRUE])
       \/ /\ canTransition(db.status, "cancelled")
          /\ Reads(r, [db EXCEPT !.status = "cancelled", !.cancelAtPeriodEnd = FALSE])

ReactivateSubscription(r) ==
    \/ /\ db.status # "cancelled" /\ db.cancelAtPeriodEnd
       /\ Reads(r, [db EXCEPT !.cancelAtPeriodEnd = FALSE])
    \/ /\ db.status = "cancelled" \/ ~db.cancelAtPeriodEnd
       /\ canTransition(db.status, "active")
       /\ Reads(r, Renewed(db))

MarkPastDue(r) ==
    /\ canTransition(db.status, "past_due")
    /\ Reads(r, [db EXCEPT !.status = "past_due"])

-------------------------------------------------------------------------------
(* runSubscriptionSweep, expireSubscription                                *)

Lapsed == Exists /\ db.status \in OPERATIONAL_SUBSCRIPTION_STATUSES /\ db.end <= now

Select(r) ==
    /\ asks[r].pc = "idle" /\ Lapsed
    /\ At(r, [pc |-> "expiring", doc |-> db, set |-> {}])
    /\ UNCHANGED <<db, now>>

targetStatus(doc) ==
    IF doc.status = "active" /\ doc.cancelAtPeriodEnd THEN "cancelled" ELSE "expired"

\* Read again: the status may have changed, and so may the end, which is not looked at.
ExpireSubscription(r) ==
    LET target == targetStatus(asks[r].doc)
        doc == [db EXCEPT !.status = target,
                          !.cancelAtPeriodEnd = @ /\ target # "cancelled"]
    IN  /\ asks[r].pc = "expiring"
        /\ At(r, IF db.status # target /\ canTransition(db.status, target)
                 THEN Saving("ending", doc) ELSE NoAsk)
        /\ UNCHANGED <<db, now>>

-------------------------------------------------------------------------------
(* The writes                                                              *)

\* Mutant: the document is written as it was read and changed.
Whole(ask) == ask.doc

\* A save writes the paths that were modified.
Saved(ask) == [f \in Fields |-> IF f \in ask.set THEN ask.doc[f] ELSE db[f]]

Save(r) ==
    /\ asks[r].pc \in {"saving", "ending"}
    /\ db' = Saved(asks[r])
    /\ At(r, Recording)
    /\ UNCHANGED now

\* A restaurant has one subscription: the index refuses another.
Create(r) ==
    /\ asks[r].pc = "creating"
    /\ IF Exists THEN db' = db /\ At(r, NoAsk)
       ELSE db' = asks[r].doc /\ At(r, Recording)
    /\ UNCHANGED now

\* The subscription_events, the audit trail and what is cached of the plan follow.
RecordSubscriptionChange(r) ==
    /\ asks[r].pc = "recording"
    /\ At(r, NoAsk)
    /\ UNCHANGED <<db, now>>

\* A day passes; a write follows its read at once.
Tick ==
    /\ now < MaxNow
    /\ \A r \in Requests : asks[r].pc \notin {"creating", "saving", "ending"}
    /\ now' = now + 1
    /\ UNCHANGED <<db, asks>>

-------------------------------------------------------------------------------
\* routes/subscriptions.js
AdminStep(r) ==
    \/ \E plan \in Plans : AssignPlan(r, plan) \/ \E trial \in BOOLEAN : AssignFirst(r, plan, trial)
    \/ ExtendTrial(r) \/ CancelSubscription(r) \/ ReactivateSubscription(r) \/ MarkPastDue(r)

\* Requests and sweeps alike.
WriteStep(r) == Save(r) \/ Create(r) \/ RecordSubscriptionChange(r)

SweepStep(r) == Select(r) \/ ExpireSubscription(r)

Next == Tick \/ \E r \in Requests : AdminStep(r) \/ SweepStep(r) \/ WriteStep(r)

Spec == Init /\ [][Next]_vars

-------------------------------------------------------------------------------
TypeOK ==
    /\ db \in Subscription
    /\ now \in 0..MaxNow
    /\ asks \in [Requests -> AskDocs]

\* models/billing.js:222: nothing returns to trialing, even when requests that read the
\* trial save after it ended; and what is operational again has a period before it.
TrialedOnce ==
    Exists =>
        /\ db'.status = "trialing" => db.status = "trialing"
        /\ /\ db.status \notin OPERATIONAL_SUBSCRIPTION_STATUSES
           /\ db'.status \in OPERATIONAL_SUBSCRIPTION_STATUSES
           => db'.end > now

\* subscriptionLifecycle.js:102: what an administrator decided after the sweep selected the
\* row is not overwritten: the sweep ends what has lapsed.
SweepKeepsDecisions ==
    \A r \in Requests : ExpireSubscription(r) /\ asks'[r].pc = "ending" => Lapsed
===============================================================================
