---------------------------- MODULE EntitlementCache ---------------------------
(***************************************************************************)
(* How one server learns what a restaurant's plan lets it do               *)
(* (services/entitlements.js): three documents read one after the other    *)
(* and remembered for a while, as other servers write them, the period     *)
(* ends, and the change stream comes and goes (billingChangeStream.js).    *)
(*                                                                         *)
(* Time is in ticks; no step of a request takes longer than MaxWait.       *)
(***************************************************************************)
EXTENDS Integers, FiniteSets, ChangeStream

CONSTANTS
    Requests,
    TTL,
    MaxWait,
    MaxEdits,     \* of each document
    PeriodEnd,    \* when the trial, or the period paid for, ends
    MaxTime

EntitlementAssumption ==
    /\ TTL \in Nat /\ MaxWait \in Nat
    /\ MaxEdits \in Nat /\ PeriodEnd \in Nat /\ MaxTime \in Nat

VARIABLES
    db,       \* the version of each document, and when its versions were replaced
    now,
    cache,    \* what is remembered of the restaurant
    asks

vars == <<db, now, cache, asks, stream>>

Documents == {"restaurant", "subscription", "plan"}

\* What the change stream watches.
Watched == {"subscription", "plan"}

Versions == 0..MaxEdits

Unread == [doc \in Documents |-> -1]

Entitlements == [read : [Documents -> -1..MaxEdits], operational : BOOLEAN]

NoEntry == [value |-> [read |-> Unread, operational |-> FALSE], expires |-> -1]

Databases == [version : [Documents -> Versions],
              replacedAt : [Documents -> [Versions -> -1..MaxTime]]]

\* The document a request reads next; "answer": it has an entitlement.
AskDocs == [pc : Documents \cup {"idle", "remember", "answer"}, value : Entitlements,
            since : 0..MaxTime]

NoAsk == [pc |-> "idle", value |-> NoEntry.value, since |-> 0]

Init ==
    /\ db = [version |-> [doc \in Documents |-> 0],
             replacedAt |-> [doc \in Documents |-> [v \in Versions |-> -1]]]
    /\ now = 0
    /\ cache = NoEntry
    /\ asks = [r \in Requests |-> NoAsk]
    /\ stream = Running

\* Mutant: an entry lasts until something invalidates it.
Everlasting(entry) == entry.expires >= 0

\* cached
Remembered(entry) == entry.expires >= now

At(r, ask) == asks' = [asks EXCEPT ![r] = ask]

\* Odd versions of the restaurant are suspended ones.
Suspended(v) == v % 2 = 1

-------------------------------------------------------------------------------
(* resolveEntitlement                                                      *)

Hit(r) ==
    /\ asks[r].pc = "idle" /\ Remembered(cache)
    /\ At(r, [pc |-> "answer", value |-> cache.value, since |-> now])
    /\ UNCHANGED <<db, now, cache, stream>>

\* Nothing is remembered, or the request wants it fresh, as the billing pages do.
Miss(r) ==
    /\ asks[r].pc = "idle"
    /\ At(r, [NoAsk EXCEPT !.pc = "restaurant", !.since = now])
    /\ UNCHANGED <<db, now, cache, stream>>

\* Mutant: what the subscription says is taken for the plan.
SkipsPlan(doc, version) ==
    IF doc = "restaurant" /\ ~Suspended(version) THEN "subscription" ELSE "remember"

\* The next document; a suspended restaurant's subscription is not looked up.
NextDocument(doc, version) ==
    CASE doc = "restaurant" -> IF Suspended(version) THEN "remember" ELSE "subscription"
      [] doc = "subscription" -> "plan"
      [] doc = "plan" -> "remember"

Read(r, doc) ==
    /\ asks[r].pc = doc
    /\ At(r, [pc |-> NextDocument(doc, db.version[doc]),
              value |-> [asks[r].value EXCEPT !.read[doc] = db.version[doc]], since |-> now])
    /\ UNCHANGED <<db, now, cache, stream>>

\* operational: judged by the clock when it is remembered.
Operational(value) == ~Suspended(value.read["restaurant"]) /\ now < PeriodEnd

Remember(r) ==
    LET value == [asks[r].value EXCEPT !.operational = Operational(asks[r].value)]
    IN  /\ asks[r].pc = "remember"
        /\ At(r, [pc |-> "answer", value |-> value, since |-> now])
        /\ cache' = [value |-> value, expires |-> now + TTL]
        /\ UNCHANGED <<db, now, stream>>

\* assertFeature, assertWithinLimit, hasFeature, getLimit
Answer(r) ==
    /\ asks[r].pc = "answer"
    /\ At(r, NoAsk)
    /\ UNCHANGED <<db, now, cache, stream>>

-------------------------------------------------------------------------------
\* subscriptions.js, platformAdmin.js: a document is written, here or elsewhere.
WriteDocument(doc) ==
    /\ db.version[doc] < MaxEdits
    /\ db' = [version |-> [db.version EXCEPT ![doc] = @ + 1],
              replacedAt |-> [db.replacedAt EXCEPT ![doc][db.version[doc]] = now]]
    /\ stream' = IF doc \in Watched THEN Hears(stream) ELSE stream
    /\ UNCHANGED <<now, cache, asks>>

\* invalidateEntitlements, by the server that wrote, once it has written
InvalidateEntitlements ==
    /\ \E doc \in Documents : db.version[doc] > 0
    /\ cache' = NoEntry
    /\ UNCHANGED <<db, now, asks, stream>>

\* billingChangeStream.js
OnChange == HandleEvent /\ cache' = NoEntry /\ UNCHANGED <<db, now, asks>>

OnError == (StreamFails \/ LateError) /\ cache' = NoEntry /\ UNCHANGED <<db, now, asks>>

\* startBillingChangeStream forgets what was remembered while it was down.
Restart == StreamReturns /\ cache' = NoEntry /\ UNCHANGED <<db, now, asks>>

Tick ==
    /\ now < MaxTime
    /\ \A r \in Requests : asks[r].pc # "idle" => now - asks[r].since < MaxWait
    /\ now' = now + 1
    /\ UNCHANGED <<db, cache, asks, stream>>

AskStep(r) ==
    Hit(r) \/ Miss(r) \/ Remember(r) \/ Answer(r) \/ \E doc \in Documents : Read(r, doc)

Next ==
    \/ \E r \in Requests : AskStep(r)
    \/ \E doc \in Documents : WriteDocument(doc)
    \/ InvalidateEntitlements
    \/ OnChange \/ OnError \/ Restart
    \/ Tick

Spec == Init /\ [][Next]_vars

-------------------------------------------------------------------------------
TypeOK ==
    /\ db \in Databases
    /\ now \in 0..MaxTime
    /\ cache \in [value : Entitlements, expires : Int]
    /\ asks \in [Requests -> AskDocs]
    /\ \A r \in Requests : asks[r].pc = "answer" =>
          LET read == asks[r].value.read
          IN  \A doc \in Documents : read[doc] \in Versions \/ Suspended(read["restaurant"])
    /\ stream \in Streams

\* README's "entitlement cache TTL (30s)": nothing is decided by a document that was replaced,
\* nor by a period that ended, longer ago than the TTL and the steps of a load, even when a
\* slow load is remembered after the invalidation that its write caused.
PlanStaleForOneTTL ==
    \A r \in Requests :
        Answer(r) =>
            /\ \A doc \in Documents :
                  LET v == asks[r].value.read[doc]
                  IN  v >= 0 /\ v # db.version[doc]
                         => now - db.replacedAt[doc][v] <= TTL + 4 * MaxWait
            /\ asks[r].value.operational => now - PeriodEnd < TTL + MaxWait
===============================================================================
