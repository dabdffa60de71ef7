------------------------------- MODULE RoleCache -------------------------------
(***************************************************************************)
(* How one server decides what an account with a custom role may do        *)
(* (accessControl.js resolvePrincipal, principalCache.js), while the role  *)
(* is edited, withdrawn and given back through this server and others      *)
(* (roles.js), and its change stream comes and goes.                       *)
(*                                                                         *)
(* Time is in ticks; no step of a request takes longer than MaxWait.  The  *)
(* account itself is read on every request and is in Accounts.             *)
(***************************************************************************)
EXTENDS Integers, FiniteSets, ChangeStream

CONSTANTS
    Requests,
    NoRequest,
    TTL,
    MaxWait,      \* how long a request may take between two steps
    MaxEdits,
    MaxTime

RoleCacheAssumption ==
    /\ NoRequest \notin Requests
    /\ TTL \in Nat /\ MaxWait \in Nat /\ MaxEdits \in Nat /\ MaxTime \in Nat

VARIABLES
    db,       \* the role, and when each of its versions was replaced
    now,
    cache,    \* the entry and the load in flight of withRoleCache
    asks      \* the requests

vars == <<db, now, cache, asks, stream>>

Versions == 0..MaxEdits

NoEntry == [version |-> -1, expires |-> -1]

Databases == [role : [version : Versions, live : BOOLEAN],
              replacedAt : [Versions -> -1..MaxTime]]

\* "loading": the query is under way; "filling": its result is here; "waiting": for
\* another's load; "checking": the role is known.
AskDocs == [pc : {"idle", "loading", "filling", "waiting", "checking"},
            version : -1..MaxEdits, live : BOOLEAN, since : 0..MaxTime]

NoAsk == [pc |-> "idle", version |-> -1, live |-> FALSE, since |-> 0]

Init ==
    /\ db = [role |-> [version |-> 0, live |-> TRUE],
             replacedAt |-> [v \in Versions |-> -1]]
    /\ now = 0
    /\ cache = [entry |-> NoEntry, inflight |-> NoRequest]
    /\ asks = [r \in Requests |-> NoAsk]
    /\ stream = Running

\* Mutant: an entry is used for as long as it is there.
NeverExpires(entry) == entry # NoEntry

\* hit.expires > Date.now()
Fresh(entry) == entry # NoEntry /\ entry.expires > now

\* invalidateRole, invalidateAllRoles
Invalidated == [entry |-> NoEntry, inflight |-> NoRequest]

At(r, ask) == asks' = [asks EXCEPT ![r] = ask]

-------------------------------------------------------------------------------
(* withRoleCache                                                           *)

Ask(r) ==
    /\ asks[r].pc = "idle"
    /\ \/ /\ Fresh(cache.entry)
          /\ At(r, [pc |-> "checking", version |-> cache.entry.version, live |-> TRUE,
                    since |-> now])
          /\ UNCHANGED cache
       \/ /\ ~Fresh(cache.entry) /\ cache.inflight # NoRequest
          /\ At(r, [NoAsk EXCEPT !.pc = "waiting", !.since = now])
          /\ cache' = [cache EXCEPT !.entry = NoEntry]
       \/ /\ ~Fresh(cache.entry) /\ cache.inflight = NoRequest
          /\ At(r, [NoAsk EXCEPT !.pc = "loading", !.since = now])
          /\ cache' = [entry |-> NoEntry, inflight |-> r]
    /\ UNCHANGED <<db, now, stream>>

\* Role.findOne
Load(r) ==
    /\ asks[r].pc = "loading"
    /\ At(r, [pc |-> "filling", version |-> db.role.version, live |-> db.role.live,
              since |-> now])
    /\ UNCHANGED <<db, now, cache, stream>>

\* The loader's promise is settled, whatever was invalidated meanwhile; the requests that
\* wait for it are those that joined it.
Fill(r) ==
    /\ asks[r].pc = "filling"
    /\ \E joined \in SUBSET {q \in Requests : asks[q].pc = "waiting"} :
          /\ cache.inflight = r => joined = {q \in Requests : asks[q].pc = "waiting"}
          /\ asks' = [q \in Requests |->
                IF q \in joined \cup {r}
                THEN [asks[r] EXCEPT !.pc = "checking", !.since = now] ELSE asks[q]]
    /\ cache' = [entry |-> IF asks[r].live
                           THEN [version |-> asks[r].version, expires |-> now + TTL]
                           ELSE cache.entry,
                 inflight |-> NoRequest]
    /\ UNCHANGED <<db, now, stream>>

\* Mutant: the copy that was loaded says whether the role is active.
LiveWhenLoaded(r) == asks[r].live

\* Role.exists, after the cache
StillLive(r) == db.role.live

Granted(r) ==
    /\ asks[r].pc = "checking"
    /\ asks[r].live /\ StillLive(r)
    /\ At(r, NoAsk)
    /\ UNCHANGED <<db, now, cache, stream>>

Denied(r) ==
    /\ asks[r].pc = "checking"
    /\ ~(asks[r].live /\ StillLive(r))
    /\ At(r, NoAsk)
    /\ cache' = IF StillLive(r) THEN cache ELSE Invalidated
    /\ UNCHANGED <<db, now, stream>>

-------------------------------------------------------------------------------
(* roles.js, here or on another server                                     *)

Written(live) ==
    /\ db.role.version < MaxEdits
    /\ db' = [role |-> [version |-> db.role.version + 1, live |-> live],
              replacedAt |-> [db.replacedAt EXCEPT ![db.role.version] = now]]
    /\ stream' = Hears(stream)
    /\ UNCHANGED <<now, cache, asks>>

\* updateRole: permissions, or the role is made active again
UpdateRole == Written(TRUE)

\* updateRole with active false, deleteRole
WithdrawRole == db.role.live /\ Written(FALSE)

\* refreshRoleHolders and invalidateRole, once the write and its audit row are done
RefreshRoleHolders ==
    /\ db.role.version > 0
    /\ cache' = Invalidated
    /\ UNCHANGED <<db, now, asks, stream>>

-------------------------------------------------------------------------------
(* roleChangeStream.js                                                     *)

OnChange == HandleEvent /\ cache' = Invalidated /\ UNCHANGED <<db, now, asks>>

OnError == (StreamFails \/ LateError) /\ cache' = Invalidated /\ UNCHANGED <<db, now, asks>>

\* startRoleChangeStream leaves the cache as it is.
Restart == StreamReturns /\ UNCHANGED <<db, now, cache, asks>>

Tick ==
    /\ now < MaxTime
    /\ \A r \in Requests : asks[r].pc # "idle" => now - asks[r].since < MaxWait
    /\ now' = now + 1
    /\ UNCHANGED <<db, cache, asks, stream>>

AskStep(r) == Ask(r) \/ Load(r) \/ Fill(r) \/ Granted(r) \/ Denied(r)

Next ==
    \/ \E r \in Requests : AskStep(r)
    \/ UpdateRole \/ WithdrawRole \/ RefreshRoleHolders
    \/ OnChange \/ OnError \/ Restart
    \/ Tick

Spec == Init /\ [][Next]_vars

-------------------------------------------------------------------------------
TypeOK ==
    /\ db \in Databases
    /\ now \in 0..MaxTime
    /\ cache.entry \in [version : -1..MaxEdits, expires : Int]
    /\ cache.inflight \in Requests \cup {NoRequest}
    /\ asks \in [Requests -> AskDocs]
    /\ stream \in Streams

\* README:1118: staleness "is bounded by the TTL": permissions that were replaced are
\* granted for no longer than that and the time the request and the load took, even when
\* a load that began before the edit fills the cache after every invalidation.
StaleForOneTTL ==
    \A r \in Requests :
        Granted(r) /\ asks[r].version # db.role.version
            => now - db.replacedAt[asks[r].version] <= TTL + 2 * MaxWait

\* README:1122: "withdrawal is never deferred": whoever asks after the role was withdrawn
\* is refused, and so is everyone whose copy is of a withdrawn role.
WithdrawnIsRefused ==
    \A r \in Requests : Granted(r) => db.role.live
===============================================================================
