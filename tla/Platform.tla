-------------------------------- MODULE Platform --------------------------------
(***************************************************************************)
(* The operators of the platform and the restaurants they administer       *)
(* (services/platformAdmin.js, platformAccess.js, tenantAdmin.js,          *)
(* onboarding.js, scripts/platform-admin.js), and the one request of a     *)
(* restaurant that reaches an operator's account (staffAccounts.js).  No   *)
(* request runs in a transaction, and users carry no version.              *)
(***************************************************************************)
EXTENDS Integers, FiniteSets

CONSTANTS
    Requests,
    Users,
    NoUser

PlatformAssumption == NoUser \notin Users

VARIABLES
    db,      \* user: the accounts; restaurant: one restaurant of the platform
    asks

vars == <<db, asks>>

\* platform_support, platform_admin, super_admin; 0 is no platformRole
Ranks == 0..3

super_admin == 3

\* role: as an employee of a restaurant
UserDocs == [rank : Ranks, active : BOOLEAN, role : {"owner", "manager"}]

\* trial is as good as active, cancelled as bad as suspended.
TENANT_STATUSES == {"active", "suspended"}

Operations == {"active", "role", "script", "status", "create", "provision"}

\* rank: of the actor, as read from the database; alone: nothing else was in progress
AskDocs ==
    [pc : {"idle", "authorized", "counting", "saving", "owning"},
     op : Operations, target : Users \cup {NoUser}, rank : Ranks,
     wanted : Ranks, on : BOOLEAN, status : TENANT_STATUSES, alone : BOOLEAN]

NoAsk ==
    [pc |-> "idle", op |-> "role", target |-> NoUser, rank |-> 0,
     wanted |-> 0, on |-> FALSE, status |-> "active", alone |-> TRUE]

Supers(d) == {u \in Users : d.user[u].rank = super_admin /\ d.user[u].active}

Init ==
    /\ db \in [user : [Users -> UserDocs],
               restaurant : [status : {"none"}, owned : {FALSE}]]
    /\ Supers(db) # {}
    /\ asks = [r \in Requests |-> NoAsk]

Busy == {r \in Requests : asks[r].pc # "idle"}

At(r, ask) == asks' = [asks EXCEPT ![r] = ask]

\* Whatever is in progress has company from here on.
Starts(r, ask) ==
    asks' = [q \in Requests |-> IF q = r THEN [ask EXCEPT !.alone = Busy = {}]
                                ELSE [asks[q] EXCEPT !.alone = FALSE]]

-------------------------------------------------------------------------------
(* platformAccess.js                                                       *)

platformRank(op) ==
    CASE op = "role" -> super_admin
      [] op \in {"active", "status", "create"} -> 2
      [] op \in {"script", "provision"} -> 0

\* A deactivated account has no permissions.
hasPlatformPermission(user, op) == user.active /\ user.rank >= platformRank(op)

canGrantPlatformRole(actor, target) == actor > 0 /\ target > 0 /\ target <= actor

canAdministerPlatformUser(actor, target) == target = 0 \/ target < actor

-------------------------------------------------------------------------------
(* The accounts of operators                                               *)

assertPlatform(r, actor, ask) ==
    /\ asks[r].pc = "idle"
    /\ hasPlatformPermission(db.user[actor], ask.op)
    /\ actor # ask.target
    /\ Starts(r, [ask EXCEPT !.pc = "authorized", !.rank = db.user[actor].rank])
    /\ UNCHANGED db

\* Whoever has a shell on the server needs no account.
PlatformAdminScript(r, target, wanted) ==
    /\ asks[r].pc = "idle"
    /\ Starts(r, [NoAsk EXCEPT !.pc = "authorized", !.op = "script", !.target = target,
                               !.wanted = wanted])
    /\ UNCHANGED db

\* The target is read, and refused or not by what is read.
MaySetActive(ask, target) ==
    canAdministerPlatformUser(ask.rank, target.rank) /\ target.active # ask.on

MaySetRole(ask, target) ==
    /\ ask.wanted # 0 => canGrantPlatformRole(ask.rank, ask.wanted)
    /\ target.active
    /\ target.rank # 0 => canGrantPlatformRole(ask.rank, target.rank)
    /\ target.rank # ask.wanted

MayGrantFromShell(ask, target) ==
    target.rank # ask.wanted /\ (ask.wanted # 0 => target.active)

LoadTarget(r) ==
    LET ask == asks[r]
        target == db.user[ask.target]
        may == CASE ask.op = "active" -> MaySetActive(ask, target)
                 [] ask.op = "role" -> MaySetRole(ask, target)
                 [] ask.op = "script" -> MayGrantFromShell(ask, target)
        demotes == ask.op # "active" /\ target.rank = super_admin
    IN  /\ ask.pc = "authorized" /\ ask.target # NoUser
        /\ At(r, IF ~may THEN NoAsk
                 ELSE [ask EXCEPT !.pc = IF demotes THEN "counting" ELSE "saving"])
        /\ UNCHANGED db

\* Mutant: a super administrator who is switched off counts.
AnySupers(target) == {u \in Users \ {target} : db.user[u].rank = super_admin}

\* The other super administrators who can still sign in
Remaining(target) == Supers(db) \ {target}

\* The last one cannot be demoted; the count is of now, the write comes later.
CountSupers(r) ==
    /\ asks[r].pc = "counting"
    /\ At(r, IF Remaining(asks[r].target) = {} THEN NoAsk ELSE [asks[r] EXCEPT !.pc = "saving"])
    /\ UNCHANGED db

\* Writes what was changed; the audit row follows, and the sessions are revoked: see Accounts.
SaveTarget(r) ==
    LET ask == asks[r]
        u == ask.target
    IN  /\ ask.pc = "saving" /\ u # NoUser
        /\ db' = IF ask.op = "active" THEN [db EXCEPT !.user[u].active = ask.on]
                 ELSE [db EXCEPT !.user[u].rank = ask.wanted]
        /\ At(r, NoAsk)

SetPlatformUserActive(r) ==
    \E actor, target \in Users, on \in BOOLEAN :
        assertPlatform(r, actor, [NoAsk EXCEPT !.op = "active", !.target = target, !.on = on])

SetPlatformRole(r) ==
    \E actor, target \in Users, rank \in Ranks :
        assertPlatform(r, actor, [NoAsk EXCEPT !.target = target, !.wanted = rank])

\* A restaurant switches an account of its own off or on, whatever platformRole it has.
SetAccountActive(u) ==
    /\ db.user[u].role # "owner"
    /\ db' = [db EXCEPT !.user[u].active = ~@]
    /\ asks' = [q \in Requests |-> [asks[q] EXCEPT !.alone = @ /\ asks[q].pc = "idle"]]

-------------------------------------------------------------------------------
(* Restaurants                                                             *)

CreateRestaurant(r) ==
    /\ asks[r].pc = "idle"
    /\ db.restaurant.status = "none"
    /\ \E actor \in Users : hasPlatformPermission(db.user[actor], "create")
    /\ \E status \in TENANT_STATUSES : db' = [db EXCEPT !.restaurant.status = status]
    /\ UNCHANGED asks

\* The restaurant first and its owner after it; nothing takes the restaurant back when the
\* owner cannot be created.
ProvisionRestaurant(r) ==
    /\ asks[r].pc = "idle"
    /\ db.restaurant.status = "none"
    /\ db' = [db EXCEPT !.restaurant.status = "active"]
    /\ Starts(r, [NoAsk EXCEPT !.pc = "owning", !.op = "provision"])

CreateOwner(r) ==
    /\ asks[r].pc = "owning"
    /\ db' \in {db, [db EXCEPT !.restaurant.owned = TRUE]}
    /\ At(r, NoAsk)

LIFECYCLE(r) ==
    \E actor \in Users, status \in TENANT_STATUSES :
        /\ db.restaurant.status # "none"
        /\ assertPlatform(r, actor, [NoAsk EXCEPT !.op = "status", !.status = status])

SetRestaurantStatus(r) ==
    /\ asks[r].pc = "authorized" /\ asks[r].op = "status"
    /\ db' = [db EXCEPT !.restaurant.status = asks[r].status]
    /\ At(r, NoAsk)

-------------------------------------------------------------------------------
\* routes/platform.js and the script
OperatorStep(r) ==
    \/ SetPlatformUserActive(r) \/ SetPlatformRole(r)
    \/ \E target \in Users, rank \in Ranks : PlatformAdminScript(r, target, rank)
    \/ LoadTarget(r) \/ CountSupers(r) \/ SaveTarget(r)

\* routes/tenants.js, routes/onboarding.js
TenantStep(r) ==
    CreateRestaurant(r) \/ ProvisionRestaurant(r) \/ CreateOwner(r) \/ LIFECYCLE(r)
    \/ SetRestaurantStatus(r)

Next ==
    \/ \E r \in Requests : OperatorStep(r) \/ TenantStep(r)
    \/ \E u \in Users : SetAccountActive(u)

Spec == Init /\ [][Next]_vars

-------------------------------------------------------------------------------
TypeOK ==
    /\ db.user \in [Users -> UserDocs]
    /\ db.restaurant \in [status : TENANT_STATUSES \cup {"none"}, owned : BOOLEAN]
    /\ asks \in [Requests -> AskDocs]

\* platformAdmin.js:367, scripts/platform-admin.js:130: no sequence of requests to the
\* platform, one after the other, leaves it without a super administrator who can sign in:
\* whoever switches an account off outranks it, and whoever demotes a super administrator
\* leaves another.
ASuperStays ==
    \A r \in Requests :
        /\ asks[r].alone /\ SaveTarget(r)
        /\ Supers(db) # {}
        => Supers(db') # {}

\* The same without the two conditions: README.md:53 says that the last super administrator
\* is protected.
LastSuperStays == Supers(db) # {}
===============================================================================
