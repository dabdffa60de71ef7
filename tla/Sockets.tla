-------------------------------- MODULE Sockets -------------------------------
(***************************************************************************)
(* The rooms that one server's sockets are in, while accounts are assigned *)
(* to other roles and branches and sessions are ended (realtime.js,        *)
(* sessions.js, roles.js assignUserRole).  A step reads the database or    *)
(* goes on with what was read, so that requests overlap at every await.    *)
(*                                                                         *)
(* The room for purchasing's management is entered and left with that of   *)
(* the branch, by the role that the socket has for good.                   *)
(***************************************************************************)
EXTENDS Integers, FiniteSets

CONSTANTS
    Requests,
    Users,
    Sockets,      \* connections, each with a session of its own
    Branches,
    NoBranch,
    MaxEdits      \* bounds the writes to accounts

SocketsAssumption == NoBranch \notin Branches /\ MaxEdits \in Nat

VARIABLES
    db,         \* accounts, and the sessions that were ended
    edits,
    sockets,
    asks,       \* the requests
    news        \* the kitchen event being published

vars == <<db, edits, sockets, asks, news>>

\* A manager is bound to a branch as the staff is.
Roles == {"owner", "staff", "rider"}

UserDocs == [role : Roles, branch : Branches, version : 0..MaxEdits]

Databases == [user : [Users -> UserDocs], ended : SUBSET Sockets]

\* socket.user, its branch room, and socket.data.branchId.
SocketDocs == [pc : {"new", "opening", "on", "off"}, user : Users, role : Roles,
               version : 0..MaxEdits, room : Branches \cup {NoBranch},
               data : Branches \cup {NoBranch}]

\* "joining": access was granted; "assigned", "revoked": sockets are to be refreshed, or
\* ended; "refreshing": one after the other; "expired", "known", "denied", "allowed": what
\* the database said of the socket.
AskDocs == [pc : {"idle", "joining", "assigned", "revoked", "refreshing", "expired", "known",
                  "denied", "allowed"},
            user : SUBSET Users, socket : SUBSET Sockets, todo : SUBSET Sockets,
            branch : Branches \cup {NoBranch}]

NoAsk == [pc |-> "idle", user |-> {}, socket |-> {}, todo |-> {}, branch |-> NoBranch]

\* A history: the assignments there were since the publication began, and who was joining.
NewsDocs == [branch : Branches \cup {NoBranch}, todo : SUBSET Sockets,
             stale : SUBSET Sockets,
             held : SUBSET [user : Users, role : Roles, branch : Branches],
             joining : SUBSET Sockets]

NoNews == [branch |-> NoBranch, todo |-> {}, stale |-> {}, held |-> {}, joining |-> {}]

Init ==
    /\ db \in [user : [Users -> [role : Roles, branch : Branches, version : {0}]],
               ended : {{}}]
    /\ edits = 0
    /\ sockets \in [Sockets -> [pc : {"new"}, user : Users, role : {"staff"}, version : {0},
                                room : {NoBranch}, data : {NoBranch}]]
    /\ asks = [r \in Requests |-> NoAsk]
    /\ news = NoNews

At(r, ask) == asks' = [asks EXCEPT ![r] = ask]

\* sockets of the user that fetchSockets finds
Live(u) == {s \in Sockets : sockets[s].pc = "on" /\ sockets[s].user = u}

Assignment(u) == [user |-> u, role |-> db.user[u].role, branch |-> db.user[u].branch]

\* purchaseBranchContext of an account with that assignment
Grants(held, s, b) ==
    /\ held.user = sockets[s].user /\ held.role = sockets[s].role
    /\ held.role = "owner" \/ held.branch = b

MayEnter(s, b) == Grants(Assignment(sockets[s].user), s, b)

\* socket.disconnect(true): its rooms are left, and it joins none any more.
Off(s) == [s EXCEPT !.pc = "off", !.room = NoBranch, !.data = NoBranch]

Left(s, b) == [s EXCEPT !.room = IF @ = b THEN NoBranch ELSE @, !.data = NoBranch]

-------------------------------------------------------------------------------
(* Connections                                                             *)

\* The handshake resolves the principal, ...
Handshake(s) ==
    LET user == db.user[sockets[s].user]
    IN  /\ sockets[s].pc = "new" /\ s \notin db.ended
        /\ sockets' = [sockets EXCEPT ![s] = [@ EXCEPT !.pc = "opening", !.role = user.role,
                                                       !.version = user.version]]
        /\ UNCHANGED <<db, edits, asks, news>>

\* ... and some time later the socket is one of the server's.
Connect(s) ==
    /\ sockets[s].pc = "opening"
    /\ sockets' = [sockets EXCEPT ![s].pc = "on"]
    /\ UNCHANGED <<db, edits, asks, news>>

Disconnect(s) ==
    /\ sockets[s].pc \in {"opening", "on"}
    /\ sockets' = [sockets EXCEPT ![s] = Off(@)]
    /\ UNCHANGED <<db, edits, asks, news>>

\* A join that is refused changes nothing.
StartJoin(r, s, b) ==
    /\ asks[r].pc = "idle"
    /\ sockets[s].pc = "on" /\ sockets[s].role # "rider"
    /\ MayEnter(s, b)
    /\ At(r, [NoAsk EXCEPT !.pc = "joining", !.socket = {s}, !.branch = b])
    /\ UNCHANGED <<db, edits, sockets, news>>

FinishJoin(r) ==
    /\ asks[r].pc = "joining"
    /\ sockets' = [s \in Sockets |->
          IF s \in asks[r].socket /\ sockets[s].pc = "on"
          THEN [sockets[s] EXCEPT !.room = asks[r].branch, !.data = asks[r].branch]
          ELSE sockets[s]]
    /\ At(r, NoAsk)
    /\ UNCHANGED <<db, edits, news>>

LeaveBranch(s, b) ==
    /\ sockets[s].pc = "on"
    /\ sockets[s].data \in {NoBranch, b}
    /\ sockets' = [sockets EXCEPT ![s] = Left(@, b)]
    /\ UNCHANGED <<db, edits, asks, news>>

-------------------------------------------------------------------------------
(* Accounts and sessions                                                   *)

\* assignUserRole saves.
Assign(r, u, role, b) ==
    /\ asks[r].pc = "idle" /\ edits < MaxEdits
    /\ edits' = edits + 1
    /\ <<role, b>> # <<db.user[u].role, db.user[u].branch>>
    /\ db' = [db EXCEPT !.user[u] = [@ EXCEPT !.role = role, !.branch = b]]
    /\ At(r, [NoAsk EXCEPT !.pc = "assigned", !.user = {u}])
    /\ news' = IF news = NoNews THEN NoNews
               ELSE [news EXCEPT !.held = @ \cup {[user |-> u, role |-> role, branch |-> b]}]
    /\ UNCHANGED sockets

\* revokeUserSessions, until the account and its sessions are written
RevokeUserSessions(r, u) ==
    /\ asks[r].pc = "idle" /\ edits < MaxEdits
    /\ edits' = edits + 1
    /\ db' = [user |-> [db.user EXCEPT ![u].version = @ + 1],
              ended |-> db.ended \cup {s \in Sockets : sockets[s].pc # "new"
                                                       /\ sockets[s].user = u}]
    /\ At(r, [NoAsk EXCEPT !.pc = "revoked", !.user = {u}])
    /\ UNCHANGED <<sockets, news>>

\* revokeDeviceSession, until the session is written
RevokeDeviceSession(r, s) ==
    /\ asks[r].pc = "idle" /\ edits < MaxEdits
    /\ edits' = edits + 1
    /\ sockets[s].pc # "new" /\ s \notin db.ended
    /\ db' = [db EXCEPT !.ended = @ \cup {s}]
    /\ At(r, [NoAsk EXCEPT !.pc = "assigned", !.user = {sockets[s].user}])
    /\ UNCHANGED <<sockets, news>>

DisconnectUserSockets(r) ==
    /\ asks[r].pc = "revoked"
    /\ sockets' = [s \in Sockets |->
          IF \E u \in asks[r].user : s \in Live(u) THEN Off(sockets[s]) ELSE sockets[s]]
    /\ At(r, NoAsk)
    /\ UNCHANGED <<db, edits, news>>

-------------------------------------------------------------------------------
(* refreshUserSockets                                                      *)

SocketsForUser(r) ==
    /\ asks[r].pc = "assigned"
    /\ \E u \in asks[r].user : At(r, [asks[r] EXCEPT !.pc = "refreshing", !.todo = Live(u)])
    /\ UNCHANGED <<db, edits, sockets, news>>

\* resolvePrincipal is not told which session the socket belongs to.
Resolves(s) ==
    LET user == db.user[sockets[s].user]
    IN  user.role = sockets[s].role /\ user.version = sockets[s].version

Resolve(r, s) ==
    /\ asks[r].pc = "refreshing" /\ s \in asks[r].todo
    /\ At(r, [asks[r] EXCEPT !.pc = IF Resolves(s) THEN "known" ELSE "expired",
                             !.socket = {s}, !.todo = @ \ {s}])
    /\ UNCHANGED <<db, edits, sockets, news>>

Goes(r, s, pc) == s \in asks[r].socket /\ asks[r].pc = pc

GoOn(r) == At(r, [asks[r] EXCEPT !.pc = "refreshing", !.socket = {}, !.branch = NoBranch])

\* session:revoked
End(r, s) ==
    /\ Goes(r, s, "expired")
    /\ sockets' = [sockets EXCEPT ![s] = Off(@)]
    /\ GoOn(r)
    /\ UNCHANGED <<db, edits, news>>

\* A rider leaves every branch room; a socket that is in none has nothing to lose.
Skip(r, s) ==
    /\ Goes(r, s, "known")
    /\ sockets[s].role = "rider" \/ sockets[s].data = NoBranch
    /\ sockets' = IF sockets[s].role = "rider"
                  THEN [sockets EXCEPT ![s] = Left(@, @.room)] ELSE sockets
    /\ GoOn(r)
    /\ UNCHANGED <<db, edits, news>>

Recheck(r, s) ==
    /\ Goes(r, s, "known")
    /\ sockets[s].role # "rider" /\ sockets[s].data # NoBranch
    /\ At(r, [asks[r] EXCEPT !.pc = IF MayEnter(s, sockets[s].data) THEN "allowed" ELSE "denied",
                             !.branch = sockets[s].data])
    /\ UNCHANGED <<db, edits, sockets, news>>

Deny(r, s) ==
    /\ Goes(r, s, "denied")
    /\ sockets' = [sockets EXCEPT ![s] = Left(@, asks[r].branch)]
    /\ GoOn(r)
    /\ UNCHANGED <<db, edits, news>>

Keep(r, s) == Goes(r, s, "allowed") /\ GoOn(r) /\ UNCHANGED <<db, edits, sockets, news>>

Refreshed(r) ==
    /\ asks[r].pc = "refreshing" /\ asks[r].todo = {}
    /\ At(r, NoAsk)
    /\ UNCHANGED <<db, edits, sockets, news>>

-------------------------------------------------------------------------------
(* emitKitchenEventChecked                                                 *)

\* io.in(branchRoom(id)): whoever is in the branch's room
Members(b) == {s \in Sockets : sockets[s].room = b}

Publish(b) ==
    /\ news = NoNews
    /\ news' = [branch |-> b, todo |-> Members(b), stale |-> {},
                held |-> {Assignment(u) : u \in Users},
                joining |-> UNION {asks[r].socket : r \in
                                {q \in Requests : asks[q].pc = "joining" /\ asks[q].branch = b}}]
    /\ UNCHANGED <<db, edits, sockets, asks>>

\* Mutant: the role that the token names is believed.
TrustsToken(s, b) == sockets[s].role # "rider"

\* purchaseBranchContext with socket.user
Stays(s, b) == MayEnter(s, b)

CheckMember(s) ==
    /\ s \in news.todo /\ news.stale = {}
    /\ news' = [news EXCEPT !.todo = @ \ {s},
                            !.stale = IF Stays(s, news.branch) THEN {} ELSE {s}]
    /\ UNCHANGED <<db, edits, sockets, asks>>

Evict(s) ==
    /\ s \in news.stale
    /\ sockets' = [sockets EXCEPT ![s] = Left(@, news.branch)]
    /\ news' = [news EXCEPT !.stale = {}]
    /\ UNCHANGED <<db, edits, asks>>

Emit ==
    /\ news # NoNews /\ news.todo = {} /\ news.stale = {}
    /\ news' = NoNews
    /\ UNCHANGED <<db, edits, sockets, asks>>

-------------------------------------------------------------------------------
SocketStep(s) ==
    \/ Handshake(s) \/ Connect(s) \/ Disconnect(s)
    \/ \E b \in Branches : LeaveBranch(s, b)
    \/ CheckMember(s) \/ Evict(s)

RefreshStep(r, s) ==
    Resolve(r, s) \/ End(r, s) \/ Skip(r, s) \/ Recheck(r, s) \/ Deny(r, s) \/ Keep(r, s)

RequestStep(r) ==
    \/ \E s \in Sockets : RefreshStep(r, s) \/ RevokeDeviceSession(r, s)
    \/ \E s \in Sockets, b \in Branches : StartJoin(r, s, b)
    \/ FinishJoin(r)
    \/ \E u \in Users, role \in Roles, b \in Branches : Assign(r, u, role, b)
    \/ \E u \in Users : RevokeUserSessions(r, u)
    \/ DisconnectUserSockets(r) \/ SocketsForUser(r) \/ Refreshed(r)

Next ==
    \/ \E s \in Sockets : SocketStep(s)
    \/ \E r \in Requests : RequestStep(r)
    \/ \E b \in Branches : Publish(b)
    \/ Emit

Spec == Init /\ [][Next]_vars

-------------------------------------------------------------------------------
TypeOK ==
    /\ db \in Databases
    /\ edits \in 0..MaxEdits
    /\ sockets \in [Sockets -> SocketDocs]
    /\ asks \in [Requests -> AskDocs]
    /\ news \in NewsDocs

\* README:1418: "the room is revalidated against stored assignments" before each kitchen
\* event: it reaches only sockets whose account was assigned to the branch at some time since
\* the publication began, or whose join had been granted before and was still under way.
TicketsToAssigned ==
    Emit => \A s \in Members(news.branch) :
        \/ s \in news.joining
        \/ \E held \in news.held : Grants(held, s, news.branch)

Refreshing(u) == \E r \in Requests : asks[r].user = {u}

Joining(s) == \E r \in Requests : asks[r].pc = "joining" /\ s \in asks[r].socket

\* realtime.js:517: after a refresh a socket "holds exactly the rooms" its access allows.
HoldsItsRooms ==
    \A s \in Sockets :
        sockets[s].room # NoBranch /\ ~Refreshing(sockets[s].user) /\ ~Joining(s)
            => MayEnter(s, sockets[s].room)

\* sessions.js:206: a refresh drops a socket "whose session is now dead".
DeadIsDropped == \A r \in Requests, s \in Sockets : Skip(r, s) \/ Keep(r, s) => s \notin db.ended

\* roles.js:397: after an assignment sockets are "re-authorised in place rather than dropped".
NotDropped ==
    \A r \in Requests, s \in Sockets :
        End(r, s) => sockets[s].version # db.user[sockets[s].user].version

\* README:638: "Deactivation and revocation [...] hard-disconnect".
RevokedIsOff ==
    \A s \in Sockets : sockets[s].pc = "on"
        => sockets[s].version = db.user[sockets[s].user].version \/ Refreshing(sockets[s].user)
===============================================================================
