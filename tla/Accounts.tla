-------------------------------- MODULE Accounts --------------------------------
(***************************************************************************)
(* The accounts of a restaurant, the tokens they sign in with and what     *)
(* ends them (sessions.js, staffAccounts.js, accessControl.js, roles.js    *)
(* assignUserRole, routes/auth.js, middleware/auth.js).  None of it runs   *)
(* in a transaction: requests read and write documents one by one.         *)
(***************************************************************************)
EXTENDS Integers, FiniteSets

CONSTANTS
    Requests,
    Users,
    NoUser,
    Sessions,     \* rows of user_sessions, each used once
    NoSession,
    MaxVersion    \* bounds sessionVersion

AccountsAssumption == NoUser \notin Users /\ NoSession \notin Sessions /\ MaxVersion \in Nat

VARIABLES
    db,       \* users and their device sessions
    tokens,   \* those that were given out
    asks      \* the requests

vars == <<db, tokens, asks>>

BaseRoles == {"owner", "manager"}

UserDocs == [base : BaseRoles, active : BOOLEAN, version : 0..MaxVersion]

SessionDocs == [user : Users \cup {NoUser}, revoked : BOOLEAN]

Databases == [user : [Users -> UserDocs], session : [Sessions -> SessionDocs]]

\* A history flag: the account's tokens, or the session, were revoked since it was issued.
Tokens == [user : Users, base : BaseRoles, version : 0..MaxVersion, sid : Sessions,
           ended : BOOLEAN]

NoAsk == [pc |-> "idle", user |-> NoUser, base |-> "manager", version |-> 0,
          sid |-> NoSession, ended |-> FALSE]

\* What a request has read, or whose account it is about: "signing" and "rotating" will
\* issue a token, "account" and "session" check one, "signed_in" is about to act.
AskDocs ==
    [pc : {"idle", "signing", "account", "session", "signed_in", "revoking", "closing",
           "rotating", "assigning"},
     user : Users \cup {NoUser}, base : BaseRoles, version : 0..MaxVersion,
     sid : Sessions \cup {NoSession}, ended : BOOLEAN]

Init ==
    /\ db \in [user : [Users -> [base : BaseRoles, active : {TRUE}, version : {0}]],
               session : {[s \in Sessions |-> [user |-> NoUser, revoked |-> FALSE]]}]
    /\ \E u \in Users : db.user[u].base = "owner"
    /\ tokens = {}
    /\ asks = [r \in Requests |-> NoAsk]

At(r, ask) == asks' = [asks EXCEPT ![r] = ask]

-------------------------------------------------------------------------------
(* Signing in                                                              *)

\* The account is read and its password compared, which takes a while.
Login(r, u) ==
    /\ asks[r].pc = "idle"
    /\ db.user[u].active
    /\ At(r, [NoAsk EXCEPT !.pc = "signing", !.user = u, !.base = db.user[u].base,
                           !.version = db.user[u].version])
    /\ UNCHANGED <<db, tokens>>

\* signToken
Signed(ask) == [user |-> ask.user, base |-> ask.base, version |-> ask.version,
                sid |-> ask.sid, ended |-> ask.ended]

CreateDeviceSession(r, s) ==
    /\ asks[r].pc = "signing"
    /\ db.session[s].user = NoUser
    /\ db' = [db EXCEPT !.session[s].user = asks[r].user]
    /\ tokens' = tokens \cup {Signed([asks[r] EXCEPT !.sid = s])}
    /\ At(r, NoAsk)

-------------------------------------------------------------------------------
(* authenticate                                                            *)

Present(r, t) ==
    /\ asks[r].pc = "idle"
    /\ At(r, [pc |-> "account", user |-> t.user, base |-> t.base, version |-> t.version,
              sid |-> t.sid, ended |-> t.ended])
    /\ UNCHANGED <<db, tokens>>

\* Mutant: a token is as good as its account.
AnyVersion(ask) == TRUE

\* tokenVersion = sessionVersion
SameVersion(ask) == ask.version = db.user[ask.user].version

PrincipalFound(ask) ==
    LET user == db.user[ask.user]
    IN  user.active /\ user.base = ask.base /\ SameVersion(ask)

ResolvePrincipal(r) ==
    /\ asks[r].pc = "account"
    /\ At(r, IF PrincipalFound(asks[r]) THEN [asks[r] EXCEPT !.pc = "session"] ELSE NoAsk)
    /\ UNCHANGED <<db, tokens>>

AssertSessionLive(ask) == ~db.session[ask.sid].revoked

Accepted(r) ==
    /\ asks[r].pc = "session" /\ AssertSessionLive(asks[r])
    /\ At(r, [asks[r] EXCEPT !.pc = "signed_in"])
    /\ UNCHANGED <<db, tokens>>

Refused(r) ==
    /\ asks[r].pc = "session" /\ ~AssertSessionLive(asks[r])
    /\ At(r, NoAsk)
    /\ UNCHANGED <<db, tokens>>

\* Whatever else the request does.
Leave(r) == asks[r].pc = "signed_in" /\ At(r, NoAsk) /\ UNCHANGED <<db, tokens>>

-------------------------------------------------------------------------------
(* What ends a session                                                     *)

Revoking(r, u, keep) ==
    At(r, [NoAsk EXCEPT !.pc = "revoking", !.user = u, !.sid = keep])

\* The caller's own session survives a change of the caller's own password.
ResetPassword(r, u) ==
    /\ asks[r].pc = "signed_in"
    /\ u = asks[r].user \/ db.user[u].base # "owner"
    /\ Revoking(r, u, IF u = asks[r].user THEN asks[r].sid ELSE NoSession)
    /\ UNCHANGED <<db, tokens>>

SetAccountActive(r, u, active) ==
    /\ asks[r].pc = "signed_in"
    /\ u # asks[r].user /\ db.user[u].base # "owner"
    /\ db' = [db EXCEPT !.user[u].active = active]
    /\ Revoking(r, u, NoSession)
    /\ UNCHANGED tokens

LogoutAll(r) ==
    /\ asks[r].pc = "signed_in"
    /\ Revoking(r, asks[r].user, NoSession)
    /\ UNCHANGED <<db, tokens>>

\* The history: the tokens, given out or about to be, that are ended.
EndTokens(over(_)) ==
    tokens' = {[t EXCEPT !.ended = @ \/ over(t)] : t \in tokens}

EndAsks(r, next, over(_)) ==
    asks' = [q \in Requests |->
        IF q = r THEN next ELSE [asks[q] EXCEPT !.ended = @ \/ over(asks[q])]]

\* It will hand out a token for the session it has kept.
KeepsSession(ask) ==
    ask.pc \in {"revoking", "closing", "rotating"} /\ ask.sid # NoSession

\* revokeDeviceSession
Logout(r) ==
    LET sid == asks[r].sid
    IN  /\ asks[r].pc = "signed_in"
        /\ db' = [db EXCEPT !.session[sid].revoked = TRUE]
        /\ EndTokens(LAMBDA t : t.sid = sid)
        /\ EndAsks(r, NoAsk, LAMBDA ask : KeepsSession(ask) /\ ask.sid = sid)

\* $inc sessionVersion
RevokeUserSessions(r) ==
    LET u == asks[r].user
    IN  /\ asks[r].pc = "revoking"
        /\ db.user[u].version < MaxVersion
        /\ db' = [db EXCEPT !.user[u].version = @ + 1]
        /\ EndTokens(LAMBDA t : t.user = u)
        /\ EndAsks(r, [asks[r] EXCEPT !.pc = "closing"],
                   LAMBDA ask : ask.pc = "signing" /\ ask.user = u)

\* What the update of the device sessions leaves out.
Spared(r) == {asks[r].sid}

RevokeAllDeviceSessions(r) ==
    LET u == asks[r].user
        closed == {s \in Sessions \ Spared(r) : db.session[s].user = u}
    IN  /\ asks[r].pc = "closing"
        /\ db' = [db EXCEPT !.session = [s \in Sessions |->
                     [db.session[s] EXCEPT !.revoked = @ \/ s \in closed]]]
        /\ EndTokens(LAMBDA t : t.user = u /\ t.sid # asks[r].sid)
        /\ EndAsks(r, IF asks[r].sid = NoSession THEN NoAsk
                      ELSE [asks[r] EXCEPT !.pc = "rotating"],
                   LAMBDA ask : KeepsSession(ask) /\ ask.user = u /\ ask.sid # asks[r].sid)

\* refreshed: the caller's session goes on with a token of the new version.
Rotate(r) ==
    LET user == db.user[asks[r].user]
    IN  /\ asks[r].pc = "rotating"
        /\ tokens' = tokens \cup
              {Signed([asks[r] EXCEPT !.base = user.base, !.version = user.version])}
        /\ At(r, NoAsk)
        /\ UNCHANGED db

-------------------------------------------------------------------------------
(* assignUserRole                                                          *)

OtherOwners(u) == {v \in Users \ {u} : db.user[v].base = "owner" /\ db.user[v].active}

\* The target is read, and the owners are counted.
AssignUserRole(r, u, base) ==
    /\ asks[r].pc = "signed_in"
    /\ base # "owner"
    /\ db.user[u].base = "owner" => OtherOwners(u) # {}
    /\ At(r, [NoAsk EXCEPT !.pc = "assigning", !.user = u, !.base = base])
    /\ UNCHANGED <<db, tokens>>

SaveRole(r) ==
    /\ asks[r].pc = "assigning"
    /\ db' = [db EXCEPT !.user[asks[r].user].base = asks[r].base]
    /\ At(r, NoAsk)
    /\ UNCHANGED tokens

-------------------------------------------------------------------------------
\* routes/auth.js
AuthStep(r) ==
    \/ \E u \in Users : Login(r, u)
    \/ \E s \in Sessions : CreateDeviceSession(r, s)
    \/ \E t \in tokens : Present(r, t)
    \/ ResolvePrincipal(r) \/ Accepted(r) \/ Refused(r) \/ Leave(r)
    \/ Logout(r) \/ LogoutAll(r)

\* routes/accounts.js
AccountStep(r) ==
    \/ \E u \in Users : ResetPassword(r, u) \/ \E active \in BOOLEAN : SetAccountActive(r, u, active)
    \/ RevokeUserSessions(r) \/ RevokeAllDeviceSessions(r) \/ Rotate(r)

\* routes/rbac.js
RoleStep(r) ==
    (\E u \in Users, base \in BaseRoles : AssignUserRole(r, u, base)) \/ SaveRole(r)

Next == \E r \in Requests : AuthStep(r) \/ AccountStep(r) \/ RoleStep(r)

Spec == Init /\ [][Next]_vars

-------------------------------------------------------------------------------
TypeOK ==
    /\ db \in Databases
    /\ tokens \subseteq Tokens
    /\ asks \in [Requests -> AskDocs]

\* Revoked means revoked (sessions.js:39): a token that was issued, or read for by a sign-in,
\* before its account's sessions or its own were revoked, is accepted by no request that
\* presents it afterwards.  The token handed to a caller who changed a password is new, but
\* ends with its session.
RevokedStaysOut == \A r \in Requests : Accepted(r) => ~asks[r].ended

\* roles.js:352: demotions never leave the restaurant without an owner.
AlwaysAnOwner == \E u \in Users : db.user[u].base = "owner" /\ db.user[u].active
===============================================================================
