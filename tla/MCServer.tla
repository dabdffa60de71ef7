-------------------------------- MODULE MCServer --------------------------------
(***************************************************************************)
(* Accounts, plans, the platform's own records and the pages of the web    *)
(* client, for TLC.  They share no document that is modelled, so a         *)
(* behaviour is about one part, which its initial state chooses.           *)
(***************************************************************************)
EXTENDS Integers, Sequences, FiniteSets, TLC

CONSTANTS
    Parts,
    Requests, NoRequest, Calls, MaxWait, MaxEdits, MaxTime,
    RoleTTL, PlanTTL, PeriodEnd, PlanAskers, PlanEdits,
    Users, NoUser, Sessions, NoSession, MaxVersion,
    Plans, NoPlan, Trial, Period, MaxNow,
    Prompt, NoSnapshot, Orders, NoLimit, MaxMonth,
    Kinds, MaxStarts, MaxLive,
    MaxRows, MaxLost,
    MaxChanges, Contents, MaxSubmits, Docs, NoDoc,
    Branches, KeptVersions, Staff, Devices

VARIABLES part, db, now, cache, asks, stream, tokens, clock, work

vars == <<part, db, now, cache, asks, stream, tokens, clock, work>>

\* What a part leaves alone that it has no use for.
Unused == 0

\* Two orders a month, of which one may come from the web.
MCPlans == {[overall |-> 2, online |-> 1]}

\* Names of variables that a module has to itself stand for those of this one.
R == INSTANCE RoleCache WITH TTL <- RoleTTL
E == INSTANCE EntitlementCache WITH
        TTL <- PlanTTL, Requests <- PlanAskers, MaxEdits <- PlanEdits
A == INSTANCE Accounts
F == INSTANCE Platform
S == INSTANCE Subscriptions
Q == INSTANCE OrderQuota WITH
        Clients <- Requests, Plans <- MCPlans, snap <- cache, behind <- asks
M == INSTANCE Migrations WITH kind <- cache, run <- asks, starts <- now, live <- clock
T == INSTANCE AuditTrail WITH Requests <- Calls, rows <- db, pending <- cache, lost <- now
G == INSTANCE Pages WITH MaxVersion <- MaxChanges, room <- cache, wire <- work, page <- tokens
B == INSTANCE Forms WITH wire <- work, form <- cache, answers <- asks
D == INSTANCE Panes WITH Requests <- Calls, pane <- db
C == INSTANCE Catalogues WITH
        Editors <- Requests, Values <- Contents, MaxVersion <- MaxEdits,
        stock <- cache, forms <- asks

K == INSTANCE Sockets WITH
        Users <- Staff, Sockets <- Devices, Branches <- Docs, NoBranch <- NoDoc,
        edits <- now, sockets <- cache, news <- work

MCPages == IF "kds" \in Parts THEN {G!Kds} ELSE {G!Purchasing, G!Inventory}

MCForms == {B!CreateOrder, B!Receive}

MCPanes == {D!OrderHistory, D!InvoicePayments, D!loadSupplierCatalog, D!loadStatement}

ASSUME ServerAssumption ==
    /\ R!RoleCacheAssumption /\ E!EntitlementAssumption /\ A!AccountsAssumption
    /\ F!PlatformAssumption /\ S!SubscriptionsAssumption /\ M!MigrationsAssumption
    /\ Q!PromptAssumption /\ Q!OrderQuotaAssumption
    /\ G!PagesAssumption /\ B!FormsAssumption /\ D!PanesAssumption /\ C!CataloguesAssumption
    /\ K!SocketsAssumption /\ T!AuditAssumption

\* The variables a part has no use for.
Init ==
    /\ part \in Parts
    /\ \/ part = "role" /\ R!Init /\ tokens = Unused /\ clock = Unused /\ work = Unused
       \/ part = "plan" /\ E!Init /\ tokens = Unused /\ clock = Unused /\ work = Unused
       \/ /\ part = "accounts" /\ A!Init
          /\ now = Unused /\ cache = Unused /\ stream = Unused /\ clock = Unused /\ work = Unused
       \/ /\ part = "platform" /\ F!Init
          /\ now = Unused /\ cache = Unused /\ stream = Unused /\ tokens = Unused
          /\ clock = Unused /\ work = Unused
       \/ /\ part = "subscription" /\ S!Init
          /\ cache = Unused /\ stream = Unused /\ tokens = Unused
          /\ clock = Unused /\ work = Unused
       \/ part = "quota" /\ Q!Init /\ now = Unused /\ stream = Unused /\ tokens = Unused
       \/ part = "migration" /\ M!Init /\ stream = Unused /\ tokens = Unused /\ work = Unused
       \/ /\ part = "audit" /\ T!Init
          /\ stream = Unused /\ tokens = Unused /\ clock = Unused /\ work = Unused
       \/ /\ part \in {"page", "kds"} /\ G!Init(MCPages)
          /\ now = Unused /\ stream = Unused /\ clock = Unused
       \/ /\ part = "form" /\ B!Init(MCForms)
          /\ now = Unused /\ stream = Unused /\ tokens = Unused /\ clock = Unused
       \/ /\ part = "pane" /\ D!Init(MCPanes)
          /\ now = Unused /\ cache = Unused /\ stream = Unused /\ tokens = Unused
          /\ clock = Unused /\ work = Unused
       \/ /\ part = "catalogue" /\ C!Init
          /\ now = Unused /\ stream = Unused /\ tokens = Unused
          /\ clock = Unused /\ work = Unused
       \/ part = "socket" /\ K!Init /\ stream = Unused /\ tokens = Unused /\ clock = Unused

Next ==
    /\ UNCHANGED part
    /\ \/ part = "role" /\ R!Next /\ UNCHANGED <<tokens, clock, work>>
       \/ part = "plan" /\ E!Next /\ UNCHANGED <<tokens, clock, work>>
       \/ part = "accounts" /\ A!Next /\ UNCHANGED <<now, cache, stream, clock, work>>
       \/ part = "platform" /\ F!Next /\ UNCHANGED <<now, cache, stream, tokens, clock, work>>
       \/ part = "subscription" /\ S!Next /\ UNCHANGED <<cache, stream, tokens, clock, work>>
       \/ part = "quota" /\ Q!Next /\ UNCHANGED <<now, stream, tokens>>
       \/ part = "migration" /\ M!Next /\ UNCHANGED <<stream, tokens, work>>
       \/ part = "audit" /\ T!Next /\ UNCHANGED <<stream, tokens, clock, work>>
       \/ part \in {"page", "kds"} /\ G!Next /\ UNCHANGED <<now, stream, clock>>
       \/ part = "form" /\ B!Next /\ UNCHANGED <<now, stream, tokens, clock>>
       \/ /\ part = "pane" /\ D!Next
          /\ UNCHANGED <<now, cache, stream, tokens, clock, work>>
       \/ part = "catalogue" /\ C!Next /\ UNCHANGED <<now, stream, tokens, clock, work>>
       \/ part = "socket" /\ K!Next /\ UNCHANGED <<stream, tokens, clock>>

Spec == Init /\ [][Next]_vars

MCSymmetry == Permutations(Requests) \cup Permutations(Users)

\* Sessions are revoked once per account, or twice of one.  An order and its two counters
\* get ahead of an order that is being placed.
MCBound ==
    /\ part = "accounts" =>
          \A u, v \in Users : u # v => db.user[u].version + db.user[v].version <= 2
    /\ part = "quota" => \A r \in Requests : Cardinality(asks[r]) <= 3

\* Each part's documents have their shapes.
TypeOK ==
    /\ part = "role" => R!TypeOK
    /\ part = "plan" => E!TypeOK
    /\ part = "accounts" => A!TypeOK
    /\ part = "platform" => F!TypeOK
    /\ part = "subscription" => S!TypeOK
    /\ part = "quota" => Q!TypeOK
    /\ part = "migration" => M!TypeOK
    /\ part = "audit" => T!TypeOK
    /\ part \in {"page", "kds"} => G!TypeOK(MCPages)
    /\ part = "form" => B!TypeOK(MCForms)
    /\ part = "pane" => D!TypeOK(MCPanes)
    /\ part = "catalogue" => C!TypeOK
    /\ part = "socket" => K!TypeOK

\* Accounts, RoleCache, EntitlementCache, ChangeStream, Sockets: nobody acts by a token that was
\* issued before its sessions were revoked, or by a role that was withdrawn; permissions that
\* were replaced, and a plan or a period that is over, count for one TTL and the time a load
\* takes, whoever wrote them; a kitchen ticket reaches only the sockets of whoever was
\* assigned to its branch; and a server that lost its change stream opens another.
RevokedStaysOut ==
    /\ [](part \in {"role", "plan"} => R!NeverGivesUp)
    /\ [][/\ part = "accounts" => A!RevokedStaysOut
          /\ part = "role" => R!WithdrawnIsRefused /\ R!StaleForOneTTL
          /\ part = "plan" => E!PlanStaleForOneTTL
          /\ part = "socket" => K!TicketsToAssigned]_vars

\* Subscriptions, OrderQuota: a restaurant has one trial, whatever overlaps, and an order that
\* the quota let through fits its month's allowance.
PlanKept ==
    [][/\ part = "subscription" => S!TrialedOnce
       /\ part = "quota" => Q!AcceptedUnderCeiling]_vars

\* Platform: what an operator does leaves the platform a super administrator.
ASuperStays == [][part = "platform" => F!ASuperStays]_vars

\* Migrations: a server that listens has migrated everything, and a step that was killed
\* left nothing half done.
SurvivesRestarts ==
    /\ [](part = "migration" => M!ReadyIsMigrated)
    /\ [][part = "migration" => M!NothingHalfDone]_vars

\* AuditTrail: no two rows follow the same row, whatever is written at once, fails or is cut
\* short by a restart.
NoFork == part = "audit" => T!NoFork

\* Pages, Panes: a page that says it is live shows the list as it is once nothing is under
\* way, and a pane shows, and acts on, the document that is selected, unless a reload failed
\* unsaid or an action ended when another was chosen.
LiveIsCurrent ==
    /\ part \in {"page", "kds"} => G!LiveIsCurrent
    /\ part = "pane" => D!ActsOnWhatItShows /\ D!ShowsWhatIsSelected

\* Forms, Catalogues: what a user sends is booked once however often it is sent, the page says
\* what was booked, no edit of another is overwritten unseen, and histories have no gap.
SentOnceSavedOnce ==
    /\ [](/\ part = "form" => B!BookedOnce /\ B!SaysWhatWasBooked
          /\ part = "catalogue" => C!HistoryTells)
    /\ [][part = "catalogue" => C!NoEditLost]_vars

\* Migrations: starting again does not change what was dispatched since.
RestartKeepsDispatches == [][part = "migration" => M!RestartKeepsDispatches]_vars

\* Platform: an active super administrator is left, as platformAdmin.js:367 says.
LastSuperStays == part = "platform" => F!LastSuperStays
===============================================================================
