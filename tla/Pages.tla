--------------------------------- MODULE Pages ---------------------------------
(***************************************************************************)
(* A page of the web client: the list it loads over HTTP, and the socket   *)
(* whose events tell it that the list has changed (the JSX files of client/src,       *)
(* services/realtime.js).  Rooms hold no history, so what is published     *)
(* before the socket is in its room, or while it is down, never arrives.   *)
(***************************************************************************)
EXTENDS Integers, Sequences, FiniteSets

CONSTANTS
    Requests,     \* bounds the loads of a page in flight
    NoRequest,
    MaxVersion    \* bounds the changes of the list

PagesAssumption == NoRequest \notin Requests /\ MaxVersion \in Nat

VARIABLES
    db,      \* the list, as a version, and the changes that are not published yet
    room,    \* whether the server has the socket in the page's room
    wire,    \* what was sent to the socket, in order
    page,
    asks     \* the page's loads

vars == <<db, room, wire, page, asks>>

-------------------------------------------------------------------------------
(* The pages.  loads: the socket event that makes the page reload; guards: *)
(* an answer counts only if no later load was sent; polls: when a timer    *)
(* reloads; on: what an event does, "queue" being a reload after 75 ms.    *)

Purchasing == [loads |-> "joined", guards |-> TRUE, polls |-> "always", on |-> "queue"]

Inventory == [loads |-> "joined", guards |-> TRUE, polls |-> "never", on |-> "load"]

StockOps == [loads |-> "never", guards |-> TRUE, polls |-> "never", on |-> "load"]

\* It shows the order an event carries, and does not ask.
Kds == [loads |-> "connect", guards |-> FALSE, polls |-> "while_down", on |-> "patch"]

Tables == [loads |-> "connect", guards |-> FALSE, polls |-> "while_down", on |-> "load"]

Deliveries == [loads |-> "connect", guards |-> FALSE, polls |-> "always", on |-> "load"]

Reorder == [loads |-> "never", guards |-> FALSE, polls |-> "never", on |-> "load"]

\* A rider's room is joined in the handshake, before the socket is connected.
RiderApp == [loads |-> "connect", guards |-> FALSE, polls |-> "never", on |-> "load"]

-------------------------------------------------------------------------------
Versions == 0..MaxVersion

Joined == [type |-> "joined", version |-> 0]

Messages == [type : {"joined", "event"}, version : Versions]

Databases == [version : Versions, unpublished : SUBSET Versions]

\* failed: the last load that counted ended in an error, which the page shows
PageDocs(kinds) ==
    [kind : kinds, socket : {"down", "connected", "joining", "joined"}, shown : Versions,
     latest : Requests \cup {NoRequest}, timer : BOOLEAN, failed : BOOLEAN]

AskDocs == [pc : {"idle", "asked", "answered"}, seen : Versions]

NoAsk == [pc |-> "idle", seen |-> 0]

\* The page is mounted, and loads for the first time.
Init(kinds) ==
    /\ db = [version |-> 0, unpublished |-> {}]
    /\ room = FALSE
    /\ wire = <<>>
    /\ \E r \in Requests, kind \in kinds :
          /\ page = [kind |-> kind, socket |-> "down", shown |-> 0, latest |-> r,
                     timer |-> FALSE, failed |-> FALSE]
          /\ asks = [q \in Requests |-> IF q = r THEN [NoAsk EXCEPT !.pc = "asked"] ELSE NoAsk]

-------------------------------------------------------------------------------
(* Loading                                                                 *)

\* load(), by a page that otherwise becomes p.
Load(r, p) ==
    /\ asks[r].pc = "idle"
    /\ page' = [p EXCEPT !.latest = r]
    /\ asks' = [asks EXCEPT ![r] = [NoAsk EXCEPT !.pc = "asked"]]

\* Mutant: an answer counts whenever it comes.
Newest(r) == TRUE

\* sequence = loadSequence.current
Counts(r) == page.kind.guards => page.latest = r

\* The server reads the list.
Answer(r) ==
    /\ asks[r].pc = "asked"
    /\ asks' = [asks EXCEPT ![r] = [pc |-> "answered", seen |-> db.version]]
    /\ UNCHANGED <<db, room, wire, page>>

Show(r) ==
    /\ asks[r].pc = "answered"
    /\ page' = IF Counts(r) THEN [page EXCEPT !.shown = asks[r].seen, !.failed = FALSE]
               ELSE page
    /\ asks' = [asks EXCEPT ![r] = NoAsk]
    /\ UNCHANGED <<db, room, wire>>

Fail(r) ==
    /\ asks[r].pc # "idle"
    /\ page' = IF Counts(r) THEN [page EXCEPT !.failed = TRUE] ELSE page
    /\ asks' = [asks EXCEPT ![r] = NoAsk]
    /\ UNCHANGED <<db, room, wire>>

Live == page.socket # "down"

Poll(r) ==
    /\ page.kind.polls = "always" \/ (page.kind.polls = "while_down" /\ ~Live)
    /\ Load(r, page)
    /\ UNCHANGED <<db, room, wire>>

\* flushUpdates
FlushUpdates(r) ==
    /\ page.timer
    /\ Load(r, [page EXCEPT !.timer = FALSE])
    /\ UNCHANGED <<db, room, wire>>

-------------------------------------------------------------------------------
(* The server                                                              *)

\* Some request changes the list, and commits.
Change ==
    /\ db.version < MaxVersion
    /\ db' = [version |-> db.version + 1, unpublished |-> db.unpublished \cup {db.version + 1}]
    /\ UNCHANGED <<room, wire, page, asks>>

\* emitRoomEvent: of two requests the later may publish first, and publishKitchenOrder
\* reads the order again before it does.
Publish ==
    /\ \E v \in db.unpublished :
          /\ db' = [db EXCEPT !.unpublished = @ \ {v}]
          /\ \E seen \in v..db.version :
                wire' = IF room THEN Append(wire, [type |-> "event", version |-> seen]) ELSE wire
    /\ UNCHANGED <<room, page, asks>>

\* join:branch, which checks the branch and acknowledges.
JoinBranch ==
    /\ page.socket = "joining" /\ ~room
    /\ room' = TRUE
    /\ wire' = Append(wire, Joined)
    /\ UNCHANGED <<db, page, asks>>

-------------------------------------------------------------------------------
(* The socket                                                              *)

\* What a page does about a connection, or about being in its room.
Reached(socket) ==
    LET p == [page EXCEPT !.socket = socket]
    IN  IF page.kind.loads = (IF socket = "joined" THEN "joined" ELSE "connect")
        THEN \E r \in Requests : Load(r, p)
        ELSE page' = p /\ UNCHANGED asks

Connect ==
    /\ page.socket = "down"
    /\ IF page.kind = RiderApp
       THEN room' = TRUE /\ Reached("connected")
       ELSE UNCHANGED room /\ Reached("joining")
    /\ UNCHANGED <<db, wire>>

Acknowledged ==
    /\ Head(wire).type = "joined"
    /\ Reached("joined")

OnUpdate ==
    /\ Head(wire).type = "event"
    /\ \/ /\ page.kind.on = "queue"
          /\ page' = [page EXCEPT !.timer = TRUE]
          /\ UNCHANGED asks
       \/ /\ page.kind.on = "patch"
          /\ page' = [page EXCEPT !.shown = Head(wire).version]
          /\ UNCHANGED asks
       \/ /\ page.kind.on = "load"
          /\ \E r \in Requests : Load(r, page)

Receive ==
    /\ wire # <<>>
    /\ Acknowledged \/ OnUpdate
    /\ wire' = Tail(wire)
    /\ UNCHANGED <<db, room>>

\* The connection breaks, and socket.io will open another.
Disconnect ==
    /\ Live
    /\ page' = [page EXCEPT !.socket = "down"]
    /\ room' = FALSE
    /\ wire' = <<>>
    /\ UNCHANGED <<db, asks>>

\* The server stops before it has published, or answered, everything.
Restart ==
    /\ db' = [db EXCEPT !.unpublished = {}]
    /\ room' = FALSE
    /\ wire' = <<>>
    /\ page' = [page EXCEPT !.socket = "down",
                            !.failed = @ \/ \E r \in Requests : asks[r].pc # "idle" /\ Counts(r)]
    /\ asks' = [r \in Requests |-> NoAsk]

-------------------------------------------------------------------------------
ServerStep == Change \/ Publish \/ JoinBranch \/ (\E r \in Requests : Answer(r)) \/ Restart

PageStep ==
    \/ \E r \in Requests : Show(r) \/ Fail(r) \/ Poll(r) \/ FlushUpdates(r)
    \/ Connect \/ Receive \/ Disconnect

Next == ServerStep \/ PageStep

-------------------------------------------------------------------------------
TypeOK(kinds) ==
    /\ db \in Databases
    /\ room \in BOOLEAN
    /\ wire \in Seq(Messages)
    /\ page \in PageDocs(kinds)
    /\ asks \in [Requests -> AskDocs]

Quiet ==
    /\ wire = <<>> /\ db.unpublished = {} /\ ~page.timer
    /\ \A r \in Requests : asks[r].pc = "idle"

\* realtime.js:157: clients reload after the join is acknowledged, so mutations during the
\* connection's setup cannot be missed.  With nothing on its way, a page whose socket is in
\* its room shows the list as it is, unless it shows an error.
LiveIsCurrent == (page.socket = "joined" /\ Quiet /\ ~page.failed) => page.shown = db.version
===============================================================================
