----------------------------- MODULE ChangeStream ------------------------------
(***************************************************************************)
(* A change stream that a server keeps open to hear of the writes of other *)
(* servers, and opens again when it failed (services/streamReArm.js, with  *)
(* roleChangeStream.js and billingChangeStream.js).  It resumes nothing:   *)
(* what was written while it was down is never delivered.                  *)
(***************************************************************************)
VARIABLE stream    \* the cursor, the timer that will open another, and what is under way

Streams ==
    [open : BOOLEAN,     \* the current cursor
     timer : BOOLEAN,    \* reArm's, armed
     event : BOOLEAN,    \* a change that has not been handled yet
     late : BOOLEAN]     \* an abandoned cursor will report an error again

Running == [open |-> TRUE, timer |-> FALSE, event |-> FALSE, late |-> FALSE]

\* A write reaches the open cursor.
Hears(s) == [s EXCEPT !.event = @ \/ s.open]

\* The handler of a failure tells an abandoned cursor from the current one.
StreamFails ==
    /\ stream.open
    /\ stream' = [open |-> FALSE, timer |-> TRUE, event |-> FALSE, late |-> TRUE]

\* Mutant: an error of any cursor drops the one that is open; only the current one's arms
\* the timer.
DropsAny(s) == [s EXCEPT !.open = FALSE, !.late = FALSE]

\* __handleRoleStreamFailure, __handleStreamFailure: wasCurrent is false.
AfterLateError(s) == [s EXCEPT !.late = FALSE]

LateError ==
    /\ stream.late
    /\ stream' = AfterLateError(stream)

\* The timer fires: attempt() opens another cursor, or schedules the next attempt.
StreamReturns ==
    /\ stream.timer /\ ~stream.open
    /\ stream' = [stream EXCEPT !.open = TRUE, !.timer = FALSE]

HandleEvent ==
    /\ stream.open /\ stream.event
    /\ stream' = [stream EXCEPT !.event = FALSE]

\* While no cursor is open, the timer is armed that will open one.
NeverGivesUp == stream.open \/ stream.timer
===============================================================================
