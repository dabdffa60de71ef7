------------------------------ MODULE StockPlaces -----------------------------
(***************************************************************************)
(* What the movement of goods promises, whatever the documents do: every   *)
(* unit is on one branch's shelf or in one transfer on its way.  Goods     *)
(* come in and go out at a shelf; a transfer leaves one shelf whole and    *)
(* reaches the other whole.                                                *)
(***************************************************************************)
EXTENDS Integers

CONSTANTS
    Branches,
    Transfers,
    From, To, Size    \* of each transfer

VARIABLES
    shelf,     \* what a branch can take from
    transit    \* what is on its way in a transfer

places == <<shelf, transit>>

Init ==
    /\ shelf = [b \in Branches |-> 0]
    /\ transit = [t \in Transfers |-> 0]

\* Goods come in at one shelf, and nothing else changes.
Deliver(b) ==
    /\ shelf'[b] > shelf[b]
    /\ shelf' = [shelf EXCEPT ![b] = shelf'[b]]
    /\ UNCHANGED transit

\* Goods that are there go out.
Remove(b) ==
    /\ shelf'[b] \in 0..(shelf[b] - 1)
    /\ shelf' = [shelf EXCEPT ![b] = shelf'[b]]
    /\ UNCHANGED transit

Depart(t) ==
    /\ transit[t] = 0
    /\ shelf[From[t]] >= Size[t]
    /\ shelf' = [shelf EXCEPT ![From[t]] = @ - Size[t]]
    /\ transit' = [transit EXCEPT ![t] = Size[t]]

Arrive(t) ==
    /\ transit[t] = Size[t]
    /\ shelf' = [shelf EXCEPT ![To[t]] = @ + Size[t]]
    /\ transit' = [transit EXCEPT ![t] = 0]

Next ==
    \/ \E b \in Branches : Deliver(b) \/ Remove(b)
    \/ \E t \in Transfers : Depart(t) \/ Arrive(t)

Spec == Init /\ [][Next]_places
===============================================================================
