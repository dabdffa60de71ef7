-------------------------------- MODULE Coupons --------------------------------
(***************************************************************************)
(* Coupons and their redemptions (services/discounts.js, routes/coupons*)
(* .js): an order that is placed at the till or on the website validates a *)
(* coupon and redeems it in its own transaction, while managers edit and   *)
(* retire coupons outside any.                                             *)
(*                                                                         *)
(* What a coupon is worth, its dates and its scopes only decide whether an *)
(* order may use it, which any order here may; codes are not edited.       *)
(***************************************************************************)
EXTENDS Naturals, FiniteSets, Snapshots

CONSTANTS
    Coupons,
    Sales,        \* orders that are placed with a coupon
    Profiles,     \* customers
    NoProfile,    \* an order of nobody in particular
    Limits        \* usage limits, 0 for none

CouponsAssumption ==
    /\ IsFiniteSet(Sales) /\ 0 \in Limits /\ Limits \subseteq Nat /\ NoProfile \notin Profiles

vars == <<db, snap, behind>>

Guests == Profiles \cup {NoProfile}

CouponDocs ==
    [status : {"absent", "active", "retired"}, usageLimit : Limits,
     perCustomerLimit : Limits, timesRedeemed : Nat]

\* One row for each coupon and order: coupon_redemption_order.
RowDocs == [exists : BOOLEAN, customer : Guests]

Databases == [coupon : [Coupons -> CouponDocs], row : [Coupons \X Sales -> RowDocs]]

Init ==
    /\ db = [coupon |-> [k \in Coupons |-> [status |-> "absent", usageLimit |-> 0,
                                            perCustomerLimit |-> 0, timesRedeemed |-> 0]],
             row |-> [use \in Coupons \X Sales |-> [exists |-> FALSE, customer |-> NoProfile]]]
    /\ OutsideTransactions

Used(d, k) == {o \in Sales : d.row[<<k, o>>].exists}

UsedBy(d, k, guest) == {o \in Used(d, k) : d.row[<<k, o>>].customer = guest}

Below(uses, limit) == limit > 0 => Cardinality(uses) < limit

\* validateCoupon
Valid(d, k, guest) ==
    LET doc == d.coupon[k]
    IN  /\ doc.status = "active"
        /\ Below(Used(d, k), doc.usageLimit)
        /\ doc.perCustomerLimit > 0 => guest # NoProfile
        /\ Below(UsedBy(d, k, guest), doc.perCustomerLimit)

\* Mutant: a coupon without a usage limit need not be claimed.
ClaimedIfLimited(doc) ==
    IF doc.usageLimit > 0 THEN [doc EXCEPT !.timesRedeemed = @ + 1] ELSE doc

\* recordRedemption: the claim that makes two redemptions conflict.
Claimed(doc) == [doc EXCEPT !.timesRedeemed = @ + 1]

\* POST /orders and placePublicOrder
Redeem(c, k, o, guest) ==
    LET d == View(c)
        doc == d.coupon[k]
    IN  /\ \A other \in Coupons : ~d.row[<<other, o>>].exists
        /\ Valid(d, k, guest)
        /\ doc.usageLimit > 0 => doc.timesRedeemed < doc.usageLimit
        /\ Commit(c, [coupon |-> [d.coupon EXCEPT ![k] = Claimed(doc)],
                      row |-> [d.row EXCEPT ![<<k, o>>] =
                                  [exists |-> TRUE, customer |-> guest]]])

\* What managers enter; uses that were counted stay.
normalizeCouponInput(doc, limit, each, status) ==
    [doc EXCEPT !.usageLimit = limit, !.perCustomerLimit = each, !.status = status]

\* POST /coupons: the loser of a race meets the unique index on the code.
CreateCoupon(c, k, limit, each) ==
    /\ View(c).coupon[k].status = "absent" /\ db.coupon[k].status = "absent"
    /\ Save(c, [View(c) EXCEPT !.coupon[k] = normalizeCouponInput(@, limit, each, "active")])

\* PATCH /coupons/:id
EditCoupon(c, k, limit, each, status) ==
    /\ View(c).coupon[k].status # "absent"
    /\ Save(c, [View(c) EXCEPT !.coupon[k] = normalizeCouponInput(@, limit, each, status)])

\* DELETE /coupons/:id
DeactivateCoupon(c, k) ==
    /\ View(c).coupon[k].status # "absent"
    /\ Save(c, [View(c) EXCEPT !.coupon[k].status = "retired"])

Refused(c) == End(c)

CouponStep(c, k) ==
    \/ \E o \in Sales, guest \in Guests : Redeem(c, k, o, guest)
    \/ \E limit, each \in Limits :
          \/ CreateCoupon(c, k, limit, each)
          \/ \E status \in {"active", "retired"} : EditCoupon(c, k, limit, each, status)
    \/ DeactivateCoupon(c, k)

Next ==
    \/ \E c \in Clients : Begin(c) \/ Refused(c)
    \/ \E c \in {d \in Callers : Reads(d)}, k \in Coupons : CouponStep(c, k)

Spec == Init /\ [][Next]_vars

-------------------------------------------------------------------------------
TypeOK ==
    /\ db \in Databases
    /\ snap \in [Clients -> Databases \cup {NoSnapshot}]

\* No two orders share the last use of a coupon, or a customer's last one, and none uses a
\* coupon that was retired or tightened after the order read it.
RedeemedWithinLimits ==
    \A k \in Coupons : \A o \in Used(db', k) \ Used(db, k) :
        /\ db.coupon[k].status = "active"
        /\ Below(Used(db, k), db.coupon[k].usageLimit)
        /\ Below(UsedBy(db, k, db'.row[<<k, o>>].customer), db.coupon[k].perCustomerLimit)

\* The counter that redemptions claim and the rows that validation counts agree, so
\* neither refuses a use the other would grant.
CounterCountsRows ==
    \A k \in Coupons : db.coupon[k].timesRedeemed = Cardinality(Used(db, k))
===============================================================================
