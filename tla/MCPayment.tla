------------------------------ MODULE MCPayment ------------------------------
(* Small instances of Payment for TLC. *)
EXTENDS Payment, TLC

CONSTANTS u1, p1, p2, p3, a1, h1, h2, h3, q1

AllPayments == {p1, p2, p3}
OnePayment == {p1}
SoleCreator == {a1}
TwoHooks == {h1, h2}
ThreeHooks == {h1, h2, h3}
OneHook == {h1}
OneStranger == {h3}
OnePoller == {q1}
MCCalls == Creators \cup Hooks

AllProviders == (p1 :> "momo") @@ (p2 :> "zalopay") @@ (p3 :> "stripe")
MoMo == (p1 :> "momo")
Stripe == (p1 :> "stripe")
OwnerOfAll == [p \in Payments |-> u1]
WorthOne == [p \in Payments |-> 1]
ZeroOrOne == {0, 1}
=============================================================================
