------------------------------ MODULE MCRefund ------------------------------
(* Small instances of Refund for TLC, with a history variable that tells    *)
(* whether two requests were ever at work at the same time.                 *)
EXTENDS Refund, TLC

CONSTANTS p1, a1, a2, b1, s1

OnePayment == {p1}
PartOrAll == {1, 10}
TwoCreators == {a1, a2}
OneRetrier == {b1}
Nobody == {}
OneSpender == {s1}
Half == {1}
TwoOfOne == (p1 :> 2)
TenOnly == (p1 :> 10)

VARIABLE overlapped

MCInit == RInit /\ overlapped = FALSE

\* Are two requests at work, or does the user spend while one is?
Turns ==
    overlapped' = \/ overlapped
                  \/ \E g, h \in Requests : g # h /\ Running(g)' /\ Running(h)'
                  \/ spent' # spent /\ ~Quiet

MCNext == RNext /\ Turns

MCSpec == MCInit /\ [][MCNext]_<<rvars, overlapped>>

Undisturbed == ~overlapped /\ faults = 0

\* Of requests that waited for each other, with no failing query, the gateway
\* pays each payment back once (createRefund), and the rows explain the balance
\* (processRefund).
RefundsInTurn == Undisturbed => OneRefund /\ RefundTrail
=============================================================================
