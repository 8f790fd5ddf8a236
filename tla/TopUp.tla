------------------------------- MODULE TopUp -------------------------------
(***************************************************************************)
(* What a top-up promises its user, without providers, webhooks or rows:   *)
(* a payment that was paid is credited to the wallet once, and no other.   *)
(***************************************************************************)
EXTENDS Naturals

CONSTANT Payments

VARIABLES
    paid,       \* payments the user has paid at the gateway
    credits     \* how often each payment has been credited

topUpVars == <<paid, credits>>

Init == paid = {} /\ credits = [p \in Payments |-> 0]

Pay(p) ==
    /\ p \notin paid
    /\ paid' = paid \cup {p}
    /\ UNCHANGED credits

Credit(p) ==
    /\ p \in paid
    /\ credits[p] = 0
    /\ credits' = [credits EXCEPT ![p] = 1]
    /\ UNCHANGED paid

Next == \E p \in Payments : Pay(p) \/ Credit(p)

Spec == Init /\ [][Next]_topUpVars
=============================================================================
