--------------------------- MODULE MCBillableUse ---------------------------
(* Small instances of BillableUse for TLC, with a history variable that      *)
(* tells whether anything ever began while something else was at work.       *)
EXTENDS BillableUse, TLC

CONSTANTS r1, r2, t1

MCRequests == {r1, r2}
OneTopUp == {t1}
MCCalls == (MCRequests \X {"check", "charge"}) \cup OneTopUp

TwoCosts == {1, 2}
WithZero == {0, 1, 2}

\* Requests are interchangeable, and so are administrators.
Symmetric == Permutations(MCRequests) \cup Permutations(Admins)

VARIABLE overlapped

Begins ==
    \/ \E r \in Requests : req[r].stage = "idle" /\ req'[r].stage # "idle"
    \/ \E c \in TopUps : call[c].stage = "idle" /\ call'[c].stage # "idle"
    \/ \E m \in Admins : admin[m].stage = "idle" /\ admin'[m].stage # "idle"

MCInit == BInit /\ overlapped = FALSE

MCNext == BNext /\ overlapped' = (overlapped \/ (Begins /\ ~Quiet))

MCSpec == MCInit /\ [][MCNext]_<<bvars, overlapped>>

\* Of requests, top-ups and administrators that waited for each other, every
\* piece of work that was done has been charged (BillableActionInterceptor).
WorkIsPaidInTurn == ~overlapped => WorkIsPaid

\* An administrator's save keeps the fields it was not asked to change, if the
\* administrators wait for each other (BillableActionService.update).
OnlyProvidedFieldsInTurn ==
    [][~overlapped' => ProvidedFields]_<<bvars, overlapped>>

-----------------------------------------------------------------------------
(* The inductive invariant behind both *)

\* One request, administrator or top-up is at work at a time.
OneAtATime ==
    /\ \A r, s \in Requests : RequestRunning(r) /\ RequestRunning(s) => r = s
    /\ \A m, n \in Admins : AdminRunning(m) /\ AdminRunning(n) => m = n
    /\ \A r \in Requests : RequestRunning(r) =>
           /\ \A m \in Admins : ~AdminRunning(m)
           /\ \A c \in TopUps : c \notin InFlight

TurnInv ==
    /\ AllFit
    /\ ~overlapped =>
           /\ OneAtATime
           /\ \A r \in Requests : WillPay(r)
           /\ \A m \in Admins : AdminRunning(m) => admin[m].read = action
=============================================================================
