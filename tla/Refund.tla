------------------------------- MODULE Refund -------------------------------
(***************************************************************************)
(* Refunds from the back office: RefundBackofficeService, on top of        *)
(* PaymentService.refundPayment and MoMoProvider.refundPayment (ZaloPay's  *)
(* always fails, and no Stripe payment has the transaction id it needs).   *)
(*                                                                         *)
(* All amounts are in the wallet's currency.  One wallet is modelled; what *)
(* WalletService does to it meanwhile is one atomic step (see Account).    *)
(* No code creates a PENDING refund, so rejectRefund and processRefund     *)
(* without autoProcess always refuse and are left out.                     *)
(***************************************************************************)
EXTENDS Integers, FiniteSets, FiniteSetsExt

CONSTANTS
    Payments,   \* completed MoMo top-ups of the wallet's user
    Paid,       \* what each of them was worth
    Parts,      \* amounts an administrator may ask to refund
    Creators,   \* requests of createRefund
    Retriers,   \* requests of processRefund with autoProcess
    Spenders,   \* calls of deductForAction
    Opening,    \* the balance of the wallet
    MaxFaults,  \* how many queries may fail
    NoRefund    \* stands for a missing row

Row == [pay: Payments, amount: Parts,
        status: {"approved", "processed", "failed"}]

ASSUME RefundAssumption ==
    /\ Payments # {}
    /\ Parts # {} /\ Parts \subseteq Nat \ {0}
    /\ Paid \in [Payments -> Nat \ {0}]
    /\ Creators \cap Retriers = {}
    /\ Creators \cap Spenders = {}
    /\ Retriers \cap Spenders = {}
    /\ Opening \in Nat
    /\ MaxFaults \in Nat
    /\ NoRefund \notin Creators \cup Row

VARIABLES
    balance,        \* creditBalance of the wallet
    rows,           \* the DEBIT rows of wallet_transactions
    refund,         \* the refunds row each createRefund has inserted
    gatewayRow,     \* requests whose gateway call has its own refunds row
    paidBack,       \* what the gateway has paid back for each request
    givenBack,      \* what the gateway has paid back of each payment
    paymentStatus,  \* payment_transactions.status
    handler,        \* the local state of every request
    spent,          \* calls of deductForAction that are over
    faults          \* how many queries have failed

rvars == <<balance, rows, refund, gatewayRow, paidBack, givenBack, paymentStatus,
           handler, spent, faults>>

Requests == Creators \cup Retriers

\* Stages inside the try block of processRefund, in their order.
TryStages == {"find", "gateway", "gatewayrow", "gatewaysave", "save", "wallet", "post",
              "finish"}

Handler == [stage: {"idle", "insert", "read", "approve", "fail", "done"} \cup TryStages,
            row: Creators \cup {NoRefund},      \* the refund being processed
            pay: Payments, amount: Parts,       \* what createRefund was asked
            before: Int]                        \* the balance that was read

At(h, s) == handler[h].stage = s
Running(h) == handler[h].stage \notin {"idle", "done"}
Quiet == \A h \in Requests : ~Running(h)

\* The refunds row that h works on.
Mine(h) == refund[handler[h].row]
Goto(h, s) == handler' = [handler EXCEPT ![h].stage = s]
SaveRefund(h, status) == refund' = [refund EXCEPT ![handler[h].row].status = status]

\* numeric(10,2) columns arrive as strings, and "9.00" > "10.00".
Digits[n \in Nat] == IF n < 10 THEN 1 ELSE 1 + Digits[n \div 10]
StringGreater(a, b) ==
    LET longer == Digits[b] - Digits[a] IN
    \/ longer = 0 /\ a > b
    \/ longer > 0 /\ a > b \div 10^longer
    \/ longer < 0 /\ a \div 10^(-longer) >= b

RInit ==
    /\ balance = Opening
    /\ rows = {}
    /\ refund = [c \in Creators |-> NoRefund]
    /\ gatewayRow = {}
    /\ paidBack = [h \in Requests |-> 0]
    /\ givenBack = [p \in Payments |-> 0]
    /\ paymentStatus = [p \in Payments |-> "completed"]
    /\ handler = [h \in Requests |-> [stage |-> "idle", row |-> NoRefund, before |-> 0,
                                      pay |-> CHOOSE p \in Payments : TRUE,
                                      amount |-> CHOOSE a \in Parts : TRUE]]
    /\ spent = {}
    /\ faults = 0

-----------------------------------------------------------------------------
\* A refunds row of p that is approved or processed, the gateway's included.
Refunded(p) ==
    \/ \E c \in Creators : /\ refund[c] # NoRefund
                           /\ refund[c].pay = p
                           /\ refund[c].status \in {"approved", "processed"}
    \/ \E h \in gatewayRow : Mine(h).pay = p

\* A check that only looks for refunds that wait.
CreateRefund_OnlyPending(h, p, a) ==
    /\ At(h, "idle")
    /\ handler' = [handler EXCEPT ![h].pay = p, ![h].amount = a,
                                  ![h].stage = IF a > Paid[p] THEN "done" ELSE "insert"]
    /\ UNCHANGED <<balance, rows, refund, gatewayRow, paidBack, givenBack, paymentStatus, spent,
                   faults>>

\* createRefund checks the amount and looks for a refund of the payment.
CreateRefund(h, p, a) ==
    /\ At(h, "idle")
    /\ handler' = [handler EXCEPT ![h].pay = p, ![h].amount = a,
                                  ![h].stage = IF a > Paid[p] \/ Refunded(p)
                                               THEN "done" ELSE "insert"]
    /\ UNCHANGED <<balance, rows, refund, gatewayRow, paidBack, givenBack, paymentStatus, spent,
                   faults>>

\* The row is inserted APPROVED and handed to processRefund.
InsertRefund(h) ==
    /\ At(h, "insert")
    /\ refund' = [refund EXCEPT ![h] = [pay |-> handler[h].pay, amount |-> handler[h].amount,
                                        status |-> "approved"]]
    /\ handler' = [handler EXCEPT ![h].stage = "read", ![h].row = h]
    /\ UNCHANGED <<balance, rows, gatewayRow, paidBack, givenBack, paymentStatus, spent, faults>>

\* processRefund with autoProcess accepts a refund of any status.
Retry(h, c) ==
    /\ At(h, "idle")
    /\ refund[c] # NoRefund
    /\ handler' = [handler EXCEPT ![h].stage = "read", ![h].row = c]
    /\ UNCHANGED <<balance, rows, refund, gatewayRow, paidBack, givenBack, paymentStatus, spent,
                   faults>>

\* The refund is loaded with its payment and its wallet, as they are now.
ReadAll(h) ==
    /\ At(h, "read")
    /\ handler' = [handler EXCEPT ![h].stage = "approve", ![h].before = balance]
    /\ UNCHANGED <<balance, rows, refund, gatewayRow, paidBack, givenBack, paymentStatus, spent,
                   faults>>

Approve(h) ==
    /\ At(h, "approve")
    /\ SaveRefund(h, "approved")
    /\ Goto(h, "find")
    /\ UNCHANGED <<balance, rows, gatewayRow, paidBack, givenBack, paymentStatus, spent, faults>>

\* PaymentService.refundPayment: the payment must be COMPLETED and the amount,
\* compared as strings, must not exceed it.
FindPayment(h) ==
    /\ At(h, "find")
    /\ Goto(h, IF \/ paymentStatus[Mine(h).pay] # "completed"
                  \/ StringGreater(Mine(h).amount, Paid[Mine(h).pay])
               THEN "fail" ELSE "gateway")
    /\ UNCHANGED <<balance, rows, refund, gatewayRow, paidBack, givenBack, paymentStatus, spent,
                   faults>>

\* The gateway pays back, unless the payment has not that much left.
Left(p) == Paid[p] - givenBack[p]
PayBack(h) ==
    /\ paidBack' = [paidBack EXCEPT ![h] = Mine(h).amount]
    /\ givenBack' = [givenBack EXCEPT ![Mine(h).pay] = @ + Mine(h).amount]

\* A provider that does not look at the gateway's result code.
CallGateway_Unchecked(h) ==
    /\ At(h, "gateway")
    /\ IF Mine(h).amount <= Left(Mine(h).pay) THEN PayBack(h) ELSE UNCHANGED <<paidBack, givenBack>>
    /\ Goto(h, "gatewayrow")
    /\ UNCHANGED <<balance, rows, refund, gatewayRow, paymentStatus, spent, faults>>

CallGateway(h) ==
    /\ At(h, "gateway")
    /\ IF Mine(h).amount <= Left(Mine(h).pay)
       THEN PayBack(h) /\ Goto(h, "gatewayrow")
       ELSE UNCHANGED <<paidBack, givenBack>> /\ Goto(h, "fail")
    /\ UNCHANGED <<balance, rows, refund, gatewayRow, paymentStatus, spent, faults>>

\* MoMoProvider inserts a PROCESSED refund of its own,
InsertGatewayRow(h) ==
    /\ At(h, "gatewayrow")
    /\ gatewayRow' = gatewayRow \cup {h}
    /\ Goto(h, "gatewaysave")
    /\ UNCHANGED <<balance, rows, refund, paidBack, givenBack, paymentStatus, spent, faults>>

\* and saves the payment; PaymentService saves it again.  Both store the status
\* they have read, COMPLETED, unless the whole payment was refunded.
SavePayment(h) ==
    \E next \in {<<"gatewaysave", "save">>, <<"save", "wallet">>} :
        /\ At(h, next[1])
        /\ paymentStatus' = [paymentStatus EXCEPT ![Mine(h).pay] =
               IF Mine(h).amount >= Paid[Mine(h).pay] THEN "refunded" ELSE "completed"]
        /\ Goto(h, next[2])
        /\ UNCHANGED <<balance, rows, refund, gatewayRow, paidBack, givenBack, spent, faults>>

\* The wallet is debited from the balance read at the start, whatever is left.
SaveWallet(h) ==
    /\ At(h, "wallet")
    /\ balance' = handler[h].before - Mine(h).amount
    /\ Goto(h, "post")
    /\ UNCHANGED <<rows, refund, gatewayRow, paidBack, givenBack, paymentStatus, spent, faults>>

PostRow(h) ==
    /\ At(h, "post")
    /\ rows' = rows \cup {[by |-> h, amount |-> Mine(h).amount]}
    /\ Goto(h, "finish")
    /\ UNCHANGED <<balance, refund, gatewayRow, paidBack, givenBack, paymentStatus, spent, faults>>

Finish(h) ==
    /\ \/ At(h, "finish") /\ SaveRefund(h, "processed")
       \/ At(h, "fail") /\ SaveRefund(h, "failed")      \* the catch clause
    /\ Goto(h, "done")
    /\ UNCHANGED <<balance, rows, gatewayRow, paidBack, givenBack, paymentStatus, spent, faults>>

\* A query is rejected, or the gateway's answer is lost on its way: inside the
\* try block the catch clause marks the refund, elsewhere the request ends.
Fault(h) ==
    /\ faults < MaxFaults
    /\ Running(h)
    /\ faults' = faults + 1
    /\ Goto(h, IF handler[h].stage \in TryStages THEN "fail" ELSE "done")
    /\ UNCHANGED <<balance, rows, refund, gatewayRow, paidBack, givenBack, paymentStatus, spent>>

\* The user spends some of the balance.
Spend(s, a) ==
    /\ s \notin spent
    /\ balance >= a
    /\ balance' = balance - a
    /\ rows' = rows \cup {[by |-> s, amount |-> a]}
    /\ spent' = spent \cup {s}
    /\ UNCHANGED <<refund, gatewayRow, paidBack, givenBack, paymentStatus, handler, faults>>

RNext ==
    \/ \E h \in Creators, p \in Payments, a \in Parts : CreateRefund(h, p, a)
    \/ \E h \in Creators : InsertRefund(h)
    \/ \E h \in Retriers, c \in Creators : Retry(h, c)
    \/ \E h \in Requests :
           \/ ReadAll(h)
           \/ Approve(h)
           \/ FindPayment(h)
           \/ CallGateway(h)
           \/ InsertGatewayRow(h)
           \/ SavePayment(h)
           \/ SaveWallet(h)
           \/ PostRow(h)
           \/ Finish(h)
           \/ Fault(h)
    \/ \E s \in Spenders, a \in Parts : Spend(s, a)

RSpec == RInit /\ [][RNext]_rvars

-----------------------------------------------------------------------------
(* Properties *)

\* Besides the types: whoever is past its first step works on a row.
RTypeOK ==
    /\ balance \in Int
    /\ rows \subseteq [by: Requests \cup Spenders, amount: Parts]
    /\ refund \in [Creators -> Row \cup {NoRefund}]
    /\ gatewayRow \subseteq Requests
    /\ paidBack \in [Requests -> Parts \cup {0}]
    /\ givenBack \in [Payments -> Nat]
    /\ paymentStatus \in [Payments -> {"completed", "refunded"}]
    /\ handler \in [Requests -> Handler]
    /\ spent \subseteq Spenders
    /\ faults \in 0 .. MaxFaults
    /\ \A h \in Requests :
           handler[h].stage \in TryStages \cup {"read", "approve", "fail"} =>
               handler[h].row # NoRefund /\ Mine(h) # NoRefund

\* However requests overlap and fail, a payment only becomes REFUNDED when the
\* gateway has paid all of it back, and stays COMPLETED otherwise.
RefundedIsPaidBack ==
    \A p \in Payments : paymentStatus[p] = "refunded" => givenBack[p] = Paid[p]

\* A refund says PROCESSED, and a wallet is debited for it, only when the
\* gateway has paid its amount back for it.
ProcessedIsPaidBack ==
    /\ \A h \in Requests :
           handler[h].stage \in {"wallet", "post", "finish"} => paidBack[h] = Mine(h).amount
    /\ \A c \in Creators :
           (refund[c] # NoRefund /\ refund[c].status = "processed") =>
               \E h \in Requests : handler[h].row = c /\ paidBack[h] = refund[c].amount

\* Whatever overlaps or fails, what the rows say was paid back was (processRefund,
\* refundPayment).
RefundsArePaidBack == RefundedIsPaidBack /\ ProcessedIsPaidBack

\* The error of createRefund: "Refund already exists for this payment".  The
\* gateway is not made to pay back a payment twice, unless a refund is retried.
OneRefund ==
    \A g, h \in Creators :
        (paidBack[g] > 0 /\ paidBack[h] > 0 /\ Mine(g).pay = Mine(h).pay) => g = h

\* docs/subscription.md, 3191: "Audit trail: WalletTransaction records all
\* balance changes."  When no refund is in progress the rows explain the balance.
RefundTrail == Quiet => balance = Opening - MapThenSumSet(LAMBDA w : w.amount, rows)

-----------------------------------------------------------------------------
(* The inductive invariant behind RefundsArePaidBack *)

\* The gateway never pays back more than was paid, and what it paid back for a request is
\* part of what it paid back of its payment.
GatewayOK ==
    /\ \A p \in Payments : givenBack[p] <= Paid[p]
    /\ \A h \in Requests : paidBack[h] > 0 =>
           handler[h].row # NoRefund /\ paidBack[h] <= givenBack[Mine(h).pay]

\* A request gets past the call only with an answer that the amount was paid back.
PassedOK ==
    \A h \in Requests :
        handler[h].stage \in {"gatewayrow", "gatewaysave", "save", "wallet", "post", "finish"} =>
            paidBack[h] = Mine(h).amount

\* A row is inserted once, by its own request, and its payment and amount stay.
InsertedOK ==
    /\ \A c \in Creators : handler[c].stage \in {"idle", "insert"} => refund[c] = NoRefund
    /\ \A h \in Requests : handler[h].stage = "insert" => h \in Creators
    /\ \A h \in Requests : handler[h].stage \notin {"idle", "insert", "done"} => handler[h].row # NoRefund
    /\ \A h \in Requests : handler[h].row # NoRefund =>
           handler[h].stage \notin {"idle", "insert"} /\ Mine(h) # NoRefund

RefundInv ==
    /\ RTypeOK
    /\ GatewayOK
    /\ PassedOK
    /\ InsertedOK
    /\ RefundsArePaidBack
=============================================================================
