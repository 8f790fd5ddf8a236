------------------------------ MODULE Payment ------------------------------
(***************************************************************************)
(* Wallet top-ups: PaymentService and the MoMo, ZaloPay and Stripe         *)
(* controllers and providers it works with.  A handler is one HTTP request *)
(* in progress: the top-up itself, a webhook delivery, the user's return   *)
(* from the gateway, or a status query.  A handler reads its row of        *)
(* payment_transactions, awaits something, and saves the row as it knows   *)
(* it.  Top-ups and webhooks each make one wallet call, of the same name.  *)
(*                                                                         *)
(* The gateways are outside the repository: they are modelled by the       *)
(* answers and the notifications the code handles.  The check of MoMo's    *)
(* signature is a placeholder, so that its webhook, which is public, also  *)
(* handles calls that MoMo did not make.                                   *)
(***************************************************************************)
EXTENDS Wallet

CONSTANTS
    Payments,   \* rows of payment_transactions
    Provider,   \* who handles a payment: "momo", "zalopay" or "stripe"
    Owner,      \* the user who tops up
    Worth,      \* the amount in the wallet's currency, as convert rounds it
    Creators,   \* requests of initiateTopUp
    Hooks,      \* webhook calls
    Strangers,  \* those of them that no gateway made
    Pollers,    \* return and status requests
    Redeliver   \* TRUE: an answer may be lost, or its process die before it is
                \* sent, so that the gateway notifies again

ASSUME PaymentAssumption ==
    /\ Payments # {}
    /\ Provider \in [Payments -> {"momo", "zalopay", "stripe"}]
    /\ Owner \in [Payments -> Users]
    /\ Worth \in [Payments -> Amounts]
    /\ 0 \in Amounts
    /\ Calls = Creators \cup Hooks
    /\ Creators \cap Hooks = {}
    /\ Strangers \subseteq Hooks
    /\ Calls \cap Pollers = {}
    /\ Redeliver \in BOOLEAN

VARIABLES
    tx,         \* the status of every payment_transactions row
    charge,     \* what has happened to every payment at its gateway
    told,       \* payments whose notification was answered with success
    handler,    \* the local state of every handler
    errors      \* how many handlers a rejected query of their own has hit

payments == <<tx, charge, told, handler, errors>>
pvars == <<vars, payments>>

Handlers == Creators \cup Hooks \cup Pollers

\* The webhook calls of the gateways.
Genuine == Hooks \ Strangers

Statuses == {"none", "pending", "completed", "failed"}

CreatorStages == {"wallet", "intent", "link", "giveup"}
HookStages    == {"mark", "find", "save", "credit", "crediting"}
PollerStages  == {"confirmfind", "confirm", "confirmsave", "confirmfail",
                  "pollfind", "poll", "pollsave"}

\* paid: what the notification being handled reports.
Handler == [stage: {"idle", "answered"} \cup CreatorStages \cup HookStages
                       \cup PollerStages,
            pay: Payments, read: Statuses, paid: BOOLEAN]

Busy(h) == handler[h].stage \notin {"idle", "answered"}
At(h, s) == handler[h].stage = s

\* The user holds the payment URL that initiateTopUp answered with.
Issued(p) == \E h \in Creators :
                 handler[h].pay = p /\ At(h, "answered") /\ handler[h].read = "pending"

Goto(h, s) == handler' = [handler EXCEPT ![h].stage = s]

Starts(h, p, s, paid) ==
    /\ At(h, "idle")
    /\ handler' = [handler EXCEPT ![h] = [stage |-> s, pay |-> p, read |-> "none",
                                          paid |-> paid]]

\* save(transaction) with the given status.
SaveTx(h, status) == tx' = [tx EXCEPT ![handler[h].pay] = status]

\* The gateway will not repeat a notification that was answered with success.
AnswersSuccess(h) == told' = IF h \in Genuine THEN told \cup {handler[h].pay} ELSE told

\* The status that a webhook event stands for.
EventStatus(paid) == IF paid THEN "completed" ELSE "failed"

-----------------------------------------------------------------------------
PInit ==
    /\ Init
    /\ tx = [p \in Payments |-> "none"]
    /\ charge = [p \in Payments |-> "none"]
    /\ told = {}
    /\ errors = 0
    /\ handler = [h \in Handlers |-> [stage |-> "idle", read |-> "none", paid |-> FALSE,
                                      pay |-> CHOOSE p \in Payments : TRUE]]

(* initiateTopUp *)

\* getOrCreateWallet is awaited first.
TopUpBegins(h, p) ==
    /\ tx[p] = "none"
    /\ \A g \in Creators : handler[g].pay = p => At(g, "idle")
    /\ Starts(h, p, "wallet", FALSE)
    /\ Begin(h, "open", Owner[p], 0)
    /\ UNCHANGED <<tx, charge, told, errors>>

\* The PENDING row is inserted under a temporary providerPaymentId.
TopUpInserts(h) ==
    /\ At(h, "wallet")
    /\ call[h].stage = "done"
    /\ SaveTx(h, "pending")
    /\ Goto(h, "intent")
    /\ UNCHANGED <<vars, charge, told, errors>>

\* getOrCreateWallet raised: nothing was recorded.
TopUpHasNoWallet(h) ==
    /\ At(h, "wallet")
    /\ call[h].stage = "failed"
    /\ Goto(h, "answered")
    /\ UNCHANGED <<vars, tx, charge, told, errors>>

\* createPaymentIntent: the gateway opens a charge, or refuses.
IntentCreated(h) ==
    /\ At(h, "intent")
    /\ charge' = [charge EXCEPT ![handler[h].pay] = "open"]
    /\ Goto(h, "link")
    /\ UNCHANGED <<vars, tx, told, errors>>

IntentRefused(h) ==
    /\ At(h, "intent")
    /\ Goto(h, "giveup")
    /\ UNCHANGED <<vars, tx, charge, told, errors>>

\* The row gets its providerPaymentId, and the user the payment URL.
TopUpLinks(h) ==
    /\ At(h, "link")
    /\ SaveTx(h, "pending")
    /\ handler' = [handler EXCEPT ![h].stage = "answered", ![h].read = "pending"]
    /\ UNCHANGED <<vars, charge, told, errors>>

\* The catch clause of initiateTopUp.
TopUpGivesUp(h) ==
    /\ At(h, "giveup")
    /\ SaveTx(h, "failed")
    /\ Goto(h, "answered")
    /\ UNCHANGED <<vars, charge, told, errors>>

(* The gateway *)

\* The user pays, or the charge is declined, cancelled or expires.
ChargeEnds(p, outcome) ==
    /\ charge[p] = "open"
    /\ Issued(p)
    /\ charge' = [charge EXCEPT ![p] = outcome]
    /\ UNCHANGED <<vars, tx, told, handler, errors>>

\* A notification of the gateway reaches the webhook controller.  ZaloPay only
\* sends them for payments that were paid.
Deliver(h, p) ==
    /\ h \in Genuine
    /\ charge[p] \in {"paid", "declined"}
    /\ Provider[p] = "zalopay" => charge[p] = "paid"
    /\ ~Redeliver => /\ p \notin told
                     /\ \A g \in Genuine : handler[g].pay = p => ~Busy(g)
    /\ Starts(h, p, IF Provider[p] = "momo" THEN "mark" ELSE "find", charge[p] = "paid")
    /\ UNCHANGED <<vars, tx, charge, told, errors>>

\* MoMo's verifyWebhookSignature compares the signature of the payload with
\* itself: a call for any row, reporting anything, is handled like MoMo's own.
\* (ZaloPay's checks an HMAC; of a Stripe event only refunds are understood.)
DeliverUnverified(h, p) ==
    /\ h \in Strangers
    /\ Provider[p] = "momo"
    /\ tx[p] # "none"
    /\ \E paid \in BOOLEAN : Starts(h, p, "mark", paid)
    /\ UNCHANGED <<vars, tx, charge, told, errors>>

(* processWebhookEvent, after handleWebhook of the provider *)

\* MoMoProvider.handleWebhook has already saved the outcome in the row.
Mark(h) ==
    /\ At(h, "mark")
    /\ SaveTx(h, EventStatus(handler[h].paid))
    /\ Goto(h, "find")
    /\ UNCHANGED <<vars, charge, told, errors>>

\* A guard against repeated notifications that looks at the row's status.
Find_SkipsCompleted(h) ==
    /\ At(h, "find")
    /\ IF Provider[handler[h].pay] = "stripe" \/ tx[handler[h].pay] = "completed"
       THEN Goto(h, "answered") /\ AnswersSuccess(h)
       ELSE Goto(h, "save") /\ UNCHANGED told
    /\ UNCHANGED <<vars, tx, charge, errors>>

\* The row is looked up by the event's paymentId.  A Stripe event carries the
\* id of a Stripe object, which no row has: it is answered and forgotten.
Find(h) ==
    /\ At(h, "find")
    /\ IF Provider[handler[h].pay] = "stripe"
       THEN Goto(h, "answered") /\ AnswersSuccess(h)
       ELSE Goto(h, "save") /\ UNCHANGED told
    /\ UNCHANGED <<vars, tx, charge, errors>>

\* A missing event type test: whatever was reported is credited.
SaveEvent_Credits(h) ==
    /\ At(h, "save")
    /\ SaveTx(h, EventStatus(handler[h].paid))
    /\ Goto(h, "credit") /\ UNCHANGED told
    /\ UNCHANGED <<vars, charge, errors>>

\* payment.succeeded and payment.failed save their status.
SaveEvent(h) ==
    /\ At(h, "save")
    /\ SaveTx(h, EventStatus(handler[h].paid))
    /\ IF handler[h].paid
       THEN Goto(h, "credit") /\ UNCHANGED told
       ELSE Goto(h, "answered") /\ AnswersSuccess(h)
    /\ UNCHANGED <<vars, charge, errors>>

\* The wallet exists since initiateTopUp: creditWallet is called.
Credit(h) ==
    /\ At(h, "credit")
    /\ Begin(h, "credit", Owner[handler[h].pay], Worth[handler[h].pay])
    /\ Goto(h, "crediting")
    /\ UNCHANGED <<tx, charge, told, errors>>

\* A catch clause that lets the error through, so that the gateway tries again.
Credited_Rethrows(h) ==
    /\ At(h, "crediting")
    /\ call[h].stage \in {"done", "failed"}
    /\ Goto(h, "answered")
    /\ IF call[h].stage = "done" THEN AnswersSuccess(h) ELSE UNCHANGED told
    /\ UNCHANGED <<vars, tx, charge, errors>>

\* creditWallet returned or raised; the catch clause only logs an error, so
\* the controller answers success either way.
Credited(h) ==
    /\ At(h, "crediting")
    /\ call[h].stage \in {"done", "failed"}
    /\ Goto(h, "answered")
    /\ AnswersSuccess(h)
    /\ UNCHANGED <<vars, tx, charge, errors>>

(* confirmPayment and getPaymentStatus *)

\* What a status query makes of the gateway's state; every error of the query
\* (a timeout, a missing setting, a charge it does not list) reads as FAILED.
Answers(p) ==
    {"failed", CASE charge[p] = "paid"     -> "completed"
                 [] charge[p] = "declined" -> "failed"
                 [] OTHER                  -> "pending"}

\* The return URL of MoMo confirms the payment and then asks for its status;
\* the status URLs and Stripe's return URL only ask.  ZaloPay's pass an id that
\* no row has.
PollBegins(h, p) ==
    /\ Issued(p)
    /\ Provider[p] # "zalopay"
    /\ \/ Provider[p] = "momo" /\ Starts(h, p, "confirmfind", FALSE)
       \/ Starts(h, p, "pollfind", FALSE)
    /\ UNCHANGED <<vars, tx, charge, told, errors>>

\* confirmPayment returns early for a completed row.
ConfirmFind(h) ==
    /\ At(h, "confirmfind")
    /\ Goto(h, IF tx[handler[h].pay] = "completed" THEN "pollfind" ELSE "confirm")
    /\ UNCHANGED <<vars, tx, charge, told, errors>>

Confirm_TrustsReturn(h) ==
    /\ At(h, "confirm")
    /\ handler' = [handler EXCEPT ![h].stage = "confirmsave", ![h].read = "completed"]
    /\ UNCHANGED <<vars, tx, charge, told, errors>>

Confirm(h) ==
    /\ At(h, "confirm")
    /\ \E status \in Answers(handler[h].pay) :
           handler' = [handler EXCEPT ![h].stage = "confirmsave", ![h].read = status]
    /\ UNCHANGED <<vars, tx, charge, told, errors>>

\* The answer is saved.  No call of creditWallet is reached: it is under a test
\* for a status other than COMPLETED, which has just been assigned.
ConfirmSave(h) ==
    /\ At(h, "confirmsave")
    /\ SaveTx(h, handler[h].read)
    /\ Goto(h, "pollfind")
    /\ UNCHANGED <<vars, charge, told, errors>>

\* The catch clause of confirmPayment, which rethrows.
ConfirmFail(h) ==
    /\ At(h, "confirmfail")
    /\ SaveTx(h, "failed")
    /\ Goto(h, "answered")
    /\ UNCHANGED <<vars, charge, told, errors>>

PollFind(h) ==
    /\ At(h, "pollfind")
    /\ handler' = [handler EXCEPT ![h].stage = "poll", ![h].read = tx[handler[h].pay]]
    /\ UNCHANGED <<vars, tx, charge, told, errors>>

\* The row is only saved when the answer differs from what was read.
Poll(h) ==
    /\ At(h, "poll")
    /\ \E status \in Answers(handler[h].pay) :
           handler' = [handler EXCEPT
               ![h].stage = IF status = handler[h].read THEN "answered" ELSE "pollsave",
               ![h].read = status]
    /\ UNCHANGED <<vars, tx, charge, told, errors>>

PollSave(h) ==
    /\ At(h, "pollsave")
    /\ SaveTx(h, handler[h].read)
    /\ Goto(h, "answered")
    /\ UNCHANGED <<vars, charge, told, errors>>

\* A query of a handler is rejected.  A save inside a try block goes to its
\* catch clause; an error before the try block of processWebhookEvent reaches
\* the controller, which reports it, one inside is swallowed.
HandlerFault(h) ==
    /\ errors < MaxFaults
    /\ Busy(h)
    /\ handler[h].stage \notin {"intent", "crediting", "confirm", "poll"}
    /\ At(h, "wallet") => call[h].stage = "done"
    /\ errors' = errors + 1
    /\ Goto(h, CASE At(h, "link")        -> "giveup"
                 [] At(h, "confirmsave") -> "confirmfail"
                 [] OTHER                -> "answered")
    /\ IF h \in Hooks /\ handler[h].stage \in {"save", "credit"}
       THEN AnswersSuccess(h) ELSE UNCHANGED told
    /\ UNCHANGED <<vars, tx, charge>>

\* A query of a handler's wallet call.
WalletStep(c) == Step(c) /\ UNCHANGED payments

HandlerStep(h) ==
    \/ /\ h \in Creators
       /\ \/ TopUpInserts(h)
          \/ TopUpHasNoWallet(h)
          \/ IntentCreated(h)
          \/ IntentRefused(h)
          \/ TopUpLinks(h)
          \/ TopUpGivesUp(h)
    \/ /\ h \in Hooks
       /\ \/ Mark(h)
          \/ Find(h)
          \/ SaveEvent(h)
          \/ Credit(h)
          \/ Credited(h)
    \/ /\ h \in Pollers
       /\ \/ ConfirmFind(h)
          \/ Confirm(h)
          \/ ConfirmSave(h)
          \/ ConfirmFail(h)
          \/ PollFind(h)
          \/ Poll(h)
          \/ PollSave(h)

PNext ==
    \/ \E h \in Creators, p \in Payments : TopUpBegins(h, p)
    \/ \E p \in Payments, outcome \in {"paid", "declined"} : ChargeEnds(p, outcome)
    \/ \E h \in Hooks, p \in Payments : Deliver(h, p) \/ DeliverUnverified(h, p)
    \/ \E h \in Pollers, p \in Payments : PollBegins(h, p)
    \/ \E h \in Handlers : HandlerStep(h) \/ HandlerFault(h)
    \/ \E c \in Calls : WalletStep(c)

PSpec == PInit /\ [][PNext]_pvars

\* The event loop runs every handler on, and a gateway repeats a notification
\* until it is answered with success.  Users and strangers need not do anything.
Fairness ==
    /\ \A h \in Handlers : WF_pvars(HandlerStep(h))
    /\ \A c \in Calls : WF_pvars(WalletStep(c))
    /\ \A p \in Payments : WF_pvars(\E h \in Hooks : Deliver(h, p))

FairPSpec == PSpec /\ Fairness

-----------------------------------------------------------------------------
(* Properties *)

PTypeOK ==
    /\ tx \in [Payments -> Statuses]
    /\ charge \in [Payments -> {"none", "open", "paid", "declined"}]
    /\ told \subseteq Payments
    /\ handler \in [Handlers -> Handler]
    /\ errors \in 0 .. MaxFaults

\* Notifications of the gateway for payment p whose credit has been saved.
CreditsOf(p) == {h \in Genuine : handler[h].pay = p /\ call[h].saved}

\* Someone else than MoMo told the webhook that p was paid.
ClaimedPaid(p) ==
    \E h \in Strangers : ~At(h, "idle") /\ handler[h].pay = p /\ handler[h].paid

\* A wallet is only ever credited by a webhook that was told of a payment of
\* its own user, with what that payment is worth (processWebhookEvent).  What
\* a gateway told is what its user paid; only MoMo's webhook believes others.
CreditedOnlyPaid ==
    \A h \in Handlers \cap Calls :
        (call[h].op # "open") =>
            LET p == handler[h].pay IN
            /\ h \in Hooks /\ handler[h].paid
            /\ IF h \in Strangers THEN Provider[p] = "momo" ELSE charge[p] = "paid"
            /\ call[h].op = "credit"
            /\ call[h].user = Owner[p]
            /\ call[h].amount = Worth[p]

\* A row is COMPLETED only if the gateway was paid or MoMo's webhook was told
\* so by someone else, whichever of the webhooks, the return URL and the status
\* query wrote it last.
CompletedOnlyPaid ==
    \A p \in Payments : tx[p] = "completed" => charge[p] = "paid" \/ ClaimedPaid(p)

\* docs/subscription.md, 3128: "Payment creates one wallet transaction", and
\* the comment at the call: "Credit wallet (only if not already credited)".
\* Even the notifications of one gateway break it.
CreditedOnce == \A p \in Payments : \A g, h \in CreditsOf(p) : g = h

\* Every payment that was paid is credited in the end.  The catch clause of
\* processWebhookEvent says what happens to one that could not be: "The
\* webhook will be retried by the payment provider".
PaidIsCredited ==
    \A p \in Payments : (charge[p] = "paid") ~> (CreditsOf(p) # {})

\* As far as the providers report their payments and nothing has failed, that
\* is so (processWebhookEvent of MoMo and ZaloPay notifications).
PaidIsCreditedUndisturbed ==
    \A p \in Payments :
        (charge[p] = "paid" /\ Provider[p] # "stripe")
            ~> (CreditsOf(p) # {} \/ faults > 0 \/ errors > 0)

Promise == INSTANCE TopUp WITH paid <- {p \in Payments : charge[p] = "paid"},
                               credits <- [p \in Payments |-> Cardinality(CreditsOf(p))]

\* As long as gateways only repeat what was not answered with success, the
\* top-ups keep their promise.
ImplementsTopUp == Promise!Spec

-----------------------------------------------------------------------------
(* The inductive invariants behind CreditedOnlyPaid and CreditedOnce. *)

\* A payment has one creator, which opens its charge once.
OneCreator ==
    /\ \A g, h \in Creators :
           (~At(g, "idle") /\ ~At(h, "idle") /\ handler[g].pay = handler[h].pay) => g = h
    /\ \A h \in Creators :
           handler[h].stage \in {"wallet", "intent"} => charge[handler[h].pay] = "none"
    /\ \A p \in Payments : charge[p] # "none" =>
           \E h \in Creators : handler[h].pay = p /\ ~At(h, "idle")

\* What webhooks and queries learnt of a payment stays true, or was claimed.
KnowsPaid ==
    /\ \A h \in Genuine : handler[h].paid => charge[handler[h].pay] = "paid"
    /\ \A h \in Strangers : ~At(h, "idle") => Provider[handler[h].pay] = "momo"
    /\ \A h \in Hooks : handler[h].stage \in {"credit", "crediting"} => handler[h].paid
    /\ \A h \in Pollers :
           handler[h].read = "completed" =>
               charge[handler[h].pay] = "paid" \/ ClaimedPaid(handler[h].pay)
    /\ CompletedOnlyPaid

\* Only webhooks credit, and only once they handle a notification.
CallsKnow ==
    /\ \A h \in Creators : call[h].op = "open"
    /\ \A h \in Hooks : At(h, "idle") => call[h].op = "open"
    /\ CreditedOnlyPaid

PayInv == PTypeOK /\ OneCreator /\ KnowsPaid /\ CallsKnow

\* Without needless notifications, a webhook call of a gateway is alone with its
\* payment until it has answered success.
OnceInv ==
    ~Redeliver =>
        /\ \A g, h \in Genuine :
               (Busy(g) /\ Busy(h) /\ handler[g].pay = handler[h].pay) => g = h
        /\ \A h \in Genuine :
               /\ Busy(h) => handler[h].pay \notin told
               /\ call[h].stage \in Running => At(h, "crediting")
               /\ (call[h].saved /\ ~Busy(h)) => handler[h].pay \in told
               /\ call[h].saved => handler[h].stage \in {"crediting", "answered"}
        /\ CreditedOnce
=============================================================================
