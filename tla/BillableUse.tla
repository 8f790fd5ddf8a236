---------------------------- MODULE BillableUse ----------------------------
(***************************************************************************)
(* Pay-as-you-go requests (post a job, enhance a CV, mock interview).      *)
(* WalletBalanceGuard reads the price and the balance, the controller does *)
(* the work and answers, and only then WalletDeductionInterceptor, which   *)
(* nobody waits for, reads the price again and deducts it.  Meanwhile      *)
(* administrators edit the billable_actions row with BillableActionService.*)
(* One action code is modelled; requests for others do not touch its row.  *)
(*                                                                         *)
(* A request makes two wallet calls, <<r, "check">> and <<r, "charge">>.   *)
(***************************************************************************)
EXTENDS Wallet

CONSTANTS
    Requests,   \* requests for the billable action
    TopUps,     \* wallet calls that credit a wallet meanwhile
    Admins,     \* activations of BillableActionService
    Costs,      \* prices an administrator may set, in cents
    Openings,   \* balances the wallets may start with
    NoAction    \* stands for a missing billable_actions row

ASSUME BillableAssumption ==
    /\ Calls = (Requests \X {"check", "charge"}) \cup TopUps
    /\ (Requests \X {"check", "charge"}) \cap TopUps = {}
    /\ Costs \subseteq Money
    /\ Costs \cup {0} \subseteq Amounts
    /\ Openings \subseteq Money
    /\ NoAction \notin [id: Admins \cup {"seed"}, cost: Costs, active: BOOLEAN]

VARIABLES
    action,     \* the billable_actions row of this action code
    req,        \* every request: stage, user, price read by the guard, work done
    admin       \* every administrator's activation

bvars == <<vars, action, req, admin>>

Action == [id: Admins \cup {"seed"}, cost: Costs, active: BOOLEAN]

\* findOne({actionCode, isActive: true})
ActionFound == action # NoAction /\ action.active

BillableRequest ==
    [stage: {"idle", "guard", "checking", "handler", "deduct", "charging",
             "refused", "settled"},
     user: Users, cost: Costs \cup {NoAction}, worked: BOOLEAN]

AdminCall == [stage: {"idle", "save", "done"}, read: Action \cup {NoAction},
              write: Action \cup {NoAction}]

Check(r)  == <<r, "check">>
Charge(r) == <<r, "charge">>

RequestRunning(r) == req[r].stage \notin {"idle", "refused", "settled"}
AdminRunning(m) == admin[m].stage = "save"

\* Nothing is in progress, so a caller that waits its turn may begin.
Quiet == /\ InFlight = {}
         /\ \A r \in Requests : ~RequestRunning(r)
         /\ \A m \in Admins : ~AdminRunning(m)

-----------------------------------------------------------------------------
\* The wallets were paid into before; the action is on sale.
BInit ==
    /\ balance \in [Users -> Openings]
    /\ given = balance
    /\ call = [c \in Calls |-> IdleCall]
    /\ transactions = {}
    /\ usage = {}
    /\ faults = 0
    /\ taken = [u \in Users |-> 0]
    /\ lost = [u \in Users |-> 0]
    /\ action \in [id: {"seed"}, cost: Costs, active: {TRUE}]
    /\ req = [r \in Requests |-> [stage |-> "idle", user |-> CHOOSE u \in Users : TRUE,
                                  cost |-> NoAction, worked |-> FALSE]]
    /\ admin = [m \in Admins |-> [stage |-> "idle", read |-> NoAction,
                                write |-> NoAction]]

\* An authenticated request reaches the guard.
Arrive(r, u) ==
    /\ req[r].stage = "idle"
    /\ Serial => Quiet
    /\ req' = [req EXCEPT ![r].stage = "guard", ![r].user = u]
    /\ UNCHANGED <<vars, action, admin>>

\* checkBalanceForAction reads the action.  With one it goes on to checkBalance,
\* without one the guard asks for the balance to report it: either way
\* getOrCreateWallet is the next thing called.
GuardReadsAction(r) ==
    /\ req[r].stage = "guard"
    /\ Begin(Check(r), "open", req[r].user, 0)
    /\ req' = [req EXCEPT ![r].stage = "checking",
                          ![r].cost = IF ActionFound THEN action.cost ELSE NoAction]
    /\ UNCHANGED <<action, admin>>

\* A guard that only waits for the wallet.
GuardDecides_NoCheck(r) ==
    /\ req[r].stage = "checking"
    /\ call[Check(r)].stage \in {"done", "failed"}
    /\ req' = [req EXCEPT ![r].stage = "handler"]
    /\ UNCHANGED <<vars, action, admin>>

\* hasSufficientBalance; a raised query or a short balance refuses the request.
GuardDecides(r) ==
    /\ req[r].stage = "checking"
    /\ call[Check(r)].stage \in {"done", "failed"}
    /\ req' = [req EXCEPT ![r].stage =
                  IF /\ call[Check(r)].stage = "done"
                     /\ req[r].cost # NoAction
                     /\ call[Check(r)].before >= req[r].cost
                  THEN "handler" ELSE "refused"]
    /\ UNCHANGED <<vars, action, admin>>

\* The controller does the work and its answer is sent.
HandlerSucceeds(r) ==
    /\ req[r].stage = "handler"
    /\ req' = [req EXCEPT ![r].stage = "deduct", ![r].worked = TRUE]
    /\ UNCHANGED <<vars, action, admin>>

\* finalize instead of tap: the deduction would run after an error as well.
HandlerThrows_Finalize(r) ==
    /\ req[r].stage = "handler"
    /\ req' = [req EXCEPT ![r].stage = "deduct"]
    /\ UNCHANGED <<vars, action, admin>>

\* The controller throws: tap is not called.
HandlerThrows(r) ==
    /\ req[r].stage = "handler"
    /\ req' = [req EXCEPT ![r].stage = "refused"]
    /\ UNCHANGED <<vars, action, admin>>

\* deductForAction reads the action again.  One that is gone or inactive is
\* reported as {success: false}, which the interceptor only logs.
DeductReadsAction(r) ==
    /\ req[r].stage = "deduct"
    /\ IF ActionFound
       THEN /\ Begin(Charge(r), "deduct", req[r].user, action.cost)
            /\ req' = [req EXCEPT ![r].stage = "charging"]
       ELSE /\ req' = [req EXCEPT ![r].stage = "settled"]
            /\ UNCHANGED vars
    /\ UNCHANGED <<action, admin>>

\* The interceptor logs the outcome of the deduction, whatever it is.
Settle(r) ==
    /\ req[r].stage = "charging"
    /\ call[Charge(r)].stage \in {"done", "failed"}
    /\ req' = [req EXCEPT ![r].stage = "settled"]
    /\ UNCHANGED <<vars, action, admin>>

\* A webhook credits the wallet meanwhile.
TopUp(c, u, a) ==
    /\ Serial => Quiet
    /\ Begin(c, "credit", u, a)
    /\ UNCHANGED <<action, req, admin>>

\* A query of a request's or a top-up's wallet call.
CallStep(c) == Step(c) /\ UNCHANGED <<action, req, admin>>

\* update, updatePrice and updateStatus read the row, change some of its fields
\* in memory, and will save all of it.
AdminReads(m) ==
    \E cost \in Costs, active \in BOOLEAN :
        /\ admin[m].stage = "idle"
        /\ Serial => Quiet
        /\ action # NoAction
        /\ cost = action.cost \/ active = action.active
        /\ admin' = [admin EXCEPT ![m] =
               [stage |-> "save", read |-> action,
                write |-> [action EXCEPT !.cost = cost, !.active = active]]]
        /\ UNCHANGED <<vars, action, req>>

\* A missing isActive taken for false.
AdminSaves_Default(m) ==
    /\ AdminRunning(m)
    /\ LET w == [admin[m].write EXCEPT !.active = FALSE] IN
       action' = IF action = NoAction \/ action.id = w.id THEN w ELSE action
    /\ admin' = [admin EXCEPT ![m].stage = "done"]
    /\ UNCHANGED <<vars, req>>

\* save(action) stores every field as this activation knows it; a row deleted
\* since is inserted again, unless its code has been taken by a new row.
AdminSaves(m) ==
    /\ AdminRunning(m)
    /\ LET w == admin[m].write IN
       action' = IF action = NoAction \/ action.id = w.id THEN w ELSE action
    /\ admin' = [admin EXCEPT ![m].stage = "done"]
    /\ UNCHANGED <<vars, req>>

\* delete: usage_ledger rows refer to the action, so it can only be removed
\* before its first use.
AdminDeletes(m) ==
    /\ admin[m].stage = "idle"
    /\ Serial => Quiet
    /\ action # NoAction
    /\ action' = IF usage = {} THEN NoAction ELSE action
    /\ admin' = [admin EXCEPT ![m].stage = "done"]
    /\ UNCHANGED <<vars, req>>

\* create: refused while a row has the code.
AdminCreates(m) ==
    \E cost \in Costs :
        /\ admin[m].stage = "idle"
        /\ Serial => Quiet
        /\ action = NoAction
        /\ action' = [id |-> m, cost |-> cost, active |-> TRUE]
        /\ admin' = [admin EXCEPT ![m].stage = "done"]
        /\ UNCHANGED <<vars, req>>

BNext ==
    \/ \E r \in Requests :
           \/ \E u \in Users : Arrive(r, u)
           \/ GuardReadsAction(r)
           \/ GuardDecides(r)
           \/ HandlerSucceeds(r)
           \/ HandlerThrows(r)
           \/ DeductReadsAction(r)
           \/ Settle(r)
    \/ \E c \in TopUps, u \in Users, a \in Amounts : TopUp(c, u, a)
    \/ \E c \in Calls : CallStep(c)
    \/ \E m \in Admins :
           \/ AdminReads(m)
           \/ AdminSaves(m)
           \/ AdminDeletes(m)
           \/ AdminCreates(m)

BSpec == BInit /\ [][BNext]_bvars

-----------------------------------------------------------------------------
(* Properties *)

\* Besides the types: a request is only worked on with a price in hand, and
\* only a row that was read is saved.
BTypeOK ==
    /\ action \in Action \cup {NoAction}
    /\ req \in [Requests -> BillableRequest]
    /\ admin \in [Admins -> AdminCall]
    /\ \A r \in Requests : req[r].stage \in {"handler", "deduct", "charging"} =>
           req[r].cost \in Costs
    /\ \A m \in Admins : AdminRunning(m) => admin[m].write # NoAction

Charged(r) == \E w \in usage : w.by = Charge(r)

\* Nobody pays for work that was not done: an error of the controller, a
\* refusal or a failed deduction leaves no usage_ledger row and takes nothing.
OnlyWorkIsCharged ==
    \A c \in Calls :
        (call[c].op = "deduct" /\ call[c].stage # "idle") =>
            \E r \in Requests : c = Charge(r) /\ req[r].worked

\* docs/subscription.md, UC-W2: "CreateJob --> DeductBalance".  When all is
\* quiet, every piece of work that was done has been charged.
WorkIsPaid == Quiet => \A r \in Requests : req[r].worked => Charged(r)

\* A comment of BillableActionService.update: "Update only provided fields".
\* A field that a save was not asked to change keeps its value.
ProvidedFields ==
    \A m \in Admins :
        (AdminRunning(m) /\ ~AdminRunning(m)' /\ action # NoAction
            /\ action.id = admin[m].write.id) =>
            /\ admin[m].write.cost = admin[m].read.cost => action'.cost = action.cost
            /\ admin[m].write.active = admin[m].read.active
                   => action'.active = action.active

\* However requests overlap, the work of a burst is never done entirely for
\* free: when all is quiet and some was done, some was charged.  (With one
\* top-up at most; of two, a stale one can take away what the guard saw.  And
\* while no administrator touches the action.)
SomebodyPays ==
    Quiet /\ (\A m \in Admins : admin[m].stage = "idle") =>
        ((\E r \in Requests : req[r].worked) =>
             \E r \in Requests : req[r].worked /\ Charged(r))

-----------------------------------------------------------------------------
\* The inductive invariant behind BTypeOK and OnlyWorkIsCharged.
WorkInv ==
    /\ BTypeOK
    /\ \A r \in Requests : req[r].stage \in {"deduct", "charging"} => req[r].worked
    /\ OnlyWorkIsCharged

-----------------------------------------------------------------------------
(* The inductive invariant behind SomebodyPays *)

\* What the wallet calls of r are for, and how far they are by the stage of r.
CallsFit(r) ==
    LET i == call[Check(r)]  k == call[Charge(r)] IN
    /\ i.stage # "idle" => i.op = "open" /\ i.user = req[r].user
    /\ i.stage \in {"idle", "find", "insert", "done", "failed"} /\ ~i.saved
    /\ i.stage \in Running => req[r].stage = "checking"
    /\ req[r].stage \in {"idle", "guard"} => i.stage = "idle"
    /\ k.stage # "idle" => /\ k.op = "deduct" /\ k.user = req[r].user
                           /\ req[r].stage \in {"charging", "settled"}
    /\ k.stage \in Running => req[r].stage = "charging"
    /\ req[r].worked => req[r].stage \in {"deduct", "charging", "settled"}
    /\ k.stage \in {"usage", "post", "done"} => k.saved
    /\ k.saved => k.stage \in {"usage", "post", "done", "failed"}
    /\ k.saved /\ k.stage = "failed" => faults > 0
    /\ k.stage \in {"post", "done"} => Charged(r)

TopUpsFit == \A c \in TopUps : call[c].stage # "idle" => call[c].op = "credit"

\* The wallet holds the price of r, which is that of the action.
CanPay(r) ==
    /\ ActionFound /\ req[r].cost = action.cost
    /\ balance[req[r].user] # NoWallet /\ balance[req[r].user] >= req[r].cost

\* A request that passed the guard can pay, until it does.
WillPay(r) ==
    LET i == call[Check(r)]  k == call[Charge(r)] IN
    /\ req[r].stage = "checking" =>
           /\ req[r].cost # NoAction => ActionFound /\ req[r].cost = action.cost
           /\ i.stage = "done" =>
                  balance[req[r].user] # NoWallet /\ balance[req[r].user] >= i.before
    /\ req[r].stage \in {"handler", "deduct"} => CanPay(r)
    /\ req[r].stage = "charging" =>
           /\ k.stage \in {"find", "save", "usage", "post", "done"}
           /\ k.stage = "find" => CanPay(r) /\ k.amount = req[r].cost
    /\ req[r].stage = "settled" /\ req[r].worked => Charged(r)

\* A top-up saves over the balance it has read.
TopUpCurrent(c) ==
    call[c].stage = "save" => /\ balance[call[c].user] # NoWallet
                              /\ balance[call[c].user] = call[c].before

Untouched == \A m \in Admins : admin[m].stage = "idle"
NobodyPaid == \A r \in Requests : ~call[Charge(r)].saved

AllFit == TopUpsFit /\ \A r \in Requests : CallsFit(r)

\* Before the first deduction is saved no balance goes down.
BurstInv ==
    /\ AllFit
    /\ Untouched /\ NobodyPaid =>
           /\ \A r \in Requests : WillPay(r)
           /\ \A c \in TopUps : TopUpCurrent(c)
=============================================================================
