-------------------------- MODULE WalletUseProofs --------------------------
(***************************************************************************)
(* Proofs about the two users of Wallet: BillableUse, for any requests,    *)
(* prices and administrators, and Payment, for any payments, providers and *)
(* handlers.  Neither part cites the assumption of the other component,    *)
(* and together they exclude no instance of either: a BillableUse extends  *)
(* to a Payment all of whose calls are of Creators, a Payment to a         *)
(* BillableUse all of whose calls are of TopUps.                           *)
(***************************************************************************)
EXTENDS MCBillableUse, Payment, WalletProofs, FiniteSetTheorems

LEMMA BillableInit == BInit => IInv
<1> SUFFICES ASSUME BInit PROVE IInv
  OBVIOUS
<1>1. \A u \in Users : balance[u] \in Money /\ balance[u] \in Nat /\ balance[u] # NoWallet
  <2>1. \A u \in Users : balance[u] \in Money
    BY BillableAssumption DEF BInit
  <2>. QED
    BY <2>1, WalletAssumption DEF Money
<1>2. TypeOK
  BY <1>1, IdleCallOK, WalletAssumption DEF BInit, TypeOK
<1>3. BalanceInRange /\ NothingMinted
  BY <1>1 DEF BInit, BalanceInRange, NothingMinted, Balance
<1>4. \A c \in Calls : CallOK(c)
  BY IdleCallOK DEF BInit, CallOK
<1>. QED
  BY <1>2, <1>3, <1>4 DEF IInv

\* The wallet calls of a request are calls, and all different.
LEMMA RequestCalls ==
    ASSUME NEW r \in Requests
    PROVE  Check(r) \in Calls /\ Charge(r) \in Calls
BY BillableAssumption DEF Check, Charge

LEMMA PriceIsAmount == ASSUME BTypeOK, ActionFound
                       PROVE  action.cost \in Costs /\ action.cost \in Amounts
BY BillableAssumption DEF BTypeOK, ActionFound, Action

\* To the wallets, a pay-as-you-go request is nothing but calls of WalletService.
LEMMA BillableStep ==
    ASSUME BTypeOK, [BNext]_bvars
    PROVE  [Next]_vars
<1>0. 0 \in Amounts /\ "open" \in Ops /\ "credit" \in Ops /\ "deduct" \in Ops
  BY BillableAssumption DEF Ops
<1>1. ASSUME NEW r \in Requests, GuardReadsAction(r) PROVE Next
  <2>1. req[r].user \in Users
    BY DEF BTypeOK, BillableRequest
  <2>. QED
    BY <1>0, <1>1, <2>1, RequestCalls DEF GuardReadsAction, Next
<1>2. ASSUME NEW r \in Requests, DeductReadsAction(r) PROVE [Next]_vars
  <2>1. req[r].user \in Users
    BY DEF BTypeOK, BillableRequest
  <2>. QED
    BY <1>0, <1>2, <2>1, PriceIsAmount, RequestCalls DEF DeductReadsAction, Next
<1>3. ASSUME NEW c \in TopUps, NEW u \in Users, NEW a \in Amounts, TopUp(c, u, a)
      PROVE  Next
  <2>1. c \in Calls
    BY BillableAssumption
  <2>. QED
    BY <1>0, <1>3, <2>1 DEF TopUp, Next
<1>4. ASSUME NEW c \in Calls, CallStep(c) PROVE Next
  BY <1>4 DEF CallStep, Next
<1>5. CASE BNext
  BY <1>1, <1>2, <1>3, <1>4, <1>5
     DEF BNext, Arrive, GuardDecides, HandlerSucceeds, HandlerThrows, Settle,
         AdminReads, AdminSaves, AdminDeletes, AdminCreates
<1>6. CASE UNCHANGED bvars
  BY <1>6 DEF bvars
<1>. QED
  BY <1>5, <1>6

LEMMA WorkInit == BInit => WorkInv
<1> SUFFICES ASSUME BInit PROVE WorkInv
  OBVIOUS
<1>1. (CHOOSE u \in Users : TRUE) \in Users
  BY WalletAssumption
<1>2. BTypeOK
  BY <1>1 DEF BInit, BTypeOK, Action, BillableRequest, AdminCall, AdminRunning
<1>3. OnlyWorkIsCharged
  BY IdleCallOK DEF BInit, OnlyWorkIsCharged
<1>. QED
  BY <1>2, <1>3 DEF WorkInv, BInit

\* The wallet's own steps neither begin a call nor change what it is for.
LEMMA StepKeepsOp ==
    ASSUME IInv, NEW c \in Calls, Step(c), NEW d \in Calls
    PROVE  /\ call'[d].op = call[d].op
           /\ call'[d].stage # "idle" => call[d].stage # "idle"
BY DEF Step, FindWallet, FindNoWallet, InsertWallet, InsertDuplicate, SaveWallet,
   SaveOverflows, SaveUsage, SaveTransaction, Fault, Running, IInv, TypeOK, Call

\* Only the interceptor of a request whose work is done begins a deduction.
LEMMA OnlyWorkNext ==
    ASSUME IInv, WorkInv, BTypeOK', [BNext]_bvars
    PROVE  OnlyWorkIsCharged'
<1>1. \A r \in Requests : req[r].worked => req'[r].worked
  <2>1. req \in [Requests -> BillableRequest]
    BY DEF WorkInv, BTypeOK
  <2>2. ASSUME NEW q \in Requests, NEW u \in Users, Arrive(q, u)
        PROVE  \A r \in Requests : req'[r].worked = req[r].worked
    BY <2>1, <2>2 DEF Arrive, BillableRequest
  <2>3. ASSUME NEW q \in Requests, GuardReadsAction(q)
        PROVE  \A r \in Requests : req'[r].worked = req[r].worked
    BY <2>1, <2>3 DEF GuardReadsAction, BillableRequest
  <2>4. ASSUME NEW q \in Requests,
               GuardDecides(q) \/ HandlerThrows(q) \/ DeductReadsAction(q) \/ Settle(q)
        PROVE  \A r \in Requests : req'[r].worked = req[r].worked
    BY <2>1, <2>4 DEF GuardDecides, HandlerThrows, DeductReadsAction, Settle, BillableRequest
  <2>5. ASSUME NEW q \in Requests, HandlerSucceeds(q)
        PROVE  \A r \in Requests : req[r].worked => req'[r].worked
    BY <2>1, <2>5 DEF HandlerSucceeds, BillableRequest
  <2>6. CASE UNCHANGED req
    BY <2>6
  <2>. QED
    BY <2>2, <2>3, <2>4, <2>5, <2>6
       DEF BNext, bvars, TopUp, CallStep, AdminReads, AdminSaves, AdminDeletes, AdminCreates
<1>2. SUFFICES ASSUME NEW d \in Calls, call'[d].op = "deduct", call'[d].stage # "idle",
                      ~(call[d].op = "deduct" /\ call[d].stage # "idle")
               PROVE  \E r \in Requests : d = Charge(r) /\ req'[r].worked
  BY <1>1 DEF OnlyWorkIsCharged, WorkInv, Charge
<1>3. ASSUME NEW c \in Calls, NEW op \in Ops, NEW u \in Users, NEW a \in Int,
             Begin(c, op, u, a)
      PROVE  d = c /\ op = "deduct"
  BY <1>2, <1>3, IdleCallOK DEF Begin, IInv, TypeOK, Call
<1>4. ~UNCHANGED call
  BY <1>2
<1>5. ~ \E c \in Calls : CallStep(c)
  BY <1>2, StepKeepsOp DEF CallStep
<1>6. "open" \in Ops /\ "credit" \in Ops /\ "deduct" \in Ops /\ 0 \in Int
  BY DEF Ops
<1>7. ASSUME NEW r \in Requests, GuardReadsAction(r) PROVE FALSE
  <2>1. req[r].user \in Users
    BY DEF WorkInv, BTypeOK, BillableRequest
  <2>. QED
    BY <1>3, <1>6, <1>7, <2>1, RequestCalls DEF GuardReadsAction
<1>8. ASSUME NEW c \in TopUps, NEW u \in Users, NEW a \in Amounts, TopUp(c, u, a)
      PROVE  FALSE
  BY <1>3, <1>6, <1>8, BillableAssumption, WalletAssumption DEF TopUp
<1>9. ASSUME NEW r \in Requests, DeductReadsAction(r)
      PROVE  d = Charge(r) /\ req'[r].worked
  <2>1. req[r].worked /\ req[r].user \in Users
    BY <1>9 DEF WorkInv, BTypeOK, BillableRequest, DeductReadsAction
  <2>2. ActionFound /\ Begin(Charge(r), "deduct", req[r].user, action.cost)
    BY <1>4, <1>9 DEF DeductReadsAction, vars
  <2>3. action.cost \in Int
    BY <2>2, PriceIsAmount, WalletAssumption DEF WorkInv
  <2>4. d = Charge(r)
    BY <1>3, <1>6, <2>1, <2>2, <2>3, RequestCalls
  <2>. QED
    BY <1>1, <2>1, <2>4
<1>10. \E r \in Requests : DeductReadsAction(r)
  BY <1>4, <1>5, <1>7, <1>8
     DEF BNext, bvars, Arrive, GuardDecides, HandlerSucceeds, HandlerThrows, Settle,
         AdminReads, AdminSaves, AdminDeletes, AdminCreates, vars
<1>. QED
  BY <1>9, <1>10

\* A step of a request keeps its part of the invariant.
LEMMA RequestMoves ==
    ASSUME WorkInv, NEW r \in Requests, NEW q \in BillableRequest,
           req' = [req EXCEPT ![r] = q], UNCHANGED <<action, admin>>,
           q.stage \in {"handler", "deduct", "charging"} => q.cost \in Costs,
           q.stage \in {"deduct", "charging"} => q.worked
    PROVE  /\ BTypeOK'
           /\ \A s \in Requests : req'[s].stage \in {"deduct", "charging"} => req'[s].worked
BY DEF WorkInv, BTypeOK, AdminRunning

\* A step of an administrator keeps its part.
LEMMA AdminMoves ==
    ASSUME WorkInv, NEW m \in Admins, NEW a \in AdminCall,
           admin' = [admin EXCEPT ![m] = a], UNCHANGED req,
           a.stage = "save" => a.write # NoAction,
           action' \in Action \cup {NoAction}
    PROVE  /\ BTypeOK'
           /\ \A s \in Requests : req'[s].stage \in {"deduct", "charging"} => req'[s].worked
BY DEF WorkInv, BTypeOK, AdminRunning

LEMMA WorkTypeNext ==
    ASSUME IInv, WorkInv, [BNext]_bvars
    PROVE  /\ BTypeOK'
           /\ \A r \in Requests : req'[r].stage \in {"deduct", "charging"} => req'[r].worked
<1>0. /\ req \in [Requests -> BillableRequest]
      /\ admin \in [Admins -> AdminCall]
      /\ action \in Action \cup {NoAction}
  BY DEF WorkInv, BTypeOK
<1> DEFINE Goal == /\ BTypeOK'
                   /\ \A s \in Requests :
                         req'[s].stage \in {"deduct", "charging"} => req'[s].worked
<1>1. ASSUME NEW r \in Requests, NEW u \in Users, Arrive(r, u)
      PROVE  Goal
  <2> DEFINE q == [req[r] EXCEPT !.stage = "guard", !.user = u]
  <2>1. q \in BillableRequest /\ q.stage = "guard"
    BY <1>0 DEF BillableRequest
  <2>2. req' = [req EXCEPT ![r] = q] /\ UNCHANGED <<action, admin>>
    BY <1>0, <1>1 DEF Arrive, BillableRequest
  <2>. QED
    BY <2>1, <2>2, RequestMoves
<1>2. ASSUME NEW r \in Requests, GuardReadsAction(r)
      PROVE  Goal
  <2> DEFINE price == IF ActionFound THEN action.cost ELSE NoAction
             q == [req[r] EXCEPT !.stage = "checking", !.cost = price]
  <2>1. price \in Costs \cup {NoAction}
    BY PriceIsAmount DEF WorkInv
  <2>2. q \in BillableRequest /\ q.stage = "checking"
    BY <1>0, <2>1 DEF BillableRequest
  <2>3. req' = [req EXCEPT ![r] = q] /\ UNCHANGED <<action, admin>>
    BY <1>0, <1>2 DEF GuardReadsAction, BillableRequest
  <2>. QED
    BY <2>2, <2>3, RequestMoves
<1>3. ASSUME NEW r \in Requests, GuardDecides(r)
      PROVE  Goal
  <2> DEFINE s == IF /\ call[Check(r)].stage = "done"
                     /\ req[r].cost # NoAction
                     /\ call[Check(r)].before >= req[r].cost
                  THEN "handler" ELSE "refused"
             q == [req[r] EXCEPT !.stage = s]
  <2>1. q \in BillableRequest /\ q.stage = s /\ q.cost = req[r].cost
    BY <1>0 DEF BillableRequest
  <2>2. req[r].cost \in Costs \cup {NoAction}
    BY <1>0 DEF BillableRequest
  <2>3. req' = [req EXCEPT ![r] = q] /\ UNCHANGED <<action, admin>>
    BY <1>0, <1>3 DEF GuardDecides, BillableRequest
  <2>4. s \in {"handler", "refused"} /\ (s = "handler" => q.cost \in Costs)
    BY <2>1, <2>2
  <2> HIDE DEF q, s
  <2>. QED
    BY <2>1, <2>3, <2>4, RequestMoves
<1>4. ASSUME NEW r \in Requests, HandlerSucceeds(r)
      PROVE  Goal
  <2> DEFINE q == [req[r] EXCEPT !.stage = "deduct", !.worked = TRUE]
  <2>1. q \in BillableRequest /\ q.stage = "deduct" /\ q.worked /\ q.cost = req[r].cost
    BY <1>0 DEF BillableRequest
  <2>2. req' = [req EXCEPT ![r] = q] /\ UNCHANGED <<action, admin>>
    BY <1>0, <1>4 DEF HandlerSucceeds, BillableRequest
  <2>3. req[r].cost \in Costs
    BY <1>4 DEF HandlerSucceeds, WorkInv, BTypeOK
  <2>. QED
    BY <2>1, <2>2, <2>3, RequestMoves
<1>5. ASSUME NEW r \in Requests, HandlerThrows(r)
      PROVE  Goal
  <2> DEFINE q == [req[r] EXCEPT !.stage = "refused"]
  <2>1. q \in BillableRequest /\ q.stage = "refused"
    BY <1>0 DEF BillableRequest
  <2>2. req' = [req EXCEPT ![r] = q] /\ UNCHANGED <<action, admin>>
    BY <1>0, <1>5 DEF HandlerThrows, BillableRequest
  <2>. QED
    BY <2>1, <2>2, RequestMoves
<1>6. ASSUME NEW r \in Requests, DeductReadsAction(r) \/ Settle(r)
      PROVE  Goal
  <2>1. PICK s \in {"charging", "settled"} : req' = [req EXCEPT ![r].stage = s]
    BY <1>6 DEF DeductReadsAction, Settle
  <2>2. req[r].stage \in {"deduct", "charging"} /\ UNCHANGED <<action, admin>>
    BY <1>6 DEF DeductReadsAction, Settle
  <2>3. req[r].worked /\ req[r].cost \in Costs
    BY <2>2 DEF WorkInv, BTypeOK
  <2> DEFINE q == [req[r] EXCEPT !.stage = s]
  <2>4. /\ q \in BillableRequest /\ q.stage = s
        /\ q.worked = req[r].worked /\ q.cost = req[r].cost
    BY <1>0 DEF BillableRequest
  <2>5. req' = [req EXCEPT ![r] = q]
    BY <1>0, <2>1
  <2>. QED
    BY <2>2, <2>3, <2>4, <2>5, RequestMoves
<1>7. ASSUME NEW m \in Admins, AdminReads(m)
      PROVE  Goal
  <2>1. PICK cost \in Costs, active \in BOOLEAN :
           /\ action # NoAction
           /\ admin' = [admin EXCEPT ![m] =
                 [stage |-> "save", read |-> action,
                  write |-> [action EXCEPT !.cost = cost, !.active = active]]]
           /\ UNCHANGED <<action, req>>
    BY <1>7 DEF AdminReads
  <2> DEFINE w == [action EXCEPT !.cost = cost, !.active = active]
             a == [stage |-> "save", read |-> action, write |-> w]
  <2>2. w \in Action
    BY <1>0, <2>1 DEF Action
  <2>3. w # NoAction
    BY <2>2, BillableAssumption DEF Action
  <2>4. a \in AdminCall
    BY <1>0, <2>1, <2>2 DEF AdminCall
  <2>5. admin' = [admin EXCEPT ![m] = a] /\ UNCHANGED req /\ action' \in Action \cup {NoAction}
    BY <1>0, <2>1
  <2>6. a.stage = "save" => a.write # NoAction
    BY <2>3
  <2> HIDE DEF a
  <2>. QED
    BY <2>4, <2>5, <2>6, AdminMoves
<1>8. ASSUME NEW m \in Admins, AdminSaves(m) \/ AdminDeletes(m) \/ AdminCreates(m)
      PROVE  Goal
  <2>1. admin' = [admin EXCEPT ![m].stage = "done"] /\ UNCHANGED req
    BY <1>8 DEF AdminSaves, AdminDeletes, AdminCreates
  <2>2. action' \in Action \cup {NoAction}
    <3>1. CASE AdminSaves(m)
      BY <1>0, <3>1 DEF AdminSaves, AdminCall
    <3>2. CASE AdminDeletes(m)
      BY <1>0, <3>2 DEF AdminDeletes
    <3>3. CASE AdminCreates(m)
      BY <3>3 DEF AdminCreates, Action
    <3>. QED
      BY <1>8, <3>1, <3>2, <3>3
  <2> DEFINE a == [admin[m] EXCEPT !.stage = "done"]
  <2>3. a \in AdminCall /\ a.stage = "done"
    BY <1>0 DEF AdminCall
  <2>4. admin' = [admin EXCEPT ![m] = a]
    BY <1>0, <2>1
  <2>. QED
    BY <2>1, <2>2, <2>3, <2>4, AdminMoves
<1>9. ASSUME UNCHANGED <<action, req, admin>> PROVE Goal
  BY <1>9 DEF WorkInv, BTypeOK, AdminRunning
<1> HIDE DEF Goal
<1>10. ASSUME NEW c \in TopUps, NEW u \in Users, NEW a \in Amounts, TopUp(c, u, a)
       PROVE  Goal
  BY <1>9, <1>10 DEF TopUp
<1>11. ASSUME NEW c \in Calls, CallStep(c)
       PROVE  Goal
  BY <1>9, <1>11 DEF CallStep
<1>12. ASSUME UNCHANGED bvars PROVE Goal
  BY <1>9, <1>12 DEF bvars
<1>13. ASSUME BNext PROVE Goal
  BY <1>1, <1>2, <1>3, <1>4, <1>5, <1>6, <1>7, <1>8, <1>10, <1>11, <1>13 DEF BNext
<1>. QED
  BY <1>12, <1>13 DEF Goal

LEMMA WorkNext == IInv /\ WorkInv /\ [BNext]_bvars => IInv' /\ WorkInv'
<1> SUFFICES ASSUME IInv, WorkInv, [BNext]_bvars PROVE IInv' /\ WorkInv'
  OBVIOUS
<1>1. IInv'
  BY BillableStep, NextInv DEF WorkInv
<1>2. WorkInv'
  BY WorkTypeNext, OnlyWorkNext DEF WorkInv
<1>. QED
  BY <1>1, <1>2

LEMMA BillableInv == BSpec => [](IInv /\ WorkInv)
BY BillableInit, WorkInit, WorkNext, PTL DEF BSpec

\* Nobody is ever charged for a request whose work was not done, however
\* requests, top-ups and price changes interleave.
THEOREM NoChargeWithoutWork == BSpec => []OnlyWorkIsCharged
<1>1. WorkInv => OnlyWorkIsCharged
  BY DEF WorkInv
<1>. QED
  BY <1>1, BillableInv, PTL

\* Pay-as-you-go requests never overdraw a wallet.
THEOREM BillableNoOverdraft == BSpec => []BalanceInRange
<1>1. IInv => BalanceInRange
  BY DEF IInv
<1>. QED
  BY <1>1, BillableInv, PTL

\* Every step of pay-as-you-go is a step of WalletService or leaves it alone.
THEOREM BillableUsesWallet == BSpec => [][Next]_vars
<1>1. IInv /\ WorkInv /\ [BNext]_bvars => [Next]_vars
  BY BillableStep DEF WorkInv
<1>. QED
  BY <1>1, BillableInv, PTL DEF BSpec

-----------------------------------------------------------------------------
(* What each wallet call is for *)

LEMMA CallsDiffer ==
    /\ \A r, s \in Requests : /\ Check(r) # Charge(s)
                              /\ Check(r) = Check(s) => r = s
                              /\ Charge(r) = Charge(s) => r = s
    /\ \A r \in Requests, c \in TopUps : c # Check(r) /\ c # Charge(r)
    /\ \A c \in Calls : \/ c \in TopUps
                         \/ \E r \in Requests : c = Check(r) \/ c = Charge(r)
<1>1. \A r \in Requests, c \in TopUps : c # Check(r) /\ c # Charge(r)
  BY BillableAssumption DEF Check, Charge
<1>2. \A c \in Calls : c \in TopUps \/ \E r \in Requests : c = Check(r) \/ c = Charge(r)
  BY BillableAssumption DEF Check, Charge
<1>. QED
  BY <1>1, <1>2 DEF Check, Charge

\* What any step of a call leaves alone
LEMMA StepFrame ==
    ASSUME IInv, NEW c \in Calls, Step(c)
    PROVE  /\ \A d \in Calls \ {c} : call'[d] = call[d]
           /\ call[c].stage \in Running
           /\ call'[c].op = call[c].op /\ call'[c].user = call[c].user
           /\ call'[c].amount = call[c].amount
           /\ usage \subseteq usage'
           /\ faults \in Nat /\ faults' \in Nat /\ faults <= faults'
BY WalletAssumption DEF Step, FindWallet, FindNoWallet, InsertWallet, InsertDuplicate, SaveWallet,
   SaveOverflows, SaveUsage, SaveTransaction, Fault, Running, IInv, TypeOK, Call, tables

\* getOrCreateWallet ends with the balance, and makes no other difference than a wallet.

LEMMA OpenStep ==
    ASSUME IInv, NEW c \in Calls, Step(c), call[c].op = "open",
           call[c].stage \in {"find", "insert"}
    PROVE  /\ call'[c].stage \in {"insert", "done", "failed"}
           /\ call'[c].saved = call[c].saved
           /\ \A u \in Users : balance[u] # NoWallet => balance'[u] = balance[u]
           /\ call'[c].stage = "done" =>
                  balance'[call[c].user] # NoWallet /\ balance'[call[c].user] >= call'[c].before
<1> DEFINE k == call[c]
           b == balance[k.user]
<1>1. k \in Call /\ k.user \in Users /\ 0 # NoWallet /\ 0 \in Int
  BY WalletAssumption DEF IInv, TypeOK, Call
<1>2. \A n : ~InvalidAmount(k) /\ ~Overdraft(k, n) /\ AfterFind(k, n) = "done"
  BY DEF AfterFind, InvalidAmount, Overdraft
<1>3. CASE FindWallet(c)
  <2>1. b \in Money /\ b \in Int
    BY <1>1, <1>3, WalletAssumption DEF FindWallet, IInv, BalanceInRange, Money
  <2>2. call' = [call EXCEPT ![c].before = b, ![c].stage = "done"] /\ UNCHANGED balance
    BY <1>2, <1>3 DEF FindWallet, tables
  <2>3. call'[c].stage = "done" /\ call'[c].before = b /\ call'[c].saved = k.saved
    BY <1>1, <2>2 DEF IInv, TypeOK, Call
  <2>. QED
    BY <1>3, <2>1, <2>2, <2>3 DEF FindWallet
<1>4. CASE InsertWallet(c)
  <2>1. call' = [call EXCEPT ![c].before = 0, ![c].stage = "done"]
        /\ balance' = [balance EXCEPT ![k.user] = 0] /\ b = NoWallet
    BY <1>2, <1>4 DEF InsertWallet
  <2>2. call'[c].stage = "done" /\ call'[c].before = 0 /\ call'[c].saved = k.saved
    BY <1>1, <2>1 DEF IInv, TypeOK, Call
  <2>3. balance'[k.user] = 0 /\ \A u \in Users : u # k.user => balance'[u] = balance[u]
    BY <1>1, <2>1 DEF IInv, TypeOK
  <2>. QED
    BY <1>1, <2>1, <2>2, <2>3
<1>5. CASE FindNoWallet(c) \/ InsertDuplicate(c) \/ Fault(c)
  <2>1. call'[c].stage \in {"insert", "failed"} /\ call'[c].saved = k.saved
    BY <1>1, <1>5 DEF FindNoWallet, InsertDuplicate, Fault, IInv, TypeOK, Call
  <2>2. UNCHANGED balance
    BY <1>5 DEF FindNoWallet, InsertDuplicate, Fault, tables
  <2>. QED
    BY <2>1, <2>2
<1>. QED
  BY <1>3, <1>4, <1>5 DEF Step, SaveWallet, SaveOverflows, SaveUsage, SaveTransaction

\* How a deduction moves on
LEMMA DeductStep ==
    ASSUME IInv, NEW c \in Calls, Step(c), call[c].op = "deduct",
           call[c].stage \in {"usage", "post"} => call[c].saved,
           call[c].saved => call[c].stage \in {"usage", "post"},
           call[c].stage = "post" => \E w \in usage : w.by = c
    PROVE  /\ call'[c].stage \in {"insert", "save", "usage", "post", "done", "failed"}
           /\ call'[c].stage \in {"usage", "post", "done"} => call'[c].saved
           /\ call'[c].saved => call'[c].stage \in {"usage", "post", "done", "failed"}
           /\ call'[c].saved /\ call'[c].stage = "failed" => faults' > 0
           /\ call'[c].stage \in {"post", "done"} => \E w \in usage' : w.by = c
           /\ ~call'[c].saved => \A u \in Users : balance[u] # NoWallet => balance'[u] = balance[u]
           /\ /\ faults' = 0
              /\ call[c].stage \in {"find", "save", "usage", "post"}
              /\ call[c].stage = "find" =>
                     balance[call[c].user] # NoWallet /\ balance[call[c].user] >= call[c].amount
              => call'[c].stage \in {"save", "usage", "post", "done"}
<1> DEFINE k == call[c]
           b == balance[k.user]
<1>1. k \in Call /\ k.user \in Users /\ k.amount \in Int /\ 0 \in Int /\ k.saved \in BOOLEAN
      /\ c \in Calls /\ k.stage \in Running /\ faults \in Nat
  BY StepFrame, WalletAssumption DEF IInv, TypeOK, Call
<1>2. \A n : AfterFind(k, n) = IF n < k.amount THEN "failed" ELSE "save"
  BY DEF AfterFind, InvalidAmount, Overdraft
<1>3. CASE FindWallet(c)
  <2>1. b \in Int
    BY <1>1, <1>3 DEF FindWallet, IInv, TypeOK
  <2>2. call' = [call EXCEPT ![c].before = b, ![c].stage = AfterFind(k, b)]
        /\ UNCHANGED <<balance, usage, faults>> /\ k.stage = "find"
    BY <1>3 DEF FindWallet, tables
  <2>3. call'[c].stage = AfterFind(k, b) /\ call'[c].saved = k.saved
    BY <1>1, <2>2 DEF IInv, TypeOK, Call
  <2>4. ~k.saved
    BY <2>2
  <2>. QED
    BY <1>1, <1>2, <2>1, <2>2, <2>3, <2>4
<1>4. CASE FindNoWallet(c) \/ InsertDuplicate(c)
  <2>1. call'[c].stage \in {"insert", "failed"} /\ call'[c].saved = k.saved
    BY <1>1, <1>4 DEF FindNoWallet, InsertDuplicate, IInv, TypeOK, Call
  <2>2. UNCHANGED balance /\ k.stage \in {"find", "insert"}
        /\ (k.stage = "find" => balance[k.user] = NoWallet)
    BY <1>4 DEF FindNoWallet, InsertDuplicate, tables
  <2>. QED
    BY <2>1, <2>2
<1>5. CASE InsertWallet(c)
  <2>1. call' = [call EXCEPT ![c].before = 0, ![c].stage = AfterFind(k, 0)]
        /\ balance' = [balance EXCEPT ![k.user] = 0] /\ b = NoWallet /\ k.stage = "insert"
    BY <1>5 DEF InsertWallet
  <2>2. call'[c].stage = AfterFind(k, 0) /\ call'[c].saved = k.saved
    BY <1>1, <2>1 DEF IInv, TypeOK, Call
  <2>3. \A u \in Users : balance[u] # NoWallet => balance'[u] = balance[u]
    BY <1>1, <2>1 DEF IInv, TypeOK
  <2>. QED
    BY <1>1, <1>2, <2>1, <2>2, <2>3
<1>6. CASE SaveWallet(c)
  <2>1. call' = [call EXCEPT ![c].saved = TRUE, ![c].stage = "usage"]
    BY <1>6 DEF SaveWallet
  <2>2. call'[c].stage = "usage" /\ call'[c].saved
    BY <1>1, <2>1 DEF IInv, TypeOK, Call
  <2>. QED
    BY <2>2
<1>7. CASE SaveOverflows(c)
  <2>1. k.stage = "save" /\ NewBalance(k) > MaxMoney
    BY <1>7 DEF SaveOverflows
  <2>2. k.before \in Money /\ k.amount >= 0
    BY <2>1 DEF IInv, CallOK
  <2>. QED
    BY <1>1, <2>1, <2>2, WalletAssumption DEF NewBalance, Money
<1>8. CASE SaveUsage(c)
  <2>1. call' = [call EXCEPT ![c].stage = "post"] /\ k.stage = "usage"
        /\ \E w \in usage' : w.by = c
    <3>1. PICK w : /\ w = [by |-> c, user |-> k.user, amountDeducted |-> k.amount,
                           before |-> k.before, after |-> NewBalance(k)]
                   /\ usage' = usage \cup {w}
      BY <1>8 DEF SaveUsage
    <3>2. w.by = c /\ w \in usage'
      BY <3>1
    <3>. QED
      BY <1>8, <3>2 DEF SaveUsage
  <2>2. call'[c].stage = "post" /\ call'[c].saved = k.saved
    BY <1>1, <2>1 DEF IInv, TypeOK, Call
  <2>. QED
    BY <2>1, <2>2
<1>9. CASE SaveTransaction(c)
  <2>1. call' = [call EXCEPT ![c].stage = "done"] /\ k.stage = "post" /\ usage' = usage
    BY <1>9 DEF SaveTransaction
  <2>2. call'[c].stage = "done" /\ call'[c].saved = k.saved
    BY <1>1, <2>1 DEF IInv, TypeOK, Call
  <2>. QED
    BY <2>1, <2>2
<1>10. CASE Fault(c)
  <2>1. call' = [call EXCEPT ![c].stage = "failed"] /\ faults' = faults + 1 /\ UNCHANGED balance
    BY <1>10 DEF Fault, tables
  <2>2. call'[c].stage = "failed" /\ call'[c].saved = k.saved
    BY <1>1, <2>1 DEF IInv, TypeOK, Call
  <2>. QED
    BY <1>1, <2>1, <2>2
<1>. QED
  BY <1>3, <1>4, <1>5, <1>6, <1>7, <1>8, <1>9, <1>10 DEF Step

\* How a top-up moves on
LEMMA CreditStep ==
    ASSUME IInv, NEW c \in Calls, Step(c), call[c].op = "credit"
    PROVE  /\ \A u \in Users : balance[u] # NoWallet /\ u # call[c].user => balance'[u] = balance[u]
           /\ LET u == call[c].user IN
              /\ call[c].stage # "save" /\ balance[u] # NoWallet => balance'[u] = balance[u]
              /\ call[c].stage = "save" /\ balance[u] = call[c].before =>
                     balance'[u] # NoWallet /\ balance'[u] >= balance[u]
              /\ call'[c].stage = "save" => balance'[u] # NoWallet /\ balance'[u] = call'[c].before
<1> DEFINE k == call[c]
           u == k.user
<1>1. k \in Call /\ u \in Users /\ k.amount \in Int /\ 0 \in Int /\ 0 # NoWallet
  BY WalletAssumption DEF IInv, TypeOK, Call
<1>2. CASE FindWallet(c)
  <2>1. call' = [call EXCEPT ![c].before = balance[u], ![c].stage = AfterFind(k, balance[u])]
        /\ UNCHANGED balance /\ k.stage = "find" /\ balance[u] # NoWallet
    BY <1>2 DEF FindWallet, tables
  <2>2. call'[c].before = balance[u]
    BY <1>1, <2>1 DEF IInv, TypeOK, Call
  <2>. QED
    BY <2>1, <2>2
<1>3. CASE InsertWallet(c)
  <2>1. call' = [call EXCEPT ![c].before = 0, ![c].stage = AfterFind(k, 0)]
        /\ balance' = [balance EXCEPT ![u] = 0] /\ balance[u] = NoWallet /\ k.stage = "insert"
    BY <1>3 DEF InsertWallet
  <2>2. call'[c].before = 0 /\ balance'[u] = 0 /\ \A v \in Users : v # u => balance'[v] = balance[v]
    BY <1>1, <2>1 DEF IInv, TypeOK, Call
  <2>. QED
    BY <1>1, <2>1, <2>2
<1>4. CASE SaveWallet(c)
  <2>1. call' = [call EXCEPT ![c].saved = TRUE, ![c].stage = "post"]
        /\ balance' = [balance EXCEPT ![u] = k.before + k.amount] /\ k.stage = "save"
    BY <1>4 DEF SaveWallet, NewBalance
  <2>2. ~InvalidAmount(k) /\ k.before \in Money
    BY <2>1 DEF IInv, CallOK
  <2>3. k.amount > 0 /\ k.before \in Int
    BY <1>1, <2>2, WalletAssumption DEF InvalidAmount, Money
  <2>4. call'[c].stage = "post" /\ balance'[u] = k.before + k.amount
        /\ \A v \in Users : v # u => balance'[v] = balance[v]
    BY <1>1, <2>1 DEF IInv, TypeOK, Call
  <2>5. k.before + k.amount \in Int /\ k.before + k.amount >= k.before
    BY <1>1, <2>3
  <2>. QED
    BY <2>1, <2>4, <2>5, WalletAssumption
<1>5. CASE \/ FindNoWallet(c) \/ InsertDuplicate(c) \/ SaveOverflows(c)
           \/ SaveUsage(c) \/ SaveTransaction(c) \/ Fault(c)
  <2>1. UNCHANGED balance
    BY <1>5 DEF FindNoWallet, InsertDuplicate, SaveOverflows, SaveUsage, SaveTransaction, Fault, tables
  <2>2. call'[c].stage # "save"
    BY <1>1, <1>5 DEF FindNoWallet, InsertDuplicate, SaveOverflows, SaveUsage, SaveTransaction, Fault,
                      IInv, TypeOK, Call
  <2>3. k.stage = "save" => k.before \in Int
    BY <1>1 DEF Call
  <2>. QED
    BY <2>1, <2>2, <2>3, WalletAssumption
<1>. QED
  BY <1>2, <1>3, <1>4, <1>5 DEF Step

-----------------------------------------------------------------------------
(* What a request has reached *)

LEMMA FitSame ==
    ASSUME NEW r \in Requests, CallsFit(r), req'[r] = req[r],
           call'[Check(r)] = call[Check(r)], call'[Charge(r)] = call[Charge(r)],
           usage \subseteq usage', faults \in Nat, faults' \in Nat, faults <= faults'
    PROVE  CallsFit(r)'
<1>1. Check(r)' = Check(r) /\ Charge(r)' = Charge(r)
  BY DEF Check, Charge
<1>2. Charged(r) => Charged(r)'
  BY <1>1 DEF Charged
<1>3. faults > 0 => faults' > 0
  OBVIOUS
<1>. QED
  BY <1>1, <1>2, <1>3 DEF CallsFit

LEMMA FitStep ==
    ASSUME IInv, AllFit, NEW c \in Calls, Step(c), UNCHANGED req
    PROVE  AllFit'
<1>1. /\ \A d \in Calls \ {c} : call'[d] = call[d]
      /\ call[c].stage \in Running
      /\ call'[c].op = call[c].op /\ call'[c].user = call[c].user
      /\ usage \subseteq usage'
      /\ faults \in Nat /\ faults' \in Nat /\ faults <= faults'
  BY StepFrame
<1>2. TopUpsFit'
  <2>1. \A d \in TopUps : d \in Calls
    BY BillableAssumption
  <2>. QED
    BY <1>1, <2>1 DEF AllFit, TopUpsFit, Running
<1>3. ASSUME NEW r \in Requests
      PROVE  CallsFit(r)'
  <2>1. Check(r)' = Check(r) /\ Charge(r)' = Charge(r) /\ CallsFit(r)
        /\ Check(r) \in Calls /\ Charge(r) \in Calls /\ Check(r) # Charge(r)
    BY RequestCalls, CallsDiffer DEF Check, Charge, AllFit
  <2>2. Charged(r) => Charged(r)'
    BY <1>1, <2>1 DEF Charged
  <2>3. CASE c = Check(r)
    <3>1. call[c].op = "open" /\ call[c].stage \in {"find", "insert"}
      BY <1>1, <2>1, <2>3 DEF CallsFit, Running
    <3>2. call'[c].stage \in {"insert", "done", "failed"} /\ call'[c].saved = call[c].saved
      BY <3>1, OpenStep
    <3>3. call'[Charge(r)] = call[Charge(r)]
      BY <1>1, <2>1, <2>3
    <3>4. faults > 0 => faults' > 0
      BY <1>1
    <3>. QED
      BY <1>1, <2>1, <2>2, <2>3, <3>1, <3>2, <3>3, <3>4 DEF CallsFit, Running
  <2>4. CASE c = Charge(r)
    <3>1. /\ call[c].op = "deduct"
          /\ call[c].stage \in {"usage", "post"} => call[c].saved
          /\ call[c].saved => call[c].stage \in {"usage", "post"}
          /\ call[c].stage = "post" => \E w \in usage : w.by = c
          /\ req[r].stage = "charging"
      BY <1>1, <2>1, <2>4 DEF CallsFit, Running, Charged
    <3>2. /\ call'[c].stage \in {"insert", "save", "usage", "post", "done", "failed"}
          /\ call'[c].stage \in {"usage", "post", "done"} => call'[c].saved
          /\ call'[c].saved => call'[c].stage \in {"usage", "post", "done", "failed"}
          /\ call'[c].saved /\ call'[c].stage = "failed" => faults' > 0
          /\ call'[c].stage \in {"post", "done"} => \E w \in usage' : w.by = c
      BY <3>1, DeductStep
    <3>3. call'[Check(r)] = call[Check(r)]
      BY <1>1, <2>1, <2>4
    <3>4. call'[c].stage \in {"post", "done"} => Charged(r)'
      BY <2>1, <2>4, <3>2 DEF Charged
    <3>. QED
      BY <1>1, <2>1, <2>4, <3>1, <3>2, <3>3, <3>4 DEF CallsFit, Running
  <2>5. CASE c # Check(r) /\ c # Charge(r)
    BY <1>1, <2>1, <2>5, FitSame
  <2>. QED
    BY <2>3, <2>4, <2>5
<1>. QED
  BY <1>2, <1>3 DEF AllFit

\* What a step that begins call c does to the calls
LEMMA BeginFrame ==
    ASSUME IInv, NEW c \in Calls, NEW op \in Ops, NEW u \in Users, NEW a \in Int, Begin(c, op, u, a)
    PROVE  /\ \A d \in Calls \ {c} : call'[d] = call[d]
           /\ call[c].stage = "idle"
           /\ call'[c].stage = "find" /\ call'[c].op = op /\ call'[c].user = u
           /\ call'[c].amount = a /\ call'[c].saved = FALSE
           /\ UNCHANGED <<balance, usage, faults>>
<1>1. PICK n : n = [IdleCall EXCEPT !.stage = "find", !.op = op, !.user = u, !.amount = a]
  OBVIOUS
<1>2. n.stage = "find" /\ n.op = op /\ n.user = u /\ n.amount = a /\ n.saved = FALSE
  BY <1>1 DEF IdleCall
<1>3. call' = [call EXCEPT ![c] = n] /\ call[c].stage = "idle" /\ UNCHANGED <<balance, usage, faults>>
  BY <1>1 DEF Begin, tables
<1>. QED
  BY <1>2, <1>3 DEF IInv, TypeOK

\* Only r moves.
OnlyMoves(r) == \A s \in Requests \ {r} : req'[s] = req[s]

\* The steps of a request on its own
RequestStep(r) ==
    \/ \E u \in Users : Arrive(r, u)
    \/ GuardReadsAction(r)
    \/ GuardDecides(r)
    \/ HandlerSucceeds(r)
    \/ HandlerThrows(r)
    \/ DeductReadsAction(r)
    \/ Settle(r)

LEMMA FitRequest ==
    ASSUME IInv, WorkInv, AllFit, NEW r \in Requests, RequestStep(r)
    PROVE  AllFit' /\ OnlyMoves(r)
<1> DEFINE q == req[r]
<1>0. req \in [Requests -> BillableRequest] /\ q \in BillableRequest /\ faults \in Nat
      /\ q.user \in Users /\ 0 \in Int /\ "open" \in Ops /\ "deduct" \in Ops
  BY WalletAssumption DEF WorkInv, BTypeOK, BillableRequest, IInv, TypeOK, Ops
<1>1. Check(r)' = Check(r) /\ Charge(r)' = Charge(r) /\ CallsFit(r)
      /\ Check(r) \in Calls /\ Charge(r) \in Calls /\ Check(r) # Charge(r)
  BY RequestCalls, CallsDiffer DEF Check, Charge, AllFit
<1>2. ASSUME OnlyMoves(r), usage' = usage, faults' = faults, CallsFit(r)',
             \A d \in Calls \ {Check(r), Charge(r)} : call'[d] = call[d]
      PROVE  AllFit'
  <2>1. ASSUME NEW s \in Requests, s # r
        PROVE  CallsFit(s)'
    <3>1. call'[Check(s)] = call[Check(s)] /\ call'[Charge(s)] = call[Charge(s)]
      BY <1>2, <2>1, CallsDiffer, RequestCalls
    <3>2. CallsFit(s) /\ req'[s] = req[s]
      BY <1>2, <2>1 DEF AllFit, OnlyMoves
    <3>. QED
      BY <1>0, <1>2, <3>1, <3>2, FitSame
  <2>2. TopUpsFit'
    <3>1. \A c \in TopUps : c \in Calls \ {Check(r), Charge(r)}
      BY CallsDiffer, BillableAssumption
    <3>. QED
      BY <1>2, <3>1 DEF AllFit, TopUpsFit
  <2>. QED
    BY <1>2, <2>1, <2>2 DEF AllFit
<1>3. ASSUME UNCHANGED vars, OnlyMoves(r),
             req'[r].user = q.user \/ q.stage = "idle",
             req'[r].worked => req'[r].stage \in {"deduct", "charging", "settled"},
             \/ q.stage \in {"idle", "guard"} /\ req'[r].stage = "guard"
             \/ /\ q.stage \notin {"idle", "guard"} /\ req'[r].stage \notin {"idle", "guard"}
                /\ call[Check(r)].stage \notin Running
                /\ call[Charge(r)].stage \notin Running
                /\ call[Charge(r)].stage # "idle" => req'[r].stage = "settled"
      PROVE  AllFit'
  <2>1. UNCHANGED <<call, usage, faults>>
    BY <1>3 DEF vars, tables
  <2>2. CallsFit(r)'
    <3>1. Charged(r)' = Charged(r)
      BY <1>1, <2>1 DEF Charged
    <3>. QED
      BY <1>1, <1>3, <2>1, <3>1 DEF CallsFit, Running
  <2>. QED
    BY <1>2, <1>3, <2>1, <2>2
<1>4. ASSUME NEW u \in Users, Arrive(r, u) PROVE AllFit' /\ OnlyMoves(r)
  <2>1. /\ OnlyMoves(r) /\ q.stage = "idle" /\ req'[r].stage = "guard"
        /\ req'[r].worked = q.worked /\ UNCHANGED vars
    BY <1>0, <1>4 DEF Arrive, OnlyMoves, BillableRequest
  <2>2. ~q.worked
    BY <1>1, <2>1 DEF CallsFit
  <2>. QED
    BY <1>3, <2>1, <2>2
<1>5. CASE GuardReadsAction(r)
  <2>1. /\ OnlyMoves(r) /\ q.stage = "guard" /\ req'[r].stage = "checking"
        /\ req'[r].worked = q.worked /\ req'[r].user = q.user
        /\ Begin(Check(r), "open", q.user, 0)
    BY <1>0, <1>5 DEF GuardReadsAction, OnlyMoves, BillableRequest
  <2>2. /\ \A d \in Calls \ {Check(r)} : call'[d] = call[d]
        /\ call'[Check(r)].stage = "find" /\ call'[Check(r)].op = "open"
        /\ call'[Check(r)].user = q.user /\ call'[Check(r)].saved = FALSE
        /\ UNCHANGED <<balance, usage, faults>>
    <3> DEFINE c == Check(r)
               u == q.user
    <3>1. c \in Calls /\ u \in Users /\ Begin(c, "open", u, 0)
      BY <1>0, <1>1, <2>1
    <3> HIDE DEF c, u
    <3>2. /\ \A d \in Calls \ {c} : call'[d] = call[d]
          /\ call'[c].stage = "find" /\ call'[c].op = "open" /\ call'[c].user = u
          /\ call'[c].saved = FALSE /\ UNCHANGED <<balance, usage, faults>>
      BY <1>0, <3>1, BeginFrame
    <3>. QED
      BY <3>2 DEF c, u
  <2>3. CallsFit(r)'
    <3>1. Charged(r)' = Charged(r)
      BY <1>1, <2>2 DEF Charged
    <3>2. call'[Charge(r)] = call[Charge(r)]
      BY <1>1, <2>2
    <3>. QED
      BY <1>1, <2>1, <2>2, <3>1, <3>2 DEF CallsFit, Running
  <2>. QED
    BY <1>2, <2>1, <2>2, <2>3
<1>6. CASE GuardDecides(r) \/ HandlerSucceeds(r) \/ HandlerThrows(r)
  <2>1. PICK s \in {"handler", "refused", "deduct"} :
            /\ OnlyMoves(r) /\ q.stage \in {"checking", "handler"} /\ req'[r].stage = s
            /\ req'[r].user = q.user /\ (s # "deduct" => req'[r].worked = q.worked)
            /\ UNCHANGED vars
            /\ q.stage = "checking" => call[Check(r)].stage \in {"done", "failed"}
    <3>1. CASE GuardDecides(r)
      BY <1>0, <3>1 DEF GuardDecides, OnlyMoves, BillableRequest
    <3>2. CASE HandlerSucceeds(r)
      BY <1>0, <3>2 DEF HandlerSucceeds, OnlyMoves, BillableRequest
    <3>3. CASE HandlerThrows(r)
      BY <1>0, <3>3 DEF HandlerThrows, OnlyMoves, BillableRequest
    <3>. QED
      BY <1>6, <3>1, <3>2, <3>3
  <2>2. call[Check(r)].stage \notin Running /\ call[Charge(r)].stage = "idle"
        /\ (s # "deduct" => ~req'[r].worked)
    BY <1>1, <2>1 DEF CallsFit, Running
  <2>. QED
    BY <1>3, <2>1, <2>2 DEF Running
<1>7. CASE DeductReadsAction(r) /\ ActionFound
  <2>1. /\ OnlyMoves(r) /\ q.stage = "deduct" /\ req'[r].stage = "charging"
        /\ req'[r].worked = q.worked /\ req'[r].user = q.user
        /\ Begin(Charge(r), "deduct", q.user, action.cost)
    BY <1>0, <1>7 DEF DeductReadsAction, OnlyMoves, BillableRequest
  <2>2. action.cost \in Int
    BY <1>7, PriceIsAmount, WalletAssumption DEF WorkInv
  <2>3. /\ \A d \in Calls \ {Charge(r)} : call'[d] = call[d]
        /\ call'[Charge(r)].stage = "find" /\ call'[Charge(r)].op = "deduct"
        /\ call'[Charge(r)].user = q.user /\ call'[Charge(r)].saved = FALSE
        /\ UNCHANGED <<balance, usage, faults>>
    <3> DEFINE c == Charge(r)
               u == q.user
               a == action.cost
    <3>1. c \in Calls /\ u \in Users /\ a \in Int /\ Begin(c, "deduct", u, a)
      BY <1>0, <1>1, <2>1, <2>2
    <3> HIDE DEF c, u, a
    <3>2. /\ \A d \in Calls \ {c} : call'[d] = call[d]
          /\ call'[c].stage = "find" /\ call'[c].op = "deduct" /\ call'[c].user = u
          /\ call'[c].saved = FALSE /\ UNCHANGED <<balance, usage, faults>>
      BY <1>0, <3>1, BeginFrame
    <3>. QED
      BY <3>2 DEF c, u
  <2>4. CallsFit(r)'
    <3>1. Charged(r)' = Charged(r)
      BY <1>1, <2>3 DEF Charged
    <3>2. call'[Check(r)] = call[Check(r)]
      BY <1>1, <2>3
    <3>. QED
      BY <1>1, <2>1, <2>3, <3>1, <3>2 DEF CallsFit, Running
  <2>. QED
    BY <1>2, <2>1, <2>3, <2>4
<1>8. CASE Settle(r) \/ (DeductReadsAction(r) /\ ~ActionFound)
  <2>1. /\ OnlyMoves(r) /\ q.stage \in {"deduct", "charging"} /\ req'[r].stage = "settled"
        /\ req'[r].user = q.user /\ UNCHANGED vars
        /\ q.stage = "charging" => call[Charge(r)].stage \in {"done", "failed"}
    BY <1>0, <1>8 DEF Settle, DeductReadsAction, OnlyMoves, BillableRequest
  <2>2. call[Check(r)].stage \notin Running /\ call[Charge(r)].stage \notin Running
    BY <1>1, <2>1 DEF CallsFit, Running
  <2>. QED
    BY <1>3, <2>1, <2>2
<1>. QED
  BY <1>4, <1>5, <1>6, <1>7, <1>8 DEF RequestStep

\* The steps of an administrator
AdminStep(m) == AdminReads(m) \/ AdminSaves(m) \/ AdminDeletes(m) \/ AdminCreates(m)

LEMMA StepCases ==
    ASSUME [BNext]_bvars
    PROVE  \/ \E r \in Requests : RequestStep(r)
           \/ \E c \in TopUps, u \in Users, a \in Amounts : TopUp(c, u, a)
           \/ \E c \in Calls : CallStep(c)
           \/ \E m \in Admins : AdminStep(m)
           \/ UNCHANGED bvars
BY DEF BNext, RequestStep, AdminStep

\* A top-up begins with nothing but its own call.
LEMMA TopUpFrame ==
    ASSUME IInv, NEW c \in TopUps, NEW u \in Users, NEW a \in Amounts, TopUp(c, u, a)
    PROVE  /\ \A d \in Calls \ {c} : call'[d] = call[d]
           /\ call[c].stage = "idle" /\ call'[c].stage = "find"
           /\ call'[c].op = "credit" /\ call'[c].saved = FALSE
           /\ UNCHANGED <<balance, usage, faults, action, req, admin>>
<1>1. c \in Calls /\ a \in Int /\ "credit" \in Ops /\ Begin(c, "credit", u, a)
      /\ UNCHANGED <<action, req, admin>>
  BY BillableAssumption, WalletAssumption DEF Ops, TopUp
<1>. QED
  BY <1>1, BeginFrame

LEMMA FitNext == IInv /\ WorkInv /\ AllFit /\ [BNext]_bvars => AllFit'
<1> SUFFICES ASSUME IInv, WorkInv, AllFit, [BNext]_bvars PROVE AllFit'
  OBVIOUS
<1>0. faults \in Nat
  BY WalletAssumption DEF IInv, TypeOK
<1>1. ASSUME UNCHANGED <<call, usage, faults, req>>
      PROVE  AllFit'
  <2>1. ASSUME NEW r \in Requests
        PROVE  CallsFit(r)'
    BY <1>0, <1>1, FitSame DEF AllFit
  <2>. QED
    BY <1>1, <2>1 DEF AllFit, TopUpsFit
<1>2. ASSUME NEW c \in TopUps, NEW u \in Users, NEW a \in Amounts, TopUp(c, u, a)
      PROVE  AllFit'
  <2>1. /\ \A d \in Calls \ {c} : call'[d] = call[d]
        /\ call'[c].op = "credit"
        /\ UNCHANGED <<usage, faults, req>>
    BY <1>2, TopUpFrame
  <2>2. ASSUME NEW r \in Requests
        PROVE  CallsFit(r)'
    <3>1. call'[Check(r)] = call[Check(r)] /\ call'[Charge(r)] = call[Charge(r)]
      BY <2>1, CallsDiffer, RequestCalls
    <3>. QED
      BY <1>0, <2>1, <3>1, FitSame DEF AllFit
  <2>3. TopUpsFit'
    <3>1. \A d \in TopUps : d \in Calls
      BY BillableAssumption
    <3>. QED
      BY <2>1, <3>1 DEF AllFit, TopUpsFit
  <2>. QED
    BY <2>2, <2>3 DEF AllFit
<1>3. ASSUME NEW c \in Calls, CallStep(c) PROVE AllFit'
  BY <1>3, FitStep DEF CallStep
<1>4. ASSUME NEW m \in Admins, AdminStep(m) PROVE AllFit'
  BY <1>1, <1>4 DEF AdminStep, AdminReads, AdminSaves, AdminDeletes, AdminCreates, vars, tables
<1>5. ASSUME UNCHANGED bvars PROVE AllFit'
  BY <1>1, <1>5 DEF bvars, vars, tables
<1>. QED
  BY <1>2, <1>3, <1>4, <1>5, StepCases, FitRequest

LEMMA FitInit == BInit => AllFit /\ \A r \in Requests : WillPay(r)
<1> SUFFICES ASSUME BInit PROVE AllFit /\ \A r \in Requests : WillPay(r)
  OBVIOUS
<1>1. \A c \in Calls : call[c].stage = "idle" /\ call[c].saved = FALSE
  BY DEF BInit, IdleCall
<1>2. \A r \in Requests : req[r].stage = "idle" /\ req[r].worked = FALSE
  BY DEF BInit
<1>3. TopUpsFit
  BY <1>1, BillableAssumption DEF TopUpsFit
<1>4. ASSUME NEW r \in Requests PROVE CallsFit(r) /\ WillPay(r)
  BY <1>1, <1>2, RequestCalls DEF CallsFit, WillPay, Running
<1>. QED
  BY <1>3, <1>4 DEF AllFit

-----------------------------------------------------------------------------
(* A request that passed the guard can pay *)

\* No wallet goes away and none goes down.
Grows == \A u \in Users : balance[u] # NoWallet =>
             balance'[u] # NoWallet /\ balance'[u] >= balance[u]

\* What others do does not take away what a request can pay.
LEMMA WillSame ==
    ASSUME IInv, IInv', WorkInv, NEW r \in Requests, WillPay(r), Grows,
           req'[r] = req[r], call'[Check(r)] = call[Check(r)],
           call'[Charge(r)] = call[Charge(r)], UNCHANGED action, usage \subseteq usage'
    PROVE  WillPay(r)'
<1>1. Check(r)' = Check(r) /\ Charge(r)' = Charge(r)
  BY DEF Check, Charge
<1>2. Charged(r) => Charged(r)'
  BY <1>1 DEF Charged
<1>3. ActionFound' = ActionFound
  BY DEF ActionFound
<1> DEFINE u == req[r].user
           b == balance[u]
           n == balance'[u]
<1>4. u \in Users
  BY DEF WorkInv, BTypeOK, BillableRequest
<1>5. b # NoWallet => n # NoWallet /\ n >= b /\ b \in Int /\ n \in Int
  BY <1>4 DEF Grows, IInv, TypeOK
<1>6. ASSUME CanPay(r) PROVE CanPay(r)'
  <2>1. action.cost \in Int /\ req[r].cost = action.cost
    BY <1>6, PriceIsAmount, WalletAssumption DEF CanPay, WorkInv
  <2>2. n # NoWallet /\ n >= req[r].cost
    BY <1>5, <1>6, <2>1 DEF CanPay
  <2>. QED
    BY <1>3, <1>6, <2>2 DEF CanPay
<1>7. ASSUME b # NoWallet, b >= call[Check(r)].before
      PROVE  n # NoWallet /\ n >= call[Check(r)].before
  <2>1. call[Check(r)].before \in Int
    BY RequestCalls DEF IInv, TypeOK, Call
  <2>. QED
    BY <1>5, <1>7, <2>1
<1>. QED
  BY <1>1, <1>2, <1>3, <1>6, <1>7 DEF WillPay

\* A request that is not at work needs nothing any more.
LEMMA WillRest ==
    ASSUME NEW r \in Requests, WillPay(r), ~RequestRunning(r),
           req'[r] = req[r], usage \subseteq usage'
    PROVE  WillPay(r)'
<1>1. Charged(r) => Charged(r)'
  BY DEF Charged, Charge
<1>. QED
  BY <1>1 DEF WillPay, RequestRunning

\* The request's own steps lead from one means of payment to the next.
LEMMA WillRequest ==
    ASSUME IInv, WorkInv, AllFit, NEW r \in Requests, RequestStep(r), WillPay(r)
    PROVE  WillPay(r)' /\ UNCHANGED <<action, balance, usage, admin>>
<1> DEFINE q == req[r]
<1>0. req \in [Requests -> BillableRequest] /\ q \in BillableRequest /\ q.user \in Users
      /\ 0 \in Int /\ "open" \in Ops /\ "deduct" \in Ops /\ q.cost \in Costs \cup {NoAction}
  BY DEF WorkInv, BTypeOK, BillableRequest, Ops
<1>1. Check(r)' = Check(r) /\ Charge(r)' = Charge(r) /\ CallsFit(r)
      /\ Check(r) \in Calls /\ Charge(r) \in Calls /\ Check(r) # Charge(r)
  BY RequestCalls, CallsDiffer DEF Check, Charge, AllFit
<1>2. UNCHANGED <<action, balance, usage, admin>>
  BY DEF RequestStep, Arrive, GuardReadsAction, GuardDecides, HandlerSucceeds, HandlerThrows,
         DeductReadsAction, Settle, Begin, vars, tables
<1>3. ActionFound' = ActionFound /\ Charged(r)' = Charged(r)
  BY <1>1, <1>2 DEF ActionFound, Charged
<1>4. CASE (\E u \in Users : Arrive(r, u)) \/ HandlerThrows(r)
  <2>1. req'[r].stage \in {"guard", "refused"}
    BY <1>0, <1>4 DEF Arrive, HandlerThrows, BillableRequest
  <2>. QED
    BY <1>2, <2>1 DEF WillPay
<1>5. CASE GuardReadsAction(r)
  <2>1. /\ req'[r].stage = "checking"
        /\ req'[r].cost = IF ActionFound THEN action.cost ELSE NoAction
        /\ Begin(Check(r), "open", q.user, 0)
    BY <1>0, <1>5 DEF GuardReadsAction, BillableRequest
  <2>2. call'[Check(r)].stage = "find"
    <3> DEFINE c == Check(r)
               u == q.user
    <3>1. c \in Calls /\ u \in Users /\ Begin(c, "open", u, 0)
      BY <1>0, <1>1, <2>1
    <3> HIDE DEF c, u
    <3>2. call'[c].stage = "find"
      BY <1>0, <3>1, BeginFrame
    <3>. QED
      BY <3>2 DEF c
  <2>. QED
    BY <1>1, <1>2, <1>3, <2>1, <2>2 DEF WillPay
<1>6. CASE GuardDecides(r)
  <2>1. /\ req'[r].stage \in {"handler", "refused"}
        /\ req'[r].cost = q.cost /\ req'[r].user = q.user /\ q.stage = "checking"
        /\ req'[r].stage = "handler" => /\ call[Check(r)].stage = "done" /\ q.cost # NoAction
                                        /\ call[Check(r)].before >= q.cost
    BY <1>0, <1>6 DEF GuardDecides, BillableRequest
  <2>2. ASSUME req'[r].stage = "handler"
        PROVE  CanPay(r)'
    <3>1. /\ ActionFound /\ q.cost = action.cost
          /\ balance[q.user] # NoWallet /\ balance[q.user] >= call[Check(r)].before
          /\ call[Check(r)].before >= q.cost
      BY <2>1, <2>2 DEF WillPay
    <3>2. q.cost \in Int
      BY <3>1, PriceIsAmount, WalletAssumption DEF WorkInv
    <3>3. balance[q.user] \in Int /\ call[Check(r)].before \in Int
      BY <1>0, <1>1, <3>1 DEF IInv, TypeOK, Call
    <3>4. balance[q.user] >= q.cost
      BY <3>1, <3>2, <3>3
    <3>. QED
      BY <1>2, <1>3, <2>1, <3>1, <3>4 DEF CanPay
  <2>. QED
    BY <1>2, <2>1, <2>2 DEF WillPay
<1>7. CASE HandlerSucceeds(r)
  <2>1. /\ req'[r].stage = "deduct" /\ q.stage = "handler"
        /\ req'[r].cost = q.cost /\ req'[r].user = q.user
    BY <1>0, <1>7 DEF HandlerSucceeds, BillableRequest
  <2>2. CanPay(r)
    BY <2>1 DEF WillPay
  <2>3. CanPay(r)'
    BY <1>2, <1>3, <2>1, <2>2 DEF CanPay
  <2>. QED
    BY <1>2, <2>1, <2>3 DEF WillPay
<1>8. CASE DeductReadsAction(r)
  <2>1. q.stage = "deduct" /\ CanPay(r) /\ ActionFound
    BY <1>8 DEF DeductReadsAction, WillPay, CanPay
  <2>2. /\ req'[r].stage = "charging" /\ req'[r].cost = q.cost /\ req'[r].user = q.user
        /\ Begin(Charge(r), "deduct", q.user, action.cost)
    BY <1>0, <1>8, <2>1 DEF DeductReadsAction, BillableRequest
  <2>3. call'[Charge(r)].stage = "find" /\ call'[Charge(r)].amount = action.cost
    <3> DEFINE c == Charge(r)
               u == q.user
               a == action.cost
    <3>1. c \in Calls /\ u \in Users /\ Begin(c, "deduct", u, a)
      BY <1>0, <1>1, <2>2
    <3>2. a \in Int
      BY <2>1, PriceIsAmount, WalletAssumption DEF WorkInv
    <3> HIDE DEF c, u, a
    <3>3. call'[c].stage = "find" /\ call'[c].amount = a
      BY <1>0, <3>1, <3>2, BeginFrame
    <3>. QED
      BY <3>3 DEF c, a
  <2>4. CanPay(r)'
    BY <1>2, <1>3, <2>1, <2>2 DEF CanPay
  <2>5. req'[r].cost = action.cost
    BY <2>1, <2>2 DEF CanPay
  <2>. QED
    BY <1>1, <1>2, <2>2, <2>3, <2>4, <2>5 DEF WillPay
<1>9. CASE Settle(r)
  <2>1. /\ req'[r].stage = "settled" /\ q.stage = "charging"
        /\ call[Charge(r)].stage \in {"done", "failed"}
    BY <1>0, <1>9 DEF Settle, BillableRequest
  <2>2. call[Charge(r)].stage = "done"
    BY <2>1 DEF WillPay
  <2>3. Charged(r)
    BY <1>1, <2>2 DEF CallsFit
  <2>. QED
    BY <1>2, <1>3, <2>1, <2>3 DEF WillPay
<1>. QED
  BY <1>2, <1>4, <1>5, <1>6, <1>7, <1>8, <1>9 DEF RequestStep

\* A request begins no call but its own.
LEMMA RequestFrame ==
    ASSUME IInv, WorkInv, NEW r \in Requests, RequestStep(r)
    PROVE  \A d \in Calls \ {Check(r), Charge(r)} : call'[d] = call[d]
<1>0. Check(r) \in Calls /\ Charge(r) \in Calls /\ req[r].user \in Users
      /\ 0 \in Int /\ "open" \in Ops /\ "deduct" \in Ops
  BY RequestCalls DEF WorkInv, BTypeOK, BillableRequest, Ops
<1> DEFINE c == Check(r)
           k == Charge(r)
           u == req[r].user
           a == action.cost
<1>1. CASE GuardReadsAction(r)
  <2>1. Begin(c, "open", u, 0)
    BY <1>1 DEF GuardReadsAction
  <2> HIDE DEF c, u
  <2>2. \A d \in Calls \ {c} : call'[d] = call[d]
    BY <1>0, <2>1, BeginFrame DEF c, u
  <2>. QED
    BY <2>2 DEF c
<1>2. CASE DeductReadsAction(r) /\ ActionFound
  <2>1. Begin(k, "deduct", u, a)
    BY <1>2 DEF DeductReadsAction
  <2>2. a \in Int
    BY <1>2, PriceIsAmount, WalletAssumption DEF WorkInv
  <2>3. \A d \in Calls \ {k} : call'[d] = call[d]
    <3> HIDE DEF a
    <3>. QED
      BY <1>0, <2>1, <2>2, BeginFrame
  <2>. QED
    BY <2>3
<1>3. CASE UNCHANGED vars
  BY <1>3 DEF vars
<1>. QED
  BY <1>1, <1>2, <1>3 DEF RequestStep, Arrive, GuardDecides, HandlerSucceeds, HandlerThrows,
     DeductReadsAction, Settle

\* The steps of its own two wallet calls, if no query is rejected.
LEMMA WillOpen ==
    ASSUME IInv, AllFit, NEW r \in Requests, WillPay(r), Step(Check(r)), UNCHANGED <<req, action>>
    PROVE  WillPay(r)' /\ \A u \in Users : balance[u] # NoWallet => balance'[u] = balance[u]
<1> DEFINE c == Check(r)
<1>1. c' = c /\ CallsFit(r) /\ c \in Calls /\ ActionFound' = ActionFound
  BY RequestCalls DEF Check, AllFit, ActionFound
<1>2. call[c].stage \in Running
  BY <1>1, StepFrame
<1>3. call[c].op = "open" /\ call[c].user = req[r].user /\ call[c].stage \in {"find", "insert"}
      /\ req[r].stage = "checking"
  BY <1>1, <1>2 DEF CallsFit, Running
<1>4. /\ \A u \in Users : balance[u] # NoWallet => balance'[u] = balance[u]
      /\ call'[c].stage = "done" =>
             balance'[req[r].user] # NoWallet /\ balance'[req[r].user] >= call'[c].before
  BY <1>1, <1>3, OpenStep
<1>. QED
  BY <1>1, <1>3, <1>4 DEF WillPay

LEMMA WillCharge ==
    ASSUME IInv, AllFit, NEW r \in Requests, WillPay(r), Step(Charge(r)), UNCHANGED <<req, action>>,
           faults' = 0
    PROVE  WillPay(r)' /\ req[r].stage = "charging"
           /\ (~call'[Charge(r)].saved =>
                   \A u \in Users : balance[u] # NoWallet => balance'[u] = balance[u])
<1> DEFINE c == Charge(r)
<1>1. c' = c /\ CallsFit(r) /\ c \in Calls
  BY RequestCalls DEF Charge, AllFit
<1>2. call[c].stage \in Running
  BY <1>1, StepFrame
<1>3. /\ call[c].op = "deduct" /\ call[c].user = req[r].user
      /\ req[r].stage = "charging"
      /\ call[c].stage \in {"usage", "post"} => call[c].saved
      /\ call[c].saved => call[c].stage \in {"usage", "post"}
      /\ call[c].stage = "post" => \E w \in usage : w.by = c
  BY <1>1, <1>2 DEF CallsFit, Running, Charged
<1>4. /\ call[c].stage \in {"find", "save", "usage", "post"}
      /\ call[c].stage = "find" => CanPay(r) /\ call[c].amount = req[r].cost
  BY <1>2, <1>3 DEF WillPay, Running
<1>5. call[c].stage = "find" =>
          balance[call[c].user] # NoWallet /\ balance[call[c].user] >= call[c].amount
  BY <1>3, <1>4 DEF CanPay
<1>6. /\ call'[c].stage \in {"save", "usage", "post", "done"}
      /\ ~call'[c].saved => \A u \in Users : balance[u] # NoWallet => balance'[u] = balance[u]
  BY <1>1, <1>3, <1>4, <1>5, DeductStep
<1>. QED
  BY <1>1, <1>3, <1>6 DEF WillPay

-----------------------------------------------------------------------------
(* A burst of requests *)

LEMMA StaysSaved ==
    ASSUME IInv, NEW c \in Calls, Step(c), call[c].saved
    PROVE  call'[c].saved
BY DEF Step, FindWallet, FindNoWallet, InsertWallet, InsertDuplicate, SaveWallet,
   SaveOverflows, SaveUsage, SaveTransaction, Fault, IInv, TypeOK, Call

\* A deduction that was saved stays saved.
LEMMA PaidBefore ==
    ASSUME IInv, WorkInv, AllFit, [BNext]_bvars, NobodyPaid'
    PROVE  NobodyPaid
<1> SUFFICES ASSUME NEW r \in Requests, call[Charge(r)].saved PROVE FALSE
  BY DEF NobodyPaid
<1>1. Charge(r) \in Calls /\ ~call'[Charge(r)].saved /\ CallsFit(r)
  BY RequestCalls DEF NobodyPaid, AllFit, Charge
<1>2. call[Charge(r)].stage # "idle"
  BY <1>1 DEF CallsFit
<1>3. ASSUME NEW c \in Calls, NEW op \in Ops, NEW u \in Users, NEW a \in Int, Begin(c, op, u, a)
      PROVE  FALSE
  BY <1>1, <1>2, <1>3, BeginFrame
<1>4. ASSUME NEW c \in Calls, Step(c) PROVE FALSE
  BY <1>1, <1>4, StaysSaved, StepFrame
<1>5. UNCHANGED vars
  BY <1>3, <1>4, BillableStep, WalletAssumption DEF Next, WorkInv
<1>. QED
  BY <1>1, <1>5 DEF vars

LEMMA UntouchedBefore ==
    ASSUME WorkInv, [BNext]_bvars, Untouched'
    PROVE  Untouched /\ UNCHANGED <<action, admin>>
<1>1. ASSUME NEW m \in Admins, AdminStep(m) PROVE FALSE
  <2>1. admin \in [Admins -> AdminCall]
    BY DEF WorkInv, BTypeOK
  <2>2. admin'[m].stage \in {"save", "done"}
    <3>1. ASSUME AdminReads(m) PROVE admin'[m].stage = "save"
      <4>1. PICK a : admin' = [admin EXCEPT ![m] = a] /\ a.stage = "save"
        BY <3>1 DEF AdminReads
      <4>. QED
        BY <2>1, <4>1
    <3>2. ASSUME AdminSaves(m) \/ AdminDeletes(m) \/ AdminCreates(m)
          PROVE  admin'[m].stage = "done"
      BY <2>1, <3>2 DEF AdminSaves, AdminDeletes, AdminCreates, AdminCall
    <3>. QED
      BY <1>1, <3>1, <3>2 DEF AdminStep
  <2>. QED
    BY <2>2 DEF Untouched
<1>2. UNCHANGED <<action, admin>>
  BY <1>1, StepCases DEF RequestStep, Arrive, GuardReadsAction, GuardDecides, HandlerSucceeds,
     HandlerThrows, DeductReadsAction, Settle, TopUp, CallStep, bvars
<1>. QED
  BY <1>2 DEF Untouched

\* What others do leaves the balance a top-up has read.
LEMMA TopUpSame ==
    ASSUME IInv, NEW c \in TopUps, TopUpCurrent(c), call'[c] = call[c],
           \A u \in Users : balance[u] # NoWallet => balance'[u] = balance[u]
    PROVE  TopUpCurrent(c)'
<1>1. call[c].user \in Users
  BY BillableAssumption DEF IInv, TypeOK, Call
<1>. QED
  BY <1>1 DEF TopUpCurrent

LEMMA GrowsSame ==
    ASSUME IInv, \A u \in Users : balance[u] # NoWallet => balance'[u] = balance[u]
    PROVE  Grows
<1>1. ASSUME NEW u \in Users, balance[u] # NoWallet
      PROVE  balance'[u] # NoWallet /\ balance'[u] >= balance[u]
  <2>1. balance[u] \in Int /\ balance'[u] = balance[u]
    BY <1>1 DEF IInv, TypeOK
  <2>. QED
    BY <1>1, <2>1
<1>. QED
  BY <1>1 DEF Grows

\* While nobody has paid and no administrator has come, everybody can pay.
LEMMA BurstNext ==
    ASSUME IInv, IInv', WorkInv, BurstInv, [BNext]_bvars, MaxFaults = 0,
           \A c, d \in TopUps : c = d
    PROVE  BurstInv'
<1>1. AllFit /\ AllFit'
  BY FitNext DEF BurstInv
<1> SUFFICES ASSUME Untouched', NobodyPaid'
             PROVE  /\ \A r \in Requests : WillPay(r)'
                    /\ \A c \in TopUps : TopUpCurrent(c)'
  BY <1>1 DEF BurstInv
<1>2. /\ \A r \in Requests : WillPay(r)
      /\ \A c \in TopUps : TopUpCurrent(c)
      /\ UNCHANGED <<action, admin>>
  BY <1>1, PaidBefore, UntouchedBefore DEF BurstInv
<1>3. faults' = 0
  BY DEF IInv, TypeOK
<1>4. \A c \in TopUps : c \in Calls
  BY BillableAssumption
<1> DEFINE Still == \A u \in Users : balance[u] # NoWallet => balance'[u] = balance[u]
<1>5. ASSUME NEW r \in Requests, RequestStep(r)
      PROVE  /\ \A s \in Requests : WillPay(s)'
             /\ \A c \in TopUps : TopUpCurrent(c)'
  <2>1. WillPay(r)' /\ UNCHANGED <<balance, usage>> /\ OnlyMoves(r)
    BY <1>1, <1>2, <1>5, WillRequest, FitRequest
  <2>2. \A d \in Calls \ {Check(r), Charge(r)} : call'[d] = call[d]
    BY <1>1, <1>5, RequestFrame
  <2>3. ASSUME NEW s \in Requests, s # r
        PROVE  WillPay(s)'
    <3>1. call'[Check(s)] = call[Check(s)] /\ call'[Charge(s)] = call[Charge(s)]
      BY <2>2, <2>3, CallsDiffer, RequestCalls
    <3>2. req'[s] = req[s]
      BY <2>1, <2>3 DEF OnlyMoves
    <3>. QED
      BY <1>2, <2>1, <3>1, <3>2, GrowsSame, WillSame
  <2>4. ASSUME NEW c \in TopUps
        PROVE  TopUpCurrent(c)'
    <3>1. call'[c] = call[c]
      BY <1>4, <2>2, CallsDiffer
    <3>. QED
      BY <1>2, <2>1, <3>1, TopUpSame
  <2>. QED
    BY <2>1, <2>3, <2>4
<1>6. ASSUME NEW c \in TopUps, NEW u \in Users, NEW a \in Amounts, TopUp(c, u, a)
      PROVE  /\ \A s \in Requests : WillPay(s)'
             /\ \A d \in TopUps : TopUpCurrent(d)'
  <2>1. /\ \A d \in Calls \ {c} : call'[d] = call[d]
        /\ call'[c].stage = "find"
        /\ UNCHANGED <<balance, usage, req>>
    BY <1>6, TopUpFrame
  <2>2. ASSUME NEW s \in Requests
        PROVE  WillPay(s)'
    <3>1. call'[Check(s)] = call[Check(s)] /\ call'[Charge(s)] = call[Charge(s)]
      BY <2>1, CallsDiffer, RequestCalls
    <3>. QED
      BY <1>2, <2>1, <3>1, GrowsSame, WillSame
  <2>3. ASSUME NEW d \in TopUps
        PROVE  TopUpCurrent(d)'
    BY <2>1, <2>3 DEF TopUpCurrent
  <2>. QED
    BY <2>2, <2>3
<1>7. ASSUME NEW c \in Calls, CallStep(c)
      PROVE  /\ \A s \in Requests : WillPay(s)'
             /\ \A d \in TopUps : TopUpCurrent(d)'
  <2>1. /\ Step(c) /\ UNCHANGED <<req, action>> /\ usage \subseteq usage'
        /\ \A d \in Calls \ {c} : call'[d] = call[d]
    BY <1>7, StepFrame DEF CallStep
  <2>2. ASSUME NEW s \in Requests, c # Check(s), c # Charge(s), Grows
        PROVE  WillPay(s)'
    <3>1. call'[Check(s)] = call[Check(s)] /\ call'[Charge(s)] = call[Charge(s)]
      BY <2>1, <2>2, RequestCalls
    <3>. QED
      BY <1>2, <2>1, <2>2, <3>1, WillSame
  <2>3. ASSUME NEW d \in TopUps, d # c, Still
        PROVE  TopUpCurrent(d)'
    BY <1>2, <1>4, <2>1, <2>3, TopUpSame
  <2>4. ASSUME NEW r \in Requests, c = Check(r) \/ c = Charge(r)
        PROVE  /\ \A s \in Requests : WillPay(s)'
               /\ \A d \in TopUps : TopUpCurrent(d)'
    <3>1. WillPay(r)' /\ Still
      <4>1. CASE c = Check(r)
        BY <1>1, <1>2, <2>1, <4>1, WillOpen
      <4>2. CASE c = Charge(r)
        <5>1. ~call'[Charge(r)].saved
          BY DEF NobodyPaid, Charge
        <5>. QED
          BY <1>1, <1>2, <1>3, <2>1, <4>2, <5>1, WillCharge
      <4>. QED
        BY <2>4, <4>1, <4>2
    <3>2. Grows
      BY <3>1, GrowsSame
    <3>3. ASSUME NEW s \in Requests, s # r
          PROVE  c # Check(s) /\ c # Charge(s)
      BY <2>4, <3>3, CallsDiffer
    <3>4. \A d \in TopUps : d # c
      BY <2>4, CallsDiffer
    <3>. QED
      BY <2>2, <2>3, <3>1, <3>2, <3>3, <3>4
  <2>5. ASSUME c \in TopUps
        PROVE  /\ \A s \in Requests : WillPay(s)'
               /\ \A d \in TopUps : TopUpCurrent(d)'
    <3> DEFINE u == call[c].user
    <3>1. call[c].op = "credit" /\ call[c].stage # "idle" /\ u \in Users /\ call'[c].user = u
      BY <1>1, <2>1, <2>5, StepFrame DEF AllFit, TopUpsFit, Running, IInv, TypeOK, Call
    <3>2. /\ \A v \in Users : balance[v] # NoWallet /\ v # u => balance'[v] = balance[v]
          /\ call[c].stage # "save" /\ balance[u] # NoWallet => balance'[u] = balance[u]
          /\ call[c].stage = "save" /\ balance[u] = call[c].before =>
                 balance'[u] # NoWallet /\ balance'[u] >= balance[u]
          /\ call'[c].stage = "save" => balance'[u] # NoWallet /\ balance'[u] = call'[c].before
      BY <2>1, <3>1, CreditStep
    <3>3. TopUpCurrent(c) /\ TopUpCurrent(c)'
      BY <1>2, <2>5, <3>1, <3>2 DEF TopUpCurrent
    <3>4. Grows
      <4>1. ASSUME NEW v \in Users, balance[v] # NoWallet
            PROVE  balance'[v] # NoWallet /\ balance'[v] >= balance[v]
        <5>1. balance[v] \in Int
          BY <4>1 DEF IInv, TypeOK
        <5>2. balance'[v] = balance[v] \/ (balance'[v] # NoWallet /\ balance'[v] >= balance[v])
          BY <3>1, <3>2, <3>3, <4>1 DEF TopUpCurrent
        <5>. QED
          BY <4>1, <5>1, <5>2
      <4>. QED
        BY <4>1 DEF Grows
    <3>5. \A s \in Requests : c # Check(s) /\ c # Charge(s)
      BY <2>5, CallsDiffer
    <3>6. \A d \in TopUps : d = c
      BY <2>5
    <3>. QED
      BY <2>2, <3>3, <3>4, <3>5, <3>6
  <2>. QED
    BY <2>4, <2>5, CallsDiffer
<1>8. ASSUME UNCHANGED <<vars, req>>
      PROVE  /\ \A s \in Requests : WillPay(s)'
             /\ \A d \in TopUps : TopUpCurrent(d)'
  <2>1. UNCHANGED <<call, balance, usage, req>>
    BY <1>8 DEF vars, tables
  <2>. QED
    BY <1>2, <2>1, GrowsSame, WillSame, TopUpSame
<1>9. ASSUME NEW m \in Admins, AdminStep(m) PROVE UNCHANGED <<vars, req>>
  BY <1>9 DEF AdminStep, AdminReads, AdminSaves, AdminDeletes, AdminCreates
<1>10. ASSUME UNCHANGED bvars PROVE UNCHANGED <<vars, req>>
  BY <1>10 DEF bvars
<1>. QED
  BY <1>5, <1>6, <1>7, <1>8, <1>9, <1>10, StepCases

\* When nothing is at work, what was begun has ended.
LEMMA AtRest ==
    ASSUME IInv, AllFit, Quiet, NEW r \in Requests
    PROVE  /\ req[r].worked => req[r].stage = "settled"
           /\ MaxFaults = 0 /\ call[Charge(r)].saved => Charged(r)
<1>1. CallsFit(r) /\ Charge(r) \in Calls /\ ~RequestRunning(r)
  BY RequestCalls DEF AllFit, Quiet
<1>2. call[Charge(r)].stage \notin Running
  BY <1>1 DEF Quiet, InFlight
<1>3. MaxFaults = 0 => faults = 0
  BY DEF IInv, TypeOK
<1>. QED
  BY <1>1, <1>2, <1>3 DEF CallsFit, RequestRunning, Running

\* Burst of requests, at most one top-up, no administrator and no rejected
\* query: of the work that was done, some was charged.
THEOREM BurstPays ==
    ASSUME MaxFaults = 0, \A c, d \in TopUps : c = d
    PROVE  BSpec => []SomebodyPays
<1>1. BInit => BurstInv
  <2>1. BInit => \A c \in TopUps : TopUpCurrent(c)
    BY BillableAssumption DEF BInit, TopUpCurrent, IdleCall
  <2>. QED
    BY <2>1, FitInit DEF BurstInv
<1>2. (IInv /\ WorkInv) /\ (IInv /\ WorkInv)' /\ BurstInv /\ [BNext]_bvars => BurstInv'
  BY BurstNext
<1>3. IInv /\ WorkInv /\ BurstInv => SomebodyPays
  <2> SUFFICES ASSUME IInv, WorkInv, BurstInv, Quiet, Untouched,
                      NEW r \in Requests, req[r].worked
               PROVE  \E s \in Requests : req[s].worked /\ Charged(s)
    BY DEF SomebodyPays, Untouched
  <2>1. AllFit
    BY DEF BurstInv
  <2>2. CASE NobodyPaid
    <3>1. WillPay(r) /\ req[r].stage = "settled"
      BY <2>1, <2>2, AtRest DEF BurstInv
    <3>. QED
      BY <3>1 DEF WillPay
  <2>3. ASSUME NEW s \in Requests, call[Charge(s)].saved
        PROVE  req[s].worked /\ Charged(s)
    <3>1. Charged(s) /\ CallsFit(s) /\ Charge(s) \in Calls
      BY <2>1, <2>3, AtRest, RequestCalls DEF AllFit
    <3>2. call[Charge(s)].stage # "idle" /\ call[Charge(s)].op = "deduct"
      BY <2>3, <3>1 DEF CallsFit
    <3>3. PICK q \in Requests : Charge(s) = Charge(q) /\ req[q].worked
      BY <3>1, <3>2 DEF WorkInv, OnlyWorkIsCharged
    <3>. QED
      BY <3>1, <3>3, CallsDiffer
  <2>. QED
    BY <2>2, <2>3 DEF NobodyPaid
<1>. QED
  BY <1>1, <1>2, <1>3, BillableInv, PTL DEF BSpec

-----------------------------------------------------------------------------
(* Requests, top-ups and administrators that wait for each other *)

LEMMA TurnInit == BInit => TurnInv
<1>1. BInit => /\ \A r \in Requests : ~RequestRunning(r)
               /\ \A m \in Admins : ~AdminRunning(m)
  BY DEF BInit, RequestRunning, AdminRunning
<1>. QED
  BY <1>1, FitInit DEF TurnInv, OneAtATime

\* What begins, begins when nothing else is at work.
LEMMA TurnNext ==
    ASSUME IInv, WorkInv, TurnInv, MaxFaults = 0, IInv',
           [MCNext]_<<bvars, overlapped>>
    PROVE  TurnInv'
<1>0. [BNext]_bvars /\ (UNCHANGED <<bvars, overlapped>> \/
          overlapped' = (overlapped \/ (Begins /\ ~Quiet)))
  BY DEF MCNext
<1>1. AllFit /\ AllFit'
  BY <1>0, FitNext DEF TurnInv
<1> SUFFICES ASSUME ~overlapped'
             PROVE  /\ OneAtATime'
                    /\ \A r \in Requests : WillPay(r)'
                    /\ \A m \in Admins : AdminRunning(m)' => admin'[m].read = action'
  BY <1>1 DEF TurnInv
<1>2. /\ ~overlapped /\ (Begins => Quiet \/ UNCHANGED bvars)
      /\ OneAtATime
      /\ \A r \in Requests : WillPay(r)
      /\ \A m \in Admins : AdminRunning(m) => admin[m].read = action
  <2>1. UNCHANGED <<bvars, overlapped>> => ~overlapped /\ UNCHANGED bvars
    OBVIOUS
  <2>2. (overlapped' = (overlapped \/ (Begins /\ ~Quiet))) => ~overlapped /\ ~(Begins /\ ~Quiet)
    BY Zenon
  <2>. QED
    BY <1>0, <2>1, <2>2 DEF TurnInv
<1>3. /\ faults' = 0
      /\ \A c \in TopUps : c \in Calls
      /\ req \in [Requests -> BillableRequest]
      /\ admin \in [Admins -> AdminCall]
  BY BillableAssumption DEF IInv, TypeOK, WorkInv, BTypeOK
<1> DEFINE IsRunning(c) == call[c].stage \in Running
           Alone == /\ OneAtATime'
                    /\ \A m \in Admins : AdminRunning(m)' => admin'[m].read = action'
<1>4. \A c \in TopUps : c \in InFlight <=> IsRunning(c)
  BY <1>3 DEF InFlight
<1>5. ASSUME NEW r \in Requests, RequestStep(r)
      PROVE  Alone /\ \A s \in Requests : WillPay(s)'
  <2>1. WillPay(r)' /\ UNCHANGED <<action, balance, usage, admin>> /\ OnlyMoves(r)
    BY <1>1, <1>2, <1>5, WillRequest, FitRequest
  <2>2. \A d \in Calls \ {Check(r), Charge(r)} : call'[d] = call[d]
    BY <1>5, RequestFrame
  <2>3. ASSUME NEW s \in Requests, s # r
        PROVE  WillPay(s)' /\ req'[s] = req[s]
    <3>1. call'[Check(s)] = call[Check(s)] /\ call'[Charge(s)] = call[Charge(s)]
      BY <2>2, <2>3, CallsDiffer, RequestCalls
    <3>2. req'[s] = req[s]
      BY <2>1, <2>3 DEF OnlyMoves
    <3>. QED
      BY <1>2, <2>1, <3>1, <3>2, GrowsSame, WillSame
  <2>4. \A c \in TopUps : c \in InFlight' <=> c \in InFlight
    <3>1. \A c \in TopUps : call'[c] = call[c]
      BY <1>3, <2>2, CallsDiffer
    <3>. QED
      BY <3>1 DEF InFlight
  <2>5. /\ \A m \in Admins : ~AdminRunning(m)
        /\ \A c \in TopUps : c \notin InFlight
        /\ \A s \in Requests : RequestRunning(s) => s = r
    <3>1. CASE RequestRunning(r)
      BY <1>2, <3>1 DEF OneAtATime
    <3>2. CASE ~RequestRunning(r)
      <4>1. req[r].stage = "idle" /\ req'[r].stage = "guard"
        BY <1>3, <1>5, <3>2 DEF RequestStep, Arrive, GuardReadsAction, GuardDecides, HandlerSucceeds,
           HandlerThrows, DeductReadsAction, Settle, RequestRunning, BillableRequest
      <4>2. Begins /\ ~UNCHANGED bvars
        BY <4>1 DEF Begins, bvars
      <4>. QED
        BY <1>2, <4>2 DEF Quiet
    <3>. QED
      BY <3>1, <3>2
  <2>6. /\ \A m \in Admins : ~AdminRunning(m)'
        /\ \A c \in TopUps : c \notin InFlight'
        /\ \A s \in Requests : RequestRunning(s)' => s = r
    BY <2>1, <2>3, <2>4, <2>5 DEF AdminRunning, RequestRunning
  <2>. QED
    BY <2>1, <2>3, <2>6 DEF OneAtATime
<1>6. ASSUME NEW c \in TopUps, NEW u \in Users, NEW a \in Amounts, TopUp(c, u, a)
      PROVE  Alone /\ \A s \in Requests : WillPay(s)'
  <2>1. /\ call[c].stage = "idle" /\ call'[c].stage = "find"
        /\ UNCHANGED <<usage, req, admin>>
    BY <1>6, TopUpFrame
  <2>2. Begins /\ ~UNCHANGED bvars
    BY <2>1 DEF Begins, bvars, vars
  <2>3. (\A s \in Requests : ~RequestRunning(s)) /\ \A m \in Admins : ~AdminRunning(m)
    BY <1>2, <2>2 DEF Quiet
  <2>4. (\A s \in Requests : ~RequestRunning(s)') /\ \A m \in Admins : ~AdminRunning(m)'
    BY <2>1, <2>3 DEF RequestRunning, AdminRunning
  <2>5. \A s \in Requests : WillPay(s)'
    BY <1>2, <2>1, <2>3, WillRest
  <2>. QED
    BY <2>4, <2>5 DEF OneAtATime
<1>7. ASSUME NEW c \in Calls, CallStep(c)
      PROVE  Alone /\ \A s \in Requests : WillPay(s)'
  <2>1. /\ Step(c) /\ UNCHANGED <<req, action, admin>> /\ usage \subseteq usage'
        /\ \A d \in Calls \ {c} : call'[d] = call[d]
        /\ IsRunning(c)
    BY <1>7, StepFrame DEF CallStep
  <2>2. \A d \in TopUps : d \in InFlight' => d \in InFlight
    BY <1>3, <2>1 DEF InFlight
  <2>3. Alone
    BY <1>2, <2>1, <2>2 DEF OneAtATime, RequestRunning, AdminRunning
  <2>4. ASSUME NEW r \in Requests, c = Check(r) \/ c = Charge(r)
        PROVE  \A s \in Requests : WillPay(s)'
    <3>1. WillPay(r)'
      <4>1. CASE c = Check(r)
        BY <1>1, <1>2, <2>1, <4>1, WillOpen
      <4>2. CASE c = Charge(r)
        BY <1>1, <1>2, <1>3, <2>1, <4>2, WillCharge
      <4>. QED
        BY <2>4, <4>1, <4>2
    <3>2. RequestRunning(r)
      <4>1. req[r].stage \in {"checking", "charging"}
        BY <1>1, <2>1, <2>4 DEF AllFit, CallsFit
      <4>. QED
        BY <4>1 DEF RequestRunning
    <3>3. ASSUME NEW s \in Requests, s # r
          PROVE  WillPay(s)'
      <4>1. ~RequestRunning(s)
        BY <1>2, <3>2, <3>3 DEF OneAtATime
      <4>. QED
        BY <1>2, <2>1, <4>1, WillRest
    <3>. QED
      BY <3>1, <3>3
  <2>5. ASSUME c \in TopUps
        PROVE  \A s \in Requests : WillPay(s)'
    <3>1. \A s \in Requests : ~RequestRunning(s)
      BY <1>2, <1>4, <2>1, <2>5 DEF OneAtATime
    <3>. QED
      BY <1>2, <2>1, <3>1, WillRest
  <2>. QED
    BY <2>3, <2>4, <2>5, CallsDiffer
<1>8. ASSUME NEW m \in Admins, AdminStep(m)
      PROVE  Alone /\ \A s \in Requests : WillPay(s)'
  <2>1. UNCHANGED <<vars, req>> /\ UNCHANGED <<usage, call>>
    BY <1>8 DEF AdminStep, AdminReads, AdminSaves, AdminDeletes, AdminCreates, vars, tables
  <2>2. /\ \A n \in Admins : n # m => admin'[n] = admin[n]
        /\ admin'[m].stage = "done" \/ (admin'[m].stage = "save" /\ admin'[m].read = action')
    <3>1. ASSUME AdminReads(m)
          PROVE  /\ \A n \in Admins : n # m => admin'[n] = admin[n]
                 /\ admin'[m].stage = "save" /\ admin'[m].read = action'
      <4>1. UNCHANGED action
        BY <3>1 DEF AdminReads
      <4>2. PICK cost, active : admin' = [admin EXCEPT ![m] =
               [stage |-> "save", read |-> action,
                write |-> [action EXCEPT !.cost = cost, !.active = active]]]
        BY <3>1 DEF AdminReads
      <4>. QED
        BY <1>3, <4>1, <4>2
    <3>2. ASSUME AdminSaves(m) \/ AdminDeletes(m) \/ AdminCreates(m)
          PROVE  admin'[m].stage = "done" /\ \A n \in Admins : n # m => admin'[n] = admin[n]
      BY <1>3, <3>2 DEF AdminSaves, AdminDeletes, AdminCreates, AdminCall
    <3>. QED
      BY <1>8, <3>1, <3>2 DEF AdminStep
  <2>3. (\A s \in Requests : ~RequestRunning(s)) /\ \A n \in Admins : AdminRunning(n) => n = m
    <3>1. CASE AdminRunning(m)
      BY <1>2, <3>1 DEF OneAtATime
    <3>2. CASE ~AdminRunning(m)
      <4>1. admin[m].stage = "idle"
        BY <1>8, <3>2 DEF AdminStep, AdminReads, AdminSaves, AdminDeletes, AdminCreates
      <4>2. Begins /\ ~UNCHANGED bvars
        BY <2>2, <4>1 DEF Begins, bvars
      <4>. QED
        BY <1>2, <4>2 DEF Quiet
    <3>. QED
      BY <3>1, <3>2
  <2>4. /\ \A s \in Requests : ~RequestRunning(s)'
        /\ \A n \in Admins : AdminRunning(n)' => n = m
    BY <2>1, <2>2, <2>3 DEF RequestRunning, AdminRunning
  <2>5. \A s \in Requests : WillPay(s)'
    BY <1>2, <2>1, <2>3, WillRest
  <2>6. \A n \in Admins : AdminRunning(n)' => admin'[n].read = action'
    BY <2>2, <2>4 DEF AdminRunning
  <2>. QED
    BY <2>4, <2>5, <2>6 DEF OneAtATime
<1>9. ASSUME UNCHANGED bvars
      PROVE  Alone /\ \A s \in Requests : WillPay(s)'
  <2>1. UNCHANGED <<call, balance, usage, req, admin, action>>
    BY <1>9 DEF bvars, vars, tables
  <2>2. Alone
    BY <1>2, <2>1 DEF OneAtATime, InFlight, RequestRunning, AdminRunning
  <2>. QED
    BY <1>2, <2>1, <2>2, GrowsSame, WillSame
<1>. QED
  BY <1>0, <1>5, <1>6, <1>7, <1>8, <1>9, StepCases

LEMMA TurnsTaken ==
    ASSUME MaxFaults = 0
    PROVE  MCSpec => [](IInv /\ WorkInv /\ TurnInv)
<1>1. MCInit => IInv /\ WorkInv /\ TurnInv
  BY BillableInit, WorkInit, TurnInit DEF MCInit
<1>2. IInv /\ WorkInv /\ TurnInv /\ [MCNext]_<<bvars, overlapped>> => IInv' /\ WorkInv' /\ TurnInv'
  <2>1. [MCNext]_<<bvars, overlapped>> => [BNext]_bvars
    BY DEF MCNext
  <2>. QED
    BY <2>1, WorkNext, TurnNext
<1>. QED
  BY <1>1, <1>2, PTL DEF MCSpec

\* Callers that wait for each other: every piece of work that was done has been
\* charged when all is quiet, whatever administrators do to the price between.
THEOREM PaidInTurn ==
    ASSUME MaxFaults = 0
    PROVE  MCSpec => []WorkIsPaidInTurn
<1>1. IInv /\ TurnInv => WorkIsPaidInTurn
  <2> SUFFICES ASSUME IInv, TurnInv, ~overlapped, Quiet, NEW r \in Requests, req[r].worked
               PROVE  Charged(r)
    BY DEF WorkIsPaidInTurn, WorkIsPaid
  <2>1. WillPay(r) /\ req[r].stage = "settled"
    BY AtRest DEF TurnInv
  <2>. QED
    BY <2>1 DEF WillPay
<1>. QED
  BY <1>1, TurnsTaken, PTL

\* A save of an administrator whose read was not overtaken keeps the fields it
\* was not asked to change.
THEOREM FieldsKeptInTurn ==
    ASSUME MaxFaults = 0
    PROVE  MCSpec => OnlyProvidedFieldsInTurn
<1>1. IInv /\ WorkInv /\ TurnInv /\ [MCNext]_<<bvars, overlapped>>
          => [~overlapped' => ProvidedFields]_<<bvars, overlapped>>
  <2> SUFFICES ASSUME WorkInv, TurnInv, MCNext, ~overlapped', NEW m \in Admins,
                      AdminRunning(m), ~AdminRunning(m)',
                      action # NoAction, action.id = admin[m].write.id
               PROVE  /\ admin[m].write.cost = admin[m].read.cost => action'.cost = action.cost
                      /\ admin[m].write.active = admin[m].read.active
                             => action'.active = action.active
    BY DEF ProvidedFields
  <2>1. admin[m].read = action
    BY DEF TurnInv, MCNext
  <2>2. AdminSaves(m)
    <3>1. ASSUME NEW n \in Admins, AdminStep(n), n # m
          PROVE  admin'[m] = admin[m]
      BY <3>1 DEF AdminStep, AdminReads, AdminSaves, AdminDeletes, AdminCreates, WorkInv, BTypeOK
    <3>2. admin'[m] # admin[m]
      BY DEF AdminRunning
    <3>3. \E n \in Admins : AdminStep(n)
      BY <3>2, StepCases DEF MCNext, RequestStep, Arrive, GuardReadsAction, GuardDecides,
         HandlerSucceeds, HandlerThrows, DeductReadsAction, Settle, TopUp, CallStep, bvars
    <3>. QED
      BY <3>1, <3>2, <3>3 DEF AdminStep, AdminReads, AdminDeletes, AdminCreates, AdminRunning
  <2>3. action' = admin[m].write
    BY <2>2 DEF AdminSaves
  <2>. QED
    BY <2>1, <2>3
<1>. QED
  BY <1>1, TurnsTaken, PTL DEF MCSpec, OnlyProvidedFieldsInTurn

-----------------------------------------------------------------------------
(* Payment *)

\* To the wallets, a top-up is nothing but calls of WalletService.
LEMMA PaymentStep ==
    ASSUME PTypeOK, [PNext]_pvars
    PROVE  [Next]_vars
<1>0. 0 \in Amounts /\ "open" \in Ops /\ "credit" \in Ops
  BY PaymentAssumption DEF Ops
<1>1. ASSUME NEW h \in Creators, NEW p \in Payments, TopUpBegins(h, p) PROVE Next
  BY <1>0, <1>1, PaymentAssumption DEF TopUpBegins, Next
<1>2. ASSUME NEW h \in Hooks, Credit(h) PROVE Next
  <2>1. handler[h].pay \in Payments
    BY DEF PTypeOK, Handlers, Handler
  <2>. QED
    BY <1>0, <1>2, <2>1, PaymentAssumption DEF Credit, Next
<1>3. ASSUME NEW c \in Calls, WalletStep(c) PROVE Next
  BY <1>3 DEF WalletStep, Next
<1>4. CASE PNext
  BY <1>1, <1>2, <1>3, <1>4
     DEF PNext, ChargeEnds, Deliver, DeliverUnverified, PollBegins, HandlerStep, TopUpInserts, TopUpHasNoWallet,
         IntentCreated, IntentRefused, TopUpLinks, TopUpGivesUp, Mark, Find, SaveEvent,
         Credited, ConfirmFind, Confirm, ConfirmSave, ConfirmFail, PollFind, Poll, PollSave,
         HandlerFault
<1>5. CASE UNCHANGED pvars
  BY <1>5 DEF pvars
<1>. QED
  BY <1>4, <1>5

LEMMA PaymentInit == PInit => PayInv
<1> SUFFICES ASSUME PInit PROVE PayInv
  OBVIOUS
<1>1. (CHOOSE p \in Payments : TRUE) \in Payments
  BY PaymentAssumption
<1>2. PTypeOK
  BY <1>1, WalletAssumption DEF PInit, PTypeOK, Handler, Statuses
<1>3. \A h \in Handlers : /\ At(h, "idle") /\ ~handler[h].paid
                          /\ handler[h].read = "none"
  BY DEF PInit, At
<1>4. OneCreator
  BY <1>3 DEF PInit, OneCreator, At, Handlers
<1>5. \A c \in Calls : call[c].op = "open"
  BY IdleCallOK DEF PInit, Init
<1>6. CallsKnow
  BY <1>5, PaymentAssumption DEF CallsKnow, CreditedOnlyPaid
<1>7. KnowsPaid
  BY <1>3, PaymentAssumption DEF PInit, KnowsPaid, CompletedOnlyPaid, At, Handlers, Genuine
<1>. QED
  BY <1>2, <1>4, <1>6, <1>7 DEF PayInv

\* A handler goes on: it stays with its payment and its notification.
GoesOn(h, s, r) ==
    /\ handler' \in [Handlers -> Handler]
    /\ \A g \in Handlers \ {h} : handler'[g] = handler[g]
    /\ handler'[h].stage = s
    /\ handler'[h].read = r
    /\ handler'[h].pay = handler[h].pay
    /\ handler'[h].paid = handler[h].paid

LEMMA GotoGoesOn ==
    ASSUME PTypeOK, NEW h \in Handlers,
           NEW s \in {"idle", "answered"} \cup CreatorStages \cup HookStages \cup PollerStages,
           Goto(h, s)
    PROVE  GoesOn(h, s, handler[h].read)
BY DEF PTypeOK, Goto, GoesOn, Handler

LEMMA ReadGoesOn ==
    ASSUME PTypeOK, NEW h \in Handlers, NEW r \in Statuses,
           NEW s \in {"idle", "answered"} \cup CreatorStages \cup HookStages \cup PollerStages,
           handler' = [handler EXCEPT ![h].stage = s, ![h].read = r]
    PROVE  GoesOn(h, s, r)
BY DEF PTypeOK, GoesOn, Handler

LEMMA StartMoves ==
    ASSUME PTypeOK, NEW h \in Handlers, NEW p \in Payments, NEW e \in BOOLEAN,
           NEW s \in CreatorStages \cup HookStages \cup PollerStages,
           Starts(h, p, s, e)
    PROVE  /\ handler' \in [Handlers -> Handler]
           /\ \A g \in Handlers \ {h} : handler'[g] = handler[g]
           /\ handler'[h] = [stage |-> s, pay |-> p, read |-> "none", paid |-> e]
           /\ handler[h].stage = "idle"
<1> DEFINE q == [stage |-> s, pay |-> p, read |-> "none", paid |-> e]
<1>1. q \in Handler
  BY DEF Handler, Statuses
<1>2. handler' = [handler EXCEPT ![h] = q]
  BY DEF Starts
<1>. QED
  BY <1>1, <1>2 DEF PTypeOK, Starts, At

\* What a step of a top-up, a webhook, a return or status request does to the
\* handlers: h goes on, and no other handler moves.
LEMMA StepGoesOn ==
    ASSUME PTypeOK, NEW h \in Handlers, HandlerStep(h) \/ HandlerFault(h)
    PROVE  \E s \in {"answered"} \cup CreatorStages \cup HookStages \cup PollerStages,
              r \in Statuses : GoesOn(h, s, r)
<1>0. /\ handler[h] \in Handler
      /\ handler[h].read \in Statuses /\ handler[h].pay \in Payments
      /\ tx[handler[h].pay] \in Statuses
      /\ "pending" \in Statuses
  BY DEF PTypeOK, Handler, Statuses
<1>1. ASSUME \E s \in {"answered"} \cup CreatorStages \cup HookStages \cup PollerStages :
                Goto(h, s)
      PROVE  \E s \in {"answered"} \cup CreatorStages \cup HookStages \cup PollerStages,
              r \in Statuses : GoesOn(h, s, r)
  BY <1>0, <1>1, GotoGoesOn
<1>2. CASE TopUpInserts(h) \/ TopUpHasNoWallet(h) \/ IntentCreated(h) \/ IntentRefused(h)
           \/ TopUpGivesUp(h) \/ Mark(h) \/ Find(h) \/ SaveEvent(h) \/ Credit(h)
           \/ Credited(h) \/ ConfirmFind(h) \/ ConfirmSave(h) \/ ConfirmFail(h)
           \/ PollSave(h)
  BY <1>1, <1>2
     DEF TopUpInserts, TopUpHasNoWallet, IntentCreated, IntentRefused, TopUpGivesUp, Mark,
         Find, SaveEvent, Credit, Credited, ConfirmFind, ConfirmSave, ConfirmFail, PollSave,
         CreatorStages, HookStages, PollerStages
<1>3. CASE HandlerFault(h)
  BY <1>1, <1>3 DEF HandlerFault, CreatorStages, PollerStages
<1>4. CASE TopUpLinks(h)
  BY <1>0, <1>4, ReadGoesOn DEF TopUpLinks
<1>5. CASE Confirm(h)
  <2>1. PICK r \in Answers(handler[h].pay) :
            handler' = [handler EXCEPT ![h].stage = "confirmsave", ![h].read = r]
    BY <1>5 DEF Confirm
  <2>2. r \in Statuses
    BY DEF Answers, Statuses
  <2>. QED
    BY <2>1, <2>2, ReadGoesOn DEF PollerStages
<1>6. CASE PollFind(h)
  BY <1>0, <1>6, ReadGoesOn DEF PollFind, PollerStages
<1>7. CASE Poll(h)
  <2>1. PICK r \in Answers(handler[h].pay), s \in {"answered", "pollsave"} :
            handler' = [handler EXCEPT ![h].stage = s, ![h].read = r]
    BY <1>7 DEF Poll
  <2>2. r \in Statuses
    BY DEF Answers, Statuses
  <2>. QED
    BY <2>1, <2>2, ReadGoesOn DEF PollerStages
<1>. QED
  BY <1>2, <1>3, <1>4, <1>5, <1>6, <1>7 DEF HandlerStep

\* A handler that has started stays with its payment and its notification.
LEMMA HandlersKeep ==
    ASSUME PTypeOK, [PNext]_pvars, NEW h \in Handlers
    PROVE  handler[h].stage # "idle" =>
               /\ handler'[h].stage # "idle" /\ handler'[h].pay = handler[h].pay
               /\ handler'[h].paid = handler[h].paid
<1>1. ASSUME NEW g \in Handlers, HandlerStep(g) \/ HandlerFault(g)
      PROVE  handler[h].stage # "idle" =>
               /\ handler'[h].stage # "idle" /\ handler'[h].pay = handler[h].pay
               /\ handler'[h].paid = handler[h].paid
  <2>1. PICK s \in {"answered"} \cup CreatorStages \cup HookStages \cup PollerStages,
             r \in Statuses : GoesOn(g, s, r)
    BY <1>1, StepGoesOn
  <2>2. s # "idle"
    BY DEF CreatorStages, HookStages, PollerStages
  <2>. QED
    BY <2>1, <2>2 DEF GoesOn
<1>2. ASSUME NEW g \in Handlers, NEW p \in Payments, NEW e \in BOOLEAN,
             NEW s \in CreatorStages \cup HookStages \cup PollerStages, Starts(g, p, s, e)
      PROVE  handler[h].stage # "idle" => handler'[h] = handler[h]
  BY <1>2, StartMoves
<1>3. ASSUME NEW g \in Handlers, NEW p \in Payments, TopUpBegins(g, p)
      PROVE  handler[h].stage # "idle" => handler'[h] = handler[h]
  <2>1. Starts(g, p, "wallet", FALSE) /\ "wallet" \in CreatorStages /\ FALSE \in BOOLEAN
    BY <1>3 DEF TopUpBegins, CreatorStages
  <2>. QED
    BY <1>2, <2>1, Zenon
<1>4. ASSUME NEW g \in Handlers, NEW p \in Payments, Deliver(g, p) \/ DeliverUnverified(g, p)
      PROVE  handler[h].stage # "idle" => handler'[h] = handler[h]
  <2>1. PICK s \in {"mark", "find"}, e \in BOOLEAN : Starts(g, p, s, e)
    BY <1>4 DEF Deliver, DeliverUnverified
  <2>2. s \in HookStages
    BY DEF HookStages
  <2>. QED
    BY <1>2, <2>1, <2>2
<1>5. ASSUME NEW g \in Handlers, NEW p \in Payments, PollBegins(g, p)
      PROVE  handler[h].stage # "idle" => handler'[h] = handler[h]
  <2>1. PICK s \in {"confirmfind", "pollfind"}, e \in BOOLEAN : Starts(g, p, s, e)
    BY <1>5 DEF PollBegins
  <2>2. s \in PollerStages
    BY DEF PollerStages
  <2>. QED
    BY <1>2, <2>1, <2>2
<1>6. Hooks \subseteq Handlers /\ Creators \subseteq Handlers /\ Pollers \subseteq Handlers
  BY DEF Handlers
<1>. QED
  BY <1>1, <1>3, <1>4, <1>5, <1>6 DEF PNext, ChargeEnds, WalletStep, payments, pvars

LEMMA PTypeNext ==
    ASSUME PTypeOK, [PNext]_pvars
    PROVE  PTypeOK'
<1>1. handler' \in [Handlers -> Handler]
  <2>1. ASSUME NEW h \in Handlers, HandlerStep(h) \/ HandlerFault(h)
        PROVE  handler' \in [Handlers -> Handler]
    BY <2>1, StepGoesOn DEF GoesOn
  <2>2. ASSUME NEW h \in Creators, NEW p \in Payments, TopUpBegins(h, p)
        PROVE  handler' \in [Handlers -> Handler]
    BY <2>2, StartMoves DEF TopUpBegins, CreatorStages, Handlers
  <2>3. ASSUME NEW h \in Hooks, NEW p \in Payments, Deliver(h, p) \/ DeliverUnverified(h, p)
        PROVE  handler' \in [Handlers -> Handler]
    BY <2>3, StartMoves DEF Deliver, DeliverUnverified, HookStages, Handlers
  <2>4. ASSUME NEW h \in Pollers, NEW p \in Payments, PollBegins(h, p)
        PROVE  handler' \in [Handlers -> Handler]
    BY <2>4, StartMoves DEF PollBegins, PollerStages, Handlers
  <2>5. CASE UNCHANGED handler
    BY <2>5 DEF PTypeOK
  <2>. QED
    BY <2>1, <2>2, <2>3, <2>4, <2>5 DEF PNext, ChargeEnds, WalletStep, payments, pvars
<1>2. \A h \in Handlers : handler[h].pay \in Payments /\ handler[h].read \in Statuses
  BY DEF PTypeOK, Handler
<1>3. tx' \in [Payments -> Statuses]
  <2>1. ASSUME NEW h \in Handlers, NEW status \in Statuses, SaveTx(h, status)
        PROVE  tx' \in [Payments -> Statuses]
    BY <2>1, <1>2 DEF SaveTx, PTypeOK
  <2>2. \A e \in BOOLEAN : EventStatus(e) \in Statuses
    BY DEF EventStatus, Statuses
  <2>3. \A h \in Handlers : handler[h].paid \in BOOLEAN
    BY DEF PTypeOK, Handler
  <2>4. "pending" \in Statuses /\ "failed" \in Statuses
    BY DEF Statuses
  <2>5. CASE UNCHANGED tx
    BY <2>5 DEF PTypeOK
  <2>6. ASSUME NEW h \in Handlers, HandlerStep(h)
        PROVE  tx' \in [Payments -> Statuses]
    BY <1>2, <2>1, <2>2, <2>3, <2>4, <2>5, <2>6
       DEF HandlerStep, TopUpInserts, TopUpHasNoWallet, IntentCreated, IntentRefused,
           TopUpLinks, TopUpGivesUp, Mark, Find, SaveEvent, Credit, Credited, ConfirmFind,
           Confirm, ConfirmSave, ConfirmFail, PollFind, Poll, PollSave
  <2>. QED
    BY <2>5, <2>6 DEF PNext, TopUpBegins, ChargeEnds, Deliver, DeliverUnverified, PollBegins, HandlerFault,
       WalletStep, payments, pvars
<1>4. charge' \in [Payments -> {"none", "open", "paid", "declined"}]
  <2>1. ASSUME NEW h \in Handlers, IntentCreated(h)
        PROVE  charge' \in [Payments -> {"none", "open", "paid", "declined"}]
    BY <2>1, <1>2 DEF IntentCreated, PTypeOK
  <2>2. ASSUME NEW p \in Payments, NEW outcome \in {"paid", "declined"},
               ChargeEnds(p, outcome)
        PROVE  charge' \in [Payments -> {"none", "open", "paid", "declined"}]
    BY <2>2 DEF ChargeEnds, PTypeOK
  <2>3. CASE UNCHANGED charge
    BY <2>3 DEF PTypeOK
  <2>. QED
    BY <2>1, <2>2, <2>3
       DEF PNext, HandlerStep, TopUpInserts, TopUpHasNoWallet, IntentRefused,
           TopUpLinks, TopUpGivesUp, Mark, Find, SaveEvent, Credit, Credited, ConfirmFind,
           Confirm, ConfirmSave, ConfirmFail, PollFind, Poll, PollSave,
           TopUpBegins, Deliver, DeliverUnverified, PollBegins, HandlerFault, WalletStep, payments, pvars
<1>5. told' \subseteq Payments
  <2>1. ASSUME NEW h \in Handlers, AnswersSuccess(h)
        PROVE  told' \subseteq Payments
    BY <2>1, <1>2 DEF AnswersSuccess, PTypeOK
  <2>2. CASE UNCHANGED told
    BY <2>2 DEF PTypeOK
  <2>. QED
    BY <2>1, <2>2
       DEF PNext, HandlerStep, TopUpInserts, TopUpHasNoWallet, IntentCreated, IntentRefused,
           TopUpLinks, TopUpGivesUp, Mark, Find, SaveEvent, Credit, Credited, ConfirmFind,
           Confirm, ConfirmSave, ConfirmFail, PollFind, Poll, PollSave, ChargeEnds,
           TopUpBegins, Deliver, DeliverUnverified, PollBegins, HandlerFault, WalletStep, payments, pvars
<1>6. errors' \in 0 .. MaxFaults
  <2>1. ASSUME NEW h \in Handlers, HandlerFault(h)
        PROVE  errors' \in 0 .. MaxFaults
    BY <2>1, WalletAssumption DEF HandlerFault, PTypeOK
  <2>2. CASE UNCHANGED errors
    BY <2>2 DEF PTypeOK
  <2>. QED
    BY <2>1, <2>2
       DEF PNext, HandlerStep, TopUpInserts, TopUpHasNoWallet, IntentCreated, IntentRefused,
           TopUpLinks, TopUpGivesUp, Mark, Find, SaveEvent, Credit, Credited, ConfirmFind,
           Confirm, ConfirmSave, ConfirmFail, PollFind, Poll, PollSave, ChargeEnds,
           TopUpBegins, Deliver, DeliverUnverified, PollBegins, WalletStep, payments, pvars
<1>. QED
  BY <1>1, <1>3, <1>4, <1>5, <1>6 DEF PTypeOK

LEMMA OneCreatorNext ==
    ASSUME PTypeOK, OneCreator, [PNext]_pvars
    PROVE  OneCreator'
<1>0. /\ Creators \subseteq Handlers /\ Hooks \subseteq Handlers /\ Pollers \subseteq Handlers
      /\ Creators \cap (Hooks \cup Pollers) = {}
  BY PaymentAssumption DEF Handlers
<1>1. ASSUME UNCHANGED charge, \A g \in Creators : handler'[g] = handler[g]
      PROVE  OneCreator'
  BY <1>1 DEF OneCreator, At
<1>2. ASSUME NEW h \in Handlers, HandlerStep(h) \/ HandlerFault(h)
      PROVE  /\ handler[h].stage # "idle" /\ handler'[h].stage # "idle"
             /\ handler'[h].pay = handler[h].pay
             /\ \A g \in Handlers \ {h} : handler'[g] = handler[g]
             /\ handler'[h].stage \in {"wallet", "intent"} => TopUpInserts(h)
  <2>1. PICK s \in {"answered"} \cup CreatorStages \cup HookStages \cup PollerStages,
             r \in Statuses : GoesOn(h, s, r)
    BY <1>2, StepGoesOn
  <2>2. s # "idle"
    BY DEF CreatorStages, HookStages, PollerStages
  <2>3. handler[h].stage # "idle"
    BY <1>2 DEF At, Busy, HandlerStep, HandlerFault, TopUpInserts, TopUpHasNoWallet,
       IntentCreated, IntentRefused, TopUpLinks, TopUpGivesUp, Mark, Find, SaveEvent,
       Credit, Credited, ConfirmFind, Confirm, ConfirmSave, ConfirmFail, PollFind, Poll,
       PollSave
  <2>4. handler'[h].stage \in {"wallet", "intent"} => TopUpInserts(h)
    <3>1. \A x : Goto(h, x) => handler'[h].stage = x
      BY DEF Goto, PTypeOK, Handler
    <3>2. \A x, y : handler' = [handler EXCEPT ![h].stage = x, ![h].read = y]
                       => handler'[h].stage = x
      BY DEF PTypeOK, Handler
    <3>3. CASE TopUpLinks(h) \/ Confirm(h) \/ PollFind(h) \/ Poll(h)
      BY <3>2, <3>3 DEF TopUpLinks, Confirm, PollFind, Poll
    <3>4. CASE HandlerFault(h)
      BY <3>1, <3>4 DEF HandlerFault
    <3>5. CASE HandlerStep(h) /\ ~(TopUpLinks(h) \/ Confirm(h) \/ PollFind(h) \/ Poll(h))
      BY <3>1, <3>5 DEF HandlerStep, TopUpHasNoWallet, IntentCreated, IntentRefused,
         TopUpGivesUp, Mark, Find, SaveEvent, Credit, Credited, ConfirmFind,
         ConfirmSave, ConfirmFail, PollSave
    <3>. QED
      BY <1>2, <3>3, <3>4, <3>5
  <2>. QED
    BY <2>1, <2>2, <2>3, <2>4 DEF GoesOn
<1>3. ASSUME NEW h \in Creators, HandlerStep(h) \/ HandlerFault(h), UNCHANGED charge
      PROVE  OneCreator'
  <2>1. TopUpInserts(h) => handler[h].stage = "wallet"
    BY DEF TopUpInserts, At
  <2>. QED
    BY <1>0, <1>2, <1>3, <2>1 DEF OneCreator, At
<1>4. ASSUME NEW h \in Creators, IntentCreated(h)
      PROVE  OneCreator'
  <2>1. /\ handler[h].stage = "intent" /\ handler[h].pay \in Payments
        /\ charge' = [charge EXCEPT ![handler[h].pay] = "open"]
    BY <1>0, <1>4 DEF IntentCreated, At, PTypeOK, Handler
  <2>2. /\ handler'[h].stage = "link" /\ handler'[h].pay = handler[h].pay
        /\ \A g \in Creators \ {h} : handler'[g] = handler[g]
    BY <1>0, <1>4 DEF IntentCreated, Goto, PTypeOK, Handler
  <2>3. \A p \in Payments : p # handler[h].pay => charge'[p] = charge[p]
    BY <2>1 DEF PTypeOK
  <2>4. \A g \in Creators : handler[g].pay \in Payments /\ handler'[g].pay = handler[g].pay
    BY <1>0, <2>2 DEF PTypeOK, Handler
  <2>5. \A g \in Creators : handler'[g].stage = "idle" <=> handler[g].stage = "idle"
    BY <2>1, <2>2
  <2>6. \A g \in Creators : handler'[g].stage \in {"wallet", "intent"} =>
            g # h /\ handler[g].stage \in {"wallet", "intent"}
    BY <2>2
  <2>7. \A f, g \in Creators :
           (~At(f, "idle")' /\ ~At(g, "idle")' /\ handler'[f].pay = handler'[g].pay) => f = g
    BY <2>4, <2>5 DEF OneCreator, At
  <2>8. \A g \in Creators :
           handler'[g].stage \in {"wallet", "intent"} => charge'[handler'[g].pay] = "none"
    BY <2>1, <2>3, <2>4, <2>6 DEF OneCreator, At
  <2>9. \A p \in Payments : charge'[p] # "none" =>
           \E g \in Creators : handler'[g].pay = p /\ ~At(g, "idle")'
    BY <2>1, <2>3, <2>4, <2>5 DEF OneCreator, At
  <2>. QED
    BY <2>7, <2>8, <2>9 DEF OneCreator
<1>5. ASSUME NEW h \in Creators, NEW p \in Payments, TopUpBegins(h, p)
      PROVE  OneCreator'
  <2>0. Starts(h, p, "wallet", FALSE) /\ "wallet" \in CreatorStages /\ h \in Handlers
    BY <1>0, <1>5 DEF TopUpBegins, CreatorStages
  <2>1. /\ \A g \in Creators \ {h} : handler'[g] = handler[g]
        /\ handler'[h].stage = "wallet" /\ handler'[h].pay = p
        /\ handler[h].stage = "idle"
    <3>1. /\ \A g \in Handlers \ {h} : handler'[g] = handler[g]
          /\ handler'[h] = [stage |-> "wallet", pay |-> p, read |-> "none", paid |-> FALSE]
          /\ handler[h].stage = "idle"
      BY <2>0, StartMoves, Zenon
    <3>2. handler'[h].stage = "wallet" /\ handler'[h].pay = p
      BY <3>1
    <3>. QED
      BY <1>0, <3>1, <3>2
  <2>2. /\ UNCHANGED charge
        /\ \A g \in Creators : handler[g].pay = p => handler[g].stage = "idle"
    BY <1>5 DEF TopUpBegins, At
  <2>. QED
    BY <2>1, <2>2 DEF OneCreator, At
<1>6. ASSUME NEW p \in Payments, NEW outcome \in {"paid", "declined"}, ChargeEnds(p, outcome)
      PROVE  OneCreator'
  <2>1. charge[p] = "open" /\ charge' = [charge EXCEPT ![p] = outcome] /\ UNCHANGED handler
    BY <1>6 DEF ChargeEnds
  <2>. QED
    BY <1>0, <2>1 DEF OneCreator, At, PTypeOK, Handler
<1>7. ASSUME NEW h \in Hooks \cup Pollers, HandlerStep(h) \/ HandlerFault(h)
      PROVE  OneCreator'
  <2>1. UNCHANGED charge
    BY <1>0, <1>7 DEF HandlerStep, HandlerFault, Mark, Find, SaveEvent, Credit, Credited,
       ConfirmFind, Confirm, ConfirmSave, ConfirmFail, PollFind, Poll, PollSave
  <2>. QED
    BY <1>0, <1>1, <1>2, <1>7, <2>1
<1>8. ASSUME NEW h \in Hooks, NEW p \in Payments, Deliver(h, p) \/ DeliverUnverified(h, p)
      PROVE  OneCreator'
  <2>1. PICK s \in {"mark", "find"}, e \in BOOLEAN : Starts(h, p, s, e)
    BY <1>8 DEF Deliver, DeliverUnverified
  <2>2. s \in HookStages /\ UNCHANGED charge
    BY <1>8 DEF HookStages, Deliver, DeliverUnverified
  <2>3. \A g \in Handlers \ {h} : handler'[g] = handler[g]
    BY <1>0, <2>1, <2>2, StartMoves
  <2>. QED
    BY <1>0, <1>1, <2>2, <2>3
<1>9. ASSUME NEW h \in Pollers, NEW p \in Payments, PollBegins(h, p)
      PROVE  OneCreator'
  BY <1>0, <1>1, <1>9, StartMoves DEF PollBegins, PollerStages
<1>10. ASSUME NEW h \in Creators, HandlerStep(h) \/ HandlerFault(h)
       PROVE  IntentCreated(h) \/ UNCHANGED charge
  BY <1>0, <1>10 DEF HandlerStep, HandlerFault, TopUpInserts, TopUpHasNoWallet,
     IntentRefused, TopUpLinks, TopUpGivesUp
<1>11. CASE UNCHANGED payments
  BY <1>1, <1>11 DEF payments
<1>. QED
  BY <1>3, <1>4, <1>5, <1>6, <1>7, <1>8, <1>9, <1>10, <1>11
     DEF PNext, WalletStep, pvars, Handlers

\* A payment that was paid stays paid.
LEMMA PaidStays ==
    ASSUME PTypeOK, OneCreator, [PNext]_pvars
    PROVE  \A p \in Payments : charge[p] = "paid" => charge'[p] = "paid"
<1>1. ASSUME NEW h \in Creators, IntentCreated(h)
      PROVE  \A p \in Payments : charge[p] = "paid" => charge'[p] = "paid"
  <2>1. charge[handler[h].pay] = "none" /\ handler[h].pay \in Payments
    BY <1>1 DEF IntentCreated, At, OneCreator, PTypeOK, Handlers, Handler
  <2>. QED
    BY <1>1, <2>1 DEF IntentCreated, PTypeOK
<1>2. ASSUME NEW q \in Payments, NEW outcome \in {"paid", "declined"}, ChargeEnds(q, outcome)
      PROVE  \A p \in Payments : charge[p] = "paid" => charge'[p] = "paid"
  BY <1>2 DEF ChargeEnds, PTypeOK
<1>. QED
  BY <1>1, <1>2
     DEF PNext, HandlerStep, TopUpInserts, TopUpHasNoWallet, IntentRefused,
         TopUpLinks, TopUpGivesUp, Mark, Find, SaveEvent, Credit, Credited, ConfirmFind,
         Confirm, ConfirmSave, ConfirmFail, PollFind, Poll, PollSave,
         TopUpBegins, Deliver, DeliverUnverified, PollBegins, HandlerFault, WalletStep, payments, pvars

\* What the gateway or someone else has said of a payment.
Known(p) == charge[p] = "paid" \/ ClaimedPaid(p)

LEMMA KnownStays ==
    ASSUME PTypeOK, OneCreator, [PNext]_pvars, NEW p \in Payments, Known(p)
    PROVE  Known(p)'
<1>1. CASE charge[p] = "paid"
  BY <1>1, PaidStays DEF Known
<1>2. CASE ClaimedPaid(p)
  <2>1. PICK h \in Strangers : ~At(h, "idle") /\ handler[h].pay = p /\ handler[h].paid
    BY <1>2 DEF ClaimedPaid
  <2>2. h \in Handlers
    BY PaymentAssumption DEF Handlers
  <2>3. ~At(h, "idle")' /\ handler'[h].pay = p /\ handler'[h].paid
    BY <2>1, <2>2, HandlersKeep DEF At
  <2>. QED
    BY <2>3 DEF Known, ClaimedPaid
<1>. QED
  BY <1>1, <1>2 DEF Known

\* Every webhook that was told "paid" makes it known.
LEMMA HookKnows ==
    ASSUME KnowsPaid, NEW h \in Hooks, ~At(h, "idle"), handler[h].paid
    PROVE  Known(handler[h].pay)
BY DEF KnowsPaid, Known, ClaimedPaid, Genuine

\* An answer of COMPLETED is only given for a paid charge.
LEMMA AnswersKnow == \A p \in Payments : "completed" \in Answers(p) => charge[p] = "paid"
BY DEF Answers

LEMMA CompletedOnlyPaidNext ==
    ASSUME PTypeOK, OneCreator, KnowsPaid, [PNext]_pvars
    PROVE  CompletedOnlyPaid'
<1>0. \A h \in Handlers : handler[h].pay \in Payments
  BY DEF PTypeOK, Handler
<1>1. \A p \in Payments : Known(p) => Known(p)'
  BY KnownStays
<1>2. ASSUME NEW h \in Handlers, NEW status \in Statuses, SaveTx(h, status),
             status = "completed" => Known(handler[h].pay)
      PROVE  CompletedOnlyPaid'
  BY <1>0, <1>1, <1>2 DEF SaveTx, PTypeOK, KnowsPaid, CompletedOnlyPaid, Known
<1>3. CASE UNCHANGED tx
  BY <1>1, <1>3 DEF KnowsPaid, CompletedOnlyPaid, Known
<1>4. "pending" \in Statuses /\ "failed" \in Statuses /\ "completed" \in Statuses
  BY DEF Statuses
<1>5. ASSUME NEW h \in Hooks, Mark(h) \/ SaveEvent(h)
      PROVE  CompletedOnlyPaid'
  <2>1. /\ SaveTx(h, EventStatus(handler[h].paid)) /\ h \in Handlers
        /\ EventStatus(handler[h].paid) \in Statuses
    BY <1>4, <1>5 DEF Mark, SaveEvent, EventStatus, Handlers
  <2>2. EventStatus(handler[h].paid) = "completed" => Known(handler[h].pay)
    BY <1>5, HookKnows DEF EventStatus, Mark, SaveEvent, At
  <2>. QED
    BY <1>2, <2>1, <2>2
<1>6. ASSUME NEW h \in Pollers, ConfirmSave(h) \/ PollSave(h)
      PROVE  CompletedOnlyPaid'
  <2>1. SaveTx(h, handler[h].read) /\ handler[h].read \in Statuses /\ h \in Handlers
    BY <1>6 DEF ConfirmSave, PollSave, PTypeOK, Handler, Handlers
  <2>. QED
    BY <1>2, <2>1 DEF KnowsPaid, Known
<1>7. ASSUME NEW h \in Handlers,
             TopUpInserts(h) \/ TopUpLinks(h) \/ TopUpGivesUp(h) \/ ConfirmFail(h)
      PROVE  CompletedOnlyPaid'
  BY <1>2, <1>4, <1>7 DEF TopUpInserts, TopUpLinks, TopUpGivesUp, ConfirmFail
<1>. QED
  BY <1>3, <1>5, <1>6, <1>7
     DEF PNext, HandlerStep, TopUpHasNoWallet, IntentCreated, IntentRefused,
         Find, Credit, Credited, ConfirmFind, Confirm, PollFind, Poll, ChargeEnds,
         TopUpBegins, Deliver, DeliverUnverified, PollBegins, HandlerFault, WalletStep, payments, pvars

LEMMA KnowsPaidNext ==
    ASSUME PTypeOK, OneCreator, KnowsPaid, [PNext]_pvars
    PROVE  KnowsPaid'
<1>0. /\ Creators \subseteq Handlers /\ Hooks \subseteq Handlers /\ Pollers \subseteq Handlers
      /\ Hooks \cap (Creators \cup Pollers) = {} /\ Pollers \cap (Creators \cup Hooks) = {}
  BY PaymentAssumption DEF Handlers
<1>1. \A p \in Payments : /\ charge[p] = "paid" => charge'[p] = "paid"
                          /\ Known(p) => Known(p)'
  BY PaidStays, KnownStays
<1>2. \A h \in Handlers : handler[h].pay \in Payments
  BY DEF PTypeOK, Handler
<1> DEFINE HookOK(h) == /\ h \in Genuine =>
                               (handler[h].paid => charge[handler[h].pay] = "paid")
                        /\ h \in Strangers =>
                               (handler[h].stage # "idle" => Provider[handler[h].pay] = "momo")
                        /\ handler[h].stage \in {"credit", "crediting"} => handler[h].paid
           PollerOK(h) == handler[h].read = "completed" => Known(handler[h].pay)
<1>3. \A h \in Handlers : handler'[h] = handler[h]
         => (HookOK(h) => HookOK(h)') /\ (PollerOK(h) => PollerOK(h)')
  BY <1>1, <1>2
<1>4. \A h \in Hooks : HookOK(h)
  BY DEF KnowsPaid, At
<1>5. \A h \in Pollers : PollerOK(h)
  BY DEF KnowsPaid, Known
<1>6. ASSUME NEW h \in Handlers, HandlerStep(h) \/ HandlerFault(h)
      PROVE  /\ \A g \in Handlers \ {h} : handler'[g] = handler[g]
             /\ handler'[h].pay = handler[h].pay
             /\ handler'[h].paid = handler[h].paid
  BY <1>6, StepGoesOn DEF GoesOn
<1>7. ASSUME NEW h \in Hooks, HandlerStep(h) \/ HandlerFault(h)
      PROVE  HookOK(h)'
  <2>1. handler'[h].stage \in {"credit", "crediting"} => handler[h].paid
    <3>1. \A x : Goto(h, x) => handler'[h].stage = x
      BY <1>0 DEF Goto, PTypeOK, Handler
    <3>. QED
      BY <1>0, <1>4, <1>7, <3>1
         DEF HandlerStep, HandlerFault, Mark, Find, SaveEvent, Credit, Credited, At
  <2>2. handler[h].stage # "idle"
    BY <1>0, <1>7 DEF HandlerStep, HandlerFault, Mark, Find, SaveEvent, Credit, Credited, At,
       Busy
  <2>. QED
    BY <1>0, <1>1, <1>2, <1>4, <1>6, <1>7, <2>1, <2>2
<1>8. ASSUME NEW h \in Pollers, HandlerStep(h) \/ HandlerFault(h)
      PROVE  PollerOK(h)'
  <2>1. handler'[h].read = "completed" => Known(handler[h].pay)
    <3>1. \A x : Goto(h, x) => handler'[h].read = handler[h].read
      BY <1>0 DEF Goto, PTypeOK, Handler
    <3>2. \A x, y : handler' = [handler EXCEPT ![h].stage = x, ![h].read = y]
                       => handler'[h].read = y
      BY <1>0 DEF PTypeOK, Handler
    <3>3. CASE Confirm(h) \/ Poll(h)
      <4>1. handler'[h].read \in Answers(handler[h].pay)
        BY <3>2, <3>3 DEF Confirm, Poll
      <4>. QED
        BY <1>0, <1>2, <4>1, AnswersKnow DEF Known
    <3>4. CASE PollFind(h)
      BY <1>0, <1>2, <3>2, <3>4 DEF PollFind, KnowsPaid, CompletedOnlyPaid, Known
    <3>5. CASE ConfirmFind(h) \/ ConfirmSave(h) \/ ConfirmFail(h) \/ PollSave(h)
               \/ HandlerFault(h)
      BY <1>5, <3>1, <3>5 DEF ConfirmFind, ConfirmSave, ConfirmFail, PollSave, HandlerFault
    <3>. QED
      BY <1>0, <1>8, <3>3, <3>4, <3>5 DEF HandlerStep
  <2>. QED
    BY <1>0, <1>1, <1>2, <1>6, <1>8, <2>1
<1>9. ASSUME NEW h \in Hooks, NEW p \in Payments, Deliver(h, p) \/ DeliverUnverified(h, p)
      PROVE  HookOK(h)' /\ \A g \in Handlers \ {h} : handler'[g] = handler[g]
  <2>1. PICK s \in {"mark", "find"}, e \in BOOLEAN :
            /\ Starts(h, p, s, e)
            /\ h \in Genuine => (e => charge[p] = "paid")
            /\ h \in Strangers => Provider[p] = "momo"
    BY <1>9 DEF Deliver, DeliverUnverified, Genuine
  <2>2. s \in HookStages /\ UNCHANGED charge
    BY <1>9 DEF HookStages, Deliver, DeliverUnverified
  <2>3. /\ handler'[h] = [stage |-> s, pay |-> p, read |-> "none", paid |-> e]
        /\ \A g \in Handlers \ {h} : handler'[g] = handler[g]
    BY <1>0, <2>1, <2>2, StartMoves
  <2>4. handler'[h].pay = p /\ handler'[h].stage = s /\ handler'[h].paid = e
    BY <2>3
  <2>. QED
    BY <2>1, <2>2, <2>3, <2>4
<1>10. ASSUME NEW h \in Pollers, NEW p \in Payments, PollBegins(h, p)
       PROVE  PollerOK(h)' /\ \A g \in Handlers \ {h} : handler'[g] = handler[g]
  <2>1. PICK s \in {"confirmfind", "pollfind"} : Starts(h, p, s, FALSE)
    BY <1>10 DEF PollBegins
  <2>2. s \in PollerStages /\ FALSE \in BOOLEAN
    BY DEF PollerStages
  <2>3. /\ handler'[h] = [stage |-> s, pay |-> p, read |-> "none", paid |-> FALSE]
        /\ \A g \in Handlers \ {h} : handler'[g] = handler[g]
    BY <1>0, <2>1, <2>2, StartMoves
  <2>4. handler'[h].read = "none"
    BY <2>3
  <2>. QED
    BY <2>3, <2>4
<1>11. ASSUME NEW h \in Creators, NEW p \in Payments, TopUpBegins(h, p)
       PROVE  \A g \in Handlers \ {h} : handler'[g] = handler[g]
  <2>1. Starts(h, p, "wallet", FALSE) /\ "wallet" \in CreatorStages /\ h \in Handlers
    BY <1>0, <1>11 DEF TopUpBegins, CreatorStages
  <2>. QED
    BY <2>1, StartMoves, Zenon
<1> HIDE DEF HookOK, PollerOK
<1>12. ASSUME NEW h \in Handlers, \A g \in Handlers \ {h} : handler'[g] = handler[g],
              h \in Hooks => HookOK(h)', h \in Pollers => PollerOK(h)'
       PROVE  (\A g \in Hooks : HookOK(g)') /\ (\A g \in Pollers : PollerOK(g)')
  BY <1>0, <1>3, <1>4, <1>5, <1>12
<1>13. (\A g \in Hooks : HookOK(g)') /\ (\A g \in Pollers : PollerOK(g)')
  <2>1. CASE \E h \in Handlers : HandlerStep(h) \/ HandlerFault(h)
    BY <1>0, <1>6, <1>7, <1>8, <1>12, <2>1
  <2>2. CASE \E h \in Hooks, p \in Payments : Deliver(h, p) \/ DeliverUnverified(h, p)
    BY <1>0, <1>9, <1>12, <2>2
  <2>3. CASE \E h \in Pollers, p \in Payments : PollBegins(h, p)
    BY <1>0, <1>10, <1>12, <2>3
  <2>4. CASE \E h \in Creators, p \in Payments : TopUpBegins(h, p)
    BY <1>0, <1>11, <1>12, <2>4
  <2>5. CASE UNCHANGED handler
    BY <1>0, <1>3, <1>4, <1>5, <2>5
  <2>. QED
    BY <2>1, <2>2, <2>3, <2>4, <2>5 DEF PNext, ChargeEnds, WalletStep, payments, pvars
<1>. QED
  <2>1. Genuine \subseteq Hooks /\ Strangers \subseteq Hooks
    BY PaymentAssumption DEF Genuine
  <2>. QED
    BY <1>13, <2>1, CompletedOnlyPaidNext DEF KnowsPaid, HookOK, PollerOK, Known, At

\* The wallet's own steps do not change what a call is for.
LEMMA StepKeepsCall ==
    ASSUME IInv, NEW c \in Calls, Step(c), NEW d \in Calls
    PROVE  /\ call'[d].op = call[d].op
           /\ call'[d].user = call[d].user
           /\ call'[d].amount = call[d].amount
BY DEF Step, FindWallet, FindNoWallet, InsertWallet, InsertDuplicate, SaveWallet,
   SaveOverflows, SaveUsage, SaveTransaction, Fault, IInv, TypeOK, Call

LEMMA BeginMoves ==
    ASSUME IInv, NEW c \in Calls, NEW op \in Ops, NEW u \in Users, NEW a \in Amounts,
           Begin(c, op, u, a)
    PROVE  /\ \A d \in Calls \ {c} : call'[d] = call[d]
           /\ call'[c].op = op /\ call'[c].user = u /\ call'[c].amount = a
           /\ call'[c].stage = "find" /\ ~call'[c].saved
           /\ call[c].stage = "idle"
<1> DEFINE k == [IdleCall EXCEPT !.stage = "find", !.op = op, !.user = u, !.amount = a]
<1>1. /\ k.stage = "find" /\ k.op = op /\ k.user = u /\ k.amount = a /\ ~k.saved
  BY DEF IdleCall
<1>2. call' = [call EXCEPT ![c] = k] /\ call \in [Calls -> Call] /\ call[c].stage = "idle"
  BY DEF Begin, IInv, TypeOK
<1> HIDE DEF k
<1>. QED
  BY <1>1, <1>2

\* Every step either leaves the calls alone, is a query of one of them, or
\* begins the call of a top-up or of a webhook.
LEMMA CallsKnowNext ==
    ASSUME IInv, PayInv, [PNext]_pvars
    PROVE  CallsKnow'
<1>0. /\ Creators \subseteq Handlers /\ Hooks \subseteq Handlers /\ Calls = Creators \cup Hooks
      /\ Creators \cap Hooks = {} /\ Calls \cap Pollers = {}
      /\ \A h \in Handlers : handler[h].pay \in Payments
      /\ 0 \in Amounts /\ "open" \in Ops /\ "credit" \in Ops
      /\ \A p \in Payments : Owner[p] \in Users /\ Worth[p] \in Amounts
  BY PaymentAssumption DEF Handlers, PayInv, PTypeOK, Handler, Ops
<1>1. \A p \in Payments : charge[p] = "paid" => charge'[p] = "paid"
  BY PaidStays DEF PayInv
<1> DEFINE Settled(h) ==
              LET p == handler[h].pay IN
              /\ handler[h].stage # "idle"
              /\ h \in Hooks /\ handler[h].paid
              /\ IF h \in Strangers THEN Provider[p] = "momo" ELSE charge[p] = "paid"
              /\ call[h].op = "credit"
              /\ call[h].user = Owner[p] /\ call[h].amount = Worth[p]
           CallOfOK(h) == call[h].op = "open" \/ Settled(h)
<1>2. CallsKnow <=> \A h \in Calls : CallOfOK(h)
  BY <1>0 DEF CallsKnow, CreditedOnlyPaid, At
<1>3. CallsKnow' <=> \A h \in Calls : CallOfOK(h)'
  BY <1>0 DEF CallsKnow, CreditedOnlyPaid, At
<1>4. ASSUME NEW h \in Calls,
             call'[h].op = call[h].op, call'[h].user = call[h].user,
             call'[h].amount = call[h].amount,
             handler[h].stage # "idle" =>
                 /\ handler'[h].stage # "idle" /\ handler'[h].pay = handler[h].pay
                 /\ handler'[h].paid = handler[h].paid
      PROVE  CallOfOK(h)'
  BY <1>0, <1>1, <1>2, <1>4 DEF PayInv
<1>5. ASSUME NEW h \in Calls
      PROVE  handler[h].stage # "idle" =>
                 /\ handler'[h].stage # "idle" /\ handler'[h].pay = handler[h].pay
                 /\ handler'[h].paid = handler[h].paid
  BY <1>0, HandlersKeep DEF PayInv
<1> HIDE DEF CallOfOK
<1>6. ASSUME UNCHANGED call PROVE \A h \in Calls : CallOfOK(h)'
  BY <1>4, <1>5, <1>6
<1>7. ASSUME NEW c \in Calls, WalletStep(c)
      PROVE  \A h \in Calls : CallOfOK(h)'
  BY <1>4, <1>5, <1>7, StepKeepsCall DEF WalletStep
<1>8. ASSUME NEW g \in Creators, NEW p \in Payments, TopUpBegins(g, p)
      PROVE  \A h \in Calls : CallOfOK(h)'
  <2>1. Begin(g, "open", Owner[p], 0)
    BY <1>8 DEF TopUpBegins
  <2>2. call'[g].op = "open" /\ \A h \in Calls \ {g} : call'[h] = call[h]
    BY <1>0, <2>1, BeginMoves
  <2>3. CallOfOK(g)'
    BY <2>2 DEF CallOfOK
  <2>. QED
    BY <1>4, <1>5, <2>2, <2>3
<1>9. ASSUME NEW g \in Hooks, Credit(g)
      PROVE  \A h \in Calls : CallOfOK(h)'
  <2> DEFINE p == handler[g].pay
  <2>1. Begin(g, "credit", Owner[p], Worth[p]) /\ handler[g].stage = "credit"
    BY <1>9 DEF Credit, At
  <2>2. /\ call'[g].op = "credit" /\ call'[g].user = Owner[p] /\ call'[g].amount = Worth[p]
        /\ \A h \in Calls \ {g} : call'[h] = call[h]
    BY <1>0, <2>1, BeginMoves
  <2>3. /\ handler'[g].stage # "idle" /\ handler'[g].pay = p
        /\ handler[g].paid /\ handler'[g].paid = handler[g].paid
    BY <1>0, <1>5, <2>1 DEF PayInv, KnowsPaid
  <2>4. IF g \in Strangers THEN Provider[p] = "momo" ELSE charge'[p] = "paid"
    BY <1>0, <1>1, <2>1, <2>3 DEF PayInv, KnowsPaid, Genuine, At
  <2>5. CallOfOK(g)'
    BY <2>2, <2>3, <2>4 DEF CallOfOK
  <2>. QED
    BY <1>4, <1>5, <2>2, <2>5
<1>10. \/ UNCHANGED call
       \/ \E c \in Calls : WalletStep(c)
       \/ \E g \in Creators, p \in Payments : TopUpBegins(g, p)
       \/ \E g \in Hooks : Credit(g)
  BY DEF PNext, HandlerStep, TopUpInserts, TopUpHasNoWallet, IntentCreated, IntentRefused,
     TopUpLinks, TopUpGivesUp, Mark, Find, SaveEvent, Credited, ConfirmFind,
     Confirm, ConfirmSave, ConfirmFail, PollFind, Poll, PollSave, ChargeEnds,
     Deliver, DeliverUnverified, PollBegins, HandlerFault, pvars, vars
<1>. QED
  BY <1>3, <1>6, <1>7, <1>8, <1>9, <1>10

LEMMA PayNext == IInv /\ PayInv /\ [PNext]_pvars => IInv' /\ PayInv'
<1> SUFFICES ASSUME IInv, PayInv, [PNext]_pvars PROVE IInv' /\ PayInv'
  OBVIOUS
<1>1. IInv'
  BY PaymentStep, NextInv DEF PayInv
<1>2. PayInv'
  BY PTypeNext, OneCreatorNext, KnowsPaidNext, CallsKnowNext DEF PayInv
<1>. QED
  BY <1>1, <1>2

LEMMA PaymentInv == PSpec => [](IInv /\ PayInv)
<1>1. PInit => IInv
  BY InitInv DEF PInit
<1>. QED
  BY <1>1, PaymentInit, PayNext, PTL DEF PSpec

-----------------------------------------------------------------------------
(* A payment is credited once, if gateways only repeat what failed. *)

LEMMA OnceInit == PInit => OnceInv
BY IdleCallOK, PaymentAssumption
   DEF PInit, Init, OnceInv, Busy, At, Running, Handlers, Genuine, CreditedOnce, CreditsOf,
       IdleCall

\* A step of a webhook that a gateway called.
LEMMA OnceHook ==
    ASSUME ~Redeliver, IInv, PayInv, OnceInv, NEW h \in Genuine,
           HandlerStep(h) \/ HandlerFault(h)
    PROVE  OnceInv'
<1>0. /\ Hooks \subseteq Handlers /\ Hooks \subseteq Calls /\ Genuine \subseteq Hooks
      /\ Hooks \cap (Creators \cup Pollers) = {}
      /\ handler[h].pay \in Payments
  BY PaymentAssumption DEF Handlers, Genuine, PayInv, PTypeOK, Handler
<1>1. PICK s \in {"answered"} \cup CreatorStages \cup HookStages \cup PollerStages,
           r \in Statuses : GoesOn(h, s, r)
  BY <1>0, StepGoesOn DEF PayInv
<1>2. \A x : Goto(h, x) => s = x
  BY <1>0, <1>1 DEF GoesOn, Goto, PayInv, PTypeOK, Handler
<1>3. handler[h].stage \notin {"idle", "answered"} /\ s # "idle"
  <2>1. handler[h].stage \notin {"idle", "answered"}
    BY <1>0 DEF HandlerStep, HandlerFault, Mark, Find, SaveEvent, Credit, Credited, At, Busy
  <2>. QED
    BY <2>1 DEF CreatorStages, HookStages, PollerStages
<1>4. told' = told \/ (told' = told \cup {handler[h].pay} /\ s = "answered")
  BY <1>0, <1>2 DEF HandlerStep, HandlerFault, Mark, Find, SaveEvent, Credit, Credited,
     AnswersSuccess, At, Busy
<1>5. handler[h].stage = "crediting" =>
          /\ s = "answered" /\ handler[h].pay \in told'
          /\ call[h].stage \notin Running
          /\ UNCHANGED call
  BY <1>0, <1>2 DEF HandlerStep, HandlerFault, Mark, Find, SaveEvent, Credit, Credited,
     AnswersSuccess, At, Running, vars
<1>6. \/ UNCHANGED call
      \/ /\ s = "crediting" /\ ~call'[h].saved
         /\ \A g \in Calls \ {h} : call'[g] = call[g]
  <2>1. CASE Credit(h)
    <3>1. /\ Owner[handler[h].pay] \in Users /\ Worth[handler[h].pay] \in Amounts
          /\ "credit" \in Ops
      BY <1>0, PaymentAssumption DEF Ops
    <3>. QED
      BY <1>0, <1>2, <2>1, <3>1, BeginMoves DEF Credit
  <2>2. CASE ~Credit(h)
    BY <1>0, <2>2 DEF HandlerStep, HandlerFault, Mark, Find, SaveEvent, Credited, vars
  <2>. QED
    BY <2>1, <2>2
<1>7. \A g, f \in Genuine : (Busy(g)' /\ Busy(f)' /\ handler'[g].pay = handler'[f].pay) => g = f
  BY <1>0, <1>1, <1>3 DEF GoesOn, Busy, OnceInv
<1>8. \A g \in Genuine : Busy(g)' => handler'[g].pay \notin told'
  BY <1>0, <1>1, <1>3, <1>4 DEF GoesOn, Busy, OnceInv
<1>9. \A g \in Genuine : call'[g].stage \in Running => handler'[g].stage = "crediting"
  BY <1>0, <1>1, <1>5, <1>6 DEF GoesOn, OnceInv, At
<1>10. \A g \in Genuine : call'[g].saved =>
          /\ call[g].saved
          /\ handler'[g].stage \in {"crediting", "answered"}
          /\ ~Busy(g)' => handler'[g].pay \in told'
  <2>1. \A g \in Genuine \ {h} : call'[g] = call[g] /\ handler'[g] = handler[g]
    BY <1>0, <1>1, <1>6 DEF GoesOn
  <2>2. \A g \in Genuine \ {h} : call'[g].saved =>
          /\ call[g].saved
          /\ handler'[g].stage \in {"crediting", "answered"}
          /\ ~Busy(g)' => handler'[g].pay \in told'
    BY <1>4, <2>1 DEF OnceInv, Busy
  <2>3. call'[h].saved => handler[h].stage = "crediting" /\ call[h].saved
    BY <1>3, <1>6 DEF OnceInv
  <2>4. call'[h].saved =>
          /\ call[h].saved
          /\ handler'[h].stage \in {"crediting", "answered"}
          /\ ~Busy(h)' => handler'[h].pay \in told'
    BY <1>1, <1>5, <2>3 DEF GoesOn
  <2>. QED
    BY <2>2, <2>4
<1>11. CreditedOnce'
  <2>1. \A g \in Genuine : handler'[g].pay = handler[g].pay
    BY <1>0, <1>1 DEF GoesOn
  <2>. QED
    BY <1>10, <2>1 DEF OnceInv, CreditedOnce, CreditsOf
<1>. QED
  BY <1>7, <1>8, <1>9, <1>10, <1>11 DEF OnceInv, At

\* A notification arrives for a payment no other one is handled for.
LEMMA OnceDeliver ==
    ASSUME ~Redeliver, IInv, PayInv, OnceInv, NEW h \in Hooks, NEW p \in Payments,
           Deliver(h, p)
    PROVE  OnceInv'
<1>1. PICK s \in {"mark", "find"}, e \in BOOLEAN : Starts(h, p, s, e)
  BY DEF Deliver
<1>2. s \in HookStages /\ h \in Genuine /\ Genuine \subseteq Handlers /\ UNCHANGED <<call, told>>
      /\ p \notin told /\ \A g \in Genuine : handler[g].pay = p => ~Busy(g)
  BY DEF HookStages, Handlers, Genuine, Deliver, vars
<1>3. /\ handler'[h] = [stage |-> s, pay |-> p, read |-> "none", paid |-> e]
      /\ \A g \in Genuine \ {h} : handler'[g] = handler[g]
      /\ handler[h].stage = "idle"
  BY <1>1, <1>2, StartMoves DEF PayInv
<1>4. handler'[h].pay = p /\ handler'[h].stage = s
  BY <1>3
<1>5. ~call[h].saved /\ call[h].stage \notin Running
  BY <1>2, <1>3 DEF OnceInv, At
<1>6. \A g, f \in Genuine : (Busy(g)' /\ Busy(f)' /\ handler'[g].pay = handler'[f].pay) => g = f
  BY <1>2, <1>3, <1>4 DEF Busy, OnceInv
<1>7. CreditedOnce'
  BY <1>2, <1>3, <1>5 DEF OnceInv, CreditedOnce, CreditsOf
<1>. QED
  BY <1>2, <1>3, <1>4, <1>5, <1>6, <1>7 DEF OnceInv, Busy, At

\* The webhooks of gateways stand still while calls of theirs, or others, move.
LEMMA OnceWallet ==
    ASSUME ~Redeliver, IInv, PayInv, OnceInv, NEW c \in Calls,
           UNCHANGED told, \A g \in Genuine : handler'[g] = handler[g],
           \A d \in Calls \ {c} : call'[d] = call[d],
           c \in Genuine => call[c].stage \in Running
    PROVE  OnceInv'
<1>1. Genuine \subseteq Calls
  BY PaymentAssumption DEF Genuine
<1>2. c \in Genuine => At(c, "crediting") /\ Busy(c) /\ handler[c].pay \notin told
  BY DEF OnceInv, At, Busy
<1>3. \A g \in Genuine : g # c => call'[g] = call[g]
  BY <1>1
<1>4. ASSUME NEW g \in Genuine, c \in Genuine, call[g].saved, handler[g].pay = handler[c].pay
      PROVE  g = c
  BY <1>2, <1>4 DEF OnceInv
<1>5. CreditedOnce'
  BY <1>3, <1>4 DEF OnceInv, CreditedOnce, CreditsOf
<1>6. \A g \in Genuine : call'[g].stage \in Running => At(g, "crediting")'
  BY <1>2, <1>3 DEF OnceInv, At
<1>7. \A g \in Genuine : call'[g].saved =>
          /\ ~Busy(g)' => handler'[g].pay \in told'
          /\ handler'[g].stage \in {"crediting", "answered"}
  BY <1>2, <1>3 DEF OnceInv, At, Busy
<1>. QED
  BY <1>5, <1>6, <1>7 DEF OnceInv, Busy

LEMMA OnceNext == IInv /\ PayInv /\ OnceInv /\ [PNext]_pvars => OnceInv'
<1> SUFFICES ASSUME IInv, PayInv, OnceInv, [PNext]_pvars, ~Redeliver PROVE OnceInv'
  BY DEF OnceInv
<1>0. /\ Creators \subseteq Handlers /\ Hooks \subseteq Handlers /\ Calls = Creators \cup Hooks
      /\ Handlers = Creators \cup Hooks \cup Pollers
      /\ Creators \cap Hooks = {} /\ Calls \cap Pollers = {} /\ Hooks \cap Pollers = {}
      /\ Genuine \subseteq Hooks /\ Hooks = Genuine \cup Strangers
      /\ Genuine \cap Strangers = {}
  BY PaymentAssumption DEF Handlers, Genuine
<1>1. ASSUME UNCHANGED <<told, call>>, \A g \in Genuine : handler'[g] = handler[g]
      PROVE  OnceInv'
  BY <1>1 DEF OnceInv, CreditedOnce, CreditsOf, Busy, At
<1>2. ASSUME NEW h \in Creators \cup Pollers, HandlerStep(h) \/ HandlerFault(h)
      PROVE  OnceInv'
  <2>1. \A g \in Genuine : handler'[g] = handler[g]
    BY <1>0, <1>2, StepGoesOn DEF GoesOn, PayInv
  <2>2. UNCHANGED <<told, call>>
    BY <1>0, <1>2 DEF HandlerStep, HandlerFault, TopUpInserts, TopUpHasNoWallet, IntentCreated,
       IntentRefused, TopUpLinks, TopUpGivesUp, ConfirmFind, Confirm, ConfirmSave,
       ConfirmFail, PollFind, Poll, PollSave, vars
  <2>. QED
    BY <1>1, <2>1, <2>2
<1>3. ASSUME NEW h \in Creators, NEW p \in Payments, TopUpBegins(h, p)
      PROVE  OnceInv'
  <2>1. Starts(h, p, "wallet", FALSE) /\ "wallet" \in CreatorStages /\ FALSE \in BOOLEAN
    BY <1>3 DEF TopUpBegins, CreatorStages
  <2>2. \A g \in Handlers \ {h} : handler'[g] = handler[g]
    BY <1>0, <2>1, StartMoves, Zenon DEF PayInv
  <2>3. Begin(h, "open", Owner[p], 0) /\ UNCHANGED told
    BY <1>3 DEF TopUpBegins
  <2>4. \A d \in Calls \ {h} : call'[d] = call[d]
    BY <1>0, <2>3 DEF Begin, IInv, TypeOK
  <2>. QED
    BY <1>0, <2>2, <2>3, <2>4, OnceWallet
<1>4. ASSUME NEW c \in Calls, WalletStep(c)
      PROVE  OnceInv'
  <2>1. \A d \in Calls \ {c} : call'[d] = call[d]
    BY <1>4 DEF WalletStep, Step, FindWallet, FindNoWallet, InsertWallet, InsertDuplicate,
       SaveWallet, SaveOverflows, SaveUsage, SaveTransaction, Fault, IInv, TypeOK
  <2>2. call[c].stage \in Running
    BY <1>4 DEF WalletStep, Step, FindWallet, FindNoWallet, InsertWallet, InsertDuplicate,
       SaveWallet, SaveOverflows, SaveUsage, SaveTransaction, Fault, Running
  <2>. QED
    BY <1>4, <2>1, <2>2, OnceWallet DEF WalletStep, payments
<1>5. ASSUME NEW h \in Pollers, NEW p \in Payments, PollBegins(h, p)
      PROVE  OnceInv'
  <2>1. PICK s \in {"confirmfind", "pollfind"}, e \in BOOLEAN : Starts(h, p, s, e)
    BY <1>5 DEF PollBegins
  <2>2. s \in PollerStages /\ h \in Handlers
    BY <1>0 DEF PollerStages
  <2>3. \A g \in Handlers \ {h} : handler'[g] = handler[g]
    BY <2>1, <2>2, StartMoves DEF PayInv
  <2>. QED
    BY <1>0, <1>1, <1>5, <2>3 DEF PollBegins, vars
<1>8. ASSUME NEW h \in Strangers, HandlerStep(h) \/ HandlerFault(h)
      PROVE  OnceInv'
  <2>1. \A g \in Genuine : handler'[g] = handler[g]
    BY <1>0, <1>8, StepGoesOn DEF GoesOn, PayInv
  <2>2. UNCHANGED told
    BY <1>0, <1>8 DEF HandlerStep, HandlerFault, Mark, Find, SaveEvent, Credit, Credited,
       AnswersSuccess
  <2>3. \A d \in Calls \ {h} : call'[d] = call[d]
    BY <1>0, <1>8 DEF HandlerStep, HandlerFault, Mark, Find, SaveEvent, Credit, Credited,
       Begin, IInv, TypeOK, vars
  <2>. QED
    BY <1>0, <2>1, <2>2, <2>3, OnceWallet
<1>9. ASSUME NEW h \in Hooks, NEW p \in Payments, DeliverUnverified(h, p)
      PROVE  OnceInv'
  <2>1. PICK e \in BOOLEAN : Starts(h, p, "mark", e)
    BY <1>9 DEF DeliverUnverified
  <2>2. "mark" \in HookStages /\ h \in Handlers /\ h \notin Genuine
    BY <1>0, <1>9 DEF HookStages, DeliverUnverified
  <2>3. \A g \in Handlers \ {h} : handler'[g] = handler[g]
    BY <2>1, <2>2, StartMoves, Zenon DEF PayInv
  <2>. QED
    BY <1>0, <1>1, <1>9, <2>2, <2>3 DEF DeliverUnverified, vars
<1>6. CASE \E p \in Payments, outcome \in {"paid", "declined"} : ChargeEnds(p, outcome)
  BY <1>1, <1>6 DEF ChargeEnds, vars
<1>7. CASE UNCHANGED pvars
  BY <1>1, <1>7 DEF pvars, vars, payments
<1>. QED
  BY <1>0, <1>2, <1>3, <1>4, <1>5, <1>6, <1>7, <1>8, <1>9, OnceHook, OnceDeliver DEF PNext

-----------------------------------------------------------------------------
(* The theorems. *)

\* Every step of a top-up is a step of WalletService or leaves it alone.
THEOREM PaymentUsesWallet == PSpec => [][Next]_vars
<1>1. IInv /\ PayInv /\ [PNext]_pvars => [Next]_vars
  BY PaymentStep DEF PayInv
<1>. QED
  BY <1>1, PaymentInv, PTL DEF PSpec

\* A wallet is only credited for a payment of its own user, with what that
\* payment is worth, whatever the handlers and gateways do; and the payment was
\* paid unless it is MoMo's webhook that someone else told so.
THEOREM OnlyPaidIsCredited == PSpec => []CreditedOnlyPaid
<1>1. PayInv => CreditedOnlyPaid
  BY DEF PayInv, CallsKnow
<1>. QED
  BY <1>1, PaymentInv, PTL

\* No handler marks a payment COMPLETED that was neither paid nor, in a call of
\* MoMo's webhook by someone else, said to be.
THEOREM OnlyPaidIsCompleted == PSpec => []CompletedOnlyPaid
<1>1. PayInv => CompletedOnlyPaid
  BY DEF PayInv, KnowsPaid
<1>. QED
  BY <1>1, PaymentInv, PTL

\* The invariant behind the next theorem: a notification of a gateway is alone
\* with its payment.
THEOREM WebhooksTakeTurns == PSpec => []OnceInv
BY OnceInit, OnceNext, PaymentInv, PTL DEF PSpec

\* If a gateway only repeats a notification that was not answered with success,
\* then its notifications credit no payment twice, wherever handlers and calls
\* fail.
THEOREM NoDoubleCredit ==
    ASSUME ~Redeliver PROVE PSpec => []CreditedOnce
<1>1. OnceInv => CreditedOnce
  BY DEF OnceInv
<1>. QED
  BY <1>1, WebhooksTakeTurns, PTL

\* The saved credits of a payment: none or one.
LEMMA OneCredit ==
    ASSUME CreditedOnce, NEW p \in Payments
    PROVE  /\ CreditsOf(p) = {} => Cardinality(CreditsOf(p)) = 0
           /\ \A h \in CreditsOf(p) : CreditsOf(p) = {h} /\ Cardinality(CreditsOf(p)) = 1
<1>1. \A h \in CreditsOf(p) : CreditsOf(p) = {h}
  BY DEF CreditedOnce
<1>. QED
  BY <1>1, FS_EmptySet, FS_Singleton

\* Only the SaveWallet of a webhook's call adds a credit.
LEMMA CreditsMove ==
    ASSUME ~Redeliver, IInv, PayInv, OnceInv, [PNext]_pvars
    PROVE  \/ \A p \in Payments : CreditsOf(p)' = CreditsOf(p)
           \/ \E h \in Genuine :
                 /\ UNCHANGED <<charge, handler>>
                 /\ charge[handler[h].pay] = "paid"
                 /\ \A p \in Payments : CreditsOf(p)' =
                       IF p = handler[h].pay THEN CreditsOf(p) \cup {h} ELSE CreditsOf(p)
<1>0. /\ Creators \subseteq Handlers /\ Hooks \subseteq Handlers /\ Calls = Creators \cup Hooks
      /\ Handlers = Creators \cup Hooks \cup Pollers
      /\ Creators \cap Hooks = {} /\ Calls \cap Pollers = {} /\ Hooks \cap Pollers = {}
      /\ Genuine \subseteq Hooks /\ Genuine \cap Strangers = {}
  BY PaymentAssumption DEF Handlers, Genuine
<1>1. \A h \in Genuine : call[h].saved => handler[h].stage \in {"crediting", "answered"}
  BY DEF OnceInv
<1>2. ASSUME \A h \in Genuine : call'[h].saved = call[h].saved,
             \A h \in Genuine : call[h].saved => handler'[h].pay = handler[h].pay
      PROVE  \A p \in Payments : CreditsOf(p)' = CreditsOf(p)
  BY <1>2 DEF CreditsOf
<1>3. ASSUME NEW h \in Handlers, HandlerStep(h) \/ HandlerFault(h)
      PROVE  \A p \in Payments : CreditsOf(p)' = CreditsOf(p)
  <2>1. \A g \in Genuine : handler'[g].pay = handler[g].pay
    BY <1>0, <1>3, StepGoesOn DEF GoesOn, PayInv
  <2>2. CASE h \in Genuine /\ Credit(h)
    <3>1. handler[h].stage = "credit"
      BY <2>2 DEF Credit, At
    <3>2. /\ handler[h].pay \in Payments /\ "credit" \in Ops
          /\ Owner[handler[h].pay] \in Users /\ Worth[handler[h].pay] \in Amounts
      BY <1>0, PaymentAssumption DEF PayInv, PTypeOK, Handler, Ops
    <3>3. ~call'[h].saved /\ \A g \in Calls \ {h} : call'[g] = call[g]
      BY <1>0, <2>2, <3>2, BeginMoves DEF Credit
    <3>4. call[h].saved = FALSE /\ call'[h].saved = FALSE
      <4>1. ~call[h].saved
        BY <1>1, <2>2, <3>1
      <4>2. call[h].saved \in BOOLEAN
        BY <1>0, <2>2 DEF IInv, TypeOK, Call
      <4>3. call'[h].saved = FALSE
        <5>1. call' = [call EXCEPT ![h] = [IdleCall EXCEPT !.stage = "find", !.op = "credit",
                          !.user = Owner[handler[h].pay], !.amount = Worth[handler[h].pay]]]
          BY <2>2 DEF Credit, Begin
        <5>. QED
          BY <1>0, <2>2, <5>1 DEF IdleCall, IInv, TypeOK
      <4>. QED
        BY <4>1, <4>2, <4>3
    <3>. QED
      BY <1>0, <1>2, <2>1, <3>3, <3>4
  <2>3. CASE h \in Hooks \ Genuine /\ Credit(h)
    <3>1. \A d \in Calls \ {h} : call'[d] = call[d]
      BY <2>3 DEF Credit, Begin, IInv, TypeOK
    <3>. QED
      BY <1>0, <1>2, <2>1, <2>3, <3>1
  <2>4. CASE ~(h \in Hooks /\ Credit(h))
    <3>1. UNCHANGED call
      BY <1>0, <1>3, <2>4 DEF HandlerStep, HandlerFault, TopUpInserts, TopUpHasNoWallet,
         IntentCreated, IntentRefused, TopUpLinks, TopUpGivesUp, Mark, Find, SaveEvent,
         Credited, ConfirmFind, Confirm, ConfirmSave, ConfirmFail, PollFind, Poll, PollSave,
         vars
    <3>. QED
      BY <1>2, <2>1, <3>1
  <2>. QED
    BY <1>0, <2>2, <2>3, <2>4
<1>4. ASSUME NEW h \in Handlers, NEW p \in Payments, NEW e \in BOOLEAN,
             NEW s \in CreatorStages \cup HookStages \cup PollerStages,
             Starts(h, p, s, e), \A g \in Genuine : call'[g] = call[g]
      PROVE  \A q \in Payments : CreditsOf(q)' = CreditsOf(q)
  <2>1. handler[h].stage = "idle" /\ \A g \in Handlers \ {h} : handler'[g] = handler[g]
    BY <1>4, StartMoves DEF PayInv
  <2>2. \A g \in Genuine : call[g].saved => g # h
    BY <1>1, <2>1
  <2>. QED
    BY <1>0, <1>2, <1>4, <2>1, <2>2
<1>5. ASSUME NEW h \in Creators, NEW p \in Payments, TopUpBegins(h, p)
      PROVE  \A q \in Payments : CreditsOf(q)' = CreditsOf(q)
  <2>1. Starts(h, p, "wallet", FALSE) /\ "wallet" \in CreatorStages /\ FALSE \in BOOLEAN
    BY <1>5 DEF TopUpBegins, CreatorStages
  <2>2. \A g \in Genuine : call'[g] = call[g]
    BY <1>0, <1>5 DEF TopUpBegins, Begin, IInv, TypeOK
  <2>. QED
    BY <1>0, <1>4, <2>1, <2>2, Zenon
<1>6. ASSUME NEW h \in Hooks, NEW p \in Payments, Deliver(h, p) \/ DeliverUnverified(h, p)
      PROVE  \A q \in Payments : CreditsOf(q)' = CreditsOf(q)
  <2>1. PICK s \in {"mark", "find"}, e \in BOOLEAN : Starts(h, p, s, e)
    BY <1>6 DEF Deliver, DeliverUnverified
  <2>2. s \in HookStages /\ UNCHANGED call
    BY <1>6 DEF HookStages, Deliver, DeliverUnverified, vars
  <2>. QED
    BY <1>0, <1>4, <2>1, <2>2
<1>7. ASSUME NEW h \in Pollers, NEW p \in Payments, PollBegins(h, p)
      PROVE  \A q \in Payments : CreditsOf(q)' = CreditsOf(q)
  <2>1. PICK s \in {"confirmfind", "pollfind"}, e \in BOOLEAN : Starts(h, p, s, e)
    BY <1>7 DEF PollBegins
  <2>2. s \in PollerStages /\ UNCHANGED call
    BY <1>7 DEF PollerStages, PollBegins, vars
  <2>. QED
    BY <1>0, <1>4, <2>1, <2>2
<1>8. ASSUME NEW c \in Calls, WalletStep(c)
      PROVE  \/ \A q \in Payments : CreditsOf(q)' = CreditsOf(q)
             \/ /\ c \in Genuine
                /\ UNCHANGED <<charge, handler>>
                /\ charge[handler[c].pay] = "paid"
                /\ \A p \in Payments : CreditsOf(p)' =
                      IF p = handler[c].pay THEN CreditsOf(p) \cup {c} ELSE CreditsOf(p)
  <2>1. UNCHANGED <<charge, handler>>
    BY <1>8 DEF WalletStep, payments
  <2>2. CASE SaveWallet(c) /\ c \in Genuine
    <3>1. /\ \A d \in Calls \ {c} : call'[d] = call[d]
          /\ call'[c].saved = TRUE
      BY <2>2 DEF SaveWallet, IInv, TypeOK, Call
    <3>2. call[c].op # "open"
      BY <2>2 DEF SaveWallet, IInv, CallOK
    <3>3. charge[handler[c].pay] = "paid"
      BY <1>0, <2>2, <3>2 DEF PayInv, CallsKnow, CreditedOnlyPaid
    <3>. QED
      BY <1>0, <2>1, <2>2, <3>1, <3>3 DEF CreditsOf
  <2>3. CASE SaveWallet(c) /\ c \notin Genuine
    <3>1. \A d \in Genuine : call'[d] = call[d]
      BY <1>0, <2>3 DEF SaveWallet, IInv, TypeOK, Call
    <3>. QED
      BY <1>2, <2>1, <3>1
  <2>4. CASE ~SaveWallet(c)
    <3>1. \A d \in Calls : call'[d].saved = call[d].saved
      BY <1>8, <2>4 DEF WalletStep, Step, FindWallet, FindNoWallet, InsertWallet,
         InsertDuplicate, SaveOverflows, SaveUsage, SaveTransaction, Fault, IInv, TypeOK, Call
    <3>. QED
      BY <1>0, <1>2, <2>1, <3>1
  <2>. QED
    BY <2>2, <2>3, <2>4
<1>9. CASE UNCHANGED <<call, handler>>
  BY <1>2, <1>9
<1>. QED
  BY <1>0, <1>3, <1>5, <1>6, <1>7, <1>8, <1>9 DEF PNext, ChargeEnds, pvars, vars, payments

LEMMA PromiseStep ==
    ASSUME ~Redeliver, IInv, PayInv, OnceInv, PayInv', OnceInv', [PNext]_pvars
    PROVE  [Promise!Next]_<<{p \in Payments : charge[p] = "paid"},
                            [p \in Payments |-> Cardinality(CreditsOf(p))]>>
<1> DEFINE paid == {p \in Payments : charge[p] = "paid"}
           credits == [p \in Payments |-> Cardinality(CreditsOf(p))]
<1>0. CreditedOnce /\ CreditedOnce'
  BY DEF OnceInv
<1>1. ASSUME \A p \in Payments : CreditsOf(p)' = CreditsOf(p) PROVE UNCHANGED credits
  BY <1>1
<1>2. CASE \E q \in Payments : ChargeEnds(q, "paid")
  <2>1. PICK q \in Payments : ChargeEnds(q, "paid")
    BY <1>2
  <2>2. q \notin paid /\ paid' = paid \cup {q}
    BY <2>1 DEF ChargeEnds, PayInv, PTypeOK
  <2>3. \A p \in Payments : CreditsOf(p)' = CreditsOf(p)
    BY <2>1 DEF ChargeEnds, CreditsOf, vars
  <2>. QED
    BY <1>1, <2>2, <2>3 DEF Promise!Next, Promise!Pay
<1>3. CASE ~ \E q \in Payments : ChargeEnds(q, "paid")
  <2>1. UNCHANGED paid
    <3>1. ASSUME NEW h \in Creators, IntentCreated(h) PROVE UNCHANGED paid
      <4>1. charge[handler[h].pay] = "none"
        BY <3>1 DEF IntentCreated, At, OneCreator, PayInv
      <4>. QED
        BY <3>1, <4>1 DEF IntentCreated, PayInv, PTypeOK
    <3>2. ASSUME NEW q \in Payments, ChargeEnds(q, "declined") PROVE UNCHANGED paid
      BY <3>2 DEF ChargeEnds, PayInv, PTypeOK
    <3>3. CASE UNCHANGED charge
      BY <3>3
    <3>. QED
      BY <1>3, <3>1, <3>2, <3>3
         DEF PNext, HandlerStep, TopUpInserts, TopUpHasNoWallet, IntentRefused,
             TopUpLinks, TopUpGivesUp, Mark, Find, SaveEvent, Credit, Credited, ConfirmFind,
             Confirm, ConfirmSave, ConfirmFail, PollFind, Poll, PollSave,
             TopUpBegins, Deliver, DeliverUnverified, PollBegins, HandlerFault, WalletStep, payments, pvars
  <2>2. CASE \A p \in Payments : CreditsOf(p)' = CreditsOf(p)
    BY <1>1, <2>1, <2>2
  <2>3. ASSUME NEW h \in Genuine,
               UNCHANGED <<charge, handler>>, charge[handler[h].pay] = "paid",
               \A p \in Payments : CreditsOf(p)' =
                   IF p = handler[h].pay THEN CreditsOf(p) \cup {h} ELSE CreditsOf(p)
        PROVE  Promise!Next \/ UNCHANGED credits
    <3> DEFINE q == handler[h].pay
    <3>1. q \in Payments /\ q \in paid
      BY <2>3, PaymentAssumption DEF Genuine, PayInv, PTypeOK, Handler, Handlers
    <3>2. CASE h \in CreditsOf(q)
      BY <1>1, <2>3, <3>2
    <3>3. CASE h \notin CreditsOf(q)
      <4>1. CreditsOf(q) = {}
        <5>1. \A g \in CreditsOf(q) : g \in CreditsOf(q)' /\ h \in CreditsOf(q)'
          BY <2>3, <3>1
        <5>2. \A g \in CreditsOf(q)' : h \in CreditsOf(q)' => g = h
          BY <1>0, <2>3, <3>1 DEF CreditedOnce
        <5>. QED
          BY <3>3, <5>1, <5>2
      <4>2. CreditsOf(q)' = {h}
        BY <2>3, <3>1, <4>1
      <4>3. Cardinality({}) = 0 /\ Cardinality({h}) = 1
        BY FS_EmptySet, FS_Singleton
      <4>4. credits[q] = 0
        BY <3>1, <4>1, <4>3
      <4>5. credits' = [credits EXCEPT ![q] = 1]
        BY <2>3, <3>1, <4>2, <4>3
      <4>. QED
        BY <2>1, <3>1, <4>4, <4>5 DEF Promise!Next, Promise!Credit
    <3>. QED
      BY <3>2, <3>3
  <2>. QED
    BY <2>1, <2>2, <2>3, CreditsMove
<1>. QED
  BY <1>2, <1>3

LEMMA PromiseInit == PInit => Promise!Init
<1> SUFFICES ASSUME PInit PROVE Promise!Init
  OBVIOUS
<1>1. \A p \in Payments : CreditsOf(p) = {}
  BY IdleCallOK, PaymentAssumption DEF PInit, Init, CreditsOf, Genuine, IdleCall
<1>2. Cardinality({}) = 0
  BY FS_EmptySet
<1>. QED
  BY <1>1, <1>2 DEF PInit, Promise!Init

\* Top-ups keep their promise, "the notifications of a gateway credit a payment
\* that was paid, once, and no other", whatever fails: the only thing asked of a
\* gateway is not to repeat a notification that was answered with success.
THEOREM TopUpsKeepPromise ==
    ASSUME ~Redeliver PROVE PSpec => ImplementsTopUp
<1>1. /\ IInv /\ PayInv /\ OnceInv /\ PayInv' /\ OnceInv' /\ [PNext]_pvars
         => [Promise!Next]_<<{p \in Payments : charge[p] = "paid"},
                            [p \in Payments |-> Cardinality(CreditsOf(p))]>>
  BY PromiseStep
<1>. QED
  BY <1>1, PromiseInit, PaymentInv, WebhooksTakeTurns, PTL
     DEF PSpec, ImplementsTopUp, Promise!Spec, Promise!topUpVars
=============================================================================
