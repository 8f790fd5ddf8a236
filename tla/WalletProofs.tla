---------------------------- MODULE WalletProofs ----------------------------
(***************************************************************************)
(* Proofs about Wallet for any users, calls, amounts and column width.     *)
(***************************************************************************)
EXTENDS Wallet, FiniteSetTheorems, WellFoundedInduction, TLAPS

LEMMA IdleCallOK == /\ IdleCall \in Call
                    /\ IdleCall.stage = "idle"
                    /\ IdleCall.op = "open"
<1>1. (CHOOSE u \in Users : TRUE) \in Users
  BY WalletAssumption
<1>. QED
  BY <1>1, WalletAssumption DEF IdleCall, Call, Stages, Ops, Money

LEMMA InitInv == Init => IInv
<1> SUFFICES ASSUME Init PROVE IInv
  OBVIOUS
<1>1. TypeOK
  BY IdleCallOK, WalletAssumption DEF Init, TypeOK
<1>2. BalanceInRange /\ NothingMinted
  BY DEF Init, BalanceInRange, NothingMinted, Balance
<1>3. \A c \in Calls : CallOK(c)
  BY IdleCallOK DEF Init, CallOK
<1>. QED
  BY <1>1, <1>2, <1>3 DEF IInv

\* A step that leaves the wallets and their history alone keeps the invariant
\* as soon as the call that moved keeps its part.
LEMMA OnlyCallMoves ==
    ASSUME IInv, NEW c \in Calls,
           UNCHANGED <<balance, history>>,
           call' \in [Calls -> Call],
           \A d \in Calls \ {c} : call'[d] = call[d],
           CallOK(c)',
           transactions' \subseteq Row, usage' \subseteq UsageRow,
           faults' \in 0 .. MaxFaults
    PROVE  IInv'
<1>1. TypeOK'
  BY DEF IInv, TypeOK, history
<1>2. BalanceInRange' /\ NothingMinted'
  BY DEF IInv, BalanceInRange, NothingMinted, Balance, history
<1>3. ASSUME NEW d \in Calls PROVE CallOK(d)'
  <2>1. CASE d = c
    BY <2>1
  <2>2. CASE d # c
    BY <2>2 DEF IInv, CallOK, history, NewBalance, InvalidAmount, Overdraft
  <2>. QED
    BY <2>1, <2>2
<1>. QED
  BY <1>1, <1>2, <1>3 DEF IInv

LEMMA BeginInv ==
    ASSUME IInv, NEW c \in Calls, NEW op \in Ops, NEW u \in Users,
           NEW a \in Amounts, Begin(c, op, u, a)
    PROVE  IInv'
<1>1. UNCHANGED <<balance, history>> /\ UNCHANGED <<transactions, usage, faults>>
  BY DEF Begin, tables
<1>2. [IdleCall EXCEPT !.stage = "find", !.op = op, !.user = u, !.amount = a] \in Call
  BY IdleCallOK, WalletAssumption DEF Call, Stages
<1>3. call' \in [Calls -> Call] /\ \A d \in Calls \ {c} : call'[d] = call[d]
  BY <1>2 DEF Begin, IInv, TypeOK
<1>4. /\ call'[c].stage = "find"
      /\ call'[c].op = "deduct" => call'[c].amount >= 0
  BY IdleCallOK, WalletAssumption DEF Begin, IInv, TypeOK, Call
<1>5. CallOK(c)'
  BY <1>4 DEF CallOK
<1>. QED
  BY <1>1, <1>3, <1>5, OnlyCallMoves DEF IInv, TypeOK

\* What AfterFind may return, and what returning "save" means.
LEMMA AfterFindOK ==
    ASSUME NEW k \in Call, NEW b \in Money
    PROVE  /\ AfterFind(k, b) \in {"failed", "done", "save"}
           /\ AfterFind(k, b) = "save" =>
                 /\ k.op # "open"
                 /\ ~InvalidAmount(k)
                 /\ ~Overdraft(k, b)
BY DEF AfterFind

LEMMA FindWalletInv ==
    ASSUME IInv, NEW c \in Calls, FindWallet(c)
    PROVE  IInv'
<1> DEFINE k == call[c]
           b == balance[k.user]
<1>1. UNCHANGED <<balance, history>> /\ UNCHANGED <<transactions, usage, faults>>
  BY DEF FindWallet, tables
<1>2. k \in Call /\ k.user \in Users
  BY DEF IInv, TypeOK, Call
<1>3. b \in Money /\ b <= given[k.user]
  BY <1>2 DEF FindWallet, IInv, BalanceInRange, NothingMinted, Balance
<1>4. call' = [call EXCEPT ![c] = [k EXCEPT !.before = b, !.stage = AfterFind(k, b)]]
  BY <1>2 DEF FindWallet, IInv, TypeOK, Call
<1>5. call'[c] = [k EXCEPT !.before = b, !.stage = AfterFind(k, b)]
  BY <1>4 DEF IInv, TypeOK
<1>6. call' \in [Calls -> Call] /\ \A d \in Calls \ {c} : call'[d] = call[d]
  <2>1. [k EXCEPT !.before = b, !.stage = AfterFind(k, b)] \in Call
    <3>1. AfterFind(k, b) \in Stages
      BY <1>2, <1>3, AfterFindOK DEF Stages
    <3>2. b \in Int
      BY <1>3, WalletAssumption DEF Money
    <3>. QED
      BY <1>2, <3>1, <3>2 DEF Call
  <2>. QED
    BY <1>4, <2>1 DEF IInv, TypeOK
<1>7. CallOK(c)'
  <2>1. /\ call'[c].stage = AfterFind(k, b)
        /\ call'[c].before = b
        /\ call'[c].op = k.op /\ call'[c].amount = k.amount /\ call'[c].user = k.user
    BY <1>2, <1>5 DEF Call
  <2>2. k.op = "deduct" => k.amount >= 0
    BY DEF IInv, CallOK
  <2>3. AfterFind(k, b) = "save" => /\ k.op # "open"
                                    /\ ~InvalidAmount(k)
                                    /\ ~Overdraft(k, b)
    BY <1>2, <1>3, AfterFindOK
  <2>4. AfterFind(k, b) \notin {"usage", "post"}
    BY <1>2, <1>3, AfterFindOK
  <2>. QED
    BY <1>1, <1>3, <2>1, <2>2, <2>3, <2>4
    DEF CallOK, InvalidAmount, Overdraft, history
<1>. QED
  BY <1>1, <1>6, <1>7, OnlyCallMoves DEF IInv, TypeOK

\* Changing nothing but the stage of a call.
LEMMA StageMoves ==
    ASSUME IInv, NEW c \in Calls, NEW s \in Stages,
           call' = [call EXCEPT ![c].stage = s]
    PROVE  /\ call' \in [Calls -> Call]
           /\ \A d \in Calls \ {c} : call'[d] = call[d]
           /\ call'[c].stage = s
           /\ call'[c].op = call[c].op
           /\ call'[c].amount = call[c].amount
           /\ call'[c].before = call[c].before
           /\ call'[c].user = call[c].user
BY DEF IInv, TypeOK, Call

\* A call that ends, or goes on to insert a wallet, owes nothing.
LEMMA CallEndsInv ==
    ASSUME IInv, NEW c \in Calls, NEW s \in {"failed", "done", "insert"},
           call' = [call EXCEPT ![c].stage = s],
           UNCHANGED <<balance, history>>,
           transactions' \subseteq Row, usage' \subseteq UsageRow,
           faults' \in 0 .. MaxFaults
    PROVE  IInv'
<1>1. s \in Stages
  BY DEF Stages
<1>2. CallOK(c)'
  BY <1>1, StageMoves DEF CallOK, IInv
<1>. QED
  BY <1>1, <1>2, StageMoves, OnlyCallMoves

LEMMA FindNoWalletInv ==
    ASSUME IInv, NEW c \in Calls, FindNoWallet(c)
    PROVE  IInv'
<1>1. PICK s \in {"failed", "insert"} : call' = [call EXCEPT ![c].stage = s]
  BY DEF FindNoWallet
<1>2. UNCHANGED <<balance, history>> /\ UNCHANGED <<transactions, usage, faults>>
  BY DEF FindNoWallet, tables
<1>. QED
  BY <1>1, <1>2, CallEndsInv DEF IInv, TypeOK

LEMMA InsertDuplicateInv ==
    ASSUME IInv, NEW c \in Calls, InsertDuplicate(c)
    PROVE  IInv'
<1>1. UNCHANGED <<balance, history>> /\ UNCHANGED <<transactions, usage, faults>>
  BY DEF InsertDuplicate, tables
<1>. QED
  BY <1>1, CallEndsInv DEF InsertDuplicate, IInv, TypeOK

LEMMA SaveOverflowsInv ==
    ASSUME IInv, NEW c \in Calls, SaveOverflows(c)
    PROVE  IInv'
<1>1. UNCHANGED <<balance, history>> /\ UNCHANGED <<transactions, usage, faults>>
  BY DEF SaveOverflows, tables
<1>. QED
  BY <1>1, CallEndsInv DEF SaveOverflows, IInv, TypeOK

LEMMA FaultInv ==
    ASSUME IInv, NEW c \in Calls, Fault(c)
    PROVE  IInv'
<1>1. UNCHANGED <<balance, history>> /\ UNCHANGED <<transactions, usage>>
  BY DEF Fault, tables
<1>2. faults' \in 0 .. MaxFaults
  BY WalletAssumption DEF Fault, IInv, TypeOK
<1>. QED
  BY <1>1, <1>2, CallEndsInv DEF Fault, IInv, TypeOK

LEMMA SaveUsageInv ==
    ASSUME IInv, NEW c \in Calls, SaveUsage(c)
    PROVE  IInv'
<1>1. UNCHANGED <<balance, history>> /\ UNCHANGED <<transactions, faults>>
  BY DEF SaveUsage
<1>2. call[c] \in Call /\ NewBalance(call[c]) \in Money
  BY DEF SaveUsage, IInv, TypeOK, CallOK
<1>3. usage' \subseteq UsageRow
  BY <1>2, WalletAssumption DEF SaveUsage, IInv, TypeOK, UsageRow, Call, Money
<1>4. call' = [call EXCEPT ![c].stage = "post"]
  BY DEF SaveUsage
<1>5. "post" \in Stages
  BY DEF Stages
<1>6. CallOK(c)'
  BY <1>2, <1>4, <1>5, StageMoves DEF CallOK, IInv, NewBalance
<1>. QED
  BY <1>1, <1>3, <1>4, <1>5, <1>6, StageMoves, OnlyCallMoves DEF IInv, TypeOK

LEMMA SaveTransactionInv ==
    ASSUME IInv, NEW c \in Calls, SaveTransaction(c)
    PROVE  IInv'
<1>1. UNCHANGED <<balance, history>> /\ UNCHANGED <<usage, faults>>
  BY DEF SaveTransaction
<1>2. call[c] \in Call /\ NewBalance(call[c]) \in Money
  BY DEF SaveTransaction, IInv, TypeOK, CallOK
<1>3. transactions' \subseteq Row
  BY <1>2, WalletAssumption DEF SaveTransaction, IInv, TypeOK, Row, Call, Money
<1>. QED
  BY <1>1, <1>3, CallEndsInv DEF SaveTransaction, IInv, TypeOK

LEMMA InsertWalletInv ==
    ASSUME IInv, NEW c \in Calls, InsertWallet(c)
    PROVE  IInv'
<1> DEFINE k == call[c]
<1>1. k \in Call /\ k.user \in Users /\ 0 \in Money
  BY WalletAssumption DEF IInv, TypeOK, Call, Money
<1>2. /\ UNCHANGED history /\ UNCHANGED <<transactions, usage, faults>>
      /\ balance' = [balance EXCEPT ![k.user] = 0]
      /\ balance[k.user] = NoWallet
  BY DEF InsertWallet
<1>3. \A u \in Users : Balance(u)' = Balance(u)
  BY <1>1, <1>2, WalletAssumption DEF Balance, IInv, TypeOK
<1>4. call' = [call EXCEPT ![c] = [k EXCEPT !.before = 0, !.stage = AfterFind(k, 0)]]
  BY <1>1 DEF InsertWallet, IInv, TypeOK, Call
<1>5. [k EXCEPT !.before = 0, !.stage = AfterFind(k, 0)] \in Call
  <2>1. AfterFind(k, 0) \in Stages
    BY <1>1, AfterFindOK DEF Stages
  <2>2. 0 \in Int
    OBVIOUS
  <2>. QED
    BY <1>1, <2>1, <2>2 DEF Call
<1>6. call' \in [Calls -> Call] /\ \A d \in Calls \ {c} : call'[d] = call[d]
  BY <1>4, <1>5 DEF IInv, TypeOK
<1>7. TypeOK'
  BY <1>1, <1>2, <1>6 DEF IInv, TypeOK, history
<1>8. BalanceInRange' /\ NothingMinted'
  BY <1>1, <1>2, <1>3 DEF IInv, TypeOK, BalanceInRange, NothingMinted, history
<1>9. CallOK(c)'
  <2>1. call'[c] = [k EXCEPT !.before = 0, !.stage = AfterFind(k, 0)]
    BY <1>4 DEF IInv, TypeOK
  <2>2. /\ call'[c].stage = AfterFind(k, 0)
        /\ call'[c].before = 0
        /\ call'[c].op = k.op /\ call'[c].amount = k.amount /\ call'[c].user = k.user
    BY <1>1, <2>1 DEF Call
  <2>3. k.op = "deduct" => k.amount >= 0
    BY DEF IInv, CallOK
  <2>4. /\ AfterFind(k, 0) \notin {"usage", "post"}
        /\ AfterFind(k, 0) = "save" => /\ k.op # "open"
                                       /\ ~InvalidAmount(k)
                                       /\ ~Overdraft(k, 0)
    BY <1>1, AfterFindOK
  <2>5. 0 <= given'[k.user]
    BY <1>1, <1>2 DEF IInv, TypeOK, history
  <2>. QED
    BY <1>1, <2>2, <2>3, <2>4, <2>5 DEF CallOK, InvalidAmount, Overdraft
<1>10. ASSUME NEW d \in Calls \ {c} PROVE CallOK(d)'
  BY <1>2, <1>6 DEF IInv, CallOK, history, NewBalance, InvalidAmount, Overdraft
<1>. QED
  BY <1>7, <1>8, <1>9, <1>10 DEF IInv

\* The heart of the argument: the balance written was read as at most given
\* and checked to cover what is taken from it.
LEMMA SaveWalletInv ==
    ASSUME IInv, NEW c \in Calls, SaveWallet(c)
    PROVE  IInv'
<1> DEFINE k == call[c]
           u == k.user
           credit == IF k.op = "credit" THEN k.amount ELSE 0
           debit  == IF k.op = "credit" THEN 0 ELSE k.amount
<1>1. k \in Call /\ u \in Users /\ k.amount \in Int /\ k.before \in Money
  BY DEF SaveWallet, IInv, TypeOK, CallOK, Call
<1>2. /\ k.op # "open" /\ ~InvalidAmount(k) /\ ~Overdraft(k, k.before)
      /\ k.before <= given[u] /\ (k.op = "deduct" => k.amount >= 0)
  BY DEF SaveWallet, IInv, CallOK
<1>3. credit \in Nat /\ debit \in Nat
  BY <1>1, <1>2 DEF InvalidAmount, Call, Ops
<1>4. NewBalance(k) = k.before + credit - debit
  BY <1>1, WalletAssumption DEF NewBalance, Money
<1>5. NewBalance(k) \in Money
  BY <1>1, <1>2, <1>3, WalletAssumption
     DEF SaveWallet, NewBalance, Money, Overdraft, InvalidAmount, Call, Ops
<1>6. NewBalance(k) <= given[u] + credit
  BY <1>1, <1>2, <1>3, <1>4, WalletAssumption DEF IInv, TypeOK, Money
<1>7. /\ given' = [given EXCEPT ![u] = given[u] + credit]
      /\ taken' = [taken EXCEPT ![u] = taken[u] + debit]
      /\ lost' = [lost EXCEPT ![u] = lost[u] + (Balance(u) - k.before)]
      /\ balance' = [balance EXCEPT ![u] = NewBalance(k)]
      /\ UNCHANGED <<transactions, usage, faults>>
  BY DEF SaveWallet
<1>8. \A v \in Users : given'[v] \in Nat /\ given[v] <= given'[v]
  BY <1>1, <1>3, <1>7 DEF IInv, TypeOK
<1>9. PICK s \in {"usage", "post"} :
         call' = [call EXCEPT ![c] = [k EXCEPT !.saved = TRUE, !.stage = s]]
  <2>1. (IF k.op = "deduct" THEN "usage" ELSE "post") \in {"usage", "post"}
    OBVIOUS
  <2>. QED
    BY <1>1, <2>1 DEF SaveWallet, IInv, TypeOK, Call
<1>10. [k EXCEPT !.saved = TRUE, !.stage = s] \in Call
  BY <1>1 DEF Call, Stages
<1>11. /\ call' \in [Calls -> Call]
       /\ call'[c] = [k EXCEPT !.saved = TRUE, !.stage = s]
       /\ \A d \in Calls \ {c} : call'[d] = call[d]
  BY <1>9, <1>10 DEF IInv, TypeOK
<1>12. TypeOK'
  <2>1. Balance(u) \in Int
    BY <1>1 DEF Balance, IInv, TypeOK
  <2>2. /\ given' \in [Users -> Nat]
        /\ taken' \in [Users -> Nat]
        /\ lost' \in [Users -> Int]
    BY <1>1, <1>3, <1>7, <2>1 DEF IInv, TypeOK, Money
  <2>3. balance' \in [Users -> Int \cup {NoWallet}]
    BY <1>1, <1>5, <1>7 DEF IInv, TypeOK, Money
  <2>. QED
    BY <1>7, <1>11, <2>2, <2>3 DEF IInv, TypeOK
<1>13. BalanceInRange'
  BY <1>1, <1>5, <1>7 DEF IInv, TypeOK, BalanceInRange
<1>14. NothingMinted'
  <2>1. ASSUME NEW v \in Users PROVE Balance(v)' <= given'[v]
    <3>1. CASE v = u
      <4>1. balance'[u] = NewBalance(k) /\ given'[u] = given[u] + credit
        BY <1>1, <1>7 DEF IInv, TypeOK
      <4>2. NewBalance(k) # NoWallet
        BY <1>5, WalletAssumption DEF Money
      <4>. QED
        BY <3>1, <4>1, <4>2, <1>6 DEF Balance
    <3>2. CASE v # u
      BY <3>2, <1>1, <1>7 DEF Balance, IInv, TypeOK, NothingMinted
    <3>. QED
      BY <3>1, <3>2
  <2>. QED
    BY <2>1 DEF NothingMinted
<1>15. CallOK(c)'
  <2>1. /\ call'[c].stage = s
        /\ call'[c].op = k.op /\ call'[c].amount = k.amount
        /\ call'[c].before = k.before
    BY <1>1, <1>11 DEF Call
  <2>. QED
    BY <2>1, <1>2, <1>5 DEF CallOK, NewBalance
<1>16. ASSUME NEW d \in Calls \ {c} PROVE CallOK(d)'
  <2>1. call[d].user \in Users /\ call[d].before \in Int
    BY WalletAssumption DEF IInv, TypeOK, Call, Money
  <2>2. call'[d] = call[d] /\ CallOK(d)
    BY <1>11 DEF IInv
  <2>3. call[d].before <= given[call[d].user] => call[d].before <= given'[call[d].user]
    BY <2>1, <1>8 DEF IInv, TypeOK
  <2>. QED
    BY <2>2, <2>3 DEF CallOK, NewBalance, InvalidAmount, Overdraft
<1>. QED
  BY <1>12, <1>13, <1>14, <1>15, <1>16 DEF IInv

LEMMA NextInv == IInv /\ [Next]_vars => IInv'
<1> SUFFICES ASSUME IInv, [Next]_vars PROVE IInv'
  OBVIOUS
<1>1. CASE Next
  <2>1. PICK c \in Calls :
           \/ \E op \in Ops, u \in Users, a \in Amounts : Begin(c, op, u, a)
           \/ Step(c)
    BY <1>1 DEF Next
  <2>2. CASE \E op \in Ops, u \in Users, a \in Amounts : Begin(c, op, u, a)
    BY <2>2, BeginInv
  <2>3. CASE Step(c)
    BY <2>3, FindWalletInv, FindNoWalletInv, InsertWalletInv, InsertDuplicateInv,
       SaveWalletInv, SaveOverflowsInv, SaveUsageInv, SaveTransactionInv, FaultInv
       DEF Step
  <2>. QED
    BY <2>1, <2>2, <2>3
<1>2. CASE UNCHANGED vars
  BY <1>2 DEF vars, tables, history, IInv, TypeOK, BalanceInRange, NothingMinted,
     Balance, CallOK, NewBalance, InvalidAmount, Overdraft
<1>. QED
  BY <1>1, <1>2

LEMMA InvariantHolds == Spec => []IInv
BY InitInv, NextInv, PTL DEF Spec

-----------------------------------------------------------------------------
(* The theorems. *)

\* Every table and every call of WalletService stays well typed.
THEOREM TypeCorrect == Spec => []TypeOK
<1>1. IInv => TypeOK
  BY DEF IInv
<1>. QED
  BY <1>1, InvariantHolds, PTL

\* No interleaving of credits, debits and deductions, and no failure between
\* their queries, takes a wallet below zero or above its column's range.
THEOREM NoOverdraft == Spec => []BalanceInRange
<1>1. IInv => BalanceInRange
  BY DEF IInv
<1>. QED
  BY <1>1, InvariantHolds, PTL

\* Lost updates never leave a wallet with more than was ever paid into it.
THEOREM NoMinting == Spec => []NothingMinted
<1>1. IInv => NothingMinted
  BY DEF IInv
<1>. QED
  BY <1>1, InvariantHolds, PTL

-----------------------------------------------------------------------------
(* Calls that do not overlap implement an atomic account. *)

LEMMA SerialInit == Init => SerialInv
BY IdleCallOK DEF Init, SerialInv, InFlight, Running

\* A step of a call that was running leaves at most that call running.
LEMMA StillSerial ==
    ASSUME SerialInv, Serial, NEW c \in InFlight,
           \A d \in Calls \ {c} : call'[d] = call[d]
    PROVE  /\ \A d, e \in InFlight' : d = e
           /\ \A d \in Calls : call'[d].stage = "save" => d = c
<1>1. \A d \in Calls \ {c} : call'[d].stage \notin Running
  BY DEF SerialInv, InFlight
<1>2. "save" \in Running
  BY DEF Running
<1>. QED
  BY <1>1, <1>2 DEF InFlight

LEMMA SerialStep ==
    ASSUME IInv, SerialInv, NEW c \in Calls, Step(c)
    PROVE  SerialInv'
<1> SUFFICES ASSUME Serial PROVE SerialInv'
  BY DEF SerialInv
<1> DEFINE k == call[c]
<1>1. c \in InFlight
  BY DEF Step, FindWallet, FindNoWallet, InsertWallet, InsertDuplicate, SaveWallet,
     SaveOverflows, SaveUsage, SaveTransaction, Fault, InFlight, Running
<1>2. \A d \in Calls \ {c} : call'[d] = call[d]
  BY DEF Step, FindWallet, FindNoWallet, InsertWallet, InsertDuplicate, SaveWallet,
     SaveOverflows, SaveUsage, SaveTransaction, Fault, IInv, TypeOK
<1>3. /\ \A d, e \in InFlight' : d = e
      /\ \A d \in Calls : call'[d].stage = "save" => d = c
  BY <1>1, <1>2, StillSerial
<1>4. k \in Call /\ k.user \in Users
  BY DEF IInv, TypeOK, Call
<1>5. call'[c].stage = "save" => /\ balance'[call'[c].user] # NoWallet
                                 /\ call'[c].before = balance'[call'[c].user]
  <2>1. CASE FindWallet(c)
    <3>1. call'[c].before = balance[k.user] /\ call'[c].user = k.user
      BY <2>1, <1>4 DEF FindWallet, IInv, TypeOK, Call
    <3>2. balance'[k.user] = balance[k.user] /\ balance[k.user] # NoWallet
      BY <2>1 DEF FindWallet, tables
    <3>. QED
      BY <3>1, <3>2
  <2>2. CASE InsertWallet(c)
    <3>1. call'[c].before = 0 /\ call'[c].user = k.user
      BY <2>2, <1>4 DEF InsertWallet, IInv, TypeOK, Call
    <3>2. balance'[k.user] = 0
      BY <2>2, <1>4 DEF InsertWallet, IInv, TypeOK
    <3>. QED
      BY <3>1, <3>2, WalletAssumption
  <2>3. CASE SaveWallet(c)
    BY <2>3, <1>4 DEF SaveWallet, IInv, TypeOK, Call
  <2>4. CASE FindNoWallet(c) \/ InsertDuplicate(c) \/ SaveOverflows(c)
             \/ SaveUsage(c) \/ SaveTransaction(c) \/ Fault(c)
    BY <2>4, <1>4 DEF FindNoWallet, InsertDuplicate, SaveOverflows, SaveUsage,
       SaveTransaction, Fault, IInv, TypeOK, Call
  <2>. QED
    BY <2>1, <2>2, <2>3, <2>4 DEF Step
<1>6. \A u \in Users : lost'[u] = 0
  <2>1. CASE SaveWallet(c)
    <3>1. Balance(k.user) = k.before /\ k.before \in Int /\ lost[k.user] = 0
      BY <2>1, <1>4 DEF SaveWallet, SerialInv, Balance, Call
    <3>2. lost' = [lost EXCEPT ![k.user] = lost[k.user] + (Balance(k.user) - k.before)]
      BY <2>1 DEF SaveWallet
    <3>3. Balance(k.user) - k.before = 0
      BY <3>1
    <3>4. lost[k.user] + (Balance(k.user) - k.before) = 0
      BY <3>1, <3>3
    <3>5. lost' = [lost EXCEPT ![k.user] = 0]
      BY <3>2, <3>4
    <3>. QED
      BY <3>5, <1>4 DEF SerialInv, IInv, TypeOK
  <2>2. CASE UNCHANGED lost
    BY <2>2 DEF SerialInv
  <2>. QED
    BY <2>1, <2>2 DEF Step, FindWallet, FindNoWallet, InsertWallet, InsertDuplicate,
       SaveOverflows, SaveUsage, SaveTransaction, Fault, history
<1>. QED
  BY <1>3, <1>5, <1>6 DEF SerialInv

LEMMA SerialNext == IInv /\ SerialInv /\ [Next]_vars => SerialInv'
<1> SUFFICES ASSUME IInv, SerialInv, [Next]_vars, Serial PROVE SerialInv'
  BY DEF SerialInv
<1>1. CASE Next
  <2>1. PICK c \in Calls :
           \/ \E op \in Ops, u \in Users, a \in Amounts : Begin(c, op, u, a)
           \/ Step(c)
    BY <1>1 DEF Next
  <2>2. CASE \E op \in Ops, u \in Users, a \in Amounts : Begin(c, op, u, a)
    <3>1. PICK op \in Ops, u \in Users, a \in Amounts : Begin(c, op, u, a)
      BY <2>2
    <3>2. InFlight = {} /\ UNCHANGED <<balance, lost>>
      BY <3>1 DEF Begin, tables, history
    <3>3. \A d \in Calls \ {c} : call'[d] = call[d]
      BY <3>1 DEF Begin, IInv, TypeOK
    <3>4. call'[c].stage = "find"
      BY <3>1, IdleCallOK DEF Begin, IInv, TypeOK, Call
    <3>5. \A d \in Calls \ {c} : call'[d].stage \notin Running
      BY <3>2, <3>3 DEF InFlight
    <3>. QED
      BY <3>2, <3>4, <3>5 DEF SerialInv, InFlight, Running
  <2>3. CASE Step(c)
    BY <2>3, SerialStep
  <2>. QED
    BY <2>1, <2>2, <2>3
<1>2. CASE UNCHANGED vars
  BY <1>2 DEF vars, tables, history, SerialInv, InFlight
<1>. QED
  BY <1>1, <1>2

\* Calls that wait for each other never save over a balance they did not read.
THEOREM NoStaleSave == Spec => []SerialInv
BY SerialInit, SerialNext, InvariantHolds, PTL DEF Spec

LEMMA RefineInit == Init => Ledger!Init
BY DEF Init, Ledger!Init, Balance

LEMMA RefineStep ==
    ASSUME IInv, SerialInv, Serial, [Next]_vars
    PROVE  [Ledger!Next]_<<[u \in Users |-> Balance(u)], given, taken>>
<1> DEFINE funds == [u \in Users |-> Balance(u)]
<1>1. CASE UNCHANGED <<balance, given, taken>>
  BY <1>1 DEF Balance
<1>2. ASSUME NEW c \in Calls, InsertWallet(c)
      PROVE  UNCHANGED <<funds, given, taken>>
  <2>1. call[c].user \in Users
    BY DEF IInv, TypeOK, Call
  <2>2. \A u \in Users : Balance(u)' = Balance(u)
    BY <1>2, <2>1, WalletAssumption DEF InsertWallet, Balance, IInv, TypeOK
  <2>. QED
    BY <1>2, <2>2 DEF InsertWallet, history
<1>3. ASSUME NEW c \in Calls, SaveWallet(c)
      PROVE  Ledger!Next
  <2> DEFINE k == call[c]
             u == k.user
  <2>1. /\ u \in Users /\ k.amount \in Int
        /\ Balance(u) = k.before /\ k.before \in Money /\ k.before \in Int
    BY <1>3, WalletAssumption
       DEF SaveWallet, IInv, TypeOK, Call, SerialInv, Balance, CallOK, Money
  <2>2. /\ k.op \in Ops /\ k.op # "open" /\ ~InvalidAmount(k) /\ ~Overdraft(k, k.before)
        /\ k.op = "deduct" => k.amount >= 0
    BY <1>3 DEF SaveWallet, IInv, TypeOK, Call, CallOK
  <2>3. \A v \in Users \ {u} : Balance(v)' = Balance(v)
    BY <1>3, <2>1 DEF SaveWallet, Balance, IInv, TypeOK
  <2>4. \A v \in Users : v = u => Balance(v)' = NewBalance(k)
    <3>1. balance'[u] = NewBalance(k)
      BY <1>3, <2>1 DEF SaveWallet, IInv, TypeOK
    <3>2. NewBalance(k) \in Int
      BY <2>1 DEF NewBalance
    <3>. QED
      BY <3>1, <3>2, WalletAssumption DEF Balance
  <2>5. funds' = [funds EXCEPT ![u] = NewBalance(k)]
    BY <2>1, <2>3, <2>4
  <2>6. funds[u] = k.before
    BY <2>1
  <2>7. CASE k.op = "credit"
    <3>1. k.amount \in 1 .. MaxMoney - funds[u]
      BY <1>3, <2>1, <2>2, <2>6, <2>7, WalletAssumption
         DEF SaveWallet, NewBalance, InvalidAmount
    <3>2. funds' = [funds EXCEPT ![u] = funds[u] + k.amount]
      BY <2>5, <2>6, <2>7 DEF NewBalance
    <3>3. /\ given' = [given EXCEPT ![u] = given[u] + k.amount]
          /\ taken' = [taken EXCEPT ![u] = taken[u] + 0]
      BY <1>3, <2>7 DEF SaveWallet
    <3>4. taken' = taken
      BY <2>1, <3>3 DEF IInv, TypeOK
    <3>. QED
      BY <2>1, <3>1, <3>2, <3>3, <3>4 DEF Ledger!Next, Ledger!Deposit
  <2>8. CASE k.op # "credit"
    <3>1. k.amount \in 0 .. funds[u]
      BY <2>1, <2>2, <2>6, <2>8 DEF Ops, InvalidAmount, Overdraft
    <3>2. funds' = [funds EXCEPT ![u] = funds[u] - k.amount]
      BY <2>5, <2>6, <2>8 DEF NewBalance
    <3>3. /\ taken' = [taken EXCEPT ![u] = taken[u] + k.amount]
          /\ given' = [given EXCEPT ![u] = given[u] + 0]
      BY <1>3, <2>8 DEF SaveWallet
    <3>4. given' = given
      BY <2>1, <3>3 DEF IInv, TypeOK
    <3>. QED
      BY <2>1, <3>1, <3>2, <3>3, <3>4 DEF Ledger!Next, Ledger!Withdraw
  <2>. QED
    BY <2>7, <2>8
<1>4. CASE Next
  <2>1. PICK c \in Calls :
           \/ \E op \in Ops, u \in Users, a \in Amounts : Begin(c, op, u, a)
           \/ Step(c)
    BY <1>4 DEF Next
  <2>2. \/ UNCHANGED <<balance, given, taken>>
        \/ InsertWallet(c)
        \/ SaveWallet(c)
    BY <2>1 DEF Begin, Step, FindWallet, FindNoWallet, InsertDuplicate,
       SaveOverflows, SaveUsage, SaveTransaction, Fault, tables, history
  <2>. QED
    BY <1>1, <1>2, <1>3, <2>2
<1>5. CASE UNCHANGED vars
  BY <1>1, <1>5 DEF vars, tables, history
<1>. QED
  BY <1>4, <1>5

\* As long as callers wait for a call to end before they start the next one,
\* and wherever calls fail, WalletService is an atomic account.
THEOREM SerialImplementsAccount ==
    ASSUME Serial PROVE Spec => ImplementsAccount
<1>1. Init => Ledger!Init
  BY RefineInit
<1>2. IInv /\ SerialInv /\ [Next]_vars
         => [Ledger!Next]_<<[u \in Users |-> Balance(u)], given, taken>>
  BY RefineStep
<1>. QED
  BY <1>1, <1>2, InvariantHolds, NoStaleSave, PTL
     DEF Spec, ImplementsAccount, Ledger!Spec

-----------------------------------------------------------------------------
(* Minimal elements and sums over finite sets.  An induction is written as an *)
(* argument about a minimal counterexample: the well-founded orders of the    *)
(* library are used through WFMin.                                            *)

LEMMA LeastNumber ==
    ASSUME NEW T \in SUBSET Nat, T # {}
    PROVE  \E m \in T : \A n \in T : m <= n
<1> DEFINE R == OpToRel(<, Nat)
<1>1. IsWellFoundedOn(R, Nat)
  BY NatLessThanWellFounded
<1>2. ASSUME NEW m \in T, NEW n \in T, n < m PROVE <<n, m>> \in R
  BY <1>2 DEF OpToRel
<1> HIDE DEF R
<1>3. PICK m \in T : \A n \in T : ~(<<n, m>> \in R)
  BY <1>1, WFMin
<1>4. ASSUME NEW n \in T PROVE m <= n
  <2>1. m \in Nat /\ n \in Nat /\ ~(n < m)
    BY <1>2, <1>3
  <2>. QED
    BY <2>1
<1>. QED
  BY <1>4

LEMMA MinimalSubset ==
    ASSUME NEW S, IsFiniteSet(S), NEW T \in SUBSET SUBSET S, T # {}
    PROVE  \E s \in T : \A t \in T : t \subseteq s => t = s
<1> DEFINE R == StrictSubsetOrdering(S)
<1>1. IsWellFoundedOn(R, FiniteSubsetsOf(S))
  BY FS_StrictSubsetOrderingWellFounded
<1>2. T \subseteq FiniteSubsetsOf(S)
  BY FS_FiniteSubsetsOfFinite
<1>3. ASSUME NEW s \in T, NEW t \in T, t \subseteq s, t # s PROVE <<t, s>> \in R
  BY <1>3 DEF StrictSubsetOrdering
<1> HIDE DEF R
<1>4. \E s \in T : \A t \in T : ~(<<t, s>> \in R)
  BY <1>1, <1>2, WFMin
<1>. QED
  BY <1>3, <1>4

\* The element the definition of the sum takes next, and its recursion.
Pick(s) == CHOOSE x \in s : TRUE
SumsUp(g, f, D) == g = [s \in D |-> IF s = {} THEN 0 ELSE f[Pick(s)] + g[s \ {Pick(s)}]]

LEMMA PickIn == ASSUME NEW s, s # {} PROVE Pick(s) \in s
BY DEF Pick

LEMMA SumDefinition ==
    ASSUME NEW f, NEW S
    PROVE  SumFunctionOnSet(f, S) = (CHOOSE g : SumsUp(g, f, SUBSET S))[S]
BY DEF SumFunctionOnSet, FoldFunctionOnSet, MapThenFoldSet, SumsUp, Pick

LEMMA SumsUpExists ==
    ASSUME NEW f, NEW S, IsFiniteSet(S)
    PROVE  \E g : SumsUp(g, f, SUBSET S)
<1> DEFINE D(n) == {s \in SUBSET S : Cardinality(s) <= n}
           bad == {n \in Nat : ~ \E g : SumsUp(g, f, D(n))}
<1>1. \A s \in SUBSET S : IsFiniteSet(s) /\ Cardinality(s) \in Nat
                          /\ Cardinality(s) <= Cardinality(S)
  BY FS_Subset, FS_CardinalityType
<1>2. bad = {}
  <2>1. SUFFICES ASSUME NEW n \in bad, \A m \in bad : n <= m PROVE FALSE
    <3> HIDE DEF bad
    <3>1. bad \in SUBSET Nat
      BY DEF bad
    <3>. QED
      BY <3>1, LeastNumber
  <2>2. CASE n = 0
    <3>1. \A s \in D(0) : s = {}
      BY <1>1, FS_EmptySet
    <3> DEFINE g == [s \in D(0) |-> 0]
    <3>2. SumsUp(g, f, D(0))
      BY <3>1 DEF SumsUp
    <3>. QED
      BY <2>2, <3>2
  <2>3. CASE n # 0
    <3>1. n \in Nat /\ n - 1 \in Nat /\ n - 1 < n
      BY <2>3
    <3>2. n - 1 \notin bad
      <4> HIDE DEF bad
      <4>. QED
        BY <2>1, <3>1
    <3>7. PICK g : SumsUp(g, f, D(n - 1))
      BY <3>1, <3>2
    <3> DEFINE h == [s \in D(n) |-> IF s = {} THEN 0 ELSE f[Pick(s)] + g[s \ {Pick(s)}]]
    <3>3. ASSUME NEW s \in D(n), s # {}
          PROVE  s \ {Pick(s)} \in D(n - 1)
      <4>1. Pick(s) \in s
        BY <3>3, PickIn
      <4>2. Cardinality(s \ {Pick(s)}) = Cardinality(s) - 1
        BY <1>1, <4>1, FS_RemoveElement
      <4>. QED
        BY <1>1, <4>2
    <3>4. \A s \in D(n - 1) : s \in D(n) /\ h[s] = g[s]
      <4>1. \A s \in D(n - 1) : s \in D(n)
        BY <1>1, <2>1
      <4>2. \A s \in D(n - 1) : g[s] = IF s = {} THEN 0 ELSE f[Pick(s)] + g[s \ {Pick(s)}]
        BY <3>7 DEF SumsUp
      <4>. QED
        BY <4>1, <4>2
    <3>5. h = [s \in D(n) |-> IF s = {} THEN 0 ELSE f[Pick(s)] + h[s \ {Pick(s)}]]
      BY <3>3, <3>4
    <3>6. SumsUp(h, f, D(n))
      BY <3>5 DEF SumsUp
    <3>. QED
      BY <3>6
  <2>. QED
    BY <2>2, <2>3
<1>3. Cardinality(S) \in Nat /\ D(Cardinality(S)) = SUBSET S
  BY <1>1, FS_CardinalityType
<1>. QED
  BY <1>2, <1>3

\* What the sum of f over the subsets of a finite set satisfies.
LEMMA SumRecursion ==
    ASSUME NEW f, NEW S, IsFiniteSet(S)
    PROVE  \E g : SumsUp(g, f, SUBSET S) /\ SumFunctionOnSet(f, S) = g[S]
BY SumsUpExists, SumDefinition

LEMMA SumEmpty == \A f : SumFunctionOnSet(f, {}) = 0
<1> SUFFICES ASSUME NEW f PROVE SumFunctionOnSet(f, {}) = 0
  OBVIOUS
<1>1. PICK g : SumsUp(g, f, SUBSET {}) /\ SumFunctionOnSet(f, {}) = g[{}]
  BY SumRecursion, FS_EmptySet
<1>2. {} \in SUBSET {}
  OBVIOUS
<1>. QED
  BY <1>1, <1>2 DEF SumsUp

\* Two ways to sum agree on a set on which the functions do.
LEMMA SumsAgree ==
    ASSUME NEW S, IsFiniteSet(S),
           NEW f, NEW g, SumsUp(g, f, SUBSET S),
           NEW e, NEW h, SumsUp(h, e, SUBSET S),
           \A x \in S : f[x] = e[x]
    PROVE  g[S] = h[S]
<1> DEFINE bad == {s \in SUBSET S : g[s] # h[s]}
<1>1. bad = {}
  <2> SUFFICES ASSUME bad # {} PROVE FALSE
    OBVIOUS
  <2>1. PICK s \in bad : \A t \in bad : t \subseteq s => t = s
    <3>1. bad \in SUBSET SUBSET S
      OBVIOUS
    <3> HIDE DEF bad
    <3>. QED
      BY <3>1, MinimalSubset
  <2>2. s \in SUBSET S
    OBVIOUS
  <2>3. /\ g[s] = IF s = {} THEN 0 ELSE f[Pick(s)] + g[s \ {Pick(s)}]
        /\ h[s] = IF s = {} THEN 0 ELSE e[Pick(s)] + h[s \ {Pick(s)}]
    BY <2>2 DEF SumsUp
  <2>4. CASE s = {}
    BY <2>3, <2>4
  <2>5. CASE s # {}
    <3>1. Pick(s) \in s
      BY <2>5, PickIn
    <3>2. s \ {Pick(s)} \notin bad
      BY <2>1, <3>1
    <3>3. g[s \ {Pick(s)}] = h[s \ {Pick(s)}] /\ f[Pick(s)] = e[Pick(s)]
      BY <3>1, <3>2
    <3>. QED
      BY <2>3, <2>5, <3>3
  <2>. QED
    BY <2>4, <2>5
<1>. QED
  BY <1>1

LEMMA SumsAgreeOnSubset ==
    ASSUME NEW S, IsFiniteSet(S), NEW T, S \in SUBSET T,
           NEW f, NEW g, SumsUp(g, f, SUBSET T), NEW h, SumsUp(h, f, SUBSET S)
    PROVE  g[S] = h[S]
<1> DEFINE r == [s \in SUBSET S |-> g[s]]
<1>1. SumsUp(r, f, SUBSET S)
  <2>1. \A s \in SUBSET S :
           r[s] = IF s = {} THEN 0 ELSE f[Pick(s)] + r[s \ {Pick(s)}]
    BY DEF SumsUp
  <2>. QED
    BY <2>1 DEF SumsUp
<1>2. r[S] = g[S] /\ \A x \in S : f[x] = f[x]
  OBVIOUS
<1> HIDE DEF r
<1>3. r[S] = h[S]
  BY <1>1, SumsAgree
<1>. QED
  BY <1>2, <1>3

LEMMA SumsAreNumbers ==
    ASSUME NEW f, NEW S, IsFiniteSet(S), NEW g, SumsUp(g, f, SUBSET S),
           \A x \in S : f[x] \in Int
    PROVE  \A s \in SUBSET S : g[s] \in Int
<1> DEFINE bad == {s \in SUBSET S : g[s] \notin Int}
<1>1. bad = {}
  <2> SUFFICES ASSUME bad # {} PROVE FALSE
    OBVIOUS
  <2>1. PICK s \in bad : \A t \in bad : t \subseteq s => t = s
    <3>1. bad \in SUBSET SUBSET S
      OBVIOUS
    <3> HIDE DEF bad
    <3>. QED
      BY <3>1, MinimalSubset
  <2>2. g[s] = IF s = {} THEN 0 ELSE f[Pick(s)] + g[s \ {Pick(s)}]
    BY DEF SumsUp
  <2>3. CASE s # {}
    <3>1. Pick(s) \in s
      BY <2>3, PickIn
    <3>2. s \ {Pick(s)} \notin bad
      BY <2>1, <3>1
    <3>3. g[s \ {Pick(s)}] \in Int /\ f[Pick(s)] \in Int
      BY <3>1, <3>2
    <3>. QED
      BY <2>2, <2>3, <3>3
  <2>. QED
    BY <2>2, <2>3
<1>. QED
  BY <1>1

\* The order in which elements are taken does not matter.
LEMMA SumsTakeAny ==
    ASSUME NEW f, NEW S, IsFiniteSet(S), NEW g, SumsUp(g, f, SUBSET S),
           \A x \in S : f[x] \in Int
    PROVE  \A s \in SUBSET S : \A x \in s : g[s] = f[x] + g[s \ {x}]
<1> DEFINE bad == {s \in SUBSET S : ~ \A x \in s : g[s] = f[x] + g[s \ {x}]}
<1>1. bad = {}
  <2> SUFFICES ASSUME bad # {} PROVE FALSE
    OBVIOUS
  <2>1. PICK s \in bad : \A t \in bad : t \subseteq s => t = s
    <3>1. bad \in SUBSET SUBSET S
      OBVIOUS
    <3> HIDE DEF bad
    <3>. QED
      BY <3>1, MinimalSubset
  <2>2. PICK x \in s : g[s] # f[x] + g[s \ {x}]
    OBVIOUS
  <2> DEFINE y == Pick(s)
  <2>3. y \in s
    BY <2>2, PickIn
  <2>4. g[s] = f[y] + g[s \ {y}]
    BY <2>2 DEF SumsUp
  <2>5. x # y
    BY <2>2, <2>4
  <2> HIDE DEF y
  <2>6. s \ {x} \notin bad /\ s \ {y} \notin bad
    BY <2>1, <2>2, <2>3
  <2>7. g[s \ {x}] = f[y] + g[(s \ {x}) \ {y}]
    BY <2>2, <2>3, <2>5, <2>6
  <2>8. g[s \ {y}] = f[x] + g[(s \ {y}) \ {x}]
    BY <2>2, <2>3, <2>5, <2>6
  <2>9. (s \ {x}) \ {y} = (s \ {y}) \ {x}
    OBVIOUS
  <2>10. f[x] \in Int /\ f[y] \in Int /\ g[(s \ {x}) \ {y}] \in Int
    <3>1. (s \ {x}) \ {y} \in SUBSET S
      BY <2>1
    <3>2. g[(s \ {x}) \ {y}] \in Int
      BY <3>1, SumsAreNumbers
    <3>. QED
      BY <2>1, <2>2, <2>3, <3>2
  <2> DEFINE rest == g[(s \ {x}) \ {y}]
  <2>11. f[x] + (f[y] + rest) = f[y] + (f[x] + rest)
    <3> HIDE DEF rest
    <3>1. \A i, j, k \in Int : i + (j + k) = j + (i + k)
      OBVIOUS
    <3>. QED
      BY <2>10, <3>1 DEF rest
  <2>. QED
    BY <2>2, <2>4, <2>7, <2>8, <2>9, <2>11
<1>. QED
  BY <1>1

LEMMA SumEqual ==
    ASSUME NEW f, NEW e, NEW S, IsFiniteSet(S), \A x \in S : f[x] = e[x]
    PROVE  SumFunctionOnSet(f, S) = SumFunctionOnSet(e, S)
<1>1. PICK g : SumsUp(g, f, SUBSET S) /\ SumFunctionOnSet(f, S) = g[S]
  BY SumRecursion
<1>2. PICK h : SumsUp(h, e, SUBSET S) /\ SumFunctionOnSet(e, S) = h[S]
  BY SumRecursion
<1>3. g[S] = h[S]
  <2>1. S \subseteq S
    OBVIOUS
  <2>2. SumsUp(g, f, SUBSET S) /\ SumsUp(h, e, SUBSET S)
    BY <1>1, <1>2
  <2>. QED
    BY <2>1, <2>2, SumsAgree
<1>. QED
  BY <1>1, <1>2, <1>3

LEMMA SumIsNumber ==
    ASSUME NEW f, NEW S, IsFiniteSet(S), \A x \in S : f[x] \in Int
    PROVE  SumFunctionOnSet(f, S) \in Int
<1>1. PICK g : SumsUp(g, f, SUBSET S) /\ SumFunctionOnSet(f, S) = g[S]
  BY SumRecursion
<1>. QED
  BY <1>1, SumsAreNumbers

LEMMA SumAdd ==
    ASSUME NEW f, NEW S, IsFiniteSet(S), NEW x, x \notin S, f[x] \in Int,
           \A y \in S : f[y] \in Int
    PROVE  SumFunctionOnSet(f, S \cup {x}) = f[x] + SumFunctionOnSet(f, S)
<1> DEFINE T == S \cup {x}
<1>1. IsFiniteSet(T)
  BY FS_AddElement
<1>2. PICK g : SumsUp(g, f, SUBSET T) /\ SumFunctionOnSet(f, T) = g[T]
  BY <1>1, SumRecursion
<1>3. PICK h : SumsUp(h, f, SUBSET S) /\ SumFunctionOnSet(f, S) = h[S]
  BY SumRecursion
<1>4. \A y \in T : f[y] \in Int
  OBVIOUS
<1>5. T \in SUBSET T /\ x \in T /\ T \ {x} = S
  OBVIOUS
<1>6. g[T] = f[x] + g[S]
  <2> HIDE DEF T
  <2>1. g[T] = f[x] + g[T \ {x}]
    BY <1>1, <1>2, <1>4, <1>5, SumsTakeAny
  <2>. QED
    BY <2>1, <1>5
<1>7. g[S] = h[S]
  <2>1. S \in SUBSET T
    OBVIOUS
  <2>2. SumsUp(g, f, SUBSET T) /\ SumsUp(h, f, SUBSET S)
    BY <1>2, <1>3
  <2> HIDE DEF T
  <2>. QED
    BY ONLY <2>1, <2>2, IsFiniteSet(S), SumsAgreeOnSubset, SMTT(30)
<1>. QED
  BY <1>2, <1>3, <1>6, <1>7

LEMMA SumRemove ==
    ASSUME NEW f, NEW S, IsFiniteSet(S), NEW x \in S, \A y \in S : f[y] \in Int
    PROVE  SumFunctionOnSet(f, S) = f[x] + SumFunctionOnSet(f, S \ {x})
<1>1. IsFiniteSet(S \ {x})
  BY FS_RemoveElement
<1>2. (S \ {x}) \cup {x} = S
  OBVIOUS
<1>3. x \notin S \ {x} /\ f[x] \in Int /\ \A y \in S \ {x} : f[y] \in Int
  OBVIOUS
<1>4. SumFunctionOnSet(f, (S \ {x}) \cup {x}) = f[x] + SumFunctionOnSet(f, S \ {x})
  BY <1>1, <1>3, SumAdd
<1>. QED
  BY <1>2, <1>4

-----------------------------------------------------------------------------
(* The ledger. *)

Saved == {c \in Calls : call[c].saved}

LEMMA CallsToPost ==
    ASSUME IInv, LedgerInv, NEW u, NEW ops
    PROVE  /\ IsFiniteSet(UnpostedCalls(u, ops))
           /\ \A c \in UnpostedCalls(u, ops) : call[c].amount \in Int
           /\ Unposted(u, ops) \in Int
<1>1. UnpostedCalls(u, ops) \in SUBSET Saved
  BY DEF UnpostedCalls, Saved
<1>2. IsFiniteSet(Saved)
  BY DEF LedgerInv, Saved
<1>3. IsFiniteSet(UnpostedCalls(u, ops))
  BY <1>1, <1>2, FS_Subset
<1>4. \A c \in UnpostedCalls(u, ops) : c \in Calls /\ call[c].amount \in Int
  BY DEF UnpostedCalls, IInv, TypeOK, Call
<1> DEFINE f == [c \in Calls |-> call[c].amount]
<1>5. \A c \in UnpostedCalls(u, ops) : f[c] \in Int
  BY <1>4
<1>6. SumFunctionOnSet(f, UnpostedCalls(u, ops)) \in Int
  <2> HIDE DEF f
  <2>. QED
    BY <1>3, <1>5, SumIsNumber
<1>. QED
  BY <1>3, <1>4, <1>6 DEF Unposted

LEMMA RowsPosted ==
    ASSUME IInv, LedgerInv, NEW u, NEW type
    PROVE  /\ IsFiniteSet(RowsOf(u, type))
           /\ \A r \in RowsOf(u, type) : r \in transactions /\ r.amount \in Int
           /\ Total(u, type) \in Int
<1>1. RowsOf(u, type) \in SUBSET transactions
  BY DEF RowsOf
<1>2. IsFiniteSet(RowsOf(u, type))
  BY <1>1, FS_Subset DEF LedgerInv
<1>3. \A r \in RowsOf(u, type) : r \in transactions /\ r.amount \in Int
  BY <1>1 DEF IInv, TypeOK, Row
<1> DEFINE f == [r \in transactions |-> r.amount]
<1>4. \A r \in RowsOf(u, type) : f[r] \in Int
  BY <1>3
<1>5. SumFunctionOnSet(f, RowsOf(u, type)) \in Int
  <2> HIDE DEF f
  <2>. QED
    BY <1>2, <1>4, SumIsNumber
<1>. QED
  BY <1>2, <1>3, <1>5 DEF Total

\* Calls whose part of the ledger does not change.
LEMMA UnpostedKept ==
    ASSUME IInv, LedgerInv, NEW u, NEW ops, UnpostedCalls(u, ops)' = UnpostedCalls(u, ops),
           \A c \in UnpostedCalls(u, ops) : call'[c].amount = call[c].amount
    PROVE  Unposted(u, ops)' = Unposted(u, ops)
<1> DEFINE f == [c \in Calls |-> call[c].amount]
           e == [c \in Calls |-> call'[c].amount]
           S == UnpostedCalls(u, ops)
<1>1. IsFiniteSet(S)
  BY CallsToPost
<1>2. \A c \in S : e[c] = f[c]
  BY DEF UnpostedCalls
<1>3. SumFunctionOnSet(e, S) = SumFunctionOnSet(f, S)
  <2> HIDE DEF e, f, S
  <2>. QED
    BY <1>1, <1>2, SumEqual
<1>. QED
  BY <1>3 DEF Unposted

\* A call whose wallet has been saved joins the calls that have a row to post.
LEMMA UnpostedAdds ==
    ASSUME IInv, LedgerInv, NEW u, NEW ops, NEW c \in Calls, c \notin UnpostedCalls(u, ops),
           UnpostedCalls(u, ops)' = UnpostedCalls(u, ops) \cup {c},
           call'[c].amount = call[c].amount,
           \A d \in Calls \ {c} : call'[d] = call[d]
    PROVE  Unposted(u, ops)' = call[c].amount + Unposted(u, ops)
<1> DEFINE f == [d \in Calls |-> call[d].amount]
           e == [d \in Calls |-> call'[d].amount]
           S == UnpostedCalls(u, ops)
<1>1. IsFiniteSet(S) /\ IsFiniteSet(S \cup {c})
  BY CallsToPost, FS_AddElement
<1>2. \A d \in S \cup {c} : e[d] = f[d] /\ f[d] \in Int
  BY DEF UnpostedCalls, IInv, TypeOK, Call
<1>3. c \notin S /\ f[c] = call[c].amount
  OBVIOUS
<1>4. SumFunctionOnSet(e, S \cup {c}) = call[c].amount + SumFunctionOnSet(f, S)
  <2> HIDE DEF e, f, S
  <2>1. SumFunctionOnSet(e, S \cup {c}) = SumFunctionOnSet(f, S \cup {c})
    BY <1>1, <1>2, SumEqual
  <2>2. SumFunctionOnSet(f, S \cup {c}) = f[c] + SumFunctionOnSet(f, S)
    BY <1>1, <1>2, <1>3, SumAdd
  <2>. QED
    BY <1>3, <2>1, <2>2
<1>. QED
  BY <1>4 DEF Unposted

\* A call that has posted its row leaves them.
LEMMA UnpostedLeaves ==
    ASSUME IInv, LedgerInv, NEW u, NEW ops, NEW c \in UnpostedCalls(u, ops),
           UnpostedCalls(u, ops)' = UnpostedCalls(u, ops) \ {c},
           \A d \in Calls \ {c} : call'[d] = call[d]
    PROVE  Unposted(u, ops) = call[c].amount + Unposted(u, ops)'
<1> DEFINE f == [d \in Calls |-> call[d].amount]
           e == [d \in Calls |-> call'[d].amount]
           S == UnpostedCalls(u, ops)
<1>1. IsFiniteSet(S) /\ IsFiniteSet(S \ {c})
  BY CallsToPost, FS_RemoveElement
<1>2. /\ \A d \in S : f[d] \in Int
      /\ \A d \in S \ {c} : e[d] = f[d]
  BY DEF UnpostedCalls, IInv, TypeOK, Call
<1>3. c \in S /\ f[c] = call[c].amount
  BY DEF UnpostedCalls
<1>4. SumFunctionOnSet(f, S) = call[c].amount + SumFunctionOnSet(e, S \ {c})
  <2> HIDE DEF e, f, S
  <2>1. SumFunctionOnSet(e, S \ {c}) = SumFunctionOnSet(f, S \ {c})
    BY <1>1, <1>2, SumEqual
  <2>2. SumFunctionOnSet(f, S) = f[c] + SumFunctionOnSet(f, S \ {c})
    BY <1>1, <1>2, <1>3, SumRemove
  <2>. QED
    BY <1>3, <2>1, <2>2
<1>. QED
  BY <1>4 DEF Unposted

LEMMA TotalAdds ==
    ASSUME IInv, LedgerInv, NEW u, NEW type, NEW row, row \notin transactions,
           row.amount \in Int, transactions' = transactions \cup {row}
    PROVE  Total(u, type)' = Total(u, type)
                             + IF row.user = u /\ row.type = type THEN row.amount ELSE 0
<1> DEFINE f == [r \in transactions |-> r.amount]
           e == [r \in transactions' |-> r.amount]
           S == RowsOf(u, type)
<1>1. IsFiniteSet(S) /\ IsFiniteSet(S \cup {row})
  BY RowsPosted, FS_AddElement
<1>2. /\ \A r \in S : e[r] = f[r]
      /\ \A r \in S \cup {row} : e[r] \in Int
      /\ row \notin S /\ e[row] = row.amount
  BY RowsPosted
<1>3. Total(u, type) \in Int
  BY RowsPosted
<1>4. SumFunctionOnSet(e, S) = SumFunctionOnSet(f, S)
  <2> HIDE DEF e, f, S
  <2>. QED
    BY <1>1, <1>2, SumEqual
<1>5. SumFunctionOnSet(e, S \cup {row}) = row.amount + SumFunctionOnSet(e, S)
  <2> HIDE DEF e, f, S
  <2>. QED
    BY <1>1, <1>2, SumAdd
<1>6. Total(u, type)' = SumFunctionOnSet(e, RowsOf(u, type)')
  BY DEF Total
<1>7. CASE row.user = u /\ row.type = type
  <2>1. RowsOf(u, type)' = S \cup {row}
    BY <1>7 DEF RowsOf
  <2>. QED
    BY <1>3, <1>4, <1>5, <1>6, <1>7, <2>1 DEF Total
<1>8. CASE ~(row.user = u /\ row.type = type)
  <2>1. RowsOf(u, type)' = S
    BY <1>8 DEF RowsOf
  <2>. QED
    BY <1>3, <1>4, <1>6, <1>8, <2>1 DEF Total
<1>. QED
  BY <1>7, <1>8

LEMMA LedgerInit == Init => LedgerInv
<1> SUFFICES ASSUME Init PROVE LedgerInv
  OBVIOUS
<1>1. \A c \in Calls : call[c] = IdleCall /\ ~call[c].saved /\ call[c].stage = "idle"
  BY DEF Init, IdleCall
<1>2. {c \in Calls : call[c].saved} = {}
  BY <1>1
<1>3. \A u, ops : UnpostedCalls(u, ops) = {}
  BY <1>1 DEF UnpostedCalls
<1>4. \A u, type : RowsOf(u, type) = {}
  BY DEF Init, RowsOf
<1>5. \A u, ops, type : Unposted(u, ops) = 0 /\ Total(u, type) = 0
  BY <1>3, <1>4, SumEmpty DEF Unposted, Total
<1>6. LedgerExplainsBalance
  BY <1>5 DEF LedgerExplainsBalance, Init, Balance
<1>. QED
  BY <1>1, <1>2, <1>6, FS_EmptySet DEF LedgerInv, Init, WritesOK, UsageIsDebited

\* A step that writes neither table and does not touch a saved call's change.
LEMMA QuietLedger ==
    ASSUME IInv, LedgerInv, NEW c \in Calls,
           UNCHANGED <<transactions, usage, lost>>,
           \A u \in Users : Balance(u)' = Balance(u),
           \A d \in Calls \ {c} : call'[d] = call[d],
           call'[c].saved = call[c].saved,
           call[c].stage # "done",
           call[c].saved => /\ call'[c].user = call[c].user
                            /\ call'[c].op = call[c].op
                            /\ call'[c].amount = call[c].amount
                            /\ call'[c].stage # "done",
           WritesOK(c)',
           \A w \in usage : w.by = c => UsageOK(w)' /\ call'[c].stage # "done"
    PROVE  LedgerInv'
<1>1. ASSUME NEW d \in Calls PROVE WritesOK(d)'
  BY DEF LedgerInv, WritesOK
<1>2. \A r \in transactions' : call'[r.by].stage = "done"
  BY DEF LedgerInv, IInv, TypeOK, Row
<1>3. ASSUME NEW w \in usage' PROVE UsageOK(w)'
  <2>1. w \in usage /\ w.by \in Calls
    BY DEF IInv, TypeOK, UsageRow
  <2>. QED
    BY <2>1 DEF LedgerInv, UsageOK
<1>4. IsFiniteSet(transactions')
  BY DEF LedgerInv
<1>5. {d \in Calls : call'[d].saved} = {d \in Calls : call[d].saved}
  OBVIOUS
<1>6. LedgerExplainsBalance'
  <2>1. ASSUME NEW u \in Users, NEW ops
        PROVE  Unposted(u, ops)' = Unposted(u, ops)
    <3>1. UnpostedCalls(u, ops)' = UnpostedCalls(u, ops)
      BY DEF UnpostedCalls
    <3>2. \A d \in UnpostedCalls(u, ops) : call'[d].amount = call[d].amount
      BY DEF UnpostedCalls
    <3>. QED
      BY <3>1, <3>2, UnpostedKept
  <2>2. \A u \in Users, type \in {"credit", "debit"} : Total(u, type)' = Total(u, type)
    BY DEF Total, RowsOf
  <2>. QED
    BY <2>1, <2>2 DEF LedgerInv, LedgerExplainsBalance
<1>7. UsageIsDebited'
  <2>1. ASSUME NEW w \in usage'
        PROVE  \/ call'[w.by].stage \in {"post", "failed"}
               \/ \E r \in transactions' : /\ r.by = w.by
                                           /\ r.user = w.user
                                           /\ r.type = "debit"
                                           /\ r.amount = w.amountDeducted
    <3>1. w \in usage /\ w.by \in Calls
      BY DEF IInv, TypeOK, UsageRow
    <3>2. CASE w.by = c
      BY <3>1, <3>2 DEF UsageOK
    <3>3. CASE w.by # c
      BY <3>1, <3>3 DEF LedgerInv, UsageIsDebited
    <3>. QED
      BY <3>2, <3>3
  <2>. QED
    BY <2>1 DEF UsageIsDebited
<1>. QED
  BY <1>1, <1>2, <1>3, <1>4, <1>5, <1>6, <1>7 DEF LedgerInv

\* A call that has not reached its first write has no row.
LEMMA NothingWritten ==
    ASSUME IInv, LedgerInv, NEW c \in Calls,
           call[c].stage \in {"idle", "find", "insert", "save"}
    PROVE  ~call[c].saved /\ \A w \in usage : w.by # c
BY DEF LedgerInv, WritesOK, UsageOK

LEMMA FirstStepsLedger ==
    ASSUME IInv, LedgerInv, NEW c \in Calls,
           \/ \E op \in Ops, u \in Users, a \in Amounts : Begin(c, op, u, a)
           \/ FindWallet(c) \/ FindNoWallet(c) \/ InsertWallet(c)
           \/ InsertDuplicate(c) \/ SaveOverflows(c)
    PROVE  LedgerInv'
<1>1. call[c].stage \in {"idle", "find", "insert", "save"}
  BY DEF Begin, FindWallet, FindNoWallet, InsertWallet, InsertDuplicate, SaveOverflows
<1>2. UNCHANGED <<transactions, usage, lost>>
  BY DEF Begin, FindWallet, FindNoWallet, InsertWallet, InsertDuplicate, SaveOverflows,
     tables, history
<1>3. \A u \in Users : Balance(u)' = Balance(u)
  <2>1. CASE InsertWallet(c)
    <3>1. call[c].user \in Users
      BY DEF IInv, TypeOK, Call
    <3>. QED
      BY <2>1, <3>1, WalletAssumption DEF InsertWallet, Balance, IInv, TypeOK
  <2>2. CASE UNCHANGED balance
    BY <2>2 DEF Balance
  <2>. QED
    BY <2>1, <2>2 DEF Begin, FindWallet, FindNoWallet, InsertDuplicate, SaveOverflows, tables
<1>4. \A d \in Calls \ {c} : call'[d] = call[d]
  BY DEF Begin, FindWallet, FindNoWallet, InsertWallet, InsertDuplicate, SaveOverflows,
     IInv, TypeOK
<1>5. ~call'[c].saved /\ call'[c].stage \notin {"usage", "post"}
  <2> DEFINE k == call[c]
  <2>1. ~k.saved /\ k \in Call /\ 0 \in Money
    BY <1>1, NothingWritten, WalletAssumption DEF IInv, TypeOK, Money
  <2>2. CASE \E op \in Ops, u \in Users, a \in Amounts : Begin(c, op, u, a)
    <3>1. PICK op \in Ops, u \in Users, a \in Amounts : Begin(c, op, u, a)
      BY <2>2
    <3>2. PICK n : n = [IdleCall EXCEPT !.stage = "find", !.op = op, !.user = u, !.amount = a]
      OBVIOUS
    <3>3. n.saved = FALSE /\ n.stage = "find"
      BY <3>2 DEF IdleCall
    <3>4. call'[c] = n
      BY <3>1, <3>2 DEF Begin, IInv, TypeOK
    <3>. QED
      BY <3>3, <3>4
  <2>3. CASE FindWallet(c)
    <3>1. balance[k.user] \in Money
      BY <2>3, <2>1 DEF FindWallet, IInv, BalanceInRange, Call
    <3>2. AfterFind(k, balance[k.user]) \in {"failed", "done", "save"}
      BY <2>1, <3>1, AfterFindOK
    <3>. QED
      BY <2>1, <2>3, <3>2 DEF FindWallet, IInv, TypeOK, Call
  <2>4. CASE InsertWallet(c)
    <3>1. AfterFind(k, 0) \in {"failed", "done", "save"}
      BY <2>1, AfterFindOK
    <3>. QED
      BY <2>1, <2>4, <3>1 DEF InsertWallet, IInv, TypeOK, Call
  <2>5. CASE FindNoWallet(c) \/ InsertDuplicate(c) \/ SaveOverflows(c)
    BY <2>1, <2>5 DEF FindNoWallet, InsertDuplicate, SaveOverflows, IInv, TypeOK, Call
  <2>. QED
    BY <2>2, <2>3, <2>4, <2>5
<1>6. WritesOK(c)'
  BY <1>5 DEF WritesOK
<1>7. ~call[c].saved /\ \A w \in usage : w.by # c
  BY <1>1, NothingWritten
<1>8. call'[c].saved = call[c].saved
  <2>1. call[c].saved = FALSE
    BY <1>7 DEF IInv, TypeOK, Call
  <2>2. call'[c].saved = FALSE
    <3>1. call'[c].saved \in BOOLEAN
      <4>1. call' \in [Calls -> Call]
        BY NextInv DEF IInv, TypeOK, Next, Step
      <4>. QED
        BY <4>1 DEF Call
    <3>. QED
      BY <1>5, <3>1
  <2>. QED
    BY <2>1, <2>2
<1>. QED
  BY <1>1, <1>2, <1>3, <1>4, <1>6, <1>7, <1>8, QuietLedger

LEMMA FaultLedger ==
    ASSUME IInv, LedgerInv, NEW c \in Calls, Fault(c)
    PROVE  LedgerInv'
<1>1. UNCHANGED <<transactions, usage, lost, balance>>
  BY DEF Fault, tables, history
<1>2. /\ \A d \in Calls \ {c} : call'[d] = call[d]
      /\ call'[c].stage = "failed" /\ call'[c].saved = call[c].saved
      /\ call'[c].op = call[c].op /\ call'[c].user = call[c].user
      /\ call'[c].amount = call[c].amount
      /\ call[c].stage \in Running
  BY DEF Fault, IInv, TypeOK, Call
<1>3. WritesOK(c)'
  BY <1>2 DEF LedgerInv, WritesOK
<1>4. \A w \in usage : w.by = c => UsageOK(w)'
  BY <1>2 DEF LedgerInv, UsageOK
<1>. QED
  BY <1>1, <1>2, <1>3, <1>4, QuietLedger DEF Running, Balance

LEMMA SaveUsageLedger ==
    ASSUME IInv, LedgerInv, NEW c \in Calls, SaveUsage(c)
    PROVE  LedgerInv'
<1> DEFINE k == call[c]
           row == [by |-> c, user |-> k.user, amountDeducted |-> k.amount,
                   before |-> k.before, after |-> NewBalance(k)]
<1>1. /\ UNCHANGED <<transactions, lost, balance>>
      /\ usage' = usage \cup {row}
      /\ k.stage = "usage" /\ k.saved /\ k.op = "deduct"
  BY DEF SaveUsage, history, LedgerInv, WritesOK
<1>2. /\ \A d \in Calls \ {c} : call'[d] = call[d]
      /\ call'[c].stage = "post" /\ call'[c].saved = k.saved
      /\ call'[c].op = k.op /\ call'[c].user = k.user /\ call'[c].amount = k.amount
  BY DEF SaveUsage, IInv, TypeOK, Call
<1>3. ASSUME NEW d \in Calls PROVE WritesOK(d)'
  <2>1. CASE d = c
    BY <1>1, <1>2, <2>1 DEF WritesOK
  <2>2. CASE d # c
    <3>1. WritesOK(d) /\ call'[d] = call[d]
      BY <1>2, <2>2 DEF LedgerInv
    <3>. QED
      BY <3>1 DEF WritesOK
  <2>. QED
    BY <2>1, <2>2
<1>4. \A r \in transactions' : call'[r.by].stage = "done"
  BY <1>1, <1>2 DEF LedgerInv, IInv, TypeOK, Row
<1>5. ASSUME NEW w \in usage
      PROVE  /\ w.by # c /\ w.by \in Calls
             /\ UsageOK(w)'
  BY <1>1, <1>2 DEF LedgerInv, IInv, TypeOK, UsageRow, UsageOK
<1>6. ASSUME NEW w, w = row PROVE UsageOK(w)'
  BY <1>6, <1>1, <1>2 DEF UsageOK
<1>7. {d \in Calls : call'[d].saved} = {d \in Calls : call[d].saved}
  BY <1>2
<1>8. LedgerExplainsBalance'
  <2>1. ASSUME NEW u \in Users, NEW ops
        PROVE  Unposted(u, ops)' = Unposted(u, ops)
    <3>1. UnpostedCalls(u, ops)' = UnpostedCalls(u, ops)
      BY <1>1, <1>2 DEF UnpostedCalls
    <3>2. \A d \in UnpostedCalls(u, ops) : call'[d].amount = call[d].amount
      BY <1>2 DEF UnpostedCalls
    <3>. QED
      BY <3>1, <3>2, UnpostedKept
  <2>2. \A u \in Users, type \in {"credit", "debit"} : Total(u, type)' = Total(u, type)
    BY <1>1 DEF Total, RowsOf
  <2>. QED
    BY <1>1, <2>1, <2>2 DEF LedgerInv, LedgerExplainsBalance, Balance
<1>9. UsageIsDebited'
  BY <1>1, <1>2, <1>5 DEF LedgerInv, UsageIsDebited
<1>10. \A w \in usage' : UsageOK(w)'
  <2>1. ASSUME NEW w \in usage' PROVE UsageOK(w)'
    <3>1. w \in usage \/ w = row
      BY <1>1
    <3>. QED
      BY <1>5, <1>6, <3>1
  <2>. QED
    BY <2>1
<1>11. IsFiniteSet(transactions')
  BY <1>1 DEF LedgerInv
<1>. QED
  BY <1>3, <1>4, <1>7, <1>8, <1>9, <1>10, <1>11 DEF LedgerInv

\* The wallet changes by the call's amount, less what a stale save discards,
\* and the change waits for its row.
LEMMA SaveWalletLedger ==
    ASSUME IInv, LedgerInv, NEW c \in Calls, SaveWallet(c)
    PROVE  LedgerInv'
<1> DEFINE k == call[c]
           v == k.user
<1>1. /\ UNCHANGED <<transactions, usage>>
      /\ balance' = [balance EXCEPT ![v] = NewBalance(k)]
      /\ lost' = [lost EXCEPT ![v] = lost[v] + (Balance(v) - k.before)]
      /\ k.stage = "save" /\ k.op # "open"
      /\ k \in Call /\ v \in Users /\ k.amount \in Int /\ k.before \in Int
  BY DEF SaveWallet, IInv, TypeOK, Call, CallOK
<1>2. /\ \A d \in Calls \ {c} : call'[d] = call[d]
      /\ call'[c].stage \in {"usage", "post"} /\ call'[c].saved
      /\ call'[c].stage = "usage" => k.op = "deduct"
      /\ call'[c].op = k.op /\ call'[c].user = v /\ call'[c].amount = k.amount
  BY <1>1 DEF SaveWallet, IInv, TypeOK, Call
<1>3. ~k.saved /\ \A w \in usage : w.by # c
  BY <1>1, NothingWritten
<1>4. ASSUME NEW d \in Calls PROVE WritesOK(d)'
  BY <1>1, <1>2 DEF LedgerInv, WritesOK
<1>5. \A r \in transactions' : call'[r.by].stage = "done"
  BY <1>1, <1>2 DEF LedgerInv, IInv, TypeOK, Row
<1>6. ASSUME NEW w \in usage' PROVE UsageOK(w)'
  BY <1>1, <1>2, <1>3 DEF LedgerInv, IInv, TypeOK, UsageRow, UsageOK
<1>7. IsFiniteSet({d \in Calls : call'[d].saved})
  <2>1. {d \in Calls : call'[d].saved} = {d \in Calls : call[d].saved} \cup {c}
    BY <1>2
  <2>. QED
    BY <2>1, FS_AddElement DEF LedgerInv
<1>8. LedgerExplainsBalance'
  <2>1. ASSUME NEW u \in Users, NEW ops
        PROVE  Unposted(u, ops)' = Unposted(u, ops)
                                   + IF u = v /\ k.op \in ops THEN k.amount ELSE 0
    <3>1. c \notin UnpostedCalls(u, ops) /\ Unposted(u, ops) \in Int
      BY <1>3, CallsToPost DEF UnpostedCalls
    <3>2. CASE u = v /\ k.op \in ops
      <4>1. UnpostedCalls(u, ops)' = UnpostedCalls(u, ops) \cup {c}
        BY <1>2, <3>2 DEF UnpostedCalls
      <4>2. Unposted(u, ops)' = k.amount + Unposted(u, ops)
        BY <1>2, <3>1, <4>1, UnpostedAdds
      <4>. QED
        BY <1>1, <3>1, <3>2, <4>2
    <3>3. CASE ~(u = v /\ k.op \in ops)
      <4>1. UnpostedCalls(u, ops)' = UnpostedCalls(u, ops)
        BY <1>2, <1>3, <3>3 DEF UnpostedCalls
      <4>2. \A d \in UnpostedCalls(u, ops) : call'[d].amount = call[d].amount
        BY <1>2 DEF UnpostedCalls
      <4>3. Unposted(u, ops)' = Unposted(u, ops)
        BY <4>1, <4>2, UnpostedKept
      <4>. QED
        BY <3>1, <3>3, <4>3
    <3>. QED
      BY <3>2, <3>3
  <2>2. \A u \in Users, type \in {"credit", "debit"} :
           Total(u, type)' = Total(u, type) /\ Total(u, type) \in Int
    <3>1. \A u \in Users, type \in {"credit", "debit"} : Total(u, type) \in Int
      BY RowsPosted
    <3>2. \A u \in Users, type \in {"credit", "debit"} : Total(u, type)' = Total(u, type)
      BY <1>1 DEF Total, RowsOf
    <3>. QED
      BY <3>1, <3>2
  <2>3. ASSUME NEW u \in Users
        PROVE  Balance(u)' = Total(u, "credit")' + Unposted(u, {"credit"})'
                             - Total(u, "debit")' - Unposted(u, {"debit", "deduct"})'
                             - lost'[u]
    <3>1. /\ Balance(u) = Total(u, "credit") + Unposted(u, {"credit"})
                          - Total(u, "debit") - Unposted(u, {"debit", "deduct"}) - lost[u]
          /\ Unposted(u, {"credit"}) \in Int /\ Unposted(u, {"debit", "deduct"}) \in Int
          /\ lost[u] \in Int /\ Balance(u) \in Int
      BY CallsToPost DEF LedgerInv, LedgerExplainsBalance, IInv, TypeOK, Balance
    <3>2. CASE u # v
      <4>1. Balance(u)' = Balance(u) /\ lost'[u] = lost[u]
        BY <1>1, <3>2 DEF Balance, IInv, TypeOK
      <4>. QED
        BY <2>1, <2>2, <3>1, <3>2, <4>1
    <3>3. CASE u = v
      <4>1. balance'[u] = NewBalance(k) /\ NewBalance(k) \in Int
        BY <1>1, <3>3 DEF NewBalance, IInv, TypeOK
      <4>2. Balance(u)' = NewBalance(k)
        BY <4>1, WalletAssumption DEF Balance
      <4>3. lost'[u] = lost[u] + (Balance(u) - k.before)
        BY <1>1, <3>3 DEF IInv, TypeOK
      <4>4. CASE k.op = "credit"
        <5>1. /\ Unposted(u, {"credit"})' = Unposted(u, {"credit"}) + k.amount
              /\ Unposted(u, {"debit", "deduct"})' = Unposted(u, {"debit", "deduct"}) + 0
          BY <2>1, <3>3, <4>4
        <5>2. Balance(u)' = k.before + k.amount
          BY <4>2, <4>4 DEF NewBalance
        <5>. QED
          BY <1>1, <2>2, <3>1, <4>3, <5>1, <5>2
      <4>5. CASE k.op # "credit"
        <5>1. k.op \in {"debit", "deduct"}
          BY <1>1, <4>5 DEF Call, Ops
        <5>2. /\ Unposted(u, {"credit"})' = Unposted(u, {"credit"}) + 0
              /\ Unposted(u, {"debit", "deduct"})' = Unposted(u, {"debit", "deduct"}) + k.amount
          BY <2>1, <3>3, <5>1, <4>5
        <5>3. Balance(u)' = k.before - k.amount
          BY <4>2, <4>5 DEF NewBalance
        <5>. QED
          BY <1>1, <2>2, <3>1, <4>3, <5>2, <5>3
      <4>. QED
        BY <4>4, <4>5
    <3>. QED
      BY <3>2, <3>3
  <2>. QED
    BY <2>3 DEF LedgerExplainsBalance
<1>9. UsageIsDebited'
  BY <1>1, <1>2, <1>3 DEF LedgerInv, UsageIsDebited, IInv, TypeOK, UsageRow
<1>. QED
  BY <1>1, <1>4, <1>5, <1>6, <1>7, <1>8, <1>9 DEF LedgerInv

\* What leaves the unposted changes enters the rows.
LEMMA SaveTransactionLedger ==
    ASSUME IInv, LedgerInv, NEW c \in Calls, SaveTransaction(c)
    PROVE  LedgerInv'
<1> DEFINE k == call[c]
           type == IF k.op = "credit" THEN "credit" ELSE "debit"
           row == [by |-> c, user |-> k.user, type |-> type, amount |-> k.amount,
                   before |-> k.before, after |-> NewBalance(k)]
<1>1. /\ UNCHANGED <<balance, usage, lost>>
      /\ transactions' = transactions \cup {row}
      /\ k.stage = "post" /\ k.saved /\ k.op # "open"
      /\ k \in Call /\ k.user \in Users /\ k.amount \in Int
  BY DEF SaveTransaction, history, LedgerInv, WritesOK, IInv, TypeOK, Call
<1>2. /\ \A d \in Calls \ {c} : call'[d] = call[d]
      /\ call'[c].stage = "done" /\ call'[c].saved = k.saved
      /\ call'[c].op = k.op /\ call'[c].user = k.user /\ call'[c].amount = k.amount
  BY <1>1 DEF SaveTransaction, IInv, TypeOK, Call
<1>3. row \notin transactions /\ row.amount \in Int
  BY <1>1 DEF LedgerInv
<1>4. ASSUME NEW d \in Calls PROVE WritesOK(d)'
  BY <1>1, <1>2 DEF LedgerInv, WritesOK
<1>5. \A r \in transactions' : call'[r.by].stage = "done"
  BY <1>1, <1>2 DEF LedgerInv, IInv, TypeOK, Row
<1>6. ASSUME NEW w \in usage' PROVE UsageOK(w)'
  BY <1>1, <1>2 DEF LedgerInv, IInv, TypeOK, UsageRow, UsageOK
<1>7. {d \in Calls : call'[d].saved} = {d \in Calls : call[d].saved}
  BY <1>2
<1>8. IsFiniteSet(transactions')
  BY <1>1, FS_AddElement DEF LedgerInv
<1>9. LedgerExplainsBalance'
  <2>4. ASSUME NEW u \in Users, NEW ops
        PROVE  Unposted(u, ops)' \in Int
    <3>1. UnpostedCalls(u, ops)' \in SUBSET UnpostedCalls(u, ops)
      BY <1>2 DEF UnpostedCalls
    <3>2. IsFiniteSet(UnpostedCalls(u, ops)')
      BY <3>1, CallsToPost, FS_Subset
    <3> DEFINE e == [d \in Calls |-> call'[d].amount]
    <3>3. \A d \in UnpostedCalls(u, ops)' : e[d] \in Int
      BY <1>2 DEF UnpostedCalls, IInv, TypeOK, Call
    <3>4. SumFunctionOnSet(e, UnpostedCalls(u, ops)') \in Int
      <4> HIDE DEF e
      <4>. QED
        BY <3>2, <3>3, SumIsNumber
    <3>. QED
      BY <3>4 DEF Unposted
  <2>1. ASSUME NEW u \in Users, NEW ops
        PROVE  Unposted(u, ops) = Unposted(u, ops)'
                                  + IF u = k.user /\ k.op \in ops THEN k.amount ELSE 0
    <3>1. Unposted(u, ops) \in Int
      BY CallsToPost
    <3>2. CASE u = k.user /\ k.op \in ops
      <4>1. c \in UnpostedCalls(u, ops)
        BY <1>1, <3>2 DEF UnpostedCalls
      <4>2. UnpostedCalls(u, ops)' = UnpostedCalls(u, ops) \ {c}
        BY <1>2, <3>2 DEF UnpostedCalls
      <4>3. Unposted(u, ops) = k.amount + Unposted(u, ops)'
        BY <1>2, <4>1, <4>2, UnpostedLeaves
      <4>. QED
        BY <1>1, <2>4, <3>2, <4>3
    <3>3. CASE ~(u = k.user /\ k.op \in ops)
      <4>1. UnpostedCalls(u, ops)' = UnpostedCalls(u, ops)
        BY <1>2, <3>3 DEF UnpostedCalls
      <4>2. \A d \in UnpostedCalls(u, ops) : call'[d].amount = call[d].amount
        BY <1>2 DEF UnpostedCalls
      <4>3. Unposted(u, ops)' = Unposted(u, ops)
        BY <4>1, <4>2, UnpostedKept
      <4>. QED
        BY <3>1, <3>3, <4>3
    <3>. QED
      BY <3>2, <3>3
  <2>2. ASSUME NEW u \in Users, NEW t \in {"credit", "debit"}
        PROVE  /\ Total(u, t) \in Int
               /\ Total(u, t)' = Total(u, t)
                                 + IF u = k.user /\ t = type THEN k.amount ELSE 0
    <3>1. Total(u, t)' = Total(u, t) + IF row.user = u /\ row.type = t THEN row.amount ELSE 0
      <4> HIDE DEF row
      <4>. QED
        BY <1>1, <1>3, TotalAdds
    <3>2. Total(u, t) \in Int
      BY RowsPosted
    <3>. QED
      BY <3>1, <3>2
  <2>3. ASSUME NEW u \in Users
        PROVE  Balance(u)' = Total(u, "credit")' + Unposted(u, {"credit"})'
                             - Total(u, "debit")' - Unposted(u, {"debit", "deduct"})'
                             - lost'[u]
    <3>1. /\ Balance(u) = Total(u, "credit") + Unposted(u, {"credit"})
                          - Total(u, "debit") - Unposted(u, {"debit", "deduct"}) - lost[u]
          /\ lost'[u] = lost[u] /\ Balance(u)' = Balance(u) /\ lost[u] \in Int
      BY <1>1 DEF LedgerInv, LedgerExplainsBalance, IInv, TypeOK, Balance
    <3>2. k.op = "credit" \/ k.op \in {"debit", "deduct"}
      BY <1>1 DEF Call, Ops
    <3>3. /\ Total(u, "credit") \in Int /\ Total(u, "debit") \in Int
          /\ Unposted(u, {"credit"}) \in Int /\ Unposted(u, {"debit", "deduct"}) \in Int
      BY CallsToPost, RowsPosted
    <3> DEFINE x == IF u = k.user THEN k.amount ELSE 0
    <3>4. x \in Int
      BY <1>1
    <3>5. CASE k.op = "credit"
      <4>1. /\ Total(u, "credit")' = Total(u, "credit") + x
            /\ Total(u, "debit")' = Total(u, "debit") + 0
            /\ Unposted(u, {"credit"}) = Unposted(u, {"credit"})' + x
            /\ Unposted(u, {"debit", "deduct"}) = Unposted(u, {"debit", "deduct"})' + 0
        BY <2>1, <2>2, <3>5
      <4> HIDE DEF x
      <4>. QED
        BY <3>1, <3>3, <3>4, <4>1, <2>4
    <3>6. CASE k.op \in {"debit", "deduct"}
      <4>1. /\ Total(u, "credit")' = Total(u, "credit") + 0
            /\ Total(u, "debit")' = Total(u, "debit") + x
            /\ Unposted(u, {"credit"}) = Unposted(u, {"credit"})' + 0
            /\ Unposted(u, {"debit", "deduct"}) = Unposted(u, {"debit", "deduct"})' + x
        BY <2>1, <2>2, <3>6
      <4> HIDE DEF x
      <4>. QED
        BY <3>1, <3>3, <3>4, <4>1, <2>4
    <3>. QED
      BY <3>2, <3>5, <3>6
  <2>. QED
    BY <2>3 DEF LedgerExplainsBalance
<1>10. UsageIsDebited'
  <2>1. ASSUME NEW w \in usage'
        PROVE  \/ call'[w.by].stage \in {"post", "failed"}
               \/ \E r \in transactions' : /\ r.by = w.by
                                           /\ r.user = w.user
                                           /\ r.type = "debit"
                                           /\ r.amount = w.amountDeducted
    <3>1. w \in usage /\ w.by \in Calls /\ UsageOK(w)
      BY <1>1 DEF LedgerInv, IInv, TypeOK, UsageRow
    <3>2. CASE w.by = c
      <4>1. /\ row.by = w.by /\ row.user = w.user
            /\ row.type = "debit" /\ row.amount = w.amountDeducted
        BY <3>1, <3>2 DEF UsageOK
      <4>. QED
        BY <1>1, <4>1
    <3>3. CASE w.by # c
      BY <1>1, <1>2, <3>1, <3>3 DEF LedgerInv, UsageIsDebited
    <3>. QED
      BY <3>2, <3>3
  <2>. QED
    BY <2>1 DEF UsageIsDebited
<1>. QED
  BY <1>4, <1>5, <1>6, <1>7, <1>8, <1>9, <1>10 DEF LedgerInv

LEMMA LedgerNext == IInv /\ LedgerInv /\ [Next]_vars => LedgerInv'
<1> SUFFICES ASSUME IInv, LedgerInv, [Next]_vars PROVE LedgerInv'
  OBVIOUS
<1>1. CASE Next
  <2>1. PICK c \in Calls :
           \/ \E op \in Ops, u \in Users, a \in Amounts : Begin(c, op, u, a)
           \/ Step(c)
    BY <1>1 DEF Next
  <2>. QED
    BY <2>1, FirstStepsLedger, SaveWalletLedger, SaveUsageLedger, SaveTransactionLedger,
       FaultLedger DEF Step
<1>2. CASE UNCHANGED vars
  BY <1>2 DEF vars, tables, history, LedgerInv, WritesOK, UsageOK, UsageIsDebited,
     LedgerExplainsBalance, Balance, Total, RowsOf, Unposted, UnpostedCalls
<1>. QED
  BY <1>1, <1>2

LEMMA LedgerHolds == Spec => []LedgerInv
BY LedgerInit, LedgerNext, InvariantHolds, PTL DEF Spec

\* However calls interleave and wherever they fail, the rows of
\* wallet_transactions explain the balance but for stale saves and for the
\* changes of calls that did not reach their last query.
THEOREM LedgerExplained == Spec => []LedgerExplainsBalance
<1>1. LedgerInv => LedgerExplainsBalance
  BY DEF LedgerInv
<1>. QED
  BY <1>1, LedgerHolds, PTL

\* A row of usage_ledger has its debit row, or its call is about to insert that
\* row or failed at it.
THEOREM UsageDebited == Spec => []UsageIsDebited
<1>1. LedgerInv => UsageIsDebited
  BY DEF LedgerInv
<1>. QED
  BY <1>1, LedgerHolds, PTL

LEMMA PostedInit == Init => AllPosted
BY DEF Init, AllPosted, IdleCall

LEMMA PostedNext == IInv /\ LedgerInv /\ AllPosted /\ [Next]_vars => AllPosted'
<1> SUFFICES ASSUME IInv, LedgerInv, AllPosted, [Next]_vars, faults' = 0,
                    NEW d \in Calls, call'[d].saved
             PROVE  call'[d].stage # "failed"
  BY DEF AllPosted
<1>1. CASE Next
  <2>1. PICK c \in Calls :
           \/ \E op \in Ops, u \in Users, a \in Amounts : Begin(c, op, u, a)
           \/ Step(c)
    BY <1>1 DEF Next
  <2>2. CASE Fault(c)
    BY <2>2, WalletAssumption DEF Fault, IInv, TypeOK
  <2>3. CASE \/ SaveWallet(c) \/ SaveUsage(c) \/ SaveTransaction(c)
             \/ \E op \in Ops, u \in Users, a \in Amounts : Begin(c, op, u, a)
    <3>1. faults = 0 /\ \A e \in Calls \ {c} : call'[e] = call[e]
      BY <2>3 DEF SaveWallet, SaveUsage, SaveTransaction, Begin, IInv, TypeOK, history
    <3>2. call'[c].stage # "failed"
      <4>1. CASE \E op \in Ops, u \in Users, a \in Amounts : Begin(c, op, u, a)
        BY <4>1, IdleCallOK DEF Begin, IInv, TypeOK, Call
      <4>2. CASE SaveWallet(c)
        BY <4>2 DEF SaveWallet, IInv, TypeOK, Call
      <4>3. CASE SaveUsage(c) \/ SaveTransaction(c)
        BY <4>3 DEF SaveUsage, SaveTransaction, IInv, TypeOK, Call
      <4>. QED
        BY <2>3, <4>1, <4>2, <4>3
    <3>. QED
      BY <3>1, <3>2 DEF AllPosted
  <2>4. CASE \/ FindWallet(c) \/ FindNoWallet(c) \/ InsertWallet(c)
             \/ InsertDuplicate(c) \/ SaveOverflows(c)
    <3>1. ~call[c].saved
      BY <2>4, NothingWritten
         DEF FindWallet, FindNoWallet, InsertWallet, InsertDuplicate, SaveOverflows
    <3>2. call'[c].saved = call[c].saved /\ \A e \in Calls \ {c} : call'[e] = call[e]
      BY <2>4 DEF FindWallet, FindNoWallet, InsertWallet, InsertDuplicate, SaveOverflows,
         IInv, TypeOK, Call
    <3>3. faults = 0
      BY <2>4 DEF FindWallet, FindNoWallet, InsertWallet, InsertDuplicate, SaveOverflows
    <3>. QED
      BY <3>1, <3>2, <3>3 DEF AllPosted
  <2>. QED
    BY <2>1, <2>2, <2>3, <2>4 DEF Step
<1>2. CASE UNCHANGED vars
  BY <1>2 DEF vars, AllPosted
<1>. QED
  BY <1>1, <1>2

LEMMA PostedHolds == Spec => []AllPosted
BY PostedInit, PostedNext, InvariantHolds, LedgerHolds, PTL DEF Spec

\* The document's audit trail is exact wherever calls wait for each other and
\* no query is rejected.
THEOREM AuditTrailExact ==
    ASSUME Serial, MaxFaults = 0 PROVE Spec => []AuditTrail
<1>1. ASSUME IInv, LedgerInv, SerialInv, AllPosted PROVE AuditTrail
  <2>1. SUFFICES ASSUME InFlight = {}, NEW u \in Users
                 PROVE  Balance(u) = Total(u, "credit") - Total(u, "debit")
    BY DEF AuditTrail
  <2>2. faults = 0 /\ lost[u] = 0
    BY <1>1 DEF IInv, TypeOK, SerialInv
  <2>3. ASSUME NEW ops PROVE UnpostedCalls(u, ops) = {}
    <3>1. ASSUME NEW c \in UnpostedCalls(u, ops) PROVE FALSE
      <4>1. c \in Calls /\ call[c].saved /\ call[c].stage # "done"
        BY DEF UnpostedCalls
      <4>2. call[c].stage \in {"usage", "post"}
        BY <1>1, <2>2, <4>1 DEF LedgerInv, WritesOK, AllPosted
      <4>. QED
        BY <2>1, <4>1, <4>2 DEF InFlight, Running
    <3>. QED
      BY <3>1
  <2>4. \A ops : Unposted(u, ops) = 0
    BY <2>3, SumEmpty DEF Unposted
  <2>5. Total(u, "credit") \in Int /\ Total(u, "debit") \in Int
    BY <1>1, RowsPosted
  <2>. QED
    BY <1>1, <2>2, <2>4, <2>5 DEF LedgerInv, LedgerExplainsBalance
<1>. QED
  BY <1>1, InvariantHolds, LedgerHolds, NoStaleSave, PostedHolds, PTL
=============================================================================
