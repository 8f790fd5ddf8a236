------------------------------- MODULE Wallet -------------------------------
(***************************************************************************)
(* WalletService of the subscription module: one user_wallets row per      *)
(* user, the append-only wallet_transactions and usage_ledger tables, and  *)
(* the calls that work on them.  A call is one asynchronous activation of  *)
(* a service method.  No call opens a database transaction or locks a row, *)
(* so every awaited repository operation is a step of its own and the      *)
(* steps of different calls interleave.                                    *)
(*                                                                         *)
(* Money is counted in cents.  A column of type numeric(10,2) refuses a    *)
(* value above MaxMoney: the UPDATE raises and the call ends.              *)
(***************************************************************************)
EXTENDS Integers, FiniteSets, Functions

CONSTANTS
    Users,      \* the users; a wallet is identified by its owner
    Calls,      \* activations of the service methods, each used once
    Amounts,    \* amounts a caller may pass
    MaxMoney,   \* largest value of a numeric(10,2) column
    NoWallet,   \* stands for a missing user_wallets row
    MaxFaults,  \* bound: how many calls may end in a rejected query
    Serial      \* TRUE: callers wait for a call to end before the next one

ASSUME WalletAssumption ==
    /\ Users # {}
    /\ MaxMoney \in Nat
    /\ MaxFaults \in Nat
    /\ Amounts \subseteq Int
    /\ NoWallet \notin Int
    /\ Serial \in BOOLEAN

VARIABLES
    balance,        \* user_wallets.creditBalance, by owner
    call,           \* the local state of every call
    transactions,   \* the rows of wallet_transactions
    usage,          \* the rows of usage_ledger
    faults,         \* how many calls a rejected query has ended
    given,          \* history: the credits saved to each wallet, summed
    taken,          \* history: the debits saved to each wallet, summed
    lost            \* history: what stale saves discarded, net

tables  == <<balance, transactions, usage>>
history == <<given, taken, lost>>
vars    == <<tables, call, faults, history>>

Ops == {"open", "credit", "debit", "deduct"}

\* "find", "insert", "save", "usage" and "post" name the query a call awaits.
Stages  == {"idle", "find", "insert", "save", "usage", "post", "done", "failed"}
Running == {"find", "insert", "save", "usage", "post"}

Money == 0 .. MaxMoney

Call == [stage: Stages, op: Ops, user: Users, amount: Int, before: Int,
         saved: BOOLEAN]

\* How a call that has not begun is written.
IdleCall == [stage |-> "idle", op |-> "open", user |-> CHOOSE u \in Users : TRUE,
             amount |-> 0, before |-> 0, saved |-> FALSE]

Row == [by: Calls, user: Users, type: {"credit", "debit"}, amount: Int,
        before: Int, after: Int]

UsageRow == [by: Calls, user: Users, amountDeducted: Int, before: Int,
             after: Int]

InFlight == {c \in Calls : call[c].stage \in Running}

\* The balance a call writes, computed from the balance it read.
NewBalance(k) == IF k.op = "credit" THEN k.before + k.amount
                                    ELSE k.before - k.amount

\* The checks between reading the wallet and writing it.
InvalidAmount_CreditOnly(k) == k.op = "credit" /\ k.amount <= 0
InvalidAmount(k) == k.op \in {"credit", "debit"} /\ k.amount <= 0
Overdraft_DebitOnly(k, b) == k.op = "debit" /\ b < k.amount
Overdraft(k, b) == k.op \in {"debit", "deduct"} /\ b < k.amount

\* What a call does next once it holds a wallet whose balance is b.
AfterFind(k, b) == CASE InvalidAmount(k) \/ Overdraft(k, b) -> "failed"
                     [] k.op = "open"                       -> "done"
                     [] OTHER                               -> "save"

\* The owner's balance as the rest of the system sees it.
Balance(u) == IF balance[u] = NoWallet THEN 0 ELSE balance[u]

-----------------------------------------------------------------------------
Init ==
    /\ balance = [u \in Users |-> NoWallet]
    /\ call = [c \in Calls |-> IdleCall]
    /\ transactions = {}
    /\ usage = {}
    /\ faults = 0
    /\ given = [u \in Users |-> 0]
    /\ taken = [u \in Users |-> 0]
    /\ lost = [u \in Users |-> 0]

\* A caller awaits creditWallet, debitWallet, the wallet part of
\* deductForAction (whose cost is never negative) or getOrCreateWallet.
Begin(c, op, u, a) ==
    /\ call[c].stage = "idle"
    /\ Serial => InFlight = {}
    /\ op = "deduct" => a >= 0
    /\ call' = [call EXCEPT ![c] = [IdleCall EXCEPT !.stage = "find", !.op = op,
                                                    !.user = u, !.amount = a]]
    /\ UNCHANGED <<tables, faults, history>>

\* findOne returned the wallet; parseFloat makes its balance a number.
FindWallet(c) ==
    LET k == call[c] IN
    /\ k.stage = "find"
    /\ balance[k.user] # NoWallet
    /\ call' = [call EXCEPT ![c].before = balance[k.user],
                            ![c].stage = AfterFind(k, balance[k.user])]
    /\ UNCHANGED <<tables, faults, history>>

\* findOne returned null: creditWallet and debitWallet look a wallet up by id
\* and throw, the others go through getOrCreateWallet.
FindNoWallet(c) ==
    LET k == call[c] IN
    /\ k.stage = "find"
    /\ balance[k.user] = NoWallet
    /\ call' = [call EXCEPT ![c].stage = IF k.op \in {"credit", "debit"}
                                         THEN "failed" ELSE "insert"]
    /\ UNCHANGED <<tables, faults, history>>

\* getOrCreateWallet inserts an empty wallet.
InsertWallet(c) ==
    LET k == call[c] IN
    /\ k.stage = "insert"
    /\ balance[k.user] = NoWallet
    /\ balance' = [balance EXCEPT ![k.user] = 0]
    /\ call' = [call EXCEPT ![c].before = 0, ![c].stage = AfterFind(k, 0)]
    /\ UNCHANGED <<transactions, usage, faults, history>>

\* The OneToOne join column is unique: of two racing inserts the second raises.
InsertDuplicate(c) ==
    LET k == call[c] IN
    /\ k.stage = "insert"
    /\ balance[k.user] # NoWallet
    /\ call' = [call EXCEPT ![c].stage = "failed"]
    /\ UNCHANGED <<tables, faults, history>>

\* save(wallet): the balance computed from the one read replaces whatever the
\* row holds now.
SaveWallet(c) ==
    LET k == call[c]
        u == k.user IN
    /\ k.stage = "save"
    /\ NewBalance(k) <= MaxMoney
    /\ balance' = [balance EXCEPT ![u] = NewBalance(k)]
    /\ call' = [call EXCEPT ![c].saved = TRUE,
                            ![c].stage = IF k.op = "deduct" THEN "usage" ELSE "post"]
    /\ given' = [given EXCEPT ![u] = @ + (IF k.op = "credit" THEN k.amount ELSE 0)]
    /\ taken' = [taken EXCEPT ![u] = @ + (IF k.op = "credit" THEN 0 ELSE k.amount)]
    /\ lost' = [lost EXCEPT ![u] = @ + (Balance(u) - k.before)]
    /\ UNCHANGED <<transactions, usage, faults>>

\* numeric field overflow.
SaveOverflows(c) ==
    LET k == call[c] IN
    /\ k.stage = "save"
    /\ NewBalance(k) > MaxMoney
    /\ call' = [call EXCEPT ![c].stage = "failed"]
    /\ UNCHANGED <<tables, faults, history>>

SaveUsage_Last(c) ==
    LET k == call[c] IN
    /\ k.stage = "usage"
    /\ usage' = usage \cup {[by |-> c, user |-> k.user, amountDeducted |-> k.amount,
                             before |-> k.before, after |-> NewBalance(k)]}
    /\ call' = [call EXCEPT ![c].stage = "done"]
    /\ UNCHANGED <<balance, transactions, faults, history>>

\* deductForAction inserts the usage_ledger row.
SaveUsage(c) ==
    LET k == call[c] IN
    /\ k.stage = "usage"
    /\ usage' = usage \cup {[by |-> c, user |-> k.user, amountDeducted |-> k.amount,
                             before |-> k.before, after |-> NewBalance(k)]}
    /\ call' = [call EXCEPT ![c].stage = "post"]
    /\ UNCHANGED <<balance, transactions, faults, history>>

SaveTransaction_AlwaysCredit(c) ==
    LET k == call[c] IN
    /\ k.stage = "post"
    /\ transactions' = transactions \cup
           {[by |-> c, user |-> k.user, type |-> "credit",
             amount |-> k.amount, before |-> k.before, after |-> NewBalance(k)]}
    /\ call' = [call EXCEPT ![c].stage = "done"]
    /\ UNCHANGED <<balance, usage, faults, history>>

\* Insert the wallet_transactions row: the last query of a call.
SaveTransaction(c) ==
    LET k == call[c] IN
    /\ k.stage = "post"
    /\ transactions' = transactions \cup
           {[by |-> c, user |-> k.user,
             type |-> IF k.op = "credit" THEN "credit" ELSE "debit",
             amount |-> k.amount, before |-> k.before, after |-> NewBalance(k)]}
    /\ call' = [call EXCEPT ![c].stage = "done"]
    /\ UNCHANGED <<balance, usage, faults, history>>

\* The query a call awaits is rejected, or its process dies: no later statement
\* of the call runs and nothing it wrote is undone.
Fault(c) ==
    /\ call[c].stage \in Running
    /\ faults < MaxFaults
    /\ faults' = faults + 1
    /\ call' = [call EXCEPT ![c].stage = "failed"]
    /\ UNCHANGED <<tables, history>>

Step(c) ==
    \/ FindWallet(c)
    \/ FindNoWallet(c)
    \/ InsertWallet(c)
    \/ InsertDuplicate(c)
    \/ SaveWallet(c)
    \/ SaveOverflows(c)
    \/ SaveUsage(c)
    \/ SaveTransaction(c)
    \/ Fault(c)

Next ==
    \E c \in Calls :
        \/ \E op \in Ops, u \in Users, a \in Amounts : Begin(c, op, u, a)
        \/ Step(c)

Spec == Init /\ [][Next]_vars

-----------------------------------------------------------------------------
(* Properties *)

\* Every column holds what its type admits, and a running call holds what the
\* stage it has reached needs.
TypeOK ==
    /\ balance \in [Users -> Int \cup {NoWallet}]
    /\ call \in [Calls -> Call]
    /\ transactions \subseteq Row
    /\ usage \subseteq UsageRow
    /\ faults \in 0 .. MaxFaults
    /\ given \in [Users -> Nat]
    /\ taken \in [Users -> Nat]
    /\ lost \in [Users -> Int]

\* However calls interleave and wherever they fail, no wallet goes below zero
\* or above what its column can hold: the overdraft check of debitWallet and
\* deductForAction is made on the balance that the write starts from, even
\* when that balance is stale.
BalanceInRange == \A u \in Users : balance[u] # NoWallet => balance[u] \in Money

\* Lost updates can destroy or resurrect money a user once had, but the
\* balance never exceeds everything that creditWallet has ever paid in.
NothingMinted == \A u \in Users : Balance(u) <= given[u]

\* What the rows of wallet_transactions of user u add up to, as
\* getWalletStatistics sums them by type.
RowsOf(u, type) == {r \in transactions : r.user = u /\ r.type = type}
Total(u, type) == SumFunctionOnSet([r \in transactions |-> r.amount], RowsOf(u, type))

\* Changes saved to u's wallet whose wallet_transactions row is still missing.
UnpostedCalls(u, ops) == {c \in Calls : /\ call[c].user = u
                                        /\ call[c].op \in ops
                                        /\ call[c].saved
                                        /\ call[c].stage # "done"}
Unposted(u, ops) == SumFunctionOnSet([c \in Calls |-> call[c].amount], UnpostedCalls(u, ops))

\* The ledger misses exactly two things: stale saves, and changes of calls
\* that have not reached (or never will reach) their last query.
LedgerExplainsBalance ==
    \A u \in Users :
        Balance(u) = Total(u, "credit") + Unposted(u, {"credit"})
                     - Total(u, "debit") - Unposted(u, {"debit", "deduct"})
                     - lost[u]

\* Every usage_ledger row belongs to one debit row of the same call, user and
\* amount, unless its call is about to insert that row or failed at it.
UsageIsDebited ==
    \A w \in usage :
        \/ call[w.by].stage \in {"post", "failed"}
        \/ \E r \in transactions :
               /\ r.by = w.by
               /\ r.user = w.user
               /\ r.type = "debit"
               /\ r.amount = w.amountDeducted

\* docs/subscription.md, key design point 2: "WalletTransaction records all
\* balance changes".  Whenever no call is in flight, a wallet holds its credit
\* rows minus its debit rows.
AuditTrail ==
    InFlight = {} =>
        \A u \in Users : Balance(u) = Total(u, "credit") - Total(u, "debit")

\* docs/subscription.md, 3119-3130: each user has one wallet, and a payment,
\* a use and a refund each make one change to it.  Calls that wait for each
\* other behave like indivisible deposits and withdrawals.
Ledger == INSTANCE Account WITH funds <- [u \in Users |-> Balance(u)],
                                deposits <- given, withdrawals <- taken

ImplementsAccount == Ledger!Spec

-----------------------------------------------------------------------------
(* The inductive invariant behind BalanceInRange and NothingMinted. *)

\* What a call has established by the stage it has reached.
CallOK(c) ==
    LET k == call[c] IN
    /\ k.op = "deduct" => k.amount >= 0
    /\ k.stage = "save" => /\ k.op # "open"
                           /\ ~InvalidAmount(k)
                           /\ ~Overdraft(k, k.before)
                           /\ k.before \in Money
                           /\ k.before <= given[k.user]
    /\ k.stage \in {"usage", "post"} => NewBalance(k) \in Money

IInv ==
    /\ TypeOK
    /\ BalanceInRange
    /\ NothingMinted
    /\ \A c \in Calls : CallOK(c)

\* When calls do not overlap, the balance a call read is still the balance it
\* replaces, and no stale save ever happens.
SerialInv ==
    Serial =>
        /\ \A c, d \in InFlight : c = d
        /\ \A c \in Calls : call[c].stage = "save" =>
               /\ balance[call[c].user] # NoWallet
               /\ call[c].before = balance[call[c].user]
        /\ \A u \in Users : lost[u] = 0

\* What a call has written by the stage it has reached, behind
\* LedgerExplainsBalance and UsageIsDebited.
WritesOK(c) ==
    LET k == call[c] IN
    /\ k.stage \in {"usage", "post"} => k.saved
    /\ k.stage = "usage" => k.op = "deduct"
    /\ k.saved => k.stage \in {"usage", "post", "done", "failed"} /\ k.op # "open"

\* A usage_ledger row names the user and the amount of the call that wrote it.
UsageOK(w) ==
    LET k == call[w.by] IN
    /\ k.op = "deduct" /\ k.user = w.user /\ k.amount = w.amountDeducted
    /\ k.stage \in {"post", "done", "failed"}

LedgerInv ==
    /\ \A c \in Calls : WritesOK(c)
    /\ \A r \in transactions : call[r.by].stage = "done"
    /\ \A w \in usage : UsageOK(w)
    /\ IsFiniteSet(transactions)
    /\ IsFiniteSet({c \in Calls : call[c].saved})
    /\ LedgerExplainsBalance
    /\ UsageIsDebited

\* Where no query is rejected, a call that saved the wallet reaches its last query.
AllPosted == faults = 0 => \A c \in Calls : call[c].saved => call[c].stage # "failed"
=============================================================================
