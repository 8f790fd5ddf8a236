------------------------------ MODULE Account ------------------------------
(***************************************************************************)
(* What a wallet promises: money enters and leaves it in indivisible       *)
(* steps, it can only be spent while it is there, and what it holds is     *)
(* always the difference of the two totals.  WalletService keeps this      *)
(* promise as long as its calls do not overlap (see Wallet, WalletProofs). *)
(***************************************************************************)
EXTENDS Integers

CONSTANTS
    Users,
    MaxMoney    \* the most an account can hold

VARIABLES
    funds,          \* what each user can spend
    deposits,       \* everything paid in so far
    withdrawals     \* everything taken out so far

Init ==
    /\ funds = [u \in Users |-> 0]
    /\ deposits = [u \in Users |-> 0]
    /\ withdrawals = [u \in Users |-> 0]

Deposit(u) ==
    \E a \in 1 .. MaxMoney - funds[u] :
        /\ funds' = [funds EXCEPT ![u] = @ + a]
        /\ deposits' = [deposits EXCEPT ![u] = @ + a]
        /\ UNCHANGED withdrawals

Withdraw(u) ==
    \E a \in 0 .. funds[u] :
        /\ funds' = [funds EXCEPT ![u] = @ - a]
        /\ withdrawals' = [withdrawals EXCEPT ![u] = @ + a]
        /\ UNCHANGED deposits

Next == \E u \in Users : Deposit(u) \/ Withdraw(u)

Spec == Init /\ [][Next]_<<funds, deposits, withdrawals>>
=============================================================================
