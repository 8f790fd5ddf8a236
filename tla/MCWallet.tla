------------------------------ MODULE MCWallet ------------------------------
(* Small instances of Wallet for TLC. *)
EXTENDS Wallet, TLC

\* The calls are interchangeable.
CallSymmetry == Permutations(Calls)

\* Zero and a negative amount, which are refused, and two sizes so that a debit
\* may or may not fit.
SomeAmounts == {-1, 0, 1, 2}
PositiveAmounts == {1, 2}
MixedAmounts == {-1, 1, 2}
=============================================================================
