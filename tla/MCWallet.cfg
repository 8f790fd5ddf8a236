CONSTANTS
    Users = {u1}
    Calls = {c1, c2, c3, c4}
    Amounts <- MixedAmounts
    MaxMoney = 3
    NoWallet = NoWallet
    MaxFaults = 1
    Serial = FALSE
SPECIFICATION Spec
SYMMETRY CallSymmetry
INVARIANT BalanceInRange
INVARIANT NothingMinted
INVARIANT LedgerExplainsBalance
INVARIANT UsageIsDebited
CHECK_DEADLOCK FALSE
