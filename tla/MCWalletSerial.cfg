CONSTANTS
    Users = {u1, u2}
    Calls = {c1, c2, c3}
    Amounts <- SomeAmounts
    MaxMoney = 3
    NoWallet = NoWallet
    MaxFaults = 0
    Serial = TRUE
SPECIFICATION Spec
INVARIANT AuditTrail
PROPERTY ImplementsAccount
CHECK_DEADLOCK FALSE
