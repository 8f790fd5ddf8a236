CONSTANTS
    r1 = r1
    r2 = r2
    t1 = t1
    Users = {u1}
    Requests <- MCRequests
    TopUps <- OneTopUp
    Calls <- MCCalls
    Admins = {m1, m2}
    Costs <- TwoCosts
    Openings = {1}
    Amounts <- WithZero
    MaxMoney = 3
    NoWallet = NoWallet
    NoAction = NoAction
    MaxFaults = 0
    Serial = FALSE
SPECIFICATION MCSpec
SYMMETRY Symmetric
INVARIANT OnlyWorkIsCharged
INVARIANT SomebodyPays
INVARIANT WorkIsPaidInTurn
PROPERTY OnlyProvidedFieldsInTurn
CHECK_DEADLOCK FALSE
