CONSTANTS
    u1 = u1
    p1 = p1
    p2 = p2
    p3 = p3
    a1 = a1
    h1 = h1
    h2 = h2
    h3 = h3
    q1 = q1
    Users = {u1}
    Payments <- OnePayment
    Provider <- MoMo
    Owner <- OwnerOfAll
    Worth <- WorthOne
    Creators <- SoleCreator
    Hooks <- TwoHooks
    Strangers = {}
    Pollers = {}
    Calls <- MCCalls
    Amounts <- ZeroOrOne
    MaxMoney = 3
    NoWallet = NoWallet
    MaxFaults = 0
    Redeliver = TRUE
    Serial = FALSE
SPECIFICATION PSpec
INVARIANT CreditedOnce
CHECK_DEADLOCK FALSE
