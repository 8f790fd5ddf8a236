CONSTANTS
    u1 = u1
    p1 = p1
    p2 = p2
    p3 = p3
    a1 = a1
    h1 = h1
    h2 = h2
    h3 = h3
    q1 = q1
    Users = {u1}
    Payments <- AllPayments
    Provider <- AllProviders
    Owner <- OwnerOfAll
    Worth <- WorthOne
    Creators <- SoleCreator
    Hooks <- ThreeHooks
    Strangers <- OneStranger
    Pollers <- OnePoller
    Calls <- MCCalls
    Amounts <- ZeroOrOne
    MaxMoney = 3
    NoWallet = NoWallet
    MaxFaults = 2
    Redeliver = FALSE
    Serial = FALSE
SPECIFICATION FairPSpec
INVARIANT CreditedOnlyPaid
INVARIANT CompletedOnlyPaid
PROPERTY ImplementsTopUp
PROPERTY PaidIsCreditedUndisturbed
CHECK_DEADLOCK FALSE
