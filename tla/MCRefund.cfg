CONSTANTS
    p1 = p1
    a1 = a1
    a2 = a2
    b1 = b1
    s1 = s1
    Payments <- OnePayment
    Paid <- TenOnly
    Parts <- PartOrAll
    Creators <- TwoCreators
    Retriers <- OneRetrier
    Spenders <- OneSpender
    Opening = 10
    MaxFaults = 1
    NoRefund = NoRefund
SPECIFICATION MCSpec
INVARIANT RefundsArePaidBack
INVARIANT RefundsInTurn
CHECK_DEADLOCK FALSE
