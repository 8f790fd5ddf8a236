CONSTANTS
    candidate = candidate
    recruiter = recruiter
    r1 = r1
    r2 = r2
    r3 = r3
    r4 = r4
    NoOffer = NoOffer
    Candidate = candidate
    Recruiters <- Staff
    Requests <- FourRequests
    Ops <- AllOps
    Asked <- OnHold
    Responses <- AcceptOrNegotiate
    Limits <- NoneOrOne
    OthersHired = 1
    MaxFaults = 1
SYMMETRY Alike
SPECIFICATION MCSpec
INVARIANT ChainSound
INVARIANT OffersInTurn
INVARIANT InterviewsAreCounted
PROPERTY AcceptedStaysInTurn
CHECK_DEADLOCK FALSE
