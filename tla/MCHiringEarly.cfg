CONSTANTS
    candidate = candidate
    recruiter = recruiter
    r1 = r1
    r2 = r2
    r3 = r3
    r4 = r4
    NoOffer = NoOffer
    Candidate = candidate
    Recruiters <- Staff
    Requests <- FourRequests
    Ops <- OnlyInterviews
    Asked <- None
    Responses <- None
    Limits <- Zero
    OthersHired = 1
    MaxFaults = 0
SYMMETRY Alike
SPECIFICATION MCSpec
INVARIANT AllCompletedInTurn
CHECK_DEADLOCK FALSE
