CONSTANTS
    c1 = c1
    c2 = c2
    h1 = h1
    h2 = h2
    h3 = h3
    Candidates <- TwoCandidates
    Requests <- ThreeRequests
    Ops <- AllOps
    Asked <- OnlyHire
    JobAsked <- CloseOrOpen
    Stages <- ThreeStages
    Transitions <- Forward
    StageStatus <- StatusOfStage
    Limits <- OneOrTwo
    MaxFaults = 1
    NoApplication = NoApplication
SPECIFICATION MCSpec
INVARIANT HistoryEndsInStatus
INVARIANT JobSound
PROPERTY StagesInTurn
CHECK_DEADLOCK FALSE
