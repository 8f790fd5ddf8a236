CONSTANTS
    r1 = r1
    r2 = r2
    r3 = r3
    r4 = r4
    k1 = k1
    k2 = k2
    n1 = n1
    n2 = n2
    reader = reader
    founder = founder
    colleague = colleague
    a1 = a1
    a2 = a2
    t1 = t1
    t2 = t2
    t3 = t3
    t4 = t4
    c1 = c1
    c2 = c2
    c3 = c3
    Requests <- FourRequests
    MaxFaults = 1
    PipelineNames <- Names
    Keys <- StageKeys
    Structures <- SomeStructures
    FirstPipeline = FirstPipeline
    NoPipeline = NoPipeline
    Readers <- OneReader
    NoJob = NoJob
    Founder = founder
    Colleagues <- OneColleague
    Admins <- TwoAdmins
    Reported <- OneThing
    Nobody = Nobody
    NoList = NoList
    Counts <- NoneOrAllFields
    NoProfile = NoProfile
    NoOne = NoOne
    Tokens <- StageKeys
    Devices <- Names
    NoDevice = NoDevice
    NoPreferences = NoPreferences
    Candidates <- TwoCandidates
    Sources <- BothSources
    Today = 2
    Silence = 1
    FirstTables <- SomeTables
    NoReport = NoReport
    MaxRetries = 1
    NoSession = NoSession
    NoInterview = NoInterview
    Nothing = Nothing
    TaskList <- ThreeTasks
    DependencyLists <- UpToTwo
SYMMETRY Alike
SPECIFICATION MCSpec
INVARIANT PipelineInTurn
INVARIANT ActiveIsPosted
INVARIANT PostingInTurn
INVARIANT AcceptedIsMember
INVARIANT MembershipSound
INVARIANT RoundRobinInTurn
INVARIANT WorkflowSound
INVARIANT ProfileSound
INVARIANT AlertsSound
INVARIANT ReportsSound
INVARIANT DocumentsSound
INVARIANT ChatSound
INVARIANT InterviewSound
CHECK_DEADLOCK FALSE
