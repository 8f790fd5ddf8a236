----------------------------- MODULE MCServices -----------------------------
(* Small instances of Pipeline, Posting, Membership, Report, Profile, Alerts, *)
(* Analytics, Documents, Chat, MockInterview and Workflow for TLC.  They      *)
(* share no table, so a behaviour is one of a single service, the focus, and  *)
(* the tables of the others stay as they were.  A history variable tells      *)
(* whether two requests were ever at work at the same time.  Bound: at most   *)
(* Most requests are made, Price fewer when some did, and one fewer when a    *)
(* query failed.  r4 is the last request of four; the other three are alike.  *)
EXTENDS Pipeline, Posting, Membership, Report, Profile, Alerts, Analytics, Documents, Chat, MockInterview, Workflow, TLC

CONSTANTS r1, r2, r3, r4, k1, k2, n1, n2, reader, founder, colleague, a1, a2, t1, t2, t3, t4, c1, c2, c3

FourRequests == {r1, r2, r3, r4}
Names == {n1, n2}
StageKeys == {k1, k2}
OneReader == {reader}
OneColleague == {colleague}
TwoAdmins == {a1, a2}
NoneOrAllFields == {0, 4}
OneThing == {"post"}

\* Both stages, one without a transition, and no stages but a transition
SomeStructures ==
    {[keys |-> <<k2, k1>>, links |-> {<<k1, k2>>}, relink |-> TRUE],
     [keys |-> <<k2>>, links |-> {}, relink |-> FALSE],
     [keys |-> <<>>, links |-> {<<k2, k1>>}, relink |-> TRUE]}

\* Three tasks that depend on at most two; t4 is not among them.
ThreeTasks == <<t1, t2, t3>>
UpToTwo == {SetToSeq(S) : S \in {S \in SUBSET {t1, t2, t3, t4} : Cardinality(S) <= 2}}

\* Tables for the figures: a hire and another, or an application that is new, from one or
\* two sources and on any days; three hires; one of the recruiter in any status.  Tables that
\* others change during a report: none, or one, that was made on the first or the last day
\* or is hired.
TwoCandidates == {c1, c2}
BothSources == {"DIRECT", "REFERRAL"}
Hires(s) == {Life(s, p[1], "HIRED", p[2]) : p \in {p \in (0 .. 2) \X (0 .. 2) : p[1] <= p[2]}}
NewOrHired(s) == Hires(s) \cup {Life(s, d, "NEW", d) : d \in 0 .. 2}
Assigned == {[Life("DIRECT", 0, s, 0) EXCEPT !.assigned = TRUE, !.contact = d, !.overdue = b] :
                 s \in ApplicationStatuses, d \in -1 .. 2, b \in BOOLEAN}
Offered == [Life("DIRECT", 0, "INTERVIEW_COMPLETED", 0) EXCEPT !.assigned = TRUE, !.offer = TRUE]
LargeTables ==
    {[c \in TwoCandidates |-> IF c = c1 THEN x ELSE y] :
         x \in Hires("DIRECT"), y \in NewOrHired("DIRECT") \cup NewOrHired("REFERRAL")}
        \cup [{c1, c2, c3} -> {Life("DIRECT", 0, "HIRED", d) : d \in 0 .. 2}] \cup [{c1} -> Assigned \cup {Offered}]
SmallTables ==
    {<<>>} \cup [{c1} -> {Life("DIRECT", 0, "NEW", 0), Life("DIRECT", 2, "NEW", 2), Life("DIRECT", 0, "HIRED", 1)}]
SomeTables == LargeTables \cup SmallTables

Alike == Permutations(FourRequests \ {r4}) \cup Permutations(Names) \cup Permutations(TwoAdmins)

VARIABLES focus, overlapped

mcvars == <<svars, ptables, jvars, mvars, rvars, bvars, avars, gvars, dvars, cvars, ivars, wvars, focus, overlapped>>

Made == {h \in Requests : handler[h].step # "idle"}
Most ==
    CASE focus \in {"membership", "alerts"} -> 4
      [] focus = "analytics" -> 2
      [] focus = "figures" -> 1
      [] OTHER -> 3
Price ==
    CASE focus \in {"membership", "alerts"} -> 2
      [] focus \in {"analytics", "documents"} -> 0
      [] OTHER -> 1

MCInit ==
    /\ SInit /\ overlapped = FALSE
    /\ focus \in {"pipelines", "posting", "membership", "reports", "profile", "alerts", "figures", "analytics",
                  "documents", "chat", "interview", "workflow"}
    /\ IF focus = "pipelines" THEN PipelineInit
       ELSE pipelines = <<>> /\ stages = {} /\ transitions = {} /\ jobPipeline = NoPipeline
    /\ IF focus = "posting" THEN PostingInit
       ELSE job = NoJob /\ saved = {} /\ favored = {} /\ interactions = {} /\ announced = 0 /\ cleared = 0
    /\ IF focus = "membership" THEN MembershipInit
       ELSE founded = FALSE /\ roles = {} /\ members = {} /\ invitations = {}
    /\ IF focus = "reports" THEN ReportInit
       ELSE onDuty = {} /\ adminList = NoList /\ turnIndex = -1 /\ reports = {} /\ turns = <<>>
    /\ IF focus = "profile" THEN ProfileInit
       ELSE profile = NoProfile /\ locked = NoOne /\ experiences = {} /\ employers = {} /\ embedded = <<>>
    /\ IF focus = "alerts" THEN AlertsInit
       ELSE /\ preferences = NoPreferences /\ tokens = {} /\ queued = {}
            /\ chosen = <<>> /\ updates = 0 /\ registered = NoToken
    /\ IF focus \in {"figures", "analytics"}
       THEN AnalyticsInit /\ (focus = "analytics" => applications \in SmallTables)
       ELSE applications = <<>> /\ report = NoReport
    /\ IF focus = "documents" THEN DocumentsInit ELSE files = {} /\ cloud = {} /\ cvs = {} /\ written = {}
    /\ IF focus = "chat" THEN ChatInit
       ELSE session = NoSession /\ messages = <<>> /\ attached = {} /\ remembered = {} /\ told = <<>>
    /\ IF focus = "interview" THEN InterviewInit
       ELSE interview = NoInterview /\ asked = FALSE /\ responses = {} /\ feedback = {} /\ latest = Nothing
    /\ IF focus = "workflow" THEN WorkflowInit
       ELSE /\ phase = "none" /\ next = 1 /\ depends = <<>> /\ status = <<>>
            /\ stack = <<>> /\ visited = {} /\ visiting = {} /\ sorted = <<>> /\ completedTasks = {}

\* When nothing more may happen than that requests end, TLC need not try to make more.
More == Cardinality(Made) + faults + (IF overlapped THEN Price ELSE 0) < Most

PipelinesMove ==
    /\ focus = "pipelines"
    /\ IF More THEN PipelineNext ELSE \E h \in Made : PipelineStep(h)
    /\ UNCHANGED <<jvars, mvars, rvars, bvars, avars, gvars, dvars, cvars, ivars, wvars>>
PostingMoves ==
    focus = "posting" /\ PostingNext /\ UNCHANGED <<ptables, mvars, rvars, bvars, avars, gvars, dvars, cvars, ivars, wvars>>
MembershipMoves ==
    focus = "membership" /\ MembershipNext /\ UNCHANGED <<ptables, jvars, rvars, bvars, avars, gvars, dvars, cvars, ivars, wvars>>
ReportsMove ==
    focus = "reports" /\ ReportNext /\ UNCHANGED <<ptables, jvars, mvars, bvars, avars, gvars, dvars, cvars, ivars, wvars>>
ProfileMoves ==
    focus = "profile" /\ ProfileNext /\ UNCHANGED <<ptables, jvars, mvars, rvars, avars, gvars, dvars, cvars, ivars, wvars>>
AlertsMove ==
    focus = "alerts" /\ AlertsNext /\ UNCHANGED <<ptables, jvars, mvars, rvars, bvars, gvars, dvars, cvars, ivars, wvars>>
AnalyticsMove ==
    /\ focus \in {"figures", "analytics"}
    /\ IF More THEN AnalyticsNext ELSE \E h \in Made : AnalyticsStep(h)
    /\ UNCHANGED <<ptables, jvars, mvars, rvars, bvars, avars, dvars, cvars, ivars, wvars>>
DocumentsMove ==
    focus = "documents" /\ DocumentsNext /\ UNCHANGED <<ptables, jvars, mvars, rvars, bvars, avars, gvars, cvars, ivars, wvars>>
ChatMoves ==
    focus = "chat" /\ ChatNext /\ UNCHANGED <<ptables, jvars, mvars, rvars, bvars, avars, gvars, dvars, ivars, wvars>>
InterviewMoves ==
    focus = "interview" /\ InterviewNext /\ UNCHANGED <<ptables, jvars, mvars, rvars, bvars, avars, gvars, dvars, cvars, wvars>>
WorkflowMoves ==
    focus = "workflow" /\ WorkflowNext /\ UNCHANGED <<svars, ptables, jvars, mvars, rvars, bvars, avars, gvars, dvars, cvars, ivars>>

\* Two requests are at work after the step.
Turns == overlapped' = (overlapped \/ \E g, h \in Requests : g # h /\ Running(g)' /\ Running(h)')

MCNext ==
    /\ \/ PipelinesMove \/ PostingMoves \/ MembershipMoves \/ ReportsMove
       \/ ProfileMoves \/ AlertsMove \/ AnalyticsMove \/ DocumentsMove \/ ChatMoves \/ InterviewMoves \/ WorkflowMoves
    /\ UNCHANGED focus
    /\ Turns
    /\ r4 \in Made' => Made' = FourRequests
    /\ Cardinality(Made') + faults' + (IF overlapped' THEN Price ELSE 0) <= Most

MCSpec == MCInit /\ [][MCNext]_mcvars

\* One service, with no bound on what is asked of it.
PipelineTurns ==
    /\ SInit /\ PipelineInit /\ overlapped = FALSE
    /\ [][PipelineNext /\ Turns]_<<svars, ptables, overlapped>>
PostingTurns ==
    /\ SInit /\ PostingInit /\ overlapped = FALSE
    /\ [][PostingNext /\ Turns]_<<svars, jvars, overlapped>>
MembershipTurns ==
    /\ SInit /\ MembershipInit /\ overlapped = FALSE
    /\ [][MembershipNext /\ Turns]_<<svars, mvars, overlapped>>
ReportTurns ==
    /\ SInit /\ ReportInit /\ overlapped = FALSE
    /\ [][ReportNext /\ Turns]_<<svars, rvars, overlapped>>
ProfileTurns ==
    /\ SInit /\ ProfileInit /\ overlapped = FALSE
    /\ [][ProfileNext /\ Turns]_<<svars, bvars, overlapped>>
AlertsTurns ==
    /\ SInit /\ AlertsInit /\ overlapped = FALSE
    /\ [][AlertsNext /\ Turns]_<<svars, avars, overlapped>>
ChatTurns ==
    /\ SInit /\ ChatInit /\ overlapped = FALSE
    /\ [][ChatNext /\ Turns]_<<svars, cvars, overlapped>>
InterviewTurns ==
    /\ SInit /\ InterviewInit /\ overlapped = FALSE
    /\ [][InterviewNext /\ Turns]_<<svars, ivars, overlapped>>
AnalyticsTurns ==
    /\ SInit /\ AnalyticsInit /\ overlapped = FALSE
    /\ [][AnalyticsNext /\ Turns]_<<svars, gvars, overlapped>>
DocumentsTurns ==
    /\ SInit /\ DocumentsInit /\ overlapped = FALSE
    /\ [][DocumentsNext /\ Turns]_<<svars, dvars, overlapped>>

-----------------------------------------------------------------------------
Undisturbed == ~overlapped /\ faults = 0

Asked(op) == \E h \in Requests : handler[h].op = op

\* Of requests that waited for each other, with no failing query, pipelines have
\* different names and, unless a stage was given a new key or all the stages of a
\* pipeline were replaced, every transition joins two stages of its pipeline
\* (deleteStage, createTransition, updateTransition, deletePipeline, the two
\* comprehensive transactions).
PipelineInTurn ==
    Undisturbed /\ Quiet =>
        /\ NamesDiffer
        /\ ~Asked("updateStage") /\ ~Asked("replacePipeline") => LinksJoinStages

\* Of requests that waited for each other, with no failing query, the savers in the
\* row of the job are those of saved_jobs, and it was announced at most once, and once
\* more for every update that took its date (saveJob, unsaveJob, updateJob,
\* updateJobStatus).
PostingInTurn == Undisturbed /\ Quiet => SaversAgree /\ announced <= 1 + cleared

\* When at most one query failed, an organisation has its founder as a member, or is
\* gone; of requests that waited for each other nobody is a member twice, or by an
\* invitation that was declined (createOrganizationWithOwner, addMember,
\* acceptInvitation, declineInvitation).
MembershipSound ==
    /\ ~overlapped => FoundedHasFounder
    /\ Undisturbed => MembersAreSingle

\* Of updates that waited for the row of the profile one list is left, and its percentage
\* is that of its fields; of requests that waited for each other, with no failing query,
\* the last list replaces the others and is embedded last (createCandidateProfile,
\* updateCandidateProfile).
ProfileSound ==
    focus = "profile" =>
        /\ LockedListsReplace /\ CompletionAgrees
        /\ Undisturbed /\ Quiet => ListsAreReplaced

\* What was chosen stands if it is the only update, whoever creates preferences, and if
\* requests waited for each other; then job alerts are wanted, no two active push
\* tokens are on one device, and the last one registered is active there
\* (updatePreferences, executeJobAlerts, registerPushToken, PushProvider).
AlertsSound ==
    focus = "alerts" =>
        /\ updates = 1 \/ ~overlapped => ChoiceStands
        /\ ~overlapped => AlertsAreWanted /\ TokensAreSingle /\ RegisteredIsActive

\* The figures of a report agree with each other however its queries fall; if nobody
\* else was at work, every hire is an application of its source, two periods that are
\* compared miss none, and the numbers on a dashboard are those of its lists
\* (getHiringEffectiveness, getRecruiterDashboard).
ReportsSound ==
    focus \in {"figures", "analytics"} =>
        /\ FiguresAddUp
        /\ ~overlapped => HiresAreApplications /\ PeriodsMeet /\ ListsMatchNumbers

\* Of the files that no client wrote as it liked: one that is shown has its object; of
\* requests that waited for each other one is deleted when its status says so and, with
\* no failing query, the file of a deleted CV is deleted, and the object of a deleted
\* image is gone (uploadFile, updateFile, deleteFile, deleteCV).
DocumentsSound ==
    focus = "documents" =>
        /\ ShownIsStored
        /\ ~overlapped => DeletedAgrees
        /\ Undisturbed /\ Quiet => CVGoesWithFile /\ ImagesGo

\* A transcript and the memory of the agents agree, and retries are limited; with no
\* failing query a question is answered once; of streams that waited for each other the
\* agents see the question they answer, the answer is next to it, and a session stays
\* shared (processMessageStream, shareSession, updateSession, deleteSession).
ChatSound ==
    focus = "chat" =>
        /\ TranscriptSound /\ RetriesAreLimited /\ AgentsSeeQuestion
        /\ faults = 0 => AnsweredOnce
        /\ ~overlapped => Alternating
        /\ Undisturbed /\ Quiet /\ Asked("shareSession") /\ session # NoSession =>
               "shared" \in session.metadata

\* A call marked as analysed has a completed session; of requests that waited for each
\* other, with no failing query, each call is analysed once, and the session shows the
\* results of the last analysis (analyzeCall, retell, updateResponse).
InterviewSound ==
    focus = "interview" =>
        /\ AnalysedIsComplete
        /\ Undisturbed => AnalysedOnce /\ (Quiet => ResultsAreLatest)

\* Of requests that waited for each other, with no failing query, the admins take
\* turns (createReport).
RoundRobinInTurn == Undisturbed => RoundRobin
=============================================================================
