------------------------------ MODULE Analytics ------------------------------
(***************************************************************************)
(* The figures on hiring of one organisation: the report of                *)
(* OrganizationHiringAnalyticsService with its comparison, and what        *)
(* RecruiterDashboardService tells a recruiter to do.  Their queries run   *)
(* at once, so a report sees the table at several moments, while others    *)
(* apply, change a status, assign and log contacts.  Days are counted; all *)
(* requests are made on the last one, so they do not tell before from      *)
(* after.  Lists are shorter than the places at which the code cuts them.  *)
(***************************************************************************)
EXTENDS Server, SequencesExt, FiniteSetsExt

CONSTANTS
    Candidates,     \* who applies
    Sources,        \* where applications come from
    Today,          \* the last day
    Silence,        \* how many days without a contact call for a follow-up
    FirstTables,    \* what the table may hold at the start
    NoReport        \* before the first report

VARIABLES
    applications,   \* the applications to the jobs of the organisation
    report          \* the last report, with the table as it was when it was given

gvars == <<applications, report>>

Never == -1     \* no contact yet
Closed == {"HIRED", "REJECTED", "WITHDRAWN"}
ApplicationStatuses == {"NEW", "UNDER_REVIEW", "SHORTLISTED", "INTERVIEW_COMPLETED"} \cup Closed

Life(source, applied, status, changed) ==
    [source |-> source, applied |-> applied, status |-> status, changed |-> changed,
     assigned |-> FALSE, contact |-> Never, overdue |-> FALSE, offer |-> FALSE]

Lives == {life \in [source : Sources, applied : 0 .. Today, status : ApplicationStatuses, changed : 0 .. Today,
                    assigned : BOOLEAN, contact : Never .. Today, overdue : BOOLEAN, offer : BOOLEAN] :
              life.applied <= life.changed}

\* candidate -> life of the application
Table(t) == IsFiniteSet(DOMAIN t) /\ t \in [DOMAIN t -> Lives]

ASSUME AnalyticsAssumption ==
    /\ Today \in Nat /\ Silence \in Nat
    /\ \A t \in FirstTables : Table(t)

AnalyticsInit == applications \in FirstTables /\ report = NoReport

-----------------------------------------------------------------------------
(* Operations on applications, as far as the reports can tell *)

Exists(c) == c \in DOMAIN applications

\* createApplication
Apply(h) ==
    /\ At(h, "apply", "start")
    /\ applications' = [c \in DOMAIN applications \cup {Arg(h).candidate} |->
                           IF Exists(c) THEN applications[c] ELSE Life(Arg(h).source, Today, "NEW", Today)]
    /\ End(h)
    /\ UNCHANGED report

\* updateApplicationStatus, assignApplication, logCommunication, updateApplication with a
\* reminder that is due: what each writes.  What the save of a row that was read before
\* would undo, another request could do too, so reading and saving are one step.
Changed(h, life) ==
    CASE handler[h].op = "status"  -> [life EXCEPT !.status = Arg(h).status, !.changed = Today]
      [] handler[h].op = "assign"  -> [life EXCEPT !.assigned = TRUE]
      [] handler[h].op = "contact" -> [life EXCEPT !.contact = Today]
      [] handler[h].op = "remind"  -> [life EXCEPT !.overdue = TRUE]

Change(h) ==
    /\ handler[h].op \in {"status", "assign", "contact", "remind"} /\ handler[h].step = "start"
    /\ applications' = IF Exists(Arg(h).candidate)
                       THEN [applications EXCEPT ![Arg(h).candidate] = Changed(h, @)]
                       ELSE applications
    /\ End(h)
    /\ UNCHANGED report

-----------------------------------------------------------------------------
(* getHiringEffectiveness *)

Within(table, period) == {c \in DOMAIN table : table[c].applied \in period.from .. period.to}

GetApplications(period) == Restrict(applications, Within(applications, period))

GetHiredApplications_ByHire(period) ==
    Restrict(applications, {c \in DOMAIN applications :
        applications[c].status = "HIRED" /\ applications[c].changed \in period.from .. period.to})

GetHiredApplications(period) ==
    Restrict(applications,
             {c \in Within(applications, period) : applications[c].status = "HIRED"})

\* The dates of the previous period: as long, up to the start of this one.
CalculatePreviousPeriod(period) ==
    [from |-> period.from - (period.to - period.from), to |-> period.from]

\* The applications of the period, and those hired, are read at the same time.
AskEffectiveness(h) ==
    \E from, to \in 0 .. Today :
        from < to /\ Ask(h, "effectiveness", [from |-> from, to |-> to])

StartPart(h, period, done) ==
    Keep(h, "read", [period |-> period, applied |-> <<>>, hired |-> <<>>, done |-> done])

FindOrganization(h) ==
    /\ At(h, "effectiveness", "start")
    /\ StartPart(h, Arg(h), <<>>)
    /\ UNCHANGED gvars

ReadApplications(h) ==
    /\ At(h, "effectiveness", "read") /\ Mem(h).applied = <<>>
    /\ Keep(h, "read", [Mem(h) EXCEPT !.applied = <<GetApplications(Mem(h).period)>>])
    /\ UNCHANGED gvars

ReadHired(h) ==
    /\ At(h, "effectiveness", "read") /\ Mem(h).hired = <<>>
    /\ Keep(h, "read", [Mem(h) EXCEPT !.hired = <<GetHiredApplications(Mem(h).period)>>])
    /\ UNCHANGED gvars

From(table, s) == {c \in DOMAIN table : table[c].source = s}
SourcesOf(table) == {table[c].source : c \in DOMAIN table}

DaysToHire(hired, c) == hired[c].changed - hired[c].applied

\* All days in order; the element in the middle, or the later of the two.
SortedDays(hired) ==
    LET soonest == CHOOSE order \in SetToSeqs(DOMAIN hired) :
                       \A i, j \in DOMAIN order : i < j => DaysToHire(hired, order[i]) <= DaysToHire(hired, order[j])
    IN  [i \in DOMAIN soonest |-> DaysToHire(hired, soonest[i])]

Median(hired) ==
    IF DOMAIN hired = {} THEN 0 ELSE SortedDays(hired)[Cardinality(DOMAIN hired) \div 2 + 1]

\* Hires per source of the hired, and per month in which they were hired.
HiresBySource(hired) == [s \in SourcesOf(hired) |-> Cardinality(From(hired, s))]

Month(day) == day \div 2

CalculateTrend(hired) ==
    [m \in {Month(hired[c].changed) : c \in DOMAIN hired} |->
        Cardinality({c \in DOMAIN hired : Month(hired[c].changed) = m})]

CalculateOverview(applied, hired) ==
    [totalApplications |-> Cardinality(DOMAIN applied),
     totalHires |-> Cardinality(DOMAIN hired),
     activeCandidates |-> Cardinality({c \in DOMAIN applied : applied[c].status \notin Closed})]

\* A hire from a source without applications is left out.
CalculateSourceEffectiveness(applied, hired) ==
    [s \in SourcesOf(applied) |-> [totalApplications |-> Cardinality(From(applied, s)),
                                   totalHires |-> Cardinality(From(hired, s))]]

Metrics(applied, hired) ==
    [overview |-> CalculateOverview(applied, hired), hired |-> hired, median |-> Median(hired),
     bySource |-> HiresBySource(hired), trend |-> CalculateTrend(hired),
     sources |-> CalculateSourceEffectiveness(applied, hired)]

\* With both, the figures are computed; then those of the previous period.
Calculate(h) ==
    /\ At(h, "effectiveness", "read")
    /\ Mem(h).applied # <<>> /\ Mem(h).hired # <<>>
    /\ LET done == Append(Mem(h).done, Metrics(Mem(h).applied[1], Mem(h).hired[1])) IN
       IF Len(done) = 1
       THEN StartPart(h, CalculatePreviousPeriod(Mem(h).period), done) /\ UNCHANGED report
       ELSE /\ report' = [kind |-> "effectiveness", period |-> Arg(h), parts |-> done,
                          table |-> applications]
            /\ End(h)
    /\ UNCHANGED applications

-----------------------------------------------------------------------------
(* getRecruiterDashboard *)

Mine(table) == {c \in DOMAIN table : table[c].assigned}

Silent(life) == life.contact # Never /\ Today - life.contact >= Silence

\* Nobody writes awaitingCandidateResponse.
NeedsAttention(life) == life.overdue \/ (life.contact # Never /\ Today - life.contact > Silence)

NeedsFollowUp(life) == life.contact = Never \/ (Silent(life) /\ life.status \notin Closed)
ToContact(life) == life.contact = Never \/ Silent(life)

\* Nobody writes nextInterviewDate.
PendingAction(life) ==
    CASE life.status \in {"NEW", "UNDER_REVIEW"} -> "review"
      [] life.status = "SHORTLISTED" -> "schedule_interview"
      [] life.status = "INTERVIEW_COMPLETED" /\ ~life.offer -> "send_offer"
      [] OTHER -> "none"

GetUpcomingTasks(table) ==
    [followUps |-> {c \in Mine(table) : NeedsFollowUp(table[c])},
     pending |-> [c \in {c \in Mine(table) : PendingAction(table[c]) # "none"} |-> PendingAction(table[c])]]

GetQuickStats(table) ==
    LET Number(Test(_)) == Cardinality({c \in Mine(table) : Test(table[c])}) IN
    [review |-> Number(LAMBDA a : a.status \in {"NEW", "UNDER_REVIEW"}),
     schedule_interview |-> Number(LAMBDA a : a.status = "SHORTLISTED"),
     send_offer |-> Number(LAMBDA a : a.status = "INTERVIEW_COMPLETED" /\ ~a.offer),
     contact |-> Number(ToContact)]

\* The parts of the dashboard are read at the same time.
OpenDashboard(h) ==
    /\ At(h, "dashboard", "start")
    /\ Keep(h, "read", [work |-> <<>>, tasks |-> <<>>, quick |-> <<>>])
    /\ UNCHANGED gvars

ReadWork(h) ==
    /\ At(h, "dashboard", "read") /\ Mem(h).work = <<>>
    /\ Keep(h, "read", [Mem(h) EXCEPT !.work =
           <<{c \in Mine(applications) : NeedsAttention(applications[c])}>>])
    /\ UNCHANGED gvars

ReadTasks(h) ==
    /\ At(h, "dashboard", "read") /\ Mem(h).tasks = <<>>
    /\ Keep(h, "read", [Mem(h) EXCEPT !.tasks = <<GetUpcomingTasks(applications)>>])
    /\ UNCHANGED gvars

ReadQuick(h) ==
    /\ At(h, "dashboard", "read") /\ Mem(h).quick = <<>>
    /\ Keep(h, "read", [Mem(h) EXCEPT !.quick = <<GetQuickStats(applications)>>])
    /\ UNCHANGED gvars

ShowDashboard(h) ==
    /\ At(h, "dashboard", "read")
    /\ Mem(h).work # <<>> /\ Mem(h).tasks # <<>> /\ Mem(h).quick # <<>>
    /\ report' = [kind |-> "dashboard", work |-> Mem(h).work[1], tasks |-> Mem(h).tasks[1],
                  quick |-> Mem(h).quick[1], table |-> applications]
    /\ End(h)
    /\ UNCHANGED applications

-----------------------------------------------------------------------------
AnalyticsRequest(h) ==
    /\ \/ AskEffectiveness(h)
       \/ Ask(h, "dashboard", "none")
       \/ \E c \in Candidates :
             \/ \E s \in Sources : Ask(h, "apply", [candidate |-> c, source |-> s])
             \/ \E s \in ApplicationStatuses : Ask(h, "status", [candidate |-> c, status |-> s])
             \/ \E op \in {"assign", "contact", "remind"} : Ask(h, op, [candidate |-> c])
    /\ UNCHANGED gvars

AnalyticsStep(h) ==
    \/ Apply(h) \/ Change(h)
    \/ FindOrganization(h) \/ ReadApplications(h) \/ ReadHired(h) \/ Calculate(h)
    \/ OpenDashboard(h) \/ ReadWork(h) \/ ReadTasks(h) \/ ReadQuick(h) \/ ShowDashboard(h)

AnalyticsFault(h) == Fault(h) /\ UNCHANGED gvars

AnalyticsNext == \E h \in Requests : AnalyticsRequest(h) \/ AnalyticsStep(h) \/ AnalyticsFault(h)

AnalyticsSpec == SInit /\ AnalyticsInit /\ [][AnalyticsNext]_<<svars, gvars>>

-----------------------------------------------------------------------------
(* Properties *)

Parts == IF report # NoReport /\ report.kind = "effectiveness" THEN ToSet(report.parts) ELSE {}

Total(counts) == FoldSet(LAMBDA k, sum : sum + counts[k], 0, DOMAIN counts)

\* However the queries fall, the hires of all sources and of all months are those of the
\* overview, no application is counted under two sources, and at least half of the hires
\* took no longer than the median, and half no less (calculateTimeMetrics,
\* calculateTrend, calculateSourceEffectiveness).
FiguresAddUp ==
    \A part \in Parts :
        LET days == {DaysToHire(part.hired, c) : c \in DOMAIN part.hired}
            AtMost(d) == Cardinality({c \in DOMAIN part.hired : DaysToHire(part.hired, c) <= d})
            AtLeast(d) == Cardinality({c \in DOMAIN part.hired : DaysToHire(part.hired, c) >= d})
            hires == part.overview.totalHires IN
        /\ Total(part.bySource) = hires /\ Total(part.trend) = hires
        /\ Total([s \in DOMAIN part.sources |-> part.sources[s].totalApplications])
               = part.overview.totalApplications
        /\ hires > 0 => /\ part.median \in days
                        /\ 2 * AtMost(part.median) >= hires /\ 2 * AtLeast(part.median) >= hires

\* Every hire of an undisturbed report counts for a source, which has no more hires than
\* applications; nobody is active and hired.
HiresAreApplications ==
    \A part \in Parts :
        /\ Total([s \in DOMAIN part.sources |-> part.sources[s].totalHires]) = part.overview.totalHires
        /\ \A s \in DOMAIN part.sources : part.sources[s].totalHires <= part.sources[s].totalApplications
        /\ part.overview.activeCandidates + part.overview.totalHires <= part.overview.totalApplications

\* The two periods of an undisturbed comparison miss no application; only those of the
\* day on which they meet are counted in both (calculatePreviousPeriod).
PeriodsMeet ==
    Parts # {} =>
        LET whole == [from |-> 2 * report.period.from - report.period.to, to |-> report.period.to]
            day == [from |-> report.period.from, to |-> report.period.from] IN
        report.parts[1].overview.totalApplications + report.parts[2].overview.totalApplications
            = Cardinality(Within(report.table, whole)) + Cardinality(Within(report.table, day))

\* The numbers of an undisturbed dashboard are those of its lists: every pending action is
\* counted once, and those to be contacted are the follow-ups and whoever is closed but was
\* once contacted; who needs attention is to be contacted, or a reminder is due
\* (getMyWorkSummary, getUpcomingTasks, getQuickActions).
ListsMatchNumbers ==
    report # NoReport /\ report.kind = "dashboard" =>
        LET pending == report.tasks.pending
            OfType(t) == Cardinality({c \in DOMAIN pending : pending[c] = t})
            contacted == {c \in Mine(report.table) : Silent(report.table[c]) /\ report.table[c].status \in Closed} IN
        /\ report.quick.review = OfType("review")
        /\ report.quick.schedule_interview = OfType("schedule_interview")
        /\ report.quick.send_offer = OfType("send_offer")
        /\ report.quick.contact = Cardinality(report.tasks.followUps \cup contacted)
        /\ \A c \in report.work \ (report.tasks.followUps \cup contacted) : report.table[c].overdue
=============================================================================
