---------------------------- MODULE Application ----------------------------
(***************************************************************************)
(* The applications for one job: ApplicationService, the stage changes of  *)
(* ApplicationStatusService, the matching-score handler, JobStatusService  *)
(* and the job's status as recruiters set it.  A request reads a row,      *)
(* awaits something, and saves the whole row as it then knows it; no       *)
(* request holds a lock.                                                   *)
(***************************************************************************)
EXTENDS Integers, Sequences, SequencesExt, FiniteSets

CONSTANTS
    Candidates,     \* users who may apply for the job
    Requests,       \* HTTP requests and event handlers
    Ops,            \* the operations that requests perform
    Asked,          \* statuses that requests may ask for
    JobAsked,       \* statuses of the job that recruiters may ask for
    Stages,         \* the stages of the job's hiring pipeline, first one first
    Transitions,    \* pairs of stages that its transitions allow
    StageStatus,    \* mapStageToApplicationStatus
    Limits,         \* values of applicationsLimit of the job; 0 stands for none
    MaxFaults,      \* how many queries may fail
    NoApplication   \* stands for a missing row

ASSUME ApplicationAssumption ==
    /\ Candidates # {} /\ Limits # {}
    /\ Stages \in Seq(STRING) /\ Stages # <<>>
    /\ Transitions \subseteq ToSet(Stages) \X ToSet(Stages)
    /\ StageStatus \in [ToSet(Stages) -> STRING]
    /\ Ops \subseteq {"apply", "status", "update", "stage", "score", "delete", "job"}
    /\ Asked \subseteq STRING
    /\ JobAsked \subseteq {"active", "paused", "closed"}
    /\ Limits \subseteq Nat
    /\ MaxFaults \in Nat

VARIABLES
    app,        \* the applications row of every candidate
    job,        \* the jobs row: status, closedDate set, appliedByUserIds, limit
    handler,    \* the local state of every request
    faults      \* how many queries have failed

avars == <<app, job, handler, faults>>

Statuses == Asked \cup {StageStatus[s] : s \in ToSet(Stages)} \cup {"new"}

Application == [id: Requests,               \* the request that inserted it
                status: Statuses, history: Seq(Statuses),
                stage: ToSet(Stages), scored: BOOLEAN]

Job == [status: {"active", "paused", "closed"}, closedDate: BOOLEAN,
        appliedBy: SUBSET Candidates, limit: Limits]

NewJob(limit) ==
    [status |-> "active", closedDate |-> FALSE, appliedBy |-> {}, limit |-> limit]

IdleHandler == [op |-> "none", step |-> "idle", cand |-> CHOOSE c \in Candidates : TRUE,
                arg |-> "none", row |-> NoApplication,
                job |-> NewJob(CHOOSE n \in Limits : TRUE)]

At(h, op, step) == handler[h].op = op /\ handler[h].step = step
Running(h) == handler[h].step \notin {"idle", "done"}
Quiet == \A h \in Requests : ~Running(h)

Goto(h, step) == handler' = [handler EXCEPT ![h].step = step]
End(h) == Goto(h, "done")

Starts(h, op, c, arg) ==
    /\ op \in Ops
    /\ handler[h].step = "idle"
    /\ handler' = [handler EXCEPT ![h] = [IdleHandler EXCEPT !.op = op, !.step = "read",
                                                             !.cand = c, !.arg = arg]]
    /\ UNCHANGED <<app, job, faults>>

\* The row h has read, as save finds it now; a row deleted meanwhile is
\* inserted again, unless the candidate has applied anew.
CanSave(h) == LET a == app[handler[h].cand] IN
              a = NoApplication \/ a.id = handler[h].row.id

\* save(application)
SaveRow(h, row) == app' = [app EXCEPT ![handler[h].cand] = row]

\* addStatusHistory
WithStatus(row, status) ==
    [row EXCEPT !.status = status, !.history = Append(@, status)]

AInit ==
    /\ app = [c \in Candidates |-> NoApplication]
    /\ job \in {NewJob(n) : n \in Limits}
    /\ handler = [h \in Requests |-> IdleHandler]
    /\ faults = 0

-----------------------------------------------------------------------------
(* createApplication *)

\* The job is read first; its status is not looked at.
ReadJob(h) ==
    /\ At(h, "apply", "read")
    /\ handler' = [handler EXCEPT ![h].step = "check", ![h].job = job]
    /\ UNCHANGED <<app, job, faults>>

CheckExisting(h) ==
    /\ At(h, "apply", "check")
    /\ IF app[handler[h].cand] = NoApplication THEN Goto(h, "insert") ELSE End(h)
    /\ UNCHANGED <<app, job, faults>>

\* The unique index on job and candidate lets one insert through.
InsertApplication(h) ==
    /\ At(h, "apply", "insert")
    /\ IF app[handler[h].cand] = NoApplication
       THEN /\ SaveRow(h, [id |-> h, status |-> "new", history |-> <<"new">>,
                           stage |-> Stages[1], scored |-> FALSE])
            /\ Goto(h, "list")
       ELSE End(h) /\ UNCHANGED app
    /\ UNCHANGED <<job, faults>>

\* The candidate is added to the list of the job that was read at the start,
\* and the whole job is saved.
ListApplicant(h) ==
    /\ At(h, "apply", "list")
    /\ LET read == handler[h].job IN
       job' = IF handler[h].cand \in read.appliedBy THEN job
              ELSE [read EXCEPT !.appliedBy = @ \cup {handler[h].cand}]
    /\ End(h)
    /\ UNCHANGED <<app, faults>>

(* updateApplicationStatus, updateApplication, rejectApplication,          *)
(* withdrawApplication, changeApplicationStage and the matching score      *)

\* The row is loaded; without one the request ends with an error.
ReadApplication(h) ==
    /\ handler[h].step = "read"
    /\ handler[h].op \in {"status", "update", "stage", "score"}
    /\ LET row == app[handler[h].cand] IN
       handler' = [handler EXCEPT ![h].step = IF row = NoApplication THEN "done" ELSE "save",
                                  ![h].row = row]
    /\ UNCHANGED <<app, job, faults>>

\* The status is set and its history forgotten.
SaveStatus_NoHistory(h) ==
    /\ handler[h].step = "save"
    /\ handler[h].op \in {"status", "update"}
    /\ IF CanSave(h) THEN SaveRow(h, [handler[h].row EXCEPT !.status = handler[h].arg])
                     ELSE UNCHANGED app
    /\ Goto(h, IF CanSave(h) /\ handler[h].op = "status" /\ handler[h].arg = "hired"
               THEN "readjob" ELSE "done")
    /\ UNCHANGED <<job, faults>>

\* Any status may follow any other.  Only updateApplicationStatus goes on to
\* JobStatusService, and only with HIRED.
SaveStatus(h) ==
    /\ handler[h].step = "save"
    /\ handler[h].op \in {"status", "update"}
    /\ IF CanSave(h) THEN SaveRow(h, WithStatus(handler[h].row, handler[h].arg))
                     ELSE UNCHANGED app
    /\ Goto(h, IF CanSave(h) /\ handler[h].op = "status" /\ handler[h].arg = "hired"
               THEN "readjob" ELSE "done")
    /\ UNCHANGED <<job, faults>>

\* The transition is not looked for.
SaveStage_Free(h) ==
    /\ At(h, "stage", "save")
    /\ LET row == handler[h].row
           to == handler[h].arg IN
       IF CanSave(h)
       THEN SaveRow(h, [WithStatus(row, StageStatus[to]) EXCEPT !.stage = to])
       ELSE UNCHANGED app
    /\ End(h)
    /\ UNCHANGED <<job, faults>>

\* A stage is only left along a transition of the pipeline.
SaveStage(h) ==
    /\ At(h, "stage", "save")
    /\ LET row == handler[h].row
           to == handler[h].arg IN
       IF <<row.stage, to>> \in Transitions /\ CanSave(h)
       THEN SaveRow(h, [WithStatus(row, StageStatus[to]) EXCEPT !.stage = to])
       ELSE UNCHANGED app
    /\ End(h)
    /\ UNCHANGED <<job, faults>>

\* The AI service has answered, after up to thirty seconds.
SaveScore(h) ==
    /\ At(h, "score", "save")
    /\ IF CanSave(h) THEN SaveRow(h, [handler[h].row EXCEPT !.scored = TRUE])
                     ELSE UNCHANGED app
    /\ End(h)
    /\ UNCHANGED <<job, faults>>

\* It has not, or a query failed: the handler of the event reads the row again,
\* the request of recalculateMatchingScore does not, before 0 is saved.
ScoreFails(h) ==
    /\ At(h, "score", "save")
    /\ \/ LET row == app[handler[h].cand] IN
          IF row # NoApplication /\ row.id = handler[h].row.id
          THEN handler' = [handler EXCEPT ![h].step = "reset", ![h].row = row]
          ELSE End(h)
       \/ Goto(h, "reset")
    /\ UNCHANGED <<app, job, faults>>

ResetScore(h) ==
    /\ At(h, "score", "reset")
    /\ IF CanSave(h)
       THEN SaveRow(h, [handler[h].row EXCEPT !.scored = FALSE])
       ELSE UNCHANGED app
    /\ End(h)
    /\ UNCHANGED <<job, faults>>

(* deleteApplication *)

ReadToDelete(h) ==
    /\ At(h, "delete", "read")
    /\ LET row == app[handler[h].cand] IN
       handler' = [handler EXCEPT
           ![h].step = IF row = NoApplication \/ row.status \in {"hired", "rejected"}
                       THEN "done" ELSE "remove",
           ![h].row = row]
    /\ UNCHANGED <<app, job, faults>>

RemoveApplication(h) ==
    /\ At(h, "delete", "remove")
    /\ LET c == handler[h].cand IN
       app' = IF app[c] # NoApplication /\ app[c].id = handler[h].row.id
              THEN [app EXCEPT ![c] = NoApplication] ELSE app
    /\ End(h)
    /\ UNCHANGED <<job, faults>>

(* JobStatusService.updateJobStatusBasedOnApplications *)

ReadJobStatus(h) ==
    /\ At(h, "status", "readjob")
    /\ handler' = [handler EXCEPT ![h].step = "count", ![h].job = job]
    /\ UNCHANGED <<app, job, faults>>

Applications == {c \in Candidates : app[c] # NoApplication}
Hired == {c \in Applications : app[c].status = "hired"}

NewJobStatus_CountsAll(read) ==
    IF read.limit > 0 /\ Cardinality(Applications) >= read.limit THEN "closed"
    ELSE IF Cardinality(Applications) > (IF read.limit > 0 THEN read.limit ELSE 100) THEN "paused"
    ELSE IF read.closedDate THEN "closed" ELSE read.status

NewJobStatus_Above(read) ==
    IF read.limit > 0 /\ Cardinality(Hired) > read.limit THEN "closed"
    ELSE IF Cardinality(Applications) > (IF read.limit > 0 THEN read.limit ELSE 100) THEN "paused"
    ELSE IF read.closedDate THEN "closed" ELSE read.status

\* A limit counts the hired; too many applications pause the job; a closedDate,
\* which is always past, closes it.
NewJobStatus(read) ==
    IF read.limit > 0 /\ Cardinality(Hired) >= read.limit THEN "closed"
    ELSE IF Cardinality(Applications) > (IF read.limit > 0 THEN read.limit ELSE 100) THEN "paused"
    ELSE IF read.closedDate THEN "closed" ELSE read.status

CountApplications(h) ==
    /\ At(h, "status", "count")
    /\ LET read == handler[h].job
           new == NewJobStatus(read) IN
       handler' = [handler EXCEPT ![h].step = IF new = read.status THEN "done" ELSE "savejob",
                                  ![h].job.status = new]
    /\ UNCHANGED <<app, job, faults>>

WithJobStatus(row, status) ==
    [row EXCEPT !.status = status, !.closedDate = @ \/ status = "closed"]

\* update(jobId, {status, closedDate}) leaves the other columns alone.
UpdateJobStatus(h) ==
    /\ At(h, "status", "savejob")
    /\ job' = WithJobStatus(job, handler[h].job.status)
    /\ End(h)
    /\ UNCHANGED <<app, faults>>

(* updateJobStatus of JobService and of the backoffice *)

ReadOwnJob(h) ==
    /\ At(h, "job", "read")
    /\ handler' = [handler EXCEPT ![h].step = "save", ![h].job = job]
    /\ UNCHANGED <<app, job, faults>>

\* save(job): closedDate is set on closing and never cleared.
SaveOwnJob(h) ==
    /\ At(h, "job", "save")
    /\ job' = WithJobStatus(handler[h].job, handler[h].arg)
    /\ End(h)
    /\ UNCHANGED <<app, faults>>

\* A query is rejected: the request ends, what it has saved stays.  (In the
\* middle of a score it is ScoreFails.)
Fault(h) ==
    /\ faults < MaxFaults
    /\ Running(h) /\ ~At(h, "score", "save")
    /\ faults' = faults + 1
    /\ End(h)
    /\ UNCHANGED <<app, job>>

Apply(h, c)        == Starts(h, "apply", c, "none")
SetStatus(h, c, s) == Starts(h, "status", c, s)
Update(h, c, s)    == Starts(h, "update", c, s)
SetStage(h, c, s)  == Starts(h, "stage", c, s)
Score(h, c)        == app[c] # NoApplication /\ Starts(h, "score", c, "none")
Delete(h, c)       == Starts(h, "delete", c, "none")
SetJob(h, s)       == Starts(h, "job", CHOOSE c \in Candidates : TRUE, s)

RequestStep(h) ==
    \/ ReadJob(h)
    \/ CheckExisting(h)
    \/ InsertApplication(h)
    \/ ListApplicant(h)
    \/ ReadApplication(h)
    \/ SaveStatus(h)
    \/ SaveStage(h)
    \/ SaveScore(h)
    \/ ScoreFails(h)
    \/ ResetScore(h)
    \/ ReadToDelete(h)
    \/ RemoveApplication(h)
    \/ ReadJobStatus(h)
    \/ CountApplications(h)
    \/ UpdateJobStatus(h)
    \/ ReadOwnJob(h)
    \/ SaveOwnJob(h)

ANext ==
    \/ \E h \in Requests, c \in Candidates :
           \/ Apply(h, c)
           \/ \E s \in Asked : SetStatus(h, c, s) \/ Update(h, c, s)
           \/ \E s \in ToSet(Stages) : SetStage(h, c, s)
           \/ Score(h, c)
           \/ Delete(h, c)
    \/ \E h \in Requests, s \in JobAsked : SetJob(h, s)
    \/ \E h \in Requests : RequestStep(h) \/ Fault(h)

ASpec == AInit /\ [][ANext]_avars

-----------------------------------------------------------------------------
(* Properties *)

Rows == Application \cup {NoApplication}

\* Type: every row holds a status and a stage the program knows.
AppTypeOK ==
    /\ app \in [Candidates -> Rows]
    /\ job \in Job
    /\ \A h \in Requests :
           /\ handler[h].op \in {"none"} \cup Ops
           /\ handler[h].cand \in Candidates
           /\ handler[h].row \in Rows
           /\ handler[h].job \in Job
    /\ faults \in 0..MaxFaults

\* The status column and the last entry of statusHistory agree, whatever whole
\* rows overwrite each other (addStatusHistory, changeApplicationStage).
HistoryEndsInStatus ==
    \A c \in Applications :
        app[c].history # <<>> /\ Last(app[c].history) = app[c].status

\* The requests that have saved a HIRED, or ended where they would.
HiredBy == {h \in Requests :
               /\ handler[h].step \in {"readjob", "count", "savejob", "done"}
               /\ \/ handler[h].op \in {"status", "update"} /\ handler[h].arg = "hired"
                  \/ handler[h].op = "stage" /\ StageStatus[handler[h].arg] = "hired"}

ClosedByHand == \E h \in Requests : handler[h].op = "job" /\ handler[h].arg = "closed"

\* The job closes itself only after as many were hired as it has places
\* (updateJobStatusBasedOnApplications), unless a recruiter closed it once.
ClosedOnlyFull ==
    job.status = "closed" =>
        ClosedByHand \/ (job.limit > 0 /\ Cardinality(HiredBy) >= job.limit)

\* Whoever has applied is in the job's list of applicants when no request is at
\* work (createApplication).
AppliedListed == Quiet => Applications \subseteq job.appliedBy

\* A job whose places are filled is closed when no request is at work.
FullJobCloses ==
    Quiet /\ job.limit > 0 /\ Cardinality(Hired) >= job.limit => job.status = "closed"

\* Whatever changes the stage goes along a transition of the pipeline.
StagesFollow ==
    \A c \in Candidates :
        LET old == app[c]  new == app'[c] IN
        old # NoApplication /\ new # NoApplication /\ old.stage # new.stage =>
            <<old.stage, new.stage>> \in Transitions

-----------------------------------------------------------------------------
(* The inductive invariant behind ClosedOnlyFull *)

\* Somebody had reason to close the job.
MayClose == ClosedByHand \/ (job.limit > 0 /\ Cardinality(HiredBy) >= job.limit)

\* A request asked for the candidate to be hired.
Chosen(c) == \E h \in HiredBy : handler[h].cand = c

\* The copies of the job that requests will go by.
HoldsJob(h) == \/ handler[h].step \in {"check", "insert", "list", "count", "savejob"}
               \/ At(h, "job", "save")

\* What is hired was chosen and what is closed may be, in the tables and in
\* the memory of requests.
ClosingInv ==
    /\ IsFiniteSet(HiredBy)
    /\ \A c \in Hired : Chosen(c)
    /\ \A h \in Requests :
           handler[h].row # NoApplication /\ handler[h].row.status = "hired" =>
               Chosen(handler[h].cand)
    /\ job.status = "closed" \/ job.closedDate => MayClose
    /\ \A h \in Requests : HoldsJob(h) =>
           /\ handler[h].job.limit = job.limit
           /\ handler[h].job.status = "closed" \/ handler[h].job.closedDate => MayClose
=============================================================================
