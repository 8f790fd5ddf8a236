------------------------- MODULE ApplicationProofs -------------------------
(***************************************************************************)
(* Proofs about Application for any candidates, requests, statuses and     *)
(* pipeline, with any number of failing queries.                           *)
(***************************************************************************)
EXTENDS MCApplication, FiniteSetTheorems, TLAPS

\* What every row is: in the table, and in the memory of a request.
RowOK(row) ==
    \/ row = NoApplication
    \/ row \in Application /\ row.history # <<>> /\ Last(row.history) = row.status

Args(op) == IF op \in {"status", "update"} THEN Asked
            ELSE IF op = "stage" THEN ToSet(Stages)
            ELSE IF op = "job" THEN JobAsked ELSE {"none"}

Steps == {"idle", "read", "check", "insert", "list", "save", "reset", "remove",
          "readjob", "count", "savejob", "done"}

AnyArg == {"none"} \cup Asked \cup ToSet(Stages) \cup JobAsked

States == [op: {"none"} \cup Ops, step: Steps, cand: Candidates, arg: AnyArg,
           row: Rows, job: Job]

\* A request that is about to save a row has one.
HandlerOK(s) ==
    /\ s \in States
    /\ RowOK(s.row)
    /\ s.step # "idle" => s.arg \in Args(s.op)
    /\ s.step = "idle" => s.op = "none"
    /\ s.step \in {"save", "reset"} /\ s.op \in {"status", "update", "stage", "score"} =>
           s.row # NoApplication

\* The inductive invariant.
RowsInv ==
    /\ app \in [Candidates -> Rows]
    /\ \A c \in Candidates : RowOK(app[c])
    /\ job \in Job
    /\ handler \in [Requests -> States]
    /\ \A h \in Requests : HandlerOK(handler[h])
    /\ faults \in 0..MaxFaults

LEMMA IdleOK == IdleHandler \in States /\ HandlerOK(IdleHandler)
<1>1. (CHOOSE c \in Candidates : TRUE) \in Candidates
  BY ApplicationAssumption
<1>2. NewJob(CHOOSE n \in Limits : TRUE) \in Job
  BY ApplicationAssumption DEF NewJob, Job
<1>3. IdleHandler \in States
  BY <1>1, <1>2 DEF IdleHandler, States, Steps, AnyArg, Rows
<1>4. RowOK(IdleHandler.row) /\ IdleHandler.step = "idle" /\ IdleHandler.op = "none"
  BY DEF IdleHandler, RowOK
<1>. QED
  BY <1>3, <1>4 DEF HandlerOK

LEMMA RowsInit == AInit => RowsInv
<1> SUFFICES ASSUME AInit PROVE RowsInv
  OBVIOUS
<1>1. \A n \in Limits : NewJob(n) \in Job
  BY DEF NewJob, Job
<1>. QED
  BY <1>1, IdleOK, ApplicationAssumption DEF AInit, RowsInv, RowOK, Rows

\* A step of one request that ends in a good state leaves all in good states.
LEMMA HandlerGoesOn ==
    ASSUME RowsInv, NEW h \in Requests, NEW s, HandlerOK(s),
           handler' = [handler EXCEPT ![h] = s]
    PROVE  /\ handler' \in [Requests -> States]
           /\ \A g \in Requests : HandlerOK(handler'[g])
<1>1. s \in States
  BY DEF HandlerOK
<1>. QED
  BY <1>1 DEF RowsInv

\* Ending leaves the rest of the request as it was.
LEMMA Ended ==
    ASSUME RowsInv, NEW h \in Requests, handler[h].step # "idle",
           NEW step \in {"done", "insert", "check", "remove", "list", "readjob"},
           Goto(h, step)
    PROVE  /\ handler' \in [Requests -> States]
           /\ \A g \in Requests : HandlerOK(handler'[g])
<1> DEFINE s == [handler[h] EXCEPT !.step = step]
<1>1. HandlerOK(handler[h]) /\ handler[h] \in States
  BY DEF RowsInv
<1>2. s \in States /\ s.row = handler[h].row /\ s.op = handler[h].op /\ s.arg = handler[h].arg
      /\ s.step = step
  BY <1>1 DEF States, Steps
<1>3. handler' = [handler EXCEPT ![h] = s]
  BY DEF Goto
<1> HIDE DEF s
<1>4. HandlerOK(s)
  BY <1>1, <1>2 DEF HandlerOK
<1>. QED
  BY <1>3, <1>4, HandlerGoesOn

\* A good row saved for a candidate leaves the table good.
LEMMA RowSaved ==
    ASSUME RowsInv, NEW h \in Requests, NEW row, row \in Application, RowOK(row),
           SaveRow(h, row)
    PROVE  app' \in [Candidates -> Rows] /\ \A c \in Candidates : RowOK(app'[c])
<1>1. handler[h].cand \in Candidates /\ row \in Rows
  BY DEF RowsInv, States, Rows
<1>. QED
  BY <1>1 DEF SaveRow, RowsInv

\* addStatusHistory keeps the status and its history together.
LEMMA LastAppended ==
    ASSUME NEW S, NEW log \in Seq(S), NEW e \in S
    PROVE  /\ Append(log, e) \in Seq(S) /\ Append(log, e) # <<>>
           /\ Last(Append(log, e)) = e
BY DEF Last

LEMMA StatusAdded ==
    ASSUME NEW row \in Application, NEW status \in Statuses
    PROVE  /\ WithStatus(row, status) \in Application
           /\ RowOK(WithStatus(row, status))
<1> DEFINE log == Append(row.history, status)
<1>1. row.history \in Seq(Statuses)
  BY DEF Application
<1>2. log \in Seq(Statuses) /\ log # <<>> /\ Last(log) = status
  BY <1>1, LastAppended
<1>3. WithStatus(row, status) = [row EXCEPT !.status = status, !.history = log]
  BY DEF WithStatus
<1> HIDE DEF log
<1>4. WithStatus(row, status) \in Application
  BY <1>2, <1>3 DEF Application
<1>5. /\ WithStatus(row, status).status = status
      /\ WithStatus(row, status).history = log
  BY <1>3 DEF Application
<1>. QED
  BY <1>2, <1>4, <1>5 DEF RowOK

LEMMA ScoredOK ==
    ASSUME NEW row \in Application, RowOK(row), row # NoApplication, NEW b \in BOOLEAN
    PROVE  /\ [row EXCEPT !.scored = b] \in Application
           /\ RowOK([row EXCEPT !.scored = b])
<1> DEFINE q == [row EXCEPT !.scored = b]
<1>1. q \in Application /\ q.history = row.history /\ q.status = row.status
  BY DEF Application
<1> HIDE DEF q
<1>2. RowOK(q)
  BY <1>1 DEF RowOK
<1>. QED
  BY <1>1, <1>2 DEF q

LEMMA JobStatusOK ==
    ASSUME NEW row \in Job, NEW status \in {"active", "paused", "closed"}
    PROVE  WithJobStatus(row, status) \in Job
BY DEF WithJobStatus, Job

\* What a request about to save holds.
LEMMA Holds ==
    ASSUME RowsInv, NEW h \in Requests, handler[h].step \in {"save", "reset"},
           handler[h].op \in {"status", "update", "stage", "score"}
    PROVE  /\ handler[h].row \in Application
           /\ handler[h].row # NoApplication
           /\ RowOK(handler[h].row)
BY DEF RowsInv, HandlerOK, RowOK

LEMMA RowsStep == RowsInv /\ [ANext]_avars => RowsInv'
<1> SUFFICES ASSUME RowsInv, [ANext]_avars PROVE RowsInv'
  OBVIOUS
<1>0. ASSUME NEW h \in Requests
      PROVE  handler[h] \in States /\ HandlerOK(handler[h]) /\ handler[h].cand \in Candidates
  BY DEF RowsInv, States, Steps
<1>1. ASSUME NEW h \in Requests, NEW op \in Ops, NEW c \in Candidates, NEW arg \in AnyArg,
             arg \in Args(op), Starts(h, op, c, arg)
      PROVE  RowsInv'
  <2> DEFINE s == [IdleHandler EXCEPT !.op = op, !.step = "read", !.cand = c, !.arg = arg]
  <2>0. IdleHandler \in States /\ IdleHandler.row = NoApplication
    BY IdleOK DEF IdleHandler
  <2>1. s \in States /\ s.row = NoApplication /\ s.step = "read" /\ s.op = op /\ s.arg = arg
    BY <2>0 DEF States, Steps
  <2>2. handler' = [handler EXCEPT ![h] = s]
    BY <1>1 DEF Starts
  <2> HIDE DEF s
  <2>3. HandlerOK(s)
    BY <1>1, <2>1 DEF HandlerOK, RowOK
  <2>. QED
    BY <1>1, <2>2, <2>3, HandlerGoesOn DEF Starts, RowsInv
<1>2. ASSUME NEW h \in Requests, ReadJob(h) \/ ReadOwnJob(h) \/ ReadJobStatus(h)
      PROVE  RowsInv'
  <2>1. PICK step \in {"check", "save", "count"} :
            /\ handler' = [handler EXCEPT ![h].step = step, ![h].job = job]
            /\ handler[h].step # "idle"
            /\ step = "save" => handler[h].op = "job"
    BY <1>2 DEF ReadJob, ReadOwnJob, ReadJobStatus, At
  <2> DEFINE s == [handler[h] EXCEPT !.step = step, !.job = job]
  <2>2. s \in States /\ s.row = handler[h].row /\ s.op = handler[h].op
        /\ s.arg = handler[h].arg /\ s.step = step
    BY <1>0, <2>1 DEF RowsInv, States, Steps
  <2>3. handler' = [handler EXCEPT ![h] = s]
    BY <2>1
  <2> HIDE DEF s
  <2>4. HandlerOK(s)
    BY <1>0, <2>1, <2>2 DEF HandlerOK
  <2>. QED
    BY <1>2, <2>3, <2>4, HandlerGoesOn DEF RowsInv, ReadJob, ReadOwnJob, ReadJobStatus
<1>3. ASSUME NEW h \in Requests, CheckExisting(h) PROVE RowsInv'
  BY <1>3, Ended DEF CheckExisting, End, At, RowsInv
<1>4. ASSUME NEW h \in Requests, InsertApplication(h) PROVE RowsInv'
  <2> DEFINE row == [id |-> h, status |-> "new", history |-> <<"new">>,
                     stage |-> Stages[1], scored |-> FALSE]
  <2>1. Stages[1] \in ToSet(Stages)
    BY ApplicationAssumption DEF ToSet
  <2>2. row \in Application /\ RowOK(row)
    BY <2>1 DEF Application, RowOK, Statuses, Last
  <2> HIDE DEF row
  <2>3. CASE SaveRow(h, row) /\ Goto(h, "list")
    BY <1>4, <2>2, <2>3, RowSaved, Ended DEF InsertApplication, At, RowsInv
  <2>4. CASE End(h) /\ UNCHANGED app
    BY <1>4, <2>4, Ended DEF InsertApplication, At, RowsInv, End
  <2>. QED
    BY <1>4, <2>3, <2>4 DEF InsertApplication, row
<1>5. ASSUME NEW h \in Requests, ListApplicant(h) PROVE RowsInv'
  <2>1. job' \in Job
    BY <1>0, <1>5 DEF ListApplicant, RowsInv, States, Job
  <2>. QED
    BY <1>5, <2>1, Ended DEF ListApplicant, End, At, RowsInv
<1>6. ASSUME NEW h \in Requests, ReadApplication(h) \/ ReadToDelete(h) PROVE RowsInv'
  <2>1. PICK row \in Rows, step \in {"save", "remove", "done"} :
            /\ handler' = [handler EXCEPT ![h].step = step, ![h].row = row]
            /\ RowOK(row)
            /\ handler[h].step # "idle"
            /\ step = "save" => row # NoApplication
    <3>1. app[handler[h].cand] \in Rows /\ RowOK(app[handler[h].cand])
      BY <1>0 DEF RowsInv
    <3>. QED
      BY <1>6, <3>1 DEF ReadApplication, ReadToDelete, At
  <2> DEFINE s == [handler[h] EXCEPT !.step = step, !.row = row]
  <2>2. s \in States /\ s.row = row /\ s.op = handler[h].op
        /\ s.arg = handler[h].arg /\ s.step = step
    BY <1>0, <2>1 DEF States, Steps
  <2>3. handler' = [handler EXCEPT ![h] = s]
    BY <2>1
  <2> HIDE DEF s
  <2>4. HandlerOK(s)
    BY <1>0, <2>1, <2>2 DEF HandlerOK
  <2>. QED
    BY <1>6, <2>3, <2>4, HandlerGoesOn DEF RowsInv, ReadApplication, ReadToDelete
<1>7. ASSUME NEW h \in Requests, SaveStatus(h) PROVE RowsInv'
  <2>1. handler[h].arg \in Statuses
    BY <1>0, <1>7 DEF SaveStatus, HandlerOK, Args, Statuses
  <2>2. /\ WithStatus(handler[h].row, handler[h].arg) \in Application
        /\ RowOK(WithStatus(handler[h].row, handler[h].arg))
    BY <1>7, <2>1, Holds, StatusAdded DEF SaveStatus
  <2>3. app' \in [Candidates -> Rows] /\ \A c \in Candidates : RowOK(app'[c])
    BY <1>7, <2>2, RowSaved DEF SaveStatus, RowsInv
  <2>. QED
    BY <1>7, <2>3, Ended DEF SaveStatus, RowsInv
<1>8. ASSUME NEW h \in Requests, SaveStage(h) PROVE RowsInv'
  <2> DEFINE to == handler[h].arg
             row == WithStatus(handler[h].row, StageStatus[to])
             q == [row EXCEPT !.stage = to]
  <2>1. to \in ToSet(Stages)
    BY <1>0, <1>8 DEF SaveStage, At, HandlerOK, Args
  <2>2. row \in Application /\ RowOK(row)
    BY <1>8, <2>1, Holds, StatusAdded DEF SaveStage, At, Statuses
  <2>3. row.history # <<>> /\ Last(row.history) = row.status
    <3>1. StageStatus[to] \in Statuses
      BY <2>1 DEF Statuses
    <3>2. handler[h].row.history \in Seq(Statuses) /\ handler[h].row \in Application
      BY <1>8, Holds DEF SaveStage, At, Application
    <3>3. /\ row.history = Append(handler[h].row.history, StageStatus[to])
          /\ row.status = StageStatus[to]
      BY <3>2 DEF WithStatus, Application
    <3>4. /\ Append(handler[h].row.history, StageStatus[to]) # <<>>
          /\ Last(Append(handler[h].row.history, StageStatus[to])) = StageStatus[to]
      BY <3>1, <3>2, LastAppended
    <3> HIDE DEF row, to
    <3>. QED
      BY <3>3, <3>4
  <2> HIDE DEF row
  <2>4. q \in Application /\ q.history = row.history /\ q.status = row.status
    BY <2>1, <2>2 DEF Application
  <2> HIDE DEF q
  <2>5. RowOK(q)
    BY <2>3, <2>4 DEF RowOK
  <2>6. SaveRow(h, q) \/ UNCHANGED app
    BY <1>8 DEF SaveStage, q, row
  <2>7. app' \in [Candidates -> Rows] /\ \A c \in Candidates : RowOK(app'[c])
    BY <2>4, <2>5, <2>6, RowSaved DEF RowsInv
  <2>. QED
    BY <1>8, <2>7, Ended DEF SaveStage, End, At, RowsInv
<1>9. ASSUME NEW h \in Requests, SaveScore(h) \/ ResetScore(h) PROVE RowsInv'
  <2>1. PICK b \in BOOLEAN : SaveRow(h, [handler[h].row EXCEPT !.scored = b]) \/ UNCHANGED app
    BY <1>9 DEF SaveScore, ResetScore
  <2>2. /\ [handler[h].row EXCEPT !.scored = b] \in Application
        /\ RowOK([handler[h].row EXCEPT !.scored = b])
    BY <1>9, Holds, ScoredOK DEF SaveScore, ResetScore, At
  <2>3. app' \in [Candidates -> Rows] /\ \A c \in Candidates : RowOK(app'[c])
    BY <2>1, <2>2, RowSaved DEF RowsInv
  <2>. QED
    BY <1>9, <2>3, Ended DEF SaveScore, ResetScore, End, At, RowsInv
<1>10. ASSUME NEW h \in Requests, ScoreFails(h) PROVE RowsInv'
  <2>1. app[handler[h].cand] \in Rows /\ RowOK(app[handler[h].cand])
    BY <1>0 DEF RowsInv
  <2>2. PICK row \in Rows, step \in {"reset", "done"} :
            /\ handler' = [handler EXCEPT ![h].step = step, ![h].row = row]
            /\ RowOK(row)
            /\ row # NoApplication
    <3>1. handler[h].row \in Rows /\ RowOK(handler[h].row) /\ handler[h].row # NoApplication
      BY <1>10, Holds DEF ScoreFails, At, Rows
    <3>2. ASSUME NEW step, Goto(h, step)
          PROVE  handler' = [handler EXCEPT ![h].step = step, ![h].row = handler[h].row]
      BY <1>0, <3>2 DEF Goto, RowsInv, States
    <3>. QED
      BY <1>10, <2>1, <3>1, <3>2 DEF ScoreFails, End
  <2> DEFINE s == [handler[h] EXCEPT !.step = step, !.row = row]
  <2>3. s \in States /\ s.row = row /\ s.op = handler[h].op
        /\ s.arg = handler[h].arg /\ s.step = step
    BY <1>0, <2>2 DEF States, Steps
  <2>4. handler' = [handler EXCEPT ![h] = s]
    BY <2>2
  <2> HIDE DEF s
  <2>5. HandlerOK(s)
    BY <1>0, <1>10, <2>2, <2>3 DEF HandlerOK, ScoreFails, At
  <2>. QED
    BY <1>10, <2>4, <2>5, HandlerGoesOn DEF RowsInv, ScoreFails
<1>11. ASSUME NEW h \in Requests, RemoveApplication(h) PROVE RowsInv'
  <2>1. app' \in [Candidates -> Rows] /\ \A c \in Candidates : RowOK(app'[c])
    BY <1>11 DEF RemoveApplication, RowsInv, RowOK, Rows
  <2>. QED
    BY <1>11, <2>1, Ended DEF RemoveApplication, End, At, RowsInv
<1>12. ASSUME NEW h \in Requests, CountApplications(h) PROVE RowsInv'
  <2> DEFINE new == NewJobStatus(handler[h].job)
             step == IF new = handler[h].job.status THEN "done" ELSE "savejob"
             s == [handler[h] EXCEPT !.step = step, !.job.status = new]
  <2>1. new \in {"active", "paused", "closed"}
    BY <1>0 DEF NewJobStatus, States, Job
  <2>2. step \in {"done", "savejob"}
    OBVIOUS
  <2>3. handler' = [handler EXCEPT ![h] = s]
    BY <1>12 DEF CountApplications
  <2> HIDE DEF new, step
  <2> DEFINE row == [handler[h].job EXCEPT !.status = new]
  <2>4. row \in Job
    BY <1>0, <2>1 DEF States, Job
  <2>6. s = [handler[h] EXCEPT !.step = step, !.job = row]
    BY <1>0 DEF States
  <2> HIDE DEF row, s
  <2>7. s \in States /\ s.row = handler[h].row /\ s.op = handler[h].op
        /\ s.arg = handler[h].arg /\ s.step = step
    BY <1>0, <2>2, <2>4, <2>6 DEF States, Steps
  <2>5. HandlerOK(s)
    BY <1>0, <1>12, <2>2, <2>7 DEF HandlerOK, CountApplications, At
  <2>. QED
    BY <1>12, <2>3, <2>5, HandlerGoesOn DEF CountApplications, RowsInv
<1>13. ASSUME NEW h \in Requests, UpdateJobStatus(h) \/ SaveOwnJob(h) PROVE RowsInv'
  <2>1. handler[h].job \in Job /\ handler[h].job.status \in {"active", "paused", "closed"}
    BY <1>0 DEF States, Steps, Job
  <2>2. SaveOwnJob(h) => handler[h].arg \in {"active", "paused", "closed"}
    BY <1>0, ApplicationAssumption DEF SaveOwnJob, At, HandlerOK, Args
  <2>3. job' \in Job
    BY <1>13, <2>1, <2>2, JobStatusOK DEF UpdateJobStatus, SaveOwnJob, RowsInv
  <2>. QED
    BY <1>13, <2>3, Ended DEF UpdateJobStatus, SaveOwnJob, End, At, RowsInv
<1>14. ASSUME NEW h \in Requests, Fault(h) PROVE RowsInv'
  <2>1. faults' \in 0..MaxFaults
    BY <1>14, ApplicationAssumption DEF Fault, RowsInv
  <2>. QED
    BY <1>14, <2>1, Ended DEF Fault, End, Running, RowsInv
<1>15. ASSUME NEW h \in Requests, NEW c \in Candidates,
              \/ Apply(h, c) \/ Score(h, c) \/ Delete(h, c)
              \/ \E s \in Asked : SetStatus(h, c, s) \/ Update(h, c, s)
              \/ \E s \in ToSet(Stages) : SetStage(h, c, s)
       PROVE  RowsInv'
  <2>1. "none" \in AnyArg /\ Asked \subseteq AnyArg /\ ToSet(Stages) \subseteq AnyArg
    BY DEF AnyArg
  <2>2. ASSUME NEW op, NEW arg \in AnyArg, arg \in Args(op), Starts(h, op, c, arg)
        PROVE  RowsInv'
    BY <1>1, <2>2 DEF Starts
  <2>3. CASE Apply(h, c) \/ Score(h, c) \/ Delete(h, c)
    BY <2>1, <2>2, <2>3 DEF Apply, Score, Delete, Args
  <2>4. ASSUME NEW s \in Asked, SetStatus(h, c, s) \/ Update(h, c, s) PROVE RowsInv'
    BY <2>1, <2>2, <2>4 DEF SetStatus, Update, Args
  <2>5. ASSUME NEW s \in ToSet(Stages), SetStage(h, c, s) PROVE RowsInv'
    BY <2>1, <2>2, <2>5 DEF SetStage, Args
  <2>. QED
    BY <1>15, <2>3, <2>4, <2>5
<1>16. ASSUME NEW h \in Requests, NEW s \in JobAsked, SetJob(h, s) PROVE RowsInv'
  <2>1. (CHOOSE c \in Candidates : TRUE) \in Candidates /\ s \in AnyArg
    BY ApplicationAssumption DEF AnyArg
  <2>2. "job" \in Ops
    BY <1>16 DEF SetJob, Starts
  <2>. QED
    BY <1>1, <1>16, <2>1, <2>2 DEF SetJob, Args
<1>17. CASE UNCHANGED avars
  BY <1>17 DEF avars, RowsInv
<1>. QED
  BY <1>2, <1>3, <1>4, <1>5, <1>6, <1>7, <1>8, <1>9, <1>10, <1>11, <1>12, <1>13,
     <1>14, <1>15, <1>16, <1>17 DEF ANext, RequestStep

\* The inductive invariant of the rows holds for ever.
THEOREM AppRowsSound == ASpec => []RowsInv
BY RowsInit, RowsStep, PTL DEF ASpec

\* Type: every row holds a status and a stage the program knows.
THEOREM AppTypeCorrect == ASpec => []AppTypeOK
<1>1. RowsInv => AppTypeOK
  BY DEF RowsInv, States, AppTypeOK
<1>. QED
  BY <1>1, AppRowsSound, PTL

\* The status column and the last entry of statusHistory agree in every row,
\* however many whole-row saves of addStatusHistory and changeApplicationStage
\* overwrite each other and whichever queries fail.
THEOREM HistoryAgrees == ASpec => []HistoryEndsInStatus
<1>1. RowsInv => HistoryEndsInStatus
  BY DEF RowsInv, RowOK, HistoryEndsInStatus, Applications
<1>. QED
  BY <1>1, AppRowsSound, PTL

-----------------------------------------------------------------------------
(* What a step does to the requests *)

LEMMA Moves ==
    ASSUME RowsInv, NEW h \in Requests, RequestStep(h) \/ Fault(h)
    PROVE  /\ \A g \in Requests \ {h} : handler'[g] = handler[g]
           /\ handler'[h].op = handler[h].op /\ handler'[h].arg = handler[h].arg
           /\ handler'[h].cand = handler[h].cand
           /\ handler[h].step \notin {"idle", "done"}
           /\ handler[h].step \in {"readjob", "count", "savejob"} =>
                  handler'[h].step \in {"count", "savejob", "done"}
<1>0. handler \in [Requests -> States] /\ handler[h] \in States
  BY DEF RowsInv
<1>1. ASSUME NEW step, Goto(h, step)
      PROVE  /\ \A g \in Requests \ {h} : handler'[g] = handler[g]
             /\ handler'[h].op = handler[h].op /\ handler'[h].arg = handler[h].arg
             /\ handler'[h].cand = handler[h].cand /\ handler'[h].step = step
  BY <1>0, <1>1 DEF Goto, States
<1>2. CASE ReadJob(h) \/ ReadOwnJob(h) \/ ReadJobStatus(h)
  BY <1>0, <1>2 DEF ReadJob, ReadOwnJob, ReadJobStatus, At, States
<1>3. CASE ReadApplication(h) \/ ReadToDelete(h)
  BY <1>0, <1>3 DEF ReadApplication, ReadToDelete, At, States
<1>4. CASE CheckExisting(h) \/ InsertApplication(h) \/ ListApplicant(h)
  BY <1>0, <1>1, <1>4 DEF CheckExisting, InsertApplication, ListApplicant, At, End
<1>5. CASE SaveStatus(h) \/ SaveStage(h) \/ SaveScore(h) \/ ResetScore(h)
  BY <1>0, <1>1, <1>5 DEF SaveStatus, SaveStage, SaveScore, ResetScore, At, End
<1>6. CASE ScoreFails(h)
  <2>1. At(h, "score", "save")
    BY <1>6 DEF ScoreFails
  <2>2. CASE \E step : Goto(h, step)
    BY <1>1, <2>1, <2>2 DEF At
  <2>3. CASE handler' = [handler EXCEPT ![h].step = "reset", ![h].row = app[handler[h].cand]]
    BY <1>0, <2>1, <2>3 DEF At, States
  <2>. QED
    BY <1>6, <2>2, <2>3 DEF ScoreFails, End
<1>7. CASE RemoveApplication(h) \/ UpdateJobStatus(h) \/ SaveOwnJob(h) \/ Fault(h)
  BY <1>0, <1>1, <1>7 DEF RemoveApplication, UpdateJobStatus, SaveOwnJob, Fault, Running, At, End
<1>8. CASE CountApplications(h)
  <2> DEFINE new == NewJobStatus(handler[h].job)
             step == IF new = handler[h].job.status THEN "done" ELSE "savejob"
  <2>1. handler' = [handler EXCEPT ![h].step = step, ![h].job.status = new]
    BY <1>8 DEF CountApplications
  <2>2. step \in {"done", "savejob"}
    OBVIOUS
  <2> HIDE DEF new, step
  <2>. QED
    BY <1>0, <1>8, <2>1, <2>2 DEF CountApplications, At, States
<1>. QED
  BY <1>2, <1>3, <1>4, <1>5, <1>6, <1>7, <1>8 DEF RequestStep

LEMMA Begins ==
    ASSUME RowsInv, NEW h \in Requests, NEW op, NEW c, NEW arg, Starts(h, op, c, arg)
    PROVE  /\ \A g \in Requests \ {h} : handler'[g] = handler[g]
           /\ handler[h].step = "idle" /\ handler'[h].step = "read"
           /\ handler'[h].op = op /\ handler'[h].cand = c /\ handler'[h].arg = arg
           /\ handler'[h].row = NoApplication
           /\ UNCHANGED <<app, job, faults>> /\ op \in Ops
<1>1. PICK s : s = [IdleHandler EXCEPT !.op = op, !.step = "read", !.cand = c, !.arg = arg]
  OBVIOUS
<1>2. s.op = op /\ s.step = "read" /\ s.cand = c /\ s.arg = arg /\ s.row = NoApplication
  BY <1>1 DEF IdleHandler
<1>3. handler' = [handler EXCEPT ![h] = s] /\ handler[h].step = "idle"
      /\ UNCHANGED <<app, job, faults>> /\ op \in Ops
  BY <1>1 DEF Starts
<1>. QED
  BY <1>2, <1>3 DEF RowsInv

\* Every step is of one request.
LEMMA OneMoves ==
    ASSUME [ANext]_avars
    PROVE  \/ \E h \in Requests : RequestStep(h) \/ Fault(h)
           \/ \E h \in Requests : \E op, c, arg : Starts(h, op, c, arg)
           \/ UNCHANGED avars
BY DEF ANext, Apply, SetStatus, Update, SetStage, Score, Delete, SetJob

LEMMA HiredByGrows ==
    ASSUME RowsInv, NEW h \in Requests,
           \/ RequestStep(h) \/ Fault(h)
           \/ \E op, c, arg : Starts(h, op, c, arg)
    PROVE  /\ HiredBy \subseteq HiredBy' /\ HiredBy' \subseteq HiredBy \cup {h}
           /\ ClosedByHand => ClosedByHand'
           /\ \A g \in HiredBy : handler'[g].cand = handler[g].cand
<1>1. CASE RequestStep(h) \/ Fault(h)
  BY <1>1, Moves DEF HiredBy, ClosedByHand
<1>2. ASSUME NEW op, NEW c, NEW arg, Starts(h, op, c, arg)
      PROVE  /\ HiredBy \subseteq HiredBy' /\ HiredBy' \subseteq HiredBy \cup {h}
             /\ \A g \in HiredBy : handler'[g].cand = handler[g].cand
             /\ ClosedByHand => ClosedByHand'
  <2>1. h \notin HiredBy
    BY <1>2, Begins DEF HiredBy
  <2>2. handler[h].op = "none"
    BY <1>2, Begins DEF RowsInv, HandlerOK
  <2>3. \A g \in HiredBy : handler'[g] = handler[g] /\ g \in Requests
    BY <1>2, <2>1, Begins DEF HiredBy
  <2>4. HiredBy' \subseteq HiredBy \cup {h}
    BY <1>2, Begins DEF HiredBy
  <2>5. HiredBy \subseteq HiredBy'
    BY <2>3 DEF HiredBy
  <2>6. ClosedByHand => ClosedByHand'
    BY <1>2, <2>2, Begins DEF ClosedByHand
  <2>. QED
    BY <2>3, <2>4, <2>5, <2>6
<1>. QED
  BY <1>1, <1>2

-----------------------------------------------------------------------------
(* A job closes itself only when it is full *)

\* Every hired candidate was chosen by a request of its own.
LEMMA HiredFew ==
    ASSUME RowsInv, ClosingInv
    PROVE  /\ IsFiniteSet(Hired) /\ Cardinality(Hired) \in Nat
           /\ Cardinality(HiredBy) \in Nat
           /\ Cardinality(Hired) <= Cardinality(HiredBy)
<1> DEFINE f == [c \in Hired |-> CHOOSE h \in HiredBy : handler[h].cand = c]
<1>1. \A c \in Hired : f[c] \in HiredBy /\ handler[f[c]].cand = c
  BY DEF ClosingInv, Chosen
<1>2. f \in Injection(Hired, HiredBy)
  <2>1. f \in [Hired -> HiredBy]
    BY <1>1
  <2>2. \A a, b \in Hired : f[a] = f[b] => a = b
    BY <1>1
  <2> HIDE DEF f
  <2>. QED
    BY <2>1, <2>2 DEF Injection, IsInjective
<1>3. IsFiniteSet(HiredBy)
  BY DEF ClosingInv
<1> HIDE DEF f
<1>4. IsFiniteSet(Hired) /\ Cardinality(Hired) <= Cardinality(HiredBy)
  BY <1>2, <1>3, FS_Injection
<1>. QED
  BY <1>3, <1>4, FS_CardinalityType

\* Reasons to close a job and to hire do not go away.
LEMMA ReasonsStay ==
    ASSUME RowsInv, ClosingInv, NEW h \in Requests,
           \/ RequestStep(h) \/ Fault(h)
           \/ \E op, c, arg : Starts(h, op, c, arg)
    PROVE  /\ IsFiniteSet(HiredBy)'
           /\ \A c \in Candidates : Chosen(c) => Chosen(c)'
           /\ job'.limit = job.limit /\ MayClose => MayClose'
<1>1. /\ HiredBy \subseteq HiredBy' /\ HiredBy' \subseteq HiredBy \cup {h}
      /\ ClosedByHand => ClosedByHand'
      /\ \A g \in HiredBy : handler'[g].cand = handler[g].cand
  BY HiredByGrows
<1> DEFINE S == HiredBy
           T == HiredBy'
<1>2. IsFiniteSet(S)
  BY DEF ClosingInv
<1> HIDE DEF S, T
<1>3. IsFiniteSet(S \cup {h})
  BY <1>2, FS_AddElement
<1>4. T \subseteq S \cup {h} /\ S \subseteq T
  BY <1>1 DEF S, T
<1>5. IsFiniteSet(T)
  BY <1>3, <1>4, FS_Subset
<1>6. Cardinality(S) <= Cardinality(T) /\ Cardinality(S) \in Nat /\ Cardinality(T) \in Nat
  BY <1>2, <1>4, <1>5, FS_Subset, FS_CardinalityType
<1>7. job'.limit = job.limit /\ MayClose => MayClose'
  <2> SUFFICES ASSUME job'.limit = job.limit, job.limit > 0, Cardinality(S) >= job.limit
               PROVE  Cardinality(T) >= job.limit
    BY <1>1 DEF MayClose, S, T
  <2>1. job.limit \in Nat
    BY ApplicationAssumption DEF RowsInv, Job
  <2>. QED
    BY <1>6, <2>1
<1>8. \A c \in Candidates : Chosen(c) => Chosen(c)'
  BY <1>1 DEF Chosen
<1>. QED
  BY <1>5, <1>7, <1>8 DEF T

\* What a step has to show.
LEMMA ClosingMoves ==
    ASSUME RowsInv, RowsInv', ClosingInv, NEW h \in Requests,
           \/ RequestStep(h) \/ Fault(h)
           \/ \E op, c, arg : Starts(h, op, c, arg),
           \A c \in Hired' : c \in Hired \/ Chosen(c)',
           handler'[h].row # NoApplication /\ handler'[h].row.status = "hired" =>
               Chosen(handler'[h].cand),
           job'.limit = job.limit,
           job'.status = "closed" \/ job'.closedDate => MayClose \/ ClosedByHand,
           HoldsJob(h)' =>
               /\ handler'[h].job.limit = job.limit
               /\ handler'[h].job.status = "closed" \/ handler'[h].job.closedDate => MayClose
    PROVE  ClosingInv'
<1>1. /\ IsFiniteSet(HiredBy)'
      /\ \A c \in Candidates : Chosen(c) => Chosen(c)'
      /\ MayClose => MayClose'
  BY ReasonsStay
<1>2. \A g \in Requests \ {h} : handler'[g] = handler[g]
  BY Moves, Begins
<1>3. \A g \in Requests : handler[g].cand \in Candidates /\ handler'[g].cand \in Candidates
  BY DEF RowsInv, States
<1>4. \A c \in Hired : c \in Candidates
  BY DEF Hired, Applications
<1>5. \A c \in Hired' : Chosen(c)'
  BY <1>1, <1>4 DEF ClosingInv
<1>6. \A g \in Requests : handler'[g].row # NoApplication /\ handler'[g].row.status = "hired" =>
          Chosen(handler[g].cand)'
  <2>1. ASSUME NEW d \in Candidates, Chosen(d) PROVE Chosen(d)'
    BY <1>1, <2>1
  <2>2. ASSUME NEW g \in Requests, handler'[g].row # NoApplication, handler'[g].row.status = "hired"
        PROVE  Chosen(handler[g].cand)'
    <3>1. PICK d \in Candidates : d = handler'[g].cand
      BY <1>3
    <3>2. Chosen(d)
      BY <1>2, <2>2, <3>1 DEF ClosingInv
    <3>. QED
      BY <2>1, <3>1, <3>2
  <2>. QED
    BY <2>2
<1>7. job'.status = "closed" \/ job'.closedDate => MayClose'
  <2>1. ClosedByHand => MayClose
    BY DEF MayClose
  <2>. QED
    BY <1>1, <2>1
<1>8. \A g \in Requests : HoldsJob(g)' =>
          /\ handler'[g].job.limit = job'.limit
          /\ handler'[g].job.status = "closed" \/ handler'[g].job.closedDate => MayClose'
  <2>1. \A g \in Requests \ {h} : HoldsJob(g)' => HoldsJob(g)
    BY <1>2 DEF HoldsJob, At
  <2>. QED
    BY <1>1, <1>2, <2>1 DEF ClosingInv
<1>. QED
  BY <1>1, <1>5, <1>6, <1>7, <1>8 DEF ClosingInv

LEMMA ClosingNext == RowsInv /\ ClosingInv /\ [ANext]_avars => ClosingInv'
<1> SUFFICES ASSUME RowsInv, ClosingInv, [ANext]_avars PROVE ClosingInv'
  OBVIOUS
<1>0. RowsInv' /\ \A h \in Requests : handler[h] \in States /\ HandlerOK(handler[h])
  BY RowsStep DEF RowsInv
<1>1. /\ job.status = "closed" \/ job.closedDate => MayClose
      /\ \A c \in Hired : Chosen(c)
      /\ \A h \in Requests : /\ HoldsJob(h) =>
                                  /\ handler[h].job.limit = job.limit
                                  /\ handler[h].job.status = "closed" \/ handler[h].job.closedDate => MayClose
                             /\ handler[h].row # NoApplication /\ handler[h].row.status = "hired" =>
                                    Chosen(handler[h].cand)
  BY DEF ClosingInv
<1>2. ASSUME NEW h \in Requests, NEW op, NEW c, NEW arg, Starts(h, op, c, arg)
      PROVE  ClosingInv'
  <2>1. /\ UNCHANGED <<app, job>> /\ handler'[h].row = NoApplication /\ handler'[h].step = "read"
    BY <1>2, Begins
  <2>2. Hired' = Hired /\ ~HoldsJob(h)'
    BY <2>1 DEF Hired, Applications, HoldsJob, At
  <2>. QED
    BY <1>0, <1>1, <1>2, <2>1, <2>2, ClosingMoves
\* The request only goes on.
<1>3. ASSUME NEW h \in Requests, RequestStep(h) \/ Fault(h), NEW step, Goto(h, step),
             step \in {"check", "insert", "list", "count", "savejob"} => HoldsJob(h),
             step # "save",
             \A c \in Hired' : c \in Hired \/ Chosen(c)',
             job'.limit = job.limit,
             job'.status = "closed" \/ job'.closedDate => MayClose \/ ClosedByHand
      PROVE  ClosingInv'
  <2>1. /\ handler'[h].step = step /\ handler'[h].row = handler[h].row
        /\ handler'[h].job = handler[h].job /\ handler'[h].cand = handler[h].cand
    BY <1>0, <1>3 DEF Goto, RowsInv, States
  <2>2. HoldsJob(h)' => HoldsJob(h)
    BY <1>3, <2>1 DEF HoldsJob, At
  <2>. QED
    BY <1>0, <1>1, <1>3, <2>1, <2>2, ClosingMoves
<1>4. ASSUME UNCHANGED <<app, job>>
      PROVE  /\ \A c \in Hired' : c \in Hired \/ Chosen(c)'
             /\ job'.limit = job.limit
             /\ job'.status = "closed" \/ job'.closedDate => MayClose \/ ClosedByHand
  BY <1>1, <1>4 DEF Hired, Applications
\* A row is saved for the candidate of the request.
<1>5. ASSUME NEW h \in Requests, NEW d \in Candidates, d = handler[h].cand, UNCHANGED job,
             UNCHANGED app \/ \E row : /\ SaveRow(h, row)
                                       /\ row.status = "hired" => Chosen(d)'
      PROVE  /\ \A c \in Hired' : c \in Hired \/ Chosen(c)'
             /\ job'.limit = job.limit
             /\ job'.status = "closed" \/ job'.closedDate => MayClose \/ ClosedByHand
  <2>1. CASE UNCHANGED app
    BY <1>4, <1>5, <2>1
  <2>2. ASSUME NEW row, SaveRow(h, row), row.status = "hired" => Chosen(d)'
        PROVE  \A c \in Hired' : c \in Hired \/ Chosen(c)'
    <3>2. app'[d] = row /\ \A c \in Candidates : c # d => app'[c] = app[c]
      BY <1>5, <2>2 DEF SaveRow, RowsInv
    <3>. QED
      BY <2>2, <3>2 DEF Hired, Applications
  <2>. QED
    BY <1>1, <1>5, <2>1, <2>2
<1>6. ASSUME NEW h \in Requests, ReadJob(h) \/ ReadOwnJob(h) \/ ReadJobStatus(h)
      PROVE  ClosingInv'
  <2>1. /\ handler'[h].job = job /\ handler'[h].row = handler[h].row
        /\ handler'[h].cand = handler[h].cand /\ UNCHANGED <<app, job>>
    BY <1>0, <1>6 DEF ReadJob, ReadOwnJob, ReadJobStatus, At, States, RowsInv
  <2>. QED
    BY <1>0, <1>1, <1>4, <1>6, <2>1, ClosingMoves DEF RequestStep
<1>7. ASSUME NEW h \in Requests, ReadApplication(h) \/ ReadToDelete(h)
      PROVE  ClosingInv'
  <2>1. /\ handler'[h].row = app[handler[h].cand] /\ handler'[h].cand = handler[h].cand
        /\ handler'[h].step \in {"done", "save", "remove"} /\ UNCHANGED <<app, job>>
        /\ handler'[h].op = handler[h].op /\ handler[h].op # "job"
        /\ handler[h].cand \in Candidates
    BY <1>0, <1>7 DEF ReadApplication, ReadToDelete, At, States, RowsInv
  <2>2. ~HoldsJob(h)'
    BY <2>1 DEF HoldsJob, At
  <2>3. handler'[h].row # NoApplication /\ handler'[h].row.status = "hired" => Chosen(handler[h].cand)
    BY <1>1, <2>1 DEF Hired, Applications
  <2>. QED
    BY <1>0, <1>1, <1>4, <1>7, <2>1, <2>2, <2>3, ClosingMoves DEF RequestStep
<1>8. ASSUME NEW h \in Requests, CheckExisting(h) PROVE ClosingInv'
  BY <1>3, <1>4, <1>8 DEF RequestStep, CheckExisting, End, At, HoldsJob
<1>9. ASSUME NEW h \in Requests, InsertApplication(h) PROVE ClosingInv'
  <2>0. PICK d \in Candidates : d = handler[h].cand
    BY <1>0 DEF States
  <2>1. PICK row : /\ UNCHANGED app \/ SaveRow(h, row)
                   /\ row.status = "new"
    BY <1>9 DEF InsertApplication
  <2>2. /\ UNCHANGED job /\ (Goto(h, "list") \/ Goto(h, "done"))
        /\ HoldsJob(h)
    BY <1>9 DEF InsertApplication, End, At, HoldsJob
  <2>3. UNCHANGED app \/ \E q : /\ SaveRow(h, q)
                                /\ q.status = "hired" => Chosen(d)'
    BY <2>1
  <2>4. RequestStep(h)
    BY <1>9 DEF RequestStep
  <2>. QED
    BY <1>3, <1>5, <2>0, <2>2, <2>3, <2>4
<1>10. ASSUME NEW h \in Requests, SaveStatus(h) PROVE ClosingInv'
  <2>0. PICK d \in Candidates : d = handler[h].cand
    BY <1>0 DEF States
  <2>1. PICK step \in {"done", "readjob"} : Goto(h, step)
    BY <1>10 DEF SaveStatus
  <2>2. /\ handler'[h].step = step /\ handler'[h].op = handler[h].op
        /\ handler'[h].arg = handler[h].arg /\ handler'[h].cand = handler[h].cand
    BY <1>0, <2>1 DEF Goto, RowsInv, States
  <2>3. handler[h].arg = "hired" => Chosen(d)'
    BY <1>10, <2>0, <2>2 DEF SaveStatus, Chosen, HiredBy
  <2>4. UNCHANGED app \/ (/\ SaveRow(h, WithStatus(handler[h].row, handler[h].arg))
                          /\ WithStatus(handler[h].row, handler[h].arg).status = handler[h].arg)
    BY <1>10, Holds DEF SaveStatus, WithStatus, Application
  <2>5. UNCHANGED job /\ RequestStep(h)
    BY <1>10 DEF SaveStatus, RequestStep
  <2>. QED
    BY <1>3, <1>5, <2>0, <2>1, <2>3, <2>4, <2>5
<1>11. ASSUME NEW h \in Requests, SaveStage(h) PROVE ClosingInv'
  <2>0. PICK d \in Candidates : d = handler[h].cand
    BY <1>0 DEF States
  <2> DEFINE q == [WithStatus(handler[h].row, StageStatus[handler[h].arg]) EXCEPT !.stage = handler[h].arg]
  <2>1. Goto(h, "done") /\ UNCHANGED job /\ RequestStep(h) /\ (UNCHANGED app \/ SaveRow(h, q))
    BY <1>11 DEF SaveStage, End, RequestStep
  <2>2. /\ handler'[h].step = "done" /\ handler'[h].op = handler[h].op
        /\ handler'[h].arg = handler[h].arg /\ handler'[h].cand = handler[h].cand
    BY <1>0, <2>1 DEF Goto, RowsInv, States
  <2>3. StageStatus[handler[h].arg] = "hired" => Chosen(d)'
    BY <1>11, <2>0, <2>2 DEF SaveStage, At, Chosen, HiredBy
  <2>4. q.status = StageStatus[handler[h].arg]
    BY <1>11, Holds DEF SaveStage, At, WithStatus, Application
  <2> HIDE DEF q
  <2>5. UNCHANGED app \/ \E row : /\ SaveRow(h, row)
                                  /\ row.status = "hired" => Chosen(d)'
    BY <2>1, <2>3, <2>4
  <2>. QED
    BY <1>3, <1>5, <2>0, <2>1, <2>5
<1>12. ASSUME NEW h \in Requests, SaveScore(h) \/ ResetScore(h) PROVE ClosingInv'
  <2>0. PICK d \in Candidates : d = handler[h].cand
    BY <1>0 DEF States
  <2>1. PICK b \in BOOLEAN : UNCHANGED app \/ SaveRow(h, [handler[h].row EXCEPT !.scored = b])
    BY <1>12 DEF SaveScore, ResetScore
  <2>2. Goto(h, "done") /\ UNCHANGED job /\ RequestStep(h)
        /\ handler[h].row \in Application /\ handler[h].row # NoApplication
    BY <1>12, Holds DEF SaveScore, ResetScore, At, End, RequestStep
  <2> DEFINE q == [handler[h].row EXCEPT !.scored = b]
  <2>3. q.status = handler[h].row.status
    BY <2>2 DEF Application
  <2>4. handler[h].row.status = "hired" => Chosen(d)'
    BY <1>0, <1>1, <2>0, <2>2, ReasonsStay DEF States
  <2> HIDE DEF q
  <2>5. UNCHANGED app \/ \E row : /\ SaveRow(h, row)
                                  /\ row.status = "hired" => Chosen(d)'
    BY <2>1, <2>3, <2>4 DEF q
  <2>. QED
    BY <1>3, <1>5, <2>0, <2>2, <2>5
<1>13. ASSUME NEW h \in Requests, ScoreFails(h) PROVE ClosingInv'
  <2>1. UNCHANGED <<app, job>> /\ RequestStep(h)
    BY <1>13 DEF ScoreFails, RequestStep
  <2>2. CASE Goto(h, "done") \/ Goto(h, "reset")
    BY <1>3, <1>4, <2>1, <2>2
  <2>3. CASE handler' = [handler EXCEPT ![h].step = "reset", ![h].row = app[handler[h].cand]]
    <3>1. /\ handler'[h].row = app[handler[h].cand] /\ handler'[h].cand = handler[h].cand
          /\ handler'[h].step = "reset" /\ handler[h].cand \in Candidates
      BY <1>0, <2>3 DEF RowsInv, States
    <3>2. ~HoldsJob(h)'
      BY <3>1 DEF HoldsJob, At
    <3>3. handler'[h].row # NoApplication /\ handler'[h].row.status = "hired" => Chosen(handler[h].cand)
      BY <1>1, <3>1 DEF Hired, Applications
    <3>. QED
      BY <1>0, <1>4, <2>1, <3>1, <3>2, <3>3, ClosingMoves
  <2>. QED
    BY <1>13, <2>2, <2>3 DEF ScoreFails, End
<1>14. ASSUME NEW h \in Requests, RemoveApplication(h) PROVE ClosingInv'
  <2>1. \A c \in Hired' : c \in Hired
    BY <1>14 DEF RemoveApplication, RowsInv, Hired, Applications
  <2>. QED
    BY <1>1, <1>3, <1>14, <2>1 DEF RemoveApplication, End, RequestStep
<1>15. ASSUME NEW h \in Requests, CountApplications(h) PROVE ClosingInv'
  <2> DEFINE read == handler[h].job
             new == NewJobStatus(read)
  <2>1. read \in Job /\ HoldsJob(h)
    BY <1>0, <1>15 DEF CountApplications, At, HoldsJob, States
  <2>2. read.limit = job.limit /\ (read.status = "closed" \/ read.closedDate => MayClose)
    BY <1>1, <2>1
  <2>3. new = "closed" => MayClose
    <3>1. read.limit > 0 /\ Cardinality(Hired) >= read.limit => MayClose
      <4>1. read.limit \in Nat
        BY <2>1, ApplicationAssumption DEF Job
      <4>. QED
        BY <2>2, <4>1, HiredFew DEF MayClose
    <3>. QED
      BY <2>2, <3>1 DEF NewJobStatus
  <2> HIDE DEF new
  <2>4. /\ handler'[h].job = [read EXCEPT !.status = new] /\ handler'[h].row = handler[h].row
        /\ handler'[h].cand = handler[h].cand /\ UNCHANGED <<app, job>>
    <3>1. PICK step : handler' = [handler EXCEPT ![h].step = step, ![h].job.status = new]
      BY <1>15 DEF CountApplications, new
    <3>. QED
      BY <1>0, <1>15, <3>1 DEF CountApplications, States, RowsInv
  <2>5. /\ handler'[h].job.limit = read.limit /\ handler'[h].job.status = new
        /\ handler'[h].job.closedDate = read.closedDate
    BY <2>1, <2>4 DEF Job
  <2>. QED
    BY <1>0, <1>1, <1>4, <1>15, <2>2, <2>3, <2>4, <2>5, ClosingMoves DEF RequestStep
<1>16. ASSUME NEW h \in Requests, ListApplicant(h) PROVE ClosingInv'
  <2>1. handler[h].job \in Job /\ HoldsJob(h) /\ UNCHANGED app /\ Goto(h, "done") /\ RequestStep(h)
    BY <1>0, <1>16 DEF ListApplicant, At, HoldsJob, States, End, RequestStep
  <2>2. PICK read \in {job, handler[h].job} : /\ job'.limit = read.limit /\ job'.status = read.status
                                              /\ job'.closedDate = read.closedDate
    BY <1>16, <2>1 DEF ListApplicant, Job
  <2>3. job'.limit = job.limit /\ (job'.status = "closed" \/ job'.closedDate => MayClose)
    BY <1>1, <2>1, <2>2
  <2>4. Hired' = Hired
    BY <2>1 DEF Hired, Applications
  <2>. QED
    BY <1>3, <2>1, <2>3, <2>4
<1>17. ASSUME NEW h \in Requests, UpdateJobStatus(h) \/ SaveOwnJob(h) PROVE ClosingInv'
  <2>1. handler[h].job \in Job /\ HoldsJob(h) /\ UNCHANGED app /\ Goto(h, "done") /\ RequestStep(h)
        /\ job \in Job
    BY <1>0, <1>17 DEF UpdateJobStatus, SaveOwnJob, At, HoldsJob, States, End, RequestStep, RowsInv
  <2>2. CASE UpdateJobStatus(h)
    <3>1. /\ job'.limit = job.limit /\ job'.status = handler[h].job.status
          /\ job'.closedDate = (job.closedDate \/ handler[h].job.status = "closed")
      BY <2>1, <2>2 DEF UpdateJobStatus, WithJobStatus, Job
    <3>2. job'.status = "closed" \/ job'.closedDate => MayClose
      BY <1>1, <2>1, <3>1
    <3>. QED
      BY <1>1, <1>3, <2>1, <3>1, <3>2 DEF Hired, Applications
  <2>3. CASE SaveOwnJob(h)
    <3>1. /\ job'.limit = handler[h].job.limit /\ job'.status = handler[h].arg
          /\ job'.closedDate = (handler[h].job.closedDate \/ handler[h].arg = "closed")
      BY <2>1, <2>3 DEF SaveOwnJob, WithJobStatus, Job
    <3>2. handler[h].arg = "closed" => ClosedByHand
      BY <2>3 DEF SaveOwnJob, At, ClosedByHand
    <3>3. job'.status = "closed" \/ job'.closedDate => MayClose \/ ClosedByHand
      BY <1>1, <2>1, <3>1, <3>2
    <3>. QED
      BY <1>1, <1>3, <2>1, <3>1, <3>3 DEF Hired, Applications
  <2>. QED
    BY <1>17, <2>2, <2>3
<1>18. ASSUME NEW h \in Requests, Fault(h) PROVE ClosingInv'
  BY <1>3, <1>4, <1>18 DEF Fault, End
<1>19. CASE UNCHANGED avars
  <2>1. HiredBy' = HiredBy /\ Hired' = Hired /\ MayClose' = MayClose
    BY <1>19 DEF avars, HiredBy, ClosedByHand, MayClose, Hired, Applications
  <2>2. \A h \in Requests : HoldsJob(h)' = HoldsJob(h)
    BY <1>19 DEF avars, HoldsJob, At
  <2>3. ASSUME NEW c, Chosen(c) PROVE Chosen(c)'
    BY <1>19, <2>1, <2>3 DEF avars, Chosen
  <2>4. \A h \in Requests : Chosen(handler[h].cand) => Chosen(handler[h].cand)'
    BY <1>19, <2>1 DEF avars, Chosen
  <2>. QED
    BY <1>19, <2>1, <2>2, <2>3, <2>4 DEF avars, ClosingInv
<1>. QED
  BY <1>2, <1>6, <1>7, <1>8, <1>9, <1>10, <1>11, <1>12, <1>13, <1>14, <1>15, <1>16, <1>17,
     <1>18, <1>19, OneMoves DEF RequestStep

LEMMA ClosingInit == AInit => ClosingInv
<1> SUFFICES ASSUME AInit PROVE ClosingInv
  OBVIOUS
<1>1. \A h \in Requests : /\ handler[h].step = "idle" /\ handler[h].op = "none"
                          /\ handler[h].row = NoApplication
  BY DEF AInit, IdleHandler
<1>2. HiredBy = {} /\ Hired = {}
  BY <1>1 DEF AInit, HiredBy, Hired, Applications
<1>3. job.status = "active" /\ job.closedDate = FALSE
  BY DEF AInit, NewJob
<1>4. IsFiniteSet(HiredBy)
  BY <1>2, FS_EmptySet
<1>. QED
  BY <1>1, <1>2, <1>3, <1>4 DEF ClosingInv, HoldsJob, At

LEMMA ClosingSound == ASpec => [](RowsInv /\ ClosingInv)
BY RowsInit, RowsStep, ClosingInit, ClosingNext, PTL DEF ASpec

\* The job closes itself only after as many were hired as it has places, however
\* applications, hirings and whole-row saves of the job overlap.
THEOREM ClosesWhenFull == ASpec => []ClosedOnlyFull
<1>1. ClosingInv => ClosedOnlyFull
  BY DEF ClosingInv, ClosedOnlyFull, MayClose
<1>. QED
  BY <1>1, ClosingSound, PTL

-----------------------------------------------------------------------------
(* Requests that wait for each other *)

LEMMA BooleanOr == ASSUME NEW a, NEW b, NEW c, c = (a \/ b), ~c PROVE ~a /\ ~b
BY Zenon

LEMMA TurnStep ==
    ASSUME [MCNext]_<<avars, overlapped>>, ~overlapped'
    PROVE  /\ ~overlapped /\ [ANext]_avars
           /\ UNCHANGED <<avars, overlapped>> \/ ~ \E g, h \in Requests : g # h /\ Running(g)' /\ Running(h)'
<1>1. CASE UNCHANGED <<avars, overlapped>>
  BY <1>1
<1>2. CASE MCNext
  <2>1. ANext
    BY <1>2 DEF MCNext
  <2> DEFINE b == \E g, h \in Requests : g # h /\ Running(g)' /\ Running(h)'
  <2>2. overlapped' = (overlapped \/ b)
    BY <1>2 DEF MCNext
  <2> HIDE DEF b
  <2>3. ~overlapped /\ ~b
    BY <2>2, BooleanOr
  <2>. QED
    BY <2>1, <2>3 DEF b
<1>. QED
  BY <1>1, <1>2

\* The request that moves is alone before and after.
LEMMA MovesAlone ==
    ASSUME RowsInv, TurnInv, [MCNext]_<<avars, overlapped>>, ~overlapped', NEW h \in Requests,
           \/ RequestStep(h) \/ Fault(h)
           \/ \E op, c, arg : Starts(h, op, c, arg)
    PROVE  /\ ~overlapped
           /\ \A g \in Requests \ {h} : ~Running(g) /\ handler'[g] = handler[g]
<1>1. /\ ~overlapped
      /\ UNCHANGED <<avars, overlapped>> \/ ~ \E g, k \in Requests : g # k /\ Running(g)' /\ Running(k)'
  BY TurnStep
<1>2. \A g \in Requests \ {h} : handler'[g] = handler[g]
  BY Moves, Begins
<1>3. CASE RequestStep(h) \/ Fault(h)
  <2>1. Running(h)
    BY <1>3, Moves DEF Running
  <2>. QED
    BY <1>1, <1>2, <2>1 DEF TurnInv
<1>4. ASSUME NEW op, NEW c, NEW arg, Starts(h, op, c, arg)
      PROVE  \A g \in Requests \ {h} : ~Running(g)
  <2>1. handler[h].step = "idle" /\ handler'[h].step = "read"
    BY <1>4, Begins
  <2>2. Running(h)' /\ ~UNCHANGED <<avars, overlapped>>
    BY <2>1 DEF Running, avars
  <2>. QED
    BY <1>1, <1>2, <2>2 DEF Running
<1>. QED
  BY <1>1, <1>2, <1>3, <1>4

\* What a step has to show.
LEMMA TurnMoves ==
    ASSUME RowsInv, TurnInv, [MCNext]_<<avars, overlapped>>, ~overlapped', NEW h \in Requests,
           \/ RequestStep(h) \/ Fault(h)
           \/ \E op, c, arg : Starts(h, op, c, arg),
           HoldsRow(h)' => handler'[h].row = app'[handler'[h].cand],
           HoldsJob(h)' /\ handler'[h].step # "savejob" => handler'[h].job = job'
    PROVE  TurnInv'
<1>1. \A g \in Requests \ {h} : ~Running(g) /\ handler'[g] = handler[g]
  BY MovesAlone
<1>2. \A g \in Requests \ {h} : ~Running(g)' /\ ~HoldsRow(g)' /\ ~HoldsJob(g)'
  BY <1>1 DEF Running, HoldsRow, HoldsJob, At
<1>. QED
  BY <1>2 DEF TurnInv

LEMMA TurnNext == RowsInv /\ TurnInv /\ [MCNext]_<<avars, overlapped>> => TurnInv'
<1> SUFFICES ASSUME RowsInv, TurnInv, [MCNext]_<<avars, overlapped>>, ~overlapped' PROVE TurnInv'
  BY DEF TurnInv
<1>0. /\ ~overlapped /\ [ANext]_avars
      /\ \A h \in Requests : handler[h] \in States
      /\ \A h \in Requests : HoldsRow(h) => handler[h].row = app[handler[h].cand]
      /\ \A h \in Requests : HoldsJob(h) /\ handler[h].step # "savejob" => handler[h].job = job
  BY TurnStep DEF RowsInv, TurnInv
<1>1. ASSUME NEW h \in Requests, NEW op, NEW c, NEW arg, Starts(h, op, c, arg)
      PROVE  TurnInv'
  <2>1. handler'[h].step = "read"
    BY <1>1, Begins
  <2>2. ~HoldsRow(h)' /\ ~HoldsJob(h)'
    BY <2>1 DEF HoldsRow, HoldsJob, At
  <2>. QED
    BY <1>1, <2>2, TurnMoves
<1>2. ASSUME NEW h \in Requests, RequestStep(h) \/ Fault(h),
             handler'[h].step \in {"done", "readjob", "savejob"}
      PROVE  TurnInv'
  <2>1. ~HoldsRow(h)' /\ (HoldsJob(h)' => handler'[h].step = "savejob")
    BY <1>2 DEF HoldsRow, HoldsJob, At
  <2>. QED
    BY <1>2, <2>1, TurnMoves
<1>3. ASSUME NEW h \in Requests, NEW step, Goto(h, step)
      PROVE  /\ handler'[h].step = step /\ handler'[h].job = handler[h].job
             /\ handler'[h].row = handler[h].row /\ handler'[h].op = handler[h].op
             /\ handler'[h].cand = handler[h].cand
  BY <1>0, <1>3 DEF Goto, RowsInv, States
<1>4. ASSUME NEW h \in Requests, ReadJob(h) \/ ReadOwnJob(h) \/ ReadJobStatus(h) PROVE TurnInv'
  <2>1. /\ handler'[h].job = job /\ handler'[h].op = handler[h].op
        /\ handler[h].op \in {"apply", "job", "status"} /\ UNCHANGED job
        /\ handler'[h].step \in {"check", "save", "count"}
        /\ handler'[h].step = "save" => handler[h].op = "job"
    BY <1>0, <1>4 DEF ReadJob, ReadOwnJob, ReadJobStatus, At, States, RowsInv
  <2>2. ~HoldsRow(h)'
    BY <2>1 DEF HoldsRow
  <2>. QED
    BY <1>4, <2>1, <2>2, TurnMoves DEF RequestStep
<1>5. ASSUME NEW h \in Requests, ReadApplication(h) \/ ReadToDelete(h) PROVE TurnInv'
  <2>1. /\ handler'[h].row = app[handler[h].cand] /\ handler'[h].cand = handler[h].cand
        /\ handler'[h].step \in {"done", "save", "remove"} /\ UNCHANGED <<app, job>>
        /\ handler'[h].op = handler[h].op /\ handler[h].op # "job"
    BY <1>0, <1>5 DEF ReadApplication, ReadToDelete, At, States, RowsInv
  <2>2. ~HoldsJob(h)'
    BY <2>1 DEF HoldsJob, At
  <2>. QED
    BY <1>5, <2>1, <2>2, TurnMoves DEF RequestStep
<1>6. ASSUME NEW h \in Requests, CheckExisting(h) \/ InsertApplication(h) PROVE TurnInv'
  <2>1. PICK step \in {"done", "insert", "list"} : Goto(h, step)
    BY <1>6 DEF CheckExisting, InsertApplication, End
  <2>2. handler[h].step \in {"check", "insert"} /\ UNCHANGED job /\ RequestStep(h)
    BY <1>6 DEF CheckExisting, InsertApplication, At, RequestStep
  <2>3. handler[h].job = job
    BY <1>0, <2>2 DEF HoldsJob
  <2>4. ~HoldsRow(h)' /\ handler'[h].job = job'
    BY <1>3, <2>1, <2>2, <2>3 DEF HoldsRow
  <2>. QED
    BY <2>2, <2>4, TurnMoves
<1>7. ASSUME NEW h \in Requests,
             \/ ListApplicant(h) \/ SaveStage(h) \/ SaveScore(h) \/ ResetScore(h)
             \/ RemoveApplication(h) \/ UpdateJobStatus(h) \/ SaveOwnJob(h) \/ Fault(h)
      PROVE  TurnInv'
  <2>1. Goto(h, "done")
    BY <1>7 DEF ListApplicant, SaveStage, SaveScore, ResetScore, RemoveApplication,
                UpdateJobStatus, SaveOwnJob, Fault, End
  <2>. QED
    BY <1>2, <1>3, <1>7, <2>1 DEF RequestStep
<1>8. ASSUME NEW h \in Requests, SaveStatus(h) PROVE TurnInv'
  <2>1. PICK step \in {"done", "readjob"} : Goto(h, step)
    BY <1>8 DEF SaveStatus
  <2>. QED
    BY <1>2, <1>3, <1>8, <2>1 DEF RequestStep
<1>9. ASSUME NEW h \in Requests, ScoreFails(h) PROVE TurnInv'
  <2>1. UNCHANGED <<app, job>> /\ RequestStep(h) /\ HoldsRow(h)
    BY <1>9 DEF ScoreFails, RequestStep, At, HoldsRow
  <2>2. CASE Goto(h, "done")
    BY <1>2, <1>3, <2>1, <2>2
  <2>3. CASE Goto(h, "reset")
    <3>1. handler'[h].row = app'[handler'[h].cand] /\ ~HoldsJob(h)'
      BY <1>0, <1>3, <2>1, <2>3 DEF HoldsJob, At
    <3>. QED
      BY <2>1, <3>1, TurnMoves
  <2>4. CASE handler' = [handler EXCEPT ![h].step = "reset", ![h].row = app[handler[h].cand]]
    <3>1. /\ handler'[h].row = app'[handler'[h].cand] /\ handler'[h].step = "reset"
      BY <1>0, <2>1, <2>4 DEF States, RowsInv
    <3>2. ~HoldsJob(h)'
      BY <3>1 DEF HoldsJob, At
    <3>. QED
      BY <2>1, <3>1, <3>2, TurnMoves
  <2>. QED
    BY <1>9, <2>2, <2>3, <2>4 DEF ScoreFails, End
<1>10. ASSUME NEW h \in Requests, CountApplications(h) PROVE TurnInv'
  <2> DEFINE new == NewJobStatus(handler[h].job)
             step == IF new = handler[h].job.status THEN "done" ELSE "savejob"
  <2>1. handler' = [handler EXCEPT ![h].step = step, ![h].job.status = new]
    BY <1>10 DEF CountApplications
  <2>2. step \in {"done", "savejob"}
    OBVIOUS
  <2> HIDE DEF new, step
  <2>3. handler'[h].step = step
    BY <1>0, <2>1 DEF States, RowsInv
  <2>. QED
    BY <1>2, <1>10, <2>2, <2>3 DEF RequestStep
<1>11. CASE UNCHANGED avars
  BY <1>0, <1>11 DEF avars, TurnInv, Running, HoldsRow, HoldsJob, At
<1>. QED
  BY <1>0, <1>1, <1>4, <1>5, <1>6, <1>7, <1>8, <1>9, <1>10, <1>11, OneMoves DEF RequestStep

\* Requests that wait for each other move an application along the transitions
\* of the pipeline only, whatever queries fail (changeApplicationStage).
THEOREM StagesFollowInTurn == MCSpec => StagesInTurn
<1>1. MCInit => RowsInv /\ TurnInv
  BY RowsInit DEF MCInit, AInit, TurnInv, IdleHandler, Running, HoldsRow, HoldsJob, At
<1>2. RowsInv /\ TurnInv /\ [MCNext]_<<avars, overlapped>> => RowsInv' /\ TurnInv'
  BY RowsStep, TurnNext DEF MCNext, avars
<1>3. RowsInv /\ TurnInv /\ [MCNext]_<<avars, overlapped>>
          => [~overlapped' => StagesFollow]_<<avars, overlapped>>
  <2> SUFFICES ASSUME RowsInv, TurnInv, MCNext, ~overlapped', NEW c \in Candidates,
                      app[c] # NoApplication, app'[c] # NoApplication, app[c].stage # app'[c].stage
               PROVE  <<app[c].stage, app'[c].stage>> \in Transitions
    BY DEF StagesFollow
  <2>0. ~overlapped /\ [ANext]_avars
    BY TurnStep
  <2>1. ASSUME NEW h \in Requests, RequestStep(h) \/ Fault(h)
        PROVE  SaveStage(h) /\ handler[h].cand = c /\ UNCHANGED handler[h].cand
    <3> DEFINE row == handler[h].row
    <3>1. app \in [Candidates -> Rows] /\ handler[h].cand \in Candidates
      BY DEF RowsInv, States
    <3>2. ASSUME NEW q, SaveRow(h, q) PROVE handler[h].cand = c /\ app'[c] = q
      BY <3>1, <3>2 DEF SaveRow
    <3>3. HoldsRow(h) => row = app[handler[h].cand]
      BY <2>0 DEF TurnInv
    <3>4. ~UNCHANGED app
      OBVIOUS
    <3>5. ~InsertApplication(h)
      BY <3>1, <3>2, <3>4 DEF InsertApplication
    <3>6. ~RemoveApplication(h)
      BY <3>1 DEF RemoveApplication
    <3>7. ~SaveStatus(h)
      <4> SUFFICES ASSUME SaveStatus(h) PROVE FALSE
        OBVIOUS
      <4>1. row = app[handler[h].cand] /\ row \in Application
        BY <3>3, Holds DEF SaveStatus, HoldsRow
      <4>2. WithStatus(row, handler[h].arg).stage = row.stage
        BY <4>1 DEF WithStatus, Application
      <4>3. SaveRow(h, WithStatus(row, handler[h].arg))
        BY <3>4 DEF SaveStatus
      <4>. QED
        BY <3>2, <4>1, <4>2, <4>3
    <3>8. ~(SaveScore(h) \/ ResetScore(h))
      <4> SUFFICES ASSUME SaveScore(h) \/ ResetScore(h) PROVE FALSE
        OBVIOUS
      <4>1. row = app[handler[h].cand] /\ row \in Application
        BY <3>3, Holds DEF SaveScore, ResetScore, At, HoldsRow
      <4>2. PICK b \in BOOLEAN : SaveRow(h, [row EXCEPT !.scored = b])
        BY <3>4 DEF SaveScore, ResetScore
      <4>3. [row EXCEPT !.scored = b].stage = row.stage
        BY <4>1 DEF Application
      <4>. QED
        BY <3>2, <4>1, <4>2, <4>3
    <3>9. SaveStage(h)
      BY <2>1, <3>4, <3>5, <3>6, <3>7, <3>8 DEF RequestStep, ReadJob, CheckExisting, ListApplicant,
         ReadApplication, ScoreFails, ReadToDelete, ReadJobStatus, CountApplications,
         UpdateJobStatus, ReadOwnJob, SaveOwnJob, Fault
    <3>10. handler[h].cand = c
      BY <3>2, <3>4, <3>9 DEF SaveStage
    <3>11. UNCHANGED handler[h].cand
      BY <2>1, Moves
    <3>. QED
      BY <3>9, <3>10, <3>11
  <2>2. PICK h \in Requests : SaveStage(h) /\ handler[h].cand = c
    BY <2>0, <2>1, OneMoves DEF avars, Starts
  <2> DEFINE row == handler[h].row
             to == handler[h].arg
             q == [WithStatus(row, StageStatus[to]) EXCEPT !.stage = to]
  <2>3. row = app[c] /\ row \in Application
    BY <2>0, <2>2, Holds DEF SaveStage, At, HoldsRow, TurnInv
  <2>4. q.stage = to
    BY <2>3 DEF WithStatus, Application
  <2>5. <<row.stage, to>> \in Transitions /\ SaveRow(h, q)
    BY <2>2 DEF SaveStage
  <2> HIDE DEF q
  <2>6. app'[c] = q
    BY <2>2, <2>5 DEF SaveRow, RowsInv
  <2>. QED
    BY <2>3, <2>4, <2>5, <2>6
<1>. QED
  BY <1>1, <1>2, <1>3, PTL DEF MCSpec, StagesInTurn

-----------------------------------------------------------------------------
(* Applicants are listed, and full jobs close, in turn *)

LEMMA UndisturbedBefore ==
    ASSUME RowsInv, [MCNext]_<<avars, overlapped>>, Undisturbed'
    PROVE  /\ Undisturbed /\ ~overlapped' /\ [ANext]_avars
           /\ \A h \in Requests : ~Fault(h)
<1>1. ~overlapped /\ ~overlapped' /\ [ANext]_avars /\ faults' = 0
  BY TurnStep DEF Undisturbed
<1>2. faults \in Nat
  BY ApplicationAssumption DEF RowsInv
<1>3. \A h \in Requests : ~Fault(h)
  BY <1>1, <1>2 DEF Fault
<1>4. UNCHANGED faults
  <2>1. ASSUME NEW h \in Requests, RequestStep(h) PROVE UNCHANGED faults
    BY <2>1 DEF RequestStep, ReadJob, CheckExisting, InsertApplication, ListApplicant, ReadApplication,
       SaveStatus, SaveStage, SaveScore, ScoreFails, ResetScore, ReadToDelete, RemoveApplication,
       ReadJobStatus, CountApplications, UpdateJobStatus, ReadOwnJob, SaveOwnJob
  <2>. QED
    BY <1>1, <1>3, <2>1, OneMoves DEF Starts, avars
<1>. QED
  BY <1>1, <1>3, <1>4 DEF Undisturbed

\* In turn a request saves the row of an application that is still there.
LEMMA SavesInTurn ==
    ASSUME RowsInv, TurnInv, ~overlapped, NEW h \in Requests,
           SaveStatus(h) \/ SaveStage(h) \/ SaveScore(h) \/ ResetScore(h) \/ RemoveApplication(h)
    PROVE  /\ UNCHANGED job
           /\ Applications' \subseteq Applications
           /\ SaveScore(h) \/ ResetScore(h) \/ RemoveApplication(h) => Hired' \subseteq Hired
           /\ SaveStatus(h) /\ handler[h].arg # "hired" => Hired' \subseteq Hired
<1> DEFINE d == handler[h].cand
           row == handler[h].row
<1>0. d \in Candidates /\ app \in [Candidates -> Rows]
  BY DEF RowsInv, States
<1>1. ASSUME NEW q, SaveRow(h, q)
      PROVE  app'[d] = q /\ \A c \in Candidates : c # d => app'[c] = app[c]
  BY <1>0, <1>1 DEF SaveRow
<1>2. CASE RemoveApplication(h)
  <2>1. \A c \in Candidates : app'[c] = app[c] \/ app'[c] = NoApplication
    BY <1>0, <1>2 DEF RemoveApplication
  <2>. QED
    BY <1>2, <2>1 DEF RemoveApplication, Applications, Hired, SaveScore, ResetScore, SaveStatus, At
<1>3. CASE SaveStatus(h) \/ SaveStage(h) \/ SaveScore(h) \/ ResetScore(h)
  <2>1. row \in Application /\ row # NoApplication /\ row = app[d]
    BY <1>3, Holds DEF SaveStatus, SaveStage, SaveScore, ResetScore, At, HoldsRow, TurnInv
  <2>2. UNCHANGED job
    BY <1>3 DEF SaveStatus, SaveStage, SaveScore, ResetScore
  <2>3. UNCHANGED app \/ \A c \in Candidates : c # d => app'[c] = app[c]
    BY <1>1, <1>3 DEF SaveStatus, SaveStage, SaveScore, ResetScore
  <2>4. Applications' \subseteq Applications
    BY <2>1, <2>3 DEF Applications
  <2>5. ASSUME SaveScore(h) \/ ResetScore(h)
        PROVE  Hired' \subseteq Hired
    <3>1. PICK b \in BOOLEAN : UNCHANGED app \/ SaveRow(h, [row EXCEPT !.scored = b])
      BY <2>5 DEF SaveScore, ResetScore
    <3>2. [row EXCEPT !.scored = b].status = row.status
      BY <2>1 DEF Application
    <3>3. UNCHANGED app \/ app'[d].status = app[d].status
      BY <1>1, <2>1, <3>1, <3>2
    <3>. QED
      BY <2>1, <2>3, <2>4, <3>3 DEF Hired, Applications
  <2>6. ASSUME SaveStatus(h), handler[h].arg # "hired"
        PROVE  Hired' \subseteq Hired
    <3>1. UNCHANGED app \/ SaveRow(h, WithStatus(row, handler[h].arg))
      BY <2>6 DEF SaveStatus
    <3>2. WithStatus(row, handler[h].arg).status = handler[h].arg
      BY <2>1 DEF WithStatus, Application
    <3>3. UNCHANGED app \/ app'[d].status # "hired"
      BY <1>1, <2>6, <3>1, <3>2
    <3>. QED
      BY <2>3, <2>4, <3>3 DEF Hired, Applications
  <2>7. ~RemoveApplication(h)
    BY <1>3 DEF SaveStatus, SaveStage, SaveScore, ResetScore, RemoveApplication, At
  <2>. QED
    BY <2>2, <2>4, <2>5, <2>6, <2>7
<1>. QED
  BY <1>2, <1>3

\* An insert is that of the candidate's application, and it is not hired.
LEMMA InsertInTurn ==
    ASSUME RowsInv, NEW h \in Requests, InsertApplication(h)
    PROVE  /\ Hired' \subseteq Hired
           /\ \/ Applications' \subseteq Applications
              \/ /\ Applications' \subseteq Applications \cup {handler[h].cand}
                 /\ handler'[h].step = "list"
<1>0. handler[h].cand \in Candidates /\ handler[h] \in States /\ app \in [Candidates -> Rows]
  BY DEF RowsInv, States
<1>1. CASE UNCHANGED app
  BY <1>1 DEF Hired, Applications
<1>2. ASSUME NEW row, SaveRow(h, row), row.status = "new", Goto(h, "list")
      PROVE  /\ Hired' \subseteq Hired
             /\ Applications' \subseteq Applications \cup {handler[h].cand}
             /\ handler'[h].step = "list"
  <2>1. /\ app'[handler[h].cand] = row
        /\ \A c \in Candidates : c # handler[h].cand => app'[c] = app[c]
    BY <1>0, <1>2 DEF SaveRow
  <2>2. handler'[h].step = "list"
    BY <1>0, <1>2 DEF Goto, RowsInv, States
  <2>. QED
    BY <1>2, <2>1, <2>2 DEF Hired, Applications
<1>3. UNCHANGED app \/ \E row : SaveRow(h, row) /\ row.status = "new" /\ Goto(h, "list")
  BY DEF InsertApplication
<1>. QED
  BY <1>1, <1>2, <1>3

\* Steps that change neither the applications nor the job.
ReadingStep(h) ==
    \/ ReadJob(h) \/ CheckExisting(h) \/ ReadApplication(h) \/ ScoreFails(h) \/ ReadToDelete(h)
    \/ ReadJobStatus(h) \/ CountApplications(h) \/ ReadOwnJob(h)

LEMMA ListNext ==
    ASSUME RowsInv, TurnInv, ListInv, [MCNext]_<<avars, overlapped>>
    PROVE  ListInv'
<1> DEFINE Listed(c) == \/ c \in job.appliedBy
                        \/ \E h \in Requests : At(h, "apply", "list") /\ handler[h].cand = c
<1> SUFFICES ASSUME Undisturbed', NEW c \in Applications' PROVE Listed(c)'
  BY DEF ListInv
<1>0. /\ Undisturbed /\ ~overlapped /\ ~overlapped' /\ [ANext]_avars
      /\ \A h \in Requests : ~Fault(h)
      /\ \A d \in Applications : Listed(d)
  BY UndisturbedBefore DEF ListInv, Undisturbed
<1>1. ASSUME NEW h \in Requests,
             \/ RequestStep(h) \/ Fault(h)
             \/ \E op, d, arg : Starts(h, op, d, arg),
             ~At(h, "apply", "list"), Applications' \subseteq Applications,
             job.appliedBy \subseteq job'.appliedBy
      PROVE  Listed(c)'
  <2>1. \A g \in Requests \ {h} : ~Running(g)
    BY <1>0, <1>1, MovesAlone
  <2>2. \A g \in Requests : ~At(g, "apply", "list")
    BY <1>1, <2>1 DEF At, Running
  <2>. QED
    BY <1>0, <1>1, <2>2
<1>2. ASSUME NEW h \in Requests, NEW op, NEW d, NEW arg, Starts(h, op, d, arg)
      PROVE  Listed(c)'
  BY <1>1, <1>2, Begins DEF At, Applications
<1>3. ASSUME NEW h \in Requests, ReadingStep(h)
      PROVE  Listed(c)'
  <2>1. UNCHANGED <<app, job>> /\ ~At(h, "apply", "list") /\ RequestStep(h)
    BY <1>3 DEF ReadingStep, ReadJob, CheckExisting, ReadApplication, ScoreFails, ReadToDelete,
       ReadJobStatus, CountApplications, ReadOwnJob, At, RequestStep
  <2>. QED
    BY <1>1, <2>1 DEF Applications
<1>4. ASSUME NEW h \in Requests,
             SaveStatus(h) \/ SaveStage(h) \/ SaveScore(h) \/ ResetScore(h) \/ RemoveApplication(h)
      PROVE  Listed(c)'
  <2>1. UNCHANGED job /\ Applications' \subseteq Applications /\ RequestStep(h)
    BY <1>0, <1>4, SavesInTurn DEF RequestStep
  <2>2. ~At(h, "apply", "list")
    BY <1>4 DEF SaveStatus, SaveStage, SaveScore, ResetScore, RemoveApplication, At
  <2>. QED
    BY <1>1, <2>1, <2>2
<1>5. ASSUME NEW h \in Requests, InsertApplication(h)
      PROVE  Listed(c)'
  <2>1. UNCHANGED job /\ RequestStep(h) /\ At(h, "apply", "insert") /\ ~At(h, "apply", "list")
    BY <1>5 DEF InsertApplication, At, RequestStep
  <2>2. CASE Applications' \subseteq Applications
    BY <1>1, <2>1, <2>2
  <2>3. CASE handler'[h].step = "list" /\ c = handler[h].cand
    <3>1. handler'[h].op = "apply" /\ handler'[h].cand = handler[h].cand
      BY <2>1, Moves DEF At
    <3>. QED
      BY <2>3, <3>1 DEF At
  <2>4. CASE c \in Applications
    <3>1. \A g \in Requests : ~At(g, "apply", "list")
      BY <1>0, <2>1, MovesAlone DEF At, Running
    <3>. QED
      BY <1>0, <2>1, <2>4, <3>1
  <2>. QED
    BY <1>5, <2>2, <2>3, <2>4, InsertInTurn
<1>6. ASSUME NEW h \in Requests, ListApplicant(h)
      PROVE  Listed(c)'
  <2>1. At(h, "apply", "list") /\ RequestStep(h) /\ UNCHANGED app /\ handler[h].job = job /\ job \in Job
    BY <1>0, <1>6 DEF ListApplicant, RequestStep, TurnInv, HoldsJob, At, RowsInv
  <2>2. job'.appliedBy = job.appliedBy \cup {handler[h].cand}
    BY <1>6, <2>1 DEF ListApplicant, Job
  <2>3. \A g \in Requests : At(g, "apply", "list") => g = h
    BY <1>0, <2>1, MovesAlone DEF At, Running
  <2>4. c \in Applications
    BY <2>1 DEF Applications
  <2>. QED
    BY <1>0, <2>2, <2>3, <2>4
<1>7. ASSUME NEW h \in Requests, UpdateJobStatus(h) \/ SaveOwnJob(h)
      PROVE  Listed(c)'
  <2>1. ~At(h, "apply", "list") /\ RequestStep(h) /\ UNCHANGED app /\ job \in Job
        /\ (SaveOwnJob(h) => handler[h].job = job)
    BY <1>0, <1>7 DEF UpdateJobStatus, SaveOwnJob, RequestStep, TurnInv, HoldsJob, At, RowsInv
  <2>2. job'.appliedBy = job.appliedBy
    BY <1>7, <2>1, ZenonT(30) DEF UpdateJobStatus, SaveOwnJob, WithJobStatus, Job
  <2>. QED
    BY <1>1, <2>1, <2>2 DEF Applications
<1>8. CASE UNCHANGED avars
  <2>1. c \in Applications
    BY <1>8 DEF avars, Applications
  <2>. QED
    BY <1>0, <1>8, <2>1 DEF avars, At
<1>. QED
  BY <1>0, <1>2, <1>3, <1>4, <1>5, <1>6, <1>7, <1>8, OneMoves DEF RequestStep, ReadingStep

LEMMA FullNext ==
    ASSUME RowsInv, RowsInv', TurnInv, ClosingInv, FullInv, [MCNext]_<<avars, overlapped>>
    PROVE  FullInv'
<1> DEFINE Closing == \/ job.status = "closed"
                      \/ \E h \in Requests :
                             handler[h].op = "status" /\ handler[h].step \in {"readjob", "count", "savejob"}
           Saves == \A h \in Requests : At(h, "status", "savejob") => handler[h].job.status = "closed"
<1> SUFFICES ASSUME Undisturbed', Full',
                    \A h \in Requests : handler'[h].op \notin {"update", "stage", "job"}
             PROVE  Closing' /\ Saves'
  BY DEF FullInv
<1>0. /\ Undisturbed /\ ~overlapped /\ ~overlapped' /\ [ANext]_avars
      /\ \A h \in Requests : ~Fault(h)
      /\ job \in Job /\ job.limit \in Nat /\ \A h \in Requests : handler[h] \in States
  BY UndisturbedBefore, ApplicationAssumption DEF Undisturbed, RowsInv, Job
\* What the request that moves has to show, if the hired are no more than before.
<1>1. ASSUME NEW h \in Requests,
             \/ RequestStep(h) \/ Fault(h)
             \/ \E op, d, arg : Starts(h, op, d, arg)
      PROVE  /\ \A g \in Requests \ {h} : ~Running(g) /\ ~Running(g)'
             /\ \A g \in Requests : handler[g].op \notin {"update", "stage", "job"}
             /\ ~At(h, "status", "savejob")' => Saves'
  <2>1. \A g \in Requests \ {h} : ~Running(g) /\ handler'[g] = handler[g]
    BY <1>0, <1>1, MovesAlone
  <2>2. handler[h].op = handler'[h].op \/ handler[h].op = "none"
    <3>1. CASE RequestStep(h) \/ Fault(h)
      BY <3>1, Moves
    <3>2. ASSUME NEW op, NEW d, NEW arg, Starts(h, op, d, arg)
          PROVE  handler[h].op = "none"
      BY <3>2, Begins DEF RowsInv, HandlerOK
    <3>. QED
      BY <1>1, <3>1, <3>2
  <2>. QED
    BY <2>1, <2>2 DEF Running, At
<1>2. ASSUME Hired' \subseteq Hired, job'.limit = job.limit,
             \A h \in Requests : handler[h].op \notin {"update", "stage", "job"}
      PROVE  Full /\ Closing /\ Saves
  <2> DEFINE S == Hired
             T == Hired'
  <2>1. IsFiniteSet(S) /\ Cardinality(S) \in Nat
    BY HiredFew
  <2>2. T \subseteq S /\ job.limit > 0 /\ Cardinality(T) >= job.limit
    BY <1>2 DEF Full
  <2> HIDE DEF S, T
  <2>3. Cardinality(T) <= Cardinality(S) /\ IsFiniteSet(T)
    BY <2>1, <2>2, FS_Subset
  <2>4. Cardinality(T) \in Nat
    BY <2>3, FS_CardinalityType
  <2>5. Full
    BY <1>0, <2>1, <2>2, <2>3, <2>4 DEF Full, S
  <2>. QED
    BY <1>0, <1>2, <2>5 DEF FullInv
<1>3. ASSUME NEW h \in Requests,
             \/ RequestStep(h) \/ Fault(h)
             \/ \E op, d, arg : Starts(h, op, d, arg),
             handler[h].step \notin {"readjob", "count", "savejob"}, ~At(h, "status", "savejob")',
             Hired' \subseteq Hired, job'.limit = job.limit, job'.status = job.status
      PROVE  Closing' /\ Saves'
  <2>1. Saves' /\ Closing
    BY <1>1, <1>2, <1>3
  <2>2. job.status = "closed"
    BY <1>1, <1>3, <2>1 DEF Running
  <2>. QED
    BY <1>3, <2>1, <2>2
<1>4. ASSUME NEW h \in Requests, NEW op, NEW d, NEW arg, Starts(h, op, d, arg)
      PROVE  Closing' /\ Saves'
  <2>1. UNCHANGED <<app, job>> /\ handler[h].step = "idle" /\ handler'[h].step = "read"
    BY <1>4, Begins
  <2>. QED
    BY <1>3, <1>4, <2>1 DEF Hired, Applications, At
<1>5. ASSUME NEW h \in Requests,
             \/ ReadJob(h) \/ CheckExisting(h) \/ ReadApplication(h) \/ ScoreFails(h)
             \/ ReadToDelete(h) \/ ReadOwnJob(h)
      PROVE  Closing' /\ Saves'
  <2>1. UNCHANGED <<app, job>> /\ RequestStep(h) /\ handler[h].step \in {"read", "check", "save"}
    BY <1>5 DEF ReadJob, CheckExisting, ReadApplication, ScoreFails, ReadToDelete, ReadOwnJob, At, RequestStep
  <2>2. ~At(h, "status", "savejob")'
    <3>1. ASSUME NEW step, Goto(h, step) PROVE handler'[h].step = step
      BY <1>0, <3>1 DEF Goto, RowsInv, States
    <3>2. handler'[h].step # "savejob"
      BY <1>0, <1>5, <3>1 DEF ReadJob, CheckExisting, ReadApplication, ScoreFails, ReadToDelete,
         ReadOwnJob, End, States, RowsInv
    <3>. QED
      BY <3>2 DEF At
  <2>. QED
    BY <1>3, <2>1, <2>2 DEF Hired, Applications
<1>6. ASSUME NEW h \in Requests,
             \/ InsertApplication(h) \/ SaveScore(h) \/ ResetScore(h) \/ RemoveApplication(h)
      PROVE  Closing' /\ Saves'
  <2>1. UNCHANGED job /\ RequestStep(h) /\ handler[h].step \in {"insert", "save", "reset", "remove"}
        /\ handler[h].op # "status"
    BY <1>6 DEF InsertApplication, SaveScore, ResetScore, RemoveApplication, At, RequestStep
  <2>2. Hired' \subseteq Hired
    BY <1>0, <1>6, InsertInTurn, SavesInTurn
  <2>3. ~At(h, "status", "savejob")'
    BY <2>1, Moves DEF At
  <2>. QED
    BY <1>3, <2>1, <2>2, <2>3
<1>7. ASSUME NEW h \in Requests, SaveStatus(h)
      PROVE  Closing' /\ Saves'
  <2>1. PICK step \in {"done", "readjob"} : Goto(h, step)
    BY <1>7 DEF SaveStatus
  <2>2. handler'[h].step = step /\ handler'[h].op = handler[h].op /\ RequestStep(h)
        /\ handler[h].step = "save"
    BY <1>0, <1>7, <2>1 DEF Goto, RowsInv, States, SaveStatus, RequestStep
  <2>3. UNCHANGED job /\ ~At(h, "status", "savejob")'
    BY <1>7, <2>2 DEF SaveStatus, At
  <2>4. CASE Hired' \subseteq Hired
    BY <1>3, <2>2, <2>3, <2>4
  <2>5. CASE handler[h].arg = "hired" /\ CanSave(h)
    <3>1. handler[h].op = "status"
      BY <1>1, <1>7, <2>2 DEF SaveStatus
    <3>2. Goto(h, "readjob")
      BY <1>7, <2>5, <3>1 DEF SaveStatus
    <3>3. handler'[h].step = "readjob"
      BY <1>0, <3>2 DEF Goto, RowsInv, States
    <3>4. Closing'
      BY <2>2, <3>1, <3>3
    <3>. QED
      BY <1>1, <2>2, <2>3, <3>4
  <2>6. CASE ~CanSave(h)
    <3>1. UNCHANGED app
      BY <1>7, <2>6 DEF SaveStatus
    <3>. QED
      BY <2>4, <3>1 DEF Hired, Applications
  <2>7. CASE handler[h].arg # "hired"
    BY <1>0, <1>7, <2>4, <2>7, SavesInTurn
  <2>. QED
    BY <2>5, <2>6, <2>7
<1>8. ASSUME NEW h \in Requests, SaveStage(h) \/ SaveOwnJob(h)
      PROVE  Closing' /\ Saves'
  <2>1. RequestStep(h) /\ handler[h].op \in {"stage", "job"}
    BY <1>8 DEF SaveStage, SaveOwnJob, At, RequestStep
  <2>. QED
    BY <1>1, <2>1
<1>9. ASSUME NEW h \in Requests, ReadJobStatus(h)
      PROVE  Closing' /\ Saves'
  <2>1. RequestStep(h) /\ handler'[h].step = "count" /\ handler'[h].op = "status"
    BY <1>0, <1>9 DEF ReadJobStatus, At, RequestStep, States, RowsInv
  <2>. QED
    BY <1>1, <2>1 DEF At
<1>10. ASSUME NEW h \in Requests, CountApplications(h)
       PROVE  Closing' /\ Saves'
  <2>1. RequestStep(h) /\ handler[h].job = job /\ UNCHANGED <<app, job>> /\ handler[h].op = "status"
    BY <1>0, <1>10 DEF CountApplications, RequestStep, TurnInv, HoldsJob, At
  <2>2. Full
    <3>1. Hired' \subseteq Hired
      BY <2>1 DEF Hired, Applications
    <3>. QED
      BY <1>1, <1>2, <2>1, <3>1
  <2>3. NewJobStatus(handler[h].job) = "closed"
    BY <2>1, <2>2 DEF Full, NewJobStatus
  <2> DEFINE step == IF "closed" = job.status THEN "done" ELSE "savejob"
  <2>4. handler' = [handler EXCEPT ![h].step = step, ![h].job.status = "closed"]
    BY <1>10, <2>1, <2>3 DEF CountApplications
  <2> HIDE DEF step
  <2>5. handler'[h].step = step /\ handler'[h].op = "status" /\ handler'[h].job.status = "closed"
    BY <1>0, <2>1, <2>4 DEF States, RowsInv, Job
  <2>6. Closing'
    BY <2>1, <2>5 DEF step
  <2>7. Saves'
    <3>1. \A g \in Requests \ {h} : ~At(g, "status", "savejob")'
      BY <1>1, <2>1 DEF At, Running
    <3>. QED
      BY <2>5, <3>1
  <2>. QED
    BY <2>6, <2>7
<1>11. ASSUME NEW h \in Requests, UpdateJobStatus(h)
       PROVE  Closing' /\ Saves'
  <2>1. RequestStep(h) /\ UNCHANGED app /\ At(h, "status", "savejob") /\ Goto(h, "done")
    BY <1>11 DEF UpdateJobStatus, RequestStep, End
  <2>2. job'.limit = job.limit /\ job'.status = handler[h].job.status
    BY <1>0, <1>11 DEF UpdateJobStatus, WithJobStatus, Job
  <2>3. Saves
    <3>1. Hired' \subseteq Hired
      BY <2>1 DEF Hired, Applications
    <3>. QED
      BY <1>1, <1>2, <2>1, <2>2, <3>1
  <2>4. job'.status = "closed"
    BY <2>1, <2>2, <2>3
  <2>5. handler'[h].step = "done"
    BY <1>0, <2>1 DEF Goto, States, RowsInv
  <2>. QED
    BY <1>1, <2>1, <2>4, <2>5 DEF At
<1>12. ASSUME NEW h \in Requests, ListApplicant(h)
       PROVE  Closing' /\ Saves'
  <2>1. RequestStep(h) /\ UNCHANGED app /\ handler[h].job = job /\ At(h, "apply", "list")
    BY <1>0, <1>12 DEF ListApplicant, RequestStep, TurnInv, HoldsJob, At
  <2>2. job'.limit = job.limit /\ job'.status = job.status
    BY <1>0, <1>12, <2>1 DEF ListApplicant, Job
  <2>3. ~At(h, "status", "savejob")'
    BY <2>1, Moves DEF At
  <2>. QED
    BY <1>3, <2>1, <2>2, <2>3 DEF Hired, Applications, At
<1>13. CASE UNCHANGED avars
  <2>1. UNCHANGED <<app, job, handler>>
    BY <1>13 DEF avars
  <2>2. Hired' = Hired
    BY <2>1 DEF Hired, Applications
  <2>3. Closing /\ Saves
    BY <1>2, <2>1, <2>2
  <2>. QED
    BY <2>1, <2>3 DEF At
<1>. QED
  BY <1>0, <1>4, <1>5, <1>6, <1>7, <1>8, <1>9, <1>10, <1>11, <1>12, <1>13, OneMoves DEF RequestStep

\* A job that closed itself was full once.  Of requests that waited for each other,
\* with no failing query, every applicant is listed, and hiring for the last place
\* by updateApplicationStatus closes the job, if no recruiter sets its status.
THEOREM JobsAreSound == MCSpec => []JobSound
<1> DEFINE Inv == RowsInv /\ ClosingInv /\ TurnInv /\ ListInv /\ FullInv
<1>1. MCInit => Inv
  <2> SUFFICES ASSUME MCInit PROVE Inv
    OBVIOUS
  <2>1. \A h \in Requests : handler[h].step = "idle"
    BY DEF MCInit, AInit, IdleHandler
  <2>2. Applications = {} /\ Hired = {} /\ job.limit \in Nat
    <3>1. PICK n \in Limits : job = NewJob(n)
      BY DEF MCInit, AInit
    <3>2. job.limit \in Nat
      BY <3>1, ApplicationAssumption DEF NewJob
    <3>. QED
      BY <3>2 DEF MCInit, AInit, Applications, Hired
  <2>3. TurnInv
    BY <2>1 DEF TurnInv, Running, HoldsRow, HoldsJob, At
  <2>4. ListInv /\ FullInv
    BY <2>2, FS_EmptySet DEF ListInv, FullInv, Full
  <2>. QED
    BY <2>3, <2>4, RowsInit, ClosingInit DEF MCInit
<1>2. Inv /\ [MCNext]_<<avars, overlapped>> => Inv'
  <2>1. [MCNext]_<<avars, overlapped>> => [ANext]_avars
    BY DEF MCNext, avars
  <2>. QED
    BY <2>1, RowsStep, ClosingNext, TurnNext, ListNext, FullNext
<1>3. Inv => JobSound
  <2> SUFFICES ASSUME Inv PROVE JobSound
    OBVIOUS
  <2>1. ClosedOnlyFull
    BY DEF ClosingInv, ClosedOnlyFull, MayClose
  <2>2. ASSUME Undisturbed PROVE AppliedListed
    BY <2>2 DEF AppliedListed, ListInv, Quiet, Running, At
  <2>3. ASSUME Undisturbed, \A h \in Requests : handler[h].op \notin {"update", "stage", "job"}
        PROVE  FullJobCloses
    BY <2>3 DEF FullJobCloses, FullInv, Full, Quiet, Running
  <2>. QED
    BY <2>1, <2>2, <2>3 DEF JobSound
<1>. QED
  BY <1>1, <1>2, <1>3, PTL DEF MCSpec
=============================================================================
