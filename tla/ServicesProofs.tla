--------------------------- MODULE ServicesProofs ---------------------------
(***************************************************************************)
(* Proofs about the services that are built on Server, for any requests,   *)
(* names and rows and any number of failing queries unless a theorem says  *)
(* otherwise.  Here are the lemmas about requests and the services of an   *)
(* organisation; PeopleProofs goes on with those of the people.            *)
(***************************************************************************)
EXTENDS MCServices, FiniteSetTheorems, WellFoundedInduction, TLAPS

-----------------------------------------------------------------------------
(* What a step of a request does to the requests, for any service that is  *)
(* built on Server                                                         *)

Request(op, step, arg, mem) == [op |-> op, step |-> step, arg |-> arg, mem |-> mem]

\* Every request has a local state.
Shape ==
    handler = [h \in Requests |->
                  Request(handler[h].op, handler[h].step, handler[h].arg, handler[h].mem)]

\* Only request h moves, to the state s.
Moves(h, s) ==
    /\ Shape'
    /\ handler'[h] = s
    /\ \A g \in Requests \ {h} : handler'[g] = handler[g]

LEMMA ShapeInit == SInit => Shape
BY DEF SInit, Shape, Idle, Request

LEMMA AskMoves ==
    \A h \in Requests : \A op, arg :
        Shape /\ Ask(h, op, arg) =>
            Moves(h, Request(op, "start", arg, "nothing")) /\ handler[h].step = "idle"
BY DEF Ask, Moves, Shape, Request

LEMMA AnswerIs ==
    \A h : Answered(h) = Request(handler[h].op, "done", "none", "nothing")
BY DEF Answered, Request

LEMMA EndMoves ==
    \A h \in Requests :
        Shape /\ End(h) => Moves(h, Request(handler[h].op, "done", "none", "nothing"))
BY DEF End, Answered, Moves, Shape, Request

LEMMA GotoMoves ==
    \A h \in Requests : \A step :
        Shape /\ Goto(h, step) =>
            Moves(h, Request(handler[h].op, step, handler[h].arg, handler[h].mem))
BY DEF Goto, Moves, Shape, Request

LEMMA KeepMoves ==
    \A h \in Requests : \A step, mem :
        Shape /\ Keep(h, step, mem) =>
            Moves(h, Request(handler[h].op, step, handler[h].arg, mem))
<1> SUFFICES ASSUME NEW h \in Requests, NEW step, NEW mem, Shape, Keep(h, step, mem)
             PROVE  Moves(h, Request(handler[h].op, step, handler[h].arg, mem))
  OBVIOUS
<1>1. handler' = [handler EXCEPT ![h] = [@ EXCEPT !.step = step, !.mem = mem]]
  BY DEF Keep
<1>2. [handler[h] EXCEPT !.step = step, !.mem = mem] = Request(handler[h].op, step, handler[h].arg, mem)
  <2>1. PICK op, was, arg, old : handler[h] = Request(op, was, arg, old)
    BY DEF Shape
  <2>2. [handler[h] EXCEPT !.step = step] = Request(op, step, arg, old)
    BY ONLY <2>1 DEF Request
  <2>3. [Request(op, step, arg, old) EXCEPT !.mem = mem] = Request(op, step, arg, mem)
    BY ONLY DEF Request
  <2>4. handler[h].op = op /\ handler[h].arg = arg
    BY ONLY <2>1 DEF Request
  <2>. QED
    BY ONLY <2>2, <2>3, <2>4
<1>3. handler' = [handler EXCEPT ![h] = Request(handler[h].op, step, handler[h].arg, mem)]
  BY <1>1, <1>2
<1>. QED
  BY <1>3 DEF Moves, Shape, Request

LEMMA FaultMoves ==
    \A h \in Requests :
        Shape /\ Fault(h) => Moves(h, Request(handler[h].op, "done", "none", "nothing"))
BY DEF Fault, Answered, Moves, Shape, Request

\* The same without the state that it moves to.
LEMMA GoesOn ==
    ASSUME Shape, NEW h \in Requests, NEW step, NEW mem,
           Keep(h, step, mem) \/ (Goto(h, step) /\ mem = handler[h].mem)
    PROVE  \E s : /\ Moves(h, s) /\ s.op = handler[h].op /\ s.step = step
                  /\ s.arg = handler[h].arg /\ s.mem = mem
<1>1. PICK s : s = Request(handler[h].op, step, handler[h].arg, mem)
  OBVIOUS
<1>2. Moves(h, s)
  BY <1>1, KeepMoves, GotoMoves
<1>. QED
  BY <1>1, <1>2 DEF Request

LEMMA Ends ==
    ASSUME Shape, NEW h \in Requests, End(h) \/ Fault(h)
    PROVE  \E s : Moves(h, s) /\ s.op = handler[h].op /\ s.step = "done"
<1>1. PICK s : s = Request(handler[h].op, "done", "none", "nothing")
  OBVIOUS
<1>2. Moves(h, s)
  BY <1>1, EndMoves, FaultMoves
<1>. QED
  BY <1>1, <1>2 DEF Request

-----------------------------------------------------------------------------
(* Requests that wait for each other *)

OneAtWork == \A g, h \in Requests : Running(g) /\ Running(h) => g = h

LEMMA BooleanOr == ASSUME NEW a, NEW b, NEW c, c = (a \/ b), ~c PROVE ~a /\ ~b
BY Zenon

\* The request that moves is the only one at work before and after.
LEMMA MovesAlone ==
    ASSUME OneAtWork, Turns, ~overlapped', NEW h \in Requests, NEW s, Moves(h, s),
           Running(h) \/ s.step \notin {"idle", "done"}
    PROVE  /\ ~overlapped /\ OneAtWork'
           /\ \A g \in Requests \ {h} : ~Running(g) /\ ~Running(g)'
<1> DEFINE b == \E g, k \in Requests : g # k /\ Running(g)' /\ Running(k)'
<1>1. overlapped' = (overlapped \/ b)
  BY DEF Turns
<1> HIDE DEF b
<1>2. ~overlapped /\ ~b
  BY <1>1, BooleanOr
<1>3. \A g, k \in Requests : Running(g)' /\ Running(k)' => g = k
  BY <1>2 DEF b
<1>4. \A g \in Requests \ {h} : Running(g)' = Running(g)
  BY DEF Moves, Running
<1>5. Running(h) \/ Running(h)'
  BY DEF Moves, Running
<1>6. OneAtWork'
  BY <1>3 DEF OneAtWork
<1>. QED
  BY <1>2, <1>3, <1>4, <1>5, <1>6 DEF OneAtWork

\* What stands still, or only counts failures, leaves the requests as they were.
LEMMA TurnBefore ==
    ASSUME Turns \/ UNCHANGED overlapped, ~overlapped' PROVE ~overlapped
<1> DEFINE b == \E g, k \in Requests : g # k /\ Running(g)' /\ Running(k)'
<1>1. CASE Turns
  <2>1. overlapped' = (overlapped \/ b)
    BY <1>1 DEF Turns
  <2> HIDE DEF b
  <2>. QED
    BY <2>1, BooleanOr
<1>. QED
  BY <1>1

-----------------------------------------------------------------------------
(* Posting *)

\* A row of the table, and one in the memory of a request, which may be stale:
\* unless n updates have taken a date from it, it was dated when it was read, and
\* what the request changed kept it so.
Dated(row, n) == row \in JobRow /\ (n = 0 /\ row.status = "active" => row.posted)

Updates == {"updateJob", "updateJobStatus", "adminJobStatus"}
Posts == {"createJob", "updateJobStatus", "adminJobStatus"}

\* What a request at this point has been asked for and has read.
JobRequestOK(s, n) ==
    /\ s.step = "start" /\ s.op \in Posts => s.arg \in Statuses
    /\ s.step = "start" /\ s.op = "updateJob" => s.arg \in Changes
    /\ s.op = "recount" /\ s.step \in {"start", "close"} => s.arg \in {"paused", "closed"}
    /\ s.op \in {"saveJob", "unsaveJob"} /\ s.step # "done" => s.arg \in Readers
    /\ s.step \in {"save", "insert"} => Dated(s.mem, n)

\* The inductive invariant.
RowsInv ==
    /\ cleared \in Nat
    /\ job = NoJob \/ Dated(job, cleared)
    /\ Shape
    /\ \A h \in Requests : JobRequestOK(handler[h], cleared)

LEMMA DoneOK == \A op, n : JobRequestOK(Request(op, "done", "none", "nothing"), n)
BY DEF JobRequestOK, Request, Posts

\* It is enough to look at the request that moves.
LEMMA OneMoves ==
    ASSUME RowsInv, NEW h \in Requests, NEW s, cleared' \in {cleared, cleared + 1},
           JobRequestOK(s, cleared'), Moves(h, s), job' = NoJob \/ Dated(job', cleared')
    PROVE  RowsInv'
<1>1. cleared' \in Nat /\ (cleared' = 0 => cleared = 0)
  BY DEF RowsInv
<1>2. \A g \in Requests : JobRequestOK(handler[g], cleared')
  BY <1>1 DEF RowsInv, JobRequestOK, Dated
<1>. QED
  BY <1>1, <1>2 DEF RowsInv, Moves

LEMMA RowsInit == SInit /\ PostingInit => RowsInv
<1> SUFFICES ASSUME SInit, PostingInit PROVE RowsInv
  OBVIOUS
<1> DEFINE new == [status |-> "draft", posted |-> FALSE, views |-> 0, savers |-> {}]
<1>1. new \in JobRow
  BY DEF JobRow, Statuses
<1>2. Dated(new, cleared)
  BY <1>1 DEF Dated
<1>3. job = NoJob \/ Dated(job, cleared)
  BY <1>2 DEF PostingInit
<1>4. \A h \in Requests : JobRequestOK(handler[h], cleared)
  BY DEF SInit, Idle, JobRequestOK, Posts
<1>. QED
  BY <1>3, <1>4, ShapeInit DEF RowsInv, PostingInit

LEMMA JobRequestKeeps ==
    ASSUME RowsInv, NEW h \in Requests, PostingRequest(h)
    PROVE  RowsInv'
<1>1. \A op, arg : Ask(h, op, arg) => Moves(h, Request(op, "start", arg, "nothing"))
  BY AskMoves DEF RowsInv
<1>2. \E op, arg :
          /\ Ask(h, op, arg)
          /\ op \in Posts => arg \in Statuses
          /\ op = "updateJob" => arg \in Changes
          /\ op = "recount" => arg \in {"paused", "closed"}
          /\ op \in {"saveJob", "unsaveJob"} => arg \in Readers
  BY DEF PostingRequest, Posts
<1>3. PICK op, arg : /\ Ask(h, op, arg)
                     /\ JobRequestOK(Request(op, "start", arg, "nothing"), cleared)
  BY <1>2 DEF JobRequestOK, Request
<1>4. cleared' = cleared /\ (job' = NoJob \/ Dated(job', cleared))
  BY DEF PostingRequest, jvars, RowsInv
<1>. QED
  BY <1>1, <1>3, <1>4, OneMoves
LEMMA CreateKeeps ==
    ASSUME RowsInv, NEW h \in Requests, CreateJob(h)
    PROVE  RowsInv'
<1> DEFINE new == [status |-> Arg(h), posted |-> Arg(h) = "active", views |-> 0, savers |-> {}]
<1>1. Arg(h) \in Statuses
  BY DEF CreateJob, At, Arg, RowsInv, JobRequestOK, Posts
<1>2. new \in JobRow
  BY <1>1 DEF JobRow
<1>3. Dated(new, cleared)
  BY <1>2 DEF Dated
<1>4. job' = NoJob \/ Dated(job', cleared)
  BY <1>3 DEF CreateJob, RowsInv
<1>. QED
  BY <1>4, EndMoves, DoneOK, OneMoves DEF CreateJob, RowsInv

\* A request that ends, and leaves the row as good as it was.
LEMMA JobEndKeeps ==
    ASSUME RowsInv, NEW h \in Requests, End(h), UNCHANGED cleared, job' = NoJob \/ Dated(job', cleared)
    PROVE  RowsInv'
BY EndMoves, DoneOK, OneMoves DEF RowsInv

\* The row is not less dated for an update that takes its date elsewhere.
LEMMA JobStaysDated ==
    ASSUME RowsInv, UNCHANGED job, cleared' \in {cleared, cleared + 1}
    PROVE  job' = NoJob \/ Dated(job', cleared')
BY DEF RowsInv, Dated

\* A request that goes on with the row it keeps.
LEMMA JobKeepKeeps ==
    ASSUME RowsInv, NEW h \in Requests, NEW step \in {"save", "insert"}, NEW row, Dated(row, cleared'),
           cleared' \in {cleared, cleared + 1},
           handler[h].op \in {"saveJob", "unsaveJob"} => handler[h].arg \in Readers,
           Keep(h, step, row), UNCHANGED job
    PROVE  RowsInv'
<1>1. JobRequestOK(Request(handler[h].op, step, handler[h].arg, row), cleared')
  BY DEF JobRequestOK, Request
<1>2. Moves(h, Request(handler[h].op, step, handler[h].arg, row))
  BY KeepMoves DEF RowsInv
<1>. QED
  BY <1>1, <1>2, JobStaysDated, OneMoves

\* A request that goes on to a step where nothing it has read is used.
LEMMA JobGotoKeeps ==
    ASSUME RowsInv, NEW h \in Requests, handler[h].step \notin {"idle", "done"},
           NEW step \in {"interaction", "favorite", "read", "close"},
           step = "close" /\ handler[h].op = "recount" => handler[h].step = "start",
           Goto(h, step), UNCHANGED cleared, job' = NoJob \/ Dated(job', cleared)
    PROVE  RowsInv'
<1>1. JobRequestOK(Request(handler[h].op, step, handler[h].arg, handler[h].mem), cleared)
  BY DEF RowsInv, JobRequestOK, Request
<1>2. Moves(h, Request(handler[h].op, step, handler[h].arg, handler[h].mem))
  BY GotoMoves DEF RowsInv
<1>. QED
  BY <1>1, <1>2, OneMoves

LEMMA ReadKeeps ==
    ASSUME RowsInv, NEW h \in Requests, ReadJob(h)
    PROVE  RowsInv'
<1>1. /\ handler[h].op \in Updates /\ UNCHANGED job
      /\ handler[h].op = "updateJob" => Arg(h) \in Changes
      /\ handler[h].op # "updateJob" => Arg(h) \in Statuses
  BY DEF ReadJob, Updates, Posts, Arg, RowsInv, JobRequestOK
<1>2. CASE ~JobExists
  <2>1. End(h) /\ cleared' = cleared
    BY <1>2 DEF ReadJob, RowsInv
  <2>. QED
    BY <1>1, <2>1, JobEndKeeps DEF RowsInv
<1>3. CASE JobExists
  <2>1. job \in JobRow /\ Dated(job, cleared)
    BY <1>3 DEF JobExists, RowsInv, Dated
  <2>2. NewStatus(h, job) \in Statuses /\ KeepsDate(h, job) \in BOOLEAN
    BY <1>1, <2>1 DEF NewStatus, KeepsDate, Changes, JobRow
  <2>3. /\ Activated(h, job) \in JobRow
        /\ Activated(h, job).status = NewStatus(h, job)
        /\ Activated(h, job).posted <=> (KeepsDate(h, job) \/ Activates(h, job))
    BY <2>1, <2>2 DEF Activated, Activates, JobRow
  <2>4. cleared' = cleared + (IF Clears(h) THEN 1 ELSE 0)
    BY <1>3 DEF ReadJob
  <2>5. cleared' \in {cleared, cleared + 1}
    BY <2>4 DEF RowsInv
  <2>6. cleared' = 0 => cleared = 0 /\ ~Clears(h)
    BY <2>4 DEF RowsInv
  <2>7. ~Clears(h) => (job.posted => KeepsDate(h, job))
    BY <1>1 DEF Clears, KeepsDate, Changes
  <2>8. Dated(Activated(h, job), cleared')
    BY <2>1, <2>3, <2>6, <2>7 DEF Dated, Activates
  <2>9. Keep(h, "save", Activated(h, job))
    BY <1>3 DEF ReadJob
  <2>. QED
    BY <1>1, <2>5, <2>8, <2>9, JobKeepKeeps DEF Updates
<1>. QED
  BY <1>2, <1>3

LEMMA SaveKeeps ==
    ASSUME RowsInv, NEW h \in Requests, SaveJobRow(h)
    PROVE  RowsInv'
<1>1. Dated(job', cleared)
  BY DEF SaveJobRow, Mem, RowsInv, JobRequestOK
<1>2. CASE handler[h].op = "saveJob"
  BY <1>1, <1>2, JobGotoKeeps DEF SaveJobRow
<1>3. CASE handler[h].op # "saveJob"
  BY <1>1, <1>3, JobEndKeeps DEF SaveJobRow
<1>. QED
  BY <1>2, <1>3

LEMMA RecountKeeps ==
    ASSUME RowsInv, NEW h \in Requests, RecountReads(h) \/ RecountSets(h)
    PROVE  RowsInv'
<1>1. CASE RecountReads(h)
  <2>1. End(h) \/ Goto(h, "close")
    BY <1>1 DEF RecountReads, Check
  <2>2. UNCHANGED <<job, cleared>> /\ handler[h].step = "start"
    BY <1>1 DEF RecountReads, jvars, At
  <2>3. job' = NoJob \/ Dated(job', cleared)
    BY <2>2 DEF RowsInv
  <2>. QED
    BY <2>1, <2>2, <2>3, JobEndKeeps, JobGotoKeeps
<1>2. CASE RecountSets(h)
  <2>1. Arg(h) \in {"paused", "closed"}
    BY <1>2 DEF RecountSets, At, Arg, RowsInv, JobRequestOK
  <2>2. job' = NoJob \/ Dated(job', cleared)
    BY <1>2, <2>1 DEF RecountSets, JobExists, RowsInv, Dated, JobRow, Statuses
  <2>. QED
    BY <1>2, <2>2, JobEndKeeps DEF RecountSets
<1>. QED
  BY <1>1, <1>2

LEMMA SaveJobKeeps ==
    ASSUME RowsInv, NEW h \in Requests, SaveReads(h) \/ InsertSaved(h)
    PROVE  RowsInv'
<1>0. Arg(h) \in Readers /\ UNCHANGED <<job, cleared>>
  BY DEF SaveReads, InsertSaved, At, Arg, jvars, RowsInv, JobRequestOK
<1>3. cleared' \in {cleared, cleared + 1} /\ (job' = NoJob \/ Dated(job', cleared))
  BY <1>0 DEF RowsInv
<1>1. CASE SaveReads(h)
  <2>1. End(h) \/ (Dated(job, cleared') /\ Keep(h, "insert", job))
    BY <1>0, <1>1 DEF SaveReads, JobExists, RowsInv
  <2>. QED
    BY <1>0, <1>3, <2>1, JobEndKeeps, JobKeepKeeps DEF Arg
<1>2. CASE InsertSaved(h)
  <2> DEFINE row == [Mem(h) EXCEPT !.savers = @ \cup {Arg(h)}]
  <2>1. Dated(Mem(h), cleared)
    BY <1>2 DEF InsertSaved, At, Mem, RowsInv, JobRequestOK
  <2>2. Dated(row, cleared')
    BY <1>0, <2>1 DEF Dated, JobRow
  <2>3. End(h) \/ Goto(h, "interaction") \/ Keep(h, "save", row)
    BY <1>2 DEF InsertSaved
  <2>4. handler[h].step \notin {"idle", "done"}
    BY <1>2 DEF InsertSaved, At
  <2>. QED
    BY <1>0, <1>3, <2>2, <2>3, <2>4, JobEndKeeps, JobGotoKeeps, JobKeepKeeps DEF Arg
<1>. QED
  BY <1>1, <1>2

LEMMA UnsaveKeeps ==
    ASSUME RowsInv, NEW h \in Requests, DeleteSaved(h) \/ UnsaveReads(h)
    PROVE  RowsInv'
<1>1. CASE DeleteSaved(h)
  <2>1. End(h) \/ Goto(h, "read")
    BY <1>1 DEF DeleteSaved, Check
  <2>2. UNCHANGED <<job, cleared>> /\ handler[h].step \notin {"idle", "done"}
    BY <1>1 DEF DeleteSaved, At
  <2>3. job' = NoJob \/ Dated(job', cleared)
    BY <2>2 DEF RowsInv
  <2>. QED
    BY <2>1, <2>2, <2>3, JobEndKeeps, JobGotoKeeps
<1>2. CASE UnsaveReads(h)
  <2> DEFINE row == [job EXCEPT !.savers = @ \ {Arg(h)}]
  <2>1. UNCHANGED <<job, cleared>> /\ Arg(h) \in Readers
    BY <1>2 DEF UnsaveReads, jvars, At, Arg, RowsInv, JobRequestOK
  <2>2. CASE ~JobExists
    BY <1>2, <2>1, <2>2, JobEndKeeps DEF UnsaveReads, RowsInv
  <2>3. CASE JobExists
    <3>1. Dated(row, cleared') /\ cleared' \in {cleared, cleared + 1}
      BY <2>1, <2>3 DEF JobExists, RowsInv, Dated, JobRow
    <3>2. Keep(h, "save", row)
      BY <1>2, <2>3 DEF UnsaveReads
    <3>. QED
      BY <2>1, <3>1, <3>2, JobKeepKeeps DEF Arg
  <2>. QED
    BY <2>2, <2>3
<1>. QED
  BY <1>1, <1>2

\* Interactions and favourites leave the row alone.
LEMMA OthersKeep ==
    ASSUME RowsInv, NEW h \in Requests,
           \/ InsertInteraction(h) \/ FavoriteReads(h)
           \/ InsertFavorite(h) \/ DeleteFavorite(h)
    PROVE  RowsInv'
<1>1. UNCHANGED <<job, cleared>> /\ handler[h].step \notin {"idle", "done"}
  BY DEF InsertInteraction, FavoriteReads, InsertFavorite, DeleteFavorite, jvars, At
<1>3. job' = NoJob \/ Dated(job', cleared)
  BY <1>1 DEF RowsInv
<1>2. End(h) \/ Goto(h, "interaction") \/ Goto(h, "favorite")
  BY DEF InsertInteraction, FavoriteReads, InsertFavorite, DeleteFavorite, Check
<1>. QED
  BY <1>1, <1>2, <1>3, JobEndKeeps, JobGotoKeeps

LEMMA ViewKeeps ==
    ASSUME RowsInv, NEW h \in Requests, ViewJob(h) \/ RemoveJobRow(h)
    PROVE  RowsInv'
<1>1. job' = NoJob \/ Dated(job', cleared)
  BY DEF ViewJob, RemoveJobRow, JobExists, RowsInv, Dated, JobRow
<1>. QED
  BY <1>1, JobEndKeeps DEF ViewJob, RemoveJobRow

LEMMA JobStepKeeps == RowsInv /\ [PostingNext]_<<svars, jvars>> => RowsInv'
<1> SUFFICES ASSUME RowsInv, [PostingNext]_<<svars, jvars>> PROVE RowsInv'
  OBVIOUS
<1>1. CASE UNCHANGED <<svars, jvars>>
  BY <1>1 DEF svars, jvars, RowsInv, Shape
<1>2. ASSUME NEW h \in Requests, PostingRequest(h) PROVE RowsInv'
  BY <1>2, JobRequestKeeps
<1>3. ASSUME NEW h \in Requests, PostingStep(h) PROVE RowsInv'
  BY <1>3, CreateKeeps, ReadKeeps, SaveKeeps, RecountKeeps, SaveJobKeeps, UnsaveKeeps,
     OthersKeep, ViewKeeps DEF PostingStep
<1>4. ASSUME NEW h \in Requests, Fault(h), UNCHANGED jvars PROVE RowsInv'
  BY <1>4, FaultMoves, DoneOK, OneMoves DEF jvars, RowsInv
<1>. QED
  BY <1>1, <1>2, <1>3, <1>4 DEF PostingNext

\* Whatever stale rows updateJob, updateJobStatus, the back office, saveJob and
\* unsaveJob save over each other, and whichever of their queries fail, an active
\* job has a date of posting, unless an update said that it has none.
THEOREM JobsStayDated == PostingSpec => []ActiveIsPosted
<1>1. RowsInv => ActiveIsPosted
  BY DEF RowsInv, Dated, ActiveIsPosted, JobExists
<1>. QED
  BY <1>1, RowsInit, JobStepKeeps, PTL DEF PostingSpec

-----------------------------------------------------------------------------
(* Posting, in turn *)

Savers == IF JobExists THEN job.savers ELSE {}

\* At most as many announcements as dates, the last of which the row has or not.
Bounded == announced \in Nat /\ cleared \in Nat /\ announced <= cleared + 1
Due(posted) == announced <= cleared + (IF posted THEN 1 ELSE 0)

\* What the tables and a request at work, h, make of a job together: when h has
\* saved the row, the savers are those of saved_jobs, and the announcements are
\* those of its dates, the one it has and those that updates took.
JobWaits(h) ==
    /\ handler[h].step \in {"insert", "save"} => JobExists
    /\ handler[h].step = "insert" => Mem(h) = job
    /\ saved = IF handler[h].step = "save" THEN Mem(h).savers
               ELSE IF At(h, "unsaveJob", "read") THEN Savers \ {Arg(h)}
               ELSE Savers
    /\ JobExists => Due(IF handler[h].step = "save" THEN Mem(h).posted ELSE job.posted)

JobRests == saved = Savers /\ (JobExists => Due(job.posted))

\* The inductive invariant.
JobTurnInv ==
    /\ faults \in Nat
    /\ Undisturbed =>
        /\ OneAtWork
        /\ Bounded
        /\ \A h \in Requests : Running(h) => JobWaits(h)
        /\ Quiet => JobRests

LEMMA JobTurnMoves ==
    ASSUME RowsInv, JobTurnInv, Turns, ~overlapped', Undisturbed, faults' \in Nat,
           NEW h \in Requests, NEW s, Moves(h, s), Running(h) \/ s.step \notin {"idle", "done"},
           Bounded',
           IF s.step \in {"idle", "done"} THEN JobRests' ELSE JobWaits(h)'
    PROVE  JobTurnInv'
<1>1. OneAtWork' /\ \A g \in Requests \ {h} : ~Running(g)'
  BY MovesAlone DEF JobTurnInv
<1>2. Running(h)' = (s.step \notin {"idle", "done"})
  BY DEF Running, Moves
<1>. QED
  BY <1>1, <1>2 DEF JobTurnInv, Quiet

\* What a request finds that is at work, or begins when nobody is.
LEMMA JobFound ==
    ASSUME RowsInv, JobTurnInv, Turns, ~overlapped', Undisturbed,
           NEW h \in Requests, NEW s, Moves(h, s), Running(h) \/ s.step \notin {"idle", "done"}
    PROVE  Bounded /\ JobWaits(h)
<1>1. \A g \in Requests \ {h} : ~Running(g)
  BY MovesAlone DEF JobTurnInv
<1>2. CASE ~Running(h)
  <2>1. Quiet /\ handler[h].step \in {"idle", "done"}
    BY <1>1, <1>2 DEF Quiet, Running
  <2>. QED
    BY <2>1 DEF JobTurnInv, JobRests, JobWaits, At, Due
<1>. QED
  BY <1>2 DEF JobTurnInv

LEMMA KeepIs ==
    ASSUME RowsInv, NEW h \in Requests, NEW step, NEW mem, Keep(h, step, mem)
    PROVE  handler'[h].step = step /\ handler'[h].mem = mem
<1>1. Moves(h, Request(handler[h].op, step, handler[h].arg, mem))
  BY KeepMoves DEF RowsInv
<1>. QED
  BY <1>1 DEF Moves, Request

LEMMA GotoIs ==
    ASSUME RowsInv, NEW h \in Requests, NEW step, Goto(h, step)
    PROVE  handler'[h].step = step
<1>1. Moves(h, Request(handler[h].op, step, handler[h].arg, handler[h].mem))
  BY GotoMoves DEF RowsInv
<1>. QED
  BY <1>1 DEF Moves, Request

\* A step by h alone, among requests that waited for each other, without a failure.
JobTurn == RowsInv /\ JobTurnInv /\ Turns /\ ~overlapped' /\ Undisturbed /\ UNCHANGED faults

LEMMA AskInTurn ==
    ASSUME JobTurn, NEW h \in Requests, PostingRequest(h)
    PROVE  JobTurnInv'
<1>1. PICK op, arg : Ask(h, op, arg)
  BY DEF PostingRequest
<1> DEFINE s == Request(op, "start", arg, "nothing")
<1>2. Moves(h, s) /\ handler[h].step = "idle"
  BY <1>1, AskMoves DEF JobTurn, RowsInv
<1>3. s.step = "start" /\ UNCHANGED jvars
  BY DEF Request, PostingRequest
<1> HIDE DEF s
<1>4. Bounded /\ JobWaits(h)
  BY <1>2, <1>3, JobFound DEF JobTurn
<1>5. JobWaits(h)'
  BY <1>2, <1>3, <1>4 DEF JobWaits, Moves, jvars, Savers, JobExists, At, Due
<1>. QED
  BY <1>2, <1>3, <1>4, <1>5, JobTurnMoves DEF JobTurn, JobTurnInv, Bounded, jvars

\* A request that ends and leaves lists and date as they should be.
LEMMA EndInTurn ==
    ASSUME JobTurn, NEW h \in Requests, Running(h), End(h), Bounded', JobRests'
    PROVE  JobTurnInv'
<1> DEFINE s == Request(handler[h].op, "done", "none", "nothing")
<1>1. Moves(h, s) /\ s.step = "done"
  BY EndMoves DEF JobTurn, RowsInv, Request
<1> HIDE DEF s
<1>. QED
  BY <1>1, JobTurnMoves DEF JobTurn, JobTurnInv

\* A request that goes on with what it has read.
LEMMA KeepInTurn ==
    ASSUME JobTurn, NEW h \in Requests, Running(h), NEW step, NEW mem, step \notin {"idle", "done"},
           Keep(h, step, mem), Bounded', JobWaits(h)'
    PROVE  JobTurnInv'
<1> DEFINE s == Request(handler[h].op, step, handler[h].arg, mem)
<1>1. Moves(h, s) /\ s.step = step
  BY KeepMoves DEF JobTurn, RowsInv, Request
<1> HIDE DEF s
<1>. QED
  BY <1>1, JobTurnMoves DEF JobTurn, JobTurnInv

LEMMA GotoInTurn ==
    ASSUME JobTurn, NEW h \in Requests, Running(h), NEW step, step \notin {"idle", "done"},
           Goto(h, step), Bounded', JobWaits(h)'
    PROVE  JobTurnInv'
<1> DEFINE s == Request(handler[h].op, step, handler[h].arg, handler[h].mem)
<1>1. Moves(h, s) /\ s.step = step
  BY GotoMoves DEF JobTurn, RowsInv, Request
<1> HIDE DEF s
<1>. QED
  BY <1>1, JobTurnMoves DEF JobTurn, JobTurnInv

\* What a request that is at work has found.
LEMMA WorkFound ==
    ASSUME JobTurn, NEW h \in Requests, Running(h)
    PROVE  /\ Bounded /\ JobWaits(h)
           /\ JobExists => Dated(job, cleared)
           /\ handler[h].step \in {"save", "insert"} => Dated(Mem(h), cleared) /\ Mem(h) # NoJob
<1>1. NoJob \notin JobRow
  BY PostingAssumption
<1>. QED
  BY <1>1 DEF JobTurn, JobTurnInv, RowsInv, JobRequestOK, Dated, Mem, JobExists

LEMMA CreateInTurn ==
    ASSUME JobTurn, NEW h \in Requests, CreateJob(h)
    PROVE  JobTurnInv'
<1>1. Running(h)
  BY DEF CreateJob, At, Running
<1>2. Bounded /\ JobWaits(h)
  BY <1>1, WorkFound
<1>3. CASE JobExists
  <2>1. JobRests'
    BY <1>2, <1>3 DEF CreateJob, JobWaits, JobRests, At, Savers, JobExists, Due
  <2>. QED
    BY <1>1, <1>2, <1>3, <2>1, EndInTurn DEF CreateJob, Bounded
<1>4. CASE ~JobExists
  <2> DEFINE new == [status |-> Arg(h), posted |-> Arg(h) = "active", views |-> 0, savers |-> {}]
  <2>1. job' = new /\ announced' = (IF Arg(h) = "active" THEN 1 ELSE 0) /\ saved' = saved /\ End(h)
    BY <1>4 DEF CreateJob
  <2>2. saved = {}
    BY <1>2, <1>4 DEF CreateJob, JobWaits, At, Savers, Due
  <2>3. new.savers = {} /\ (new.posted <=> Arg(h) = "active")
    OBVIOUS
  <2> HIDE DEF new
  <2>4. job'.savers = {} /\ (job'.posted <=> Arg(h) = "active") /\ UNCHANGED cleared
    BY <2>1, <2>3 DEF CreateJob
  <2>5. Bounded' /\ announced' <= cleared' + (IF job'.posted THEN 1 ELSE 0)
    BY <1>2, <2>1, <2>4 DEF Bounded
  <2>6. JobRests'
    BY <2>1, <2>2, <2>4, <2>5 DEF JobRests, Savers, Due
  <2>. QED
    BY <1>1, <2>1, <2>5, <2>6, EndInTurn DEF Bounded
<1>. QED
  BY <1>3, <1>4

\* An announcement is made of a row that had no date and will have one, unless an
\* update takes it, which is counted.
LEMMA ReadInTurn ==
    ASSUME JobTurn, NEW h \in Requests, ReadJob(h)
    PROVE  JobTurnInv'
<1>1. Running(h)
  BY DEF ReadJob, Running
<1>2. Bounded /\ JobWaits(h) /\ (JobExists => Dated(job, cleared))
  BY <1>1, WorkFound
<1>3. handler[h].step = "start" /\ UNCHANGED <<job, saved>>
  BY DEF ReadJob
<1>4. saved = Savers /\ (JobExists => Due(job.posted))
  BY <1>2, <1>3 DEF JobWaits, At, Due
<1>5. CASE ~JobExists
  <2>1. End(h) /\ announced' = announced /\ cleared' = cleared
    BY <1>2, <1>5 DEF ReadJob, Bounded
  <2>2. JobRests'
    BY <1>3, <1>4, <2>1 DEF JobRests, Savers, JobExists, Due
  <2>. QED
    BY <1>1, <1>2, <2>1, <2>2, EndInTurn DEF Bounded
<1>6. CASE JobExists
  <2> DEFINE row == Activated(h, job)
  <2>1. Keep(h, "save", row)
    BY <1>6 DEF ReadJob
  <2>2. row.savers = job.savers /\ (row.posted <=> (KeepsDate(h, job) \/ Activates(h, job)))
    BY <1>2, <1>6 DEF Dated, JobRow, Activated
  <2>3. \/ announced' = announced
        \/ /\ Activates(h, job) /\ ~job.posted /\ ~Clears(h)
           /\ announced' = announced + 1
    BY <1>2, <1>6 DEF ReadJob, AnnouncesNow, Clears, Bounded
  <2>4. cleared' = cleared + (IF Clears(h) THEN 1 ELSE 0)
    BY <1>6 DEF ReadJob
  <2>5. ~Clears(h) => (job.posted => KeepsDate(h, job))
    <3>1. handler[h].op = "updateJob" => Arg(h) \in Changes
      BY <1>3 DEF JobTurn, RowsInv, JobRequestOK, Posts, Updates, Arg
    <3>. QED
      BY <3>1 DEF Clears, KeepsDate, Changes
  <2> HIDE DEF row
  <2>7. /\ ~Clears(h) => (job.posted => row.posted)
        /\ Activates(h, job) => row.posted
    BY <2>2, <2>5
  <2>8. Bounded' /\ announced' <= cleared' + (IF row.posted THEN 1 ELSE 0)
    <3>1. announced <= cleared + (IF job.posted THEN 1 ELSE 0)
      BY <1>4, <1>6 DEF Due
    <3>2. CASE Clears(h)
      BY <1>2, <2>3, <2>4, <3>2 DEF Bounded
    <3>3. CASE ~Clears(h) /\ announced' = announced
      BY <1>2, <2>4, <2>7, <3>1, <3>3 DEF Bounded
    <3>4. CASE ~Clears(h) /\ Activates(h, job) /\ ~job.posted /\ announced' = announced + 1
      BY <1>2, <2>4, <2>7, <3>1, <3>4 DEF Bounded
    <3>. QED
      BY <2>3, <3>2, <3>3, <3>4
  <2>6. handler'[h].step = "save" /\ handler'[h].mem = row
    BY <2>1, KeepIs DEF JobTurn
  <2>9. JobWaits(h)'
    BY <1>3, <1>4, <1>6, <2>2, <2>6, <2>8 DEF JobWaits, At, Savers, JobExists, Mem, Due
  <2>. QED
    BY <1>1, <2>1, <2>8, <2>9, KeepInTurn DEF Bounded
<1>. QED
  BY <1>5, <1>6

LEMMA SaveInTurn ==
    ASSUME JobTurn, NEW h \in Requests, SaveJobRow(h)
    PROVE  JobTurnInv'
<1>1. Running(h) /\ handler[h].step = "save" /\ job' = Mem(h) /\ UNCHANGED <<saved, announced, cleared>>
  BY DEF SaveJobRow, Running
<1>2. Bounded /\ JobWaits(h) /\ Mem(h) # NoJob
  BY <1>1, WorkFound
<1>3. JobExists' /\ saved' = Savers'
  BY <1>1, <1>2 DEF JobWaits, Savers, JobExists, Due
<1>4. JobRests'
  BY <1>1, <1>2, <1>3 DEF JobWaits, JobRests, JobExists, Due
<1>5. CASE End(h)
  BY <1>1, <1>2, <1>4, <1>5, EndInTurn DEF Bounded
<1>6. CASE Goto(h, "interaction")
  <2>1. handler'[h].step = "interaction"
    BY <1>6, GotoIs DEF JobTurn
  <2>2. JobWaits(h)'
    BY <1>4, <2>1 DEF JobWaits, JobRests, At, Due
  <2>. QED
    BY <1>1, <1>2, <1>6, <2>2, GotoInTurn DEF Bounded
<1>. QED
  BY <1>5, <1>6 DEF SaveJobRow

\* Steps that write nothing of the job, and end or go on to one of these steps.
LEMMA PassInTurn ==
    ASSUME JobTurn, NEW h \in Requests, Running(h), UNCHANGED <<job, saved, announced, cleared>>,
           handler[h].step \notin {"save", "read"},
           \/ End(h) \/ \E step \in {"interaction", "favorite", "close"} : Goto(h, step)
    PROVE  JobTurnInv'
<1>1. Bounded /\ JobWaits(h)
  BY WorkFound
<1>2. JobRests /\ JobRests'
  BY <1>1 DEF JobWaits, JobRests, At, Savers, JobExists, Due
<1>3. ASSUME NEW step \in {"interaction", "favorite", "close"}, Goto(h, step) PROVE JobTurnInv'
  <2>1. handler'[h].step = step
    BY <1>3, GotoIs DEF JobTurn
  <2>2. JobWaits(h)'
    BY <1>2, <2>1 DEF JobWaits, JobRests, At, Due
  <2>. QED
    BY <1>1, <1>3, <2>2, GotoInTurn DEF Bounded
<1>. QED
  BY <1>1, <1>2, <1>3, EndInTurn DEF Bounded

\* A count or a status of the row, or the row of a job that nobody has saved.
LEMMA RecountInTurn ==
    ASSUME JobTurn, NEW h \in Requests, RecountSets(h) \/ ViewJob(h) \/ RemoveJobRow(h)
    PROVE  JobTurnInv'
<1>1. /\ Running(h) /\ End(h) /\ UNCHANGED <<saved, announced, cleared>>
      /\ handler[h].step \in {"start", "close"}
  BY DEF RecountSets, ViewJob, RemoveJobRow, At, Running
<1>2. Bounded /\ JobWaits(h) /\ (JobExists => Dated(job, cleared))
  BY <1>1, WorkFound
<1>3. saved = Savers /\ (JobExists => Due(job.posted))
  BY <1>1, <1>2 DEF JobWaits, At, Due
<1>4. CASE job' = job
  BY <1>1, <1>2, <1>3, <1>4, EndInTurn DEF JobRests, Savers, JobExists, Due, Bounded
<1>5. CASE RecountSets(h) /\ JobExists
  <2>1. job' = [job EXCEPT !.status = Arg(h)]
    BY <1>5 DEF RecountSets
  <2>2. job'.savers = job.savers /\ job'.posted = job.posted
    BY <1>2, <1>5, <2>1 DEF Dated, JobRow
  <2>3. job' # NoJob
    <3>2. Arg(h) \in Statuses
      BY <1>5 DEF RecountSets, At, Arg, JobTurn, RowsInv, JobRequestOK, Statuses
    <3>3. job' \in JobRow
      BY <1>2, <1>5, <2>1, <3>2 DEF Dated, JobRow
    <3>. QED
      BY <3>3, PostingAssumption
  <2>4. JobRests'
    BY <1>1, <1>3, <1>5, <2>2, <2>3 DEF JobRests, Savers, JobExists, Due
  <2>. QED
    BY <1>1, <1>2, <2>4, EndInTurn DEF Bounded
<1>6. CASE ViewJob(h) /\ JobExists
  <2>1. job' = [job EXCEPT !.views = @ + 1]
    BY <1>6 DEF ViewJob
  <2>2. job'.savers = job.savers /\ job'.posted = job.posted
    BY <1>2, <1>6, <2>1 DEF Dated, JobRow
  <2>3. job' \in JobRow
    BY <1>2, <1>6, <2>1 DEF Dated, JobRow
  <2>4. JobRests'
    BY <1>1, <1>3, <1>6, <2>2, <2>3, PostingAssumption DEF JobRests, Savers, JobExists, Due
  <2>. QED
    BY <1>1, <1>2, <2>4, EndInTurn DEF Bounded
<1>7. CASE RemoveJobRow(h) /\ saved = {} /\ job' = NoJob
  <2>1. JobRests'
    BY <1>1, <1>7 DEF JobRests, Savers, JobExists, Due
  <2>. QED
    BY <1>1, <1>2, <2>1, EndInTurn DEF Bounded
<1>8. RemoveJobRow(h) => job' = job \/ (saved = {} /\ job' = NoJob)
  BY DEF RemoveJobRow
<1>9. RecountSets(h) \/ ViewJob(h) => job' = job \/ JobExists
  BY DEF RecountSets, ViewJob
<1>. QED
  BY <1>4, <1>5, <1>6, <1>7, <1>8, <1>9

LEMMA InsertInTurn ==
    ASSUME JobTurn, NEW h \in Requests, SaveReads(h) \/ InsertSaved(h)
    PROVE  JobTurnInv'
<1>1. Running(h) /\ UNCHANGED <<job, announced, cleared>> /\ handler[h].op = "saveJob"
  BY DEF SaveReads, InsertSaved, At, Running, jvars
<1>2. /\ Bounded /\ JobWaits(h) /\ (JobExists => Dated(job, cleared))
      /\ handler[h].step = "insert" => Dated(Mem(h), cleared)
  BY <1>1, WorkFound
<1>3. saved = Savers /\ (JobExists => Due(job.posted))
  BY <1>1, <1>2 DEF SaveReads, InsertSaved, JobWaits, At, Due
<1>4. CASE SaveReads(h)
  <2>1. CASE End(h)
    BY <1>1, <1>4, <2>1, PassInTurn DEF SaveReads, At, jvars, Bounded
  <2>2. CASE JobExists /\ Keep(h, "insert", job)
    <3>1. handler'[h].step = "insert" /\ handler'[h].mem = job
      BY <2>2, KeepIs DEF JobTurn
    <3>2. JobWaits(h)'
      BY <1>1, <1>3, <1>4, <2>2, <3>1 DEF JobWaits, SaveReads, jvars, At, Savers, JobExists, Mem, Due
    <3>. QED
      BY <1>1, <1>2, <2>2, <3>2, KeepInTurn DEF Bounded
  <2>. QED
    BY <1>4, <2>1, <2>2 DEF SaveReads
<1>5. CASE InsertSaved(h)
  <2> DEFINE row == [Mem(h) EXCEPT !.savers = @ \cup {Arg(h)}]
  <2>1. JobExists /\ Mem(h) = job /\ Dated(job, cleared)
    BY <1>2, <1>5 DEF InsertSaved, At, JobWaits, Due
  <2>2. CASE Arg(h) \in saved
    BY <1>1, <1>5, <2>2, PassInTurn DEF InsertSaved, At, Bounded
  <2>3. CASE Arg(h) \notin saved
    <3>1. saved' = saved \cup {Arg(h)} /\ Arg(h) \notin Mem(h).savers
      BY <1>3, <1>5, <2>1, <2>3 DEF InsertSaved, Savers
    <3>2. Keep(h, "save", row)
      BY <1>5, <2>1, <2>3, <3>1 DEF InsertSaved
    <3>3. row.savers = job.savers \cup {Arg(h)} /\ row.posted = job.posted
      BY <2>1 DEF Dated, JobRow
    <3> HIDE DEF row
    <3>4. handler'[h].step = "save" /\ handler'[h].mem = row
      BY <3>2, KeepIs DEF JobTurn
    <3>5. JobWaits(h)'
      BY <1>1, <1>3, <2>1, <3>1, <3>3, <3>4 DEF JobWaits, At, Savers, JobExists, Mem, Due
    <3>. QED
      BY <1>1, <1>2, <3>2, <3>5, KeepInTurn DEF Bounded
  <2>. QED
    BY <2>2, <2>3
<1>. QED
  BY <1>4, <1>5

LEMMA UnsaveInTurn ==
    ASSUME JobTurn, NEW h \in Requests, DeleteSaved(h) \/ UnsaveReads(h)
    PROVE  JobTurnInv'
<1>1. Running(h) /\ UNCHANGED <<job, announced, cleared>> /\ handler[h].op = "unsaveJob"
  BY DEF DeleteSaved, UnsaveReads, At, Running, jvars
<1>2. Bounded /\ JobWaits(h) /\ (JobExists => Dated(job, cleared))
  BY <1>1, WorkFound
<1>3. CASE DeleteSaved(h)
  <2>1. saved = Savers /\ (JobExists => Due(job.posted)) /\ saved' = saved \ {Arg(h)}
    BY <1>2, <1>3 DEF DeleteSaved, JobWaits, At, Due
  <2>2. CASE Arg(h) \notin saved
    <3>1. End(h) /\ saved' = saved
      BY <1>3, <2>1, <2>2 DEF DeleteSaved, Check
    <3>. QED
      BY <1>1, <1>3, <3>1, PassInTurn DEF DeleteSaved, At, Bounded
  <2>3. CASE Arg(h) \in saved
    <3>1. Goto(h, "read")
      BY <1>3, <2>3 DEF DeleteSaved, Check
    <3>2. handler'[h] = Request("unsaveJob", "read", handler[h].arg, handler[h].mem)
      BY <1>1, <3>1, GotoMoves DEF JobTurn, RowsInv, Moves
    <3>3. At(h, "unsaveJob", "read")' /\ Arg(h)' = Arg(h) /\ handler'[h].step = "read"
      BY <3>2 DEF At, Arg, Request
    <3>4. JobWaits(h)'
      BY <1>1, <2>1, <3>3 DEF JobWaits, Savers, JobExists, Due
    <3>. QED
      BY <1>1, <1>2, <3>1, <3>4, GotoInTurn DEF Bounded
  <2>. QED
    BY <2>2, <2>3
<1>4. CASE UnsaveReads(h)
  <2>1. /\ saved = Savers \ {Arg(h)} /\ (JobExists => Due(job.posted))
        /\ saved' = saved
    BY <1>2, <1>4 DEF UnsaveReads, JobWaits, At, jvars, Due
  <2>2. CASE ~JobExists
    <3>1. End(h) /\ saved' = {}
      BY <1>4, <2>1, <2>2 DEF UnsaveReads, Savers
    <3>2. JobRests'
      BY <1>1, <2>2, <3>1 DEF JobRests, Savers, JobExists, Due
    <3>. QED
      BY <1>1, <1>2, <3>1, <3>2, EndInTurn DEF Bounded
  <2>3. CASE JobExists
    <3> DEFINE row == [job EXCEPT !.savers = @ \ {Arg(h)}]
    <3>1. Keep(h, "save", row)
      BY <1>4, <2>3 DEF UnsaveReads
    <3>2. row.savers = job.savers \ {Arg(h)} /\ row.posted = job.posted
      BY <1>2, <2>3 DEF Dated, JobRow
    <3> HIDE DEF row
    <3>3. handler'[h].step = "save" /\ handler'[h].mem = row
      BY <3>1, KeepIs DEF JobTurn
    <3>4. JobWaits(h)'
      BY <1>1, <2>1, <2>3, <3>2, <3>3 DEF JobWaits, At, Savers, JobExists, Mem, Due
    <3>. QED
      BY <1>1, <1>2, <3>1, <3>4, KeepInTurn DEF Bounded
  <2>. QED
    BY <2>2, <2>3
<1>. QED
  BY <1>3, <1>4

LEMMA JobTurnInit == SInit /\ PostingInit => JobTurnInv
<1> SUFFICES ASSUME SInit, PostingInit PROVE JobTurnInv
  OBVIOUS
<1>1. \A h \in Requests : ~Running(h)
  BY DEF SInit, Idle, Running
<1>2. saved = Savers /\ announced = 0 /\ cleared = 0
  BY DEF PostingInit, Savers, JobExists
<1>3. Bounded /\ Due(job.posted)
  BY <1>2 DEF Bounded, Due
<1>. QED
  BY <1>1, <1>2, <1>3 DEF JobTurnInv, OneAtWork, JobRests, SInit, Due

LEMMA JobTurnNext ==
    RowsInv /\ JobTurnInv /\ [PostingNext /\ Turns]_<<svars, jvars, overlapped>> => JobTurnInv'
<1> SUFFICES ASSUME RowsInv, JobTurnInv, [PostingNext /\ Turns]_<<svars, jvars, overlapped>>
             PROVE  JobTurnInv'
  OBVIOUS
<1>1. CASE UNCHANGED <<svars, jvars, overlapped>>
  BY <1>1 DEF svars, jvars, JobTurnInv, Undisturbed, OneAtWork, Quiet, Running, JobRests, JobWaits,
              Savers, JobExists, Mem, Arg, At, Due, Bounded
<1>2. ASSUME NEW h \in Requests, Fault(h) PROVE JobTurnInv'
  BY <1>2 DEF Fault, JobTurnInv, Undisturbed
<1>3. ASSUME NEW h \in Requests, PostingRequest(h) \/ PostingStep(h), Turns PROVE JobTurnInv'
  <2>1. UNCHANGED faults
    BY <1>3 DEF PostingRequest, PostingStep, Ask, End, Goto, Keep, Check, CreateJob, ReadJob, SaveJobRow,
                RecountReads, RecountSets, RemoveJobRow, ViewJob, SaveReads, InsertSaved,
                InsertInteraction, DeleteSaved, UnsaveReads, FavoriteReads, InsertFavorite,
                DeleteFavorite
  <2>2. CASE ~Undisturbed'
    BY <2>1, <2>2 DEF JobTurnInv
  <2>3. CASE Undisturbed'
    <3>1. JobTurn
      <4>1. ~overlapped' /\ faults = 0
        BY <2>1, <2>3 DEF Undisturbed
      <4>2. ~overlapped
        BY <1>3, <4>1, TurnBefore
      <4>. QED
        BY <1>3, <2>1, <4>1, <4>2 DEF JobTurn, Undisturbed
    <3>2. CASE PostingRequest(h)
      BY <3>1, <3>2, AskInTurn
    <3>3. ASSUME \/ RecountReads(h) \/ InsertInteraction(h) \/ FavoriteReads(h)
                 \/ InsertFavorite(h) \/ DeleteFavorite(h)
          PROVE  JobTurnInv'
      <4>1. Running(h) /\ handler[h].step \notin {"save", "read"} /\ UNCHANGED <<job, saved, announced, cleared>>
        BY <3>3 DEF RecountReads, InsertInteraction, FavoriteReads, InsertFavorite, DeleteFavorite,
                    At, Running, jvars
      <4>2. End(h) \/ \E step \in {"interaction", "favorite", "close"} : Goto(h, step)
        BY <3>3 DEF RecountReads, InsertInteraction, FavoriteReads, InsertFavorite, DeleteFavorite,
                    Check
      <4>. QED
        BY <3>1, <4>1, <4>2, PassInTurn DEF Bounded
    <3>. QED
      BY <1>3, <3>1, <3>2, <3>3, CreateInTurn, ReadInTurn, SaveInTurn, RecountInTurn, InsertInTurn,
         UnsaveInTurn DEF PostingStep
  <2>. QED
    BY <2>2, <2>3
<1>. QED
  BY <1>1, <1>2, <1>3 DEF PostingNext

\* Of requests that wait for each other, with no failing query, none that deletes, the
\* savers in the row of a job are those of saved_jobs, and the job is announced at most
\* once, and once more for every update that took its date, however often recruiters and
\* the back office activate it (saveJob, unsaveJob, updateJob, updateJobStatus).
THEOREM PostingTurnsSound == PostingTurns => []PostingInTurn
<1>1. JobTurnInv => PostingInTurn
  BY DEF JobTurnInv, PostingInTurn, JobRests, Savers, SaversAgree, Bounded, Due
<1>2. SInit /\ PostingInit /\ overlapped = FALSE => RowsInv /\ JobTurnInv
  BY RowsInit, JobTurnInit
<1>3. RowsInv /\ JobTurnInv /\ [PostingNext /\ Turns]_<<svars, jvars, overlapped>>
         => RowsInv' /\ JobTurnInv'
  <2>1. [PostingNext /\ Turns]_<<svars, jvars, overlapped>> => [PostingNext]_<<svars, jvars>>
    BY DEF svars, jvars
  <2>. QED
    BY <2>1, JobStepKeeps, JobTurnNext
<1>. QED
  BY <1>1, <1>2, <1>3, PTL DEF PostingTurns

-----------------------------------------------------------------------------
(* Report, in turn *)

LEMMA LeastNumber ==
    ASSUME NEW T \in SUBSET Nat, T # {}
    PROVE  \E m \in T : \A n \in T : m <= n
<1> DEFINE R == OpToRel(<, Nat)
<1>1. IsWellFoundedOn(R, Nat)
  BY NatLessThanWellFounded
<1>2. ASSUME NEW m \in T, NEW n \in T, n < m PROVE <<n, m>> \in R
  BY <1>2 DEF OpToRel
<1> HIDE DEF R
<1>3. PICK m \in T : \A n \in T : ~(<<n, m>> \in R)
  BY <1>1, WFMin
<1>4. ASSUME NEW n \in T PROVE m <= n
  <2>1. m \in Nat /\ n \in Nat /\ ~(n < m)
    BY <1>2, <1>3
  <2>. QED
    BY <2>1
<1>. QED
  BY <1>4

Lists == Seq(Admins)
Filled == Lists \ {<<>>}
TurnRow == [list: Filled, index: Nat]

LastIndex == IF turns = <<>> THEN -1 ELSE turns[Len(turns)].index

\* Each turn was that of the admin after the one before, in its own list.
TurnsTaken ==
    /\ turns \in Seq(TurnRow)
    /\ \A k \in DOMAIN turns : turns[k].index < Len(turns[k].list)
    /\ \A k \in DOMAIN turns :
           k > 1 => turns[k].index = NextIndex(turns[k].list, turns[k - 1].index)

NextTurn(h) == Mem(h) \in TurnRow /\ Mem(h).index = NextIndex(Mem(h).list, LastIndex)

\* The index in Redis is that of the last turn, or of the turn that h is going to take.
ReportWaits(h) ==
    /\ handler[h].step = "cache" => Mem(h) \in Lists
    /\ handler[h].step = "index" => Mem(h) \in Filled
    /\ handler[h].step = "turn" => NextTurn(h)
    /\ handler[h].step = "insert" =>
           \/ Mem(h).list = <<>> /\ turnIndex = LastIndex
           \/ NextTurn(h) /\ turnIndex = Mem(h).index
    /\ handler[h].step # "insert" => turnIndex = LastIndex

\* The inductive invariant.
ReportTurnInv ==
    /\ faults \in Nat
    /\ Undisturbed =>
        /\ Shape /\ OneAtWork
        /\ onDuty \subseteq Admins
        /\ adminList \in Lists \cup {NoList}
        /\ TurnsTaken
        /\ \A h \in Requests : Running(h) => ReportWaits(h)
        /\ Quiet => turnIndex = LastIndex

LEMMA IndexInList ==
    ASSUME NEW list \in Filled, NEW i \in Int
    PROVE  /\ NextIndex(list, i) \in 0 .. Len(list) - 1
           /\ i \in 0 .. Len(list) - 1 =>
                  NextIndex(list, i) = IF i + 1 < Len(list) THEN i + 1 ELSE 0
<1>1. Len(list) \in Nat \ {0}
  BY DEF Filled, Lists
<1> DEFINE L == Len(list)
<1> HIDE DEF L
<1>2. L \in Nat \ {0}
  BY <1>1 DEF L
<1>3. (i + 1) % L \in 0 .. L - 1
  BY <1>2
<1>4. ASSUME i \in 0 .. L - 1, i + 1 < L PROVE (i + 1) % L = i + 1
  BY <1>2, <1>4
<1>5. L % L = 0
  BY <1>2
<1>6. ASSUME i \in 0 .. L - 1, ~(i + 1 < L) PROVE i + 1 = L
  BY <1>2, <1>6
<1>. QED
  BY <1>3, <1>4, <1>5, <1>6 DEF NextIndex, L

\* Where a round of a list of length L that starts at a is after k - i turns.
RoundAt(L, a, i, k) == IF a + (k - i) < L THEN a + (k - i) ELSE a + (k - i) - L

LEMMA RoundSteps ==
    ASSUME NEW L \in Nat, NEW a \in 0 .. L - 1, NEW i \in Nat, NEW j \in Nat, j - i < L, NEW k \in i .. j
    PROVE  /\ RoundAt(L, a, i, k) \in 0 .. L - 1
           /\ k # i => RoundAt(L, a, i, k) = IF RoundAt(L, a, i, k - 1) + 1 < L
                                            THEN RoundAt(L, a, i, k - 1) + 1 ELSE 0
<1>1. PICK d \in Nat : d = k - i /\ (k - 1) - i = d - 1 /\ d < L
  OBVIOUS
<1>2. /\ RoundAt(L, a, i, k) = IF a + d < L THEN a + d ELSE a + d - L
      /\ RoundAt(L, a, i, k - 1) = IF a + (d - 1) < L THEN a + (d - 1) ELSE a + (d - 1) - L
  BY <1>1 DEF RoundAt
<1>3. k # i => d >= 1
  BY <1>1
<1>. QED
  BY ONLY <1>1, <1>2, <1>3, L \in Nat, a \in 0 .. L - 1

\* As long as the list stays the same, the turns go round it.
LEMMA TurnsGoRound ==
    ASSUME TurnsTaken, NEW i \in DOMAIN turns, NEW j \in DOMAIN turns, i < j,
           j - i < Len(turns[i].list), \A k \in i .. j : turns[k].list = turns[i].list
    PROVE  turns[i].index # turns[j].index
<1> DEFINE L == Len(turns[i].list)
           a == turns[i].index
           Round(k) == RoundAt(L, a, i, k)
           bad == {k \in i .. j : turns[k].index # Round(k)}
<1>7. j - i < L
  OBVIOUS
<1>1. i \in Nat /\ j \in Nat /\ i >= 1 /\ \A k \in i .. j : k \in DOMAIN turns /\ turns[k] \in TurnRow
  BY DEF TurnsTaken
<1>2. turns[i].list \in Filled /\ L \in Nat \ {0} /\ a \in 0 .. L - 1
  <2>1. turns[i] \in TurnRow
    BY <1>1
  <2>2. turns[i].list \in Filled /\ a \in Nat
    BY <2>1 DEF TurnRow
  <2>3. L \in Nat \ {0}
    BY <2>2 DEF Filled, Lists
  <2>4. a < L
    BY DEF TurnsTaken
  <2>. QED
    BY <2>2, <2>3, <2>4
<1>0. \A k \in i .. j : Round(k) \in 0 .. L - 1
  BY ONLY <1>1, <1>2, <1>7, RoundSteps
<1>3. bad = {}
  <2> SUFFICES ASSUME bad # {} PROVE FALSE
    OBVIOUS
  <2>1. PICK k \in bad : \A m \in bad : k <= m
    <3>1. bad \in SUBSET Nat
      BY <1>1
    <3> HIDE DEF bad
    <3>. QED
      BY <3>1, LeastNumber
  <2>2. k \in i .. j /\ k \in Int /\ turns[k].index # Round(k)
    BY <1>1
  <2>3. k # i
    <3>1. Round(i) = a
      BY <1>1, <1>2 DEF RoundAt
    <3>. QED
      BY <2>2, <3>1
  <2>4. k - 1 \in i .. j /\ k > 1 /\ k - 1 < k
    BY <1>1, <2>2, <2>3
  <2>5. turns[k - 1].index = Round(k - 1)
    BY <2>1, <2>2, <2>4
  <2>6. turns[k].index = NextIndex(turns[i].list, turns[k - 1].index)
    BY <1>1, <2>2, <2>4 DEF TurnsTaken
  <2>7. Round(k - 1) \in 0 .. L - 1
    BY <1>0, <2>4
  <2>8. turns[k].index = IF Round(k - 1) + 1 < L THEN Round(k - 1) + 1 ELSE 0
    <3> DEFINE r == Round(k - 1)
    <3> HIDE DEF Round, r
    <3>1. r \in 0 .. Len(turns[i].list) - 1 /\ r \in Int
      BY <1>2, <2>7 DEF r
    <3>2. NextIndex(turns[i].list, r) = IF r + 1 < L THEN r + 1 ELSE 0
      BY <1>2, <3>1, IndexInList
    <3>. QED
      BY <2>5, <2>6, <3>2 DEF r
  <2>9. Round(k) = IF Round(k - 1) + 1 < L THEN Round(k - 1) + 1 ELSE 0
    BY ONLY <1>1, <1>2, <1>7, <2>2, <2>3, RoundSteps
  <2>. QED
    BY <2>2, <2>8, <2>9
<1>4. turns[j].index = Round(j)
  BY <1>1, <1>3
<1>5. Round(j) # a
  BY <1>1, <1>2 DEF RoundAt
<1>. QED
  BY <1>4, <1>5

LEMMA LastIndexOK == ASSUME TurnsTaken PROVE LastIndex \in Int
<1>1. turns \in Seq(TurnRow) /\ Len(turns) \in Nat
  BY DEF TurnsTaken
<1>2. CASE turns # <<>>
  <2>1. turns[Len(turns)] \in TurnRow
    BY <1>1, <1>2
  <2>2. turns[Len(turns)].index \in Nat
    BY <2>1 DEF TurnRow
  <2>. QED
    BY <1>2, <2>2 DEF LastIndex
<1>. QED
  BY <1>2 DEF LastIndex

\* A step by h alone, among requests that waited for each other, without a failure.
ReportTurn == ReportTurnInv /\ Turns /\ ~overlapped' /\ Undisturbed /\ UNCHANGED faults

LEMMA ReportTurnMoves ==
    ASSUME ReportTurn, NEW h \in Requests, NEW s, Moves(h, s),
           Running(h) \/ s.step \notin {"idle", "done"},
           onDuty' \subseteq Admins, adminList' \in Lists \cup {NoList}, TurnsTaken',
           IF s.step \in {"idle", "done"} THEN turnIndex' = LastIndex' ELSE ReportWaits(h)'
    PROVE  ReportTurnInv'
<1>1. OneAtWork' /\ Shape' /\ \A g \in Requests \ {h} : ~Running(g)'
  BY MovesAlone DEF ReportTurn, ReportTurnInv, Moves
<1>2. Running(h)' = (s.step \notin {"idle", "done"})
  BY DEF Running, Moves
<1>. QED
  BY <1>1, <1>2 DEF ReportTurnInv, ReportTurn, Quiet

LEMMA ReportFound ==
    ASSUME ReportTurn, NEW h \in Requests, Running(h)
    PROVE  /\ Shape /\ TurnsTaken /\ adminList \in Lists \cup {NoList}
           /\ ReportWaits(h)
BY DEF ReportTurn, ReportTurnInv

LEMMA ReportAsked ==
    ASSUME ReportTurn, NEW h \in Requests, ReportRequest(h)
    PROVE  ReportTurnInv'
<1>1. PICK op, arg : Ask(h, op, arg)
  BY DEF ReportRequest
<1> DEFINE s == Request(op, "start", arg, "nothing")
<1>2. Moves(h, s) /\ handler[h].step = "idle"
  BY <1>1, AskMoves DEF ReportTurn, ReportTurnInv
<1>3. s.step = "start" /\ UNCHANGED rvars
  BY DEF Request, ReportRequest
<1> HIDE DEF s
<1>4. \A g \in Requests \ {h} : ~Running(g)
  BY <1>2, <1>3, MovesAlone DEF ReportTurn, ReportTurnInv
<1>5. turnIndex = LastIndex
  BY <1>2, <1>4 DEF ReportTurn, ReportTurnInv, Quiet, Running
<1>6. ReportWaits(h)' /\ TurnsTaken' /\ onDuty' \subseteq Admins /\ adminList' \in Lists \cup {NoList}
  BY <1>2, <1>3, <1>5 DEF ReportWaits, Moves, rvars, LastIndex, TurnsTaken, ReportTurn, ReportTurnInv
<1>. QED
  BY <1>2, <1>3, <1>6, ReportTurnMoves

\* A request that ends with the index at the last turn.
LEMMA ReportEnds ==
    ASSUME ReportTurn, NEW h \in Requests, Running(h), End(h),
           UNCHANGED onDuty, adminList' \in Lists \cup {NoList}, TurnsTaken', turnIndex' = LastIndex'
    PROVE  ReportTurnInv'
<1> DEFINE s == Request(handler[h].op, "done", "none", "nothing")
<1>1. Moves(h, s) /\ s.step = "done"
  BY EndMoves DEF ReportTurn, ReportTurnInv, Request
<1> HIDE DEF s
<1>. QED
  BY <1>1, ReportTurnMoves DEF ReportTurn, ReportTurnInv

\* A request that goes on with mem, before it has inserted a report.
LEMMA ReportGoesOn ==
    ASSUME ReportTurn, NEW h \in Requests, Running(h), NEW step, NEW mem, step \notin {"idle", "done"},
           \/ Keep(h, step, mem)
           \/ Goto(h, step) /\ mem = handler[h].mem,
           UNCHANGED <<onDuty, turns>>, adminList' \in Lists \cup {NoList},
           step = "cache" => mem \in Lists,
           step = "index" => mem \in Filled,
           step = "turn" => mem \in TurnRow /\ mem.index = NextIndex(mem.list, LastIndex),
           step = "insert" =>
               \/ mem.list = <<>> /\ turnIndex' = LastIndex
               \/ /\ mem \in TurnRow /\ mem.index = NextIndex(mem.list, LastIndex)
                  /\ turnIndex' = mem.index,
           step # "insert" => turnIndex' = LastIndex
    PROVE  ReportTurnInv'
<1> DEFINE s == Request(handler[h].op, step, handler[h].arg, mem)
<1>1. Moves(h, s)
  BY GotoMoves, KeepMoves DEF ReportTurn, ReportTurnInv
<1>2. s.step = step /\ s.mem = mem
  BY DEF Request
<1> HIDE DEF s
<1>3. LastIndex' = LastIndex /\ TurnsTaken' /\ handler'[h] = s
  BY <1>1, ReportFound DEF LastIndex, TurnsTaken, Moves
<1>4. ReportWaits(h)'
  BY <1>2, <1>3 DEF ReportWaits, NextTurn, Mem
<1>. QED
  BY <1>1, <1>2, <1>3, <1>4, ReportTurnMoves DEF ReportTurn, ReportTurnInv

LEMMA ListsOnDuty == ASSUME NEW S, IsFiniteSet(S) PROVE SetToSeqs(S) \subseteq Seq(S)
<1>1. Cardinality(S) \in Nat
  BY FS_CardinalityType
<1>. QED
  BY <1>1 DEF SetToSeqs

LEMMA ReportStepInTurn ==
    ASSUME ReportTurn, NEW h \in Requests, ReportStep(h), ~RedisFails(h)
    PROVE  ReportTurnInv'
<1>0. Running(h)
  BY DEF ReportStep, CheckReport, GetAdmins, CacheAdmins, GetIndex, SetIndex, InsertReport, ReadReport,
         SaveReport, RefreshAdminCache, At, Running
<1>1. /\ TurnsTaken /\ adminList \in Lists \cup {NoList} /\ onDuty \subseteq Admins
      /\ ReportWaits(h)
  BY <1>0, ReportFound DEF ReportTurn, ReportTurnInv
<1>2. ASSUME End(h), UNCHANGED <<onDuty, turns, turnIndex>>, adminList' \in Lists \cup {NoList},
             handler[h].step # "insert"
      PROVE  ReportTurnInv'
  <2>1. TurnsTaken' /\ turnIndex' = LastIndex'
    BY <1>1, <1>2 DEF TurnsTaken, LastIndex, ReportWaits
  <2>. QED
    BY <1>0, <1>1, <1>2, <2>1, ReportEnds
<1>3. CASE CheckReport(h)
  <2>1. UNCHANGED rvars /\ handler[h].step = "start" /\ turnIndex = LastIndex
    BY <1>1, <1>3 DEF CheckReport, At, ReportWaits
  <2>2. CASE End(h)
    BY <1>1, <1>2, <2>1, <2>2 DEF rvars
  <2>3. CASE Goto(h, "admins")
    <3>1. PICK step, mem : step = "admins" /\ mem = handler[h].mem
      OBVIOUS
    <3>2. UNCHANGED <<onDuty, turns, adminList, turnIndex>> /\ Goto(h, step)
      BY <2>1, <2>3, <3>1 DEF rvars
    <3>3. step \notin {"idle", "done", "cache", "index", "turn", "insert"}
      BY <3>1
    <3>4. adminList' \in Lists \cup {NoList} /\ turnIndex' = LastIndex
      BY <1>1, <2>1, <3>2
    <3>. QED
      BY <1>0, <3>1, <3>2, <3>3, <3>4, ReportGoesOn
  <2>. QED
    BY <1>3, <2>2, <2>3 DEF CheckReport, Check
<1>4. CASE GetAdmins(h)
  <2>1. UNCHANGED rvars /\ turnIndex = LastIndex
    BY <1>1, <1>4 DEF GetAdmins, At, ReportWaits
  <2>2. ASSUME NEW list \in SetToSeqs(onDuty), Keep(h, "cache", list) PROVE ReportTurnInv'
    <3>1. IsFiniteSet(onDuty)
      BY <1>1, ReportAssumption, FS_Subset
    <3>2. list \in Seq(onDuty)
      BY <2>2, <3>1, ListsOnDuty
    <3>3. list \in Lists
      BY <1>1, <3>2 DEF Lists
    <3>. QED
      BY <1>0, <1>1, <2>1, <2>2, <3>3, ReportGoesOn DEF rvars
  <2>3. CASE adminList \notin {NoList, <<>>} /\ Keep(h, "index", adminList)
    <3>1. adminList \in Filled
      BY <1>1, <2>3 DEF Filled
    <3>. QED
      BY <1>0, <1>1, <2>1, <2>3, <3>1, ReportGoesOn DEF rvars
  <2>. QED
    BY <1>4, <2>2, <2>3 DEF GetAdmins
<1>5. CASE CacheAdmins(h)
  <2>1. /\ UNCHANGED <<onDuty, turns, turnIndex>> /\ turnIndex = LastIndex
        /\ Mem(h) \in Lists /\ adminList' \in Lists \cup {NoList}
    BY <1>1, <1>5 DEF CacheAdmins, At, ReportWaits
  <2>2. CASE Mem(h) = <<>>
    <3> DEFINE mem == [list |-> <<>>, index |-> -1]
    <3>1. Keep(h, "insert", mem) /\ mem.list = <<>>
      BY <1>5, <2>2 DEF CacheAdmins
    <3> HIDE DEF mem
    <3>. QED
      BY <1>0, <1>1, <2>1, <3>1, ReportGoesOn
  <2>3. CASE Mem(h) # <<>>
    <3>1. Goto(h, "index") /\ handler[h].mem \in Filled
      BY <1>5, <2>1, <2>3 DEF CacheAdmins, Filled, Mem
    <3>. QED
      BY <1>0, <1>1, <2>1, <3>1, ReportGoesOn
  <2>. QED
    BY <2>2, <2>3
<1>6. CASE GetIndex(h)
  <2>1. UNCHANGED rvars /\ turnIndex = LastIndex /\ Mem(h) \in Filled
    BY <1>1, <1>6 DEF GetIndex, At, ReportWaits
  <2> DEFINE mem == [list |-> Mem(h), index |-> NextIndex(Mem(h), turnIndex)]
  <2>2. LastIndex \in Int
    BY <1>1, LastIndexOK
  <2>3. NextIndex(Mem(h), turnIndex) \in Nat
    <3>1. Len(Mem(h)) \in Nat
      BY <2>1 DEF Filled, Lists
    <3>. QED
      BY <2>1, <2>2, <3>1, IndexInList
  <2>4. Keep(h, "turn", mem)
    BY <1>6 DEF GetIndex
  <2>5. mem \in TurnRow /\ mem.index = NextIndex(mem.list, LastIndex)
    BY <2>1, <2>3 DEF TurnRow
  <2> HIDE DEF mem
  <2>. QED
    BY <1>0, <1>1, <2>1, <2>4, <2>5, ReportGoesOn DEF rvars
<1>7. CASE SetIndex(h)
  <2>1. UNCHANGED <<onDuty, turns, adminList>> /\ NextTurn(h) /\ turnIndex' = Mem(h).index
        /\ Goto(h, "insert")
    BY <1>1, <1>7 DEF SetIndex, At, ReportWaits
  <2>2. /\ handler[h].mem \in TurnRow /\ handler[h].mem.index = NextIndex(handler[h].mem.list, LastIndex)
        /\ turnIndex' = handler[h].mem.index
    BY <2>1 DEF NextTurn, Mem
  <2>3. PICK mem : mem = handler[h].mem
    OBVIOUS
  <2>4. /\ mem \in TurnRow /\ mem.index = NextIndex(mem.list, LastIndex) /\ turnIndex' = mem.index
        /\ Goto(h, "insert") /\ UNCHANGED <<onDuty, turns>>
    BY <2>1, <2>2, <2>3
  <2>5. adminList' \in Lists \cup {NoList}
    BY <1>1, <2>1
  <2>. QED
    BY <1>0, <1>1, <2>3, <2>4, <2>5, ReportGoesOn
<1>8. CASE InsertReport(h)
  <2>1. /\ UNCHANGED <<onDuty, adminList, turnIndex>> /\ End(h)
        /\ \/ Mem(h).list = <<>> /\ turnIndex = LastIndex
           \/ NextTurn(h) /\ turnIndex = Mem(h).index
    BY <1>1, <1>8 DEF InsertReport, At, ReportWaits
  <2>2. CASE Mem(h).list = <<>>
    <3>1. turnIndex = LastIndex /\ turns' = turns
      BY <1>8, <2>1, <2>2 DEF InsertReport, NextTurn, TurnRow, Filled
    <3>2. TurnsTaken' /\ turnIndex' = LastIndex'
      BY <1>1, <2>1, <3>1 DEF TurnsTaken, LastIndex
    <3>. QED
      BY <1>0, <1>1, <2>1, <3>2, ReportEnds
  <2>3. CASE Mem(h).list # <<>>
    <3> DEFINE turn == Mem(h)
    <3>1. turn \in TurnRow /\ turn.index = NextIndex(turn.list, LastIndex) /\ turnIndex = turn.index
      BY <2>1, <2>3 DEF NextTurn
    <3>2. LastIndex \in Int /\ turn.list \in Filled
      BY <1>1, <3>1, LastIndexOK DEF TurnRow
    <3>3. turn.index \in 0 .. Len(turn.list) - 1
      BY <3>1, <3>2, IndexInList
    <3>4. turn.list[turn.index + 1] \in Admins
      BY <3>2, <3>3 DEF Filled, Lists
    <3>5. turns' = Append(turns, turn)
      BY <1>8, <2>3, <3>4, ReportAssumption DEF InsertReport
    <3> HIDE DEF turn
    <3>6. turns \in Seq(TurnRow) /\ Len(turns) \in Nat /\ Len(turn.list) \in Nat
      BY <1>1, <3>2 DEF TurnsTaken, Filled, Lists
    <3>7. turns' \in Seq(TurnRow) /\ Len(turns') = Len(turns) + 1
          /\ turns'[Len(turns) + 1] = turn
          /\ \A k \in 1 .. Len(turns) : turns'[k] = turns[k]
      BY <3>1, <3>5, <3>6
    <3>8. ASSUME NEW k \in DOMAIN turns'
          PROVE  /\ turns'[k].index < Len(turns'[k].list)
                 /\ k > 1 => turns'[k].index = NextIndex(turns'[k].list, turns'[k - 1].index)
      <4>1. k \in 1 .. Len(turns) + 1
        BY <3>7
      <4>2. CASE k \in 1 .. Len(turns)
        <5>1. k \in DOMAIN turns /\ turns'[k] = turns[k] /\ (k > 1 => turns'[k - 1] = turns[k - 1])
          BY <3>6, <3>7, <4>2
        <5>. QED
          BY <1>1, <5>1 DEF TurnsTaken
      <4>3. CASE k = Len(turns) + 1
        <5>1. turns'[k] = turn /\ turn.index < Len(turn.list)
          BY <3>3, <3>6, <3>7, <4>3
        <5>2. k > 1 => turns # <<>> /\ turns'[k - 1] = turns[Len(turns)]
          BY <3>6, <3>7, <4>3
        <5>. QED
          BY <3>1, <5>1, <5>2 DEF LastIndex
      <4>. QED
        BY <3>6, <4>1, <4>2, <4>3
    <3>9. TurnsTaken'
      BY <3>7, <3>8 DEF TurnsTaken
    <3>10. turnIndex' = LastIndex'
      <4>1. turns' # <<>>
        BY <3>6, <3>7
      <4>. QED
        BY <2>1, <3>1, <3>7, <4>1 DEF LastIndex
    <3>. QED
      BY <1>0, <1>1, <2>1, <3>9, <3>10, ReportEnds
  <2>. QED
    BY <2>2, <2>3
<1>9. CASE ReadReport(h)
  <2>1. UNCHANGED rvars /\ handler[h].step = "start" /\ turnIndex = LastIndex
    BY <1>1, <1>9 DEF ReadReport, At, ReportWaits
  <2>2. CASE End(h)
    BY <1>1, <1>2, <2>1, <2>2 DEF rvars
  <2>3. ASSUME NEW mem, Keep(h, "save", mem) PROVE ReportTurnInv'
    BY <1>0, <1>1, <2>1, <2>3, ReportGoesOn DEF rvars
  <2>. QED
    BY <1>9, <2>2, <2>3 DEF ReadReport
<1>10. CASE SaveReport(h)
  BY <1>1, <1>2, <1>10 DEF SaveReport, At
<1>11. CASE RefreshAdminCache(h)
  BY <1>1, <1>2, <1>11 DEF RefreshAdminCache, At
<1>. QED
  BY <1>3, <1>4, <1>5, <1>6, <1>7, <1>8, <1>9, <1>10, <1>11 DEF ReportStep

LEMMA ReportTurnInit == SInit /\ ReportInit => ReportTurnInv
<1> SUFFICES ASSUME SInit, ReportInit PROVE ReportTurnInv
  OBVIOUS
<1>1. \A h \in Requests : ~Running(h)
  BY DEF SInit, Idle, Running
<1>2. turns = <<>> /\ turnIndex = -1 /\ adminList = NoList /\ onDuty \subseteq Admins
  BY DEF ReportInit
<1>3. TurnsTaken /\ turnIndex = LastIndex
  BY <1>2 DEF TurnsTaken, LastIndex
<1>. QED
  BY <1>1, <1>2, <1>3, ShapeInit DEF ReportTurnInv, OneAtWork, SInit

LEMMA ReportTurnNext ==
    ReportTurnInv /\ [ReportNext /\ Turns]_<<svars, rvars, overlapped>> => ReportTurnInv'
<1> SUFFICES ASSUME ReportTurnInv, [ReportNext /\ Turns]_<<svars, rvars, overlapped>>
             PROVE  ReportTurnInv'
  OBVIOUS
<1>1. ASSUME UNCHANGED <<svars, turnIndex, turns>>, Turns \/ UNCHANGED overlapped,
             adminList' \in {adminList, NoList}, onDuty' \subseteq Admins \/ onDuty' = onDuty
      PROVE  ReportTurnInv'
  <2> SUFFICES ASSUME Undisturbed' PROVE ReportTurnInv'
    BY <1>1 DEF ReportTurnInv, svars
  <2>1. Undisturbed
    BY <1>1, TurnBefore DEF Undisturbed, svars
  <2>. QED
    BY <1>1, <2>1 DEF svars, ReportTurnInv, Shape, OneAtWork, Quiet, Running, ReportWaits, NextTurn, Mem,
                      LastIndex, TurnsTaken
<1>2. CASE UNCHANGED <<svars, rvars, overlapped>>
  BY <1>1, <1>2 DEF rvars
<1>3. CASE AdminListExpires /\ Turns
  BY <1>1, <1>3 DEF AdminListExpires
<1>4. ASSUME NEW a \in Admins, ToggleAdmin(a), Turns PROVE ReportTurnInv'
  <2> SUFFICES ASSUME Undisturbed' PROVE ReportTurnInv'
    BY <1>4 DEF ReportTurnInv, ToggleAdmin, svars
  <2>1. Undisturbed
    BY <1>4, TurnBefore DEF Undisturbed, svars, ToggleAdmin
  <2>2. onDuty' \subseteq Admins
    BY <1>4, <2>1 DEF ToggleAdmin, ReportTurnInv
  <2>. QED
    BY <1>1, <1>4, <2>2 DEF ToggleAdmin
<1>5. ASSUME NEW h \in Requests, Fault(h) \/ RedisFails(h) PROVE ReportTurnInv'
  BY <1>5 DEF Fault, RedisFails, ReportTurnInv, Undisturbed
<1>6. ASSUME NEW h \in Requests, ReportRequest(h) \/ (ReportStep(h) /\ ~RedisFails(h)), Turns
      PROVE  ReportTurnInv'
  <2>1. UNCHANGED faults
    BY <1>6 DEF ReportRequest, ReportStep, Ask, End, Goto, Keep, Check, CheckReport, GetAdmins,
                CacheAdmins, GetIndex, SetIndex, InsertReport, ReadReport, SaveReport,
                RefreshAdminCache
  <2>2. CASE ~Undisturbed'
    BY <2>1, <2>2 DEF ReportTurnInv
  <2>3. CASE Undisturbed'
    <3>1. ReportTurn
      <4>1. ~overlapped' /\ faults = 0
        BY <2>1, <2>3 DEF Undisturbed
      <4>2. ~overlapped
        BY <1>6, <4>1, TurnBefore
      <4>. QED
        BY <1>6, <2>1, <4>1, <4>2 DEF ReportTurn, Undisturbed
    <3>. QED
      BY <1>6, <3>1, ReportAsked, ReportStepInTurn
  <2>. QED
    BY <2>2, <2>3
<1>. QED
  BY <1>2, <1>3, <1>4, <1>5, <1>6 DEF ReportNext

\* However the list of admins in Redis expires or is refreshed, and admins are activated
\* and deactivated, requests that wait for each other, with no failing query, assign
\* reports to the admins of a list in turn (createReport, getNextAdmin).
THEOREM AdminsTakeTurns == ReportTurns => []RoundRobinInTurn
<1>1. ReportTurnInv => RoundRobinInTurn
  BY TurnsGoRound DEF ReportTurnInv, RoundRobinInTurn, RoundRobin
<1>2. SInit /\ ReportInit /\ overlapped = FALSE => ReportTurnInv
  BY ReportTurnInit
<1>. QED
  BY <1>1, <1>2, ReportTurnNext, PTL DEF ReportTurns

-----------------------------------------------------------------------------
(* Membership *)

\* A request that inserts a membership has written no other before.
Past(g) == g \in Requests /\ handler[g].step \in {"accepted", "done"}

\* The memberships, and what requests are about to save as one.
Known == members \cup {handler[h].mem : h \in {g \in Requests : handler[g].step = "save"}}

IsRow(m) ==
    m = [id |-> m.id, user |-> m.user, role |-> m.role, via |-> m.via, status |-> m.status]

\* Memberships are never moved to another user.
MembersInv ==
    /\ \A m \in Known : IsRow(m) /\ (m.id = "first" \/ Past(m.id))
    /\ \A m, n \in Known : m.id = n.id => m.user = n.user

IsInvitation(i) ==
    i = [id |-> i.id, user |-> i.user, role |-> i.role, status |-> i.status, late |-> i.late]

\* An invitation is inserted by the last step of its request.
InvitationsInv ==
    /\ \A i \in invitations : IsInvitation(i) /\ i.id \in Requests /\ handler[i.id].step = "done"
    /\ \A i, j \in invitations : i.id = j.id => i.user = j.user

\* Whoever accepts is about to become a member, and then is one.
AcceptsOK(s) == s.op = "accept" /\ s.step \in {"join", "accepted"} =>
    /\ s.arg \in Requests /\ handler[s.arg].step = "done"
    /\ \A i \in invitations : i.id = s.arg =>
           IF s.step = "join" THEN i.user = s.mem.user ELSE IsMember(i.user)

\* Steps of createOrganizationWithOwner and migrateOrganization
Founding == {"role", "grant", "owner"}

MemberRequestOK(h, s) ==
    /\ AcceptsOK(s)
    /\ s.step = "join" => s.mem.id = h /\ IsRow(s.mem)
    /\ s.step = "accepted" => s.op = "accept"
    /\ s.step \in Founding => s.op # "accept"

\* The inductive invariant.
MemberInv ==
    /\ Shape
    /\ MembersInv
    /\ InvitationsInv
    /\ \A h \in Requests : MemberRequestOK(h, handler[h])
    /\ AcceptedIsMember

LEMMA MemberInit == SInit /\ MembershipInit => MemberInv
<1> SUFFICES ASSUME SInit, MembershipInit PROVE MemberInv
  OBVIOUS
<1>1. Shape /\ \A h \in Requests : handler[h].step = "idle"
  BY ShapeInit DEF SInit, Idle
<1>2. \A m \in Known : m = MemberRow("first", Founder, <<"first", "owner">>, "first")
  BY <1>1 DEF MembershipInit, Known
<1>3. MembersInv
  BY <1>2 DEF MemberRow, IsRow, MembersInv
<1>4. InvitationsInv /\ AcceptedIsMember
  BY DEF MembershipInit, InvitationsInv, AcceptedIsMember
<1>5. \A h \in Requests : MemberRequestOK(h, handler[h])
  BY <1>1 DEF MemberRequestOK, AcceptsOK, Founding
<1>. QED
  BY <1>1, <1>3, <1>4, <1>5 DEF MemberInv

\* What a request has written stays written when another moves.
LEMMA DoneStays ==
    ASSUME NEW h \in Requests, NEW s, Moves(h, s),
           handler[h].step # "done", handler[h].step = "accepted" => s.step = "done"
    PROVE  /\ \A g \in Requests : handler[g].step = "done" => handler'[g].step = "done"
           /\ \A g : Past(g) => Past(g)'
BY DEF Past, Moves

\* A request that moves with nobody leaving, no row that was not known and no
\* invitation of another request.
LEMMA MovesKeep ==
    ASSUME MemberInv, NEW h \in Requests, NEW s, Moves(h, s), MemberRequestOK(h, s)',
           handler[h].step # "done", handler[h].step = "accepted" => s.step = "done",
           \A m \in Known' : m \in Known \/ (handler[h].step = "join" /\ m = Mem(h) /\ Past(h)'),
           \A u : IsMember(u) => IsMember(u)',
           UNCHANGED invitations
    PROVE  MemberInv'
<1>1. \A g \in Requests : handler[g].step = "done" => handler'[g].step = "done"
  BY DoneStays
<1>2. \A g : Past(g) => Past(g)'
  BY DoneStays
<1>3. MembersInv'
  <2>1. handler[h].step = "join" => Mem(h).id = h /\ IsRow(Mem(h))
    BY DEF MemberInv, MemberRequestOK, Mem
  <2>2. \A m \in Known' : IsRow(m) /\ (m.id = "first" \/ Past(m.id)')
    BY <1>2, <2>1 DEF MemberInv, MembersInv
  <2>3. handler[h].step = "join" => \A m \in Known : m.id # h
    BY MembershipAssumption DEF MemberInv, MembersInv, Past
  <2>4. ASSUME NEW m \in Known', NEW n \in Known', m.id = n.id PROVE m.user = n.user
    BY <2>1, <2>3, <2>4 DEF MemberInv, MembersInv
  <2>. QED
    BY <2>2, <2>4 DEF MembersInv
<1>4. InvitationsInv'
  BY <1>1 DEF MemberInv, InvitationsInv
<1>5. AcceptedIsMember'
  BY DEF MemberInv, AcceptedIsMember
<1>6. ASSUME NEW t, AcceptsOK(t) PROVE AcceptsOK(t)'
  BY <1>1, <1>6 DEF AcceptsOK
<1>. QED
  BY <1>3, <1>4, <1>5, <1>6 DEF MemberInv, Moves, MemberRequestOK

\* A request that writes nothing, and goes neither to save a membership nor to
\* accept an invitation.
LEMMA ReadingKeeps ==
    ASSUME MemberInv, NEW h \in Requests, NEW s, Moves(h, s),
           handler[h].step \notin {"done", "accepted"} \/ s.step = "done",
           handler[h].step # "done",
           s.step \notin {"save", "accepted"}, s.step = "join" => s.mem.id = h /\ IsRow(s.mem),
           s.step \in Founding \cup {"join"} => s.op # "accept",
           UNCHANGED <<members, invitations>>
    PROVE  MemberInv'
<1>1. Known' \subseteq Known
  BY DEF Known, Moves
<1>2. MemberRequestOK(h, s)'
  BY DEF MemberRequestOK, AcceptsOK
<1>3. \A u : IsMember(u) => IsMember(u)'
  BY DEF IsMember
<1>. QED
  BY <1>1, <1>2, <1>3, MovesKeep

LEMMA MemberEndKeeps ==
    ASSUME MemberInv, NEW h \in Requests, handler[h].step # "done", End(h),
           UNCHANGED <<members, invitations>>
    PROVE  MemberInv'
<1> DEFINE s == Request(handler[h].op, "done", "none", "nothing")
<1>1. Moves(h, s)
  BY EndMoves DEF MemberInv
<1>2. s.step = "done"
  BY DEF Request
<1>. QED
  BY <1>1, <1>2, ReadingKeeps DEF Founding

LEMMA MemberGotoKeeps ==
    ASSUME MemberInv, NEW h \in Requests, handler[h].step \notin {"done", "accepted"},
           NEW step, step \notin {"save", "join", "accepted"},
           step \in Founding => handler[h].op # "accept", Goto(h, step),
           UNCHANGED <<members, invitations>>
    PROVE  MemberInv'
<1> DEFINE s == Request(handler[h].op, step, handler[h].arg, handler[h].mem)
<1>1. Moves(h, s)
  BY GotoMoves DEF MemberInv
<1>2. s.step = step /\ s.op = handler[h].op
  BY DEF Request
<1>. QED
  BY <1>1, <1>2, ReadingKeeps DEF Founding

LEMMA MemberKeepKeeps ==
    ASSUME MemberInv, NEW h \in Requests, handler[h].step \notin {"done", "accepted"},
           NEW step, NEW mem, step \notin {"save", "accepted"},
           step = "join" => mem.id = h /\ IsRow(mem),
           step \in Founding \cup {"join"} => handler[h].op # "accept", Keep(h, step, mem),
           UNCHANGED <<members, invitations>>
    PROVE  MemberInv'
<1> DEFINE s == Request(handler[h].op, step, handler[h].arg, mem)
<1>1. Moves(h, s)
  BY KeepMoves DEF MemberInv
<1>2. s.step = step /\ s.op = handler[h].op /\ s.mem = mem
  BY DEF Request
<1>. QED
  BY <1>1, <1>2, ReadingKeeps DEF Founding

LEMMA MemberRequestKeeps ==
    ASSUME MemberInv, NEW h \in Requests, MembershipRequest(h)
    PROVE  MemberInv'
<1>1. PICK op, arg : Ask(h, op, arg)
  BY DEF MembershipRequest
<1> DEFINE s == Request(op, "start", arg, "nothing")
<1>2. Moves(h, s) /\ handler[h].step = "idle"
  BY <1>1, AskMoves DEF MemberInv
<1>3. s.step = "start"
  BY DEF Request
<1>. QED
  BY <1>2, <1>3, ReadingKeeps DEF Founding, MembershipRequest, mvars

LEMMA FailedKeeps ==
    ASSUME MemberInv, NEW h \in Requests, handler[h].step \notin {"done", "accepted"},
           Failed(h), UNCHANGED <<members, invitations>>
    PROVE  MemberInv'
BY MemberEndKeeps, MemberGotoKeeps DEF Failed, Founding

LEMMA FoundingKeeps ==
    ASSUME MemberInv, NEW h \in Requests,
           \/ InsertOrganization(h) \/ ReadOrganization(h) \/ InsertRole(h)
           \/ GrantRole(h) \/ FindOwner(h)
    PROVE  MemberInv'
<1>1. /\ handler[h].step \notin {"done", "accepted"}
      /\ handler[h].op # "accept"
      /\ UNCHANGED <<members, invitations>>
  BY DEF MemberInv, MemberRequestOK, Founding,
         InsertOrganization, ReadOrganization, InsertRole, GrantRole, FindOwner, At, mvars
<1>2. CASE InsertOrganization(h) \/ ReadOrganization(h)
  <2>1. End(h) \/ Keep(h, "role", 1)
    BY <1>2 DEF InsertOrganization, ReadOrganization
  <2>. QED
    BY <1>1, <2>1, MemberEndKeeps, MemberKeepKeeps
<1>3. CASE InsertRole(h) \/ GrantRole(h)
  <2>1. \/ Failed(h) \/ Goto(h, "grant") \/ Goto(h, "owner")
        \/ \E n : Keep(h, "role", n)
    BY <1>3 DEF InsertRole, GrantRole, NextRole
  <2>. QED
    BY <1>1, <2>1, FailedKeeps, MemberGotoKeeps, MemberKeepKeeps
<1>4. CASE FindOwner(h)
  <2>1. \/ Failed(h) \/ End(h)
        \/ \E r \in roles : Keep(h, "join", MemberRow(h, Founder, r.id, h))
    BY <1>4 DEF FindOwner
  <2>2. ASSUME NEW r, Keep(h, "join", MemberRow(h, Founder, r, h)) PROVE MemberInv'
    <3>1. MemberRow(h, Founder, r, h).id = h /\ IsRow(MemberRow(h, Founder, r, h))
      BY DEF MemberRow, IsRow
    <3>. QED
      BY <1>1, <2>2, <3>1, MemberKeepKeeps
  <2>. QED
    BY <1>1, <2>1, <2>2, FailedKeeps, MemberEndKeeps
<1>. QED
  BY <1>2, <1>3, <1>4

\* Everybody leaves together with the invitations.
LEMMA UndoKeeps ==
    ASSUME MemberInv, NEW h \in Requests, UndoOrganization(h)
    PROVE  MemberInv'
<1> DEFINE s == Request(handler[h].op, "done", "none", "nothing")
<1>1. Moves(h, s) /\ handler[h].step = "undo" /\ members' = {} /\ invitations' = {}
  BY EndMoves DEF UndoOrganization, At, MemberInv
<1>2. s.step = "done"
  BY DEF Request
<1>3. /\ \A g \in Requests : handler[g].step = "done" => handler'[g].step = "done"
      /\ \A g : Past(g) => Past(g)'
  BY <1>1, DoneStays
<1>4. Known' \subseteq Known
  BY <1>1, <1>2 DEF Known, Moves
<1>5. MembersInv'
  BY <1>3, <1>4 DEF MemberInv, MembersInv
<1>6. InvitationsInv' /\ AcceptedIsMember'
  BY <1>1 DEF InvitationsInv, AcceptedIsMember
<1>7. \A g \in Requests : MemberRequestOK(g, handler[g])'
  BY <1>1, <1>2, <1>3 DEF MemberInv, MemberRequestOK, AcceptsOK, Moves, Founding
<1>. QED
  BY <1>1, <1>5, <1>6, <1>7 DEF MemberInv, Moves

LEMMA JoinKeeps ==
    ASSUME MemberInv, NEW h \in Requests, Join(h)
    PROVE  MemberInv'
<1>1. handler[h].step = "join" /\ UNCHANGED invitations
  BY DEF Join
<1>2. CASE Mem(h).role \notin RoleIds
  BY <1>1, <1>2, FailedKeeps DEF Join
<1>3. CASE Mem(h).role \in RoleIds
  <2>1. PICK op, arg, row :
            op = handler[h].op /\ arg = handler[h].arg /\ row = handler[h].mem
    OBVIOUS
  <2> DEFINE accepts == op = "accept"
             s == IF accepts THEN Request(op, "accepted", arg, row)
                             ELSE Request(op, "done", "none", "nothing")
  <2>2. members' = members \cup {row} /\ Check(h, accepts, "accepted")
    BY <1>3, <2>1 DEF Join, Mem
  <2>3. Moves(h, s)
    BY <2>1, <2>2, EndMoves, GotoMoves DEF Check, MemberInv
  <2>4. /\ s.step = IF accepts THEN "accepted" ELSE "done"
        /\ s.op = op
        /\ accepts => s.arg = arg
    BY DEF Request
  <2>5. \A m \in Known' : m \in Known \/ (m = Mem(h) /\ Past(h)')
    BY <2>1, <2>2, <2>3, <2>4 DEF Known, Moves, Past, Mem
  <2>6. (\A u : IsMember(u) => IsMember(u)') /\ IsMember(row.user)'
    BY <2>2 DEF IsMember
  <2>7. \A g \in Requests : handler[g].step = "done" => handler'[g].step = "done"
    BY <1>1, <2>3, DoneStays
  <2>8. accepts => /\ arg \in Requests /\ handler[arg].step = "done"
                   /\ \A i \in invitations : i.id = arg => i.user = row.user
    BY <1>1, <2>1 DEF MemberInv, MemberRequestOK, AcceptsOK
  <2>9. AcceptsOK(s)'
    BY <1>1, <2>4, <2>6, <2>7, <2>8 DEF AcceptsOK
  <2>10. MemberRequestOK(h, s)'
    BY <2>4, <2>9 DEF MemberRequestOK, Founding
  <2>. QED
    BY <1>1, <2>3, <2>4, <2>5, <2>6, <2>10, MovesKeep
<1>. QED
  BY <1>2, <1>3

\* A request that goes on to save a membership it has read.
LEMMA ReadMemberKeeps ==
    ASSUME MemberInv, NEW h \in Requests, ReadMember(h)
    PROVE  MemberInv'
<1>1. handler[h].step = "start" /\ UNCHANGED <<members, invitations>>
  BY DEF ReadMember, mvars
<1>2. CASE End(h)
  BY <1>1, <1>2, MemberEndKeeps
<1>3. ASSUME NEW m \in members, NEW row, IsRow(row), row.id = m.id, row.user = m.user,
             Keep(h, "save", row)
      PROVE  MemberInv'
  <2> DEFINE s == Request(handler[h].op, "save", handler[h].arg, row)
  <2>1. Moves(h, s)
    BY <1>3, KeepMoves DEF MemberInv
  <2>2. s.step = "save" /\ s.mem = row
    BY DEF Request
  <2>3. \A n \in Known' : n \in Known \/ n = row
    BY <1>1, <2>1, <2>2 DEF Known, Moves
  <2>4. m \in Known
    BY DEF Known
  <2>5. /\ \A g \in Requests : handler[g].step = "done" => handler'[g].step = "done"
        /\ \A g : Past(g) => Past(g)'
    BY <1>1, <2>1, DoneStays
  <2>6. MembersInv'
    <3>1. \A n \in Known' : IsRow(n) /\ \E k \in Known : n.id = k.id /\ n.user = k.user
      BY <1>3, <2>3, <2>4 DEF MemberInv, MembersInv
    <3>. QED
      BY <2>5, <3>1 DEF MemberInv, MembersInv
  <2>7. InvitationsInv' /\ AcceptedIsMember'
    BY <1>1, <2>5 DEF MemberInv, InvitationsInv, AcceptedIsMember, IsMember
  <2>8. \A g \in Requests : MemberRequestOK(g, handler[g])'
    BY <1>1, <2>1, <2>2, <2>5 DEF MemberInv, MemberRequestOK, AcceptsOK, Moves, IsMember, Founding
  <2>. QED
    BY <2>1, <2>6, <2>7, <2>8 DEF MemberInv, Moves
<1>4. CASE ~End(h)
  <2>1. PICK m \in members :
            \/ Keep(h, "save", [m EXCEPT !.role = Arg(h).role])
            \/ Keep(h, "save", [m EXCEPT !.status = "left"])
    BY <1>4 DEF ReadMember
  <2>2. IsRow(m)
    BY DEF MemberInv, MembersInv, Known
  <2>3. PICK row : /\ \/ row = [m EXCEPT !.role = Arg(h).role]
                      \/ row = [m EXCEPT !.status = "left"]
                   /\ Keep(h, "save", row)
    BY <2>1
  <2>4. IsRow(row) /\ row.id = m.id /\ row.user = m.user
    BY <2>2, <2>3 DEF IsRow
  <2>. QED
    BY <1>3, <2>3, <2>4
<1>. QED
  BY <1>2, <1>4

\* A membership that is saved stays that of the same user.
LEMMA SavedStay ==
    ASSUME MemberInv, NEW h \in Requests, SaveMember(h), NEW u, IsMember(u)
    PROVE  IsMember(u)'
<1>1. PICK m \in members : m.user = u
  BY DEF IsMember
<1>2. CASE Mem(h).role \in RoleIds
  <2>1. PICK row : row = handler[h].mem
    OBVIOUS
  <2>2. members' = {n \in members : n.id # row.id} \cup {row}
    BY <1>2, <2>1 DEF SaveMember, PutMember, Mem
  <2>3. row \in Known /\ m \in Known
    BY <1>1, <2>1 DEF Known, SaveMember
  <2>4. m.id = row.id => row.user = u
    BY <1>1, <2>3 DEF MemberInv, MembersInv
  <2>. QED
    BY <1>1, <2>2, <2>4 DEF IsMember
<1>. QED
  BY <1>1, <1>2 DEF SaveMember, IsMember

LEMMA SaveMemberKeeps ==
    ASSUME MemberInv, NEW h \in Requests, SaveMember(h)
    PROVE  MemberInv'
<1>1. handler[h].step = "save" /\ End(h) /\ UNCHANGED invitations
  BY DEF SaveMember
<1>2. CASE Mem(h).role \notin RoleIds
  BY <1>1, <1>2, MemberEndKeeps DEF SaveMember
<1>3. CASE Mem(h).role \in RoleIds
  <2>1. PICK op, row : op = handler[h].op /\ row = handler[h].mem
    OBVIOUS
  <2> DEFINE s == Request(op, "done", "none", "nothing")
  <2>2. members' = {n \in members : n.id # row.id} \cup {row}
    BY <1>3, <2>1 DEF SaveMember, PutMember, Mem
  <2>3. row \in Known /\ members \subseteq Known
    BY <1>1, <2>1 DEF Known
  <2>4. Moves(h, s)
    BY <1>1, <2>1, EndMoves DEF MemberInv
  <2>5. s.step = "done"
    BY DEF Request
  <2>6. Known' \subseteq Known
    BY <2>2, <2>3, <2>4, <2>5 DEF Known, Moves
  <2>7. \A u : IsMember(u) => IsMember(u)'
    BY SavedStay
  <2>8. MemberRequestOK(h, s)'
    BY <2>5 DEF MemberRequestOK, AcceptsOK, Founding
  <2>. QED
    BY <1>1, <2>4, <2>5, <2>6, <2>7, <2>8, MovesKeep
<1>. QED
  BY <1>2, <1>3

\* An invitation that was accepted stays that of a member: requests that end with
\* other invitations, of the same users.
LEMMA InvitationsKeep ==
    ASSUME MemberInv, NEW h \in Requests, NEW s, Moves(h, s), s.step = "done",
           handler[h].step # "done", UNCHANGED members,
           \A i \in invitations' :
               /\ IsInvitation(i)
               /\ i.status = "accepted" => IsMember(i.user)
               /\ \/ i.id = h
                  \/ \E j \in invitations : i.id = j.id /\ i.user = j.user,
           \A i, j \in invitations' : i.id = h /\ j.id = h => i.user = j.user
    PROVE  MemberInv'
<1>1. /\ \A g \in Requests : handler[g].step = "done" => handler'[g].step = "done"
      /\ \A g : Past(g) => Past(g)'
  BY DoneStays
<1>2. Known' \subseteq Known
  BY DEF Known, Moves
<1>3. MembersInv'
  BY <1>1, <1>2 DEF MemberInv, MembersInv
<1>4. \A i \in invitations : i.id # h
  BY DEF MemberInv, InvitationsInv
<1>5. InvitationsInv'
  <2>1. \A i \in invitations' : IsInvitation(i) /\ i.id \in Requests /\ handler'[i.id].step = "done"
    BY <1>1 DEF MemberInv, InvitationsInv, Moves
  <2>2. \A i, j \in invitations' : i.id = j.id => i.user = j.user
    BY <1>4 DEF MemberInv, InvitationsInv
  <2>. QED
    BY <2>1, <2>2 DEF InvitationsInv
<1>6. AcceptedIsMember'
  BY DEF AcceptedIsMember, IsMember
<1>7. ASSUME NEW t, AcceptsOK(t), t.arg # h PROVE AcceptsOK(t)'
  BY <1>1, <1>7 DEF AcceptsOK, IsMember
<1>8. \A g \in Requests \ {h} : AcceptsOK(handler[g])'
  <2>1. SUFFICES ASSUME NEW g \in Requests \ {h} PROVE AcceptsOK(handler[g])'
    OBVIOUS
  <2>2. PICK t : t = handler[g] /\ t = handler'[g]
    BY DEF Moves
  <2>3. CASE t.op = "accept" /\ t.step \in {"join", "accepted"}
    <3>1. AcceptsOK(t)
      BY <2>2 DEF MemberInv, MemberRequestOK
    <3>2. t.arg # h
      BY <2>3, <3>1 DEF AcceptsOK
    <3>. QED
      BY <1>7, <2>2, <3>1, <3>2
  <2>4. CASE ~(t.op = "accept" /\ t.step \in {"join", "accepted"})
    BY <2>2, <2>4 DEF AcceptsOK
  <2>. QED
    BY <2>3, <2>4
<1>9. \A g \in Requests : MemberRequestOK(g, handler[g])'
  BY <1>8 DEF MemberInv, MemberRequestOK, AcceptsOK, Moves, Founding
<1>. QED
  BY <1>3, <1>5, <1>6, <1>9 DEF MemberInv, Moves

LEMMA InsertKeeps ==
    ASSUME MemberInv, NEW h \in Requests, InsertInvitation(h)
    PROVE  MemberInv'
<1> DEFINE s == Request(handler[h].op, "done", "none", "nothing")
           new == [id |-> h, user |-> Arg(h).user, role |-> Arg(h).role,
                   status |-> "pending", late |-> FALSE]
<1>1. Moves(h, s)
  BY EndMoves DEF InsertInvitation, MemberInv
<1>2. s.step = "done" /\ handler[h].step = "insert" /\ UNCHANGED members
  BY DEF Request, InsertInvitation, At
<1>3. \A i \in invitations' : i \in invitations \/ i = new
  BY DEF InsertInvitation
<1>4. new.id = h /\ new.status = "pending" /\ IsInvitation(new)
  BY DEF IsInvitation
<1>5. \A i \in invitations : i.id # h
  BY <1>2 DEF MemberInv, InvitationsInv
<1>6. \A i \in invitations' :
          /\ IsInvitation(i)
          /\ i.status = "accepted" => IsMember(i.user)
          /\ i.id = h \/ \E j \in invitations : i.id = j.id /\ i.user = j.user
  BY <1>3, <1>4 DEF MemberInv, InvitationsInv, AcceptedIsMember
<1>7. \A i, j \in invitations' : i.id = h /\ j.id = h => i.user = j.user
  BY <1>3, <1>5
<1>. QED
  BY <1>1, <1>2, <1>6, <1>7, InvitationsKeep

LEMMA CloseKeeps ==
    ASSUME MemberInv, NEW h \in Requests, CloseInvitation(h)
    PROVE  MemberInv'
<1> DEFINE s == Request(handler[h].op, "done", "none", "nothing")
<1>1. PICK id, answer :
          /\ SetInvitation(id, answer)
          /\ answer = handler[h].step
          /\ handler[h].op = "accept" => id = Arg(h)
  BY DEF CloseInvitation
<1>2. Moves(h, s)
  BY EndMoves DEF CloseInvitation, MemberInv
<1>3. s.step = "done" /\ handler[h].step # "done" /\ UNCHANGED members
  BY DEF Request, CloseInvitation
<1>4. answer = "accepted" => \A i \in invitations : i.id = id => IsMember(i.user)
  <2>1. SUFFICES ASSUME answer = "accepted"
                 PROVE  \A i \in invitations : i.id = id => IsMember(i.user)
    OBVIOUS
  <2>2. handler[h].step = "accepted" /\ handler[h].op = "accept" /\ AcceptsOK(handler[h])
    BY <1>1, <2>1 DEF MemberInv, MemberRequestOK
  <2>3. id = handler[h].arg
    BY <1>1, <2>2 DEF Arg
  <2>. QED
    BY <2>2, <2>3 DEF AcceptsOK
<1>5. ASSUME NEW i \in invitations'
      PROVE  /\ IsInvitation(i)
             /\ i.status = "accepted" => IsMember(i.user)
             /\ \E j \in invitations : i.id = j.id /\ i.user = j.user
  <2>1. PICK j \in invitations : i = IF j.id = id THEN [j EXCEPT !.status = answer] ELSE j
    BY <1>1 DEF SetInvitation
  <2>2. IsInvitation(j) /\ (j.status = "accepted" => IsMember(j.user))
    BY DEF MemberInv, InvitationsInv, AcceptedIsMember
  <2>3. /\ IsInvitation(i) /\ i.id = j.id /\ i.user = j.user
        /\ i.status = IF j.id = id THEN answer ELSE j.status
    BY <2>1, <2>2 DEF IsInvitation
  <2>. QED
    BY <1>4, <2>2, <2>3
<1>6. \A i, j \in invitations' : i.id = h /\ j.id = h => i.user = j.user
  BY <1>5 DEF MemberInv, InvitationsInv
<1>. QED
  BY <1>2, <1>3, <1>5, <1>6, InvitationsKeep

LEMMA SameMembers ==
    ASSUME MemberInv, UNCHANGED <<handler, members>>
    PROVE  MembersInv' /\ Shape'
<1>1. Known' = Known
  BY DEF Known
<1>2. \A g : Past(g) => Past(g)'
  BY DEF Past
<1>3. MembersInv'
  BY <1>1, <1>2 DEF MemberInv, MembersInv
<1>4. Shape'
  BY DEF MemberInv, Shape
<1>. QED
  BY <1>3, <1>4

LEMMA LapseKeeps ==
    ASSUME MemberInv, NEW id \in Requests, InvitationLapses(id)
    PROVE  MemberInv'
<1>1. UNCHANGED <<handler, members>>
  BY DEF InvitationLapses, svars
<1>2. ASSUME NEW i \in invitations'
      PROVE  /\ IsInvitation(i)
             /\ \E j \in invitations : i.id = j.id /\ i.user = j.user /\ i.status = j.status
  <2>1. PICK j \in invitations : i = IF j.id = id THEN [j EXCEPT !.late = TRUE] ELSE j
    BY DEF InvitationLapses
  <2>2. IsInvitation(j)
    BY DEF MemberInv, InvitationsInv
  <2>. QED
    BY <2>1, <2>2 DEF IsInvitation
<1>3. MembersInv' /\ Shape'
  BY <1>1, SameMembers
<1>4. InvitationsInv'
  BY <1>1, <1>2 DEF MemberInv, InvitationsInv
<1>5. AcceptedIsMember'
  BY <1>1, <1>2 DEF MemberInv, AcceptedIsMember, IsMember
<1>6. ASSUME NEW t, AcceptsOK(t) PROVE AcceptsOK(t)'
  BY <1>1, <1>2, <1>6 DEF AcceptsOK, IsMember
<1>7. \A g \in Requests : MemberRequestOK(g, handler[g])'
  BY <1>1, <1>6 DEF MemberInv, MemberRequestOK
<1>. QED
  BY <1>3, <1>4, <1>5, <1>7 DEF MemberInv

\* acceptInvitation reads the invitation whose user it will make a member.
LEMMA ReadInvitationKeeps ==
    ASSUME MemberInv, NEW h \in Requests, ReadInvitation(h)
    PROVE  MemberInv'
<1>1. At(h, "accept", "start") /\ UNCHANGED <<members, invitations>>
  BY DEF ReadInvitation, mvars
<1>2. PICK id, i, row :
          id = Arg(h) /\ i = Invitation(id) /\ row = MemberRow(h, i.user, i.role, id)
  OBVIOUS
<1>3. CASE End(h) \/ Goto(h, "expired")
  BY <1>1, <1>3, MemberEndKeeps, MemberGotoKeeps DEF At, Founding
<1>4. CASE ~(End(h) \/ Goto(h, "expired"))
  <2> DEFINE s == Request("accept", "join", id, row)
  <2>1. IsPending(id) /\ Keep(h, "join", row)
    BY <1>2, <1>4 DEF ReadInvitation
  <2>2. Moves(h, s)
    BY <1>1, <1>2, <2>1, KeepMoves DEF MemberInv, At, Arg
  <2>3. s.op = "accept" /\ s.step = "join" /\ s.arg = id /\ s.mem = row
    BY DEF Request
  <2>4. PICK j \in invitations : j.id = id /\ i = j
    BY <1>2, <2>1 DEF IsPending, InvitationIds, Invitation
  <2>5. id \in Requests /\ handler[id].step = "done" /\ id # h
    BY <1>1, <2>4 DEF MemberInv, InvitationsInv, At
  <2>6. \A k \in invitations : k.id = id => k.user = i.user
    BY <2>4 DEF MemberInv, InvitationsInv
  <2>7. row.id = h /\ row.user = i.user /\ IsRow(row)
    BY <1>2 DEF MemberRow, IsRow
  <2>8. MemberRequestOK(h, s)'
    BY <1>1, <2>2, <2>3, <2>5, <2>6, <2>7 DEF MemberRequestOK, AcceptsOK, Moves, Founding
  <2>9. Known' \subseteq Known /\ \A u : IsMember(u) => IsMember(u)'
    BY <1>1, <2>2, <2>3 DEF Known, Moves, IsMember
  <2>. QED
    BY <1>1, <2>2, <2>3, <2>8, <2>9, MovesKeep DEF At
<1>. QED
  BY <1>3, <1>4

LEMMA CheckKeeps ==
    ASSUME MemberInv, NEW h \in Requests,
           CheckMember(h) \/ CheckInvite(h) \/ CheckDecline(h) \/ CheckCancel(h)
    PROVE  MemberInv'
<1>1. handler[h].step = "start" /\ UNCHANGED <<members, invitations>>
  BY DEF CheckMember, CheckInvite, CheckDecline, CheckCancel, At, mvars
<1>2. CASE CheckMember(h)
  <2>1. handler[h].op # "accept"
    BY <1>2 DEF CheckMember, At
  <2>2. PICK row : row = MemberRow(h, Arg(h).user, Arg(h).role, h)
    OBVIOUS
  <2>3. row.id = h /\ IsRow(row)
    BY <2>2 DEF MemberRow, IsRow
  <2>4. End(h) \/ Keep(h, "join", row)
    BY <1>2, <2>2 DEF CheckMember
  <2>. QED
    BY <1>1, <2>1, <2>3, <2>4, MemberEndKeeps, MemberKeepKeeps
<1>3. CASE CheckInvite(h) \/ CheckDecline(h) \/ CheckCancel(h)
  <2>1. End(h) \/ \E step \in {"insert", "declined", "cancelled"} : Goto(h, step)
    BY <1>3 DEF CheckInvite, CheckDecline, CheckCancel, Check
  <2>. QED
    BY <1>1, <2>1, MemberEndKeeps, MemberGotoKeeps DEF Founding
<1>. QED
  BY <1>2, <1>3

LEMMA FaultKeeps ==
    ASSUME MemberInv, NEW h \in Requests, MembershipFault(h)
    PROVE  MemberInv'
<1>1. handler[h].step # "done" /\ UNCHANGED <<members, invitations>>
  BY DEF MembershipFault, Running, mvars
<1>2. CASE handler[h].op = "createOrganization" /\ handler[h].step \notin {"start", "undo"}
  <2> DEFINE s == Request(handler[h].op, "undo", handler[h].arg, handler[h].mem)
  <2>1. Moves(h, s)
    BY <1>2 DEF MembershipFault, MemberInv, Shape, Moves, Request
  <2>2. s.step = "undo" /\ handler[h].step # "accepted"
    BY <1>2 DEF Request, MemberInv, MemberRequestOK
  <2>. QED
    BY <1>1, <2>1, <2>2, ReadingKeeps DEF Founding
<1>3. CASE ~(handler[h].op = "createOrganization" /\ handler[h].step \notin {"start", "undo"})
  <2> DEFINE s == Request(handler[h].op, "done", "none", "nothing")
  <2>1. Moves(h, s)
    <3>1. handler' = [handler EXCEPT ![h] = Answered(h)]
      BY <1>3 DEF MembershipFault
    <3>2. Answered(h) = s
      BY AnswerIs
    <3>. QED
      BY <3>1, <3>2 DEF MemberInv, Shape, Moves, Request
  <2>2. s.step = "done"
    BY DEF Request
  <2>. QED
    BY <1>1, <2>1, <2>2, ReadingKeeps DEF Founding
<1>. QED
  BY <1>2, <1>3

LEMMA MemberStepKeeps == MemberInv /\ [MembershipNext]_<<svars, mvars>> => MemberInv'
<1> SUFFICES ASSUME MemberInv, [MembershipNext]_<<svars, mvars>> PROVE MemberInv'
  OBVIOUS
<1>1. CASE UNCHANGED <<svars, mvars>>
  <2>1. UNCHANGED <<handler, members, invitations>>
    BY <1>1 DEF svars, mvars
  <2>2. MembersInv' /\ Shape'
    BY <2>1, SameMembers
  <2>3. InvitationsInv' /\ AcceptedIsMember'
    BY <2>1 DEF MemberInv, InvitationsInv, AcceptedIsMember, IsMember
  <2>4. \A g \in Requests : MemberRequestOK(g, handler[g])'
    BY <2>1 DEF MemberInv, MemberRequestOK, AcceptsOK, IsMember
  <2>. QED
    BY <2>2, <2>3, <2>4 DEF MemberInv
<1>2. ASSUME NEW h \in Requests, MembershipRequest(h) PROVE MemberInv'
  BY <1>2, MemberRequestKeeps
<1>3. ASSUME NEW h \in Requests, MembershipStep(h) PROVE MemberInv'
  BY <1>3, FoundingKeeps, UndoKeeps, CheckKeeps, JoinKeeps, ReadMemberKeeps, SaveMemberKeeps,
     InsertKeeps, ReadInvitationKeeps, CloseKeeps, FaultKeeps DEF MembershipStep
<1>4. ASSUME NEW id \in Requests, InvitationLapses(id) PROVE MemberInv'
  BY <1>4, LapseKeeps
<1>. QED
  BY <1>1, <1>2, <1>3, <1>4 DEF MembershipNext

\* Wherever acceptInvitation, addMember, updateMemberRole, removeMemberFromOrganization
\* and a creation that is undone are interrupted, an invitation is ACCEPTED only of
\* somebody with a membership.
THEOREM OnlyMembersAccepted == MembershipSpec => []AcceptedIsMember
<1>1. MemberInv => AcceptedIsMember
  BY DEF MemberInv
<1>. QED
  BY <1>1, MemberInit, MemberStepKeeps, PTL DEF MembershipSpec

-----------------------------------------------------------------------------
(* Membership, in turn: the founder *)

Creations == {h \in Requests : handler[h].op = "createOrganization"}

FounderThere == Creations # {} /\ founded => IsMember(Founder)

\* What the tables and the only request at work, r, make of an organisation together:
\* before a creation ends, it has inserted what comes before its step, and nobody is a
\* member; it is undone only after a failure.
FounderWaits(r) ==
    IF r.op # "createOrganization" THEN FounderThere
    ELSE /\ r.step \in {"start", "role", "grant", "owner", "join", "undo"}
         /\ r.step = "start" => ~founded
         /\ r.step \in {"role", "grant", "owner", "join"} => founded /\ members = {}
         /\ r.step \in {"role", "grant"} => r.mem \in {1, 2}
         /\ r.step \in {"grant", "owner"} \/ (r.step = "role" /\ r.mem = 2) => HasRole("owner")
         /\ r.step = "join" => r.mem.role \in RoleIds /\ r.mem.user = Founder
         /\ r.step = "undo" => faults > 0

\* The rows of an organisation that is gone have gone.
Orderly ==
    /\ ~founded => roles = {} /\ members = {}
    /\ \A r \in roles : r = [id |-> r.id, name |-> r.name, granted |-> r.granted]

\* The inductive invariant.
FounderInv ==
    /\ faults \in Nat /\ MemberInv
    /\ ~overlapped =>
        /\ OneAtWork /\ Orderly
        /\ \A h \in Requests : Running(h) => FounderWaits(handler[h])
        /\ Quiet => FounderThere

\* A step by one request, among requests that waited for each other.
FounderTurn ==
    FounderInv /\ MemberInv' /\ Turns /\ ~overlapped /\ ~overlapped' /\ faults' \in Nat

LEMMA FounderMoves ==
    ASSUME FounderTurn, NEW h \in Requests, NEW s, Moves(h, s),
           Running(h) \/ s.step \notin {"idle", "done"},
           Orderly',
           IF s.step \in {"idle", "done"} THEN FounderThere' ELSE FounderWaits(s)'
    PROVE  FounderInv'
<1>1. OneAtWork' /\ \A g \in Requests \ {h} : ~Running(g)'
  BY MovesAlone DEF FounderTurn, FounderInv
<1>2. Running(h)' = (s.step \notin {"idle", "done"}) /\ handler'[h] = s
  BY DEF Running, Moves
<1>3. FounderWaits(s)' => FounderWaits(handler[h])'
  BY <1>2 DEF FounderWaits, FounderThere
<1>. QED
  BY <1>1, <1>2, <1>3 DEF FounderInv, FounderTurn, Quiet

\* What is no creation leaves the organisation, and the membership of its founder.
LEMMA FounderStays ==
    ASSUME FounderTurn, NEW h \in Requests, Running(h), NEW s, Moves(h, s), s.op = handler[h].op,
           s.op # "createOrganization", founded' = founded,
           Orderly', IsMember(Founder) => IsMember(Founder)'
    PROVE  FounderInv'
<1>1. FounderThere
  BY DEF FounderTurn, FounderInv, FounderWaits
<1>2. Creations' = Creations
  BY DEF Creations, Moves
<1>3. FounderThere'
  BY <1>1, <1>2 DEF FounderThere
<1>4. FounderWaits(s)'
  BY <1>3 DEF FounderWaits
<1>. QED
  BY <1>3, <1>4, FounderMoves DEF FounderTurn, FounderInv

LEMMA FaultMovesMember ==
    ASSUME Shape, NEW h \in Requests, MembershipFault(h)
    PROVE  \E s : /\ Moves(h, s) /\ s.op = handler[h].op
                  /\ s.step = IF s.op = "createOrganization" /\ handler[h].step \notin {"start", "undo"}
                              THEN "undo" ELSE "done"
<1>1. CASE handler[h].op = "createOrganization" /\ handler[h].step \notin {"start", "undo"}
  <2>1. PICK s : s = Request(handler[h].op, "undo", handler[h].arg, handler[h].mem)
    OBVIOUS
  <2>2. Moves(h, s)
    BY <1>1, <2>1 DEF MembershipFault, Shape, Moves, Request
  <2>. QED
    BY <1>1, <2>1, <2>2 DEF Request
<1>2. CASE ~(handler[h].op = "createOrganization" /\ handler[h].step \notin {"start", "undo"})
  <2>1. PICK s : s = Request(handler[h].op, "done", "none", "nothing")
    OBVIOUS
  <2>2. handler' = [handler EXCEPT ![h] = s]
    BY <1>2, <2>1, AnswerIs DEF MembershipFault
  <2>3. Moves(h, s)
    BY <2>1, <2>2 DEF Shape, Moves, Request
  <2>. QED
    BY <1>2, <2>1, <2>3 DEF Request
<1>. QED
  BY <1>1, <1>2

\* Every step of a request is one of these.
LEMMA MemberStepIs ==
    ASSUME NEW h \in Requests, MembershipStep(h)
    PROVE  /\ Running(h)
           /\ \/ End(h) \/ MembershipFault(h)
              \/ \E step : Goto(h, step)
              \/ \E step, mem : Keep(h, step, mem)
<1>1. CASE InsertOrganization(h) \/ ReadOrganization(h)
  BY <1>1 DEF InsertOrganization, ReadOrganization, At, Running
<1>2. CASE InsertRole(h) \/ GrantRole(h)
  BY <1>2 DEF InsertRole, GrantRole, NextRole, Failed, Running
<1>3. CASE FindOwner(h)
  BY <1>3 DEF FindOwner, Failed, Running
<1>4. CASE UndoOrganization(h) \/ CheckMember(h)
  BY <1>4 DEF UndoOrganization, CheckMember, At, Running
<1>5. CASE Join(h)
  BY <1>5 DEF Join, Check, Failed, Running
<1>6. CASE ReadMember(h)
  BY <1>6 DEF ReadMember, Running
<1>7. CASE SaveMember(h) \/ CheckInvite(h) \/ InsertInvitation(h)
  BY <1>7 DEF SaveMember, CheckInvite, InsertInvitation, Check, At, Running
<1>8. CASE ReadInvitation(h)
  BY <1>8 DEF ReadInvitation, At, Running
<1>9. CASE CheckDecline(h) \/ CheckCancel(h) \/ CloseInvitation(h)
  BY <1>9 DEF CheckDecline, CheckCancel, CloseInvitation, Check, At, Running
<1>10. CASE MembershipFault(h)
  BY <1>10 DEF MembershipFault
<1>. QED
  BY <1>1, <1>2, <1>3, <1>4, <1>5, <1>6, <1>7, <1>8, <1>9, <1>10 DEF MembershipStep

LEMMA MemberStepMoves ==
    ASSUME Shape, NEW h \in Requests, MembershipStep(h)
    PROVE  Running(h) /\ \E s : Moves(h, s) /\ s.op = handler[h].op
BY MemberStepIs, FaultMovesMember, GoesOn, Ends

\* Roles are inserted into an organisation, or changed.
LEMMA RolesStayOrderly ==
    ASSUME Orderly, NEW h \in Requests, InsertRole(h) \/ GrantRole(h) PROVE Orderly'
<1>1. UNCHANGED <<founded, members>>
  BY DEF InsertRole, GrantRole
<1>2. CASE InsertRole(h)
  <2>1. roles' = roles \/ (founded /\ roles' = roles \cup {RoleRow(h, DefaultRoles[Mem(h)], FALSE)})
    BY <1>2 DEF InsertRole
  <2>. QED
    BY <1>1, <2>1 DEF Orderly, RoleRow
<1>3. CASE GrantRole(h)
  <2>1. PICK id : roles' = {IF r.id = id THEN [r EXCEPT !.granted = TRUE] ELSE r : r \in roles}
    BY <1>3 DEF GrantRole
  <2>2. ASSUME NEW q \in roles' PROVE q = [id |-> q.id, name |-> q.name, granted |-> q.granted]
    <3>1. PICK r \in roles : q = IF r.id = id THEN [r EXCEPT !.granted = TRUE] ELSE r
      BY <2>1
    <3>2. r = [id |-> r.id, name |-> r.name, granted |-> r.granted]
      BY DEF Orderly
    <3>. QED
      BY <3>1, <3>2
  <2>3. roles = {} => roles' = {}
    BY <2>1
  <2>. QED
    BY <1>1, <2>2, <2>3 DEF Orderly
<1>. QED
  BY <1>2, <1>3

LEMMA OthersKeepFounder ==
    ASSUME FounderTurn, NEW h \in Requests, MembershipStep(h), handler[h].op # "createOrganization"
    PROVE  FounderInv'
<1>1. PICK s : Running(h) /\ Moves(h, s) /\ s.op = handler[h].op
  BY MemberStepMoves DEF FounderTurn, FounderInv, MemberInv
<1>2. Orderly
  BY DEF FounderTurn, FounderInv
<1>3. ASSUME founded' = founded, Orderly',
             IsMember(Founder) => IsMember(Founder)'
      PROVE  FounderInv'
  BY <1>1, <1>3, FounderStays
<1>4. CASE UNCHANGED <<founded, roles, members>>
  BY <1>2, <1>3, <1>4 DEF IsMember, Orderly
<1>5. CASE InsertRole(h) \/ GrantRole(h)
  <2>1. UNCHANGED <<founded, members>> /\ Orderly'
    BY <1>2, <1>5, RolesStayOrderly DEF InsertRole, GrantRole
  <2>. QED
    BY <1>3, <2>1 DEF IsMember
<1>6. CASE Join(h)
  <2>1. UNCHANGED <<founded, roles>> /\ (~founded => members' = {}) /\ members \subseteq members'
    BY <1>2, <1>6 DEF Join, RoleIds, Orderly
  <2>. QED
    BY <1>2, <1>3, <2>1 DEF IsMember, Orderly
<1>7. CASE SaveMember(h)
  <2>1. UNCHANGED <<founded, roles>> /\ (~founded => members' = {})
    BY <1>2, <1>7 DEF SaveMember, RoleIds, Orderly
  <2>2. IsMember(Founder) => IsMember(Founder)'
    BY <1>7, SavedStay DEF FounderTurn, FounderInv
  <2>. QED
    BY <1>2, <1>3, <2>1, <2>2 DEF Orderly
<1>8. MembershipStep(h) =>
          \/ UNCHANGED <<founded, roles, members>>
          \/ InsertRole(h) \/ GrantRole(h) \/ Join(h) \/ SaveMember(h)
  BY DEF MembershipStep, InsertOrganization, ReadOrganization, FindOwner, UndoOrganization, CheckMember,
         ReadMember, CheckInvite, InsertInvitation, ReadInvitation, CheckDecline, CheckCancel,
         CloseInvitation, MembershipFault, mvars, At
<1>. QED
  BY <1>4, <1>5, <1>6, <1>7, <1>8

LEMMA CreationInTurn ==
    ASSUME FounderTurn, MaxFaults <= 1, NEW h \in Requests, MembershipStep(h),
           handler[h].op = "createOrganization"
    PROVE  FounderInv'
<1>1. Running(h)
  BY MemberStepMoves DEF FounderTurn, FounderInv, MemberInv
<1>2. Shape /\ FounderWaits(handler[h]) /\ Orderly
  BY <1>1 DEF FounderTurn, FounderInv, MemberInv
<1>3. /\ handler[h].step \in {"start", "role", "grant", "owner", "join", "undo"}
      /\ handler[h].step = "start" => ~founded
      /\ handler[h].step \in {"role", "grant", "owner", "join"} => founded /\ members = {}
      /\ handler[h].step \in {"role", "grant"} => handler[h].mem \in {1, 2}
      /\ handler[h].step \in {"grant", "owner"} \/ (handler[h].step = "role" /\ handler[h].mem = 2) =>
             HasRole("owner")
      /\ handler[h].step = "join" => handler[h].mem.role \in RoleIds /\ handler[h].mem.user = Founder
      /\ handler[h].step = "undo" => faults > 0
  BY <1>2 DEF FounderWaits
<1>4. Len(DefaultRoles) = 2 /\ DefaultRoles[1] = "owner"
  BY DEF DefaultRoles
\* A creation that goes on with the roles
<1>5. ASSUME founded', members' = {}, Orderly', NEW step, NEW mem,
             Keep(h, step, mem) \/ (Goto(h, step) /\ mem = handler[h].mem),
             step \in {"role", "grant", "owner"}, step \in {"role", "grant"} => mem \in {1, 2},
             (step = "role" /\ mem = 1) \/ HasRole("owner")'
      PROVE  FounderInv'
  <2>1. PICK s : Moves(h, s) /\ s.op = handler[h].op /\ s.step = step /\ s.mem = mem
    BY <1>2, <1>5, GoesOn
  <2>2. FounderWaits(s)'
    BY <1>5, <2>1 DEF FounderWaits
  <2>. QED
    BY <1>1, <1>5, <2>1, <2>2, FounderMoves
<1>6. ASSUME End(h), Orderly', founded' => IsMember(Founder)'
      PROVE  FounderInv'
  <2>1. PICK s : Moves(h, s) /\ s.step = "done"
    BY <1>2, <1>6, Ends
  <2>2. FounderThere'
    BY <1>6 DEF FounderThere
  <2>. QED
    BY <1>1, <1>6, <2>1, <2>2, FounderMoves
<1>7. ASSUME NEW n \in {1, 2}, NextRole(h, n + 1), founded', members' = {}, Orderly', HasRole("owner")'
      PROVE  FounderInv'
  <2>1. CASE n = 1
    <3>1. Keep(h, "role", 2)
      BY <1>4, <1>7, <2>1 DEF NextRole
    <3>. QED
      BY <1>5, <1>7, <3>1
  <2>2. CASE n = 2
    <3>1. Goto(h, "owner")
      BY <1>4, <1>7, <2>2 DEF NextRole
    <3>2. PICK step, mem : step = "owner" /\ mem = handler[h].mem
      OBVIOUS
    <3>3. Goto(h, step) /\ step \notin {"role", "grant"} /\ step \in {"role", "grant", "owner"}
      BY <3>1, <3>2
    <3>. QED
      BY <1>5, <1>7, <3>2, <3>3
  <2>. QED
    BY <1>7, <2>1, <2>2
<1>8. CASE InsertOrganization(h)
  <2>1. founded' /\ members' = {} /\ Orderly' /\ Keep(h, "role", 1)
    BY <1>2, <1>3, <1>8 DEF InsertOrganization, At, Orderly
  <2>. QED
    BY <1>5, <2>1
<1>9. CASE InsertRole(h)
  <2>1. PICK n : n = handler[h].mem
    OBVIOUS
  <2>2. founded /\ members = {} /\ n \in {1, 2} /\ (n = 2 => HasRole("owner"))
    BY <1>3, <1>9, <2>1 DEF InsertRole
  <2> DEFINE row == RoleRow(h, DefaultRoles[n], FALSE)
  <2>3. roles' = roles \cup {row} /\ Goto(h, "grant") /\ UNCHANGED <<founded, members>>
    BY <1>9, <2>1, <2>2 DEF InsertRole, Mem
  <2>4. HasRole("owner")'
    <3>1. CASE n = 1
      <4>1. row \in roles' /\ row.name = "owner"
        BY <1>4, <2>3, <3>1 DEF RoleRow
      <4>. QED
        BY <4>1 DEF HasRole
    <3>2. CASE n = 2
      BY <2>2, <2>3, <3>2 DEF HasRole
    <3>. QED
      BY <2>2, <3>1, <3>2
  <2>5. Orderly'
    BY <1>2, <1>9, RolesStayOrderly
  <2>. QED
    BY <1>5, <2>1, <2>2, <2>3, <2>4, <2>5
<1>10. CASE GrantRole(h)
  <2>1. PICK n : n = handler[h].mem
    OBVIOUS
  <2>2. founded /\ members = {} /\ n \in {1, 2} /\ HasRole("owner")
    BY <1>3, <1>10, <2>1 DEF GrantRole
  <2> DEFINE id == <<h, DefaultRoles[n]>>
  <2>3. /\ roles' = {IF r.id = id THEN [r EXCEPT !.granted = TRUE] ELSE r : r \in roles}
        /\ NextRole(h, n + 1) /\ UNCHANGED <<founded, members>>
    BY <1>10, <2>1 DEF GrantRole, Mem
  <2> HIDE DEF id
  <2>4. HasRole("owner")'
    <3>1. PICK r \in roles : r.name = "owner"
      BY <2>2 DEF HasRole
    <3>2. PICK q : q = IF r.id = id THEN [r EXCEPT !.granted = TRUE] ELSE r
      OBVIOUS
    <3>3. r = [id |-> r.id, name |-> r.name, granted |-> r.granted]
      BY <1>2 DEF Orderly
    <3>4. q.name = "owner" /\ q \in roles'
      BY <2>3, <3>1, <3>2, <3>3
    <3>. QED
      BY <3>4 DEF HasRole
  <2>5. Orderly'
    BY <1>2, <1>10, RolesStayOrderly
  <2>. QED
    BY <1>7, <2>2, <2>3, <2>4, <2>5
<1>11. CASE FindOwner(h)
  <2>1. /\ founded /\ members = {} /\ HasRole("owner") /\ ~IsMember(Founder)
        /\ UNCHANGED <<founded, roles, members>>
    BY <1>3, <1>11 DEF FindOwner, IsMember, mvars
  <2>2. PICK r \in roles : Keep(h, "join", MemberRow(h, Founder, r.id, h))
    BY <1>11, <2>1 DEF FindOwner
  <2>3. PICK mem : mem = MemberRow(h, Founder, r.id, h)
    OBVIOUS
  <2>4. mem.role \in RoleIds /\ mem.user = Founder
    BY <2>3 DEF MemberRow, RoleIds
  <2>5. PICK s : Moves(h, s) /\ s.op = handler[h].op /\ s.step = "join" /\ s.mem = mem
    BY <1>2, <2>2, <2>3, GoesOn
  <2>6. FounderWaits(s)'
    BY <2>1, <2>4, <2>5 DEF FounderWaits, RoleIds
  <2>. QED
    BY <1>1, <1>2, <2>1, <2>5, <2>6, FounderMoves DEF Orderly
<1>12. CASE UndoOrganization(h)
  BY <1>6, <1>12 DEF UndoOrganization, Orderly
<1>13. CASE Join(h)
  <2>1. members' = members \cup {Mem(h)} /\ Mem(h).user = Founder /\ End(h) /\ UNCHANGED <<founded, roles>>
        /\ founded
    BY <1>3, <1>13 DEF Join, Mem, Check
  <2>. QED
    BY <1>2, <1>6, <2>1 DEF IsMember, Orderly
<1>14. CASE MembershipFault(h)
  <2>1. /\ faults < MaxFaults /\ faults' = faults + 1 /\ faults \in Nat
        /\ UNCHANGED <<founded, roles, members>>
    BY <1>14 DEF MembershipFault, mvars, FounderTurn, FounderInv
  <2>2. handler[h].step # "undo" /\ faults' > 0
    BY <1>3, <2>1, ServerAssumption
  <2>3. PICK s : /\ Moves(h, s) /\ s.op = handler[h].op
                 /\ s.step = IF s.op = "createOrganization" /\ handler[h].step \notin {"start", "undo"}
                             THEN "undo" ELSE "done"
    BY <1>2, <1>14, FaultMovesMember
  <2>4. IF s.step = "done" THEN FounderThere' ELSE s.step = "undo" /\ FounderWaits(s)'
    BY <1>3, <2>1, <2>2, <2>3 DEF FounderWaits, FounderThere
  <2>. QED
    BY <1>1, <1>2, <2>1, <2>3, <2>4, FounderMoves DEF Orderly
<1>15. ~(ReadOrganization(h) \/ CheckMember(h) \/ ReadMember(h) \/ SaveMember(h) \/ CheckInvite(h)
         \/ InsertInvitation(h) \/ ReadInvitation(h) \/ CheckDecline(h) \/ CheckCancel(h)
         \/ CloseInvitation(h))
  BY <1>3 DEF ReadOrganization, CheckMember, ReadMember, SaveMember, CheckInvite, InsertInvitation,
              ReadInvitation, CheckDecline, CheckCancel, CloseInvitation, At
<1>. QED
  BY <1>8, <1>9, <1>10, <1>11, <1>12, <1>13, <1>14, <1>15 DEF MembershipStep

LEMMA FounderAsked ==
    ASSUME FounderTurn, NEW h \in Requests, MembershipRequest(h) PROVE FounderInv'
<1>1. PICK op, arg : Ask(h, op, arg) /\ (op = "createOrganization" => ~founded)
  <2>1. ~founded /\ Ask(h, "createOrganization", "none") => \E op, arg : Ask(h, op, arg) /\ ~founded
    OBVIOUS
  <2>2. \/ ~founded /\ Ask(h, "createOrganization", "none")
        \/ \E op \in {"migrate", "addMember", "invite", "removeMember", "changeRole", "accept", "decline",
                       "cancel"} : \E arg : Ask(h, op, arg)
    BY DEF MembershipRequest
  <2>. QED
    BY <2>1, <2>2
<1>2. PICK s : s = Request(op, "start", arg, "nothing")
  OBVIOUS
<1>3. Moves(h, s) /\ handler[h].step = "idle" /\ s.step = "start" /\ s.op = op /\ UNCHANGED mvars
  BY <1>1, <1>2, AskMoves DEF FounderTurn, FounderInv, MemberInv, Request, MembershipRequest
<1>4. \A g \in Requests \ {h} : ~Running(g)
  BY <1>3, MovesAlone DEF FounderTurn, FounderInv
<1>5. FounderThere /\ Orderly /\ Orderly'
  BY <1>3, <1>4 DEF FounderTurn, FounderInv, Quiet, Running, Orderly, mvars
<1>6. CASE op = "createOrganization"
  <2>1. FounderWaits(s)'
    BY <1>1, <1>3, <1>6 DEF FounderWaits, mvars
  <2>. QED
    BY <1>3, <1>5, <2>1, FounderMoves
<1>7. CASE op # "createOrganization"
  <2>1. Creations' \subseteq Creations
    BY <1>3, <1>7 DEF Creations, Moves
  <2>2. FounderWaits(s)'
    BY <1>3, <1>5, <1>7, <2>1 DEF FounderWaits, FounderThere, mvars, IsMember
  <2>. QED
    BY <1>3, <1>5, <2>2, FounderMoves
<1>. QED
  BY <1>6, <1>7

LEMMA FounderInit == SInit /\ MembershipInit => FounderInv
<1> SUFFICES ASSUME SInit, MembershipInit PROVE FounderInv
  OBVIOUS
<1>1. \A h \in Requests : ~Running(h) /\ handler[h].op = "none"
  BY DEF SInit, Idle, Running
<1>2. FounderThere /\ Orderly
  BY <1>1 DEF FounderThere, Creations, MembershipInit, Orderly, RoleRow
<1>. QED
  BY <1>1, <1>2, MemberInit DEF FounderInv, OneAtWork, SInit

LEMMA MemberFaults ==
    ASSUME NEW h \in Requests, MembershipRequest(h) \/ (MembershipStep(h) /\ ~MembershipFault(h))
    PROVE  UNCHANGED faults
<1>1. CASE MembershipRequest(h)
  BY <1>1 DEF MembershipRequest, Ask
<1>2. CASE MembershipStep(h) /\ ~MembershipFault(h)
  BY <1>2, MemberStepIs DEF End, Goto, Keep
<1>. QED
  BY <1>1, <1>2

LEMMA FounderNext ==
    ASSUME MaxFaults <= 1
    PROVE  FounderInv /\ [MembershipNext /\ Turns]_<<svars, mvars, overlapped>> => FounderInv'
<1> SUFFICES ASSUME FounderInv, [MembershipNext /\ Turns]_<<svars, mvars, overlapped>> PROVE FounderInv'
  OBVIOUS
<1>1. MemberInv'
  BY MemberStepKeeps DEF FounderInv, svars, mvars
<1>2. ASSUME UNCHANGED <<svars, founded, roles, members>>, Turns \/ UNCHANGED overlapped PROVE FounderInv'
  <2> SUFFICES ASSUME ~overlapped' PROVE FounderInv'
    BY <1>1, <1>2 DEF FounderInv, svars
  <2>1. ~overlapped
    BY <1>2, TurnBefore
  <2>. QED
    BY <1>1, <1>2, <2>1 DEF svars, FounderInv, OneAtWork, Quiet, Running, FounderWaits, FounderThere,
                            Creations, IsMember, HasRole, RoleIds, Orderly
<1>3. CASE UNCHANGED <<svars, mvars, overlapped>>
  BY <1>2, <1>3 DEF mvars
<1>4. ASSUME NEW id \in Requests, InvitationLapses(id), Turns PROVE FounderInv'
  BY <1>2, <1>4 DEF InvitationLapses
<1>5. ASSUME NEW h \in Requests, MembershipRequest(h) \/ MembershipStep(h), Turns PROVE FounderInv'
  <2>1. faults' \in Nat
    BY <1>5, MemberFaults DEF FounderInv, MembershipFault
  <2>2. CASE overlapped'
    BY <1>1, <2>1, <2>2 DEF FounderInv
  <2>3. CASE ~overlapped'
    <3>1. FounderTurn
      BY <1>1, <1>5, <2>1, <2>3, TurnBefore DEF FounderTurn
    <3>. QED
      BY <1>5, <3>1, FounderAsked, OthersKeepFounder, CreationInTurn
  <2>. QED
    BY <2>2, <2>3
<1>. QED
  BY <1>3, <1>4, <1>5 DEF MembershipNext

-----------------------------------------------------------------------------
(* Membership, in turn: nobody twice *)

Settled(i) == i.status \notin {"pending", "declined"}

AllSettled == \A m \in members, i \in invitations : m.via = i.id => Settled(i)

\* No two rows of a user, or of an invitation; a membership is made by a request that
\* has written it, or of an invitation that was inserted.
Single ==
    /\ \A m, n \in members : m.user = n.user => m = n
    /\ \A m \in members : m.via = "first" \/ Past(m.via)
    /\ \A i, j \in invitations : i.id = j.id => i = j

AllPending(id) == \A i \in invitations : i.id = id => i.status = "pending"

\* What the tables and the only request at work, r, make of a membership together.
SingleWaits(r) ==
    /\ r.step = "join" => /\ ~IsMember(r.mem.user)
                          /\ r.mem.via = IF r.op = "accept" THEN r.arg ELSE r.mem.id
                          /\ r.op = "accept" => AllPending(r.arg)
    /\ r.step = "save" =>
           \E m \in members : m.id = r.mem.id /\ m.user = r.mem.user /\ m.via = r.mem.via
    /\ r.step = "declined" => r.op = "decline" /\ AllPending(r.arg)
    /\ \A m \in members, i \in invitations : m.via = i.id =>
           \/ Settled(i)
           \/ i.status = "pending" /\ r.op = "accept" /\ r.step = "accepted" /\ r.arg = i.id

\* The inductive invariant.
SingleInv ==
    /\ FounderInv
    /\ Undisturbed =>
        /\ Single
        /\ \A h \in Requests : Running(h) => SingleWaits(handler[h])
        /\ Quiet => AllSettled

\* A step by one request, among requests that waited for each other and did not fail.
SingleTurn == SingleInv /\ FounderInv' /\ Turns /\ Undisturbed /\ Undisturbed'

LEMMA SingleMoves ==
    ASSUME SingleTurn, NEW h \in Requests, NEW s, Moves(h, s),
           Running(h) \/ s.step \notin {"idle", "done"}, Single',
           IF s.step \in {"idle", "done"} THEN AllSettled' ELSE SingleWaits(s)'
    PROVE  SingleInv'
<1>1. OneAtWork
  BY DEF SingleTurn, SingleInv, FounderInv, Undisturbed
<1>2. \A g \in Requests \ {h} : ~Running(g)'
  BY <1>1, MovesAlone DEF SingleTurn, Undisturbed
<1>3. Running(h)' = (s.step \notin {"idle", "done"}) /\ handler'[h] = s
  BY DEF Running, Moves
<1>4. SingleWaits(s)' => SingleWaits(handler[h])'
  BY <1>3 DEF SingleWaits, AllPending
<1>. QED
  BY <1>2, <1>3, <1>4 DEF SingleInv, SingleTurn, Quiet

\* What holds before a step of a request
LEMMA SingleFound ==
    ASSUME SingleTurn, NEW h \in Requests, Running(h)
    PROVE  /\ Shape /\ Single /\ SingleWaits(handler[h]) /\ MemberInv
           /\ MemberRequestOK(h, handler[h]) /\ FounderWaits(handler[h])
           /\ handler[h].step # "accepted" => AllSettled
<1>1. Single /\ SingleWaits(handler[h])
  BY DEF SingleTurn, SingleInv
<1>2. MemberInv /\ FounderWaits(handler[h])
  BY DEF SingleTurn, SingleInv, FounderInv, Undisturbed
<1>3. Shape /\ MemberRequestOK(h, handler[h])
  BY <1>2 DEF MemberInv
<1>4. handler[h].step # "accepted" => AllSettled
  BY <1>1 DEF SingleWaits, AllSettled
<1>. QED
  BY <1>1, <1>2, <1>3, <1>4

\* The rows are those of before, and requests that have written one stay at their end.
LEMMA SingleStays ==
    ASSUME Single, NEW h \in Requests, NEW s, Moves(h, s), Running(h),
           handler[h].step = "accepted" => s.step = "done",
           UNCHANGED <<members, invitations>>
    PROVE  Single'
<1>1. \A g : Past(g) => Past(g)'
  BY DoneStays DEF Running
<1>. QED
  BY <1>1 DEF Single

\* A request that writes no membership and no invitation, and is not about to
LEMMA SingleGoes ==
    ASSUME SingleTurn, NEW h \in Requests, Running(h), handler[h].step # "accepted",
           \/ End(h)
           \/ \E step : /\ step \notin {"join", "save", "declined"}
                        /\ Goto(h, step) \/ \E mem : Keep(h, step, mem),
           UNCHANGED <<members, invitations>>
    PROVE  SingleInv'
<1>1. Shape /\ Single /\ AllSettled
  BY SingleFound
<1>2. PICK s : Moves(h, s) /\ s.step \notin {"join", "save", "declined"}
  BY <1>1, GoesOn, Ends
<1>3. Single'
  BY <1>1, <1>2, SingleStays
<1>4. AllSettled'
  BY <1>1 DEF AllSettled, Settled
<1>5. SingleWaits(s)'
  BY <1>2, <1>4 DEF SingleWaits, AllSettled, Settled
<1>. QED
  BY <1>2, <1>3, <1>4, <1>5, SingleMoves

LEMMA SingleAsked ==
    ASSUME SingleTurn, NEW h \in Requests, MembershipRequest(h) PROVE SingleInv'
<1>1. PICK op, arg : Ask(h, op, arg)
  BY DEF MembershipRequest
<1>2. PICK s : s = Request(op, "start", arg, "nothing")
  OBVIOUS
<1>3. Shape /\ OneAtWork /\ ~overlapped' /\ Single
  BY DEF SingleTurn, SingleInv, FounderInv, MemberInv, Undisturbed
<1>4. Moves(h, s) /\ handler[h].step = "idle" /\ s.step = "start" /\ UNCHANGED mvars
  BY <1>1, <1>2, <1>3, AskMoves DEF Request, MembershipRequest
<1>5. \A g \in Requests \ {h} : ~Running(g)
  BY <1>3, <1>4, MovesAlone DEF SingleTurn
<1>6. AllSettled
  BY <1>4, <1>5 DEF SingleTurn, SingleInv, Quiet, Running
<1>7. \A g : Past(g) => Past(g)'
  BY <1>4, DoneStays
<1>8. Single'
  BY <1>3, <1>4, <1>7 DEF Single, mvars
<1>9. SingleWaits(s)'
  BY <1>4, <1>6 DEF SingleWaits, AllSettled, Settled, mvars
<1>. QED
  BY <1>4, <1>8, <1>9, SingleMoves

\* createOrganizationWithOwner and migrateOrganization, up to the membership
LEMMA FoundingSingle ==
    ASSUME SingleTurn, NEW h \in Requests, Running(h),
           \/ InsertOrganization(h) \/ ReadOrganization(h) \/ InsertRole(h) \/ GrantRole(h)
           \/ UndoOrganization(h) \/ CheckInvite(h) \/ CheckCancel(h)
    PROVE  SingleInv'
<1>1. FounderWaits(handler[h])
  BY SingleFound
<1>2. ~UndoOrganization(h)
  BY <1>1 DEF UndoOrganization, FounderWaits, At, SingleTurn, Undisturbed
<1>3. UNCHANGED <<members, invitations>> /\ handler[h].step # "accepted"
  BY <1>2 DEF InsertOrganization, ReadOrganization, InsertRole, GrantRole, CheckInvite, CheckCancel, At, mvars
<1>4. \/ End(h) \/ Goto(h, "undo") \/ Goto(h, "grant") \/ Goto(h, "owner")
      \/ Goto(h, "insert") \/ Goto(h, "cancelled") \/ \E mem : Keep(h, "role", mem)
  BY <1>2 DEF InsertOrganization, ReadOrganization, InsertRole, GrantRole, NextRole, Failed, CheckInvite,
              CheckCancel, Check
<1>5. \/ End(h)
      \/ \E step : /\ step \notin {"join", "save", "declined"}
                   /\ Goto(h, step) \/ \E mem : Keep(h, step, mem)
  BY <1>4
<1>. QED
  BY <1>3, <1>5, SingleGoes

\* A request is about to make somebody a member who is none yet.
LEMMA JoinsSingle ==
    ASSUME SingleTurn, NEW h \in Requests, Running(h), handler[h].step # "accepted",
           NEW mem, Keep(h, "join", mem), ~IsMember(mem.user),
           mem.via = IF handler[h].op = "accept" THEN handler[h].arg ELSE mem.id,
           handler[h].op = "accept" => AllPending(handler[h].arg),
           UNCHANGED <<members, invitations>>
    PROVE  SingleInv'
<1>1. Shape /\ Single /\ AllSettled
  BY SingleFound
<1>2. PICK s : /\ Moves(h, s) /\ s.op = handler[h].op /\ s.step = "join"
               /\ s.arg = handler[h].arg /\ s.mem = mem
  BY <1>1, GoesOn
<1>3. Single'
  BY <1>1, <1>2, SingleStays
<1>4. SingleWaits(s)'
  BY <1>1, <1>2 DEF SingleWaits, AllSettled, Settled, AllPending, IsMember
<1>. QED
  BY <1>2, <1>3, <1>4, SingleMoves

LEMMA OwnerSingle ==
    ASSUME SingleTurn, NEW h \in Requests, Running(h), FindOwner(h) PROVE SingleInv'
<1>1. UNCHANGED <<members, invitations>> /\ handler[h].step = "owner"
  BY DEF FindOwner, mvars
<1>2. handler[h].op # "accept"
  BY <1>1, SingleFound DEF MemberRequestOK, Founding
<1>3. CASE ~IsMember(Founder) /\ HasRole("owner")
  <2>1. PICK r \in roles : Keep(h, "join", MemberRow(h, Founder, r.id, h))
    BY <1>3 DEF FindOwner
  <2>2. PICK mem : mem = MemberRow(h, Founder, r.id, h)
    OBVIOUS
  <2>3. Keep(h, "join", mem) /\ mem.user = Founder /\ mem.via = mem.id
    BY <2>1, <2>2 DEF MemberRow
  <2>. QED
    BY <1>1, <1>2, <1>3, <2>3, JoinsSingle
<1>4. CASE ~(~IsMember(Founder) /\ HasRole("owner"))
  <2>1. End(h) \/ Goto(h, "undo")
    BY <1>4 DEF FindOwner, Failed
  <2>2. \/ End(h)
        \/ \E step : /\ step \notin {"join", "save", "declined"}
                     /\ Goto(h, step) \/ \E mem : Keep(h, step, mem)
    BY <2>1
  <2>. QED
    BY <1>1, <2>2, SingleGoes
<1>. QED
  BY <1>3, <1>4

LEMMA AddSingle ==
    ASSUME SingleTurn, NEW h \in Requests, Running(h), CheckMember(h) PROVE SingleInv'
<1>1. UNCHANGED <<members, invitations>> /\ handler[h].step = "start" /\ handler[h].op = "addMember"
  BY DEF CheckMember, mvars, At
<1>2. CASE ~IsMember(Arg(h).user) /\ Arg(h).role \in RoleIds
  <2>1. PICK mem : mem = MemberRow(h, Arg(h).user, Arg(h).role, h)
    OBVIOUS
  <2>2. Keep(h, "join", mem) /\ mem.user = Arg(h).user /\ mem.via = mem.id
    BY <1>2, <2>1 DEF MemberRow, CheckMember
  <2>. QED
    BY <1>1, <1>2, <2>2, JoinsSingle
<1>3. CASE ~(~IsMember(Arg(h).user) /\ Arg(h).role \in RoleIds)
  BY <1>1, <1>3, SingleGoes DEF CheckMember
<1>. QED
  BY <1>2, <1>3

\* Of invitations of one id there is one.
LEMMA PendingIs ==
    ASSUME Single, NEW id, IsPending(id)
    PROVE  AllPending(id) /\ Invitation(id) \in invitations /\ Invitation(id).id = id
<1>1. PICK i \in invitations : i.id = id
  BY DEF IsPending, InvitationIds
<1>2. Invitation(id) \in invitations /\ Invitation(id).id = id
  BY <1>1 DEF Invitation
<1>. QED
  BY <1>2 DEF Single, AllPending, IsPending

LEMMA AcceptSingle ==
    ASSUME SingleTurn, NEW h \in Requests, Running(h), ReadInvitation(h) PROVE SingleInv'
<1>1. UNCHANGED <<members, invitations>> /\ handler[h].step = "start" /\ handler[h].op = "accept"
  BY DEF ReadInvitation, mvars, At
<1>2. PICK id, i : id = Arg(h) /\ i = Invitation(id)
  OBVIOUS
<1>3. CASE IsPending(id) /\ ~i.late /\ ~IsMember(i.user)
  <2>1. PICK mem : mem = MemberRow(h, i.user, i.role, id)
    OBVIOUS
  <2>2. Keep(h, "join", mem) /\ mem.user = i.user /\ mem.via = handler[h].arg
    BY <1>2, <1>3, <2>1 DEF MemberRow, ReadInvitation, Arg
  <2>3. AllPending(handler[h].arg)
    BY <1>2, <1>3, SingleFound, PendingIs DEF Arg
  <2>. QED
    BY <1>1, <1>3, <2>2, <2>3, JoinsSingle
<1>4. CASE ~(IsPending(id) /\ ~i.late /\ ~IsMember(i.user))
  <2>1. End(h) \/ Goto(h, "expired")
    BY <1>2, <1>4 DEF ReadInvitation
  <2>2. \/ End(h)
        \/ \E step : /\ step \notin {"join", "save", "declined"}
                     /\ Goto(h, step) \/ \E mem : Keep(h, step, mem)
    BY <2>1
  <2>. QED
    BY <1>1, <2>2, SingleGoes
<1>. QED
  BY <1>3, <1>4

LEMMA DeclineSingle ==
    ASSUME SingleTurn, NEW h \in Requests, Running(h), CheckDecline(h) PROVE SingleInv'
<1>1. UNCHANGED <<members, invitations>> /\ handler[h].step = "start" /\ handler[h].op = "decline"
  BY DEF CheckDecline, mvars, At
<1>2. CASE IsPending(Arg(h))
  <2>1. Shape /\ Single /\ AllSettled
    BY <1>1, SingleFound
  <2>2. Goto(h, "declined")
    BY <1>2 DEF CheckDecline, Check
  <2>3. PICK mem : mem = handler[h].mem
    OBVIOUS
  <2>4. PICK s : /\ Moves(h, s) /\ s.op = handler[h].op /\ s.step = "declined"
                 /\ s.arg = handler[h].arg
    BY <2>1, <2>2, <2>3, GoesOn
  <2>5. Single'
    BY <1>1, <2>1, <2>4, SingleStays
  <2>6. AllPending(s.arg)
    BY <1>2, <2>1, <2>4, PendingIs DEF Arg
  <2>7. SingleWaits(s)'
    BY <1>1, <2>1, <2>4, <2>6 DEF SingleWaits, AllSettled, Settled, AllPending
  <2>. QED
    BY <2>4, <2>5, <2>7, SingleMoves
<1>3. CASE ~IsPending(Arg(h))
  BY <1>1, <1>3, SingleGoes DEF CheckDecline, Check
<1>. QED
  BY <1>2, <1>3

\* Who was nobody becomes a member, by the request or by its invitation.
LEMMA JoinSingle ==
    ASSUME SingleTurn, NEW h \in Requests, Running(h), Join(h) PROVE SingleInv'
<1>1. handler[h].step = "join" /\ UNCHANGED invitations
  BY DEF Join
<1>2. Shape /\ Single /\ AllSettled /\ MemberRequestOK(h, handler[h]) /\ InvitationsInv
  BY <1>1, SingleFound DEF MemberInv
<1>3. PICK mem : mem = Mem(h)
  OBVIOUS
<1>4. /\ mem.id = h /\ ~IsMember(mem.user)
      /\ mem.via = IF handler[h].op = "accept" THEN handler[h].arg ELSE h
      /\ handler[h].op = "accept" => AllPending(handler[h].arg)
  BY <1>1, <1>2, <1>3, SingleFound DEF SingleWaits, MemberRequestOK, Mem
<1>5. CASE Mem(h).role \in RoleIds
  <2>1. members' = members \cup {mem} /\ Check(h, handler[h].op = "accept", "accepted")
    BY <1>3, <1>5 DEF Join
  <2>2. PICK arg, kept : arg = handler[h].arg /\ kept = handler[h].mem
    OBVIOUS
  <2>3. PICK s : /\ Moves(h, s) /\ s.op = handler[h].op
                 /\ s.step = IF handler[h].op = "accept" THEN "accepted" ELSE "done"
                 /\ handler[h].op = "accept" => s.arg = handler[h].arg
    BY <1>2, <2>1, <2>2, GoesOn, Ends DEF Check
  <2>4. \A g : Past(g) => Past(g)'
    BY <1>1, <2>3, DoneStays
  <2>5. Past(mem.via)'
    <3>1. CASE handler[h].op = "accept"
      BY <1>1, <1>2, <1>4, <2>4, <3>1 DEF MemberRequestOK, AcceptsOK, Past
    <3>2. CASE handler[h].op # "accept"
      BY <1>4, <2>3, <3>2 DEF Past, Moves
    <3>. QED
      BY <3>1, <3>2
  <2>6. Single'
    <3>1. \A m, n \in members' : m.user = n.user => m = n
      BY <1>2, <1>4, <2>1 DEF Single, IsMember
    <3>2. \A m \in members' : m.via = "first" \/ Past(m.via)'
      BY <1>2, <2>1, <2>4, <2>5 DEF Single
    <3>3. \A i, j \in invitations' : i.id = j.id => i = j
      BY <1>1, <1>2 DEF Single
    <3>. QED
      BY <3>1, <3>2, <3>3 DEF Single
  <2>7. ASSUME NEW m \in members', NEW i \in invitations', m.via = i.id
        PROVE  Settled(i) \/ (i.status = "pending" /\ handler[h].op = "accept" /\ i.id = handler[h].arg)
    <3>1. CASE m \in members
      BY <1>1, <1>2, <2>7, <3>1 DEF AllSettled
    <3>2. CASE m = mem
      <4>1. handler[i.id].step = "done"
        BY <1>1, <1>2 DEF InvitationsInv
      <4>. QED
        BY <1>1, <1>4, <2>7, <3>2, <4>1 DEF AllPending
    <3>. QED
      BY <2>1, <3>1, <3>2
  <2>8. CASE handler[h].op = "accept"
    <3>1. SingleWaits(s)'
      BY <2>3, <2>7, <2>8 DEF SingleWaits, Settled
    <3>. QED
      BY <2>3, <2>6, <2>8, <3>1, SingleMoves
  <2>9. CASE handler[h].op # "accept"
    <3>1. AllSettled'
      BY <2>7, <2>9 DEF AllSettled, Settled
    <3>. QED
      BY <2>3, <2>6, <2>9, <3>1, SingleMoves
  <2>. QED
    BY <2>8, <2>9
<1>6. CASE Mem(h).role \notin RoleIds
  <2>1. UNCHANGED members /\ (End(h) \/ Goto(h, "undo"))
    BY <1>6 DEF Join, Failed
  <2>2. \/ End(h)
        \/ \E step : /\ step \notin {"join", "save", "declined"}
                     /\ Goto(h, step) \/ \E m : Keep(h, step, m)
    BY <2>1
  <2>. QED
    BY <1>1, <2>1, <2>2, SingleGoes
<1>. QED
  BY <1>5, <1>6

LEMMA ReadMemberSingle ==
    ASSUME SingleTurn, NEW h \in Requests, Running(h), ReadMember(h) PROVE SingleInv'
<1>1. UNCHANGED <<members, invitations>> /\ handler[h].step = "start"
  BY DEF ReadMember, mvars
<1>2. Shape /\ Single /\ AllSettled /\ MembersInv
  BY <1>1, SingleFound DEF MemberInv
<1>3. CASE End(h)
  BY <1>1, <1>3, SingleGoes
<1>4. CASE ~End(h)
  <2>1. PICK m \in members :
           Keep(h, "save", IF handler[h].op = "changeRole" THEN [m EXCEPT !.role = Arg(h).role]
                           ELSE [m EXCEPT !.status = "left"])
    BY <1>4 DEF ReadMember
  <2>2. PICK mem : mem = IF handler[h].op = "changeRole" THEN [m EXCEPT !.role = Arg(h).role]
                         ELSE [m EXCEPT !.status = "left"]
    OBVIOUS
  <2>3. IsRow(m)
    BY <1>2 DEF MembersInv, Known
  <2>4. mem.id = m.id /\ mem.user = m.user /\ mem.via = m.via
    BY <2>2, <2>3 DEF IsRow
  <2>5. Keep(h, "save", mem)
    BY <2>1, <2>2
  <2>6. PICK s : Moves(h, s) /\ s.step = "save" /\ s.mem = mem
    BY <1>2, <2>5, GoesOn
  <2>7. Single'
    BY <1>1, <1>2, <2>6, SingleStays
  <2>8. SingleWaits(s)'
    BY <1>1, <1>2, <2>4, <2>6 DEF SingleWaits, AllSettled, Settled
  <2>. QED
    BY <2>6, <2>7, <2>8, SingleMoves
<1>. QED
  BY <1>3, <1>4

\* The row that was read is replaced.
LEMMA SaveSingle ==
    ASSUME SingleTurn, NEW h \in Requests, Running(h), SaveMember(h) PROVE SingleInv'
<1>1. handler[h].step = "save" /\ UNCHANGED invitations /\ End(h)
  BY DEF SaveMember
<1>2. Shape /\ Single /\ AllSettled /\ SingleWaits(handler[h])
  BY <1>1, SingleFound
<1>3. PICK mem : mem = Mem(h)
  OBVIOUS
<1>4. PICK o \in members : o.id = mem.id /\ o.user = mem.user /\ o.via = mem.via
  BY <1>1, <1>2, <1>3 DEF SingleWaits, Mem
<1>5. CASE Mem(h).role \in RoleIds
  <2>1. members' = {n \in members : n.id # mem.id} \cup {mem}
    BY <1>3, <1>5 DEF SaveMember, PutMember
  <2>2. PICK s : Moves(h, s) /\ s.step = "done"
    BY <1>1, <1>2, Ends
  <2>3. \A g : Past(g) => Past(g)'
    BY <1>1, <2>2, DoneStays
  <2>4. \A n \in members' : n = mem \/ (n \in members /\ n.id # mem.id /\ n.user # mem.user)
    BY <1>2, <1>4, <2>1 DEF Single
  <2>5. \A m, n \in members' : m.user = n.user => m = n
    BY <1>2, <2>4 DEF Single
  <2>6. \A m \in members' : \E n \in members : m.via = n.via
    BY <1>4, <2>4
  <2>7. Single'
    BY <1>1, <1>2, <2>3, <2>5, <2>6 DEF Single
  <2>8. AllSettled'
    BY <1>1, <1>2, <2>6 DEF AllSettled, Settled
  <2>. QED
    BY <2>2, <2>7, <2>8, SingleMoves
<1>6. CASE Mem(h).role \notin RoleIds
  BY <1>1, <1>6, SingleGoes DEF SaveMember
<1>. QED
  BY <1>5, <1>6

\* Nobody can be a member by an invitation that is only inserted.
LEMMA InsertSingle ==
    ASSUME SingleTurn, NEW h \in Requests, Running(h), InsertInvitation(h) PROVE SingleInv'
<1>1. /\ handler[h].op = "invite" /\ handler[h].step = "insert" /\ End(h) /\ UNCHANGED members
      /\ \/ invitations' = invitations
         \/ \E row : row.id = h /\ row.status = "pending" /\ invitations' = invitations \cup {row}
  <2>1. PICK row : row = [id |-> h, user |-> Arg(h).user, role |-> Arg(h).role,
                          status |-> "pending", late |-> FALSE]
    OBVIOUS
  <2>2. row.id = h /\ row.status = "pending"
    BY <2>1
  <2>. QED
    BY <2>1, <2>2 DEF InsertInvitation, At
<1>2. Shape /\ Single /\ AllSettled /\ InvitationsInv
  BY <1>1, SingleFound DEF MemberInv
<1>3. CASE invitations' = invitations
  BY <1>1, <1>3, SingleGoes
<1>4. CASE \E row : row.id = h /\ row.status = "pending" /\ invitations' = invitations \cup {row}
  <2>1. PICK row : row.id = h /\ row.status = "pending" /\ invitations' = invitations \cup {row}
    BY <1>4
  <2>2. PICK s : Moves(h, s) /\ s.step = "done"
    BY <1>1, <1>2, Ends
  <2>3. \A g : Past(g) => Past(g)'
    BY <1>1, <2>2, DoneStays
  <2>4. \A i \in invitations : i.id # h
    BY <1>1, <1>2 DEF InvitationsInv
  <2>5. \A m \in members : m.via # h
    BY <1>1, <1>2, MembershipAssumption DEF Single, Past
  <2>6. Single'
    BY <1>1, <1>2, <2>1, <2>3, <2>4 DEF Single
  <2>7. AllSettled'
    BY <1>1, <1>2, <2>1, <2>5 DEF AllSettled, Settled
  <2>. QED
    BY <2>2, <2>6, <2>7, SingleMoves
<1>. QED
  BY <1>1, <1>3, <1>4

\* Rows of invitations that are changed keep their ids.
LEMMA ChangedSingle ==
    ASSUME Single, NEW f, invitations' = {f[i] : i \in invitations},
           \A i \in invitations : f[i].id = i.id,
           members' = members, \A g : Past(g) => Past(g)'
    PROVE  Single'
<1>1. \A i, j \in invitations' : i.id = j.id => i = j
  BY DEF Single
<1>. QED
  BY <1>1 DEF Single

LEMMA CloseSingle ==
    ASSUME SingleTurn, NEW h \in Requests, Running(h), CloseInvitation(h) PROVE SingleInv'
<1>1. handler[h].step \in {"accepted", "expired", "declined", "cancelled"} /\ End(h) /\ UNCHANGED members
  BY DEF CloseInvitation
<1>2. /\ Shape /\ Single /\ SingleWaits(handler[h]) /\ MemberRequestOK(h, handler[h]) /\ InvitationsInv
      /\ handler[h].step # "accepted" => AllSettled
  BY SingleFound DEF MemberInv
<1>3. PICK id, value : /\ id = IF handler[h].op = "cancel" THEN Arg(h).id ELSE Arg(h)
                       /\ value = handler[h].step
  OBVIOUS
<1>4. PICK f : f = [i \in invitations |-> IF i.id = id THEN [i EXCEPT !.status = value] ELSE i]
  OBVIOUS
<1>5. invitations' = {f[i] : i \in invitations}
  BY <1>3, <1>4 DEF CloseInvitation, SetInvitation
<1>6. \A i \in invitations : f[i].id = i.id /\ f[i].status = IF i.id = id THEN value ELSE i.status
  BY <1>2, <1>4 DEF InvitationsInv, IsInvitation
<1>7. PICK s : Moves(h, s) /\ s.step = "done"
  BY <1>1, <1>2, Ends
<1>8. \A g : Past(g) => Past(g)'
  BY <1>7, DoneStays DEF Running
<1>9. Single'
  BY <1>1, <1>2, <1>5, <1>6, <1>8, ChangedSingle
<1>10. ASSUME NEW m \in members, NEW i \in invitations, m.via = i.id PROVE Settled(f[i])
  <2>1. Settled(i) \/ (handler[h].op = "accept" /\ handler[h].step = "accepted" /\ handler[h].arg = i.id)
    BY <1>2, <1>10 DEF SingleWaits
  <2>2. handler[h].step = "accepted" => handler[h].op = "accept"
    BY <1>2 DEF MemberRequestOK
  <2>3. CASE handler[h].step = "declined"
    <3>1. id = handler[h].arg /\ AllPending(id)
      BY <1>2, <1>3, <2>3 DEF SingleWaits, Arg
    <3>2. Settled(i) /\ i.id # id
      BY <2>1, <2>3, <3>1 DEF AllPending, Settled
    <3>. QED
      BY <1>6, <3>2 DEF Settled
  <2>4. CASE handler[h].step # "declined"
    <3>1. value \notin {"pending", "declined"}
      BY <1>1, <1>3, <2>4
    <3>2. i.id = id \/ Settled(i)
      BY <1>3, <2>1, <2>2 DEF Arg
    <3>. QED
      BY <1>6, <3>1, <3>2 DEF Settled
  <2>. QED
    BY <2>3, <2>4
<1>11. AllSettled'
  <2>1. ASSUME NEW m \in members', NEW j \in invitations', m.via = j.id PROVE Settled(j)
    <3>1. PICK i \in invitations : j = f[i]
      BY <1>5
    <3>. QED
      BY <1>1, <1>6, <1>10, <2>1, <3>1
  <2>. QED
    BY <2>1 DEF AllSettled, Settled
<1>. QED
  BY <1>7, <1>9, <1>11, SingleMoves

LEMMA LapseSingle ==
    ASSUME SingleInv, FounderInv', Undisturbed, NEW k, InvitationLapses(k) PROVE SingleInv'
<1>1. UNCHANGED <<handler, members>>
  BY DEF InvitationLapses, svars
<1>2. Single /\ InvitationsInv
  BY DEF SingleInv, FounderInv, MemberInv
<1>3. PICK f : f = [i \in invitations |-> IF i.id = k THEN [i EXCEPT !.late = TRUE] ELSE i]
  OBVIOUS
<1>4. invitations' = {f[i] : i \in invitations}
  BY <1>3 DEF InvitationLapses
<1>5. \A i \in invitations : f[i].id = i.id /\ f[i].status = i.status
  BY <1>2, <1>3 DEF InvitationsInv, IsInvitation
<1>6. Single'
  BY <1>1, <1>2, <1>4, <1>5, ChangedSingle DEF Past
<1>7. \A j \in invitations' : \E i \in invitations : j.id = i.id /\ j.status = i.status
  BY <1>4, <1>5
<1>8. AllSettled => AllSettled'
  BY <1>1, <1>7 DEF AllSettled, Settled
<1>9. ASSUME NEW r, SingleWaits(r) PROVE SingleWaits(r)'
  BY <1>1, <1>7, <1>9 DEF SingleWaits, AllPending, Settled, IsMember
<1>. QED
  BY <1>1, <1>6, <1>8, <1>9 DEF SingleInv, Running, Quiet

LEMMA SingleInit == SInit /\ MembershipInit => SingleInv
<1> SUFFICES ASSUME SInit, MembershipInit PROVE SingleInv
  OBVIOUS
<1>1. \A h \in Requests : ~Running(h)
  BY DEF SInit, Idle, Running
<1>2. /\ invitations = {}
      /\ members = {} \/ members = {MemberRow("first", Founder, <<"first", "owner">>, "first")}
  BY DEF MembershipInit
<1>3. \A m \in members : m = MemberRow("first", Founder, <<"first", "owner">>, "first") /\ m.via = "first"
  BY <1>2 DEF MemberRow
<1>4. Single /\ AllSettled
  BY <1>2, <1>3 DEF Single, AllSettled
<1>. QED
  BY <1>1, <1>4, FounderInit DEF SingleInv

LEMMA SingleNext ==
    ASSUME MaxFaults <= 1
    PROVE  SingleInv /\ [MembershipNext /\ Turns]_<<svars, mvars, overlapped>> => SingleInv'
<1> SUFFICES ASSUME SingleInv, [MembershipNext /\ Turns]_<<svars, mvars, overlapped>> PROVE SingleInv'
  OBVIOUS
<1>1. FounderInv' /\ faults \in Nat
  BY FounderNext DEF SingleInv, FounderInv
<1>2. CASE ~Undisturbed'
  BY <1>1, <1>2 DEF SingleInv
<1>3. CASE UNCHANGED <<svars, mvars, overlapped>>
  <2>1. UNCHANGED <<handler, faults, members, invitations, overlapped>>
    BY <1>3 DEF svars, mvars
  <2>2. ASSUME NEW r, SingleWaits(r) PROVE SingleWaits(r)'
    BY <2>1, <2>2 DEF SingleWaits, AllPending, IsMember
  <2>3. (Single => Single') /\ (AllSettled => AllSettled')
    BY <2>1 DEF Single, AllSettled, Past
  <2>. QED
    BY <1>1, <2>1, <2>2, <2>3 DEF SingleInv, Undisturbed, Running, Quiet
<1>4. ASSUME NEW k \in Requests, InvitationLapses(k), Turns, Undisturbed' PROVE SingleInv'
  <2>1. Undisturbed
    BY <1>4, TurnBefore DEF Undisturbed, InvitationLapses, svars
  <2>. QED
    BY <1>1, <1>4, <2>1, LapseSingle
<1>5. ASSUME NEW h \in Requests, MembershipRequest(h) \/ MembershipStep(h), Turns, Undisturbed'
      PROVE  SingleInv'
  <2>1. ~MembershipFault(h)
    BY <1>1, <1>5 DEF MembershipFault, Undisturbed
  <2>2. Undisturbed
    BY <1>5, <2>1, MemberFaults, TurnBefore DEF Undisturbed
  <2>3. SingleTurn
    BY <1>1, <1>5, <2>2 DEF SingleTurn
  <2>4. CASE MembershipRequest(h)
    BY <2>3, <2>4, SingleAsked
  <2>5. CASE MembershipStep(h)
    <3>1. Running(h)
      BY <2>5, MemberStepIs
    <3>. QED
      BY <2>1, <2>3, <2>5, <3>1, FoundingSingle, OwnerSingle, AddSingle, AcceptSingle, DeclineSingle,
         JoinSingle, ReadMemberSingle, SaveSingle, InsertSingle, CloseSingle DEF MembershipStep
  <2>. QED
    BY <1>5, <2>4, <2>5
<1>. QED
  BY <1>2, <1>3, <1>4, <1>5 DEF MembershipNext

\* When at most one query can fail, an organisation has its founder as a member, or is
\* gone, whatever follows its creation; of requests that waited for each other, with
\* no failing query, nobody is a member twice, or by an invitation that was declined
\* (createOrganizationWithOwner, addMember, acceptInvitation, declineInvitation).
THEOREM MembershipsAreSound == ASSUME MaxFaults <= 1 PROVE MembershipTurns => []MembershipSound
<1>1. SingleInv => MembershipSound
  <2> SUFFICES ASSUME SingleInv PROVE MembershipSound
    OBVIOUS
  <2>1. ~overlapped => FoundedHasFounder
    BY DEF SingleInv, FounderInv, FounderThere, Creations, FoundedHasFounder
  <2>2. Undisturbed => MembersAreSingle
    <3> SUFFICES ASSUME Undisturbed PROVE MembersAreSingle
      OBVIOUS
    <3>1. \A m \in members, i \in invitations : m.via = i.id => i.status # "declined"
      <4>1. CASE Quiet
        BY <4>1 DEF SingleInv, AllSettled, Settled
      <4>2. CASE ~Quiet
        <5>1. PICK h \in Requests : Running(h)
          BY <4>2 DEF Quiet
        <5>2. SingleWaits(handler[h]) /\ MemberInv
          BY <5>1 DEF SingleInv, FounderInv
        <5>3. ASSUME NEW m \in members, NEW i \in invitations, m.via = i.id, i.status = "declined"
              PROVE  FALSE
          BY <5>2, <5>3 DEF SingleWaits, Settled
        <5>. QED
          BY <5>3
      <4>. QED
        BY <4>1, <4>2
    <3>. QED
      BY <3>1 DEF MembersAreSingle, SingleInv, Single
  <2>. QED
    BY <2>1, <2>2 DEF MembershipSound
<1>. QED
  BY <1>1, SingleInit, SingleNext, PTL DEF MembershipTurns

-----------------------------------------------------------------------------
(* Pipeline *)

IsStage(s) == s = [id |-> s.id, pipeline |-> s.pipeline, key |-> s.key, order |-> s.order]
IsLink(t) == t = [id |-> t.id, pipeline |-> t.pipeline, from |-> t.from, to |-> t.to]

\* The id of a stage is that of a request that is over, with the key it was given.
PipeRows ==
    /\ \A t \in transitions : IsLink(t)
    /\ \A s \in stages : IsStage(s) /\ s.id[2] = s.key
    /\ \A s, u \in stages : s.id = u.id => s.pipeline = u.pipeline
    /\ \A s \in stages : \A h \in Requests : s.id[1] = h => handler[h].step = "done"

\* No stage was given a new key, and no pipeline new stages.
Untouched == ~Asked("updateStage") /\ ~Asked("replacePipeline")

Unasked == \A h \in Requests : handler[h].step = "idle" => handler[h].op = "none"

\* What the only request at work has found out of the names is so ...
NameAt(op, step, arg) ==
    /\ op = "createPipeline" /\ step = "insert" => ~NameTaken(arg)
    /\ op = "composePipeline" /\ step = "commit" => ~NameTaken(arg.name)
    /\ (\/ op = "updatePipeline" /\ step = "save"
        \/ op = "replacePipeline" /\ step \in {"stages", "commit"})
       => (arg.name # pipelines[arg.pipeline] => ~NameTaken(arg.name))

\* ... and of stages and transitions; while it deletes a pipeline, only the transitions of
\* that one have lost their stages.
LinkAt(op, step, arg) ==
    /\ \A t \in transitions :
           {t.from, t.to} \subseteq KeysOf(t.pipeline)
           \/ (op = "deletePipeline" /\ step = "links" /\ t.pipeline = arg)
    /\ op = "deleteStage" /\ step = "delete" => \A t \in transitions : arg[2] \notin {t.from, t.to}
    /\ op = "createTransition" /\ step = "insert" => {arg.from, arg.to} \subseteq KeysOf(arg.pipeline)
    /\ op = "updateTransition" /\ step = "save" =>
           {arg.from, arg.to} \subseteq KeysOf(LinkById(arg.id).pipeline)
    /\ op = "composePipeline" /\ step = "commit" => Joins(arg.links, Range(arg.keys))

\* The inductive invariant.
PipeInv ==
    /\ Shape /\ faults \in Nat /\ Unasked
    /\ Undisturbed =>
           /\ OneAtWork /\ NamesDiffer
           /\ \A h \in Requests : Running(h) => NameAt(handler[h].op, handler[h].step, handler[h].arg)
    /\ Undisturbed /\ Untouched =>
           /\ PipeRows /\ (Quiet => LinksJoinStages)
           /\ \A h \in Requests : Running(h) => LinkAt(handler[h].op, handler[h].step, handler[h].arg)

PipeTurn == PipeInv /\ Turns /\ faults' \in Nat /\ faults <= faults'

LEMMA PipeBefore == ASSUME PipeTurn, Undisturbed' PROVE Undisturbed
<1>1. ~overlapped
  BY TurnBefore DEF PipeTurn, Undisturbed
<1>2. faults = 0
  BY DEF PipeTurn, PipeInv, Undisturbed
<1>. QED
  BY <1>1, <1>2 DEF Undisturbed

LEMMA PipeFound ==
    ASSUME PipeTurn, NEW h \in Requests, Running(h)
    PROVE  /\ Shape /\ handler[h].step \notin {"idle", "done"}
           /\ Undisturbed' => NamesDiffer /\ NameAt(handler[h].op, handler[h].step, handler[h].arg)
           /\ Undisturbed' /\ Untouched =>
                  PipeRows /\ LinkAt(handler[h].op, handler[h].step, handler[h].arg)
BY PipeBefore DEF PipeTurn, PipeInv, Running

LEMMA PipeMoves ==
    ASSUME PipeTurn, NEW h \in Requests, NEW s, Moves(h, s), handler[h].step # "done",
           s.op = handler[h].op \/ handler[h].step = "idle", s.step # "idle",
           Running(h) \/ s.step # "done",
           Undisturbed' => NamesDiffer' /\ NameAt(s.op, s.step, s.arg)',
           Undisturbed' /\ Untouched =>
               /\ \A t \in transitions' : IsLink(t)
               /\ \A u \in stages' : IsStage(u) /\ u.id[2] = u.key
               /\ \A u, v \in stages' : u.id = v.id => u.pipeline = v.pipeline
               /\ \A u \in stages' : (\E v \in stages : v.id = u.id) \/ (u.id[1] = h /\ s.step = "done")
               /\ LinkAt(s.op, s.step, s.arg)'
    PROVE  PipeInv'
<1>1. Shape' /\ Unasked' /\ handler'[h] = s
  BY DEF Moves, Unasked, PipeTurn, PipeInv
<1>2. Untouched' => Untouched
  <2>1. \A g \in Requests : handler'[g].op = handler[g].op \/ (g = h /\ handler[g].op = "none")
    BY DEF Moves, Unasked, PipeTurn, PipeInv
  <2>2. ASSUME NEW op \in {"updateStage", "replacePipeline"}, Asked(op) PROVE Asked(op)'
    <3>1. PICK g \in Requests : handler[g].op = op
      BY <2>2 DEF Asked
    <3>2. handler'[g].op = op
      BY <2>1, <2>2, <3>1
    <3>. QED
      BY <3>2 DEF Asked
  <2>. QED
    BY <2>2 DEF Untouched
<1>3. ASSUME Undisturbed'
      PROVE  /\ OneAtWork' /\ \A g \in Requests \ {h} : ~Running(g)'
             /\ Running(h)' <=> s.step # "done"
  <2>1. Undisturbed /\ ~overlapped'
    BY <1>3, PipeBefore DEF Undisturbed
  <2>2. OneAtWork' /\ \A g \in Requests \ {h} : ~Running(g)'
    BY <2>1, MovesAlone DEF PipeTurn, PipeInv
  <2>. QED
    BY <1>1, <2>2 DEF Running
<1>4. ASSUME Undisturbed', Untouched'
      PROVE  PipeRows' /\ LinkAt(s.op, s.step, s.arg)' /\ (Quiet' => LinksJoinStages')
  <2>1. Undisturbed /\ Untouched /\ PipeRows
    BY <1>2, <1>4, PipeBefore DEF PipeTurn, PipeInv
  <2>2. \A u \in stages' : \A g \in Requests : u.id[1] = g => handler'[g].step = "done"
    BY <1>4, <2>1 DEF PipeRows, Moves
  <2>3. Quiet' => s.step = "done"
    BY <1>3, <1>4 DEF Quiet
  <2>4. s.step = "done" /\ LinkAt(s.op, s.step, s.arg)' => LinksJoinStages'
    BY DEF LinkAt, LinksJoinStages
  <2>. QED
    BY <1>4, <2>1, <2>2, <2>3, <2>4 DEF PipeRows
<1>. QED
  BY <1>1, <1>3, <1>4 DEF PipeInv, PipeTurn

LEMMA PipeSame ==
    ASSUME UNCHANGED ptables
    PROVE  /\ UNCHANGED <<pipelines, stages, transitions>>
           /\ NamesDiffer' = NamesDiffer /\ LinksJoinStages' = LinksJoinStages
           /\ \A a, b, c : NameAt(a, b, c) = NameAt(a, b, c)' /\ LinkAt(a, b, c) = LinkAt(a, b, c)'
<1>1. UNCHANGED <<pipelines, stages, transitions>>
  BY DEF ptables
<1>2. NamesDiffer' = NamesDiffer /\ LinksJoinStages' = LinksJoinStages
  BY <1>1 DEF NamesDiffer, LinksJoinStages, KeysOf, StagesOf
<1>3. \A a, b, c : NameAt(a, b, c) = NameAt(a, b, c)'
  BY <1>1 DEF NameAt, NameTaken
<1>4. \A a, b, c : LinkAt(a, b, c) = LinkAt(a, b, c)'
  BY <1>1 DEF LinkAt, KeysOf, StagesOf, LinkById
<1>. QED
  BY <1>1, <1>2, <1>3, <1>4

\* A request goes on without writing.
LEMMA PipeGoes ==
    ASSUME PipeTurn, NEW h \in Requests, Running(h), UNCHANGED ptables,
           NEW step, step \notin {"idle", "done"}, NEW mem,
           Keep(h, step, mem) \/ (Goto(h, step) /\ mem = handler[h].mem),
           NEW op, op = handler[h].op, NEW arg, arg = handler[h].arg,
           Undisturbed' => NameAt(op, step, arg),
           Undisturbed' /\ Untouched => LinkAt(op, step, arg)
    PROVE  PipeInv'
<1>1. /\ Shape /\ handler[h].step \notin {"idle", "done"}
      /\ Undisturbed' => NamesDiffer
      /\ Undisturbed' /\ Untouched => PipeRows
  BY PipeFound
<1>2. PICK s : /\ Moves(h, s) /\ s.op = handler[h].op /\ s.step = step
               /\ s.arg = handler[h].arg /\ s.mem = mem
  BY <1>1, GoesOn
<1>3. /\ Undisturbed' => NameAt(s.op, s.step, s.arg)'
      /\ Undisturbed' /\ Untouched => LinkAt(s.op, s.step, s.arg)'
  BY <1>2, PipeSame
<1>4. UNCHANGED <<stages, transitions>> /\ NamesDiffer' = NamesDiffer
  BY PipeSame
<1>. QED
  BY <1>1, <1>2, <1>3, <1>4, PipeMoves DEF PipeRows

\* It ends without writing.
LEMMA PipeEnds ==
    ASSUME PipeTurn, NEW h \in Requests, Running(h), UNCHANGED ptables, End(h) \/ Fault(h),
           Undisturbed' /\ Untouched => LinksJoinStages
    PROVE  PipeInv'
<1>1. /\ Shape /\ handler[h].step \notin {"idle", "done"}
      /\ Undisturbed' => NamesDiffer
      /\ Undisturbed' /\ Untouched => PipeRows
  BY PipeFound
<1>2. PICK s : Moves(h, s) /\ s.op = handler[h].op /\ s.step = "done"
  BY <1>1, Ends
<1>3. NameAt(s.op, s.step, s.arg)' /\ (LinksJoinStages' => LinkAt(s.op, s.step, s.arg)')
  BY <1>2 DEF NameAt, LinkAt, LinksJoinStages
<1>4. UNCHANGED <<stages, transitions>> /\ NamesDiffer' = NamesDiffer /\ LinksJoinStages' = LinksJoinStages
  BY PipeSame
<1>. QED
  BY <1>1, <1>2, <1>3, <1>4, PipeMoves DEF PipeRows

\* A request ends with its write
LEMMA PipeWrites ==
    ASSUME PipeTurn, NEW h \in Requests, Running(h), End(h),
           Undisturbed' => NamesDiffer',
           Undisturbed' /\ Untouched =>
               /\ \A t \in transitions' : IsLink(t)
               /\ \A u \in stages' : IsStage(u) /\ u.id[2] = u.key
               /\ \A u, v \in stages' : u.id = v.id => u.pipeline = v.pipeline
               /\ \A u \in stages' : (\E v \in stages : v.id = u.id) \/ u.id[1] = h
               /\ LinksJoinStages'
    PROVE  PipeInv'
<1>1. Shape /\ handler[h].step \notin {"idle", "done"}
  BY PipeFound
<1>2. PICK s : Moves(h, s) /\ s.op = handler[h].op /\ s.step = "done"
  BY <1>1, Ends
<1>3. NameAt(s.op, s.step, s.arg)' /\ (LinksJoinStages' => LinkAt(s.op, s.step, s.arg)')
  BY <1>2 DEF NameAt, LinkAt, LinksJoinStages
<1>. QED
  BY <1>1, <1>2, <1>3, PipeMoves

LEMMA PipeStarts ==
    ASSUME PipeTurn, NEW h \in Requests, PipelineRequest(h) PROVE PipeInv'
<1>1. PICK op, arg : Ask(h, op, arg) /\ UNCHANGED ptables
  <2> DEFINE ops == {"createPipeline", "deletePipeline", "assignJob", "removeJob", "updatePipeline",
                     "createStage", "createTransition", "reorderStages", "replacePipeline",
                     "composePipeline", "deleteStage", "updateStage", "deleteTransition", "updateTransition"}
  <2>1. \E op \in ops : \E arg : Ask(h, op, arg)
    BY Zenon DEF PipelineRequest
  <2>. QED
    BY <2>1 DEF PipelineRequest
<1>2. PICK s : s = Request(op, "start", arg, "nothing")
  OBVIOUS
<1>3. Shape /\ Moves(h, s) /\ handler[h].step = "idle" /\ s.step = "start"
  BY <1>1, <1>2, AskMoves DEF PipeTurn, PipeInv, Request
<1>4. NameAt(s.op, s.step, s.arg)' /\ (LinksJoinStages' => LinkAt(s.op, s.step, s.arg)')
  BY <1>3 DEF NameAt, LinkAt, LinksJoinStages
<1>5. ASSUME Undisturbed' PROVE Undisturbed /\ NamesDiffer /\ (Untouched => PipeRows /\ LinksJoinStages)
  <2>1. Undisturbed /\ ~overlapped'
    BY <1>5, PipeBefore DEF Undisturbed
  <2>2. \A g \in Requests \ {h} : ~Running(g)
    BY <1>3, <2>1, MovesAlone DEF PipeTurn, PipeInv
  <2>3. Quiet
    BY <1>3, <2>2 DEF Quiet, Running
  <2>. QED
    BY <2>1, <2>3 DEF PipeTurn, PipeInv
<1>. QED
  BY <1>1, <1>3, <1>4, <1>5, PipeSame, PipeMoves DEF PipeRows

LEMMA PipeNow ==
    ASSUME PipeTurn, NEW h \in Requests, Running(h), handler[h].step # "links"
    PROVE  /\ Undisturbed' => NamesDiffer
           /\ Undisturbed' /\ Untouched => PipeRows /\ LinksJoinStages
BY PipeFound DEF LinkAt, LinksJoinStages

\* The checks, of pipelines
LEMMA PipeChecksNames ==
    ASSUME PipeTurn, NEW h \in Requests,
           \/ CheckCreate(h) \/ CheckUpdate(h) \/ CheckDelete(h) \/ CheckAssign(h)
           \/ RemoveJob(h) \/ CheckReplace(h) \/ CheckStructure(h) \/ CheckCompose(h)
    PROVE  PipeInv'
<1>1. PICK op, step, arg, mem : /\ op = handler[h].op /\ step = handler[h].step
                                /\ arg = handler[h].arg /\ mem = handler[h].mem
  OBVIOUS
<1>2. Running(h) /\ UNCHANGED ptables /\ step \in {"start", "stages"}
  BY <1>1 DEF CheckCreate, CheckUpdate, CheckDelete, CheckAssign, RemoveJob, CheckReplace, CheckStructure,
              CheckCompose, At, Running
<1>3. /\ Undisturbed' => NameAt(op, step, arg)
      /\ Undisturbed' /\ Untouched => LinksJoinStages
  BY <1>1, <1>2, PipeFound, PipeNow
<1>4. CASE End(h)
  BY <1>2, <1>3, <1>4, PipeEnds
<1>5. CASE op = "createPipeline" /\ Goto(h, "insert") /\ ~NameTaken(arg)
  <2>1. NameAt(op, "insert", arg) /\ (LinksJoinStages => LinkAt(op, "insert", arg))
    BY <1>5 DEF NameAt, LinkAt, LinksJoinStages
  <2>. QED
    BY <1>1, <1>2, <1>3, <1>5, <2>1, PipeGoes
<1>6. CASE /\ op = "updatePipeline" /\ Goto(h, "save")
           /\ arg.name # pipelines[arg.pipeline] => ~NameTaken(arg.name)
  <2>1. NameAt(op, "save", arg) /\ (LinksJoinStages => LinkAt(op, "save", arg))
    BY <1>6 DEF NameAt, LinkAt, LinksJoinStages
  <2>. QED
    BY <1>1, <1>2, <1>3, <1>6, <2>1, PipeGoes
<1>7. CASE \/ op = "deletePipeline" /\ Goto(h, "jobs")
           \/ op = "assignJob" /\ Goto(h, "assign")
  <2>1. PICK to \in {"jobs", "assign"} : Goto(h, to)
    BY <1>7
  <2>2. NameAt(op, to, arg) /\ (LinksJoinStages => LinkAt(op, to, arg))
    BY <1>7, <2>1 DEF NameAt, LinkAt, LinksJoinStages
  <2>. QED
    BY <1>1, <1>2, <1>3, <2>1, <2>2, PipeGoes
<1>8. CASE /\ op = "replacePipeline" /\ Goto(h, "stages")
           /\ arg.name # pipelines[arg.pipeline] => ~NameTaken(arg.name)
  <2>1. NameAt(op, "stages", arg) /\ (LinksJoinStages => LinkAt(op, "stages", arg))
    BY <1>8 DEF NameAt, LinkAt, LinksJoinStages
  <2>. QED
    BY <1>1, <1>2, <1>3, <1>8, <2>1, PipeGoes
<1>9. CASE op = "replacePipeline" /\ step = "stages" /\ Goto(h, "commit")
  <2>1. NameAt(op, step, arg) => NameAt(op, "commit", arg)
    BY <1>9 DEF NameAt
  <2>2. LinksJoinStages => LinkAt(op, "commit", arg)
    BY <1>9 DEF LinkAt, LinksJoinStages
  <2>. QED
    BY <1>1, <1>2, <1>3, <1>9, <2>1, <2>2, PipeGoes
<1>10. CASE /\ op = "composePipeline" /\ Goto(h, "commit")
            /\ ~NameTaken(arg.name) /\ Joins(arg.links, Range(arg.keys))
  <2>1. NameAt(op, "commit", arg) /\ (LinksJoinStages => LinkAt(op, "commit", arg))
    BY <1>10 DEF NameAt, LinkAt, LinksJoinStages
  <2>. QED
    BY <1>1, <1>2, <1>3, <1>10, <2>1, PipeGoes
<1>. QED
  <2>1. CASE CheckCreate(h)
    BY <1>1, <1>4, <1>5, <2>1 DEF CheckCreate, Check, At, Arg
  <2>2. CASE CheckUpdate(h)
    BY <1>1, <1>4, <1>6, <2>2 DEF CheckUpdate, Check, At, Arg
  <2>3. CASE CheckDelete(h) \/ CheckAssign(h) \/ RemoveJob(h)
    BY <1>1, <1>4, <1>7, <2>3 DEF CheckDelete, CheckAssign, RemoveJob, Check, At
  <2>4. CASE CheckReplace(h)
    BY <1>1, <1>4, <1>8, <2>4 DEF CheckReplace, Check, At, Arg
  <2>5. CASE CheckStructure(h)
    BY <1>1, <1>4, <1>9, <2>5 DEF CheckStructure, Check, At
  <2>6. CASE CheckCompose(h)
    BY <1>1, <1>4, <1>10, <2>6 DEF CheckCompose, Check, At, Arg
  <2>. QED
    BY <2>1, <2>2, <2>3, <2>4, <2>5, <2>6

LEMMA StageByIdIs ==
    ASSUME NEW id, id \in StageIds PROVE StageById(id) \in stages /\ StageById(id).id = id
<1>1. \E s \in stages : s.id = id
  BY DEF StageIds
<1>. QED
  BY <1>1 DEF StageById

LEMMA LinkByIdIs ==
    ASSUME NEW id, id \in LinkIds PROVE LinkById(id) \in transitions /\ LinkById(id).id = id
<1>1. \E t \in transitions : t.id = id
  BY DEF LinkIds
<1>. QED
  BY <1>1 DEF LinkById

\* A transition that is given other stages
Relinked(t, from, to) == [t EXCEPT !.from = from, !.to = to]

LEMMA RelinkedIs ==
    ASSUME NEW t, IsLink(t), NEW from, NEW to
    PROVE  \E u : /\ u = Relinked(t, from, to) /\ IsLink(u)
                  /\ u.id = t.id /\ u.pipeline = t.pipeline /\ u.from = from /\ u.to = to
<1>1. PICK v, u : v = [t EXCEPT !.from = from] /\ u = [v EXCEPT !.to = to]
  OBVIOUS
<1>2. IsLink(v) /\ v.id = t.id /\ v.pipeline = t.pipeline /\ v.from = from
  BY <1>1 DEF IsLink
<1>3. IsLink(u) /\ u.id = t.id /\ u.pipeline = t.pipeline /\ u.from = from /\ u.to = to
  BY <1>1, <1>2 DEF IsLink
<1>4. u = Relinked(t, from, to)
  BY <1>1 DEF Relinked
<1>. QED
  BY <1>3, <1>4

\* The checks, of stages and transitions
LEMMA PipeChecksRows ==
    ASSUME PipeTurn, NEW h \in Requests,
           \/ CheckStage(h) \/ CheckUpdateStage(h) \/ CheckDeleteStage(h) \/ CheckReorder(h)
           \/ CheckLink(h) \/ CheckUpdateLink(h)
    PROVE  PipeInv'
<1>1. PICK op, arg, mem : op = handler[h].op /\ arg = handler[h].arg /\ mem = handler[h].mem
  OBVIOUS
<1>2. Running(h) /\ UNCHANGED ptables /\ handler[h].step = "start"
  BY DEF CheckStage, CheckUpdateStage, CheckDeleteStage, CheckReorder, CheckLink, CheckUpdateLink, At, Running
<1>3. Undisturbed' /\ Untouched => PipeRows /\ LinksJoinStages
  BY <1>2, PipeNow
<1>4. CASE End(h)
  BY <1>2, <1>3, <1>4, PipeEnds
<1>5. CASE \/ op = "createStage" /\ Goto(h, "insert")
           \/ op = "updateStage" /\ Goto(h, "save")
           \/ op = "reorderStages" /\ Keep(h, "place", 1)
  <2>1. PICK step, m :
            /\ step \in {"insert", "save", "place"}
            /\ Keep(h, step, m) \/ (Goto(h, step) /\ m = handler[h].mem)
            /\ op \in {"createStage", "updateStage", "reorderStages"}
    BY <1>1, <1>5
  <2>2. NameAt(op, step, arg) /\ (LinksJoinStages => LinkAt(op, step, arg))
    BY <2>1 DEF NameAt, LinkAt, LinksJoinStages
  <2>. QED
    BY <1>1, <1>2, <1>3, <2>1, <2>2, PipeGoes
<1>6. CASE /\ op = "deleteStage" /\ Goto(h, "delete") /\ arg \in StageIds
           /\ \A t \in transitions : StageById(arg).key \notin {t.from, t.to}
  <2>1. NameAt(op, "delete", arg)
    BY <1>6 DEF NameAt
  <2>2. ASSUME PipeRows, LinksJoinStages PROVE LinkAt(op, "delete", arg)
    <3>1. arg[2] = StageById(arg).key
      BY <1>6, <2>2, StageByIdIs DEF PipeRows
    <3>. QED
      BY <1>6, <2>2, <3>1 DEF LinkAt, LinksJoinStages
  <2>. QED
    BY <1>1, <1>2, <1>3, <1>6, <2>1, <2>2, PipeGoes
<1>7. CASE op = "createTransition" /\ Goto(h, "insert") /\ {arg.from, arg.to} \subseteq KeysOf(arg.pipeline)
  <2>1. NameAt(op, "insert", arg) /\ (LinksJoinStages => LinkAt(op, "insert", arg))
    BY <1>7 DEF NameAt, LinkAt, LinksJoinStages
  <2>. QED
    BY <1>1, <1>2, <1>3, <1>7, <2>1, PipeGoes
<1>8. CASE /\ op = "updateTransition" /\ Goto(h, "save") /\ arg.id \in LinkIds
           /\ {arg.from, arg.to} \subseteq KeysOf(Relinked(LinkById(arg.id), arg.from, arg.to).pipeline)
  <2>1. NameAt(op, "save", arg)
    BY <1>8 DEF NameAt
  <2>2. ASSUME PipeRows, LinksJoinStages PROVE LinkAt(op, "save", arg)
    <3>1. IsLink(LinkById(arg.id))
      BY <1>8, <2>2, LinkByIdIs DEF PipeRows
    <3>2. PICK u : u = Relinked(LinkById(arg.id), arg.from, arg.to) /\ u.pipeline = LinkById(arg.id).pipeline
      BY <3>1, RelinkedIs
    <3>. QED
      BY <1>8, <2>2, <3>2 DEF LinkAt, LinksJoinStages
  <2>. QED
    BY <1>1, <1>2, <1>3, <1>8, <2>1, <2>2, PipeGoes
<1>. QED
  <2>1. CASE CheckStage(h) \/ CheckUpdateStage(h) \/ CheckReorder(h)
    BY <1>1, <1>4, <1>5, <2>1 DEF CheckStage, CheckUpdateStage, CheckReorder, Check, At
  <2>2. CASE CheckDeleteStage(h)
    BY <1>1, <1>4, <1>6, <2>2 DEF CheckDeleteStage, Check, At, Arg
  <2>3. CASE CheckLink(h)
    BY <1>1, <1>4, <1>7, <2>3 DEF CheckLink, Check, At, Arg
  <2>4. CASE CheckUpdateLink(h)
    BY <1>1, <1>4, <1>8, <2>4 DEF CheckUpdateLink, Check, At, Arg, Relinked
  <2>. QED
    BY <2>1, <2>2, <2>3, <2>4

LEMMA WritesNames ==
    ASSUME PipeTurn, NEW h \in Requests,
           InsertPipeline(h) \/ SavePipeline(h) \/ AssignJob(h)
    PROVE  PipeInv'
<1>1. PICK op, step, arg : op = handler[h].op /\ step = handler[h].step /\ arg = handler[h].arg
  OBVIOUS
<1>2. /\ Running(h) /\ End(h) /\ UNCHANGED <<stages, transitions>> /\ step \in {"insert", "save", "assign"}
      /\ \/ op = "createPipeline" /\ step = "insert" /\ InsertPipeline(h)
         \/ op = "updatePipeline" /\ step = "save" /\ SavePipeline(h)
         \/ UNCHANGED pipelines
  BY <1>1 DEF InsertPipeline, SavePipeline, AssignJob, At, Running
<1>3. /\ Undisturbed' => NamesDiffer /\ NameAt(op, step, arg)
      /\ Undisturbed' /\ Untouched => PipeRows /\ LinksJoinStages
  BY <1>1, <1>2, PipeFound, PipeNow
<1>4. ASSUME Undisturbed' PROVE NamesDiffer'
  <2>1. CASE op = "createPipeline" /\ step = "insert" /\ InsertPipeline(h)
    <3>1. ~NameTaken(arg)
      BY <1>3, <1>4, <2>1 DEF NameAt
    <3>2. pipelines' = [p \in DOMAIN pipelines \cup {h} |-> IF p = h THEN arg ELSE pipelines[p]]
      BY <1>1, <2>1 DEF InsertPipeline, Arg
    <3>. QED
      BY <1>3, <1>4, <3>1, <3>2 DEF NamesDiffer, NameTaken
  <2>2. CASE op = "updatePipeline" /\ step = "save" /\ SavePipeline(h)
    <3>1. arg.name # pipelines[arg.pipeline] => ~NameTaken(arg.name)
      BY <1>3, <1>4, <2>2 DEF NameAt
    <3>2. pipelines' = [p \in DOMAIN pipelines |-> IF p = arg.pipeline THEN arg.name ELSE pipelines[p]]
      BY <1>1, <2>2 DEF SavePipeline, Arg
    <3>. QED
      BY <1>3, <1>4, <3>1, <3>2 DEF NamesDiffer, NameTaken
  <2>3. CASE UNCHANGED pipelines
    BY <1>3, <1>4, <2>3 DEF NamesDiffer
  <2>. QED
    BY <1>2, <2>1, <2>2, <2>3
<1>5. LinksJoinStages' = LinksJoinStages
  BY <1>2 DEF LinksJoinStages, KeysOf, StagesOf
<1>. QED
  BY <1>2, <1>3, <1>4, <1>5, PipeWrites DEF PipeRows

\* deletePipeline, query by query
LEMMA DeletesPipeline ==
    ASSUME PipeTurn, NEW h \in Requests,
           FreeJobs(h) \/ DeleteStages(h) \/ DeleteLinks(h) \/ DeletePipeline(h)
    PROVE  PipeInv'
<1>1. PICK op, step, arg, kept : /\ op = handler[h].op /\ step = handler[h].step
                                 /\ arg = handler[h].arg /\ kept = handler[h].mem
  OBVIOUS
<1>2. Running(h) /\ op = "deletePipeline"
  BY <1>1 DEF FreeJobs, DeleteStages, DeleteLinks, DeletePipeline, At, Running
<1>3. /\ Shape /\ handler[h].step \notin {"idle", "done"}
      /\ Undisturbed' => NamesDiffer
      /\ Undisturbed' /\ Untouched => PipeRows /\ LinkAt(op, step, arg)
  BY <1>1, <1>2, PipeFound
<1>4. \A to : NameAt(op, to, arg)'
  BY <1>2 DEF NameAt
<1>5. CASE FreeJobs(h)
  <2>1. Goto(h, "stages") /\ UNCHANGED <<pipelines, stages, transitions>> /\ step = "jobs"
    BY <1>1, <1>5 DEF FreeJobs, At
  <2>2. PICK s : /\ Moves(h, s) /\ s.op = op /\ s.step = "stages" /\ s.arg = arg /\ s.mem = kept
    BY <1>1, <1>3, <2>1, GoesOn
  <2>3. LinkAt(op, step, arg) => LinkAt(s.op, s.step, s.arg)'
    BY <1>2, <2>1, <2>2 DEF LinkAt, KeysOf, StagesOf
  <2>4. NamesDiffer' = NamesDiffer /\ NameAt(s.op, s.step, s.arg)'
    BY <1>4, <2>1, <2>2 DEF NamesDiffer
  <2>. QED
    BY <1>1, <1>2, <1>3, <2>1, <2>2, <2>3, <2>4, PipeMoves DEF PipeRows
<1>6. CASE DeleteStages(h)
  <2>1. /\ Goto(h, "links") /\ UNCHANGED <<pipelines, transitions>> /\ step = "stages"
        /\ stages' = {s \in stages : s.pipeline # arg}
    BY <1>1, <1>6 DEF DeleteStages, At, Arg, StagesOf
  <2>2. PICK s : /\ Moves(h, s) /\ s.op = op /\ s.step = "links" /\ s.arg = arg /\ s.mem = kept
    BY <1>1, <1>3, <2>1, GoesOn
  <2>3. LinkAt(op, step, arg) => LinkAt(s.op, s.step, s.arg)'
    <3> SUFFICES ASSUME LinkAt(op, step, arg), NEW t \in transitions, t.pipeline # arg
                 PROVE  {t.from, t.to} \subseteq KeysOf(t.pipeline)'
      BY <1>2, <2>1, <2>2 DEF LinkAt
    <3>1. {t.from, t.to} \subseteq KeysOf(t.pipeline)
      BY <2>1 DEF LinkAt
    <3>. QED
      BY <2>1, <3>1 DEF KeysOf, StagesOf
  <2>4. NamesDiffer' = NamesDiffer /\ NameAt(s.op, s.step, s.arg)'
    BY <1>4, <2>1, <2>2 DEF NamesDiffer
  <2>. QED
    BY <1>1, <1>2, <1>3, <2>1, <2>2, <2>3, <2>4, PipeMoves DEF PipeRows
<1>7. CASE DeleteLinks(h)
  <2>1. /\ Goto(h, "delete") /\ UNCHANGED <<pipelines, stages>> /\ step = "links"
        /\ transitions' = {t \in transitions : t.pipeline # arg}
    BY <1>1, <1>7 DEF DeleteLinks, At, Arg, LinksOf
  <2>2. PICK s : /\ Moves(h, s) /\ s.op = op /\ s.step = "delete" /\ s.arg = arg /\ s.mem = kept
    BY <1>1, <1>3, <2>1, GoesOn
  <2>3. LinkAt(op, step, arg) => LinkAt(s.op, s.step, s.arg)'
    BY <1>2, <2>1, <2>2 DEF LinkAt, KeysOf, StagesOf
  <2>4. NamesDiffer' = NamesDiffer /\ NameAt(s.op, s.step, s.arg)'
    BY <1>4, <2>1, <2>2 DEF NamesDiffer
  <2>. QED
    BY <1>1, <1>2, <1>3, <2>1, <2>2, <2>3, <2>4, PipeMoves DEF PipeRows
<1>8. CASE DeletePipeline(h)
  <2>1. /\ End(h) /\ step = "delete"
        /\ \/ UNCHANGED <<pipelines, stages, transitions>>
           \/ /\ pipelines' = [p \in DOMAIN pipelines \ {arg} |-> pipelines[p]]
              /\ stages' = {s \in stages : s.pipeline # arg}
              /\ transitions' = {t \in transitions : t.pipeline # arg}
    BY <1>1, <1>8 DEF DeletePipeline, At, Arg, StagesOf, LinksOf, ptables
  <2>2. NamesDiffer => NamesDiffer'
    BY <2>1 DEF NamesDiffer
  <2>3. stages' \subseteq stages /\ transitions' \subseteq transitions
    BY <2>1
  <2>4. LinkAt(op, step, arg) => LinksJoinStages'
    <3> SUFFICES ASSUME LinkAt(op, step, arg), NEW t \in transitions'
                 PROVE  {t.from, t.to} \subseteq KeysOf(t.pipeline)'
      BY DEF LinksJoinStages
    <3>1. {t.from, t.to} \subseteq KeysOf(t.pipeline)
      BY <2>1, <2>3 DEF LinkAt
    <3>. QED
      BY <2>1, <3>1 DEF KeysOf, StagesOf
  <2>. QED
    BY <1>2, <1>3, <2>1, <2>2, <2>3, <2>4, PipeWrites DEF PipeRows
<1>. QED
  BY <1>5, <1>6, <1>7, <1>8

\* Whoever adds a stage is alone in making ids, so that nothing is replaced.
LEMMA InsertStageKeeps ==
    ASSUME PipeTurn, NEW h \in Requests, InsertStage(h) PROVE PipeInv'
<1>1. PICK arg : arg = handler[h].arg
  OBVIOUS
<1>2. PICK new : new = StageRow(arg.pipeline, <<h, arg.key>>, arg.key, arg.order)
  OBVIOUS
<1>3. /\ Running(h) /\ handler[h].step = "insert" /\ End(h) /\ UNCHANGED <<pipelines, transitions>>
      /\ stages' = stages \/ stages' = {t \in stages : t.id # new.id} \cup {new}
  BY <1>1, <1>2 DEF InsertStage, PutStage, At, Running, Arg
<1>4. /\ Undisturbed' => NamesDiffer
      /\ Undisturbed' /\ Untouched => PipeRows /\ LinksJoinStages
  BY <1>3, PipeNow
<1>5. NamesDiffer' = NamesDiffer
  BY <1>3 DEF NamesDiffer
<1>6. IsStage(new) /\ new.id = <<h, arg.key>> /\ new.key = arg.key
  BY <1>2 DEF StageRow, IsStage
<1>7. new.id[1] = h /\ new.id[2] = new.key
  BY <1>6
<1>8. ASSUME PipeRows, LinksJoinStages
      PROVE  /\ \A t \in transitions' : IsLink(t)
             /\ \A u \in stages' : IsStage(u) /\ u.id[2] = u.key
             /\ \A u, v \in stages' : u.id = v.id => u.pipeline = v.pipeline
             /\ \A u \in stages' : (\E v \in stages : v.id = u.id) \/ u.id[1] = h
             /\ LinksJoinStages'
  <2>1. \A u \in stages : u.id # new.id
    BY <1>3, <1>7, <1>8 DEF PipeRows
  <2>2. stages' = stages \/ stages' = stages \cup {new}
    BY <1>3, <2>1
  <2>3. LinksJoinStages'
    BY <1>3, <1>8, <2>2 DEF LinksJoinStages, KeysOf, StagesOf
  <2>. QED
    BY <1>3, <1>6, <1>7, <1>8, <2>1, <2>2, <2>3 DEF PipeRows
<1>. QED
  BY <1>3, <1>4, <1>5, <1>8, PipeWrites

LEMMA UpdateStageKeeps ==
    ASSUME PipeTurn, NEW h \in Requests, UpdateStage(h) \/ ReplacePipeline(h) PROVE PipeInv'
<1>1. PICK op, step, arg : op = handler[h].op /\ step = handler[h].step /\ arg = handler[h].arg
  OBVIOUS
<1>2. /\ Running(h) /\ End(h) /\ op \in {"updateStage", "replacePipeline"}
      /\ op = "updateStage" => UNCHANGED pipelines
      /\ op = "replacePipeline" =>
             /\ step = "commit"
             /\ UNCHANGED pipelines \/ pipelines' = [pipelines EXCEPT ![arg.pipeline] = arg.name]
  <2>1. CASE UpdateStage(h)
    BY <1>1, <2>1, Zenon DEF UpdateStage, At, Running
  <2>2. CASE ReplacePipeline(h)
    BY <1>1, <2>2 DEF ReplacePipeline, At, Running, Arg, ptables
  <2>. QED
    BY <2>1, <2>2
<1>3. ~Untouched
  BY <1>1, <1>2 DEF Untouched, Asked
<1>4. Undisturbed' => NamesDiffer /\ NameAt(op, step, arg)
  BY <1>1, <1>2, PipeFound
<1>5. ASSUME Undisturbed' PROVE NamesDiffer'
  <2>1. CASE UNCHANGED pipelines
    BY <1>4, <1>5, <2>1 DEF NamesDiffer
  <2>2. CASE op = "replacePipeline" /\ pipelines' = [pipelines EXCEPT ![arg.pipeline] = arg.name]
    <3>1. arg.name # pipelines[arg.pipeline] => ~NameTaken(arg.name)
      BY <1>2, <1>4, <1>5, <2>2 DEF NameAt
    <3>. QED
      BY <1>4, <1>5, <2>2, <3>1 DEF NamesDiffer, NameTaken
  <2>. QED
    BY <1>2, <2>1, <2>2
<1>. QED
  BY <1>2, <1>3, <1>5, PipeWrites

LEMMA DeleteStageKeeps ==
    ASSUME PipeTurn, NEW h \in Requests, DeleteStage(h) PROVE PipeInv'
<1>1. PICK op, step, arg : op = handler[h].op /\ step = handler[h].step /\ arg = handler[h].arg
  OBVIOUS
<1>2. /\ Running(h) /\ op = "deleteStage" /\ step = "delete" /\ End(h) /\ UNCHANGED <<pipelines, transitions>>
      /\ stages' = {s \in stages : s.id # arg}
  BY <1>1 DEF DeleteStage, At, Running, Arg
<1>3. /\ Undisturbed' => NamesDiffer
      /\ Undisturbed' /\ Untouched => PipeRows /\ LinkAt(op, step, arg)
  BY <1>1, <1>2, PipeFound
<1>4. NamesDiffer' = NamesDiffer
  BY <1>2 DEF NamesDiffer
<1>5. ASSUME PipeRows, LinkAt(op, step, arg), NEW t \in transitions
      PROVE  {t.from, t.to} \subseteq KeysOf(t.pipeline)'
  <2>1. {t.from, t.to} \subseteq KeysOf(t.pipeline) /\ arg[2] \notin {t.from, t.to}
    BY <1>2, <1>5 DEF LinkAt
  <2>2. \A s \in stages : s.id = arg => s.key = arg[2]
    BY <1>5 DEF PipeRows
  <2>3. ASSUME NEW key \in {t.from, t.to} PROVE key \in KeysOf(t.pipeline)'
    <3>1. PICK s \in stages : s.pipeline = t.pipeline /\ s.key = key
      BY <2>1 DEF KeysOf, StagesOf
    <3>2. s \in stages'
      BY <1>2, <2>1, <2>2, <3>1
    <3>. QED
      BY <3>1, <3>2 DEF KeysOf, StagesOf
  <2>. QED
    BY <2>3
<1>6. ASSUME PipeRows, LinkAt(op, step, arg) PROVE LinksJoinStages'
  BY <1>2, <1>5, <1>6 DEF LinksJoinStages
<1>. QED
  BY <1>2, <1>3, <1>4, <1>6, PipeWrites DEF PipeRows

\* A stage that is put in another place
Placed(s, n) == [s EXCEPT !.order = n]

LEMMA PlacedIs ==
    ASSUME NEW s, IsStage(s), NEW n
    PROVE  \E u : /\ u = Placed(s, n) /\ IsStage(u)
                  /\ u.id = s.id /\ u.pipeline = s.pipeline /\ u.key = s.key
<1>1. PICK u : u = [s EXCEPT !.order = n]
  OBVIOUS
<1>2. IsStage(u) /\ u.id = s.id /\ u.pipeline = s.pipeline /\ u.key = s.key
  BY <1>1 DEF IsStage
<1>. QED
  BY <1>1, <1>2 DEF Placed

LEMMA PlaceStageKeeps ==
    ASSUME PipeTurn, NEW h \in Requests, PlaceStage(h) PROVE PipeInv'
<1>1. PICK op, step, arg : op = handler[h].op /\ step = handler[h].step /\ arg = handler[h].arg
  OBVIOUS
<1>2. PICK n, id : n = handler[h].mem /\ id = arg.ids[n]
  OBVIOUS
<1>3. PICK new : new = Placed(StageById(id), n)
  OBVIOUS
<1>4. /\ Running(h) /\ op = "reorderStages" /\ step = "place" /\ UNCHANGED <<pipelines, transitions>>
      /\ stages' = stages \/ (id \in StageIds /\ stages' = {t \in stages : t.id # new.id} \cup {new})
      /\ End(h) \/ Keep(h, "place", n + 1)
  <2>1. /\ Running(h) /\ op = "reorderStages" /\ step = "place" /\ UNCHANGED <<pipelines, transitions>>
        /\ End(h) \/ Keep(h, "place", n + 1)
    BY <1>1, <1>2 DEF PlaceStage, At, Running, Mem
  <2>2. IF id \in StageIds THEN PutStage(new) ELSE UNCHANGED stages
    BY <1>1, <1>2, <1>3, Zenon DEF PlaceStage, Arg, Mem, Placed
  <2>3. PutStage(new) => stages' = stages \/ stages' = {t \in stages : t.id # new.id} \cup {new}
    BY DEF PutStage
  <2>. QED
    BY <2>1, <2>2, <2>3
<1>5. /\ Shape /\ handler[h].step \notin {"idle", "done"}
      /\ Undisturbed' => NamesDiffer
      /\ Undisturbed' /\ Untouched => PipeRows /\ LinksJoinStages
  BY <1>1, <1>4, PipeFound, PipeNow
<1>6. NamesDiffer' = NamesDiffer
  BY <1>4 DEF NamesDiffer
<1>7. ASSUME PipeRows, LinksJoinStages
      PROVE  /\ \A t \in transitions' : IsLink(t)
             /\ \A u \in stages' : IsStage(u) /\ u.id[2] = u.key
             /\ \A u, v \in stages' : u.id = v.id => u.pipeline = v.pipeline
             /\ \A u \in stages' : \E v \in stages : v.id = u.id
             /\ LinksJoinStages'
  <2>1. CASE stages' = stages
    BY <1>4, <1>7, <2>1 DEF PipeRows, LinksJoinStages, KeysOf, StagesOf
  <2>2. CASE id \in StageIds /\ stages' = {t \in stages : t.id # new.id} \cup {new}
    <3>1. PICK old \in stages : old = StageById(id) /\ old.id = id
      BY <2>2, StageByIdIs
    <3>2. IsStage(old) /\ old.id[2] = old.key
      BY <1>7, <3>1 DEF PipeRows
    <3>3. IsStage(new) /\ new.id = old.id /\ new.pipeline = old.pipeline /\ new.key = old.key
      BY <1>3, <3>1, <3>2, PlacedIs
    <3>4. \A u \in stages' : u = new \/ (u \in stages /\ u.id # old.id)
      BY <2>2, <3>3
    <3>5. \A u \in stages' : IsStage(u) /\ u.id[2] = u.key /\ \E v \in stages : v.id = u.id
      BY <1>7, <3>1, <3>2, <3>3, <3>4 DEF PipeRows
    <3>6. \A u, v \in stages' : u.id = v.id => u.pipeline = v.pipeline
      BY <1>7, <3>3, <3>4 DEF PipeRows
    <3>7. \A s \in stages : \E u \in stages' : u.pipeline = s.pipeline /\ u.key = s.key
      <4> SUFFICES ASSUME NEW s \in stages PROVE \E u \in stages' : u.pipeline = s.pipeline /\ u.key = s.key
        OBVIOUS
      <4>1. CASE s.id # old.id
        BY <2>2, <3>3, <4>1
      <4>2. CASE s.id = old.id
        <5>1. s.pipeline = old.pipeline /\ s.key = old.key
          BY <1>7, <3>1, <4>2 DEF PipeRows
        <5>. QED
          BY <2>2, <3>3, <5>1
      <4>. QED
        BY <4>1, <4>2
    <3>8. LinksJoinStages'
      <4> SUFFICES ASSUME NEW t \in transitions, NEW key \in {t.from, t.to} PROVE key \in KeysOf(t.pipeline)'
        BY <1>4 DEF LinksJoinStages
      <4>1. PICK s \in stages : s.pipeline = t.pipeline /\ s.key = key
        BY <1>7 DEF LinksJoinStages, KeysOf, StagesOf
      <4>2. PICK u \in stages' : u.pipeline = t.pipeline /\ u.key = key
        BY <3>7, <4>1
      <4>. QED
        BY <4>2 DEF KeysOf, StagesOf
    <3>. QED
      BY <1>4, <1>7, <3>5, <3>6, <3>8 DEF PipeRows
  <2>. QED
    BY <1>4, <2>1, <2>2
<1>8. CASE End(h)
  BY <1>4, <1>5, <1>6, <1>7, <1>8, PipeWrites
<1>9. CASE Keep(h, "place", n + 1)
  <2>1. PICK k : k = n + 1
    OBVIOUS
  <2>2. PICK s : /\ Moves(h, s) /\ s.op = handler[h].op /\ s.step = "place"
                 /\ s.arg = handler[h].arg /\ s.mem = k
    BY <1>5, <1>9, <2>1, GoesOn
  <2>3. NameAt(s.op, s.step, s.arg)' /\ (LinksJoinStages' => LinkAt(s.op, s.step, s.arg)')
    BY <1>1, <1>4, <2>2 DEF NameAt, LinkAt, LinksJoinStages
  <2>. QED
    BY <1>4, <1>5, <1>6, <1>7, <2>2, <2>3, PipeMoves
<1>. QED
  BY <1>4, <1>8, <1>9

LEMMA InsertLinkKeeps ==
    ASSUME PipeTurn, NEW h \in Requests, InsertLink(h) PROVE PipeInv'
<1>1. PICK op, step, arg : op = handler[h].op /\ step = handler[h].step /\ arg = handler[h].arg
  OBVIOUS
<1>2. PICK new : new = LinkRow(arg.pipeline, <<h, arg.from, arg.to>>, arg.from, arg.to)
  OBVIOUS
<1>3. /\ Running(h) /\ op = "createTransition" /\ step = "insert" /\ End(h) /\ UNCHANGED <<pipelines, stages>>
      /\ transitions' = transitions \/ transitions' = {t \in transitions : t.id # new.id} \cup {new}
  BY <1>1, <1>2 DEF InsertLink, PutLink, At, Running, Arg
<1>4. /\ Undisturbed' => NamesDiffer
      /\ Undisturbed' /\ Untouched => PipeRows /\ LinkAt(op, step, arg)
  BY <1>1, <1>3, PipeFound
<1>5. NamesDiffer' = NamesDiffer /\ \A p : KeysOf(p)' = KeysOf(p)
  BY <1>3 DEF NamesDiffer, KeysOf, StagesOf
<1>6. /\ IsLink(new) /\ new.pipeline = arg.pipeline /\ new.from = arg.from /\ new.to = arg.to
      /\ \A t \in transitions' : t \in transitions \/ t = new
  BY <1>2, <1>3 DEF LinkRow, IsLink
<1>7. LinkAt(op, step, arg) => LinksJoinStages'
  BY <1>3, <1>5, <1>6 DEF LinkAt, LinksJoinStages
<1>. QED
  BY <1>3, <1>4, <1>5, <1>6, <1>7, PipeWrites DEF PipeRows

LEMMA UpdateLinkKeeps ==
    ASSUME PipeTurn, NEW h \in Requests, UpdateLink(h) PROVE PipeInv'
<1>1. PICK op, step, arg : op = handler[h].op /\ step = handler[h].step /\ arg = handler[h].arg
  OBVIOUS
<1>2. PICK new : new = Relinked(LinkById(arg.id), arg.from, arg.to)
  OBVIOUS
<1>3. /\ Running(h) /\ op = "updateTransition" /\ step = "save" /\ End(h) /\ UNCHANGED <<pipelines, stages>>
      /\ \/ transitions' = transitions
         \/ arg.id \in LinkIds /\ transitions' = {t \in transitions : t.id # new.id} \cup {new}
  BY <1>1, <1>2 DEF UpdateLink, PutLink, At, Running, Arg, Relinked
<1>4. /\ Undisturbed' => NamesDiffer
      /\ Undisturbed' /\ Untouched => PipeRows /\ LinkAt(op, step, arg)
  BY <1>1, <1>3, PipeFound
<1>5. NamesDiffer' = NamesDiffer /\ \A p : KeysOf(p)' = KeysOf(p)
  BY <1>3 DEF NamesDiffer, KeysOf, StagesOf
<1>6. ASSUME PipeRows, LinkAt(op, step, arg)
      PROVE  LinksJoinStages' /\ \A t \in transitions' : IsLink(t)
  <2>1. CASE transitions' = transitions
    BY <1>3, <1>5, <1>6, <2>1 DEF PipeRows, LinkAt, LinksJoinStages
  <2>2. CASE arg.id \in LinkIds /\ transitions' = {t \in transitions : t.id # new.id} \cup {new}
    <3>1. PICK old \in transitions : old = LinkById(arg.id)
      BY <2>2, LinkByIdIs
    <3>2. IsLink(new) /\ new.pipeline = old.pipeline /\ new.from = arg.from /\ new.to = arg.to
      BY <1>2, <1>6, <3>1, RelinkedIs DEF PipeRows
    <3>3. {new.from, new.to} \subseteq KeysOf(new.pipeline)
      BY <1>3, <1>6, <3>1, <3>2 DEF LinkAt
    <3>. QED
      BY <1>3, <1>5, <1>6, <2>2, <3>2, <3>3 DEF PipeRows, LinkAt, LinksJoinStages
  <2>. QED
    BY <1>3, <2>1, <2>2
<1>. QED
  BY <1>3, <1>4, <1>5, <1>6, PipeWrites DEF PipeRows

LEMMA DeleteLinkKeeps ==
    ASSUME PipeTurn, NEW h \in Requests, DeleteLink(h) PROVE PipeInv'
<1>1. /\ Running(h) /\ handler[h].step = "start" /\ End(h) /\ UNCHANGED <<pipelines, stages>>
      /\ transitions' \subseteq transitions
  BY DEF DeleteLink, At, Running
<1>2. /\ Undisturbed' => NamesDiffer
      /\ Undisturbed' /\ Untouched => PipeRows /\ LinksJoinStages
  BY <1>1, PipeNow
<1>3. NamesDiffer' = NamesDiffer /\ (LinksJoinStages => LinksJoinStages')
  BY <1>1 DEF NamesDiffer, LinksJoinStages, KeysOf, StagesOf
<1>. QED
  BY <1>1, <1>2, <1>3, PipeWrites DEF PipeRows

LEMMA BuiltIs ==
    ASSUME NEW h, NEW p, NEW keys
    PROVE  /\ \A s \in Built(h, p, keys) : /\ IsStage(s) /\ s.pipeline = p
                                           /\ s.id[1] = h /\ s.id[2] = s.key
           /\ \A key \in Range(keys) : \E s \in Built(h, p, keys) : s.key = key
<1>1. ASSUME NEW s \in Built(h, p, keys)
      PROVE  IsStage(s) /\ s.pipeline = p /\ s.id[1] = h /\ s.id[2] = s.key
  <2>1. PICK i \in DOMAIN keys : s = StageRow(p, <<h, keys[i]>>, keys[i], i)
    BY DEF Built
  <2>2. IsStage(s) /\ s.pipeline = p /\ s.id = <<h, keys[i]>> /\ s.key = keys[i]
    BY <2>1 DEF StageRow, IsStage
  <2>. QED
    BY <2>2
<1>2. ASSUME NEW key \in Range(keys) PROVE \E s \in Built(h, p, keys) : s.key = key
  <2>1. PICK i \in DOMAIN keys : keys[i] = key
    BY DEF Range
  <2>2. PICK s : s = StageRow(p, <<h, keys[i]>>, keys[i], i)
    OBVIOUS
  <2>3. s \in Built(h, p, keys) /\ s.key = key
    BY <2>1, <2>2 DEF Built, StageRow
  <2>. QED
    BY <2>3
<1>. QED
  BY <1>1, <1>2

LEMMA LinkedIs ==
    ASSUME NEW h, NEW p, NEW links, NEW t \in Linked(h, p, links)
    PROVE  IsLink(t) /\ t.pipeline = p /\ \E l \in links : t.from = l[1] /\ t.to = l[2]
<1>1. PICK l \in links : t = LinkRow(p, <<h, l[1], l[2]>>, l[1], l[2])
  BY DEF Linked
<1>. QED
  BY <1>1 DEF LinkRow, IsLink

LEMMA ComposeKeeps ==
    ASSUME PipeTurn, NEW h \in Requests, ComposePipeline(h) PROVE PipeInv'
<1>1. PICK op, step, arg, new, more :
          /\ op = handler[h].op /\ step = handler[h].step /\ arg = handler[h].arg
          /\ new = Built(h, h, handler[h].arg.keys) /\ more = Linked(h, h, handler[h].arg.links)
  OBVIOUS
<1>2. /\ Running(h) /\ op = "composePipeline" /\ step = "commit" /\ End(h)
      /\ pipelines' = [p \in DOMAIN pipelines \cup {h} |-> IF p = h THEN arg.name ELSE pipelines[p]]
      /\ stages' = stages \cup new /\ transitions' = transitions \cup more
  BY <1>1 DEF ComposePipeline, At, Running, Arg
<1>3. /\ Undisturbed' => NamesDiffer /\ NameAt(op, step, arg)
      /\ Undisturbed' /\ Untouched => PipeRows /\ LinkAt(op, step, arg)
  BY <1>1, <1>2, PipeFound
<1>4. ASSUME Undisturbed' PROVE NamesDiffer'
  <2>1. ~NameTaken(arg.name)
    BY <1>2, <1>3, <1>4 DEF NameAt
  <2>. QED
    BY <1>2, <1>3, <1>4, <2>1 DEF NamesDiffer, NameTaken
<1>5. \A s \in new : IsStage(s) /\ s.pipeline = h /\ s.id[1] = h /\ s.id[2] = s.key
  BY <1>1, BuiltIs
<1>6. \A key \in Range(arg.keys) : \E s \in new : s.key = key
  BY <1>1, BuiltIs
<1>7. \A t \in more : IsLink(t) /\ t.pipeline = h /\ \E l \in arg.links : t.from = l[1] /\ t.to = l[2]
  BY <1>1, LinkedIs
<1>8. ASSUME PipeRows, LinkAt(op, step, arg)
      PROVE  /\ \A t \in transitions' : IsLink(t)
             /\ \A u \in stages' : IsStage(u) /\ u.id[2] = u.key
             /\ \A u, v \in stages' : u.id = v.id => u.pipeline = v.pipeline
             /\ \A u \in stages' : (\E v \in stages : v.id = u.id) \/ u.id[1] = h
             /\ LinksJoinStages'
  <2>1. \A s \in stages : s.id[1] # h
    BY <1>2, <1>1, <1>8 DEF PipeRows
  <2>2. \A u, v \in stages' : u.id = v.id => u.pipeline = v.pipeline
    BY <1>2, <1>5, <1>8, <2>1 DEF PipeRows
  <2>3. ASSUME NEW t \in transitions', NEW key \in {t.from, t.to} PROVE key \in KeysOf(t.pipeline)'
    <3>1. \E s \in stages' : s.pipeline = t.pipeline /\ s.key = key
      <4>1. CASE t \in transitions
        <5>1. PICK s \in stages : s.pipeline = t.pipeline /\ s.key = key
          BY <1>2, <1>8, <2>3, <4>1 DEF LinkAt, KeysOf, StagesOf
        <5>. QED
          BY <1>2, <5>1
      <4>2. CASE t \in more
        <5>1. PICK l \in arg.links : t.from = l[1] /\ t.to = l[2]
          BY <1>7, <4>2
        <5>2. {l[1], l[2]} \subseteq Range(arg.keys)
          BY <1>2, <1>8, <5>1 DEF LinkAt, Joins
        <5>3. PICK s \in new : s.key = key
          BY <1>6, <2>3, <5>1, <5>2
        <5>. QED
          BY <1>2, <1>5, <1>7, <4>2, <5>3
      <4>. QED
        BY <1>2, <4>1, <4>2
    <3>. QED
      BY <3>1 DEF KeysOf, StagesOf
  <2>4. LinksJoinStages'
    BY <2>3 DEF LinksJoinStages
  <2>. QED
    BY <1>2, <1>5, <1>7, <1>8, <2>2, <2>4 DEF PipeRows
<1>. QED
  BY <1>2, <1>3, <1>4, <1>8, PipeWrites

LEMMA PipeStart == SInit /\ PipelineInit /\ overlapped = FALSE => PipeInv
<1> SUFFICES ASSUME SInit, PipelineInit PROVE PipeInv
  OBVIOUS
<1>1. \A h \in Requests : handler[h].op = "none" /\ handler[h].step = "idle"
  BY DEF SInit, Idle
<1>2. PICK a \in Keys, b \in Keys, n \in PipelineNames :
          /\ pipelines = [p \in {FirstPipeline} |-> n]
          /\ stages = {StageRow(FirstPipeline, <<FirstPipeline, a>>, a, 1),
                       StageRow(FirstPipeline, <<FirstPipeline, b>>, b, 2)}
          /\ transitions = {LinkRow(FirstPipeline, <<FirstPipeline, a, b>>, a, b)}
  BY DEF PipelineInit
<1>3. NamesDiffer
  BY <1>2 DEF NamesDiffer
<1>4. PICK s, u, t : /\ s = StageRow(FirstPipeline, <<FirstPipeline, a>>, a, 1)
                     /\ u = StageRow(FirstPipeline, <<FirstPipeline, b>>, b, 2)
                     /\ t = LinkRow(FirstPipeline, <<FirstPipeline, a, b>>, a, b)
  OBVIOUS
<1>5. /\ IsStage(s) /\ s.pipeline = FirstPipeline /\ s.key = a /\ s.id = <<FirstPipeline, a>>
      /\ IsStage(u) /\ u.pipeline = FirstPipeline /\ u.key = b /\ u.id = <<FirstPipeline, b>>
      /\ IsLink(t) /\ t.pipeline = FirstPipeline /\ t.from = a /\ t.to = b
      /\ stages = {s, u} /\ transitions = {t}
  BY <1>2, <1>4 DEF StageRow, LinkRow, IsStage, IsLink
<1>6. s.id[1] = FirstPipeline /\ s.id[2] = a /\ u.id[1] = FirstPipeline /\ u.id[2] = b
  BY <1>5
<1>7. PipeRows
  BY <1>5, <1>6, PipelineAssumption DEF PipeRows
<1>8. LinksJoinStages
  BY <1>5 DEF LinksJoinStages, KeysOf, StagesOf
<1>9. Unasked /\ OneAtWork /\ \A h \in Requests : ~Running(h)
  BY <1>1 DEF Unasked, OneAtWork, Running
<1>. QED
  BY <1>3, <1>7, <1>8, <1>9, ShapeInit DEF PipeInv, SInit

LEMMA PipeNext ==
    PipeInv /\ [PipelineNext /\ Turns]_<<svars, ptables, overlapped>> => PipeInv'
<1> SUFFICES ASSUME PipeInv, [PipelineNext /\ Turns]_<<svars, ptables, overlapped>> PROVE PipeInv'
  OBVIOUS
<1>1. CASE UNCHANGED <<svars, ptables, overlapped>>
  <2>1. UNCHANGED <<handler, faults, overlapped, pipelines, stages, transitions>>
    BY <1>1 DEF svars, ptables
  <2>2. /\ Shape' = Shape /\ Unasked' = Unasked /\ OneAtWork' = OneAtWork /\ Quiet' = Quiet
        /\ Untouched' = Untouched /\ Undisturbed' = Undisturbed /\ PipeRows' = PipeRows
        /\ \A h \in Requests : Running(h)' = Running(h)
    BY <2>1 DEF Shape, Unasked, OneAtWork, Quiet, Running, Untouched, Asked, Undisturbed, PipeRows
  <2>3. /\ NamesDiffer' = NamesDiffer /\ LinksJoinStages' = LinksJoinStages
        /\ \A a, b, c : NameAt(a, b, c) = NameAt(a, b, c)' /\ LinkAt(a, b, c) = LinkAt(a, b, c)'
    BY <1>1, PipeSame DEF ptables
  <2>. QED
    BY <2>1, <2>2, <2>3 DEF PipeInv
<1>2. ASSUME NEW h \in Requests, Turns,
             PipelineRequest(h) \/ PipelineStep(h) \/ (Fault(h) /\ UNCHANGED ptables)
      PROVE  PipeInv'
  <2>1. faults \in Nat /\ (faults' = faults \/ faults' = faults + 1)
    <3>1. CASE PipelineRequest(h) \/ Fault(h)
      BY <3>1 DEF PipelineRequest, Ask, Fault, PipeInv
    <3>2. CASE CheckCreate(h) \/ CheckUpdate(h) \/ CheckDelete(h) \/ CheckAssign(h) \/ RemoveJob(h)
               \/ CheckReplace(h) \/ CheckStructure(h) \/ CheckCompose(h) \/ CheckStage(h)
      BY <3>2 DEF CheckCreate, CheckUpdate, CheckDelete, CheckAssign, RemoveJob, CheckReplace,
                  CheckStructure, CheckCompose, CheckStage, Check, Goto, End, PipeInv
    <3>3. CASE CheckUpdateStage(h) \/ CheckDeleteStage(h) \/ CheckReorder(h) \/ CheckLink(h)
      BY <3>3 DEF CheckUpdateStage, CheckDeleteStage, CheckReorder, CheckLink, Check, Keep, Goto, End, PipeInv
    <3>4. CASE CheckUpdateLink(h)
      BY <3>4 DEF CheckUpdateLink, Check, Goto, End, PipeInv
    <3>5. CASE InsertPipeline(h) \/ SavePipeline(h) \/ FreeJobs(h) \/ DeleteStages(h) \/ DeleteLinks(h)
      BY <3>5 DEF InsertPipeline, SavePipeline, FreeJobs, DeleteStages, DeleteLinks, Goto, End, PipeInv
    <3>6. CASE DeletePipeline(h) \/ AssignJob(h) \/ InsertStage(h) \/ DeleteStage(h) \/ InsertLink(h)
      BY <3>6, Zenon DEF DeletePipeline, AssignJob, InsertStage, DeleteStage, InsertLink, Goto, End, PipeInv
    <3>7. CASE UpdateStage(h) \/ UpdateLink(h) \/ DeleteLink(h) \/ ReplacePipeline(h) \/ ComposePipeline(h)
      BY <3>7, Zenon DEF UpdateStage, UpdateLink, DeleteLink, ReplacePipeline, ComposePipeline, End, PipeInv
    <3>8. CASE PlaceStage(h)
      BY <3>8, Zenon DEF PlaceStage, End, Keep, PipeInv
    <3>. QED
      BY <1>2, <3>1, <3>2, <3>3, <3>4, <3>5, <3>6, <3>7, <3>8 DEF PipelineStep
  <2>2. PipeTurn
    BY <1>2, <2>1 DEF PipeTurn
  <2>3. CASE PipelineRequest(h)
    BY <2>2, <2>3, PipeStarts
  <2>4. CASE Fault(h) /\ UNCHANGED ptables
    <3>1. Running(h) /\ ~Undisturbed'
      BY <2>1, <2>4 DEF Fault, Undisturbed
    <3>. QED
      BY <2>2, <2>4, <3>1, PipeEnds
  <2>5. CASE CheckCreate(h) \/ CheckUpdate(h) \/ CheckDelete(h) \/ CheckAssign(h) \/ RemoveJob(h)
             \/ CheckReplace(h) \/ CheckStructure(h) \/ CheckCompose(h)
    BY <2>2, <2>5, PipeChecksNames
  <2>6. CASE CheckStage(h) \/ CheckUpdateStage(h) \/ CheckDeleteStage(h) \/ CheckReorder(h)
             \/ CheckLink(h) \/ CheckUpdateLink(h)
    BY <2>2, <2>6, PipeChecksRows
  <2>7. CASE InsertPipeline(h) \/ SavePipeline(h) \/ AssignJob(h)
    BY <2>2, <2>7, WritesNames
  <2>8. CASE FreeJobs(h) \/ DeleteStages(h) \/ DeleteLinks(h) \/ DeletePipeline(h)
    BY <2>2, <2>8, DeletesPipeline
  <2>9. CASE InsertStage(h) \/ UpdateStage(h) \/ DeleteStage(h) \/ PlaceStage(h) \/ ReplacePipeline(h)
    BY <2>2, <2>9, InsertStageKeeps, UpdateStageKeeps, DeleteStageKeeps, PlaceStageKeeps
  <2>10. CASE InsertLink(h) \/ UpdateLink(h) \/ DeleteLink(h) \/ ComposePipeline(h)
    BY <2>2, <2>10, InsertLinkKeeps, UpdateLinkKeeps, DeleteLinkKeeps, ComposeKeeps
  <2>. QED
    BY <1>2, <2>3, <2>4, <2>5, <2>6, <2>7, <2>8, <2>9, <2>10 DEF PipelineStep
<1>. QED
  BY <1>1, <1>2 DEF PipelineNext

\* Of requests that waited for each other, with no failing query, pipelines have
\* different names and, unless a stage was given a new key or all the stages of a
\* pipeline were replaced, every transition joins two stages of its pipeline
\* (deleteStage, createTransition, updateTransition, deletePipeline).
THEOREM PipelinesInTurn == PipelineTurns => []PipelineInTurn
<1>1. PipeInv => PipelineInTurn
  BY DEF PipeInv, PipelineInTurn, Untouched
<1>. QED
  BY <1>1, PipeStart, PipeNext, PTL DEF PipelineTurns

-----------------------------------------------------------------------------
(* Reports on hiring: sums, and the middle of what is sorted *)

LEMMA LeastSubset ==
    ASSUME NEW S, IsFiniteSet(S), NEW T \in SUBSET SUBSET S, T # {}
    PROVE  \E s \in T : \A t \in T : t \subseteq s => t = s
<1> DEFINE R == StrictSubsetOrdering(S)
<1>1. IsWellFoundedOn(R, FiniteSubsetsOf(S))
  BY FS_StrictSubsetOrderingWellFounded
<1>2. T \subseteq FiniteSubsetsOf(S)
  BY FS_FiniteSubsetsOfFinite
<1>3. ASSUME NEW s \in T, NEW t \in T, t \subseteq s, t # s PROVE <<t, s>> \in R
  BY <1>3 DEF StrictSubsetOrdering
<1> HIDE DEF R
<1>4. \E s \in T : \A t \in T : ~(<<t, s>> \in R)
  BY <1>1, <1>2, WFMin
<1>. QED
  BY <1>3, <1>4

\* The key whose count Total takes next, and its recursion over the sets of D
NextKey(s) == CHOOSE k \in s : TRUE
Adds(g, counts, D) ==
    g = [s \in D |-> IF s = {} THEN 0 ELSE g[s \ {NextKey(s)}] + counts[NextKey(s)]]

LEMMA NextKeyIn == ASSUME NEW s, s # {} PROVE NextKey(s) \in s
BY DEF NextKey

LEMMA TotalIs ==
    ASSUME NEW counts
    PROVE  Total(counts) = (CHOOSE g : Adds(g, counts, SUBSET DOMAIN counts))[DOMAIN counts]
BY DEF Total, FoldSet, MapThenFoldSet, Adds, NextKey

LEMMA AddsExists ==
    ASSUME NEW counts, NEW K, IsFiniteSet(K)
    PROVE  \E g : Adds(g, counts, SUBSET K)
<1> DEFINE D(n) == {s \in SUBSET K : Cardinality(s) <= n}
           bad == {n \in Nat : ~ \E g : Adds(g, counts, D(n))}
<1>1. \A s \in SUBSET K : IsFiniteSet(s) /\ Cardinality(s) \in Nat
                          /\ Cardinality(s) <= Cardinality(K)
  BY FS_Subset, FS_CardinalityType
<1>2. bad = {}
  <2>1. SUFFICES ASSUME NEW n \in bad, \A m \in bad : n <= m PROVE FALSE
    <3> HIDE DEF bad
    <3>1. bad \in SUBSET Nat
      BY DEF bad
    <3>. QED
      BY <3>1, LeastNumber
  <2>2. CASE n = 0
    <3>1. \A s \in D(0) : s = {}
      BY <1>1, FS_EmptySet
    <3> DEFINE g == [s \in D(0) |-> 0]
    <3>2. Adds(g, counts, D(0))
      BY <3>1 DEF Adds
    <3>. QED
      BY <2>2, <3>2
  <2>3. CASE n # 0
    <3>1. n \in Nat /\ n - 1 \in Nat /\ n - 1 < n
      BY <2>3
    <3>2. n - 1 \notin bad
      <4> HIDE DEF bad
      <4>. QED
        BY <2>1, <3>1
    <3>3. PICK g : Adds(g, counts, D(n - 1))
      BY <3>1, <3>2
    <3> DEFINE h == [s \in D(n) |->
                        IF s = {} THEN 0 ELSE g[s \ {NextKey(s)}] + counts[NextKey(s)]]
    <3>4. ASSUME NEW s \in D(n), s # {} PROVE s \ {NextKey(s)} \in D(n - 1)
      <4>1. NextKey(s) \in s
        BY <3>4, NextKeyIn
      <4>2. Cardinality(s \ {NextKey(s)}) = Cardinality(s) - 1
        BY <1>1, <4>1, FS_RemoveElement
      <4>. QED
        BY <1>1, <4>2
    <3>5. \A s \in D(n - 1) : s \in D(n) /\ h[s] = g[s]
      <4>1. \A s \in D(n - 1) : s \in D(n)
        BY <1>1, <2>1
      <4>2. \A s \in D(n - 1) :
                g[s] = IF s = {} THEN 0 ELSE g[s \ {NextKey(s)}] + counts[NextKey(s)]
        BY <3>3 DEF Adds
      <4>. QED
        BY <4>1, <4>2
    <3>6. h = [s \in D(n) |->
                  IF s = {} THEN 0 ELSE h[s \ {NextKey(s)}] + counts[NextKey(s)]]
      BY <3>4, <3>5
    <3>7. Adds(h, counts, D(n))
      BY <3>6 DEF Adds
    <3>. QED
      BY <3>7
  <2>. QED
    BY <2>2, <2>3
<1>3. Cardinality(K) \in Nat /\ D(Cardinality(K)) = SUBSET K
  BY <1>1, FS_CardinalityType
<1>. QED
  BY <1>2, <1>3

LEMMA TotalAdds ==
    ASSUME NEW counts, IsFiniteSet(DOMAIN counts)
    PROVE  \E g : Adds(g, counts, SUBSET DOMAIN counts) /\ Total(counts) = g[DOMAIN counts]
BY AddsExists, TotalIs

\* When each member of S is of one class, the classes together have as many.
LEMMA ClassesAddUp ==
    ASSUME NEW S, IsFiniteSet(S), NEW K, IsFiniteSet(K), NEW class, \A c \in S : class[c] \in K
    PROVE  Total([k \in K |-> Cardinality({c \in S : class[c] = k})]) = Cardinality(S)
<1> DEFINE counts == [k \in K |-> Cardinality({c \in S : class[c] = k})]
           Of(s) == {c \in S : class[c] \in s}
<1>1. DOMAIN counts = K /\ \A k \in K : counts[k] = Cardinality({c \in S : class[c] = k})
  OBVIOUS
<1> HIDE DEF counts
<1>2. PICK g : Adds(g, counts, SUBSET K) /\ Total(counts) = g[K]
  BY <1>1, TotalAdds
<1> DEFINE bad == {s \in SUBSET K : g[s] # Cardinality(Of(s))}
<1>3. bad = {}
  <2> SUFFICES ASSUME bad # {} PROVE FALSE
    OBVIOUS
  <2>1. PICK s \in bad : \A t \in bad : t \subseteq s => t = s
    <3>1. bad \in SUBSET SUBSET K
      OBVIOUS
    <3> HIDE DEF bad
    <3>. QED
      BY <3>1, LeastSubset
  <2>2. s \in SUBSET K /\ g[s] # Cardinality(Of(s))
    OBVIOUS
  <2>3. g[s] = IF s = {} THEN 0 ELSE g[s \ {NextKey(s)}] + counts[NextKey(s)]
    BY <1>2, <2>2 DEF Adds
  <2>4. CASE s = {}
    <3>1. Of(s) = {}
      BY <2>4
    <3>. QED
      BY <2>2, <2>3, <2>4, <3>1, FS_EmptySet
  <2>5. CASE s # {}
    <3> DEFINE k == NextKey(s)
               t == s \ {k}
    <3>1. k \in s /\ k \in K
      BY <2>2, <2>5, NextKeyIn
    <3>2. t \notin bad /\ t \in SUBSET K
      BY <2>1, <2>2, <3>1
    <3>3. g[t] = Cardinality(Of(t))
      BY <3>2
    <3> DEFINE one == {c \in S : class[c] = k}
    <3>4. Of(s) = Of(t) \cup one /\ Of(t) \cap one = {}
      BY <3>1
    <3>5. IsFiniteSet(Of(t)) /\ IsFiniteSet(one)
      BY FS_Subset
    <3>6. Cardinality(Of(s)) = Cardinality(Of(t)) + Cardinality(one) - Cardinality({})
      <4> HIDE DEF one, t, Of
      <4>. QED
        BY <3>4, <3>5, FS_Union
    <3>7. Cardinality(one) \in Nat /\ Cardinality(Of(t)) \in Nat
      BY <3>5, FS_CardinalityType
    <3>8. counts[k] = Cardinality(one)
      BY <1>1, <3>1
    <3>9. g[s] = g[t] + counts[k]
      BY <2>3, <2>5
    <3> HIDE DEF one, t, Of, k
    <3>. QED
      BY <2>2, <3>3, <3>6, <3>7, <3>8, <3>9, FS_EmptySet
  <2>. QED
    BY <2>4, <2>5
<1>4. K \in SUBSET K /\ Of(K) = S
  OBVIOUS
<1>5. g[K] = Cardinality(S)
  BY <1>3, <1>4
<1>. QED
  BY <1>2, <1>5 DEF counts

\* An injection is counted by its image.
LEMMA AtLeastSoMany ==
    ASSUME NEW a \in Int, NEW b \in Int, a <= b, NEW T, IsFiniteSet(T),
           NEW f, \A i \in a .. b : f[i] \in T, \A i, j \in a .. b : f[i] = f[j] => i = j
    PROVE  b - a + 1 <= Cardinality(T)
<1>1. PICK g : g = [i \in a .. b |-> f[i]]
  OBVIOUS
<1>2. g \in Injection(a .. b, T)
  BY <1>1 DEF Injection, IsInjective
<1>3. Cardinality(a .. b) = b - a + 1
  BY FS_Interval
<1>. QED
  BY <1>2, <1>3, FS_Injection

\* Where a number belongs is how many are before it, or as early and listed before it.
LEMMA OrderExists ==
    ASSUME NEW n \in Nat, NEW d, \A i \in 1 .. n : d[i] \in Int
    PROVE  \E p \in [1 .. n -> 1 .. n] :
               /\ \A i, j \in 1 .. n : p[i] = p[j] => i = j
               /\ \A i, j \in 1 .. n : i < j => d[p[i]] <= d[p[j]]
<1> DEFINE Earlier(i, j) == d[i] < d[j] \/ (d[i] = d[j] /\ i <= j)
           UpTo(i) == {j \in 1 .. n : Earlier(j, i)}
           r == [i \in 1 .. n |-> Cardinality(UpTo(i))]
<1>1. IsFiniteSet(1 .. n) /\ Cardinality(1 .. n) = n
  BY FS_Interval
<1>2. ASSUME NEW i \in 1 .. n
      PROVE  IsFiniteSet(UpTo(i)) /\ Cardinality(UpTo(i)) \in 1 .. n
  <2>1. IsFiniteSet(UpTo(i)) /\ Cardinality(UpTo(i)) <= n
    <3>1. UpTo(i) \in SUBSET (1 .. n)
      OBVIOUS
    <3>. QED
      BY <1>1, <3>1, FS_Subset
  <2>2. i \in UpTo(i)
    OBVIOUS
  <2>3. Cardinality(UpTo(i)) \in Nat /\ Cardinality(UpTo(i)) # 0
    <3> HIDE DEF UpTo
    <3>. QED
      BY <2>1, <2>2, FS_CardinalityType, FS_EmptySet
  <2> HIDE DEF UpTo
  <2>. QED
    BY <2>1, <2>3
<1>3. ASSUME NEW i \in 1 .. n, NEW j \in 1 .. n, ~Earlier(j, i)
      PROVE  r[i] < r[j]
  <2>1. d[i] \in Int /\ d[j] \in Int
    OBVIOUS
  <2>2. ASSUME NEW k \in UpTo(i) PROVE k \in UpTo(j)
    <3>1. k \in 1 .. n /\ d[k] \in Int /\ Earlier(k, i)
      OBVIOUS
    <3>2. Earlier(k, j)
      BY <1>3, <2>1, <3>1
    <3>. QED
      BY <3>1, <3>2
  <2>3. UpTo(i) \in SUBSET UpTo(j)
    <3> HIDE DEF UpTo
    <3>. QED
      BY <2>2
  <2>4. j \in UpTo(j) /\ j \notin UpTo(i)
    BY <1>3
  <2>5. r[i] = Cardinality(UpTo(i)) /\ r[j] = Cardinality(UpTo(j))
    OBVIOUS
  <2> HIDE DEF UpTo, r
  <2>6. Cardinality(UpTo(i)) <= Cardinality(UpTo(j)) /\ Cardinality(UpTo(i)) # Cardinality(UpTo(j))
    BY <1>2, <2>3, <2>4, FS_Subset
  <2>. QED
    BY <1>2, <2>5, <2>6
<1>4. \A i \in 1 .. n : r[i] \in 1 .. n
  BY <1>2
<1>5. r \in [1 .. n -> 1 .. n]
  BY <1>4
<1>6. \A i, j \in 1 .. n : i # j => ~Earlier(i, j) \/ ~Earlier(j, i)
  OBVIOUS
<1> HIDE DEF r, Earlier
<1>7. \A i, j \in 1 .. n : r[i] = r[j] => i = j
  BY <1>3, <1>4, <1>6
<1>8. r \in Injection(1 .. n, 1 .. n)
  BY <1>5, <1>7 DEF Injection, IsInjective
<1>9. r \in Surjection(1 .. n, 1 .. n)
  BY <1>1, <1>8, FS_Injection
<1>10. \A k \in 1 .. n : \E i \in 1 .. n : r[i] = k
  BY <1>9 DEF Surjection
<1> DEFINE p == [k \in 1 .. n |-> CHOOSE i \in 1 .. n : r[i] = k]
<1>11. \A k \in 1 .. n : p[k] \in 1 .. n /\ r[p[k]] = k
  BY <1>10
<1>12. p \in [1 .. n -> 1 .. n]
  BY <1>11
<1> HIDE DEF p
<1>13. \A i, j \in 1 .. n : p[i] = p[j] => i = j
  BY <1>11
<1>14. ASSUME NEW i \in 1 .. n, NEW j \in 1 .. n, i < j PROVE d[p[i]] <= d[p[j]]
  <2>1. p[i] \in 1 .. n /\ p[j] \in 1 .. n /\ r[p[i]] = i /\ r[p[j]] = j
    BY <1>11
  <2>2. Earlier(p[i], p[j])
    BY <1>3, <1>14, <2>1
  <2>3. d[p[i]] \in Int /\ d[p[j]] \in Int
    BY <2>1
  <2>. QED
    BY <2>2, <2>3 DEF Earlier
<1>. QED
  BY <1>12, <1>13, <1>14

\* A finite set has an order by any number of its members.
LEMMA SortedExists ==
    ASSUME NEW S, IsFiniteSet(S), NEW d, \A c \in S : d[c] \in Int
    PROVE  \E order \in SetToSeqs(S) : \A i, j \in DOMAIN order : i < j => d[order[i]] <= d[order[j]]
<1>1. PICK n : n = Cardinality(S)
  OBVIOUS
<1>2. n \in Nat /\ ExistsBijection(1 .. n, S)
  BY <1>1, FS_CardinalityType
<1>3. PICK b \in [1 .. n -> S] : \A i, j \in 1 .. n : b[i] = b[j] => i = j
  BY <1>2 DEF ExistsBijection, Bijection, Injection, IsInjective
<1>4. PICK e : e = [i \in 1 .. n |-> d[b[i]]]
  OBVIOUS
<1>5. \A i \in 1 .. n : e[i] = d[b[i]] /\ e[i] \in Int
  BY <1>3, <1>4
<1>6. PICK p \in [1 .. n -> 1 .. n] :
          /\ \A i, j \in 1 .. n : p[i] = p[j] => i = j
          /\ \A i, j \in 1 .. n : i < j => e[p[i]] <= e[p[j]]
  BY <1>2, <1>5, OrderExists
<1>7. PICK order : order = [i \in 1 .. n |-> b[p[i]]]
  OBVIOUS
<1>8. /\ order \in [1 .. n -> S] /\ DOMAIN order = 1 .. n
      /\ \A i, j \in 1 .. n : i # j => order[i] # order[j]
  BY <1>3, <1>6, <1>7
<1>9. \A i, j \in 1 .. n : i < j => d[order[i]] <= d[order[j]]
  BY <1>5, <1>6, <1>7
<1>10. order \in SetToSeqs(S)
  BY <1>1, <1>8 DEF SetToSeqs
<1>. QED
  BY <1>8, <1>9, <1>10

\* What CalculateTrend, CalculateOverview and the others are made of: the applications
\* of a table, however many.
LEMMA TableRows ==
    ASSUME NEW t, Table(t)
    PROVE  /\ IsFiniteSet(DOMAIN t)
           /\ \A c \in DOMAIN t : /\ t[c] \in Lives /\ t[c].applied \in Nat /\ t[c].changed \in Nat
                                  /\ t[c].applied <= t[c].changed /\ t[c].source \in Sources
                                  /\ t[c].contact \in Int /\ t[c].overdue \in BOOLEAN
                                  /\ t[c].assigned \in BOOLEAN /\ t[c].offer \in BOOLEAN
                                  /\ t[c].status \in ApplicationStatuses
<1>1. ASSUME NEW c \in DOMAIN t PROVE t[c] \in Lives
  BY <1>1 DEF Table
<1>. QED
  BY <1>1, AnalyticsAssumption DEF Table, Lives, Never

LEMMA RestrictIsTable ==
    ASSUME NEW t, Table(t), NEW S \in SUBSET DOMAIN t
    PROVE  /\ Table(Restrict(t, S)) /\ DOMAIN Restrict(t, S) = S
           /\ \A c \in S : Restrict(t, S)[c] = t[c]
<1>1. PICK r : r = Restrict(t, S)
  OBVIOUS
<1>2. r = [c \in S |-> t[c]]
  BY <1>1 DEF Restrict
<1>3. IsFiniteSet(S)
  BY FS_Subset DEF Table
<1>4. r \in [S -> Lives]
  BY <1>2, TableRows
<1>. QED
  BY <1>1, <1>2, <1>3, <1>4 DEF Table

\* The middle of the days to hire: at least half are not later, and half not earlier.
LEMMA MedianIsMiddle ==
    ASSUME NEW hired, Table(hired), DOMAIN hired # {}
    PROVE  LET m == Median(hired)
               n == Cardinality(DOMAIN hired) IN
           /\ \E c \in DOMAIN hired : m = DaysToHire(hired, c)
           /\ 2 * Cardinality({c \in DOMAIN hired : DaysToHire(hired, c) <= m}) >= n
           /\ 2 * Cardinality({c \in DOMAIN hired : DaysToHire(hired, c) >= m}) >= n
<1>1. PICK S : S = DOMAIN hired
  OBVIOUS
<1>2. PICK n : n = Cardinality(S)
  OBVIOUS
<1>3. PICK d : d = [c \in S |-> DaysToHire(hired, c)]
  OBVIOUS
<1>4. IsFiniteSet(S) /\ S # {} /\ n \in Nat /\ n # 0
  BY <1>1, <1>2, FS_CardinalityType, FS_EmptySet DEF Table
<1>5. \A c \in S : d[c] = DaysToHire(hired, c) /\ d[c] \in Int
  <2>1. \A c \in S : hired[c].changed \in Nat /\ hired[c].applied \in Nat
    BY <1>1, TableRows
  <2>. QED
    BY <1>3, <2>1 DEF DaysToHire
<1> DEFINE InOrder(o) == \A i, j \in DOMAIN o : i < j => DaysToHire(hired, o[i]) <= DaysToHire(hired, o[j])
<1>6. PICK order : order = CHOOSE o \in SetToSeqs(S) : InOrder(o)
  OBVIOUS
<1>7. \E o \in SetToSeqs(S) : InOrder(o)
  <2>1. PICK o \in SetToSeqs(S) : \A i, j \in DOMAIN o : i < j => d[o[i]] <= d[o[j]]
    BY <1>4, <1>5, SortedExists
  <2>2. \A i \in DOMAIN o : o[i] \in S
    BY DEF SetToSeqs
  <2>. QED
    BY <1>5, <2>1, <2>2
<1>8. order \in SetToSeqs(S) /\ InOrder(order)
  <2> HIDE DEF InOrder
  <2>. QED
    BY <1>6, <1>7
<1>9. /\ DOMAIN order = 1 .. n /\ \A i \in 1 .. n : order[i] \in S
      /\ \A i, j \in 1 .. n : order[i] = order[j] => i = j
  BY <1>2, <1>8 DEF SetToSeqs
<1>10. PICK e : e = [i \in 1 .. n |-> d[order[i]]]
  OBVIOUS
<1>11. \A i \in 1 .. n : e[i] = d[order[i]] /\ e[i] \in Int
  BY <1>5, <1>9, <1>10
<1>12. \A i, j \in 1 .. n : i <= j => e[i] <= e[j]
  BY <1>5, <1>8, <1>9, <1>11
<1>13. SortedDays(hired) = e
  <2>1. SortedDays(hired) = [i \in DOMAIN order |-> DaysToHire(hired, order[i])]
    BY <1>1, <1>6 DEF SortedDays
  <2>. QED
    BY <1>5, <1>9, <1>10, <2>1
<1>14. PICK k : k = n \div 2 + 1
  OBVIOUS
<1>15. k \in 1 .. n /\ 2 * k >= n /\ 2 * (n - k + 1) >= n
  BY <1>4, <1>14
<1>16. PICK m : m = Median(hired)
  OBVIOUS
<1>17. m = e[k]
  BY <1>1, <1>2, <1>4, <1>13, <1>14, <1>16 DEF Median
<1>18. \E c \in S : m = d[c]
  BY <1>9, <1>11, <1>15, <1>17
<1> DEFINE low == {c \in S : d[c] <= m}
           high == {c \in S : d[c] >= m}
<1>19. IsFiniteSet(low) /\ IsFiniteSet(high)
  BY <1>4, FS_Subset
<1>20. k <= Cardinality(low)
  <2>1. \A i \in 1 .. k : i \in 1 .. n /\ i <= k
    BY <1>4, <1>15
  <2>2. \A i \in 1 .. k : order[i] \in low
    BY <1>9, <1>11, <1>12, <1>15, <1>17, <2>1
  <2>3. 1 \in Int /\ k \in Int /\ 1 <= k
    BY <1>4, <1>15
  <2> HIDE DEF low
  <2>4. \A i, j \in 1 .. k : order[i] = order[j] => i = j
    BY <1>9, <2>1
  <2>5. k - 1 + 1 <= Cardinality(low)
    BY <1>19, <2>2, <2>3, <2>4, AtLeastSoMany
  <2>6. k - 1 + 1 = k
    BY <2>3
  <2>. QED
    BY <2>5, <2>6
<1>21. n - k + 1 <= Cardinality(high)
  <2>1. \A i \in k .. n : i \in 1 .. n /\ k <= i
    BY <1>4, <1>15
  <2>2. \A i \in k .. n : order[i] \in high
    BY <1>9, <1>11, <1>12, <1>15, <1>17, <2>1
  <2>3. k \in Int /\ n \in Int /\ k <= n
    BY <1>4, <1>15
  <2> HIDE DEF high
  <2>4. \A i, j \in k .. n : order[i] = order[j] => i = j
    BY <1>9, <2>1
  <2>. QED
    BY <1>19, <2>2, <2>3, <2>4, AtLeastSoMany
<1>22. Cardinality(low) \in Nat /\ Cardinality(high) \in Nat
  BY <1>19, FS_CardinalityType
<1>23. 2 * Cardinality(low) >= n /\ 2 * Cardinality(high) >= n
  <2> HIDE DEF low, high
  <2>. QED
    BY <1>4, <1>15, <1>20, <1>21, <1>22
<1>24. /\ low = {c \in DOMAIN hired : DaysToHire(hired, c) <= m}
       /\ high = {c \in DOMAIN hired : DaysToHire(hired, c) >= m}
  BY <1>1, <1>5
<1> HIDE DEF low, high
<1>. QED
  BY <1>1, <1>2, <1>5, <1>16, <1>18, <1>23, <1>24

LEMMA SourcesAddUp ==
    ASSUME NEW t, Table(t), NEW K, IsFiniteSet(K), SourcesOf(t) \subseteq K
    PROVE  Total([s \in K |-> Cardinality(From(t, s))]) = Cardinality(DOMAIN t)
<1>1. PICK class : class = [c \in DOMAIN t |-> t[c].source]
  OBVIOUS
<1>2. \A c \in DOMAIN t : class[c] = t[c].source /\ class[c] \in K
  BY <1>1 DEF SourcesOf
<1>3. \A s : From(t, s) = {c \in DOMAIN t : class[c] = s}
  BY <1>2 DEF From
<1>4. [s \in K |-> Cardinality(From(t, s))] = [s \in K |-> Cardinality({c \in DOMAIN t : class[c] = s})]
  BY <1>3
<1>5. IsFiniteSet(DOMAIN t)
  BY DEF Table
<1>. QED
  BY <1>2, <1>4, <1>5, ClassesAddUp

LEMMA FewSources == ASSUME NEW t, Table(t) PROVE IsFiniteSet(SourcesOf(t))
<1>1. IsFiniteSet(DOMAIN t)
  BY DEF Table
<1>2. PICK f : f = [c \in DOMAIN t |-> t[c].source]
  OBVIOUS
<1>3. f \in Surjection(DOMAIN t, SourcesOf(t))
  BY <1>2 DEF Surjection, SourcesOf
<1>. QED
  BY <1>1, <1>3, FS_Surjection

LEMMA MonthsAddUp ==
    ASSUME NEW t, Table(t) PROVE Total(CalculateTrend(t)) = Cardinality(DOMAIN t)
<1>1. PICK class : class = [c \in DOMAIN t |-> Month(t[c].changed)]
  OBVIOUS
<1>2. PICK K : K = {Month(t[c].changed) : c \in DOMAIN t}
  OBVIOUS
<1>3. \A c \in DOMAIN t : class[c] = Month(t[c].changed) /\ class[c] \in K
  BY <1>1, <1>2
<1>4. IsFiniteSet(DOMAIN t)
  BY DEF Table
<1>5. IsFiniteSet(K)
  <2>1. class \in Surjection(DOMAIN t, K)
    BY <1>1, <1>2 DEF Surjection
  <2>. QED
    BY <1>4, <2>1, FS_Surjection
<1>6. CalculateTrend(t) = [m \in K |-> Cardinality({c \in DOMAIN t : class[c] = m})]
  <2>1. \A m : {c \in DOMAIN t : Month(t[c].changed) = m} = {c \in DOMAIN t : class[c] = m}
    BY <1>3
  <2>. QED
    BY <1>2, <2>1 DEF CalculateTrend
<1>. QED
  BY <1>3, <1>4, <1>5, <1>6, ClassesAddUp

-----------------------------------------------------------------------------
(* Reports on hiring: what the figures of one part say *)

\* What one part of a report says, if its two tables were read at any moments
PartOK(part) == \E applied, hired : Table(applied) /\ Table(hired) /\ part = Metrics(applied, hired)

FiguresHold(part) ==
    LET days == {DaysToHire(part.hired, c) : c \in DOMAIN part.hired}
        AtMost(d) == Cardinality({c \in DOMAIN part.hired : DaysToHire(part.hired, c) <= d})
        AtLeast(d) == Cardinality({c \in DOMAIN part.hired : DaysToHire(part.hired, c) >= d})
        hires == part.overview.totalHires IN
    /\ Total(part.bySource) = hires /\ Total(part.trend) = hires
    /\ Total([s \in DOMAIN part.sources |-> part.sources[s].totalApplications])
           = part.overview.totalApplications
    /\ hires > 0 => /\ part.median \in days
                    /\ 2 * AtMost(part.median) >= hires /\ 2 * AtLeast(part.median) >= hires

LEMMA MetricsAddUp == ASSUME NEW part, PartOK(part) PROVE FiguresHold(part)
<1>1. PICK applied, hired : Table(applied) /\ Table(hired) /\ part = Metrics(applied, hired)
  BY DEF PartOK
<1>2. /\ part.hired = hired /\ part.median = Median(hired) /\ part.bySource = HiresBySource(hired)
      /\ part.trend = CalculateTrend(hired)
      /\ part.sources = CalculateSourceEffectiveness(applied, hired)
      /\ part.overview = CalculateOverview(applied, hired)
  BY <1>1 DEF Metrics
<1>3. /\ part.overview.totalHires = Cardinality(DOMAIN hired)
      /\ part.overview.totalApplications = Cardinality(DOMAIN applied)
  BY <1>2 DEF CalculateOverview
<1>4. Total(part.bySource) = Cardinality(DOMAIN hired)
  <2>1. Total([s \in SourcesOf(hired) |-> Cardinality(From(hired, s))]) = Cardinality(DOMAIN hired)
    BY <1>1, FewSources, SourcesAddUp
  <2>. QED
    BY <1>2, <2>1 DEF HiresBySource
<1>5. Total(part.trend) = Cardinality(DOMAIN hired)
  BY <1>1, <1>2, MonthsAddUp
<1>6. Total([s \in DOMAIN part.sources |-> part.sources[s].totalApplications]) = Cardinality(DOMAIN applied)
  <2>1. /\ DOMAIN part.sources = SourcesOf(applied)
        /\ \A s \in SourcesOf(applied) : part.sources[s].totalApplications = Cardinality(From(applied, s))
    BY <1>2 DEF CalculateSourceEffectiveness
  <2>2. [s \in DOMAIN part.sources |-> part.sources[s].totalApplications]
            = [s \in SourcesOf(applied) |-> Cardinality(From(applied, s))]
    BY <2>1
  <2>. QED
    BY <1>1, <2>2, FewSources, SourcesAddUp
<1>7. PICK m : m = part.median
  OBVIOUS
<1>8. ASSUME Cardinality(DOMAIN hired) > 0
      PROVE  /\ \E c \in DOMAIN hired : m = DaysToHire(hired, c)
             /\ 2 * Cardinality({c \in DOMAIN hired : DaysToHire(hired, c) <= m}) >= Cardinality(DOMAIN hired)
             /\ 2 * Cardinality({c \in DOMAIN hired : DaysToHire(hired, c) >= m}) >= Cardinality(DOMAIN hired)
  <2>1. DOMAIN hired # {}
    BY <1>8, FS_EmptySet
  <2>. QED
    BY <1>1, <1>2, <1>7, <2>1, MedianIsMiddle
<1>. QED
  BY <1>2, <1>3, <1>4, <1>5, <1>6, <1>7, <1>8 DEF FiguresHold

\* The applications of a period in one table, those hired among them, and the part of a
\* report that is about one table
AppsOf(t, period) == Restrict(t, Within(t, period))
HiredOf(t, period) == Restrict(t, {c \in Within(t, period) : t[c].status = "HIRED"})
PartOf(t, period) == Metrics(AppsOf(t, period), HiredOf(t, period))

LEMMA PartsOfTable ==
    ASSUME NEW t, Table(t), NEW period
    PROVE  /\ Table(AppsOf(t, period)) /\ DOMAIN AppsOf(t, period) = Within(t, period)
           /\ Table(HiredOf(t, period))
           /\ DOMAIN HiredOf(t, period) = {c \in Within(t, period) : t[c].status = "HIRED"}
           /\ \A c \in Within(t, period) : AppsOf(t, period)[c] = t[c]
           /\ \A c \in DOMAIN HiredOf(t, period) : HiredOf(t, period)[c] = t[c]
           /\ PartOK(PartOf(t, period))
<1>1. /\ Within(t, period) \in SUBSET DOMAIN t
      /\ {c \in Within(t, period) : t[c].status = "HIRED"} \in SUBSET DOMAIN t
  BY DEF Within
<1>2. /\ Table(AppsOf(t, period)) /\ DOMAIN AppsOf(t, period) = Within(t, period)
      /\ \A c \in Within(t, period) : AppsOf(t, period)[c] = t[c]
  BY <1>1, RestrictIsTable DEF AppsOf
<1>3. /\ Table(HiredOf(t, period))
      /\ DOMAIN HiredOf(t, period) = {c \in Within(t, period) : t[c].status = "HIRED"}
      /\ \A c \in DOMAIN HiredOf(t, period) : HiredOf(t, period)[c] = t[c]
  BY <1>1, RestrictIsTable DEF HiredOf
<1>. QED
  BY <1>2, <1>3 DEF PartOK, PartOf

HiresHold(part) ==
    /\ Total([s \in DOMAIN part.sources |-> part.sources[s].totalHires]) = part.overview.totalHires
    /\ \A s \in DOMAIN part.sources : part.sources[s].totalHires <= part.sources[s].totalApplications
    /\ part.overview.activeCandidates + part.overview.totalHires <= part.overview.totalApplications

\* Who is hired applied.
LEMMA HiresOfTable == ASSUME NEW t, Table(t), NEW period PROVE HiresHold(PartOf(t, period))
<1>1. PICK applied, hired : applied = AppsOf(t, period) /\ hired = HiredOf(t, period)
  OBVIOUS
<1>2. /\ Table(applied) /\ Table(hired) /\ DOMAIN hired \subseteq DOMAIN applied
      /\ \A c \in DOMAIN hired : hired[c] = applied[c] /\ hired[c].status = "HIRED"
  <2>1. /\ Table(applied) /\ DOMAIN applied = Within(t, period)
        /\ \A c \in Within(t, period) : applied[c] = t[c]
    BY <1>1, PartsOfTable
  <2>2. /\ Table(hired) /\ DOMAIN hired = {c \in Within(t, period) : t[c].status = "HIRED"}
        /\ \A c \in DOMAIN hired : hired[c] = t[c]
    BY <1>1, PartsOfTable
  <2>. QED
    BY <2>1, <2>2
<1>3. PICK part : part = PartOf(t, period)
  OBVIOUS
<1>4. /\ part.sources = CalculateSourceEffectiveness(applied, hired)
      /\ part.overview = CalculateOverview(applied, hired)
  BY <1>1, <1>3 DEF PartOf, Metrics
<1>5. /\ DOMAIN part.sources = SourcesOf(applied)
      /\ \A s \in SourcesOf(applied) :
             /\ part.sources[s].totalApplications = Cardinality(From(applied, s))
             /\ part.sources[s].totalHires = Cardinality(From(hired, s))
  BY <1>4 DEF CalculateSourceEffectiveness
<1>6. Total([s \in DOMAIN part.sources |-> part.sources[s].totalHires]) = Cardinality(DOMAIN hired)
  <2>1. [s \in DOMAIN part.sources |-> part.sources[s].totalHires]
            = [s \in SourcesOf(applied) |-> Cardinality(From(hired, s))]
    BY <1>5
  <2>2. SourcesOf(hired) \subseteq SourcesOf(applied)
    BY <1>2 DEF SourcesOf
  <2>. QED
    BY <1>2, <2>1, <2>2, FewSources, SourcesAddUp
<1>7. IsFiniteSet(DOMAIN applied) /\ IsFiniteSet(DOMAIN hired)
  BY <1>2 DEF Table
<1>8. \A s : Cardinality(From(hired, s)) <= Cardinality(From(applied, s))
  <2> SUFFICES ASSUME NEW s PROVE Cardinality(From(hired, s)) <= Cardinality(From(applied, s))
    OBVIOUS
  <2>1. From(applied, s) \in SUBSET DOMAIN applied /\ From(hired, s) \in SUBSET From(applied, s)
    BY <1>2 DEF From
  <2>. QED
    BY <1>7, <2>1, FS_Subset
<1>9. PICK active : active = {c \in DOMAIN applied : applied[c].status \notin Closed}
  OBVIOUS
<1>10. /\ part.overview.totalApplications = Cardinality(DOMAIN applied)
       /\ part.overview.totalHires = Cardinality(DOMAIN hired)
       /\ part.overview.activeCandidates = Cardinality(active)
  BY <1>4, <1>9 DEF CalculateOverview
<1>11. Cardinality(active) + Cardinality(DOMAIN hired) <= Cardinality(DOMAIN applied)
  <2>1. active \cap DOMAIN hired = {} /\ active \cup DOMAIN hired \in SUBSET DOMAIN applied
    BY <1>2, <1>9 DEF Closed
  <2>2. IsFiniteSet(active) /\ active \in SUBSET DOMAIN applied
    BY <1>7, <1>9, FS_Subset
  <2>3. Cardinality(active \cup DOMAIN hired) = Cardinality(active) + Cardinality(DOMAIN hired) - 0
    BY <1>7, <2>1, <2>2, FS_Union, FS_EmptySet
  <2>4. Cardinality(active \cup DOMAIN hired) <= Cardinality(DOMAIN applied)
    BY <1>7, <2>1, FS_Subset
  <2>5. Cardinality(active) \in Nat /\ Cardinality(DOMAIN hired) \in Nat
    BY <1>7, <2>2, FS_CardinalityType
  <2>. QED
    BY <2>3, <2>4, <2>5
<1>. QED
  BY <1>3, <1>5, <1>6, <1>8, <1>10, <1>11 DEF HiresHold

Periods == {p \in [from : 0 .. Today, to : 0 .. Today] : p.from < p.to}

\* The previous period ends on the day on which this one begins.
LEMMA PeriodsOfTable ==
    ASSUME NEW t, Table(t), NEW p \in Periods
    PROVE  PartOf(t, p).overview.totalApplications
               + PartOf(t, CalculatePreviousPeriod(p)).overview.totalApplications
               = Cardinality(Within(t, [from |-> 2 * p.from - p.to, to |-> p.to]))
                     + Cardinality(Within(t, [from |-> p.from, to |-> p.from]))
<1>1. PICK a, b : a = p.from /\ b = p.to
  OBVIOUS
<1>2. a \in Nat /\ b \in Nat /\ a < b
  BY <1>1, AnalyticsAssumption DEF Periods
<1>3. PICK q : q = CalculatePreviousPeriod(p)
  OBVIOUS
<1>4. q.from = a - (b - a) /\ q.to = a
  BY <1>1, <1>3 DEF CalculatePreviousPeriod
<1>5. PICK whole : whole = Within(t, [from |-> 2 * a - b, to |-> b])
  OBVIOUS
<1>6. PICK day : day = Within(t, [from |-> a, to |-> a])
  OBVIOUS
<1>7. \A c \in DOMAIN t : t[c].applied \in Nat
  BY TableRows
<1>8. /\ whole = {c \in DOMAIN t : t[c].applied \in (2 * a - b) .. b}
      /\ day = {c \in DOMAIN t : t[c].applied \in a .. a}
      /\ Within(t, p) = {c \in DOMAIN t : t[c].applied \in a .. b}
      /\ Within(t, q) = {c \in DOMAIN t : t[c].applied \in (a - (b - a)) .. a}
  BY <1>1, <1>4, <1>5, <1>6 DEF Within
<1>9. Within(t, p) \cup Within(t, q) = whole /\ Within(t, p) \cap Within(t, q) = day
  BY <1>2, <1>7, <1>8
<1>10. IsFiniteSet(Within(t, p)) /\ IsFiniteSet(Within(t, q)) /\ IsFiniteSet(day)
  <2>1. IsFiniteSet(DOMAIN t)
    BY DEF Table
  <2>. QED
    BY <1>8, <2>1, FS_Subset
<1>11. Cardinality(whole) = Cardinality(Within(t, p)) + Cardinality(Within(t, q)) - Cardinality(day)
  BY <1>9, <1>10, FS_Union
<1>12. /\ Cardinality(Within(t, p)) \in Nat /\ Cardinality(Within(t, q)) \in Nat
       /\ Cardinality(day) \in Nat
  BY <1>10, FS_CardinalityType
<1>13. \A r : PartOf(t, r).overview.totalApplications = Cardinality(Within(t, r))
  BY PartsOfTable DEF PartOf, Metrics, CalculateOverview
<1>14. Cardinality(whole) + Cardinality(day) = Cardinality(Within(t, p)) + Cardinality(Within(t, q))
  BY <1>11, <1>12
<1>. QED
  BY <1>1, <1>3, <1>5, <1>6, <1>13, <1>14

\* A dashboard about one table
WorkOf(t) == {c \in Mine(t) : NeedsAttention(t[c])}
DashboardOf(t) == [kind |-> "dashboard", work |-> WorkOf(t), tasks |-> GetUpcomingTasks(t),
                   quick |-> GetQuickStats(t), table |-> t]

LEMMA DashboardAgrees ==
    ASSUME NEW t, Table(t), report = DashboardOf(t) PROVE ListsMatchNumbers
<1>1. PICK mine : mine = Mine(t)
  OBVIOUS
<1>2. \A c \in mine : /\ c \in DOMAIN t /\ t[c].contact \in Int /\ t[c].overdue \in BOOLEAN
                      /\ t[c].offer \in BOOLEAN
  BY <1>1, TableRows DEF Mine
<1>3. PICK pending : pending = report.tasks.pending
  OBVIOUS
<1>4. /\ DOMAIN pending = {c \in mine : PendingAction(t[c]) # "none"}
      /\ \A c \in DOMAIN pending : pending[c] = PendingAction(t[c])
  BY <1>1, <1>3 DEF DashboardOf, GetUpcomingTasks
<1>5. /\ report.tasks.followUps = {c \in mine : NeedsFollowUp(t[c])}
      /\ report.work = {c \in mine : NeedsAttention(t[c])} /\ report.table = t
  BY <1>1 DEF DashboardOf, GetUpcomingTasks, WorkOf
<1>6. /\ report.quick.review = Cardinality({c \in mine : t[c].status \in {"NEW", "UNDER_REVIEW"}})
      /\ report.quick.schedule_interview = Cardinality({c \in mine : t[c].status = "SHORTLISTED"})
      /\ report.quick.send_offer = Cardinality({c \in mine : t[c].status = "INTERVIEW_COMPLETED" /\ ~t[c].offer})
      /\ report.quick.contact = Cardinality({c \in mine : ToContact(t[c])})
  BY <1>1 DEF DashboardOf, GetQuickStats
<1>7. \A life : /\ PendingAction(life) = "review" <=> life.status \in {"NEW", "UNDER_REVIEW"}
                /\ PendingAction(life) = "schedule_interview" <=> life.status = "SHORTLISTED"
                /\ PendingAction(life) = "send_offer" <=> life.status = "INTERVIEW_COMPLETED" /\ ~life.offer
  BY DEF PendingAction
<1>8. \A type : type # "none" =>
          {c \in DOMAIN pending : pending[c] = type} = {c \in mine : PendingAction(t[c]) = type}
  BY <1>4
<1>9. /\ report.quick.review = Cardinality({c \in DOMAIN pending : pending[c] = "review"})
      /\ report.quick.schedule_interview = Cardinality({c \in DOMAIN pending : pending[c] = "schedule_interview"})
      /\ report.quick.send_offer = Cardinality({c \in DOMAIN pending : pending[c] = "send_offer"})
  <2>1. {c \in DOMAIN pending : pending[c] = "review"} = {c \in mine : t[c].status \in {"NEW", "UNDER_REVIEW"}}
    BY <1>7, <1>8
  <2>2. {c \in DOMAIN pending : pending[c] = "schedule_interview"} = {c \in mine : t[c].status = "SHORTLISTED"}
    BY <1>7, <1>8
  <2>3. {c \in DOMAIN pending : pending[c] = "send_offer"}
            = {c \in mine : t[c].status = "INTERVIEW_COMPLETED" /\ ~t[c].offer}
    BY <1>7, <1>8
  <2>. QED
    BY <1>6, <2>1, <2>2, <2>3
<1>10. PICK contacted : contacted = {c \in mine : Silent(t[c]) /\ t[c].status \in Closed}
  OBVIOUS
<1>11. report.tasks.followUps \cup contacted = {c \in mine : ToContact(t[c])}
  BY <1>5, <1>10 DEF NeedsFollowUp, ToContact
<1>12. \A c \in report.work \ (report.tasks.followUps \cup contacted) : t[c].overdue
  <2>1. ASSUME NEW c \in mine, NeedsAttention(t[c]), ~ToContact(t[c]) PROVE t[c].overdue
    BY <1>2, <2>1, AnalyticsAssumption DEF NeedsAttention, ToContact, Silent, Never
  <2>. QED
    BY <1>5, <1>11, <2>1
<1>13. contacted = {c \in Mine(report.table) : Silent(report.table[c]) /\ report.table[c].status \in Closed}
  BY <1>1, <1>5, <1>10
<1>14. report.quick.contact = Cardinality(report.tasks.followUps \cup contacted)
  BY <1>6, <1>11
<1>15. \A c \in report.work \ (report.tasks.followUps \cup contacted) : report.table[c].overdue
  BY <1>5, <1>12
<1>. QED
  BY <1>3, <1>9, <1>13, <1>14, <1>15 DEF ListsMatchNumbers

-----------------------------------------------------------------------------
(* Reports on hiring: the requests *)

\* What a request was asked, and what a report in progress has read
FigRequestOK(s) ==
    /\ s.op = "effectiveness" /\ s.step \in {"start", "read"} => s.arg \in Periods
    /\ s.op = "apply" /\ s.step = "start" => s.arg.source \in Sources
    /\ s.op = "status" /\ s.step = "start" => s.arg.status \in ApplicationStatuses
    /\ s.op = "effectiveness" /\ s.step = "read" =>
           /\ s.mem = [period |-> s.mem.period, applied |-> s.mem.applied, hired |-> s.mem.hired,
                       done |-> s.mem.done]
           /\ s.mem.applied # <<>> => Table(s.mem.applied[1])
           /\ s.mem.hired # <<>> => Table(s.mem.hired[1])
           /\ s.mem.done = <<>> \/ \E part : PartOK(part) /\ s.mem.done = <<part>>

\* Both parts of the last report say what two tables say.
PartsGiven ==
    report # NoReport /\ report.kind = "effectiveness" =>
        \E x, y : PartOK(x) /\ PartOK(y) /\ report.parts = <<x, y>>

\* What the only request at work has read is what the table holds.
FigWaits(s) ==
    /\ s.op = "effectiveness" /\ s.step = "read" =>
           /\ s.mem.applied # <<>> => s.mem.applied[1] = AppsOf(applications, s.mem.period)
           /\ s.mem.hired # <<>> => s.mem.hired[1] = HiredOf(applications, s.mem.period)
           /\ IF s.mem.done = <<>> THEN s.mem.period = s.arg
              ELSE /\ s.mem.done = <<PartOf(applications, s.arg)>>
                   /\ s.mem.period = CalculatePreviousPeriod(s.arg)
    /\ s.op = "dashboard" /\ s.step = "read" =>
           /\ s.mem = [work |-> s.mem.work, tasks |-> s.mem.tasks, quick |-> s.mem.quick]
           /\ s.mem.work # <<>> => s.mem.work[1] = WorkOf(applications)
           /\ s.mem.tasks # <<>> => s.mem.tasks[1] = GetUpcomingTasks(applications)
           /\ s.mem.quick # <<>> => s.mem.quick[1] = GetQuickStats(applications)

EffectivenessOf(t, p) ==
    [kind |-> "effectiveness", period |-> p,
     parts |-> <<PartOf(t, p), PartOf(t, CalculatePreviousPeriod(p))>>, table |-> t]

\* The last report is about one table.
ReportOfTable ==
    report # NoReport =>
        \/ \E t : Table(t) /\ \E p \in Periods : report = EffectivenessOf(t, p)
        \/ \E t : Table(t) /\ report = DashboardOf(t)

\* The inductive invariant.
FigInv ==
    /\ Shape /\ Table(applications) /\ PartsGiven
    /\ \A h \in Requests : FigRequestOK(handler[h])
    /\ ~overlapped => /\ OneAtWork /\ ReportOfTable
                      /\ \A h \in Requests : Running(h) => FigWaits(handler[h])

FigTurn == FigInv /\ Turns

LEMMA FigFound ==
    ASSUME FigTurn, NEW h \in Requests, Running(h)
    PROVE  /\ Shape /\ Table(applications) /\ PartsGiven /\ FigRequestOK(handler[h])
           /\ ~overlapped' => ReportOfTable /\ FigWaits(handler[h])
BY TurnBefore DEF FigTurn, FigInv

\* What has to be shown of a step of request h
LEMMA FigMovesOn ==
    ASSUME FigTurn, NEW h \in Requests, NEW s, Moves(h, s),
           Running(h) \/ s.step \notin {"idle", "done"},
           Table(applications'), PartsGiven', FigRequestOK(s),
           ~overlapped' => ReportOfTable' /\ FigWaits(s)'
    PROVE  FigInv'
<1>1. ASSUME NEW g \in Requests PROVE FigRequestOK(handler'[g])
  <2>1. CASE g = h
    BY <2>1 DEF Moves
  <2>2. CASE g # h
    BY <2>2 DEF Moves, FigTurn, FigInv
  <2>. QED
    BY <2>1, <2>2
<1>2. ASSUME ~overlapped'
      PROVE  /\ OneAtWork' /\ ReportOfTable'
             /\ \A g \in Requests : Running(g)' => FigWaits(handler[g])'
  <2>1. OneAtWork' /\ \A g \in Requests \ {h} : ~Running(g)'
    BY <1>2, TurnBefore, MovesAlone DEF FigTurn, FigInv
  <2>2. FigWaits(handler[h])'
    BY <1>2 DEF Moves, FigWaits
  <2>. QED
    BY <1>2, <2>1, <2>2
<1>3. Shape'
  BY DEF Moves
<1>4. \A g \in Requests : FigRequestOK(handler[g])'
  BY <1>1 DEF FigRequestOK
<1>. QED
  BY <1>2, <1>3, <1>4 DEF FigInv

\* A request that writes nothing
LEMMA FigGoes ==
    ASSUME FigTurn, NEW h \in Requests, NEW s, Moves(h, s),
           Running(h) \/ s.step \notin {"idle", "done"}, UNCHANGED gvars,
           FigRequestOK(s), ~overlapped' => FigWaits(s)
    PROVE  FigInv'
<1>1. Table(applications) /\ PartsGiven /\ (~overlapped' => ReportOfTable)
  BY TurnBefore DEF FigTurn, FigInv
<1>2. Table(applications') /\ PartsGiven' /\ (~overlapped' => ReportOfTable')
  BY <1>1 DEF gvars, PartsGiven, ReportOfTable
<1>3. FigWaits(s) => FigWaits(s)'
  BY DEF FigWaits, gvars
<1>. QED
  BY <1>2, <1>3, FigMovesOn

LEMMA DoneIsOK == ASSUME NEW s, s.step = "done" PROVE FigRequestOK(s) /\ FigWaits(s) /\ FigWaits(s)'
BY DEF FigRequestOK, FigWaits

LEMMA FigFault ==
    ASSUME FigTurn, NEW h \in Requests, AnalyticsFault(h) PROVE FigInv'
<1>1. Running(h) /\ Fault(h) /\ UNCHANGED gvars /\ Shape
  BY DEF AnalyticsFault, Fault, FigTurn, FigInv
<1>2. PICK s : Moves(h, s) /\ s.op = handler[h].op /\ s.step = "done"
  BY <1>1, Ends
<1>. QED
  BY <1>1, <1>2, DoneIsOK, FigGoes

\* A request that ends once it has written the applications
LEMMA TableWritten ==
    ASSUME FigTurn, NEW h \in Requests, Running(h), End(h), UNCHANGED report, Table(applications')
    PROVE  FigInv'
<1>1. Shape /\ PartsGiven /\ (~overlapped' => ReportOfTable)
  BY FigFound
<1>2. PartsGiven' /\ (~overlapped' => ReportOfTable')
  BY <1>1 DEF PartsGiven, ReportOfTable
<1>3. PICK s : Moves(h, s) /\ s.op = handler[h].op /\ s.step = "done"
  BY <1>1, Ends
<1>. QED
  BY <1>2, <1>3, DoneIsOK, FigMovesOn

\* A request that ends with a report
LEMMA ReportGiven ==
    ASSUME FigTurn, NEW h \in Requests, Running(h), End(h), UNCHANGED applications,
           PartsGiven', ~overlapped' => ReportOfTable'
    PROVE  FigInv'
<1>1. Shape /\ Table(applications)
  BY FigFound
<1>2. PICK s : Moves(h, s) /\ s.op = handler[h].op /\ s.step = "done"
  BY <1>1, Ends
<1>3. Table(applications')
  BY <1>1
<1>. QED
  BY <1>2, <1>3, DoneIsOK, FigMovesOn

LEMMA FigAsked ==
    ASSUME FigTurn, NEW h \in Requests, AnalyticsRequest(h) PROVE FigInv'
<1>1. PICK op, arg :
          /\ Ask(h, op, arg)
          /\ op = "effectiveness" => arg \in Periods
          /\ op = "apply" => arg.source \in Sources
          /\ op = "status" => arg.status \in ApplicationStatuses
  <2>1. CASE AskEffectiveness(h)
    <3>1. PICK from \in 0 .. Today, to \in 0 .. Today :
              from < to /\ Ask(h, "effectiveness", [from |-> from, to |-> to])
      BY <2>1 DEF AskEffectiveness
    <3>2. PICK p : p = [from |-> from, to |-> to]
      OBVIOUS
    <3>3. p \in Periods
      BY <3>1, <3>2 DEF Periods
    <3>. QED
      BY <3>1, <3>2, <3>3
  <2>2. CASE Ask(h, "dashboard", "none")
    BY <2>2
  <2>3. ASSUME NEW c \in Candidates, NEW s \in Sources, Ask(h, "apply", [candidate |-> c, source |-> s])
        PROVE  \E arg : Ask(h, "apply", arg) /\ arg.source \in Sources
    <3>1. PICK arg : arg = [candidate |-> c, source |-> s]
      OBVIOUS
    <3>. QED
      BY <2>3, <3>1
  <2>4. ASSUME NEW c \in Candidates, NEW s \in ApplicationStatuses,
               Ask(h, "status", [candidate |-> c, status |-> s])
        PROVE  \E arg : Ask(h, "status", arg) /\ arg.status \in ApplicationStatuses
    <3>1. PICK arg : arg = [candidate |-> c, status |-> s]
      OBVIOUS
    <3>. QED
      BY <2>4, <3>1
  <2>5. ASSUME NEW c \in Candidates, NEW op \in {"assign", "contact", "remind"},
               Ask(h, op, [candidate |-> c])
        PROVE  \E arg : Ask(h, op, arg)
    BY <2>5
  <2>. QED
    BY <2>1, <2>2, <2>3, <2>4, <2>5 DEF AnalyticsRequest
<1>2. PICK s : s = Request(op, "start", arg, "nothing")
  OBVIOUS
<1>3. /\ Moves(h, s) /\ s.step = "start" /\ s.op = op /\ s.arg = arg
      /\ UNCHANGED gvars
  BY <1>1, <1>2, AskMoves DEF FigTurn, FigInv, Request, AnalyticsRequest
<1>4. FigRequestOK(s) /\ FigWaits(s)
  BY <1>1, <1>3 DEF FigRequestOK, FigWaits
<1>. QED
  BY <1>3, <1>4, FigGoes

-----------------------------------------------------------------------------
(* Reports on hiring: what writes the table *)

LEMMA ApplyKeeps == ASSUME FigTurn, NEW h \in Requests, Apply(h) PROVE FigInv'
<1>1. Running(h) /\ End(h) /\ UNCHANGED report
  BY DEF Apply, At, Running
<1>2. Table(applications) /\ FigRequestOK(handler[h])
  BY <1>1, FigFound
<1>3. PICK life : life = Life(Arg(h).source, Today, "NEW", Today)
  OBVIOUS
<1>4. Arg(h).source \in Sources
  BY <1>2 DEF FigRequestOK, Apply, At, Arg
<1>5. life \in Lives
  BY <1>3, <1>4, AnalyticsAssumption DEF Life, Lives, Never, ApplicationStatuses
<1>6. PICK x : x = Arg(h).candidate
  OBVIOUS
<1>7. applications' = [c \in DOMAIN applications \cup {x} |->
                          IF c \in DOMAIN applications THEN applications[c] ELSE life]
  BY <1>3, <1>6 DEF Apply, Exists
<1>8. \A c \in DOMAIN applications : applications[c] \in Lives
  BY <1>2, TableRows
<1>9. IsFiniteSet(DOMAIN applications \cup {x})
  BY <1>2, FS_AddElement DEF Table
<1>10. Table(applications')
  <2>1. \A c \in DOMAIN applications \cup {x} : applications'[c] \in Lives
    BY <1>5, <1>7, <1>8
  <2>. QED
    BY <1>7, <1>9, <2>1 DEF Table
<1>. QED
  BY <1>1, <1>10, TableWritten

LEMMA ChangedIsLife ==
    ASSUME NEW h, NEW life \in Lives, FigRequestOK(handler[h]), handler[h].step = "start",
           handler[h].op \in {"status", "assign", "contact", "remind"}
    PROVE  Changed(h, life) \in Lives
<1>1. Today \in Nat /\ Today \in 0 .. Today /\ Today \in Never .. Today
  BY AnalyticsAssumption DEF Never
<1>2. /\ life \in [source : Sources, applied : 0 .. Today, status : ApplicationStatuses, changed : 0 .. Today,
                   assigned : BOOLEAN, contact : Never .. Today, overdue : BOOLEAN, offer : BOOLEAN]
      /\ life.applied <= life.changed /\ life.applied <= Today
  BY <1>1 DEF Lives
<1>3. PICK x : x = Changed(h, life)
  OBVIOUS
<1>4. CASE handler[h].op = "status"
  <2>1. Arg(h).status \in ApplicationStatuses
    BY <1>4 DEF FigRequestOK, Arg
  <2>2. x = [life EXCEPT !.status = Arg(h).status, !.changed = Today]
    BY <1>3, <1>4 DEF Changed
  <2>. QED
    BY <1>1, <1>2, <1>3, <2>1, <2>2 DEF Lives
<1>5. CASE handler[h].op = "assign"
  <2>1. x = [life EXCEPT !.assigned = TRUE]
    BY <1>3, <1>5 DEF Changed
  <2>. QED
    BY <1>2, <1>3, <2>1 DEF Lives
<1>6. CASE handler[h].op = "contact"
  <2>1. x = [life EXCEPT !.contact = Today]
    BY <1>3, <1>6 DEF Changed
  <2>2. PICK days, contacts : days = 0 .. Today /\ contacts = Never .. Today
    OBVIOUS
  <2>3. /\ x \in [source : Sources, applied : days, status : ApplicationStatuses, changed : days,
                  assigned : BOOLEAN, contact : contacts, overdue : BOOLEAN, offer : BOOLEAN]
        /\ x.applied = life.applied /\ x.changed = life.changed
    <3>1. /\ life \in [source : Sources, applied : days, status : ApplicationStatuses, changed : days,
                       assigned : BOOLEAN, contact : contacts, overdue : BOOLEAN, offer : BOOLEAN]
          /\ Today \in contacts
      BY <1>1, <1>2, <2>2
    <3>. QED
      BY ONLY <2>1, <3>1
  <2>. QED
    BY <1>2, <1>3, <2>2, <2>3 DEF Lives
<1>7. CASE handler[h].op = "remind"
  <2>1. x = [life EXCEPT !.overdue = TRUE]
    BY <1>3, <1>7 DEF Changed
  <2>. QED
    BY <1>2, <1>3, <2>1 DEF Lives
<1>. QED
  BY <1>4, <1>5, <1>6, <1>7

LEMMA ChangeKeeps == ASSUME FigTurn, NEW h \in Requests, Change(h) PROVE FigInv'
<1>1. /\ Running(h) /\ End(h) /\ UNCHANGED report /\ handler[h].step = "start"
      /\ handler[h].op \in {"status", "assign", "contact", "remind"}
  BY DEF Change, Running
<1>2. Table(applications) /\ FigRequestOK(handler[h])
  BY <1>1, FigFound
<1>3. Table(applications')
  <2>1. CASE ~Exists(Arg(h).candidate)
    BY <1>2, <2>1 DEF Change
  <2>2. CASE Exists(Arg(h).candidate)
    <3>1. PICK x : x = Arg(h).candidate
      OBVIOUS
    <3>2. PICK life : life = Changed(h, applications[x])
      OBVIOUS
    <3>3. applications' = [applications EXCEPT ![x] = life]
      BY <2>2, <3>1, <3>2 DEF Change
    <3>4. life \in Lives
      BY <1>1, <1>2, <2>2, <3>1, <3>2, TableRows, ChangedIsLife DEF Exists
    <3>5. DOMAIN applications' = DOMAIN applications
      BY <1>2, <3>3 DEF Table
    <3>6. applications' \in [DOMAIN applications -> Lives]
      BY <1>2, <3>3, <3>4 DEF Table
    <3>. QED
      BY <1>2, <3>5, <3>6 DEF Table
  <2>. QED
    BY <2>1, <2>2
<1>. QED
  BY <1>1, <1>3, TableWritten

-----------------------------------------------------------------------------
(* Reports on hiring: what reads the table *)

\* What StartPart leaves a report with
Blank(period, done) == [period |-> period, applied |-> <<>>, hired |-> <<>>, done |-> done]

LEMMA PartStarted ==
    ASSUME FigTurn, NEW h \in Requests, Running(h), handler[h].op = "effectiveness",
           handler[h].step \in {"start", "read"}, NEW period, NEW done,
           StartPart(h, period, done), UNCHANGED gvars,
           done = <<>> \/ \E part : PartOK(part) /\ done = <<part>>,
           ~overlapped' => IF done = <<>> THEN period = handler[h].arg
                           ELSE /\ done = <<PartOf(applications, handler[h].arg)>>
                                /\ period = CalculatePreviousPeriod(handler[h].arg)
    PROVE  FigInv'
<1>1. Shape /\ FigRequestOK(handler[h])
  BY FigFound
<1>2. PICK mem : mem = Blank(period, done)
  OBVIOUS
<1>3. Keep(h, "read", mem)
  BY <1>2 DEF StartPart, Blank
<1>4. PICK s : /\ Moves(h, s) /\ s.op = handler[h].op /\ s.step = "read"
               /\ s.arg = handler[h].arg /\ s.mem = mem
  BY <1>1, <1>3, GoesOn
<1>5. /\ mem.period = period /\ mem.applied = <<>> /\ mem.hired = <<>> /\ mem.done = done
      /\ mem = [period |-> mem.period, applied |-> mem.applied, hired |-> mem.hired, done |-> mem.done]
  BY <1>2 DEF Blank
<1>6. FigRequestOK(s)
  BY <1>1, <1>4, <1>5 DEF FigRequestOK
<1>7. ~overlapped' => FigWaits(s)
  BY <1>4, <1>5 DEF FigWaits
<1>. QED
  BY <1>4, <1>6, <1>7, FigGoes

LEMMA FindOrganizationKeeps ==
    ASSUME FigTurn, NEW h \in Requests, FindOrganization(h) PROVE FigInv'
BY PartStarted DEF FindOrganization, At, Running, Arg

LEMMA ReadApplicationsKeeps ==
    ASSUME FigTurn, NEW h \in Requests, ReadApplications(h) PROVE FigInv'
<1>1. /\ Running(h) /\ handler[h].op = "effectiveness" /\ handler[h].step = "read" /\ UNCHANGED gvars
  BY DEF ReadApplications, At, Running
<1>2. /\ Shape /\ Table(applications) /\ FigRequestOK(handler[h])
      /\ ~overlapped' => FigWaits(handler[h])
  BY <1>1, FigFound
<1>3. PICK m : m = Mem(h)
  OBVIOUS
<1>4. PICK t : t = AppsOf(applications, m.period)
  OBVIOUS
<1>5. Table(t)
  BY <1>2, <1>4, PartsOfTable
<1>6. PICK mem : mem = [m EXCEPT !.applied = <<t>>]
  OBVIOUS
<1>7. /\ mem = [period |-> mem.period, applied |-> mem.applied, hired |-> mem.hired, done |-> mem.done]
      /\ mem.period = m.period /\ mem.applied = <<t>> /\ mem.hired = m.hired /\ mem.done = m.done
  BY <1>1, <1>2, <1>3, <1>6 DEF FigRequestOK, Mem
<1>8. Keep(h, "read", mem)
  BY <1>3, <1>4, <1>6 DEF ReadApplications, GetApplications, AppsOf
<1>9. PICK s : /\ Moves(h, s) /\ s.op = handler[h].op /\ s.step = "read"
               /\ s.arg = handler[h].arg /\ s.mem = mem
  BY <1>2, <1>8, GoesOn
<1>10. FigRequestOK(s)
  BY <1>1, <1>2, <1>3, <1>5, <1>7, <1>9 DEF FigRequestOK, Mem
<1>11. ~overlapped' => FigWaits(s)
  BY <1>1, <1>2, <1>3, <1>4, <1>7, <1>9 DEF FigWaits, Mem
<1>. QED
  BY <1>1, <1>9, <1>10, <1>11, FigGoes

LEMMA ReadHiredKeeps ==
    ASSUME FigTurn, NEW h \in Requests, ReadHired(h) PROVE FigInv'
<1>1. /\ Running(h) /\ handler[h].op = "effectiveness" /\ handler[h].step = "read" /\ UNCHANGED gvars
  BY DEF ReadHired, At, Running
<1>2. /\ Shape /\ Table(applications) /\ FigRequestOK(handler[h])
      /\ ~overlapped' => FigWaits(handler[h])
  BY <1>1, FigFound
<1>3. PICK m : m = Mem(h)
  OBVIOUS
<1>4. PICK t : t = HiredOf(applications, m.period)
  OBVIOUS
<1>5. Table(t)
  BY <1>2, <1>4, PartsOfTable
<1>6. PICK mem : mem = [m EXCEPT !.hired = <<t>>]
  OBVIOUS
<1>7. /\ mem = [period |-> mem.period, applied |-> mem.applied, hired |-> mem.hired, done |-> mem.done]
      /\ mem.period = m.period /\ mem.applied = m.applied /\ mem.hired = <<t>> /\ mem.done = m.done
  BY <1>1, <1>2, <1>3, <1>6 DEF FigRequestOK, Mem
<1>8. Keep(h, "read", mem)
  BY <1>3, <1>4, <1>6 DEF ReadHired, GetHiredApplications, HiredOf
<1>9. PICK s : /\ Moves(h, s) /\ s.op = handler[h].op /\ s.step = "read"
               /\ s.arg = handler[h].arg /\ s.mem = mem
  BY <1>2, <1>8, GoesOn
<1>10. FigRequestOK(s)
  BY <1>1, <1>2, <1>3, <1>5, <1>7, <1>9 DEF FigRequestOK, Mem
<1>11. ~overlapped' => FigWaits(s)
  BY <1>1, <1>2, <1>3, <1>4, <1>7, <1>9 DEF FigWaits, Mem
<1>. QED
  BY <1>1, <1>9, <1>10, <1>11, FigGoes

LEMMA OneThenTwo ==
    ASSUME NEW x, NEW y
    PROVE  /\ Append(<<>>, x) = <<x>> /\ Len(<<x>>) = 1
           /\ Append(<<x>>, y) = <<x, y>> /\ Len(<<x, y>>) = 2
<1> DEFINE T == {x, y}
<1>1. x \in T /\ y \in T /\ <<>> \in Seq(T) /\ <<x>> \in Seq(T) /\ <<x, y>> \in Seq(T)
  OBVIOUS
<1>2. Len(<<>>) = 0 /\ Len(<<x>>) = 1 /\ Len(<<x, y>>) = 2
  OBVIOUS
<1> HIDE DEF T
<1>3. /\ Append(<<>>, x) \in Seq(T) /\ Len(Append(<<>>, x)) = 1 /\ Append(<<>>, x)[1] = x
  BY <1>1, <1>2
<1>4. /\ Append(<<x>>, y) \in Seq(T) /\ Len(Append(<<x>>, y)) = 2
      /\ Append(<<x>>, y)[1] = x /\ Append(<<x>>, y)[2] = y
  BY <1>1, <1>2
<1>5. Append(<<>>, x) = <<x>>
  BY <1>1, <1>2, <1>3
<1>6. Append(<<x>>, y) = <<x, y>>
  <2>1. PICK s, t : s = Append(<<x>>, y) /\ t = <<x, y>>
    OBVIOUS
  <2>2. s \in Seq(T) /\ t \in Seq(T) /\ Len(s) = 2 /\ Len(t) = 2 /\ s[1] = t[1] /\ s[2] = t[2]
    BY <1>1, <1>2, <1>4, <2>1
  <2>3. \A i \in 1 .. 2 : s[i] = t[i]
    <3>1. \A i \in 1 .. 2 : i = 1 \/ i = 2
      OBVIOUS
    <3>. QED
      BY <2>2, <3>1
  <2>4. s = t
    BY <2>2, <2>3
  <2>. QED
    BY <2>1, <2>4
<1>. QED
  BY <1>2, <1>5, <1>6

LEMMA CalculateKeeps == ASSUME FigTurn, NEW h \in Requests, Calculate(h) PROVE FigInv'
<1>1. /\ Running(h) /\ handler[h].op = "effectiveness" /\ handler[h].step = "read"
      /\ Mem(h).applied # <<>> /\ Mem(h).hired # <<>> /\ UNCHANGED applications
  BY DEF Calculate, At, Running
<1>2. /\ Shape /\ Table(applications) /\ FigRequestOK(handler[h])
      /\ ~overlapped' => FigWaits(handler[h])
  BY <1>1, FigFound
<1>3. PICK m : m = Mem(h)
  OBVIOUS
<1>4. PICK new : new = Metrics(m.applied[1], m.hired[1])
  OBVIOUS
<1>5. PICK done : done = Append(m.done, new)
  OBVIOUS
<1>6. PartOK(new)
  <2>1. Table(m.applied[1]) /\ Table(m.hired[1])
    BY <1>1, <1>2, <1>3 DEF FigRequestOK, Mem
  <2>. QED
    BY <1>4, <2>1 DEF PartOK
<1>7. ~overlapped' => new = PartOf(applications, m.period)
  BY <1>1, <1>2, <1>3, <1>4 DEF FigWaits, PartOf, Mem
<1>8. m.done = <<>> \/ \E part : PartOK(part) /\ m.done = <<part>>
  BY <1>1, <1>2, <1>3 DEF FigRequestOK, Mem
<1>9. IF Len(done) = 1
      THEN StartPart(h, CalculatePreviousPeriod(m.period), done) /\ UNCHANGED report
      ELSE /\ report' = [kind |-> "effectiveness", period |-> Arg(h), parts |-> done,
                         table |-> applications]
           /\ End(h)
  BY <1>3, <1>4, <1>5 DEF Calculate
<1>10. CASE m.done = <<>>
  <2>1. done = <<new>> /\ Len(done) = 1
    BY <1>5, <1>10, OneThenTwo
  <2>2. ~overlapped' => /\ m.period = handler[h].arg
                        /\ done = <<PartOf(applications, handler[h].arg)>>
    BY <1>1, <1>2, <1>3, <1>7, <1>10, <2>1 DEF FigWaits, Mem
  <2>3. StartPart(h, CalculatePreviousPeriod(m.period), done) /\ UNCHANGED gvars
    BY <1>1, <1>9, <2>1 DEF gvars
  <2>4. done # <<>>
    BY <2>1
  <2>. QED
    BY <1>1, <1>6, <2>1, <2>2, <2>3, <2>4, PartStarted
<1>11. CASE m.done # <<>>
  <2>1. PICK part : PartOK(part) /\ m.done = <<part>>
    BY <1>8, <1>11
  <2>2. done = <<part, new>> /\ Len(done) # 1
    BY <1>5, <2>1, OneThenTwo
  <2>3. /\ End(h)
        /\ report' = [kind |-> "effectiveness", period |-> Arg(h), parts |-> <<part, new>>,
                      table |-> applications]
    BY <1>9, <2>2
  <2>4. PartsGiven'
    BY <1>6, <2>1, <2>3 DEF PartsGiven
  <2>5. ASSUME ~overlapped' PROVE ReportOfTable'
    <3>1. PICK p : p = Arg(h)
      OBVIOUS
    <3>2. /\ part = PartOf(applications, p) /\ m.period = CalculatePreviousPeriod(p)
      <4>1. /\ m.done = <<PartOf(applications, p)>> /\ m.period = CalculatePreviousPeriod(p)
        BY <1>1, <1>2, <1>3, <1>11, <2>5, <3>1 DEF FigWaits, Mem, Arg
      <4>. QED
        BY <2>1, <4>1
    <3>3. report' = EffectivenessOf(applications, p)
      BY <1>7, <2>3, <2>5, <3>1, <3>2 DEF EffectivenessOf
    <3>4. p \in Periods
      BY <1>1, <1>2, <3>1 DEF FigRequestOK, Arg
    <3>. QED
      BY <1>2, <3>3, <3>4 DEF ReportOfTable
  <2>. QED
    BY <1>1, <2>3, <2>4, <2>5, ReportGiven
<1>. QED
  BY <1>10, <1>11

\* A dashboard has nothing that a report must have.
LEMMA DashboardGoes ==
    ASSUME FigTurn, NEW h \in Requests, Running(h), handler[h].op = "dashboard", UNCHANGED gvars,
           NEW mem, Keep(h, "read", mem),
           ~overlapped' =>
               /\ mem = [work |-> mem.work, tasks |-> mem.tasks, quick |-> mem.quick]
               /\ mem.work # <<>> => mem.work[1] = WorkOf(applications)
               /\ mem.tasks # <<>> => mem.tasks[1] = GetUpcomingTasks(applications)
               /\ mem.quick # <<>> => mem.quick[1] = GetQuickStats(applications)
    PROVE  FigInv'
<1>1. Shape
  BY FigFound
<1>2. PICK s : /\ Moves(h, s) /\ s.op = handler[h].op /\ s.step = "read"
               /\ s.arg = handler[h].arg /\ s.mem = mem
  BY <1>1, GoesOn
<1>3. FigRequestOK(s)
  BY <1>2 DEF FigRequestOK
<1>4. ~overlapped' => FigWaits(s)
  BY <1>2 DEF FigWaits
<1>. QED
  BY <1>2, <1>3, <1>4, FigGoes

LEMMA OpenDashboardKeeps ==
    ASSUME FigTurn, NEW h \in Requests, OpenDashboard(h) PROVE FigInv'
<1>1. PICK mem : mem = [work |-> <<>>, tasks |-> <<>>, quick |-> <<>>]
  OBVIOUS
<1>2. /\ Keep(h, "read", mem) /\ UNCHANGED gvars /\ Running(h) /\ handler[h].op = "dashboard"
  BY <1>1 DEF OpenDashboard, At, Running
<1>3. /\ mem = [work |-> mem.work, tasks |-> mem.tasks, quick |-> mem.quick]
      /\ mem.work = <<>> /\ mem.tasks = <<>> /\ mem.quick = <<>>
  BY <1>1
<1>. QED
  BY <1>2, <1>3, DashboardGoes

LEMMA DashboardReads ==
    ASSUME FigTurn, NEW h \in Requests, ReadWork(h) \/ ReadTasks(h) \/ ReadQuick(h)
    PROVE  FigInv'
<1>1. Running(h) /\ handler[h].op = "dashboard" /\ handler[h].step = "read" /\ UNCHANGED gvars
  BY DEF ReadWork, ReadTasks, ReadQuick, At, Running
<1>2. ~overlapped' => FigWaits(handler[h])
  BY <1>1, FigFound
<1>3. PICK m : m = Mem(h)
  OBVIOUS
<1>4. ~overlapped' =>
          /\ m = [work |-> m.work, tasks |-> m.tasks, quick |-> m.quick]
          /\ m.work # <<>> => m.work[1] = WorkOf(applications)
          /\ m.tasks # <<>> => m.tasks[1] = GetUpcomingTasks(applications)
          /\ m.quick # <<>> => m.quick[1] = GetQuickStats(applications)
  BY <1>1, <1>2, <1>3 DEF FigWaits, Mem
<1>5. CASE ReadWork(h)
  <2>1. PICK mem : mem = [m EXCEPT !.work = <<WorkOf(applications)>>]
    OBVIOUS
  <2>2. Keep(h, "read", mem)
    BY <1>3, <1>5, <2>1 DEF ReadWork, WorkOf
  <2>. QED
    BY <1>1, <1>4, <2>1, <2>2, DashboardGoes
<1>6. CASE ReadTasks(h)
  <2>1. PICK mem : mem = [m EXCEPT !.tasks = <<GetUpcomingTasks(applications)>>]
    OBVIOUS
  <2>2. Keep(h, "read", mem)
    BY <1>3, <1>6, <2>1 DEF ReadTasks
  <2>. QED
    BY <1>1, <1>4, <2>1, <2>2, DashboardGoes
<1>7. CASE ReadQuick(h)
  <2>1. PICK mem : mem = [m EXCEPT !.quick = <<GetQuickStats(applications)>>]
    OBVIOUS
  <2>2. Keep(h, "read", mem)
    BY <1>3, <1>7, <2>1 DEF ReadQuick
  <2>. QED
    BY <1>1, <1>4, <2>1, <2>2, DashboardGoes
<1>. QED
  BY <1>5, <1>6, <1>7

LEMMA ShowDashboardKeeps ==
    ASSUME FigTurn, NEW h \in Requests, ShowDashboard(h) PROVE FigInv'
<1>1. /\ Running(h) /\ handler[h].op = "dashboard" /\ handler[h].step = "read"
      /\ End(h) /\ UNCHANGED applications
      /\ Mem(h).work # <<>> /\ Mem(h).tasks # <<>> /\ Mem(h).quick # <<>>
      /\ report' = [kind |-> "dashboard", work |-> Mem(h).work[1], tasks |-> Mem(h).tasks[1],
                    quick |-> Mem(h).quick[1], table |-> applications]
  BY DEF ShowDashboard, At, Running
<1>2. Table(applications) /\ (~overlapped' => FigWaits(handler[h]))
  BY <1>1, FigFound
<1>3. PartsGiven'
  BY <1>1 DEF PartsGiven
<1>4. ASSUME ~overlapped' PROVE ReportOfTable'
  <2>1. /\ Mem(h).work[1] = WorkOf(applications)
        /\ Mem(h).tasks[1] = GetUpcomingTasks(applications)
        /\ Mem(h).quick[1] = GetQuickStats(applications)
    BY <1>1, <1>2, <1>4 DEF FigWaits, Mem
  <2>2. report' = DashboardOf(applications)
    BY <1>1, <2>1 DEF DashboardOf
  <2>. QED
    BY <1>2, <2>2 DEF ReportOfTable
<1>. QED
  BY <1>1, <1>3, <1>4, ReportGiven

LEMMA FigStart == SInit /\ AnalyticsInit /\ overlapped = FALSE => FigInv
<1> SUFFICES ASSUME SInit, AnalyticsInit, overlapped = FALSE PROVE FigInv
  OBVIOUS
<1>1. Shape /\ \A h \in Requests : handler[h].step = "idle"
  BY ShapeInit DEF SInit, Idle
<1>2. Table(applications)
  BY AnalyticsAssumption DEF AnalyticsInit
<1>3. PartsGiven /\ ReportOfTable
  BY DEF AnalyticsInit, PartsGiven, ReportOfTable
<1>4. \A h \in Requests : FigRequestOK(handler[h]) /\ ~Running(h)
  BY <1>1 DEF FigRequestOK, Running
<1>. QED
  BY <1>1, <1>2, <1>3, <1>4 DEF FigInv, OneAtWork

LEMMA FigStepKeeps ==
    FigInv /\ [AnalyticsNext /\ Turns]_<<svars, gvars, overlapped>> => FigInv'
<1>1. CASE UNCHANGED <<svars, gvars, overlapped>> /\ FigInv
  <2>1. /\ Shape' = Shape /\ Table(applications') = Table(applications) /\ PartsGiven' = PartsGiven
        /\ ReportOfTable' = ReportOfTable /\ OneAtWork' = OneAtWork /\ overlapped' = overlapped
    BY <1>1 DEF svars, gvars, Shape, PartsGiven, ReportOfTable, OneAtWork, Running
  <2>2. \A h \in Requests : /\ FigRequestOK(handler[h])' = FigRequestOK(handler[h])
                            /\ Running(h)' = Running(h) /\ FigWaits(handler[h])' = FigWaits(handler[h])
    BY <1>1 DEF svars, gvars, FigRequestOK, FigWaits, Running
  <2>. QED
    BY <1>1, <2>1, <2>2 DEF FigInv
<1>2. ASSUME FigInv, Turns, AnalyticsNext PROVE FigInv'
  <2>1. FigTurn
    BY <1>2 DEF FigTurn
  <2>2. PICK h \in Requests : AnalyticsRequest(h) \/ AnalyticsStep(h) \/ AnalyticsFault(h)
    BY <1>2 DEF AnalyticsNext
  <2>. QED
    BY <2>1, <2>2, FigAsked, FigFault, ApplyKeeps, ChangeKeeps, FindOrganizationKeeps,
       ReadApplicationsKeeps, ReadHiredKeeps, CalculateKeeps, OpenDashboardKeeps, DashboardReads,
       ShowDashboardKeeps DEF AnalyticsStep
<1>. QED
  BY <1>1, <1>2

LEMMA FigSound == FigInv => ReportsSound
<1> SUFFICES ASSUME FigInv PROVE ReportsSound
  OBVIOUS
<1>1. FiguresAddUp
  <2>1. ASSUME NEW part \in Parts PROVE PartOK(part)
    <3>1. report # NoReport /\ report.kind = "effectiveness" /\ part \in ToSet(report.parts)
      BY <2>1 DEF Parts
    <3>2. PICK x, y : PartOK(x) /\ PartOK(y) /\ report.parts = <<x, y>>
      BY <3>1 DEF FigInv, PartsGiven
    <3>3. part = x \/ part = y
      BY <3>1, <3>2 DEF ToSet
    <3>. QED
      BY <3>2, <3>3
  <2>2. \A part \in Parts : FiguresHold(part)
    BY <2>1, MetricsAddUp
  <2>. QED
    BY <2>2 DEF FiguresAddUp, FiguresHold
<1>2. ASSUME ~overlapped PROVE HiresAreApplications /\ PeriodsMeet /\ ListsMatchNumbers
  <2>1. CASE report = NoReport
    BY <2>1 DEF HiresAreApplications, PeriodsMeet, ListsMatchNumbers, Parts
  <2>2. ASSUME NEW t, Table(t), NEW p \in Periods, report = EffectivenessOf(t, p), report # NoReport
        PROVE  HiresAreApplications /\ PeriodsMeet /\ ListsMatchNumbers
    <3>1. PICK q : q = CalculatePreviousPeriod(p)
      OBVIOUS
    <3>2. /\ report.kind = "effectiveness" /\ report.period = p /\ report.table = t
          /\ report.parts = <<PartOf(t, p), PartOf(t, q)>>
      BY <2>2, <3>1 DEF EffectivenessOf
    <3>3. Parts = {PartOf(t, p), PartOf(t, q)}
      <4>1. PICK x, y : x = PartOf(t, p) /\ y = PartOf(t, q)
        OBVIOUS
      <4>2. ToSet(<<x, y>>) = {x, y}
        BY DEF ToSet
      <4>. QED
        BY <2>2, <3>2, <4>1, <4>2 DEF Parts
    <3>4. \A part \in Parts : HiresHold(part)
      BY <2>2, <3>3, HiresOfTable
    <3>5. HiresAreApplications
      BY <3>4 DEF HiresAreApplications, HiresHold
    <3>6. PeriodsMeet
      BY <2>2, <3>1, <3>2, PeriodsOfTable DEF PeriodsMeet
    <3>7. ListsMatchNumbers
      BY <3>2 DEF ListsMatchNumbers
    <3>. QED
      BY <3>5, <3>6, <3>7
  <2>3. ASSUME NEW t, Table(t), report = DashboardOf(t)
        PROVE  HiresAreApplications /\ PeriodsMeet /\ ListsMatchNumbers
    <3>1. report.kind = "dashboard"
      BY <2>3 DEF DashboardOf
    <3>2. Parts = {}
      BY <3>1 DEF Parts
    <3>. QED
      BY <2>3, <3>2, DashboardAgrees DEF HiresAreApplications, PeriodsMeet
  <2>. QED
    BY <1>2, <2>1, <2>2, <2>3 DEF FigInv, ReportOfTable
<1>. QED
  BY <1>1, <1>2 DEF ReportsSound

\* However the queries of a report fall, its hires by source and by month are those of its
\* overview and its median is one; if nobody else was at work, every hire counts for a
\* source, two periods miss no application, and the numbers of a dashboard are those of
\* its lists (getHiringEffectiveness, getRecruiterDashboard).
THEOREM ReportsAreSound == AnalyticsTurns => []ReportsSound
BY FigStart, FigStepKeeps, FigSound, PTL DEF AnalyticsTurns
=============================================================================
