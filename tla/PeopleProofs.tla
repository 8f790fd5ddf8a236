---------------------------- MODULE PeopleProofs ----------------------------
(***************************************************************************)
(* Proofs about the services for those who look for work: mock interviews, *)
(* files and CVs, preferences and alerts, profiles and conversations with  *)
(* the agent.  For any requests, names and rows and any number of failing  *)
(* queries unless a theorem says otherwise.                                *)
(***************************************************************************)
EXTENDS ServicesProofs

-----------------------------------------------------------------------------
(* Mock interviews *)

ResponseRows ==
    [id : Requests \cup {"first"}, call : Requests \cup {"first", Nothing}, isEnded : BOOLEAN,
     isAnalysed : BOOLEAN, analytics : Requests \cup {Nothing}]

SessionCompleted == interview.status = "completed" /\ latest # Nothing

InterviewRows ==
    /\ interview \in InterviewRow \cup {NoInterview}
    /\ responses \subseteq ResponseRows
    /\ responses # {} => interview # NoInterview
    /\ \A r \in responses : r.isAnalysed => r.analytics # Nothing /\ SessionCompleted
    /\ \A r \in responses : r.call # Nothing => r.call = r.id
    /\ \A q, r \in responses : q.id = r.id => q = r

\* Request r may have inserted a row of responses.
HasInserted(r) ==
    \/ r.op = "registerCall" /\ r.step = "done"
    \/ r.op \in Analyses /\ r.step \notin {"start", "model", "scores"}

\* A request r of h has read rows that were there; one that analyses has a call, whose
\* session it has completed when it comes to the call.
InterviewRequestOK(r, h) ==
    /\ r.op = "none" <=> r.step = "idle"
    /\ r.op = "createMockInterview" =>
           r.step \in {"start", "questions", "done"} /\ (r.step = "start" => interview = NoInterview)
    /\ r.op = "registerCall" => r.step \in {"start", "done"}
    /\ r.op = "updateResponse" =>
           /\ r.step \in {"start", "model", "load", "results", "done"}
           /\ r.step \in {"model", "load", "results"} => interview # NoInterview
           /\ r.step = "model" => r.mem \in InterviewRow
    /\ r.op \in Analyses =>
           /\ r.step # "done" => \E c \in responses : c.call = r.arg /\ c.call # Nothing
           /\ r.step \in {"response", "save"} => SessionCompleted
           /\ r.step = "save" => /\ r.mem \in ResponseRows /\ r.mem.isAnalysed
                                 /\ r.mem.analytics = h /\ r.mem.id = r.arg /\ r.mem.call = r.arg
    /\ r.step \in {"model", "load", "results"} => r.op \in Analyses \cup {"updateResponse"}
    /\ r.step = "load" => r.mem \in InterviewRow
    /\ r.step = "results" => r.mem.row \in InterviewRow /\ r.mem.row.status = "completed"

\* The inductive invariant.
InterviewInv ==
    /\ Shape /\ InterviewRows
    /\ \A r \in responses : r.id # "first" => HasInserted(handler[r.id])
    /\ \A h \in Requests : InterviewRequestOK(handler[h], h)
    /\ \A g, h \in Requests :
           handler[g].op = "createMockInterview" /\ handler[h].op = "createMockInterview" => g = h

\* What h leaves to the others.
InterviewStands(h) ==
    /\ \A q \in responses : \E r \in responses' : r.call = q.call
    /\ interview # NoInterview => interview' # NoInterview
    /\ interview = NoInterview => interview' = NoInterview \/ handler[h].op = "createMockInterview"
    /\ SessionCompleted /\ interview # NoInterview => SessionCompleted'

LEMMA InterviewOthers ==
    ASSUME InterviewInv, NEW h \in Requests, NEW s, Moves(h, s), InterviewStands(h)
    PROVE  \A g \in Requests \ {h} : InterviewRequestOK(handler[g], g)'
<1> TAKE g \in Requests \ {h}
<1>1. handler'[g] = handler[g] /\ InterviewRequestOK(handler[g], g)
  BY DEF Moves, InterviewInv
<1> DEFINE r == handler[g]
<1>2. r.op = "createMockInterview" /\ r.step = "start" => interview' = NoInterview
  BY <1>1 DEF InterviewInv, InterviewStands, InterviewRequestOK
<1>3. r.op \in Analyses /\ r.step # "done" => \E c \in responses' : c.call = r.arg /\ c.call # Nothing
  BY <1>1 DEF InterviewStands, InterviewRequestOK
<1>4. r.op \in Analyses /\ r.step \in {"response", "save"} => SessionCompleted'
  BY <1>1 DEF InterviewInv, InterviewRows, InterviewStands, InterviewRequestOK
<1>5. r.op = "updateResponse" /\ r.step \in {"model", "load", "results"} => interview' # NoInterview
  BY <1>1 DEF InterviewStands, InterviewRequestOK
<1>. QED
  BY <1>1, <1>2, <1>3, <1>4, <1>5 DEF InterviewRequestOK

LEMMA InterviewMovesOn ==
    ASSUME InterviewInv, NEW h \in Requests, NEW s, Moves(h, s), s.op = handler[h].op,
           InterviewRows', InterviewRequestOK(s, h)', InterviewStands(h),
           HasInserted(handler[h]) => HasInserted(s),
           \A r \in responses' : (\E q \in responses : q.id = r.id) \/ (r.id = h /\ HasInserted(s))
    PROVE  InterviewInv'
<1>1. \A g \in Requests : InterviewRequestOK(handler[g], g)'
  <2>1. InterviewRequestOK(handler[h], h)'
    BY DEF Moves, InterviewRequestOK, SessionCompleted
  <2>. QED
    BY <2>1, InterviewOthers
<1>2. \A g \in Requests : handler'[g].op = handler[g].op
  BY DEF Moves
<1>3. ASSUME NEW r \in responses', r.id # "first" PROVE HasInserted(handler'[r.id])
  <2>1. r.id \in Requests
    BY <1>3 DEF InterviewRows, ResponseRows
  <2>2. CASE r.id = h /\ HasInserted(s)
    BY <2>2 DEF Moves
  <2>3. CASE \E q \in responses : q.id = r.id
    <3>1. HasInserted(handler[r.id])
      BY <1>3, <2>3 DEF InterviewInv
    <3>. QED
      BY <2>1, <3>1 DEF Moves
  <2>. QED
    BY <2>2, <2>3
<1>. QED
  BY <1>1, <1>2, <1>3 DEF InterviewInv, Moves, HasInserted

\* A request that changes no row and goes on, or ends.
LEMMA InterviewGoesOn ==
    ASSUME InterviewInv, UNCHANGED <<interview, responses, latest>>, NEW h \in Requests, NEW s, Moves(h, s), s.op = handler[h].op,
           InterviewRequestOK(s, h), HasInserted(handler[h]) => HasInserted(s)
    PROVE  InterviewInv'
<1>1. InterviewRows' /\ InterviewStands(h) /\ InterviewRequestOK(s, h)'
  BY DEF InterviewInv, InterviewRows, InterviewStands, InterviewRequestOK, SessionCompleted
<1>2. \A r \in responses' : \E q \in responses : q.id = r.id
  OBVIOUS
<1>. QED
  BY <1>1, <1>2, InterviewMovesOn

LEMMA InterviewEndMoves ==
    ASSUME InterviewInv, NEW h \in Requests, Running(h), End(h) \/ Fault(h)
    PROVE  \E s : /\ Moves(h, s) /\ s.op = handler[h].op /\ s.step = "done"
                  /\ InterviewRequestOK(s, h) /\ InterviewRequestOK(s, h)'
                  /\ HasInserted(handler[h]) => HasInserted(s)
                  /\ handler[h].op = "registerCall" => HasInserted(s)
<1>0. PICK s : s = Request(handler[h].op, "done", "none", "nothing")
  OBVIOUS
<1>1. Moves(h, s)
  BY <1>0, EndMoves, FaultMoves DEF InterviewInv
<1>2. s.op = handler[h].op /\ s.step = "done"
  BY <1>0 DEF Request
<1>3. handler[h].op # "none"
  BY DEF Running, InterviewInv, InterviewRequestOK
<1>4. InterviewRequestOK(s, h) /\ InterviewRequestOK(s, h)'
  BY <1>2, <1>3 DEF InterviewRequestOK, Analyses
<1>. QED
  BY <1>1, <1>2, <1>4 DEF HasInserted, Analyses

LEMMA InterviewEnds ==
    ASSUME InterviewInv, UNCHANGED <<interview, responses, latest>>, NEW h \in Requests, Running(h), End(h) \/ Fault(h)
    PROVE  InterviewInv'
BY InterviewEndMoves, InterviewGoesOn

LEMMA InterviewAsked ==
    ASSUME InterviewInv, NEW h \in Requests, InterviewRequest(h) PROVE InterviewInv'
<1>1. PICK op, arg :
          /\ Ask(h, op, arg)
          /\ \/ /\ op = "createMockInterview" /\ interview = NoInterview
                /\ \A g \in Requests : handler[g].op # "createMockInterview"
             \/ op \in {"registerCall", "updateResponse"}
             \/ op \in Analyses /\ \E r \in responses : r.call = arg /\ r.call # Nothing
  BY DEF InterviewRequest, Analyses
<1> DEFINE s == Request(op, "start", arg, "nothing")
<1>2. Moves(h, s) /\ handler[h].step = "idle"
  BY <1>1, AskMoves DEF InterviewInv
<1>3. s.op = op /\ s.step = "start" /\ s.arg = arg
  BY DEF Request
<1> HIDE DEF s
<1>4. UNCHANGED ivars
  BY DEF InterviewRequest
<1>5. InterviewRows' /\ InterviewStands(h)
  BY <1>4 DEF ivars, InterviewInv, InterviewRows, InterviewStands, SessionCompleted
<1>6. InterviewRequestOK(s, h)'
  BY <1>1, <1>3, <1>4 DEF ivars, InterviewRequestOK, Analyses
<1>7. \A g \in Requests : InterviewRequestOK(handler[g], g)'
  <2>1. InterviewRequestOK(handler[h], h)'
    BY <1>2, <1>6 DEF Moves, InterviewRequestOK, SessionCompleted
  <2>. QED
    BY <1>2, <1>5, <2>1, InterviewOthers
<1>8. handler[h].op = "none" /\ ~HasInserted(handler[h])
  BY <1>2 DEF InterviewInv, InterviewRequestOK, HasInserted, Analyses
<1>9. ASSUME NEW r \in responses', r.id # "first" PROVE HasInserted(handler'[r.id])
  <2>1. r \in responses /\ r.id \in Requests /\ HasInserted(handler[r.id])
    BY <1>4, <1>9 DEF ivars, InterviewInv, InterviewRows, ResponseRows
  <2>. QED
    BY <1>2, <1>8, <2>1 DEF Moves
<1>10. \A g, k \in Requests :
          handler'[g].op = "createMockInterview" /\ handler'[k].op = "createMockInterview" => g = k
  BY <1>1, <1>2, <1>3, <1>8 DEF Moves, InterviewInv, Analyses
<1>. QED
  BY <1>2, <1>5, <1>7, <1>9, <1>10 DEF InterviewInv, Moves

LEMMA InterviewKeep ==
    ASSUME InterviewInv, NEW h \in Requests, NEW step, NEW mem,
           Keep(h, step, mem) \/ (Goto(h, step) /\ mem = handler[h].mem)
    PROVE  \E s : /\ Moves(h, s) /\ s.op = handler[h].op /\ s.step = step
                  /\ s.arg = handler[h].arg /\ s.mem = mem
BY GoesOn DEF InterviewInv

\* The row of a call that is there.
LEMMA RowOfCall ==
    ASSUME InterviewInv, NEW call, \E c \in responses : c.call = call /\ c.call # Nothing
    PROVE  RowOf(call) \in responses /\ RowOf(call).call = call /\ RowOf(call).id = call
BY DEF RowOf, InterviewInv, InterviewRows

LEMMA CreateInterviewKeeps ==
    ASSUME InterviewInv, NEW h \in Requests,
           InsertInterview(h) \/ InsertQuestions(h) \/ RegisterCall(h)
    PROVE  InterviewInv'
<1>1. InterviewRows /\ InterviewRequestOK(handler[h], h) /\ h # "first"
  BY InterviewAssumption DEF InterviewInv
<1>2. CASE InsertInterview(h)
  <2>1. handler[h].op = "createMockInterview" /\ handler[h].step = "start" /\ interview = NoInterview
    BY <1>1, <1>2 DEF InsertInterview, At, InterviewRequestOK
  <2>2. responses = {} /\ responses' = {} /\ latest' = latest
    BY <1>1, <1>2, <2>1 DEF InsertInterview, InterviewRows
  <2>3. interview' \in InterviewRow /\ interview' # NoInterview
    BY <1>2, InterviewAssumption DEF InsertInterview, NewInterview, InterviewRow
  <2>4. PICK s : Moves(h, s) /\ s.op = handler[h].op /\ s.step = "questions"
    BY <1>2, InterviewKeep DEF InsertInterview
  <2>5. InterviewRequestOK(s, h)'
    BY <2>1, <2>4 DEF InterviewRequestOK, Analyses
  <2>6. InterviewRows' /\ InterviewStands(h)
    BY <2>1, <2>2, <2>3 DEF InterviewRows, InterviewStands
  <2>7. ~HasInserted(handler[h])
    BY <2>1 DEF HasInserted, Analyses
  <2>. QED
    BY <2>2, <2>4, <2>5, <2>6, <2>7, InterviewMovesOn
<1>3. CASE InsertQuestions(h)
  BY <1>3, InterviewEnds DEF InsertQuestions, At, Running
<1>4. CASE RegisterCall(h)
  <2>1. handler[h].op = "registerCall" /\ handler[h].step = "start" /\ End(h)
    BY <1>4 DEF RegisterCall, At
  <2>2. Running(h)
    BY <2>1 DEF Running
  <2>3. PICK s : /\ Moves(h, s) /\ s.op = handler[h].op /\ s.step = "done"
                 /\ InterviewRequestOK(s, h)' /\ HasInserted(s)
    BY <2>1, <2>2, InterviewEndMoves
  <2>4. CASE interview = NoInterview
    <3>1. UNCHANGED <<interview, responses, latest>>
      BY <1>4, <2>4 DEF RegisterCall
    <3>. QED
      BY <2>1, <2>2, <3>1, InterviewEnds
  <2>5. CASE interview # NoInterview
    <3> DEFINE row == ResponseRow(h, h)
    <3>1. responses' = responses \cup {row} /\ UNCHANGED <<interview, latest>>
      BY <1>4, <2>5 DEF RegisterCall
    <3>2. row \in ResponseRows /\ row.id = h /\ row.call = h /\ ~row.isAnalysed
      BY DEF ResponseRow, ResponseRows
    <3> HIDE DEF row
    <3>3. \A q \in responses : q.id # h
      BY <1>1, <2>1 DEF InterviewInv, HasInserted, Analyses
    <3>4. InterviewRows'
      BY <1>1, <2>5, <3>1, <3>2, <3>3 DEF InterviewRows, SessionCompleted
    <3>5. InterviewStands(h)
      BY <3>1 DEF InterviewStands, SessionCompleted
    <3>6. \A r \in responses' : (\E q \in responses : q.id = r.id) \/ (r.id = h /\ HasInserted(s))
      BY <2>3, <3>1, <3>2
    <3>. QED
      BY <2>3, <3>4, <3>5, <3>6, InterviewMovesOn
  <2>. QED
    BY <2>4, <2>5
<1>. QED
  BY <1>2, <1>3, <1>4

LEMMA ModelKeeps ==
    ASSUME InterviewInv, NEW h \in Requests,
           ReadCall(h) \/ ModelFails(h) \/ ModelAnalyses(h) \/ ReadInterview(h) \/ ModelHasInsights(h)
    PROVE  InterviewInv'
<1>1. InterviewRows /\ InterviewRequestOK(handler[h], h) /\ Running(h) /\ UNCHANGED ivars
  BY DEF InterviewInv, ReadCall, ModelFails, ModelAnalyses, ReadInterview, ModelHasInsights, Analysing, At,
         Running
<1>2. CASE End(h)
  BY <1>1, <1>2, InterviewEnds DEF ivars
<1>3. ASSUME Analysing(h, "start"), Goto(h, "model") PROVE InterviewInv'
  <2>1. PICK s : Moves(h, s) /\ s.op = handler[h].op /\ s.step = "model" /\ s.arg = handler[h].arg
    BY <1>3, InterviewKeep
  <2>2. InterviewRequestOK(s, h)
    BY <1>1, <1>3, <2>1 DEF InterviewRequestOK, Analysing, Analyses
  <2>3. ~HasInserted(handler[h])
    BY <1>3 DEF HasInserted, Analysing, Analyses
  <2>. QED
    BY <1>1, <2>1, <2>2, <2>3, InterviewGoesOn DEF ivars
<1>4. CASE ModelAnalyses(h)
  <2>1. PICK s : Moves(h, s) /\ s.op = handler[h].op /\ s.step = "scores" /\ s.arg = handler[h].arg
    BY <1>4, InterviewKeep DEF ModelAnalyses
  <2>2. InterviewRequestOK(s, h)
    BY <1>1, <1>4, <2>1 DEF InterviewRequestOK, ModelAnalyses, Analysing, Analyses
  <2>3. ~HasInserted(handler[h])
    BY <1>4 DEF HasInserted, ModelAnalyses, Analysing, Analyses
  <2>. QED
    BY <1>1, <2>1, <2>2, <2>3, InterviewGoesOn DEF ivars
<1>5. ASSUME At(h, "updateResponse", "start"), interview # NoInterview, Keep(h, "model", interview)
      PROVE  InterviewInv'
  <2>1. PICK s : Moves(h, s) /\ s.op = handler[h].op /\ s.step = "model" /\ s.mem = interview
    BY <1>5, InterviewKeep
  <2>2. s.mem \in InterviewRow
    BY <1>1, <1>5, <2>1 DEF InterviewRows
  <2>3. InterviewRequestOK(s, h)
    BY <1>1, <1>5, <2>1, <2>2 DEF InterviewRequestOK, At, Analyses
  <2>4. ~HasInserted(handler[h])
    BY <1>5 DEF HasInserted, At, Analyses
  <2>. QED
    BY <1>1, <2>1, <2>3, <2>4, InterviewGoesOn DEF ivars
<1>6. CASE ModelHasInsights(h)
  <2>1. Mem(h) \in InterviewRow /\ interview # NoInterview
    BY <1>1, <1>6 DEF ModelHasInsights, At, InterviewRequestOK, Mem
  <2>2. PICK mem : mem = [Mem(h) EXCEPT !.insights = h]
    OBVIOUS
  <2>3. mem \in InterviewRow
    BY <2>1, <2>2 DEF InterviewRow
  <2>4. PICK s : Moves(h, s) /\ s.op = handler[h].op /\ s.step = "load" /\ s.mem = mem
    BY <1>6, <2>2, InterviewKeep DEF ModelHasInsights
  <2>5. InterviewRequestOK(s, h)
    BY <1>1, <1>6, <2>1, <2>3, <2>4 DEF InterviewRequestOK, ModelHasInsights, At, Analyses
  <2>6. ~HasInserted(handler[h])
    BY <1>6 DEF HasInserted, ModelHasInsights, At, Analyses
  <2>. QED
    BY <1>1, <2>4, <2>5, <2>6, InterviewGoesOn DEF ivars
<1>7. ModelFails(h) => End(h)
  BY DEF ModelFails
<1>8. ReadCall(h) => End(h) \/ (Analysing(h, "start") /\ Goto(h, "model"))
  BY DEF ReadCall, Check
<1>9. ReadInterview(h) =>
          End(h) \/ (At(h, "updateResponse", "start") /\ interview # NoInterview /\ Keep(h, "model", interview))
  BY DEF ReadInterview
<1>. QED
  BY <1>2, <1>3, <1>4, <1>5, <1>6, <1>7, <1>8, <1>9

LEMMA AnswerKeeps ==
    ASSUME InterviewInv, NEW h \in Requests, InsertScore(h) \/ InsertFeedback(h) \/ LoadInterview(h)
    PROVE  InterviewInv'
<1>1. /\ InterviewRows /\ InterviewRequestOK(handler[h], h) /\ h # "first" /\ Nothing \notin Requests
      /\ interview # NoInterview => interview \in InterviewRow
  BY InterviewAssumption DEF InterviewInv, InterviewRows
<1>2. CASE InsertScore(h)
  <2>1. handler[h].op \in Analyses /\ handler[h].step = "scores" /\ UNCHANGED <<interview, latest>>
    BY <1>2 DEF InsertScore, Analysing
  <2>2. \E c \in responses : c.call = handler[h].arg /\ c.call # Nothing
    BY <1>1, <2>1 DEF InterviewRequestOK
  <2>3. PICK s : Moves(h, s) /\ s.op = handler[h].op /\ s.step = "feedback" /\ s.arg = handler[h].arg
    BY <1>2, InterviewKeep DEF InsertScore
  <2>4. HasInserted(s) /\ ~HasInserted(handler[h])
    BY <2>1, <2>3 DEF HasInserted, Analyses
  <2> DEFINE row == ResponseRow(h, Nothing)
  <2>5. responses' \in {responses, responses \cup {row}}
    BY <1>2 DEF InsertScore
  <2>6. row \in ResponseRows /\ row.id = h /\ row.call = Nothing /\ ~row.isAnalysed
    BY DEF ResponseRow, ResponseRows
  <2> HIDE DEF row
  <2>7. \A q \in responses : q.id # h
    BY <1>1, <2>4 DEF InterviewInv
  <2>8. InterviewRows'
    BY <1>1, <2>1, <2>2, <2>5, <2>6, <2>7 DEF InterviewRows, SessionCompleted
  <2>9. InterviewStands(h)
    BY <2>1, <2>5 DEF InterviewStands, SessionCompleted
  <2>10. InterviewRequestOK(s, h)'
    BY <2>1, <2>2, <2>3, <2>5 DEF InterviewRequestOK, Analyses
  <2>11. \A r \in responses' : (\E q \in responses : q.id = r.id) \/ (r.id = h /\ HasInserted(s))
    BY <2>4, <2>5, <2>6
  <2>. QED
    BY <2>3, <2>4, <2>8, <2>9, <2>10, <2>11, InterviewMovesOn
<1>3. CASE InsertFeedback(h)
  <2>1. handler[h].op \in Analyses /\ handler[h].step = "feedback" /\ UNCHANGED <<interview, responses, latest>>
    BY <1>3 DEF InsertFeedback, Analysing
  <2>2. \E c \in responses : c.call = handler[h].arg /\ c.call # Nothing
    BY <1>1, <2>1 DEF InterviewRequestOK
  <2>3. interview \in InterviewRow /\ interview # NoInterview
    BY <1>1, <2>2 DEF InterviewRows
  <2>4. PICK mem : mem = [interview EXCEPT !.results = h, !.insights = Nothing]
    OBVIOUS
  <2>5. mem \in InterviewRow
    BY <2>3, <2>4 DEF InterviewRow
  <2>6. PICK s : /\ Moves(h, s) /\ s.op = handler[h].op /\ s.step = "load" /\ s.arg = handler[h].arg
                 /\ s.mem = mem
    BY <1>3, <2>4, InterviewKeep DEF InsertFeedback
  <2>7. InterviewRequestOK(s, h) /\ HasInserted(s)
    BY <2>1, <2>2, <2>3, <2>5, <2>6 DEF InterviewRequestOK, HasInserted, Analyses
  <2>. QED
    BY <2>1, <2>6, <2>7, InterviewGoesOn
<1>4. CASE LoadInterview(h)
  <2>1. /\ handler[h].step = "load" /\ Mem(h) \in InterviewRow /\ UNCHANGED ivars
        /\ handler[h].op \in Analyses \cup {"updateResponse"}
    BY <1>1, <1>4 DEF LoadInterview, InterviewRequestOK, Mem
  <2>2. PICK row : row = [Mem(h) EXCEPT !.status = "completed"]
    OBVIOUS
  <2>3. row \in InterviewRow /\ row.status = "completed"
    BY <2>1, <2>2 DEF InterviewRow
  <2>4. PICK mem : mem = [row |-> row, asked |-> asked, responses |-> {r.id : r \in responses},
                          feedback |-> feedback]
    OBVIOUS
  <2>5. mem.row = row
    BY <2>4
  <2>6. PICK s : /\ Moves(h, s) /\ s.op = handler[h].op /\ s.step = "results" /\ s.arg = handler[h].arg
                 /\ s.mem = mem
    <3>1. Keep(h, "results", mem)
      BY <1>4, <2>2, <2>4 DEF LoadInterview
    <3>. QED
      BY <3>1, InterviewKeep
  <2>7. InterviewRequestOK(s, h)
    BY <1>1, <2>1, <2>3, <2>5, <2>6 DEF InterviewRequestOK, Analyses
  <2>8. HasInserted(handler[h]) => HasInserted(s)
    BY <2>1, <2>6 DEF HasInserted
  <2>. QED
    BY <2>1, <2>6, <2>7, <2>8, InterviewGoesOn DEF ivars
<1>. QED
  BY <1>2, <1>3, <1>4

LEMMA SaveInterviewKeeps ==
    ASSUME InterviewInv, NEW h \in Requests, SaveInterview(h) PROVE InterviewInv'
<1>1. /\ InterviewRows /\ InterviewRequestOK(handler[h], h) /\ UNCHANGED responses
      /\ handler[h].step = "results" /\ Running(h)
      /\ handler[h].op \in Analyses \cup {"updateResponse"}
  BY DEF InterviewInv, SaveInterview, Running, InterviewRequestOK
<1>2. CASE ~SameRows(h)
  BY <1>1, <1>2, InterviewEnds DEF SaveInterview
<1>3. CASE SameRows(h)
  <2>1. interview' = Mem(h).row /\ latest' = IF handler[h].op \in Analyses THEN h ELSE latest
    BY <1>3 DEF SaveInterview
  <2>2. interview' \in InterviewRow /\ interview' # NoInterview /\ interview'.status = "completed"
    BY <1>1, <2>1, InterviewAssumption DEF InterviewRequestOK, Mem
  <2>3. latest # Nothing => latest' # Nothing
    BY <2>1, InterviewAssumption
  <2>4. interview # NoInterview
    BY <1>1 DEF InterviewRequestOK, InterviewRows
  <2>5. InterviewRows' /\ InterviewStands(h)
    BY <1>1, <2>2, <2>3, <2>4 DEF InterviewRows, InterviewStands, SessionCompleted
  <2>6. CASE handler[h].op \in Analyses
    <3>1. PICK s : /\ Moves(h, s) /\ s.op = handler[h].op /\ s.step = "response"
                   /\ s.arg = handler[h].arg
      BY <1>3, <2>6, InterviewKeep DEF SaveInterview
    <3>2. SessionCompleted'
      BY <2>1, <2>2, <2>6, InterviewAssumption DEF SessionCompleted
    <3>3. InterviewRequestOK(s, h)' /\ HasInserted(s)
      BY <1>1, <2>6, <3>1, <3>2 DEF InterviewRequestOK, HasInserted, Analyses
    <3>. QED
      BY <1>1, <2>5, <3>1, <3>3, InterviewMovesOn
  <2>7. CASE handler[h].op \notin Analyses
    <3>1. End(h)
      BY <1>3, <2>7 DEF SaveInterview
    <3>2. PICK s : /\ Moves(h, s) /\ s.op = handler[h].op /\ s.step = "done" /\ InterviewRequestOK(s, h)'
                   /\ HasInserted(handler[h]) => HasInserted(s)
      BY <1>1, <3>1, InterviewEndMoves
    <3>. QED
      BY <1>1, <2>5, <3>2, InterviewMovesOn
  <2>. QED
    BY <2>6, <2>7
<1>. QED
  BY <1>2, <1>3

LEMMA ResponseKeeps ==
    ASSUME InterviewInv, NEW h \in Requests, ReadResponse(h) \/ SaveResponse(h) PROVE InterviewInv'
<1>1. /\ InterviewRows /\ InterviewRequestOK(handler[h], h) /\ Running(h)
      /\ handler[h].op \in Analyses /\ handler[h].step \in {"response", "save"}
      /\ UNCHANGED <<interview, latest>>
  BY DEF InterviewInv, ReadResponse, SaveResponse, Analysing, Running, ivars
<1>2. /\ \E c \in responses : c.call = handler[h].arg /\ c.call # Nothing
      /\ SessionCompleted /\ SessionCompleted'
  BY <1>1 DEF InterviewRequestOK, SessionCompleted
<1>3. CASE ReadResponse(h)
  <2> DEFINE row == RowOf(Arg(h))
  <2>1. row \in ResponseRows /\ row.call = handler[h].arg /\ row.id = handler[h].arg
    BY <1>1, <1>2, RowOfCall DEF InterviewRows, Arg
  <2>2. PICK mem : mem = [row EXCEPT !.isAnalysed = TRUE, !.analytics = h,
                                     !.isEnded = @ \/ handler[h].op = "analyzeCall"]
    OBVIOUS
  <2>3. Keep(h, "save", mem)
    BY <1>3, <2>2 DEF ReadResponse
  <2> HIDE DEF row
  <2>4. /\ mem \in ResponseRows /\ mem.isAnalysed /\ mem.analytics = h
        /\ mem.call = handler[h].arg /\ mem.id = handler[h].arg
    BY <2>1, <2>2 DEF ResponseRows
  <2>5. PICK s : /\ Moves(h, s) /\ s.op = handler[h].op /\ s.step = "save"
                 /\ s.arg = handler[h].arg /\ s.mem = mem
    BY <2>3, InterviewKeep
  <2>6. InterviewRequestOK(s, h) /\ HasInserted(s)
    BY <1>1, <1>2, <2>4, <2>5 DEF InterviewRequestOK, HasInserted, Analyses
  <2>7. UNCHANGED <<interview, responses, latest>>
    BY <1>3 DEF ReadResponse, ivars
  <2>. QED
    BY <2>5, <2>6, <2>7, InterviewGoesOn
<1>4. CASE SaveResponse(h)
  <2> DEFINE row == Mem(h)
  <2>1. /\ row \in ResponseRows /\ row.isAnalysed /\ row.analytics = h
        /\ row.call = handler[h].arg /\ row.id = handler[h].arg
    BY <1>1, <1>4 DEF SaveResponse, Analysing, InterviewRequestOK, Mem
  <2>2. responses' = {r \in responses : r.id # row.id} \cup {row} /\ End(h)
    BY <1>4 DEF SaveResponse
  <2> HIDE DEF row
  <2>3. PICK c \in responses : c.call = handler[h].arg /\ c.call # Nothing
    BY <1>2
  <2>4. c.id = row.id /\ c.call = row.call
    BY <1>1, <2>1, <2>3 DEF InterviewRows
  <2>5. InterviewRows'
    <3>1. responses' \subseteq ResponseRows /\ interview' \in InterviewRow \cup {NoInterview}
      BY <1>1, <2>1, <2>2 DEF InterviewRows
    <3>2. interview' # NoInterview
      BY <1>1, <2>3 DEF InterviewRows
    <3>3. \A r \in responses' : r.isAnalysed => r.analytics # Nothing /\ SessionCompleted'
      BY <1>1, <1>2, <2>1, <2>2, InterviewAssumption DEF InterviewRows
    <3>4. \A r \in responses' : r.call # Nothing => r.call = r.id
      BY <1>1, <2>1, <2>2 DEF InterviewRows
    <3>5. \A q, r \in responses' : q.id = r.id => q = r
      BY <1>1, <2>2 DEF InterviewRows
    <3>. QED
      BY <3>1, <3>2, <3>3, <3>4, <3>5 DEF InterviewRows
  <2>6. \A q \in responses : \E r \in responses' : r.call = q.call
    <3> TAKE q \in responses
    <3>1. CASE q.id = row.id
      BY <1>1, <2>2, <2>4, <3>1 DEF InterviewRows
    <3>. QED
      BY <2>2, <3>1
  <2>7. InterviewStands(h)
    BY <1>1, <2>6 DEF InterviewStands, SessionCompleted
  <2>8. \A r \in responses' : \E q \in responses : q.id = r.id
    BY <2>2, <2>3, <2>4
  <2>9. PICK s : /\ Moves(h, s) /\ s.op = handler[h].op /\ InterviewRequestOK(s, h)'
                 /\ HasInserted(handler[h]) => HasInserted(s)
    BY <1>1, <2>2, InterviewEndMoves
  <2>. QED
    BY <2>5, <2>7, <2>8, <2>9, InterviewMovesOn
<1>. QED
  BY <1>3, <1>4

LEMMA InterviewStepKeeps == InterviewInv /\ [InterviewNext]_<<svars, ivars>> => InterviewInv'
<1> SUFFICES ASSUME InterviewInv, [InterviewNext]_<<svars, ivars>> PROVE InterviewInv'
  OBVIOUS
<1>1. CASE UNCHANGED <<svars, ivars>>
  BY <1>1 DEF svars, ivars, InterviewInv, Shape, InterviewRows, InterviewRequestOK, SessionCompleted
<1>2. ASSUME NEW h \in Requests, Fault(h), UNCHANGED ivars PROVE InterviewInv'
  BY <1>2, InterviewEnds DEF Fault, ivars
<1>. QED
  BY <1>1, <1>2, InterviewAsked, CreateInterviewKeeps, ModelKeeps, AnswerKeeps, SaveInterviewKeeps,
     ResponseKeeps DEF InterviewNext, InterviewStep

LEMMA InterviewInitHolds == SInit /\ InterviewInit => InterviewInv
<1> SUFFICES ASSUME SInit, InterviewInit PROVE InterviewInv
  OBVIOUS
<1>1. \A h \in Requests : handler[h].op = "none" /\ handler[h].step = "idle"
  BY DEF SInit, Idle
<1>2. \A h \in Requests : InterviewRequestOK(handler[h], h)
  BY <1>1 DEF InterviewRequestOK, Analyses
<1>3. NewInterview \in InterviewRow /\ NewInterview # NoInterview
  BY InterviewAssumption DEF NewInterview, InterviewRow
<1>4. /\ ResponseRow("first", "first") \in ResponseRows /\ ~ResponseRow("first", "first").isAnalysed
      /\ ResponseRow("first", "first").id = "first" /\ ResponseRow("first", "first").call = "first"
  BY DEF ResponseRow, ResponseRows
<1>5. responses = {} \/ (responses = {ResponseRow("first", "first")} /\ interview # NoInterview)
  BY <1>3 DEF InterviewInit
<1>6. InterviewRows
  BY <1>3, <1>4, <1>5 DEF InterviewRows, InterviewInit
<1>. QED
  BY <1>1, <1>2, <1>4, <1>5, <1>6, ShapeInit DEF InterviewInv

LEMMA InterviewAnalysed == InterviewInv => AnalysedIsComplete
BY DEF InterviewInv, InterviewRows, AnalysedIsComplete, SessionCompleted

\* Whatever analyses, insights and calls overlap or fail, a call that is marked as
\* analysed has a session that is completed by an analysis (analyzeCall, retell,
\* updateSessionResults).
THEOREM AnalysesComplete == InterviewSpec => []AnalysedIsComplete
BY InterviewInitHolds, InterviewStepKeeps, InterviewAnalysed, PTL DEF InterviewSpec

-----------------------------------------------------------------------------
(* Mock interviews, in turn *)

Analysed(call) == \E r \in responses : r.call = call /\ r.isAnalysed

AllAnalysed == \A f \in feedback : Analysed(f.call)

ResultsShown ==
    latest # Nothing =>
        interview.results = latest /\ \E r \in responses : r.isAnalysed /\ r.analytics = latest

\* What the tables and the only request at work, r of h, make of an interview together:
\* its call is not analysed yet; others who gave feedback have marked their calls; it
\* has read what the tables hold; and the session shows the last analysis, unless that
\* is its own, which the call shows next.
InterviewWaits(r, h) ==
    /\ r.op \in Analyses /\ r.step # "start" => ~Analysed(r.arg)
    /\ \A f \in feedback :
           \/ Analysed(f.call)
           \/ r.op \in Analyses /\ r.step \in {"load", "results", "response", "save"} /\ f.call = r.arg
    /\ IF r.op \in Analyses /\ r.step \in {"response", "save"}
       THEN latest = h /\ interview.results = h
       ELSE ResultsShown
    /\ r.op = "updateResponse" /\ r.step = "model" => r.mem.results = interview.results
    /\ r.step = "load" => r.mem.results = IF r.op \in Analyses THEN h ELSE interview.results
    /\ r.step = "results" =>
           /\ r.mem.row.results = IF r.op \in Analyses THEN h ELSE interview.results
           /\ r.mem.asked = asked /\ r.mem.feedback = feedback
           /\ r.mem.responses = {q.id : q \in responses}

\* The inductive invariant.
InterviewTurnInv ==
    /\ faults \in Nat /\ InterviewInv
    /\ Undisturbed =>
        /\ OneAtWork /\ AnalysedOnce
        /\ \A h \in Requests : Running(h) => InterviewWaits(handler[h], h)
        /\ Quiet => AllAnalysed /\ ResultsShown

\* A step by h alone, among requests that waited for each other, without a failure.
InterviewTurn ==
    InterviewTurnInv /\ InterviewInv' /\ Turns /\ ~overlapped' /\ Undisturbed /\ UNCHANGED faults

LEMMA InterviewTurnMoves ==
    ASSUME InterviewTurn, NEW h \in Requests, NEW s, Moves(h, s),
           Running(h) \/ s.step \notin {"idle", "done"}, AnalysedOnce',
           IF s.step \in {"idle", "done"} THEN AllAnalysed' /\ ResultsShown' ELSE InterviewWaits(s, h)'
    PROVE  InterviewTurnInv'
<1>1. OneAtWork' /\ \A g \in Requests \ {h} : ~Running(g)'
  BY MovesAlone DEF InterviewTurn, InterviewTurnInv
<1>2. Running(h)' = (s.step \notin {"idle", "done"}) /\ handler'[h] = s
  BY DEF Running, Moves
<1>3. InterviewWaits(s, h)' => InterviewWaits(handler[h], h)'
  BY <1>2 DEF InterviewWaits, Analysed, ResultsShown
<1>. QED
  BY <1>1, <1>2, <1>3 DEF InterviewTurnInv, InterviewTurn, Quiet

LEMMA InterviewTurnEnds ==
    ASSUME InterviewTurn, NEW h \in Requests, Running(h), End(h),
           AnalysedOnce', AllAnalysed', ResultsShown'
    PROVE  InterviewTurnInv'
<1>1. PICK s : Moves(h, s) /\ s.step = "done"
  BY InterviewEndMoves DEF InterviewTurn, InterviewTurnInv
<1>. QED
  BY <1>1, InterviewTurnMoves

\* What a request finds that is at work; at its start, nothing is left to do.
LEMMA InterviewFound ==
    ASSUME InterviewTurn, NEW h \in Requests, Running(h)
    PROVE  /\ InterviewInv /\ InterviewRows /\ InterviewRequestOK(handler[h], h)
           /\ AnalysedOnce /\ InterviewWaits(handler[h], h)
           /\ ~(handler[h].op \in Analyses /\ handler[h].step \in {"load", "results", "response", "save"}) =>
                  AllAnalysed /\ ResultsShown
BY DEF InterviewTurn, InterviewTurnInv, InterviewInv, InterviewWaits, AllAnalysed

LEMMA InterviewAskedInTurn ==
    ASSUME InterviewTurn, NEW h \in Requests, InterviewRequest(h) PROVE InterviewTurnInv'
<1>1. PICK op, arg : Ask(h, op, arg)
  BY DEF InterviewRequest
<1>2. PICK s : s = Request(op, "start", arg, "nothing")
  OBVIOUS
<1>3. Moves(h, s) /\ handler[h].step = "idle" /\ s.step = "start" /\ UNCHANGED ivars
  BY <1>1, <1>2, AskMoves DEF InterviewTurn, InterviewTurnInv, InterviewInv, Request, InterviewRequest
<1>4. \A g \in Requests \ {h} : ~Running(g)
  BY <1>3, MovesAlone DEF InterviewTurn, InterviewTurnInv
<1>5. AllAnalysed /\ ResultsShown /\ AnalysedOnce
  BY <1>3, <1>4 DEF InterviewTurn, InterviewTurnInv, Quiet, Running
<1>6. InterviewWaits(s, h)' /\ AnalysedOnce'
  BY <1>3, <1>5 DEF ivars, InterviewWaits, AnalysedOnce, AllAnalysed, ResultsShown, Analysed
<1>. QED
  BY <1>3, <1>6, InterviewTurnMoves

LEMMA CreateInterviewInTurn ==
    ASSUME InterviewTurn, NEW h \in Requests,
           InsertInterview(h) \/ InsertQuestions(h) \/ RegisterCall(h)
    PROVE  InterviewTurnInv'
<1>1. Running(h) /\ handler[h].op \notin Analyses
  BY DEF InsertInterview, InsertQuestions, RegisterCall, At, Running, Analyses
<1>2. /\ InterviewInv /\ InterviewRows /\ InterviewRequestOK(handler[h], h)
      /\ AnalysedOnce /\ AllAnalysed /\ ResultsShown /\ UNCHANGED <<feedback, latest>>
  BY <1>1, InterviewFound DEF InsertInterview, InsertQuestions, RegisterCall
<1>3. AnalysedOnce'
  BY <1>2 DEF AnalysedOnce
<1>4. CASE InsertInterview(h)
  <2>1. interview = NoInterview /\ responses = {} /\ UNCHANGED responses
    BY <1>2, <1>4 DEF InsertInterview, At, InterviewRequestOK, InterviewRows
  <2>2. latest = Nothing
    BY <1>2, <2>1 DEF ResultsShown
  <2>3. PICK s : Moves(h, s) /\ s.op = handler[h].op /\ s.step = "questions"
    BY <1>2, <1>4, InterviewKeep DEF InsertInterview
  <2>4. InterviewWaits(s, h)'
    BY <1>1, <1>2, <2>1, <2>2, <2>3 DEF InterviewWaits, AllAnalysed, ResultsShown, Analysed
  <2>. QED
    BY <1>1, <1>3, <2>3, <2>4, InterviewTurnMoves
<1>5. CASE InsertQuestions(h)
  <2>1. AllAnalysed' /\ ResultsShown'
    BY <1>2, <1>5 DEF InsertQuestions, AllAnalysed, ResultsShown, Analysed
  <2>. QED
    BY <1>1, <1>3, <1>5, <2>1, InterviewTurnEnds DEF InsertQuestions
<1>6. CASE RegisterCall(h)
  <2>1. responses \subseteq responses' /\ UNCHANGED interview /\ End(h)
    BY <1>6 DEF RegisterCall
  <2>2. AllAnalysed' /\ ResultsShown'
    BY <1>2, <2>1 DEF AllAnalysed, ResultsShown, Analysed
  <2>. QED
    BY <1>1, <1>3, <2>1, <2>2, InterviewTurnEnds
<1>. QED
  BY <1>4, <1>5, <1>6

LEMMA ModelInTurn ==
    ASSUME InterviewTurn, NEW h \in Requests,
           ReadCall(h) \/ ModelFails(h) \/ ModelAnalyses(h) \/ ReadInterview(h) \/ ModelHasInsights(h)
    PROVE  InterviewTurnInv'
<1>1. /\ Running(h) /\ UNCHANGED ivars
      /\ ~(handler[h].op \in Analyses /\ handler[h].step \in {"load", "results", "response", "save"})
  BY DEF ReadCall, ModelFails, ModelAnalyses, ReadInterview, ModelHasInsights, Analysing, At, Running
<1>2. /\ InterviewInv /\ InterviewRows /\ InterviewRequestOK(handler[h], h)
      /\ AnalysedOnce /\ AllAnalysed /\ ResultsShown /\ InterviewWaits(handler[h], h)
  BY <1>1, InterviewFound
<1>3. AnalysedOnce' /\ AllAnalysed' /\ ResultsShown'
  BY <1>1, <1>2 DEF ivars, AnalysedOnce, AllAnalysed, ResultsShown, Analysed
<1>4. CASE End(h)
  BY <1>1, <1>3, <1>4, InterviewTurnEnds
<1>5. ASSUME Analysing(h, "start"), Unanalysed(h), Goto(h, "model") PROVE InterviewTurnInv'
  <2>1. PICK s : Moves(h, s) /\ s.op = handler[h].op /\ s.step = "model" /\ s.arg = handler[h].arg
    BY <1>2, <1>5, InterviewKeep
  <2>2. handler[h].op \in Analyses /\ \E c \in responses : c.call = handler[h].arg /\ c.call # Nothing
    BY <1>2, <1>5 DEF InterviewRequestOK, Analysing
  <2>3. ~Analysed(handler[h].arg)
    BY <1>2, <1>5, <2>2 DEF Unanalysed, Arg, Analysed, InterviewRows
  <2>4. InterviewWaits(s, h)'
    BY <1>1, <1>3, <2>1, <2>2, <2>3 DEF InterviewWaits, AllAnalysed, Analysed, Analyses, ivars
  <2>. QED
    BY <1>1, <1>3, <2>1, <2>4, InterviewTurnMoves
<1>6. CASE ModelAnalyses(h)
  <2>1. PICK s : Moves(h, s) /\ s.op = handler[h].op /\ s.step = "scores" /\ s.arg = handler[h].arg
    BY <1>2, <1>6, InterviewKeep DEF ModelAnalyses
  <2>2. handler[h].op \in Analyses /\ ~Analysed(handler[h].arg)
    BY <1>2, <1>6 DEF InterviewWaits, ModelAnalyses, Analysing
  <2>3. InterviewWaits(s, h)'
    BY <1>1, <1>3, <2>1, <2>2 DEF InterviewWaits, AllAnalysed, Analysed, Analyses, ivars
  <2>. QED
    BY <1>1, <1>3, <2>1, <2>3, InterviewTurnMoves
<1>7. ASSUME At(h, "updateResponse", "start"), Keep(h, "model", interview) PROVE InterviewTurnInv'
  <2>1. PICK s : Moves(h, s) /\ s.op = handler[h].op /\ s.step = "model" /\ s.mem = interview
    BY <1>2, <1>7, InterviewKeep
  <2>2. InterviewWaits(s, h)'
    BY <1>1, <1>3, <1>7, <2>1 DEF InterviewWaits, AllAnalysed, At, Analyses, ivars
  <2>. QED
    BY <1>1, <1>3, <2>1, <2>2, InterviewTurnMoves
<1>8. CASE ModelHasInsights(h)
  <2>1. /\ handler[h].op = "updateResponse" /\ Mem(h) \in InterviewRow
        /\ Mem(h).results = interview.results
    BY <1>2, <1>8 DEF ModelHasInsights, At, InterviewRequestOK, InterviewWaits, Mem
  <2>2. PICK mem : mem = [Mem(h) EXCEPT !.insights = h]
    OBVIOUS
  <2>3. mem.results = interview.results
    BY <2>1, <2>2 DEF InterviewRow
  <2>4. PICK s : Moves(h, s) /\ s.op = handler[h].op /\ s.step = "load" /\ s.mem = mem
    BY <1>2, <1>8, <2>2, InterviewKeep DEF ModelHasInsights
  <2>5. InterviewWaits(s, h)'
    BY <1>1, <1>3, <2>1, <2>3, <2>4 DEF InterviewWaits, AllAnalysed, Analyses, ivars
  <2>. QED
    BY <1>1, <1>3, <2>4, <2>5, InterviewTurnMoves
<1>9. ModelFails(h) => End(h)
  BY DEF ModelFails
<1>10. ReadCall(h) => End(h) \/ (Analysing(h, "start") /\ Unanalysed(h) /\ Goto(h, "model"))
  BY DEF ReadCall, Check
<1>11. ReadInterview(h) => End(h) \/ (At(h, "updateResponse", "start") /\ Keep(h, "model", interview))
  BY DEF ReadInterview
<1>. QED
  BY <1>4, <1>5, <1>6, <1>7, <1>8, <1>9, <1>10, <1>11

LEMMA AnswerInTurn ==
    ASSUME InterviewTurn, NEW h \in Requests, InsertScore(h) \/ InsertFeedback(h) \/ LoadInterview(h)
    PROVE  InterviewTurnInv'
<1>1. Running(h)
  BY DEF InsertScore, InsertFeedback, LoadInterview, Analysing, Running
<1>2. /\ InterviewInv /\ InterviewRows /\ InterviewRequestOK(handler[h], h)
      /\ AnalysedOnce /\ InterviewWaits(handler[h], h)
      /\ ~(handler[h].op \in Analyses /\ handler[h].step \in {"load", "results", "response", "save"}) =>
             AllAnalysed /\ ResultsShown
  BY <1>1, InterviewFound
<1>3. CASE InsertScore(h)
  <2>1. /\ handler[h].op \in Analyses /\ handler[h].step = "scores" /\ UNCHANGED <<interview, feedback, latest>>
        /\ AllAnalysed /\ ResultsShown /\ ~Analysed(handler[h].arg)
    BY <1>2, <1>3 DEF InsertScore, Analysing, InterviewWaits
  <2>2. responses' \in {responses, responses \cup {ResponseRow(h, Nothing)}}
    BY <1>3 DEF InsertScore
  <2>3. \A call : Analysed(call)' <=> Analysed(call)
    BY <2>2 DEF Analysed, ResponseRow
  <2>4. AllAnalysed' /\ ResultsShown' /\ AnalysedOnce'
    BY <1>2, <2>1, <2>2, <2>3 DEF AllAnalysed, ResultsShown, AnalysedOnce
  <2>5. PICK s : Moves(h, s) /\ s.op = handler[h].op /\ s.step = "feedback" /\ s.arg = handler[h].arg
    BY <1>2, <1>3, InterviewKeep DEF InsertScore
  <2>6. InterviewWaits(s, h)'
    BY <2>1, <2>3, <2>4, <2>5 DEF InterviewWaits, AllAnalysed, Analyses
  <2>. QED
    BY <1>1, <2>4, <2>5, <2>6, InterviewTurnMoves
<1>4. CASE InsertFeedback(h)
  <2>1. /\ handler[h].op \in Analyses /\ handler[h].step = "feedback" /\ UNCHANGED <<interview, responses, latest>>
        /\ AllAnalysed /\ ResultsShown /\ ~Analysed(handler[h].arg)
    BY <1>2, <1>4 DEF InsertFeedback, Analysing, InterviewWaits
  <2>2. interview \in InterviewRow
    BY <1>2, <2>1 DEF InterviewRequestOK, InterviewRows
  <2>3. PICK mem : mem = [interview EXCEPT !.results = h, !.insights = Nothing]
    OBVIOUS
  <2>4. mem.results = h
    BY <2>2, <2>3 DEF InterviewRow
  <2>5. Keep(h, "load", mem)
    BY <1>4, <2>3 DEF InsertFeedback
  <2>6. PICK s : /\ Moves(h, s) /\ s.op = handler[h].op /\ s.step = "load" /\ s.arg = handler[h].arg
                 /\ s.mem = mem
    BY <1>2, <2>5, InterviewKeep
  <2> DEFINE new == [call |-> Arg(h), by |-> h]
  <2>7. feedback' \in {feedback, feedback \cup {new}}
    BY <1>4 DEF InsertFeedback
  <2>8. new.call = handler[h].arg
    BY DEF Arg
  <2> HIDE DEF new
  <2>9. \A call : Analysed(call)' <=> Analysed(call)
    BY <2>1 DEF Analysed
  <2>10. \A f \in feedback : f.call # handler[h].arg
    BY <2>1 DEF AllAnalysed
  <2>11. AnalysedOnce'
    BY <1>2, <2>7, <2>8, <2>10 DEF AnalysedOnce
  <2>12. \A f \in feedback' : Analysed(f.call)' \/ f.call = handler[h].arg
    BY <2>1, <2>7, <2>8, <2>9 DEF AllAnalysed
  <2>13. InterviewWaits(s, h)'
    BY <2>1, <2>4, <2>6, <2>9, <2>12 DEF InterviewWaits, ResultsShown, Analyses
  <2>. QED
    BY <1>1, <2>6, <2>11, <2>13, InterviewTurnMoves
<1>5. CASE LoadInterview(h)
  <2>1. /\ handler[h].step = "load" /\ Mem(h) \in InterviewRow /\ UNCHANGED ivars
        /\ Mem(h).results = IF handler[h].op \in Analyses THEN h ELSE interview.results
    BY <1>2, <1>5 DEF LoadInterview, InterviewRequestOK, InterviewWaits, Mem
  <2>2. PICK row : row = [Mem(h) EXCEPT !.status = "completed"]
    OBVIOUS
  <2>3. row.results = Mem(h).results
    BY <2>1, <2>2 DEF InterviewRow
  <2>4. PICK mem : mem = [row |-> row, asked |-> asked, responses |-> {r.id : r \in responses},
                          feedback |-> feedback]
    OBVIOUS
  <2>5. Keep(h, "results", mem)
    BY <1>5, <2>2, <2>4 DEF LoadInterview
  <2>6. PICK s : /\ Moves(h, s) /\ s.op = handler[h].op /\ s.step = "results" /\ s.arg = handler[h].arg
                 /\ s.mem = mem
    BY <1>2, <2>5, InterviewKeep
  <2>7. InterviewWaits(s, h)
    BY <1>2, <2>1, <2>3, <2>4, <2>6 DEF InterviewWaits
  <2>8. InterviewWaits(s, h)' /\ AnalysedOnce'
    BY <1>2, <2>1, <2>7 DEF InterviewWaits, ivars, AnalysedOnce, Analysed, ResultsShown
  <2>. QED
    BY <1>1, <2>6, <2>8, InterviewTurnMoves
<1>. QED
  BY <1>3, <1>4, <1>5

LEMMA SaveInterviewInTurn ==
    ASSUME InterviewTurn, NEW h \in Requests, SaveInterview(h) PROVE InterviewTurnInv'
<1>1. handler[h].step = "results" /\ Running(h) /\ UNCHANGED <<asked, responses, feedback>>
  BY DEF SaveInterview, Running
<1>2. /\ InterviewInv /\ InterviewRequestOK(handler[h], h) /\ AnalysedOnce
      /\ InterviewWaits(handler[h], h)
  BY <1>1, InterviewFound
<1>3. SameRows(h) /\ Mem(h).row.results = IF handler[h].op \in Analyses THEN h ELSE interview.results
  BY <1>1, <1>2 DEF InterviewWaits, SameRows, Mem
<1>4. interview' = Mem(h).row /\ latest' = IF handler[h].op \in Analyses THEN h ELSE latest
  BY <1>3 DEF SaveInterview
<1>5. AnalysedOnce' /\ \A call : Analysed(call)' <=> Analysed(call)
  BY <1>1, <1>2 DEF AnalysedOnce, Analysed
<1>6. CASE handler[h].op \in Analyses
  <2>1. PICK s : Moves(h, s) /\ s.op = handler[h].op /\ s.step = "response" /\ s.arg = handler[h].arg
    BY <1>2, <1>3, <1>6, InterviewKeep DEF SaveInterview
  <2>2. InterviewWaits(s, h)'
    BY <1>1, <1>2, <1>3, <1>4, <1>5, <1>6, <2>1 DEF InterviewWaits, Analyses
  <2>. QED
    BY <1>1, <1>5, <2>1, <2>2, InterviewTurnMoves
<1>7. CASE handler[h].op \notin Analyses
  <2>1. End(h)
    BY <1>3, <1>7 DEF SaveInterview
  <2>2. AllAnalysed /\ ResultsShown
    BY <1>1, <1>7, InterviewFound
  <2>3. AllAnalysed' /\ ResultsShown'
    BY <1>1, <1>3, <1>4, <1>5, <1>7, <2>2 DEF AllAnalysed, ResultsShown
  <2>. QED
    BY <1>1, <1>5, <2>1, <2>3, InterviewTurnEnds
<1>. QED
  BY <1>6, <1>7

LEMMA ResponseInTurn ==
    ASSUME InterviewTurn, NEW h \in Requests, ReadResponse(h) \/ SaveResponse(h) PROVE InterviewTurnInv'
<1>1. /\ Running(h) /\ handler[h].op \in Analyses /\ handler[h].step \in {"response", "save"}
      /\ UNCHANGED <<interview, latest, feedback>>
  BY DEF ReadResponse, SaveResponse, Analysing, Running, ivars
<1>2. /\ InterviewInv /\ InterviewRows /\ InterviewRequestOK(handler[h], h)
      /\ AnalysedOnce /\ InterviewWaits(handler[h], h)
  BY <1>1, InterviewFound
<1>3. AnalysedOnce'
  BY <1>1, <1>2 DEF AnalysedOnce
<1>4. /\ latest = h /\ interview.results = h /\ ~Analysed(handler[h].arg)
      /\ \A f \in feedback : Analysed(f.call) \/ f.call = handler[h].arg
  BY <1>1, <1>2 DEF InterviewWaits
<1>5. CASE ReadResponse(h)
  <2>1. UNCHANGED ivars
    BY <1>5 DEF ReadResponse
  <2>2. PICK s : Moves(h, s) /\ s.op = handler[h].op /\ s.step = "save" /\ s.arg = handler[h].arg
    BY <1>2, <1>5, InterviewKeep DEF ReadResponse
  <2>3. InterviewWaits(s, h)'
    BY <1>1, <1>4, <2>1, <2>2 DEF InterviewWaits, Analysed, Analyses, ivars
  <2>. QED
    BY <1>1, <1>3, <2>2, <2>3, InterviewTurnMoves
<1>6. CASE SaveResponse(h)
  <2> DEFINE row == Mem(h)
  <2>1. /\ row.isAnalysed /\ row.analytics = h
        /\ row.call = handler[h].arg /\ row.id = handler[h].arg
    BY <1>1, <1>2, <1>6 DEF SaveResponse, Analysing, InterviewRequestOK, Mem
  <2>2. responses' = {r \in responses : r.id # row.id} \cup {row} /\ End(h)
    BY <1>6 DEF SaveResponse
  <2> HIDE DEF row
  <2>3. PICK c \in responses : c.call = handler[h].arg /\ c.call # Nothing
    BY <1>1, <1>2 DEF InterviewRequestOK
  <2>4. ASSUME NEW f \in feedback PROVE Analysed(f.call)'
    <3>1. CASE f.call = handler[h].arg
      BY <2>1, <2>2, <3>1 DEF Analysed
    <3>2. CASE f.call # handler[h].arg
      <4>1. PICK r \in responses : r.call = f.call /\ r.isAnalysed
        BY <1>4, <3>2 DEF Analysed
      <4>2. r.id # row.id
        BY <1>2, <2>1, <2>3, <3>2, <4>1 DEF InterviewRows
      <4>. QED
        BY <2>2, <4>1, <4>2 DEF Analysed
    <3>. QED
      BY <3>1, <3>2
  <2>5. AllAnalysed' /\ ResultsShown'
    BY <1>1, <1>4, <2>1, <2>2, <2>4 DEF AllAnalysed, ResultsShown
  <2>. QED
    BY <1>1, <1>3, <2>2, <2>5, InterviewTurnEnds
<1>. QED
  BY <1>5, <1>6

LEMMA InterviewTurnInit == SInit /\ InterviewInit => InterviewTurnInv
<1> SUFFICES ASSUME SInit, InterviewInit PROVE InterviewTurnInv
  OBVIOUS
<1>1. \A h \in Requests : ~Running(h)
  BY DEF SInit, Idle, Running
<1>2. AnalysedOnce /\ AllAnalysed /\ ResultsShown
  BY DEF InterviewInit, AnalysedOnce, AllAnalysed, ResultsShown
<1>. QED
  BY <1>1, <1>2, InterviewInitHolds DEF InterviewTurnInv, OneAtWork, SInit

LEMMA InterviewTurnNext ==
    InterviewTurnInv /\ [InterviewNext /\ Turns]_<<svars, ivars, overlapped>> => InterviewTurnInv'
<1> SUFFICES ASSUME InterviewTurnInv, [InterviewNext /\ Turns]_<<svars, ivars, overlapped>>
             PROVE  InterviewTurnInv'
  OBVIOUS
<1>1. InterviewInv'
  BY InterviewStepKeeps DEF InterviewTurnInv, svars, ivars
<1>2. CASE UNCHANGED <<svars, ivars, overlapped>>
  BY <1>1, <1>2 DEF svars, ivars, InterviewTurnInv, Undisturbed, OneAtWork, Quiet, Running, InterviewWaits,
                    AnalysedOnce, AllAnalysed, ResultsShown, Analysed
<1>3. ASSUME NEW h \in Requests, Fault(h) PROVE InterviewTurnInv'
  BY <1>1, <1>3 DEF Fault, InterviewTurnInv, Undisturbed
<1>4. ASSUME NEW h \in Requests, InterviewRequest(h) \/ InterviewStep(h), Turns PROVE InterviewTurnInv'
  <2>1. UNCHANGED faults
    BY <1>4 DEF InterviewRequest, InterviewStep, Ask, End, Goto, Keep, Check, InsertInterview,
                InsertQuestions, RegisterCall, ReadCall, ModelFails, ModelAnalyses, InsertScore,
                InsertFeedback, LoadInterview, SaveInterview, ReadResponse, SaveResponse, ReadInterview,
                ModelHasInsights
  <2>2. CASE ~Undisturbed'
    BY <1>1, <2>1, <2>2 DEF InterviewTurnInv
  <2>3. CASE Undisturbed'
    <3>1. ~overlapped' /\ faults = 0
      BY <2>1, <2>3 DEF Undisturbed
    <3>2. ~overlapped
      BY <1>4, <3>1, TurnBefore
    <3>3. InterviewTurn
      BY <1>1, <1>4, <2>1, <3>1, <3>2 DEF InterviewTurn, Undisturbed
    <3>. QED
      BY <1>4, <3>3, InterviewAskedInTurn, CreateInterviewInTurn, ModelInTurn, AnswerInTurn,
         SaveInterviewInTurn, ResponseInTurn DEF InterviewStep
  <2>. QED
    BY <2>2, <2>3
<1>. QED
  BY <1>2, <1>3, <1>4 DEF InterviewNext

\* Whatever overlaps or fails, an analysed call has a completed session; requests that
\* wait for each other, with no failing query, analyse each call once, and the session
\* shows the last analysis (analyzeCall, retell, updateResponse).
THEOREM InterviewsAreSound == InterviewTurns => []InterviewSound
<1>1. InterviewTurnInv => InterviewSound
  BY InterviewAnalysed DEF InterviewTurnInv, InterviewSound, ResultsAreLatest, ResultsShown
<1>2. SInit /\ InterviewInit /\ overlapped = FALSE => InterviewTurnInv
  BY InterviewTurnInit
<1>. QED
  BY <1>1, <1>2, InterviewTurnNext, PTL DEF InterviewTurns

-----------------------------------------------------------------------------
(* Documents *)

HasFile(id) == \E f \in files : f.id = id
\* The file is deleted, or whether it is is what its client wrote.
Deleted(id) == \E f \in files : f.id = id /\ (f.isDeleted \/ id \in written)

\* The object of a file is there, or need not be.
Safe(id) == id \in cloud \/ Deleted(id)

IsFile(f) == f = [id |-> f.id, type |-> f.type, status |-> f.status,
                  publicId |-> f.publicId, isDeleted |-> f.isDeleted]

\* A file that has the name of an object is safe, and only such a file is shown, or one
\* that its client wrote.
FileRows ==
    /\ \A f \in files : IsFile(f)
    /\ \A f, g \in files : f.id = g.id => f = g
    /\ \A f \in files : f.status = "deleted" => Deleted(f.id)
    /\ \A f \in files : f.publicId = "name" => Safe(f.id)
    /\ \A f \in files : f.status \in {"uploaded", "ready"} => f.publicId = "name" \/ f.id \in written
    /\ \A id \in written : HasFile(id)

\* The id of a file is that of the request that has inserted it.
FilesMade == \A f \in files : f.id \in Requests /\ handler[f.id].step \notin {"idle", "start"}

IsCV(c) == c = [id |-> c.id, file |-> c.file, isDeleted |-> c.isDeleted]
CVRows == \A c \in cvs : IsCV(c) /\ HasFile(c.file)

\* What a request works on is there; before it gives a row the name of an object, the
\* file is safe, and before it destroys an object, the file is deleted.
AnswerOK(arg) ==
    arg.answered => arg.change \in Answers /\ arg.change.publicId = "name" /\ Safe(arg.id)

DocRequestOK(h, s) ==
    /\ s.op = "uploadFile" /\ s.step \in {"upload", "uploaded", "failed"} => HasFile(h)
    /\ s.op = "uploadFile" /\ s.step = "uploaded" => Safe(h)
    /\ s.op = "updateFile" /\ s.step \in {"start", "write"} => HasFile(s.arg.id) /\ AnswerOK(s.arg)
    /\ s.op = "deleteFile" /\ s.step = "start" => HasFile(s.arg)
    /\ s.step \in {"mark", "destroy"} => HasFile(s.mem.id)
    /\ s.step = "destroy" => Deleted(s.mem.id)
    /\ s.op = "uploadCV" /\ s.step \in {"start", "insert"} => HasFile(s.arg)
    /\ s.step \in {"softDelete", "file"} => IsCV(s.mem) /\ HasFile(s.mem.file)

\* The inductive invariant.
DocInv ==
    /\ Shape /\ faults \in Nat
    /\ FileRows /\ FilesMade /\ CVRows
    /\ \A h \in Requests : DocRequestOK(h, handler[h])

\* No file goes, nor what makes it safe.
Remains == \A id : /\ HasFile(id) => HasFile(id)'
                   /\ Safe(id) => Safe(id)'
                   /\ Deleted(id) => Deleted(id)'
                   /\ id \in written => id \in written'

LEMMA DocKeeps ==
    ASSUME DocInv, NEW h \in Requests, NEW s, Moves(h, s), faults' \in Nat,
           s.step \notin {"idle", "start"} \/ handler[h].step = "idle",
           Remains, FileRows', CVRows', DocRequestOK(h, s)',
           \A f \in files' : HasFile(f.id) \/ (f.id = h /\ s.step \notin {"idle", "start"})
    PROVE  DocInv'
<1>1. FilesMade'
  <2> SUFFICES ASSUME NEW f \in files'
               PROVE  f.id \in Requests /\ handler'[f.id].step \notin {"idle", "start"}
    BY DEF FilesMade
  <2>1. CASE HasFile(f.id)
    <3>1. f.id \in Requests /\ handler[f.id].step \notin {"idle", "start"}
      BY <2>1 DEF DocInv, FilesMade, HasFile
    <3>. QED
      BY <3>1 DEF Moves
  <2>2. CASE f.id = h /\ s.step \notin {"idle", "start"}
    BY <2>2 DEF Moves
  <2>. QED
    BY <2>1, <2>2
<1>2. ASSUME NEW g \in Requests PROVE DocRequestOK(g, handler[g])'
  <2>1. CASE g = h
    BY <2>1 DEF Moves, DocRequestOK
  <2>2. CASE g # h
    <3>1. handler'[g] = handler[g] /\ DocRequestOK(g, handler[g])
      BY <2>2 DEF Moves, DocInv
    <3>. QED
      BY <3>1 DEF DocRequestOK, AnswerOK, Remains
  <2>. QED
    BY <2>1, <2>2
<1>. QED
  BY <1>1, <1>2 DEF DocInv, Moves

\* A request that only reads, or writes nothing but a CV
LEMMA DocSame ==
    ASSUME DocInv, NEW h \in Requests, NEW s, Moves(h, s), faults' \in Nat,
           s.step \notin {"idle", "start"} \/ handler[h].step = "idle",
           DocRequestOK(h, s), UNCHANGED <<files, cloud, written>>, UNCHANGED cvs \/ CVRows'
    PROVE  DocInv'
<1>1. Remains
  BY DEF Remains, HasFile, Safe, Deleted
<1>2. FileRows' /\ CVRows'
  BY DEF DocInv, FileRows, CVRows, Safe, Deleted, HasFile
<1>3. DocRequestOK(h, s)'
  BY <1>1 DEF Remains, DocRequestOK, AnswerOK
<1>4. \A f \in files' : HasFile(f.id)
  BY DEF HasFile
<1>. QED
  BY <1>1, <1>2, <1>3, <1>4, DocKeeps

\* A request that has ended needs nothing.
LEMMA DoneNeedsNothing == ASSUME NEW h, NEW s, s.step \in {"done", "idle"} PROVE DocRequestOK(h, s)
BY DEF DocRequestOK

LEMMA FileIs ==
    ASSUME FileRows, NEW id, HasFile(id)
    PROVE  /\ File(id) \in files /\ File(id).id = id /\ IsFile(File(id))
           /\ \A f \in files : f.id = id => f = File(id)
           /\ Deleted(id) <=> (File(id).isDeleted \/ id \in written)
<1>1. PICK f \in files : f.id = id
  BY DEF HasFile
<1>2. File(id) \in files /\ File(id).id = id
  BY <1>1 DEF File
<1>. QED
  BY <1>2 DEF FileRows, Deleted

LEMMA DocAsked ==
    ASSUME DocInv, NEW h \in Requests, DocumentsRequest(h)
    PROVE  DocInv' /\ handler[h].step = "idle" /\ UNCHANGED dvars
           /\ \E s : Moves(h, s) /\ s.step = "start"
<1>1. ASSUME NEW op, NEW arg, Ask(h, op, arg),
             op = "updateFile" => HasFile(arg.id) /\ AnswerOK(arg),
             op \in {"deleteFile", "uploadCV"} => HasFile(arg)
      PROVE  DocInv' /\ handler[h].step = "idle" /\ \E s : Moves(h, s) /\ s.step = "start"
  <2>1. PICK s : s = Request(op, "start", arg, "nothing")
    OBVIOUS
  <2>2. Moves(h, s) /\ handler[h].step = "idle"
    BY <1>1, <2>1, AskMoves DEF DocInv
  <2>3. s.op = op /\ s.step = "start" /\ s.arg = arg
    BY <2>1 DEF Request
  <2>4. DocRequestOK(h, s)
    BY <1>1, <2>3 DEF DocRequestOK
  <2>5. UNCHANGED <<files, cloud, cvs, written>> /\ faults' \in Nat
    BY <1>1 DEF DocumentsRequest, dvars, Ask, DocInv
  <2>. QED
    BY <2>2, <2>3, <2>4, <2>5, DocSame
<1>2. CASE (\E t \in FileTypes : Ask(h, "uploadFile", t)) \/ Ask(h, "generateSignedUploadUrl", "none")
  BY <1>1, <1>2 DEF DocumentsRequest
<1>3. CASE \E f \in files, c \in Answers \cup Columns :
               Ask(h, "updateFile", [id |-> f.id, change |-> c, answered |-> FromCloudinary(f, c)])
  <2>1. PICK f \in files, c \in Answers \cup Columns :
            Ask(h, "updateFile", [id |-> f.id, change |-> c, answered |-> FromCloudinary(f, c)])
    BY <1>3
  <2>2. PICK arg : arg = [id |-> f.id, change |-> c, answered |-> FromCloudinary(f, c)]
    OBVIOUS
  <2>3. Ask(h, "updateFile", arg) /\ HasFile(arg.id)
    BY <2>1, <2>2 DEF HasFile
  <2>4. arg.id = f.id /\ arg.change = c /\ (arg.answered <=> FromCloudinary(f, c))
    BY <2>2
  <2>5. AnswerOK(arg)
    BY <2>4 DEF AnswerOK, FromCloudinary, Safe
  <2>. QED
    BY <1>1, <2>3, <2>5 DEF DocumentsRequest
<1>4. CASE \E f \in files : Ask(h, "deleteFile", f.id) \/ Ask(h, "uploadCV", f.id)
  <2>1. PICK arg : HasFile(arg) /\ (Ask(h, "deleteFile", arg) \/ Ask(h, "uploadCV", arg))
    BY <1>4 DEF HasFile
  <2>. QED
    BY <1>1, <2>1 DEF DocumentsRequest
<1>5. CASE \E c \in cvs : Ask(h, "deleteCV", c.id)
  BY <1>1, <1>5 DEF DocumentsRequest
<1>. QED
  BY <1>2, <1>3, <1>4, <1>5 DEF DocumentsRequest

\* A new row has no object.
LEMMA FileAdded ==
    ASSUME DocInv, NEW h \in Requests, handler[h].step = "start", NEW type, NEW publicId,
           publicId # "name", files' = files \cup {FileRow(h, type, publicId)},
           UNCHANGED <<cloud, cvs, written>>
    PROVE  /\ Remains /\ FileRows' /\ CVRows' /\ HasFile(h)'
           /\ ~Deleted(h)' /\ ~HasFile(h)
           /\ \A f \in files' : f \in files \/ (f.id = h /\ f.status = "uploading")
<1>1. PICK row : row = FileRow(h, type, publicId)
  OBVIOUS
<1>2. /\ IsFile(row) /\ row.id = h /\ row.publicId # "name" /\ row.status = "uploading" /\ ~row.isDeleted
      /\ files' = files \cup {row}
  BY <1>1 DEF FileRow, IsFile
<1>3. (\A f \in files : f.id # h) /\ h \notin written
  BY DEF DocInv, FilesMade, FileRows, HasFile
<1>4. Remains
  BY <1>2 DEF Remains, HasFile, Safe, Deleted
<1>5. FileRows'
  BY <1>2, <1>3, <1>4 DEF DocInv, FileRows, Remains
<1>6. CVRows'
  BY <1>4 DEF DocInv, CVRows, Remains
<1>7. HasFile(h)' /\ ~Deleted(h)' /\ ~HasFile(h)
  BY <1>2, <1>3 DEF HasFile, Deleted
<1>. QED
  BY <1>2, <1>4, <1>5, <1>6, <1>7

\* A row is replaced by one that is no less deleted, and shown only if it is safe.
LEMMA FileSaved ==
    ASSUME DocInv, NEW id, HasFile(id), NEW g, IsFile(g), g.id = id,
           written' \in {written, written \cup {id}},
           Deleted(id) \/ g.status = "deleted" => g.isDeleted \/ id \in written',
           g.publicId = "name" => Safe(id) \/ id \in written',
           g.status \in {"uploaded", "ready"} => g.publicId = "name" \/ id \in written',
           files' = WithFile(g), UNCHANGED <<cloud, cvs>>
    PROVE  /\ Remains /\ FileRows' /\ CVRows'
           /\ \A f \in files' : f = g \/ (f \in files /\ f.id # id)
           /\ \A f \in files' : HasFile(f.id)
           /\ g.isDeleted => Deleted(id)'
<1>1. files' = {f \in files : f.id # id} \cup {g}
  BY DEF WithFile
<1>2. Remains
  <2>1. \A k : HasFile(k) => HasFile(k)'
    BY <1>1 DEF HasFile
  <2>2. \A k : Deleted(k) => Deleted(k)'
    BY <1>1 DEF Deleted
  <2>. QED
    BY <2>1, <2>2 DEF Remains, Safe
<1>7. (g.isDeleted \/ id \in written' => Deleted(id)') /\ HasFile(id)'
  BY <1>1 DEF Deleted, HasFile
<1>3. FileRows'
  <2>1. \A f \in files' : f = g \/ (f \in files /\ f.id # id)
    BY <1>1
  <2>2. \A f \in files' : f.status = "deleted" => Deleted(f.id)'
    BY <1>2, <1>7, <2>1 DEF DocInv, FileRows, Remains
  <2>3. \A f \in files' : f.publicId = "name" => Safe(f.id)'
    BY <1>2, <1>7, <2>1 DEF DocInv, FileRows, Remains, Safe
  <2>4. \A f \in files' :
            f.status \in {"uploaded", "ready"} => f.publicId = "name" \/ f.id \in written'
    BY <1>2, <2>1 DEF DocInv, FileRows, Remains
  <2>5. \A k \in written' : HasFile(k)'
    BY <1>2, <1>7 DEF DocInv, FileRows, Remains
  <2>6. (\A f \in files' : IsFile(f)) /\ \A f, k \in files' : f.id = k.id => f = k
    BY <2>1 DEF DocInv, FileRows
  <2>. QED
    BY <2>2, <2>3, <2>4, <2>5, <2>6 DEF FileRows
<1>4. CVRows'
  BY <1>2 DEF DocInv, CVRows, Remains
<1>5. \A f \in files' : HasFile(f.id)
  BY <1>1 DEF HasFile
<1>6. g.isDeleted => Deleted(id)'
  BY <1>1 DEF Deleted
<1>. QED
  BY <1>1, <1>2, <1>3, <1>4, <1>5, <1>6

\* What the rows that are saved are made of
LEMMA UploadedFile ==
    ASSUME FileRows, NEW id, HasFile(id)
    PROVE  \E g : /\ g = [File(id) EXCEPT !.status = "uploaded", !.publicId = "name"]
                  /\ IsFile(g) /\ g.id = id /\ g.status = "uploaded" /\ g.publicId = "name"
                  /\ g.isDeleted = File(id).isDeleted
<1>1. PICK f : f = File(id)
  OBVIOUS
<1>2. IsFile(f) /\ f.id = id
  BY <1>1, FileIs
<1>3. PICK g, k : g = [f EXCEPT !.status = "uploaded"] /\ k = [g EXCEPT !.publicId = "name"]
  OBVIOUS
<1>4. IsFile(g) /\ g.id = id /\ g.isDeleted = f.isDeleted /\ g.status = "uploaded"
  BY <1>2, <1>3 DEF IsFile
<1>5. IsFile(k) /\ k.id = id /\ k.status = "uploaded" /\ k.publicId = "name" /\ k.isDeleted = f.isDeleted
  BY <1>3, <1>4 DEF IsFile
<1>6. k = [File(id) EXCEPT !.status = "uploaded", !.publicId = "name"]
  BY <1>1, <1>3
<1>. QED
  BY <1>1, <1>5, <1>6

LEMMA FailedFile ==
    ASSUME FileRows, NEW id, HasFile(id)
    PROVE  \E g : /\ g = [File(id) EXCEPT !.status = "failed"]
                  /\ IsFile(g) /\ g.id = id /\ g.status = "failed" /\ g.publicId = File(id).publicId
                  /\ g.isDeleted = File(id).isDeleted
<1>1. PICK f : f = File(id)
  OBVIOUS
<1>2. IsFile(f) /\ f.id = id
  BY <1>1, FileIs
<1>3. PICK g : g = [f EXCEPT !.status = "failed"]
  OBVIOUS
<1>4. IsFile(g) /\ g.id = id /\ g.status = "failed" /\ g.publicId = f.publicId /\ g.isDeleted = f.isDeleted
  BY <1>2, <1>3 DEF IsFile
<1>. QED
  BY <1>1, <1>3, <1>4

LEMMA UpdatedFile ==
    ASSUME FileRows, NEW id, HasFile(id), NEW c
    PROVE  \E g : /\ g = Updated(File(id), c) /\ IsFile(g) /\ g.id = id
                  /\ c \in Answers => /\ g.status = "ready" /\ g.publicId = c.publicId
                                      /\ g.isDeleted = File(id).isDeleted
<1>1. PICK f : f = File(id)
  OBVIOUS
<1>2. IsFile(f) /\ f.id = id
  BY <1>1, FileIs
<1>3. PICK m, n, o, g :
          /\ m = [f EXCEPT !.status = Column(@, c.status)]
          /\ n = [m EXCEPT !.publicId = Column(@, c.publicId)]
          /\ o = [n EXCEPT !.type = Column(@, c.type)]
          /\ g = [o EXCEPT !.isDeleted = IF c.isDeleted = "same" THEN @ ELSE c.isDeleted = "yes"]
  OBVIOUS
<1>4. IsFile(m) /\ m.id = id /\ m.isDeleted = f.isDeleted /\ m.status = Column(f.status, c.status)
      /\ m.publicId = f.publicId
  BY <1>2, <1>3 DEF IsFile
<1>5. IsFile(n) /\ n.id = id /\ n.isDeleted = f.isDeleted /\ n.status = Column(f.status, c.status)
      /\ n.publicId = Column(f.publicId, c.publicId)
  BY <1>3, <1>4 DEF IsFile
<1>6. IsFile(o) /\ o.id = id /\ o.isDeleted = f.isDeleted /\ o.status = Column(f.status, c.status)
      /\ o.publicId = Column(f.publicId, c.publicId)
  BY <1>3, <1>5 DEF IsFile
<1>7. /\ IsFile(g) /\ g.id = id /\ g.status = Column(f.status, c.status)
      /\ g.publicId = Column(f.publicId, c.publicId)
      /\ g.isDeleted = IF c.isDeleted = "same" THEN f.isDeleted ELSE c.isDeleted = "yes"
  BY <1>3, <1>6 DEF IsFile
<1>8. c \in Answers => c.status = "ready" /\ c.publicId # "same" /\ c.isDeleted = "same"
  BY DEF Answers
<1>9. g = Updated(f, c)
  BY <1>3 DEF Updated
<1>. QED
  BY <1>1, <1>7, <1>8, <1>9 DEF Column

LEMMA DeletedFileIs ==
    ASSUME FileRows, NEW id, HasFile(id)
    PROVE  \E g : /\ g = DeletedFile(id) /\ IsFile(g) /\ g.id = id /\ g.status = "deleted"
                  /\ g.publicId = File(id).publicId /\ g.type = File(id).type /\ g.isDeleted
<1>1. PICK f : f = File(id)
  OBVIOUS
<1>2. IsFile(f) /\ f.id = id
  BY <1>1, FileIs
<1>3. PICK p, q : p = [f EXCEPT !.status = "deleted"] /\ q = [p EXCEPT !.isDeleted = TRUE]
  OBVIOUS
<1>4. IsFile(p) /\ p.id = id /\ p.status = "deleted" /\ p.publicId = f.publicId /\ p.type = f.type
  BY <1>2, <1>3 DEF IsFile
<1>5. /\ IsFile(q) /\ q.id = id /\ q.status = "deleted" /\ q.publicId = f.publicId /\ q.type = f.type
      /\ q.isDeleted
  BY <1>3, <1>4 DEF IsFile
<1>6. q = DeletedFile(id)
  BY <1>1, <1>3 DEF DeletedFile
<1>. QED
  BY <1>1, <1>5, <1>6

\* What the only request at work knows: it is no deleted file that it uploads, and of the
\* file that it deletes it has read what is in its row.
DocWaits(h, r) ==
    /\ r.op = "uploadFile" /\ r.step \in {"upload", "uploaded", "failed"} => ~Deleted(h)
    /\ r.step \in {"mark", "destroy"} =>
           \A f \in files : f.id = r.mem.id => f.type = r.mem.type /\ f.publicId = r.mem.publicId

\* The file follows its CV, and the object its image, when request r is at its end.
Follow(r) ==
    /\ \A c \in cvs : c.isDeleted =>
           \/ Deleted(c.file)
           \/ r.step = "file" /\ c.file = r.mem.file
           \/ r.op = "deleteCV" /\ r.step = "mark" /\ c.file = r.mem.id
    /\ \A f \in files : f.status = "deleted" /\ Destroyable(f) =>
           f.id \notin cloud \/ f.id \in written \/ (r.step = "destroy" /\ f.id = r.mem.id)

\* The inductive invariant.
DocTurnInv ==
    /\ DocInv
    /\ ~overlapped => /\ OneAtWork /\ DeletedAgrees
                      /\ \A h \in Requests : Running(h) => DocWaits(h, handler[h])
    /\ Undisturbed => /\ \A h \in Requests : Running(h) => Follow(handler[h])
                      /\ Quiet => Follow(Idle)

\* A step by one request
DocTurn == DocTurnInv /\ Turns /\ faults' \in Nat /\ faults <= faults'

LEMMA DocFound ==
    ASSUME DocTurn, NEW h \in Requests, Running(h)
    PROVE  /\ Shape /\ DocInv /\ DocRequestOK(h, handler[h])
           /\ ~overlapped' => DeletedAgrees /\ DocWaits(h, handler[h])
           /\ Undisturbed' => Follow(handler[h])
           /\ handler[h].step \notin {"idle", "done"}
<1>1. ~overlapped' => ~overlapped
  BY TurnBefore DEF DocTurn
<1>2. Undisturbed' => Undisturbed
  BY <1>1 DEF Undisturbed, DocTurn, DocTurnInv, DocInv
<1>. QED
  BY <1>1, <1>2 DEF DocTurn, DocTurnInv, DocInv, Running

LEMMA DocMoves ==
    ASSUME DocTurn, NEW h \in Requests, NEW s, Moves(h, s),
           Running(h) \/ s.step \notin {"idle", "done"}, DocInv',
           ~overlapped' => DeletedAgrees' /\ DocWaits(h, s)', Undisturbed' => Follow(s)'
    PROVE  DocTurnInv'
<1>1. CASE overlapped'
  BY <1>1 DEF DocTurnInv, Undisturbed
<1>2. CASE ~overlapped'
  <2>1. ~overlapped
    BY <1>2, TurnBefore DEF DocTurn
  <2>2. OneAtWork' /\ \A g \in Requests \ {h} : ~Running(g)'
    BY <1>2, <2>1, MovesAlone DEF DocTurn, DocTurnInv
  <2>3. handler'[h] = s /\ Running(h)' = (s.step \notin {"idle", "done"})
    BY DEF Moves, Running
  <2>4. \A g \in Requests : Running(g)' => DocWaits(g, handler[g])'
    <3>1. DocWaits(h, s)' => DocWaits(h, handler[h])'
      BY <2>3 DEF DocWaits
    <3>. QED
      BY <1>2, <2>2, <3>1
  <2>5. \A g \in Requests : Undisturbed' /\ Running(g)' => Follow(handler[g])'
    <3>1. Follow(s)' => Follow(handler[h])'
      BY <2>3 DEF Follow
    <3>. QED
      BY <2>2, <3>1
  <2>6. Undisturbed' /\ Quiet' => Follow(Idle)'
    <3>1. s.step \in {"idle", "done"} /\ Follow(s)' => Follow(Idle)'
      BY DEF Follow, Idle
    <3>. QED
      BY <2>3, <3>1 DEF Quiet
  <2>. QED
    BY <1>2, <2>2, <2>4, <2>5, <2>6 DEF DocTurnInv
<1>. QED
  BY <1>1, <1>2

\* A request that only reads
LEMMA DocReads ==
    ASSUME DocTurn, NEW h \in Requests, Running(h), NEW s, Moves(h, s),
           s.step \notin {"idle", "start"}, UNCHANGED dvars, DocRequestOK(h, s),
           ~overlapped' => DocWaits(h, s), Undisturbed' => Follow(s)
    PROVE  DocTurnInv'
<1>1. UNCHANGED <<files, cloud, cvs, written>> /\ DocInv
  BY DocFound DEF dvars
<1>2. DocInv'
  BY <1>1, DocSame DEF DocTurn
<1>3. ~overlapped' => DeletedAgrees' /\ DocWaits(h, s)'
  BY <1>1, DocFound DEF DeletedAgrees, DocWaits, Deleted
<1>4. Undisturbed' => Follow(s)'
  <2>1. Follow(s) => Follow(s)'
    BY <1>1 DEF Follow, Deleted
  <2>. QED
    BY <2>1
<1>. QED
  BY <1>2, <1>3, <1>4, DocMoves

\* What no step waits for holds before and after.
LEMMA FollowOn ==
    ASSUME NEW r, NEW s, Follow(r), r.step \notin {"file", "mark", "destroy"} PROVE Follow(s)
BY DEF Follow

LEMMA DocEnds ==
    ASSUME DocTurn, NEW h \in Requests, Running(h), End(h), UNCHANGED dvars,
           handler[h].step \notin {"file", "mark", "destroy"}
    PROVE  DocTurnInv'
<1>1. PICK s : Moves(h, s) /\ s.op = handler[h].op /\ s.step = "done"
  BY DocFound, Ends
<1>2. DocRequestOK(h, s) /\ DocWaits(h, s)
  BY <1>1, DoneNeedsNothing DEF DocWaits
<1>3. Undisturbed' => Follow(s)
  BY DocFound, FollowOn
<1>. QED
  BY <1>1, <1>2, <1>3, DocReads

LEMMA DocFaultTurn ==
    ASSUME DocTurn, NEW h \in Requests, DocumentsFault(h) PROVE DocTurnInv'
<1>1. /\ faults' = faults + 1 /\ faults \in Nat /\ UNCHANGED dvars
      /\ Fault(h) \/ (At(h, "uploadFile", "uploaded") /\ handler' = [handler EXCEPT ![h].step = "failed"])
  BY DEF DocumentsFault, Fault, DocTurn, DocTurnInv, DocInv
<1>2. ~Undisturbed' /\ Running(h)
  BY <1>1 DEF Undisturbed, Fault, At, Running
<1>3. Shape
  BY <1>2, DocFound
<1>4. CASE Fault(h)
  <2>1. PICK s : Moves(h, s) /\ s.op = handler[h].op /\ s.step = "done"
    BY <1>3, <1>4, Ends
  <2>2. DocRequestOK(h, s) /\ DocWaits(h, s)
    BY <2>1, DoneNeedsNothing DEF DocWaits
  <2>. QED
    BY <1>1, <1>2, <2>1, <2>2, DocReads
<1>5. CASE At(h, "uploadFile", "uploaded") /\ handler' = [handler EXCEPT ![h].step = "failed"]
  <2>1. PICK s : s = Request("uploadFile", "failed", handler[h].arg, handler[h].mem)
    OBVIOUS
  <2>2. Moves(h, s) /\ s.op = "uploadFile" /\ s.step = "failed"
    BY <1>3, <1>5, <2>1 DEF Moves, Shape, Request, At
  <2>3. DocRequestOK(h, s)
    BY <1>2, <1>5, <2>2, DocFound DEF DocRequestOK, At
  <2>4. ~overlapped' => DocWaits(h, s)
    BY <1>2, <1>5, <2>2, DocFound DEF DocWaits, At
  <2>. QED
    BY <1>1, <1>2, <2>2, <2>3, <2>4, DocReads
<1>. QED
  BY <1>1, <1>4, <1>5

LEMMA DocAskedTurn ==
    ASSUME DocTurn, NEW h \in Requests, DocumentsRequest(h) PROVE DocTurnInv'
<1>1. DocInv' /\ handler[h].step = "idle" /\ UNCHANGED <<files, cloud, cvs, written>>
  BY DocAsked DEF DocTurn, DocTurnInv, dvars
<1>2. PICK s : Moves(h, s) /\ s.step = "start"
  BY DocAsked DEF DocTurn, DocTurnInv
<1>3. ~overlapped' => ~overlapped
  BY TurnBefore DEF DocTurn
<1>4. Undisturbed' => Undisturbed
  BY <1>3 DEF Undisturbed, DocTurn, DocTurnInv, DocInv
<1>5. ~overlapped' => DeletedAgrees' /\ DocWaits(h, s)'
  BY <1>1, <1>2, <1>3 DEF DocTurn, DocTurnInv, DeletedAgrees, DocWaits
<1>6. Undisturbed' => Follow(s)'
  <2> SUFFICES ASSUME Undisturbed' PROVE Follow(s)'
    OBVIOUS
  <2>1. OneAtWork /\ ~overlapped'
    BY <1>4 DEF DocTurn, DocTurnInv, Undisturbed
  <2>2. \A g \in Requests \ {h} : ~Running(g)
    BY <1>2, <2>1, MovesAlone DEF DocTurn
  <2>3. Follow(Idle)
    BY <1>1, <1>4, <2>2 DEF DocTurn, DocTurnInv, Quiet, Running
  <2>. QED
    BY <1>1, <2>3 DEF Follow, Idle, Deleted
<1>. QED
  BY <1>1, <1>2, <1>5, <1>6, DocMoves

\* Steps of a request that write nothing
LEMMA DocReadingSteps ==
    ASSUME DocTurn, NEW h \in Requests, Running(h),
           \/ UploadFails(h) \/ ReadUpdated(h) \/ ReadDeleted(h) \/ CheckFile(h) \/ ReadCV(h)
           \/ ReadFileOfCV(h)
    PROVE  DocTurnInv'
<1>1. /\ Shape /\ FileRows /\ CVRows /\ DocRequestOK(h, handler[h])
      /\ ~overlapped' => DocWaits(h, handler[h])
      /\ Undisturbed' => Follow(handler[h])
  BY DocFound DEF DocInv
<1>2. PICK kept : kept = handler[h].mem
  OBVIOUS
<1>3. UNCHANGED dvars
  BY DEF UploadFails, ReadUpdated, ReadDeleted, CheckFile, ReadCV, ReadFileOfCV
<1>4. CASE UploadFails(h)
  <2>1. PICK s : Moves(h, s) /\ s.op = handler[h].op /\ s.step = "failed"
    BY <1>1, <1>2, <1>4, GoesOn DEF UploadFails
  <2>2. handler[h].op = "uploadFile" /\ handler[h].step = "upload"
    BY <1>4 DEF UploadFails, At
  <2>3. DocRequestOK(h, s)
    BY <1>1, <2>1, <2>2 DEF DocRequestOK
  <2>4. ~overlapped' => DocWaits(h, s)
    BY <1>1, <2>1, <2>2 DEF DocWaits
  <2>5. Undisturbed' => Follow(s)
    BY <1>1, <2>2, FollowOn
  <2>. QED
    BY <1>3, <2>1, <2>3, <2>4, <2>5, DocReads
<1>5. CASE ReadUpdated(h)
  <2>1. PICK s : /\ Moves(h, s) /\ s.op = handler[h].op /\ s.step = "write"
                 /\ s.arg = handler[h].arg
    BY <1>1, <1>2, <1>5, GoesOn DEF ReadUpdated
  <2>2. handler[h].op = "updateFile" /\ handler[h].step = "start"
    BY <1>5 DEF ReadUpdated, At
  <2>3. DocRequestOK(h, s)
    BY <1>1, <2>1, <2>2 DEF DocRequestOK
  <2>4. DocWaits(h, s)
    BY <2>1 DEF DocWaits
  <2>5. Undisturbed' => Follow(s)
    BY <1>1, <2>2, FollowOn
  <2>. QED
    BY <1>3, <2>1, <2>3, <2>4, <2>5, DocReads
\* The row of a file is read to delete it.
<1>6. ASSUME NEW id, HasFile(id), Keep(h, "mark", File(id)), NEW s, Moves(h, s), s.op = handler[h].op,
             s.step = "mark", s.mem = File(id)
      PROVE  DocRequestOK(h, s) /\ DocWaits(h, s) /\ s.mem.id = id
  <2>1. /\ s.mem \in files /\ s.mem.id = id
        /\ \A f \in files : f.id = id => f = s.mem
    BY <1>1, <1>6, FileIs
  <2>2. DocRequestOK(h, s)
    BY <1>6, <2>1 DEF DocRequestOK
  <2>3. DocWaits(h, s)
    BY <1>6, <2>1 DEF DocWaits
  <2>. QED
    BY <2>1, <2>2, <2>3
<1>7. CASE ReadDeleted(h)
  <2>1. /\ handler[h].op = "deleteFile" /\ handler[h].step = "start"
        /\ Keep(h, "mark", File(handler[h].arg)) /\ HasFile(handler[h].arg)
    BY <1>1, <1>7 DEF ReadDeleted, At, Arg, DocRequestOK
  <2>2. PICK id, mem : id = handler[h].arg /\ mem = File(id)
    OBVIOUS
  <2>3. Keep(h, "mark", mem) /\ Keep(h, "mark", File(id)) /\ HasFile(id)
    BY <2>1, <2>2
  <2>4. PICK s : Moves(h, s) /\ s.op = handler[h].op /\ s.step = "mark" /\ s.mem = mem
    BY <1>1, <2>3, GoesOn
  <2>5. DocRequestOK(h, s) /\ DocWaits(h, s)
    BY <1>6, <2>2, <2>3, <2>4
  <2>6. Undisturbed' => Follow(s)
    BY <1>1, <2>1, FollowOn
  <2>. QED
    BY <1>3, <2>4, <2>5, <2>6, DocReads
<1>8. CASE ReadFileOfCV(h)
  <2>1. /\ handler[h].op = "deleteCV" /\ handler[h].step = "file"
        /\ Keep(h, "mark", File(handler[h].mem.file)) /\ HasFile(handler[h].mem.file)
    BY <1>1, <1>8 DEF ReadFileOfCV, At, Mem, DocRequestOK
  <2>2. PICK id, mem : id = handler[h].mem.file /\ mem = File(id)
    OBVIOUS
  <2>3. Keep(h, "mark", mem) /\ Keep(h, "mark", File(id)) /\ HasFile(id)
    BY <2>1, <2>2
  <2>4. PICK s : Moves(h, s) /\ s.op = handler[h].op /\ s.step = "mark" /\ s.mem = mem
    BY <1>1, <2>3, GoesOn
  <2>5. DocRequestOK(h, s) /\ DocWaits(h, s) /\ s.mem.id = id
    BY <1>6, <2>2, <2>3, <2>4
  <2>6. Undisturbed' => Follow(s)
    BY <1>1, <2>1, <2>2, <2>4, <2>5 DEF Follow
  <2>. QED
    BY <1>3, <2>4, <2>5, <2>6, DocReads
<1>9. CASE End(h)
  <2>1. handler[h].step \notin {"file", "mark", "destroy"} \/ ReadFileOfCV(h)
    BY DEF UploadFails, ReadUpdated, ReadDeleted, CheckFile, ReadCV, At
  <2>. QED
    BY <1>3, <1>8, <1>9, <2>1, DocEnds
<1>10. CASE CheckFile(h) /\ ~End(h)
  <2>1. handler[h].op = "uploadCV" /\ handler[h].step = "start" /\ Goto(h, "insert")
    BY <1>10 DEF CheckFile, Check, At
  <2>2. PICK s : Moves(h, s) /\ s.op = handler[h].op /\ s.step = "insert" /\ s.arg = handler[h].arg
    BY <1>1, <1>2, <2>1, GoesOn
  <2>3. DocRequestOK(h, s) /\ DocWaits(h, s)
    BY <1>1, <2>1, <2>2 DEF DocRequestOK, DocWaits
  <2>4. Undisturbed' => Follow(s)
    BY <1>1, <2>1, FollowOn
  <2>. QED
    BY <1>3, <2>2, <2>3, <2>4, DocReads
<1>11. CASE ReadCV(h) /\ ~End(h)
  <2>1. handler[h].op = "deleteCV" /\ handler[h].step = "start" /\ \E c \in cvs : Keep(h, "softDelete", c)
    BY <1>11 DEF ReadCV, At
  <2>2. PICK c \in cvs : Keep(h, "softDelete", c)
    BY <2>1
  <2>3. PICK s : Moves(h, s) /\ s.op = handler[h].op /\ s.step = "softDelete" /\ s.mem = c
    BY <1>1, <2>2, GoesOn
  <2>4. DocRequestOK(h, s) /\ DocWaits(h, s)
    BY <1>1, <2>1, <2>3 DEF DocRequestOK, DocWaits, CVRows
  <2>5. Undisturbed' => Follow(s)
    BY <1>1, <2>1, FollowOn
  <2>. QED
    BY <1>3, <2>3, <2>4, <2>5, DocReads
<1>. QED
  BY <1>4, <1>5, <1>7, <1>8, <1>9, <1>10, <1>11

\* The rows of files that a request inserts
LEMMA InsertFiles ==
    ASSUME DocTurn, NEW h \in Requests, Running(h), InsertFile(h) \/ InsertPending(h)
    PROVE  DocTurnInv'
<1>1. /\ DocInv /\ Shape /\ (~overlapped' => DeletedAgrees)
      /\ Undisturbed' => Follow(handler[h])
  BY DocFound
<1>2. PICK type, publicId :
          /\ publicId # "name" /\ files' = files \cup {FileRow(h, type, publicId)}
          /\ UNCHANGED <<cloud, cvs, written>> /\ handler[h].step = "start"
  <2>1. PICK t : t = Arg(h)
    OBVIOUS
  <2>2. CASE InsertFile(h)
    <3>1. files' = files \cup {FileRow(h, t, "none")} /\ UNCHANGED <<cloud, cvs, written>> /\ handler[h].step = "start"
      BY <2>1, <2>2 DEF InsertFile, At
    <3>. QED
      BY <3>1
  <2>3. CASE InsertPending(h)
    <3>1. /\ files' = files \cup {FileRow(h, "document", "bare")} /\ UNCHANGED <<cloud, cvs, written>>
          /\ handler[h].step = "start"
      BY <2>3 DEF InsertPending, At
    <3>. QED
      BY <3>1
  <2>. QED
    BY <2>2, <2>3
<1>3. /\ Remains /\ FileRows' /\ CVRows' /\ HasFile(h)' /\ ~Deleted(h)' /\ ~HasFile(h)
      /\ \A f \in files' : f \in files \/ (f.id = h /\ f.status = "uploading")
  BY <1>1, <1>2, FileAdded
<1>4. PICK kept : kept = handler[h].mem
  OBVIOUS
<1>5. PICK s : /\ Moves(h, s) /\ s.op = handler[h].op
               /\ s.step = IF InsertFile(h) THEN "upload" ELSE "done"
  BY <1>1, <1>4, GoesOn, Ends DEF InsertFile, InsertPending
<1>6. DocRequestOK(h, s)'
  BY <1>3, <1>5 DEF DocRequestOK
<1>7. \A f \in files' : HasFile(f.id) \/ (f.id = h /\ s.step \notin {"idle", "start"})
  BY <1>3, <1>5 DEF HasFile
<1>8. faults' \in Nat
  BY DEF DocTurn
<1>9. DocInv'
  BY <1>1, <1>3, <1>5, <1>6, <1>7, <1>8, DocKeeps
<1>10. ~overlapped' => DeletedAgrees' /\ DocWaits(h, s)'
  <2>1. \A f \in files' : f \in files \/ (f.status = "uploading" /\ ~f.isDeleted)
    BY <1>3 DEF Deleted
  <2>2. ~overlapped' => DeletedAgrees'
    BY <1>1, <1>2, <2>1 DEF DeletedAgrees
  <2>3. DocWaits(h, s)'
    BY <1>3, <1>5 DEF DocWaits
  <2>. QED
    BY <2>2, <2>3
<1>11. Undisturbed' => Follow(s)'
  BY <1>1, <1>2, <1>3 DEF Follow, Remains
<1>. QED
  BY <1>5, <1>9, <1>10, <1>11, DocMoves

\* A row of a file is saved.
LEMMA DocSaves ==
    ASSUME DocTurn, NEW h \in Requests, Running(h), NEW s, Moves(h, s), s.step \notin {"idle", "start"},
           NEW id, HasFile(id), NEW g, IsFile(g), g.id = id,
           written' \in {written, written \cup {id}},
           Deleted(id) \/ g.status = "deleted" => g.isDeleted \/ id \in written',
           g.publicId = "name" => Safe(id) \/ id \in written',
           g.status \in {"uploaded", "ready"} => g.publicId = "name" \/ id \in written',
           files' = WithFile(g), UNCHANGED <<cloud, cvs>>,
           DocRequestOK(h, s)', ~overlapped' => DocWaits(h, s)',
           ~overlapped' /\ g.isDeleted => g.status \in {"deleted", "ready"} \/ id \in written',
           handler[h].step \notin {"file", "destroy"},
           handler[h].step = "mark" => id = handler[h].mem.id /\ g.isDeleted,
           g.status = "deleted" => id \in written' \/ (s.step = "destroy" /\ id = s.mem.id)
    PROVE  DocTurnInv'
<1>1. /\ DocInv /\ (~overlapped' => DeletedAgrees)
      /\ Undisturbed' => Follow(handler[h])
  BY DocFound
<1>2. /\ Remains /\ FileRows' /\ CVRows'
      /\ \A f \in files' : f = g \/ (f \in files /\ f.id # id)
      /\ \A f \in files' : HasFile(f.id)
      /\ g.isDeleted => Deleted(id)'
  BY <1>1, FileSaved
<1>3. faults' \in Nat
  BY DEF DocTurn
<1>4. DocInv'
  BY <1>1, <1>2, <1>3, DocKeeps
<1>5. ~overlapped' => DeletedAgrees'
  <2> SUFFICES ASSUME ~overlapped', NEW f \in files'
               PROVE  /\ f.status = "deleted" => f.isDeleted \/ f.id \in written'
                      /\ f.isDeleted => f.status \in {"deleted", "ready"} \/ f.id \in written'
    BY DEF DeletedAgrees
  <2>1. CASE f = g
    BY <2>1
  <2>2. CASE f \in files /\ f.id # id
    BY <1>1, <2>2 DEF DeletedAgrees
  <2>. QED
    BY <1>2, <2>1, <2>2
<1>6. Undisturbed' => Follow(s)'
  <2> SUFFICES ASSUME Undisturbed' PROVE Follow(s)'
    OBVIOUS
  <2>1. Follow(handler[h])
    BY <1>1
  <2>2. ASSUME NEW c \in cvs, c.isDeleted PROVE Deleted(c.file)'
    BY <1>2, <2>1, <2>2 DEF Follow, Remains
  <2>3. ASSUME NEW f \in files', f.status = "deleted", Destroyable(f)
        PROVE  f.id \notin cloud \/ f.id \in written' \/ (s.step = "destroy" /\ f.id = s.mem.id)
    BY <1>2, <2>1, <2>3 DEF Follow, Remains
  <2>. QED
    BY <2>2, <2>3 DEF Follow
<1>. QED
  BY <1>4, <1>5, <1>6, DocMoves

LEMMA DocSavingSteps ==
    ASSUME DocTurn, NEW h \in Requests, Running(h),
           MarkUploaded(h) \/ MarkFailed(h) \/ WriteUpdated(h) \/ MarkDeleted(h)
    PROVE  DocTurnInv'
<1>1. /\ Shape /\ DocInv /\ FileRows /\ DocRequestOK(h, handler[h])
      /\ ~overlapped' => DocWaits(h, handler[h])
  BY DocFound DEF DocInv
<1>2. PICK kept : kept = handler[h].mem
  OBVIOUS
<1>3. ASSUME End(h) PROVE \E s : /\ Moves(h, s) /\ s.step = "done"
                                 /\ DocRequestOK(h, s)' /\ DocWaits(h, s)'
  <2>1. PICK s : Moves(h, s) /\ s.step = "done"
    BY <1>1, <1>3, Ends
  <2>2. DocRequestOK(h, s)' /\ DocWaits(h, s)'
    BY <2>1 DEF DocRequestOK, DocWaits
  <2>. QED
    BY <2>1, <2>2
<1>4. CASE MarkUploaded(h)
  <2>1. /\ handler[h].op = "uploadFile" /\ handler[h].step = "uploaded" /\ End(h)
        /\ HasFile(h) /\ Safe(h) /\ (~overlapped' => ~Deleted(h)) /\ UNCHANGED <<cloud, cvs, written>>
    BY <1>1, <1>4 DEF MarkUploaded, At, DocRequestOK, DocWaits
  <2>2. PICK g : /\ g = [File(h) EXCEPT !.status = "uploaded", !.publicId = "name"]
                 /\ IsFile(g) /\ g.id = h /\ g.status = "uploaded" /\ g.publicId = "name"
                 /\ g.isDeleted = File(h).isDeleted
    BY <1>1, <2>1, UploadedFile, Zenon
  <2>3. files' = WithFile(g)
    BY <1>4, <2>2 DEF MarkUploaded
  <2>4. Deleted(h) <=> (g.isDeleted \/ h \in written)
    BY <1>1, <2>1, <2>2, FileIs
  <2>5. PICK s : Moves(h, s) /\ s.step = "done" /\ DocRequestOK(h, s)' /\ DocWaits(h, s)'
    BY <1>3, <2>1
  <2>. QED
    BY <2>1, <2>2, <2>3, <2>4, <2>5, DocSaves
<1>5. CASE MarkFailed(h)
  <2>1. /\ handler[h].op = "uploadFile" /\ handler[h].step = "failed" /\ End(h)
        /\ HasFile(h) /\ (~overlapped' => ~Deleted(h)) /\ UNCHANGED <<cloud, cvs, written>>
    BY <1>1, <1>5 DEF MarkFailed, At, DocRequestOK, DocWaits
  <2>2. PICK g : /\ g = [File(h) EXCEPT !.status = "failed"]
                 /\ IsFile(g) /\ g.id = h /\ g.status = "failed" /\ g.publicId = File(h).publicId
                 /\ g.isDeleted = File(h).isDeleted
    BY <1>1, <1>2, <2>1, FailedFile
  <2>3. files' = WithFile(g)
    BY <1>5, <2>2 DEF MarkFailed
  <2>4. (Deleted(h) <=> (g.isDeleted \/ h \in written)) /\ (g.publicId = "name" => Safe(h))
    BY <1>1, <2>1, <2>2, FileIs DEF FileRows
  <2>5. PICK s : Moves(h, s) /\ s.step = "done" /\ DocRequestOK(h, s)' /\ DocWaits(h, s)'
    BY <1>3, <2>1
  <2>. QED
    BY <2>1, <2>2, <2>3, <2>4, <2>5, DocSaves
<1>6. CASE WriteUpdated(h)
  <2>1. PICK arg, id, c : arg = handler[h].arg /\ id = arg.id /\ c = arg.change
    OBVIOUS
  <2>2. /\ handler[h].op = "updateFile" /\ handler[h].step = "write" /\ End(h)
        /\ HasFile(id) /\ AnswerOK(arg) /\ UNCHANGED <<cloud, cvs>>
        /\ written' = IF arg.answered THEN written ELSE written \cup {id}
    BY <1>1, <1>6, <2>1 DEF WriteUpdated, At, DocRequestOK, Arg
  <2>3. PICK g : /\ g = Updated(File(id), c) /\ IsFile(g) /\ g.id = id
                 /\ c \in Answers => /\ g.status = "ready" /\ g.publicId = c.publicId
                                     /\ g.isDeleted = File(id).isDeleted
    BY <1>1, <2>2, UpdatedFile
  <2>4. files' = WithFile(g)
    BY <1>6, <2>1, <2>3 DEF WriteUpdated, Arg
  <2>5. Deleted(id) <=> (File(id).isDeleted \/ id \in written)
    BY <1>1, <2>2, FileIs
  <2>6. PICK s : Moves(h, s) /\ s.step = "done" /\ DocRequestOK(h, s)' /\ DocWaits(h, s)'
    BY <1>3, <2>2
  <2>7. CASE arg.answered
    <3>1. /\ written' = written /\ c \in Answers /\ c.publicId = "name" /\ Safe(id)
      BY <2>1, <2>2, <2>7 DEF AnswerOK
    <3>2. g.status = "ready" /\ g.publicId = "name" /\ g.isDeleted = File(id).isDeleted
      BY <2>3, <3>1
    <3>. QED
      BY <2>2, <2>3, <2>4, <2>5, <2>6, <3>1, <3>2, DocSaves
  <2>8. CASE ~arg.answered
    <3>1. written' = written \cup {id}
      BY <2>2, <2>8
    <3>. QED
      BY <2>2, <2>3, <2>4, <2>6, <3>1, DocSaves
  <2>. QED
    BY <2>7, <2>8
<1>7. CASE MarkDeleted(h)
  <2>1. PICK id : id = handler[h].mem.id
    OBVIOUS
  <2>2. /\ handler[h].step = "mark" /\ Goto(h, "destroy") /\ HasFile(id) /\ UNCHANGED <<cloud, cvs, written>>
    BY <1>1, <1>7, <2>1 DEF MarkDeleted, DocRequestOK
  <2>3. PICK g : /\ g = DeletedFile(id) /\ IsFile(g) /\ g.id = id /\ g.status = "deleted"
                 /\ g.publicId = File(id).publicId /\ g.type = File(id).type /\ g.isDeleted
    BY <1>1, <1>2, <2>2, DeletedFileIs
  <2>4. files' = WithFile(g)
    BY <1>7, <2>1, <2>3 DEF MarkDeleted, Mem
  <2>5. g.publicId = "name" => Safe(id)
    <3>1. File(id) \in files /\ File(id).id = id
      BY <1>1, <2>2, FileIs
    <3>. QED
      BY <1>1, <2>3, <3>1 DEF FileRows
  <2>6. PICK s : Moves(h, s) /\ s.op = handler[h].op /\ s.step = "destroy" /\ s.mem = handler[h].mem
    BY <1>1, <1>2, <2>2, GoesOn
  <2>7. \A f \in files' : f = g \/ f.id # id
    BY <2>4, <2>3 DEF WithFile
  <2>8. g \in files'
    BY <2>4 DEF WithFile
  <2>9. DocRequestOK(h, s)'
    BY <2>1, <2>3, <2>6, <2>8 DEF DocRequestOK, HasFile, Deleted
  <2>10. ~overlapped' => DocWaits(h, s)'
    <3>1. ~overlapped' => File(id).type = s.mem.type /\ File(id).publicId = s.mem.publicId
      BY <1>1, <2>1, <2>2, <2>6, FileIs DEF DocWaits
    <3>. QED
      BY <2>1, <2>3, <2>6, <2>7, <3>1 DEF DocWaits
  <2>. QED
    BY <2>1, <2>2, <2>3, <2>4, <2>5, <2>6, <2>9, <2>10, DocSaves
<1>. QED
  BY <1>4, <1>5, <1>6, <1>7

\* Objects come, and go with files that are deleted.
LEMMA CloudMoves ==
    ASSUME DocInv, UNCHANGED <<files, cvs, written>>, \A id \in cloud \ cloud' : Deleted(id)
    PROVE  /\ Remains /\ FileRows' /\ CVRows' /\ (DeletedAgrees => DeletedAgrees')
           /\ \A f \in files' : HasFile(f.id)
<1>1. Remains
  BY DEF Remains, HasFile, Safe, Deleted
<1>2. FileRows' /\ CVRows'
  BY <1>1 DEF DocInv, FileRows, CVRows, Remains
<1>. QED
  BY <1>1, <1>2 DEF HasFile, DeletedAgrees

LEMMA UploadTurn ==
    ASSUME DocTurn, NEW h \in Requests, Running(h), Upload(h) PROVE DocTurnInv'
<1>1. /\ Shape /\ DocInv /\ FileRows /\ DocRequestOK(h, handler[h])
      /\ ~overlapped' => DeletedAgrees /\ DocWaits(h, handler[h])
      /\ Undisturbed' => Follow(handler[h])
  BY DocFound DEF DocInv
<1>2. /\ handler[h].op = "uploadFile" /\ handler[h].step = "upload" /\ cloud' = cloud \cup {h}
      /\ UNCHANGED <<files, cvs, written>>
  BY DEF Upload, At
<1>3. /\ Remains /\ FileRows' /\ CVRows' /\ (DeletedAgrees => DeletedAgrees')
      /\ \A f \in files' : HasFile(f.id)
  BY <1>1, <1>2, CloudMoves
<1>4. PICK kept : kept = handler[h].mem
  OBVIOUS
<1>5. PICK s : Moves(h, s) /\ s.op = "uploadFile" /\ s.step = "uploaded"
  BY <1>1, <1>2, <1>4, GoesOn DEF Upload
<1>6. HasFile(h) /\ (~overlapped' => ~Deleted(h))
  BY <1>1, <1>2 DEF DocRequestOK, DocWaits
<1>7. DocRequestOK(h, s)'
  BY <1>2, <1>3, <1>5, <1>6 DEF DocRequestOK, Remains, Safe
<1>8. faults' \in Nat
  BY DEF DocTurn
<1>9. DocInv'
  BY <1>1, <1>3, <1>5, <1>7, <1>8, DocKeeps
<1>10. ~overlapped' => DocWaits(h, s)'
  BY <1>2, <1>5, <1>6 DEF DocWaits, Deleted
<1>11. Undisturbed' => Follow(s)'
  <2> SUFFICES ASSUME Undisturbed' PROVE Follow(s)'
    OBVIOUS
  <2>1. Follow(handler[h]) /\ ~Deleted(h)
    BY <1>1, <1>6 DEF Undisturbed
  <2>2. \A f \in files : f.status = "deleted" => f.id # h
    BY <1>1, <2>1 DEF FileRows, Deleted
  <2>. QED
    BY <1>2, <1>3, <2>1, <2>2 DEF Follow, Remains
<1>. QED
  BY <1>1, <1>3, <1>5, <1>9, <1>10, <1>11, DocMoves

\* A failure to destroy is counted.
LEMMA DestroyTurn ==
    ASSUME DocTurn, NEW h \in Requests, Running(h), Destroy(h) PROVE DocTurnInv'
<1>1. /\ Shape /\ DocInv /\ FileRows /\ DocRequestOK(h, handler[h])
      /\ ~overlapped' => DeletedAgrees /\ DocWaits(h, handler[h])
      /\ Undisturbed' => Follow(handler[h])
  BY DocFound DEF DocInv
<1>2. PICK mem : mem = handler[h].mem
  OBVIOUS
<1>3. /\ handler[h].step = "destroy" /\ UNCHANGED <<files, cvs, written>>
      /\ cloud' = cloud \ Destroyed(mem) \/ cloud' = cloud
      /\ faults' = IF cloud' = cloud /\ Destroyed(mem) \cap cloud # {} THEN faults + 1 ELSE faults
      /\ handler' = [handler EXCEPT ![h] = Answered(h)]
  BY <1>2 DEF Destroy, Mem
<1>4. Deleted(mem.id) /\ Destroyed(mem) \subseteq {mem.id}
  BY <1>1, <1>2, <1>3 DEF DocRequestOK, Destroyed
<1>5. /\ Remains /\ FileRows' /\ CVRows' /\ (DeletedAgrees => DeletedAgrees')
      /\ \A f \in files' : HasFile(f.id)
  BY <1>1, <1>3, <1>4, CloudMoves
<1>6. PICK s : s = Request(handler[h].op, "done", "none", "nothing")
  OBVIOUS
<1>7. Moves(h, s) /\ s.step = "done"
  <2>1. handler' = [handler EXCEPT ![h] = s]
    BY <1>3, <1>6, AnswerIs
  <2>. QED
    BY <1>1, <1>6, <2>1 DEF Shape, Moves, Request
<1>8. DocRequestOK(h, s)' /\ DocWaits(h, s)'
  BY <1>7 DEF DocRequestOK, DocWaits
<1>9. faults' \in Nat
  BY DEF DocTurn
<1>10. DocInv'
  BY <1>1, <1>5, <1>7, <1>8, <1>9, DocKeeps
<1>11. Undisturbed' => Follow(s)'
  <2> SUFFICES ASSUME Undisturbed' PROVE Follow(s)'
    OBVIOUS
  <2>1. Follow(handler[h]) /\ DocWaits(h, handler[h])
    BY <1>1 DEF Undisturbed
  <2>2. cloud' = cloud \ Destroyed(mem)
    <3>1. faults' = 0 /\ faults \in Nat
      BY <1>1 DEF Undisturbed, DocInv
    <3>2. ~(cloud' = cloud /\ Destroyed(mem) \cap cloud # {})
      BY <1>3, <3>1
    <3>. QED
      BY <1>3, <3>2
  <2>3. ASSUME NEW f \in files, f.status = "deleted", Destroyable(f)
        PROVE  f.id \notin cloud' \/ f.id \in written
    <3>1. CASE f.id = mem.id
      <4>1. Destroyable(mem)
        BY <1>2, <1>3, <2>1, <2>3, <3>1 DEF DocWaits, Destroyable
      <4>. QED
        BY <2>2, <3>1, <4>1 DEF Destroyed
    <3>2. CASE f.id # mem.id
      BY <1>2, <1>3, <2>1, <2>3, <3>2 DEF Follow
    <3>. QED
      BY <3>1, <3>2
  <2>4. ASSUME NEW c \in cvs, c.isDeleted PROVE Deleted(c.file)'
    BY <1>3, <1>5, <2>1, <2>4 DEF Follow, Remains
  <2>. QED
    BY <1>3, <2>3, <2>4 DEF Follow
<1>. QED
  BY <1>1, <1>5, <1>7, <1>8, <1>10, <1>11, DocMoves

\* Rows of CVs
LEMMA CVsTurn ==
    ASSUME DocTurn, NEW h \in Requests, Running(h), InsertCV(h) \/ SoftDeleteCV(h)
    PROVE  DocTurnInv'
<1>1. /\ Shape /\ DocInv /\ CVRows /\ DocRequestOK(h, handler[h])
      /\ ~overlapped' => DeletedAgrees
      /\ Undisturbed' => Follow(handler[h])
  BY DocFound DEF DocInv
<1>2. PICK kept, arg : kept = handler[h].mem /\ arg = handler[h].arg
  OBVIOUS
<1>3. UNCHANGED <<files, cloud, written>>
  BY DEF InsertCV, SoftDeleteCV
\* Either way there is a row more, or one is replaced.
<1>4. ASSUME NEW c, IsCV(c), HasFile(c.file), \A d \in cvs' : d \in cvs \/ d = c,
             NEW s, Moves(h, s), s.step \notin {"idle", "start", "mark", "destroy"}, DocRequestOK(h, s),
             handler[h].step \notin {"file", "mark", "destroy"},
             s.op = "uploadFile" => s.step = "done",
             c.isDeleted => s.step = "file" /\ c.file = s.mem.file
      PROVE  DocTurnInv'
  <2>1. CVRows'
    BY <1>1, <1>3, <1>4 DEF CVRows, HasFile
  <2>2. faults' \in Nat
    BY DEF DocTurn
  <2>3. DocInv'
    BY <1>1, <1>3, <1>4, <2>1, <2>2, DocSame
  <2>4. ~overlapped' => DeletedAgrees' /\ DocWaits(h, s)'
    BY <1>1, <1>3, <1>4 DEF DeletedAgrees, DocWaits
  <2>5. Undisturbed' => Follow(s)'
    BY <1>1, <1>3, <1>4 DEF Follow, Deleted
  <2>. QED
    BY <1>4, <2>3, <2>4, <2>5, DocMoves
<1>5. CASE InsertCV(h)
  <2>1. PICK c : c = [id |-> h, file |-> arg, isDeleted |-> FALSE]
    OBVIOUS
  <2>2. IsCV(c) /\ c.file = arg /\ ~c.isDeleted /\ cvs' = cvs \cup {c} /\ End(h)
    BY <1>2, <1>5, <2>1 DEF InsertCV, IsCV, Arg
  <2>3. HasFile(arg) /\ handler[h].step = "insert"
    BY <1>1, <1>2, <1>5 DEF InsertCV, At, DocRequestOK
  <2>4. PICK s : Moves(h, s) /\ s.step = "done"
    BY <1>1, <2>2, Ends
  <2>5. DocRequestOK(h, s)
    BY <2>4, DoneNeedsNothing
  <2>. QED
    BY <1>4, <2>2, <2>3, <2>4, <2>5
<1>6. CASE SoftDeleteCV(h)
  <2>1. PICK c : c = [kept EXCEPT !.isDeleted = TRUE]
    OBVIOUS
  <2>2. /\ handler[h].op = "deleteCV" /\ handler[h].step = "softDelete" /\ IsCV(kept) /\ HasFile(kept.file)
    BY <1>1, <1>2, <1>6 DEF SoftDeleteCV, At, DocRequestOK
  <2>3. IsCV(c) /\ c.file = kept.file
    BY <2>1, <2>2 DEF IsCV
  <2>4. \A d \in cvs' : d \in cvs \/ d = c
    BY <1>2, <1>6, <2>1 DEF SoftDeleteCV, Mem
  <2>5. PICK s : Moves(h, s) /\ s.op = "deleteCV" /\ s.step = "file" /\ s.mem = kept
    BY <1>1, <1>2, <1>6, <2>2, GoesOn DEF SoftDeleteCV
  <2>6. DocRequestOK(h, s)
    BY <2>2, <2>5 DEF DocRequestOK
  <2>. QED
    BY <1>4, <2>2, <2>3, <2>4, <2>5, <2>6
<1>. QED
  BY <1>5, <1>6

\* A client uploads by a signed URL, which is no request.
LEMMA ClientTurn ==
    ASSUME DocTurnInv, Turns, NEW f \in files, ClientUploads(f) PROVE DocTurnInv'
<1>1. UNCHANGED <<handler, faults, files, cvs, written>> /\ cloud' = cloud \cup {f.id} /\ f.publicId # "name"
  BY DEF ClientUploads, svars, Pending
<1>2. ~overlapped' => ~overlapped
  BY TurnBefore
<1>3. Remains /\ FileRows' /\ CVRows' /\ (DeletedAgrees => DeletedAgrees')
  BY <1>1, CloudMoves DEF DocTurnInv
<1>4. DocInv'
  <2>1. Shape' /\ FilesMade'
    BY <1>1 DEF DocTurnInv, DocInv, Shape, FilesMade
  <2>2. \A h \in Requests : DocRequestOK(h, handler[h])'
    BY <1>1, <1>3 DEF DocTurnInv, DocInv, DocRequestOK, AnswerOK, Remains
  <2>. QED
    BY <1>1, <1>3, <2>1, <2>2 DEF DocTurnInv, DocInv
<1>5. \A h, r : DocWaits(h, r) => DocWaits(h, r)'
  BY <1>1 DEF DocWaits, Deleted
<1>6. \A r : Follow(r) => Follow(r)'
  <2>1. \A g \in files : Destroyable(g) => g.id # f.id
    BY <1>1 DEF DocTurnInv, DocInv, FileRows, Destroyable
  <2>. QED
    BY <1>1, <2>1 DEF Follow, Deleted
<1>. QED
  BY <1>1, <1>2, <1>3, <1>4, <1>5, <1>6 DEF DocTurnInv, Undisturbed, OneAtWork, Running, Quiet

LEMMA DocInit == SInit /\ DocumentsInit => DocTurnInv
<1> SUFFICES ASSUME SInit, DocumentsInit PROVE DocTurnInv
  OBVIOUS
<1>1. \A h \in Requests : ~Running(h) /\ handler[h].step = "idle" /\ handler[h].op = "none"
  BY DEF SInit, Idle, Running
<1>2. DocInv
  <2>1. \A h \in Requests : DocRequestOK(h, handler[h])
    BY <1>1, DoneNeedsNothing
  <2>. QED
    BY <2>1, ShapeInit DEF DocInv, FileRows, FilesMade, CVRows, DocumentsInit, SInit
<1>3. Follow(Idle) /\ DeletedAgrees
  BY DEF Follow, DocumentsInit, DeletedAgrees
<1>. QED
  BY <1>1, <1>2, <1>3 DEF DocTurnInv, OneAtWork

LEMMA DocNext == DocTurnInv /\ [DocumentsNext /\ Turns]_<<svars, dvars, overlapped>> => DocTurnInv'
<1> SUFFICES ASSUME DocTurnInv, [DocumentsNext /\ Turns]_<<svars, dvars, overlapped>> PROVE DocTurnInv'
  OBVIOUS
<1>1. CASE UNCHANGED <<svars, dvars, overlapped>>
  <2>1. UNCHANGED <<handler, faults, files, cloud, cvs, written, overlapped>>
    BY <1>1 DEF svars, dvars
  <2>2. DocInv'
    BY <2>1 DEF DocTurnInv, DocInv, Shape, FileRows, FilesMade, CVRows, DocRequestOK, AnswerOK,
                   HasFile, Safe, Deleted
  <2>3. (\A h, r : DocWaits(h, r) => DocWaits(h, r)') /\ (\A r : Follow(r) => Follow(r)')
    BY <2>1 DEF DocWaits, Follow, Deleted
  <2>. QED
    BY <2>1, <2>2, <2>3 DEF DocTurnInv, Undisturbed, OneAtWork, Running, Quiet, DeletedAgrees
<1>2. ASSUME NEW f \in files, ClientUploads(f), Turns PROVE DocTurnInv'
  BY <1>2, ClientTurn
<1>3. ASSUME NEW h \in Requests, DocumentsRequest(h), Turns PROVE DocTurnInv'
  <2>1. UNCHANGED faults
    BY <1>3 DEF DocumentsRequest, Ask
  <2>2. DocTurn
    BY <1>3, <2>1 DEF DocTurn, DocTurnInv, DocInv
  <2>. QED
    BY <1>3, <2>2, DocAskedTurn
<1>4. ASSUME NEW h \in Requests, DocumentsFault(h), Turns PROVE DocTurnInv'
  <2>1. faults' = faults + 1
    BY <1>4 DEF DocumentsFault, Fault
  <2>2. DocTurn
    BY <1>4, <2>1 DEF DocTurn, DocTurnInv, DocInv
  <2>. QED
    BY <1>4, <2>2, DocFaultTurn
<1>5. ASSUME NEW h \in Requests, DocumentsStep(h), Turns PROVE DocTurnInv'
  <2>1. faults \in Nat
    BY DEF DocTurnInv, DocInv
  <2>2. faults' = faults \/ faults' = faults + 1
    <3>1. CASE Destroy(h)
      BY <3>1 DEF Destroy
    <3>2. CASE ~Destroy(h)
      BY <1>5, <3>2 DEF DocumentsStep, InsertFile, Upload, UploadFails, MarkUploaded, MarkFailed,
             InsertPending, ReadUpdated, WriteUpdated, ReadDeleted, MarkDeleted, CheckFile, InsertCV, ReadCV,
             SoftDeleteCV, ReadFileOfCV, Check, Keep, Goto, End
    <3>. QED
      BY <3>1, <3>2
  <2>3. Running(h)
    BY <1>5 DEF DocumentsStep, InsertFile, Upload, UploadFails, MarkUploaded, MarkFailed,
           InsertPending, ReadUpdated, WriteUpdated, ReadDeleted, MarkDeleted, Destroy, CheckFile, InsertCV,
           ReadCV, SoftDeleteCV, ReadFileOfCV, At, Running
  <2>4. DocTurn
    BY <1>5, <2>1, <2>2 DEF DocTurn
  <2>. QED
    BY <1>5, <2>3, <2>4, InsertFiles, DocReadingSteps, DocSavingSteps, UploadTurn, DestroyTurn, CVsTurn
       DEF DocumentsStep
<1>. QED
  BY <1>1, <1>2, <1>3, <1>4, <1>5 DEF DocumentsNext

\* Of the files that no client wrote as it liked, one that is shown has its object
\* whatever overlaps or fails; of requests that waited for each other such a file is
\* deleted when its status says so and, with no failing query, the file of a deleted CV is
\* deleted, and the object of a deleted image is gone (uploadFile, updateFile, deleteFile,
\* deleteCV).
THEOREM DocumentsAreSound == DocumentsTurns => []DocumentsSound
<1>1. DocTurnInv => DocumentsSound
  <2> SUFFICES ASSUME DocTurnInv PROVE DocumentsSound
    OBVIOUS
  <2>1. FileRows /\ CVRows
    BY DEF DocTurnInv, DocInv
  <2>2. ShownIsStored
    BY <2>1 DEF FileRows, ShownIsStored, Safe, Deleted
  <2>3. Follow(Idle) => ImagesGo
    BY DEF Follow, ImagesGo, Idle
  <2>4. Follow(Idle) => CVGoesWithFile
    <3> SUFFICES ASSUME Follow(Idle), NEW c \in cvs, c.isDeleted PROVE File(c.file).isDeleted \/ c.file \in written
      BY DEF CVGoesWithFile
    <3>1. Deleted(c.file) /\ HasFile(c.file)
      BY <2>1 DEF Follow, Idle, CVRows
    <3>. QED
      BY <2>1, <3>1, FileIs
  <2>. QED
    BY <2>2, <2>3, <2>4 DEF DocTurnInv, DocumentsSound
<1>. QED
  BY <1>1, DocInit, DocNext, PTL DEF DocumentsTurns

-----------------------------------------------------------------------------
(* Alerts *)

ChannelRows == [Channels -> BOOLEAN]

IsToken(t) == t = [id |-> t.id, token |-> t.token, device |-> t.device, active |-> t.active]

TokenRows ==
    /\ \A t \in tokens : IsToken(t)
    /\ \A t, u \in tokens : t.id = u.id => t = u

\* A token is inserted by the last step of its request.
TokensMade == \A t \in tokens : t.id \in Requests /\ handler[t.id].step = "done"

\* Once something is chosen there are preferences, and they stay.
PreferenceRows ==
    /\ preferences = NoPreferences \/ preferences \in ChannelRows
    /\ chosen \in [Channels -> SUBSET BOOLEAN]
    /\ \A c \in Channels : chosen[c] # {} => preferences \in ChannelRows

Updaters == {h \in Requests : handler[h].op = "updatePreferences"}

NothingChosen == \A c \in Channels : chosen[c] = {}

\* An update that is the only one stands as soon as it is saved.
UpdatesCounted ==
    /\ updates \in Nat
    /\ updates = 0 => Updaters = {} /\ NothingChosen
    /\ updates = 1 => /\ \A g, h \in Updaters : g = h
                      /\ \A h \in Updaters : handler[h].step # "done" => NothingChosen
                      /\ ChoiceStands

AlertRequestOK(h, s) ==
    /\ s.step = "insert" => s.op \in {"register", "getPreferences", "updatePreferences", "notify"}
    /\ s.step = "save" => s.op \in {"updatePreferences", "registerPushToken"}
    /\ s.op = "updatePreferences" /\ s.step = "save" => s.mem \in ChannelRows
    /\ s.op = "updatePreferences" /\ s.step \notin {"idle", "done"} =>
           s.arg.channel \in Channels /\ s.arg.wants \in BOOLEAN
    /\ s.op = "registerPushToken" /\ s.step = "save" => s.mem = h \/ \E t \in tokens : t.id = s.mem
    /\ s.step = "deactivate" => \A r \in s.mem : \E t \in tokens : t.id = r.id /\ t.token = r.token
    /\ s.step = "queue" => /\ s.op \in {"alert", "notify"}
                           /\ s.mem.left \subseteq Channels /\ s.mem.left # {}

\* What holds whatever overlaps or fails.
AlertsInv ==
    /\ Shape /\ faults \in Nat
    /\ TokenRows /\ TokensMade /\ PreferenceRows /\ UpdatesCounted
    /\ \A h \in Requests : AlertRequestOK(h, handler[h])

\* What the only request at work has read is so; the device that it registers is free,
\* and so is its token, unless there is a row of it to be saved again.
AlertWaits(h, r) ==
    /\ r.op = "updatePreferences" /\ r.step = "save" => r.mem = preferences
    /\ r.op = "alert" /\ r.step = "queue" => r.mem.left \subseteq Wanted(preferences)
    /\ r.op = "registerPushToken" /\ r.step \in {"find", "save"} /\ r.arg.device # NoDevice =>
           \A t \in tokens : t.active => t.device # r.arg.device
    /\ r.op = "registerPushToken" /\ r.step = "save" =>
           IF r.mem = h THEN \A t \in tokens : t.active => t.token # r.arg.token
           ELSE \A t \in tokens : t.id = r.mem => t.active /\ t.token = r.arg.token

AlertsInTurn == ChoiceStands /\ AlertsAreWanted /\ TokensAreSingle /\ RegisteredIsActive

\* The inductive invariant.
AlertsTurnInv ==
    /\ AlertsInv
    /\ ~overlapped => /\ OneAtWork /\ AlertsInTurn
                      /\ \A h \in Requests : Running(h) => AlertWaits(h, handler[h])

AlertTurn == AlertsTurnInv /\ Turns /\ faults' \in Nat

\* No token goes.
TokensStay == \A t \in tokens : \E u \in tokens' : u.id = t.id /\ u.token = t.token

LEMMA AlertFound ==
    ASSUME AlertTurn, NEW h \in Requests, Running(h)
    PROVE  /\ Shape /\ AlertsInv /\ AlertRequestOK(h, handler[h])
           /\ TokenRows /\ TokensMade /\ PreferenceRows /\ UpdatesCounted
           /\ ~overlapped' => AlertsInTurn /\ AlertWaits(h, handler[h])
           /\ handler[h].step \notin {"idle", "done"}
<1>1. ~overlapped' => ~overlapped
  BY TurnBefore DEF AlertTurn
<1>. QED
  BY <1>1 DEF AlertTurn, AlertsTurnInv, AlertsInv, Running

LEMMA AlertMoves ==
    ASSUME AlertTurn, NEW h \in Requests, NEW s, Moves(h, s), handler[h].step # "done",
           Running(h) \/ s.step \notin {"idle", "done"},
           TokenRows', PreferenceRows', UpdatesCounted', AlertRequestOK(h, s)', TokensStay,
           \A t \in tokens' : (\E u \in tokens : u.id = t.id) \/ (t.id = h /\ s.step = "done"),
           ~overlapped' => AlertsInTurn' /\ AlertWaits(h, s)'
    PROVE  AlertsTurnInv'
<1>1. TokensMade'
  <2> SUFFICES ASSUME NEW t \in tokens' PROVE t.id \in Requests /\ handler'[t.id].step = "done"
    BY DEF TokensMade
  <2>1. CASE t.id = h /\ s.step = "done"
    BY <2>1 DEF Moves
  <2>2. CASE \E u \in tokens : u.id = t.id
    <3>1. t.id \in Requests /\ handler[t.id].step = "done"
      BY <2>2 DEF AlertTurn, AlertsTurnInv, AlertsInv, TokensMade
    <3>. QED
      BY <3>1 DEF Moves
  <2>. QED
    BY <2>1, <2>2
<1>2. ASSUME NEW g \in Requests PROVE AlertRequestOK(g, handler[g])'
  <2>1. CASE g = h
    BY <2>1 DEF Moves, AlertRequestOK
  <2>2. CASE g # h
    <3>1. handler'[g] = handler[g] /\ AlertRequestOK(g, handler[g])
      BY <2>2 DEF Moves, AlertTurn, AlertsTurnInv, AlertsInv
    <3>. QED
      BY <3>1 DEF AlertRequestOK, TokensStay
  <2>. QED
    BY <2>1, <2>2
<1>3. AlertsInv'
  BY <1>1, <1>2 DEF AlertsInv, Moves, AlertTurn
<1>4. CASE overlapped'
  BY <1>3, <1>4 DEF AlertsTurnInv
<1>5. CASE ~overlapped'
  <2>1. ~overlapped
    BY <1>5, TurnBefore DEF AlertTurn
  <2>2. OneAtWork' /\ \A g \in Requests \ {h} : ~Running(g)'
    BY <1>5, <2>1, MovesAlone DEF AlertTurn, AlertsTurnInv
  <2>3. AlertWaits(h, s)' => AlertWaits(h, handler[h])'
    BY DEF Moves, AlertWaits
  <2>. QED
    BY <1>3, <1>5, <2>2, <2>3 DEF AlertsTurnInv
<1>. QED
  BY <1>4, <1>5

\* No update is asked for, or saved.
LEMMA UpdatesStay ==
    ASSUME UpdatesCounted, NEW h \in Requests, NEW s, Moves(h, s), s.op = handler[h].op,
           handler[h].step # "done", UNCHANGED <<updates, chosen>>, ChoiceStands => ChoiceStands'
    PROVE  UpdatesCounted'
<1>1. Updaters' = Updaters
  BY DEF Updaters, Moves
<1>2. \A g \in Updaters : handler'[g].step # "done" => handler[g].step # "done"
  BY DEF Updaters, Moves
<1>3. NothingChosen' = NothingChosen
  BY DEF NothingChosen
<1>. QED
  BY <1>1, <1>2, <1>3 DEF UpdatesCounted

\* A request that writes no preferences and no token
LEMMA AlertGoes ==
    ASSUME AlertTurn, NEW h \in Requests, Running(h), NEW s, Moves(h, s), s.op = handler[h].op,
           UNCHANGED <<preferences, tokens, chosen, updates, registered>>,
           AlertRequestOK(h, s), ~overlapped' => AlertsAreWanted' /\ AlertWaits(h, s)
    PROVE  AlertsTurnInv'
<1>1. /\ TokenRows /\ PreferenceRows /\ UpdatesCounted /\ handler[h].step # "done"
      /\ ~overlapped' => AlertsInTurn
  BY AlertFound
<1>2. ChoiceStands => ChoiceStands'
  BY DEF ChoiceStands
<1>3. UpdatesCounted'
  BY <1>1, <1>2, UpdatesStay
<1>4. TokenRows' /\ PreferenceRows' /\ TokensStay /\ AlertRequestOK(h, s)'
  BY <1>1 DEF TokenRows, PreferenceRows, TokensStay, AlertRequestOK
<1>5. ~overlapped' => AlertsInTurn' /\ AlertWaits(h, s)'
  BY <1>1 DEF AlertsInTurn, ChoiceStands, TokensAreSingle, RegisteredIsActive, AlertWaits, Wanted
<1>. QED
  BY <1>1, <1>3, <1>4, <1>5, AlertMoves

LEMMA AlertEnds ==
    ASSUME AlertTurn, NEW h \in Requests, Running(h), End(h) \/ Fault(h), UNCHANGED avars
    PROVE  AlertsTurnInv'
<1>1. PICK s : Moves(h, s) /\ s.op = handler[h].op /\ s.step = "done"
  BY AlertFound, Ends
<1>2. AlertRequestOK(h, s) /\ AlertWaits(h, s)
  BY <1>1 DEF AlertRequestOK, AlertWaits
<1>3. ~overlapped' => AlertsAreWanted'
  BY AlertFound DEF AlertsInTurn, AlertsAreWanted, avars
<1>. QED
  BY <1>1, <1>2, <1>3, AlertGoes DEF avars

LEMMA AlertAsked ==
    ASSUME AlertTurn, NEW h \in Requests, AlertsRequest(h) PROVE AlertsTurnInv'
<1>1. PICK op, arg : /\ Ask(h, op, arg)
                     /\ IF op = "updatePreferences"
                        THEN arg.channel \in Channels /\ arg.wants \in BOOLEAN /\ updates' = updates + 1
                        ELSE updates' = updates
  <2>1. CASE \E c \in Channels, w \in BOOLEAN :
                 Ask(h, "updatePreferences", [channel |-> c, wants |-> w]) /\ updates' = updates + 1
    <3>1. PICK c \in Channels, w \in BOOLEAN :
              Ask(h, "updatePreferences", [channel |-> c, wants |-> w]) /\ updates' = updates + 1
      BY <2>1
    <3>2. PICK arg : arg = [channel |-> c, wants |-> w]
      OBVIOUS
    <3>3. arg.channel \in Channels /\ arg.wants \in BOOLEAN /\ Ask(h, "updatePreferences", arg)
      BY <3>1, <3>2
    <3>. QED
      BY <3>1, <3>3
  <2>2. CASE \E op \in {"register", "getPreferences", "notify", "alert", "push", "registerPushToken"} :
                 \E arg : Ask(h, op, arg) /\ updates' = updates
    BY <2>2
  <2>. QED
    BY <2>1, <2>2 DEF AlertsRequest, avars
<1>2. PICK s : s = Request(op, "start", arg, "nothing")
  OBVIOUS
<1>3. /\ Moves(h, s) /\ handler[h].step = "idle" /\ s.step = "start" /\ s.op = op /\ s.arg = arg
      /\ UNCHANGED <<preferences, tokens, queued, chosen, registered>>
  BY <1>1, <1>2, AskMoves DEF AlertTurn, AlertsTurnInv, AlertsInv, Request, AlertsRequest, avars
<1>4. TokenRows /\ PreferenceRows /\ UpdatesCounted
  BY DEF AlertTurn, AlertsTurnInv, AlertsInv
<1>5. TokenRows' /\ PreferenceRows' /\ TokensStay
  BY <1>3, <1>4 DEF TokenRows, PreferenceRows, TokensStay
<1>6. AlertRequestOK(h, s)' /\ AlertWaits(h, s)'
  BY <1>1, <1>3 DEF AlertRequestOK, AlertWaits
<1>7. UpdatesCounted'
  <2>1. NothingChosen' = NothingChosen /\ ChoiceStands' = ChoiceStands
    BY <1>3 DEF NothingChosen, ChoiceStands
  <2>2. CASE op = "updatePreferences"
    <3>0. Updaters' \subseteq Updaters \cup {h}
      BY <1>3 DEF Updaters, Moves
    <3>1. Updaters' \subseteq Updaters \cup {h} /\ updates' = updates + 1 /\ updates \in Nat
      BY <1>1, <1>4, <2>2, <3>0 DEF UpdatesCounted
    <3>2. updates' \in Nat /\ updates' # 0 /\ (updates' = 1 => updates = 0)
      BY <3>1
    <3>3. NothingChosen => ChoiceStands
      BY DEF NothingChosen, ChoiceStands
    <3>. QED
      BY <1>4, <2>1, <3>1, <3>2, <3>3 DEF UpdatesCounted
  <2>3. CASE op # "updatePreferences"
    <3>1. Updaters' \subseteq Updaters /\ updates' = updates
      BY <1>1, <1>3, <2>3 DEF Updaters, Moves
    <3>2. \A g \in Updaters' : handler'[g].step # "done" => handler[g].step # "done"
      BY <1>3 DEF Updaters, Moves
    <3>. QED
      BY <1>4, <2>1, <3>1, <3>2 DEF UpdatesCounted
  <2>. QED
    BY <2>2, <2>3
<1>8. ~overlapped' => AlertsInTurn'
  <2>1. ~overlapped' => AlertsInTurn
    BY TurnBefore DEF AlertTurn, AlertsTurnInv
  <2>. QED
    BY <1>3, <2>1 DEF AlertsInTurn, ChoiceStands, AlertsAreWanted, TokensAreSingle, RegisteredIsActive
<1>. QED
  BY <1>3, <1>5, <1>6, <1>7, <1>8, AlertMoves

\* A request that has found or inserted the preferences
LEMMA FoundMoves ==
    ASSUME Shape, NEW h \in Requests, AlertRequestOK(h, handler[h]), Running(h),
           NEW row \in ChannelRows, Found(h, row),
           handler[h].op \in {"register", "getPreferences", "updatePreferences", "notify"}
    PROVE  \E s : /\ Moves(h, s) /\ s.op = handler[h].op /\ AlertRequestOK(h, s)
                  /\ preferences' = row => AlertWaits(h, s)'
<1>1. CASE handler[h].op = "updatePreferences"
  <2>1. PICK s : /\ Moves(h, s) /\ s.op = handler[h].op /\ s.step = "save"
                 /\ s.arg = handler[h].arg /\ s.mem = row
    BY <1>1, GoesOn DEF Found
  <2>2. AlertRequestOK(h, s)
    BY <1>1, <2>1 DEF AlertRequestOK, Running
  <2>3. preferences' = row => AlertWaits(h, s)'
    BY <1>1, <2>1 DEF AlertWaits
  <2>. QED
    BY <2>1, <2>2, <2>3
<1>2. CASE handler[h].op = "notify"
  <2>1. PICK mem : mem = [left |-> Channels]
    OBVIOUS
  <2>2. PICK s : /\ Moves(h, s) /\ s.op = handler[h].op /\ s.step = "queue"
                 /\ s.arg = handler[h].arg /\ s.mem = mem
    BY <1>2, <2>1, GoesOn DEF Found, SelectChannels
  <2>3. AlertRequestOK(h, s) /\ AlertWaits(h, s)'
    BY <1>2, <2>1, <2>2 DEF AlertRequestOK, AlertWaits, Channels
  <2>. QED
    BY <2>2, <2>3
<1>3. CASE handler[h].op \in {"register", "getPreferences"}
  <2>1. PICK s : Moves(h, s) /\ s.op = handler[h].op /\ s.step = "done"
    BY <1>3, Ends DEF Found
  <2>2. AlertRequestOK(h, s) /\ AlertWaits(h, s)'
    BY <2>1 DEF AlertRequestOK, AlertWaits
  <2>. QED
    BY <2>1, <2>2
<1>. QED
  BY <1>1, <1>2, <1>3

LEMMA FindPreferencesKeeps ==
    ASSUME AlertTurn, NEW h \in Requests, FindPreferences(h) PROVE AlertsTurnInv'
<1>1. Running(h) /\ handler[h].op \in {"register", "getPreferences", "updatePreferences", "notify"}
  BY DEF FindPreferences, Running
<1>2. /\ Shape /\ AlertRequestOK(h, handler[h]) /\ PreferenceRows
      /\ ~overlapped' => AlertsAreWanted
  BY <1>1, AlertFound DEF AlertsInTurn
<1>3. UNCHANGED <<preferences, tokens, chosen, updates, registered>> /\ AlertsAreWanted' = AlertsAreWanted
  BY DEF FindPreferences, avars, AlertsAreWanted
<1>4. CASE preferences = NoPreferences
  <2>1. PICK kept : kept = handler[h].mem
    OBVIOUS
  <2>2. PICK s : /\ Moves(h, s) /\ s.op = handler[h].op /\ s.step = "insert"
                 /\ s.arg = handler[h].arg /\ s.mem = kept
    BY <1>2, <1>4, <2>1, GoesOn DEF FindPreferences
  <2>3. AlertRequestOK(h, s) /\ AlertWaits(h, s)
    BY <1>1, <1>2, <2>2 DEF AlertRequestOK, AlertWaits, Running
  <2>. QED
    BY <1>1, <1>2, <1>3, <2>2, <2>3, AlertGoes
<1>5. CASE preferences # NoPreferences
  <2>1. preferences \in ChannelRows /\ Found(h, preferences)
    BY <1>2, <1>5 DEF PreferenceRows, FindPreferences
  <2>2. PICK s : /\ Moves(h, s) /\ s.op = handler[h].op /\ AlertRequestOK(h, s)
                 /\ AlertWaits(h, s)'
    BY <1>1, <1>2, <1>3, <2>1, FoundMoves
  <2>3. AlertWaits(h, s)
    BY <1>3, <2>2 DEF AlertWaits, Wanted
  <2>. QED
    BY <1>1, <1>2, <1>3, <2>2, <2>3, AlertGoes
<1>. QED
  BY <1>4, <1>5

\* Nothing was chosen as long as there are no preferences.
LEMMA InsertPreferencesKeeps ==
    ASSUME AlertTurn, NEW h \in Requests, InsertPreferences(h) PROVE AlertsTurnInv'
<1>1. Running(h) /\ handler[h].step # "done"
  BY DEF InsertPreferences, Running
<1>2. /\ Shape /\ AlertRequestOK(h, handler[h]) /\ TokenRows /\ PreferenceRows /\ UpdatesCounted
      /\ ~overlapped' => AlertsInTurn
  BY <1>1, AlertFound
<1>3. handler[h].op \in {"register", "getPreferences", "updatePreferences", "notify"}
  BY <1>2 DEF AlertRequestOK, InsertPreferences
<1>4. PICK row \in ChannelRows : row = Defaults(handler[h].op)
  <2>1. Everything \in ChannelRows /\ NoAlerts \in ChannelRows
    BY DEF ChannelRows, Everything, NoAlerts
  <2>2. Defaults(handler[h].op) \in {Everything, NoAlerts}
    BY DEF Defaults
  <2>. QED
    BY <2>1, <2>2
<1>5. preferences' = row /\ Found(h, row) /\ UNCHANGED <<tokens, queued, chosen, updates, registered>>
  BY <1>4 DEF InsertPreferences
<1>6. PICK s : /\ Moves(h, s) /\ s.op = handler[h].op /\ AlertRequestOK(h, s) /\ AlertWaits(h, s)'
  BY <1>1, <1>2, <1>3, <1>5, FoundMoves
<1>7. \A c \in Channels : chosen[c] = {}
  BY <1>2, AlertsAssumption DEF PreferenceRows, ChannelRows, Channels, InsertPreferences
<1>8. ChoiceStands' /\ UpdatesCounted'
  <2>1. ChoiceStands'
    BY <1>5, <1>7 DEF ChoiceStands
  <2>. QED
    BY <1>1, <1>2, <1>5, <1>6, <2>1, UpdatesStay
<1>9. TokenRows' /\ PreferenceRows' /\ TokensStay /\ AlertRequestOK(h, s)'
  BY <1>2, <1>5, <1>6 DEF TokenRows, PreferenceRows, TokensStay, AlertRequestOK
<1>10. ~overlapped' => AlertsInTurn'
  BY <1>2, <1>5, <1>8 DEF AlertsInTurn, AlertsAreWanted, TokensAreSingle, RegisteredIsActive
<1>. QED
  BY <1>1, <1>5, <1>6, <1>8, <1>9, <1>10, AlertMoves

LEMMA SavePreferencesKeeps ==
    ASSUME AlertTurn, NEW h \in Requests, SavePreferences(h) PROVE AlertsTurnInv'
<1>1. /\ Running(h) /\ handler[h].op = "updatePreferences" /\ handler[h].step = "save" /\ End(h)
      /\ UNCHANGED <<tokens, queued, updates, registered>>
  BY DEF SavePreferences, Running, At
<1>2. /\ Shape /\ AlertRequestOK(h, handler[h]) /\ TokenRows /\ PreferenceRows /\ UpdatesCounted
      /\ ~overlapped' => AlertsInTurn /\ AlertWaits(h, handler[h])
  BY <1>1, AlertFound
<1>3. PICK c \in Channels, w \in BOOLEAN, row \in ChannelRows :
          c = handler[h].arg.channel /\ w = handler[h].arg.wants /\ row = handler[h].mem
  BY <1>1, <1>2 DEF AlertRequestOK
<1>4. /\ preferences' = [row EXCEPT ![c] = w] /\ chosen' = [chosen EXCEPT ![c] = {w}]
      /\ chosen \in [Channels -> SUBSET BOOLEAN]
  BY <1>2, <1>3 DEF SavePreferences, Mem, Arg, PreferenceRows
<1>5. /\ preferences' \in ChannelRows /\ preferences'[c] = w
      /\ \A d \in Channels \ {c} : preferences'[d] = row[d]
  BY <1>3, <1>4 DEF ChannelRows
<1>6. /\ chosen' \in [Channels -> SUBSET BOOLEAN] /\ chosen'[c] = {w}
      /\ \A d \in Channels \ {c} : chosen'[d] = chosen[d]
  BY <1>3, <1>4
<1>7. PICK s : Moves(h, s) /\ s.op = handler[h].op /\ s.step = "done"
  BY <1>1, <1>2, Ends
<1>8. UpdatesCounted'
  <2>1. h \in Updaters /\ updates \in Nat /\ updates # 0
    BY <1>1, <1>2 DEF Updaters, UpdatesCounted
  <2>2. ASSUME updates = 1
        PROVE  /\ \A g, k \in Updaters' : g = k
               /\ \A g \in Updaters' : handler'[g].step = "done"
               /\ ChoiceStands'
    <3>1. Updaters' = Updaters /\ \A g \in Updaters : g = h
      BY <1>2, <1>7, <2>1, <2>2 DEF Updaters, Moves, UpdatesCounted
    <3>2. handler'[h].step = "done"
      BY <1>7 DEF Moves
    <3>3. NothingChosen
      BY <1>1, <1>2, <2>1, <2>2 DEF UpdatesCounted
    <3>4. ChoiceStands'
      BY <1>5, <1>6, <3>3 DEF ChoiceStands, NothingChosen
    <3>. QED
      BY <3>1, <3>2, <3>4
  <2>. QED
    BY <1>1, <2>1, <2>2 DEF UpdatesCounted
<1>9. TokenRows' /\ PreferenceRows' /\ TokensStay /\ AlertRequestOK(h, s)' /\ AlertWaits(h, s)'
  BY <1>1, <1>2, <1>5, <1>6, <1>7 DEF TokenRows, PreferenceRows, TokensStay, AlertRequestOK, AlertWaits
<1>10. ASSUME ~overlapped' PROVE AlertsInTurn'
  <2>1. AlertsInTurn /\ row = preferences
    BY <1>1, <1>2, <1>3, <1>10 DEF AlertWaits
  <2>2. ChoiceStands'
    BY <1>5, <1>6, <2>1 DEF ChoiceStands, AlertsInTurn
  <2>. QED
    BY <1>1, <2>1, <2>2 DEF AlertsInTurn, AlertsAreWanted, TokensAreSingle, RegisteredIsActive
<1>. QED
  BY <1>1, <1>7, <1>8, <1>9, <1>10, AlertMoves

LEMMA ReadSubscriptionKeeps ==
    ASSUME AlertTurn, NEW h \in Requests, ReadSubscription(h) PROVE AlertsTurnInv'
<1>1. Running(h) /\ handler[h].op = "alert" /\ UNCHANGED avars
  BY DEF ReadSubscription, Running, At
<1>2. Shape /\ (~overlapped' => AlertsAreWanted')
  BY <1>1, AlertFound DEF AlertsInTurn, AlertsAreWanted, avars
<1>3. CASE End(h)
  BY <1>1, <1>3, AlertEnds
<1>4. CASE Wanted(preferences) # {} /\ Keep(h, "queue", [left |-> SelectChannels(Wanted(preferences))])
  <2>1. PICK mem : mem = [left |-> Wanted(preferences)]
    OBVIOUS
  <2>2. PICK s : /\ Moves(h, s) /\ s.op = handler[h].op /\ s.step = "queue"
                 /\ s.arg = handler[h].arg /\ s.mem = mem
    BY <1>2, <1>4, <2>1, GoesOn DEF SelectChannels
  <2>3. Wanted(preferences) \subseteq Channels
    BY DEF Wanted
  <2>4. AlertRequestOK(h, s) /\ AlertWaits(h, s)
    BY <1>1, <1>4, <2>1, <2>2, <2>3 DEF AlertRequestOK, AlertWaits
  <2>. QED
    BY <1>1, <1>2, <2>2, <2>4, AlertGoes DEF avars
<1>. QED
  BY <1>3, <1>4 DEF ReadSubscription

\* Sending goes on with fewer channels, or has come to its end.
LEMMA ProceedMoves ==
    ASSUME Shape, NEW h \in Requests, NEW left, Proceed(h, left)
    PROVE  \E s : /\ Moves(h, s) /\ s.op = handler[h].op
                  /\ \/ s.step = "done"
                     \/ s.step = handler[h].step /\ s.mem.left = left /\ left # {}
<1>1. CASE left = {}
  <2>1. PICK s : s = Request(handler[h].op, "done", "none", "nothing")
    OBVIOUS
  <2>2. Moves(h, s)
    BY <1>1, <2>1, AnswerIs DEF Proceed, Moves, Shape, Request
  <2>. QED
    BY <2>1, <2>2 DEF Request
<1>2. CASE left # {}
  <2>1. PICK mem : mem = [left |-> left]
    OBVIOUS
  <2>2. PICK s : s = Request(handler[h].op, handler[h].step, handler[h].arg, mem)
    OBVIOUS
  <2>3. Moves(h, s)
    BY <1>2, <2>1, <2>2 DEF Proceed, Moves, Shape, Request
  <2>. QED
    BY <1>2, <2>1, <2>2, <2>3 DEF Request
<1>. QED
  BY <1>1, <1>2

LEMMA QueueKeeps ==
    ASSUME AlertTurn, NEW h \in Requests, QueueNotification(h) \/ ChannelFails(h) PROVE AlertsTurnInv'
<1>1. /\ Running(h) /\ handler[h].step = "queue" /\ Proceed(h, Rest(Mem(h).left))
      /\ UNCHANGED <<preferences, tokens, chosen, updates, registered>>
  BY DEF QueueNotification, ChannelFails, Running, avars
<1>2. /\ Shape /\ AlertRequestOK(h, handler[h])
      /\ ~overlapped' => AlertsAreWanted /\ AlertWaits(h, handler[h])
  BY <1>1, AlertFound DEF AlertsInTurn
<1>3. PICK left : left = handler[h].mem.left
  OBVIOUS
<1>4. /\ left \subseteq Channels /\ left # {} /\ handler[h].op \in {"alert", "notify"}
      /\ NextChannel(left) \in left /\ Rest(left) \subseteq left /\ Proceed(h, Rest(left))
  BY <1>1, <1>2, <1>3 DEF AlertRequestOK, NextChannel, Rest, Channels, Mem
<1>5. PICK s : /\ Moves(h, s) /\ s.op = handler[h].op
               /\ \/ s.step = "done"
                  \/ s.step = handler[h].step /\ s.mem.left = Rest(left) /\ Rest(left) # {}
  BY <1>2, <1>4, ProceedMoves
<1>6. AlertRequestOK(h, s)
  BY <1>1, <1>4, <1>5 DEF AlertRequestOK
<1>7. ASSUME ~overlapped' PROVE AlertsAreWanted' /\ AlertWaits(h, s)
  <2>1. AlertsAreWanted /\ (handler[h].op = "alert" => left \subseteq Wanted(preferences))
    BY <1>1, <1>2, <1>3, <1>7 DEF AlertWaits
  <2>2. AlertWaits(h, s)
    BY <1>1, <1>4, <1>5, <2>1 DEF AlertWaits
  <2>3. CASE UNCHANGED queued
    BY <2>1, <2>2, <2>3 DEF AlertsAreWanted
  <2>4. CASE QueueNotification(h)
    <3>1. PICK n : n = [by |-> h, op |-> handler[h].op, channel |-> NextChannel(left),
                        wanted |-> NextChannel(left) \in Wanted(preferences)]
      OBVIOUS
    <3>2. queued' = queued \cup {n}
      BY <1>3, <2>4, <3>1 DEF QueueNotification, Mem
    <3>3. n.op = "alert" => n.wanted
      BY <1>4, <2>1, <3>1
    <3>. QED
      BY <2>1, <2>2, <3>2, <3>3 DEF AlertsAreWanted
  <2>. QED
    BY <2>3, <2>4 DEF ChannelFails, avars
<1>. QED
  BY <1>1, <1>5, <1>6, <1>7, AlertGoes

\* Tokens are updated in place.
LEMMA TokensChanged ==
    ASSUME TokenRows, NEW f, tokens' = {f[t] : t \in tokens},
           \A t \in tokens : IsToken(f[t]) /\ f[t].id = t.id /\ f[t].token = t.token
    PROVE  /\ TokenRows' /\ TokensStay
           /\ \A t \in tokens' : \E u \in tokens : u.id = t.id /\ t = f[u]
<1>1. \A t \in tokens' : \E u \in tokens : u.id = t.id /\ t = f[u]
  OBVIOUS
<1>2. \A t \in tokens' : IsToken(t)
  BY <1>1
<1>3. \A t, u \in tokens' : t.id = u.id => t = u
  BY <1>1 DEF TokenRows
<1>. QED
  BY <1>1, <1>2, <1>3 DEF TokenRows, TokensStay

\* A request that writes tokens and no preferences
LEMMA TokenMoves ==
    ASSUME AlertTurn, NEW h \in Requests, Running(h), NEW s, Moves(h, s), s.op = handler[h].op,
           UNCHANGED <<preferences, queued, chosen, updates>>,
           TokenRows', TokensStay, AlertRequestOK(h, s)',
           \A t \in tokens' : (\E u \in tokens : u.id = t.id) \/ (t.id = h /\ s.step = "done"),
           ~overlapped' => TokensAreSingle' /\ RegisteredIsActive' /\ AlertWaits(h, s)'
    PROVE  AlertsTurnInv'
<1>1. /\ PreferenceRows /\ UpdatesCounted /\ handler[h].step # "done"
      /\ ~overlapped' => AlertsInTurn
  BY AlertFound
<1>2. PreferenceRows' /\ (ChoiceStands => ChoiceStands')
  BY <1>1 DEF PreferenceRows, ChoiceStands
<1>3. UpdatesCounted'
  BY <1>1, <1>2, UpdatesStay
<1>4. ~overlapped' => AlertsInTurn'
  BY <1>1, <1>2 DEF AlertsInTurn, AlertsAreWanted
<1>. QED
  BY <1>1, <1>2, <1>3, <1>4, AlertMoves

Inactive(t) == [t EXCEPT !.active = FALSE]

LEMMA InactiveIs ==
    ASSUME NEW t, IsToken(t)
    PROVE  /\ IsToken(Inactive(t)) /\ Inactive(t).id = t.id /\ Inactive(t).token = t.token
           /\ Inactive(t).active = FALSE
<1>1. PICK u : u = [t EXCEPT !.active = FALSE]
  OBVIOUS
<1>2. IsToken(u) /\ u.id = t.id /\ u.token = t.token /\ u.active = FALSE
  BY <1>1 DEF IsToken
<1>. QED
  BY <1>1, <1>2 DEF Inactive

LEMMA ReplaceOnDeviceKeeps ==
    ASSUME AlertTurn, NEW h \in Requests, ReplaceOnDevice(h) PROVE AlertsTurnInv'
<1>1. /\ Running(h) /\ handler[h].op = "registerPushToken" /\ handler[h].step = "start" /\ Goto(h, "find")
      /\ registered' = NoToken /\ UNCHANGED <<preferences, queued, chosen, updates>>
  BY DEF ReplaceOnDevice, Running, At
<1>2. Shape /\ TokenRows /\ (~overlapped' => AlertsInTurn)
  BY <1>1, AlertFound
<1>3. PICK device, kept : device = handler[h].arg.device /\ kept = handler[h].mem
  OBVIOUS
<1>4. PICK f : f = [t \in tokens |-> IF device # NoDevice /\ t.device = device THEN Inactive(t) ELSE t]
  OBVIOUS
<1>5. tokens' = {f[t] : t \in tokens}
  BY <1>3, <1>4 DEF ReplaceOnDevice, Arg, Inactive
<1>6. \A t \in tokens : /\ IsToken(f[t]) /\ f[t].id = t.id /\ f[t].token = t.token
                        /\ f[t].active => f[t] = t /\ (device # NoDevice => t.device # device)
  BY <1>2, <1>4, InactiveIs DEF TokenRows
<1>7. /\ TokenRows' /\ TokensStay
      /\ \A t \in tokens' : \E u \in tokens : u.id = t.id /\ t = f[u]
  BY <1>2, <1>5, <1>6, TokensChanged
<1>8. \A t \in tokens' : t.active => t \in tokens /\ (device # NoDevice => t.device # device)
  BY <1>6, <1>7
<1>9. PICK s : /\ Moves(h, s) /\ s.op = handler[h].op /\ s.step = "find"
               /\ s.arg = handler[h].arg /\ s.mem = kept
  BY <1>1, <1>2, <1>3, GoesOn
<1>10. AlertRequestOK(h, s)' /\ AlertWaits(h, s)'
  BY <1>1, <1>3, <1>8, <1>9 DEF AlertRequestOK, AlertWaits
<1>11. ~overlapped' => TokensAreSingle' /\ RegisteredIsActive'
  BY <1>1, <1>2, <1>8 DEF AlertsInTurn, TokensAreSingle, RegisteredIsActive
<1>. QED
  BY <1>1, <1>7, <1>9, <1>10, <1>11, TokenMoves

LEMMA FindTokenKeeps ==
    ASSUME AlertTurn, NEW h \in Requests, FindToken(h) PROVE AlertsTurnInv'
<1>1. /\ Running(h) /\ handler[h].op = "registerPushToken" /\ handler[h].step = "find" /\ UNCHANGED avars
  BY DEF FindToken, Running, At
<1>2. /\ Shape /\ TokenRows /\ TokensMade
      /\ ~overlapped' => AlertsAreWanted' /\ AlertWaits(h, handler[h])
  BY <1>1, AlertFound DEF AlertsInTurn, AlertsAreWanted, avars
<1>3. PICK same : same = {t \in tokens : t.active /\ t.token = handler[h].arg.token}
  OBVIOUS
<1>4. PICK mem : /\ Keep(h, "save", mem)
                 /\ \/ same = {} /\ mem = h
                    \/ \E t \in same : mem = t.id
  <2>1. IF same = {} THEN Keep(h, "save", h) ELSE \E t \in same : Keep(h, "save", t.id)
    BY <1>3 DEF FindToken, Arg
  <2>. QED
    BY <2>1
<1>5. PICK s : /\ Moves(h, s) /\ s.op = handler[h].op /\ s.step = "save"
               /\ s.arg = handler[h].arg /\ s.mem = mem
  BY <1>2, <1>4, GoesOn
<1>6. AlertRequestOK(h, s)
  BY <1>1, <1>3, <1>4, <1>5 DEF AlertRequestOK
<1>7. ASSUME ~overlapped' PROVE AlertWaits(h, s)
  <2>1. \A t \in tokens : t.id # h
    BY <1>1, <1>2 DEF TokensMade
  <2>2. handler[h].arg.device # NoDevice =>
            \A t \in tokens : t.active => t.device # handler[h].arg.device
    BY <1>1, <1>2, <1>7 DEF AlertWaits
  <2>3. IF mem = h THEN \A t \in tokens : t.active => t.token # handler[h].arg.token
        ELSE \A t \in tokens : t.id = mem => t.active /\ t.token = handler[h].arg.token
    BY <1>2, <1>3, <1>4, <2>1 DEF TokenRows
  <2>. QED
    BY <1>1, <1>5, <2>2, <2>3 DEF AlertWaits
<1>. QED
  BY <1>1, <1>2, <1>5, <1>6, <1>7, AlertGoes DEF avars

\* A row that is saved again as it was read: active
Again(t, device) == [t EXCEPT !.active = TRUE, !.device = IF device = NoDevice THEN @ ELSE device]

LEMMA AgainIs ==
    ASSUME NEW t, NEW device, IsToken(t)
    PROVE  \E u : /\ u = Again(t, device) /\ IsToken(u)
                  /\ u.id = t.id /\ u.token = t.token /\ u.active = TRUE
                  /\ device = NoDevice => u.device = t.device
                  /\ device # NoDevice => u.device = device
<1>1. PICK d : d = IF device = NoDevice THEN t.device ELSE device
  OBVIOUS
<1>2. PICK v, u : v = [t EXCEPT !.active = TRUE] /\ u = [v EXCEPT !.device = d]
  OBVIOUS
<1>3. IsToken(v) /\ v.id = t.id /\ v.token = t.token /\ v.active = TRUE
  BY <1>2 DEF IsToken
<1>4. IsToken(u) /\ u.id = t.id /\ u.token = t.token /\ u.active = TRUE /\ u.device = d
  BY <1>2, <1>3 DEF IsToken
<1>5. u = Again(t, device)
  BY <1>1, <1>2 DEF Again
<1>. QED
  BY <1>1, <1>4, <1>5

LEMMA SaveTokenKeeps ==
    ASSUME AlertTurn, NEW h \in Requests, SaveToken(h) PROVE AlertsTurnInv'
<1>1. /\ Running(h) /\ handler[h].op = "registerPushToken" /\ handler[h].step = "save" /\ End(h)
      /\ registered' = handler[h].arg /\ UNCHANGED <<preferences, queued, chosen, updates>>
  BY Zenon DEF SaveToken, Running, At, Arg
<1>2. /\ Shape /\ TokenRows /\ TokensMade /\ AlertRequestOK(h, handler[h])
      /\ ~overlapped' => AlertsInTurn /\ AlertWaits(h, handler[h])
  BY <1>1, AlertFound
<1>3. PICK device, token, mem : /\ device = handler[h].arg.device /\ token = handler[h].arg.token
                                /\ mem = handler[h].mem
  OBVIOUS
<1>4. PICK s : Moves(h, s) /\ s.op = handler[h].op /\ s.step = "done"
  BY <1>1, <1>2, Ends
<1>5. AlertRequestOK(h, s)' /\ AlertWaits(h, s)'
  BY <1>4 DEF AlertRequestOK, AlertWaits
<1>6. ~overlapped' => /\ TokensAreSingle
                      /\ device # NoDevice => \A t \in tokens : t.active => t.device # device
                      /\ IF mem = h THEN \A t \in tokens : t.active => t.token # token
                         ELSE \A t \in tokens : t.id = mem => t.active /\ t.token = token
  BY <1>1, <1>2, <1>3 DEF AlertsInTurn, AlertWaits
<1>7. registered'.token = token /\ registered'.device = device
  BY <1>1, <1>3
<1>8. CASE mem = h
  <2>1. PICK new : new = [id |-> h, token |-> token, device |-> device, active |-> TRUE]
    OBVIOUS
  <2>2. tokens' = tokens \cup {new}
    BY <1>3, <1>8, <2>1 DEF SaveToken, Mem, Arg
  <2>3. IsToken(new) /\ new.id = h /\ new.token = token /\ new.device = device /\ new.active = TRUE
    BY <2>1 DEF IsToken
  <2>4. \A t \in tokens : t.id # h
    BY <1>1, <1>2 DEF TokensMade
  <2>5. TokenRows' /\ TokensStay
    BY <1>2, <2>2, <2>3, <2>4 DEF TokenRows, TokensStay
  <2>6. \A t \in tokens' : (\E u \in tokens : u.id = t.id) \/ (t.id = h /\ s.step = "done")
    BY <1>4, <2>2, <2>3
  <2>7. ASSUME ~overlapped' PROVE TokensAreSingle'
    BY <1>6, <1>8, <2>2, <2>3, <2>7 DEF TokensAreSingle
  <2>8. RegisteredIsActive'
    BY <1>7, <2>2, <2>3 DEF RegisteredIsActive
  <2>. QED
    BY <1>1, <1>4, <1>5, <2>5, <2>6, <2>7, <2>8, TokenMoves
<1>9. CASE mem # h
  <2>1. PICK f : f = [t \in tokens |-> IF t.id # mem THEN t ELSE Again(t, device)]
    OBVIOUS
  <2>2. tokens' = {f[t] : t \in tokens}
    <3>1. tokens' = {IF t.id # mem THEN t ELSE Again(t, device) : t \in tokens}
      BY <1>3, <1>9, Zenon DEF SaveToken, Mem, Arg, Again
    <3>. QED
      BY <2>1, <3>1
  <2>3. \A t \in tokens :
            /\ IsToken(f[t]) /\ f[t].id = t.id /\ f[t].token = t.token
            /\ t.id # mem => f[t] = t
            /\ t.id = mem => /\ f[t].active = TRUE
                             /\ device = NoDevice => f[t].device = t.device
                             /\ device # NoDevice => f[t].device = device
    <3> SUFFICES ASSUME NEW t \in tokens
                 PROVE  /\ IsToken(f[t]) /\ f[t].id = t.id /\ f[t].token = t.token
                        /\ t.id # mem => f[t] = t
                        /\ t.id = mem => /\ f[t].active = TRUE
                                         /\ device = NoDevice => f[t].device = t.device
                                         /\ device # NoDevice => f[t].device = device
      OBVIOUS
    <3>1. IsToken(t) /\ f[t] = IF t.id # mem THEN t ELSE Again(t, device)
      BY <1>2, <2>1 DEF TokenRows
    <3>2. PICK u : /\ u = Again(t, device) /\ IsToken(u)
                   /\ u.id = t.id /\ u.token = t.token /\ u.active = TRUE
                   /\ device = NoDevice => u.device = t.device
                   /\ device # NoDevice => u.device = device
      BY <3>1, AgainIs
    <3>. QED
      BY <3>1, <3>2
  <2>4. /\ TokenRows' /\ TokensStay
        /\ \A t \in tokens' : \E u \in tokens : u.id = t.id /\ t = f[u]
    BY <1>2, <2>2, <2>3, TokensChanged
  <2>5. PICK o \in tokens : o.id = mem
    BY <1>1, <1>2, <1>3, <1>9 DEF AlertRequestOK
  <2>6. \A t \in tokens : t.id = mem => t = o
    BY <1>2, <2>5 DEF TokenRows
  <2>7. ASSUME ~overlapped' PROVE TokensAreSingle' /\ RegisteredIsActive'
    <3>1. o.active /\ o.token = token /\ f[o] \in tokens'
      BY <1>6, <1>9, <2>2, <2>5, <2>7
    <3>2. \A t \in tokens' : t.active => t = f[o] \/ (t \in tokens /\ t # o)
      BY <2>3, <2>4, <2>6
    <3>3. ASSUME NEW t \in tokens, t.active, t # o
          PROVE  t.token # f[o].token /\ (t.device = f[o].device => t.device = NoDevice)
      <4>1. t.token # o.token /\ (t.device = o.device => t.device = NoDevice)
        BY <1>6, <2>7, <3>1, <3>3 DEF TokensAreSingle
      <4>2. device # NoDevice => t.device # device
        BY <1>6, <2>7, <3>3
      <4>. QED
        BY <2>3, <2>5, <4>1, <4>2
    <3>4. TokensAreSingle'
      BY <1>6, <2>7, <3>2, <3>3 DEF TokensAreSingle
    <3>5. f[o].active /\ f[o].token = token /\ device \in {f[o].device, NoDevice}
      BY <2>3, <2>5, <3>1
    <3>6. RegisteredIsActive'
      BY <1>7, <3>1, <3>5 DEF RegisteredIsActive
    <3>. QED
      BY <3>4, <3>6
  <2>. QED
    BY <1>1, <1>4, <1>5, <2>4, <2>7, TokenMoves
<1>. QED
  BY <1>8, <1>9

LEMMA SendPushKeeps ==
    ASSUME AlertTurn, NEW h \in Requests, SendPush(h) PROVE AlertsTurnInv'
<1>1. Running(h) /\ handler[h].op = "push" /\ UNCHANGED avars
  BY DEF SendPush, Running, At
<1>2. Shape /\ (~overlapped' => AlertsAreWanted')
  BY <1>1, AlertFound DEF AlertsInTurn, AlertsAreWanted, avars
<1>3. CASE End(h)
  BY <1>1, <1>3, AlertEnds
<1>4. CASE \E rejected \in SUBSET {t \in tokens : t.active} : Keep(h, "deactivate", rejected)
  <2>1. PICK rejected \in SUBSET tokens : Keep(h, "deactivate", rejected)
    BY <1>4
  <2>2. PICK s : /\ Moves(h, s) /\ s.op = handler[h].op /\ s.step = "deactivate"
                 /\ s.arg = handler[h].arg /\ s.mem = rejected
    BY <1>2, <2>1, GoesOn
  <2>3. AlertRequestOK(h, s) /\ AlertWaits(h, s)
    BY <1>1, <2>1, <2>2 DEF AlertRequestOK, AlertWaits
  <2>. QED
    BY <1>1, <1>2, <2>2, <2>3, AlertGoes DEF avars
<1>. QED
  BY <1>3, <1>4 DEF SendPush

\* A row of a token that was rejected
Rejected(t, asRead, r) == [t EXCEPT !.active = FALSE, !.device = IF asRead THEN r.device ELSE @]

LEMMA RejectedIs ==
    ASSUME NEW t, IsToken(t), NEW asRead \in BOOLEAN, NEW r
    PROVE  /\ IsToken(Rejected(t, asRead, r))
           /\ Rejected(t, asRead, r).id = t.id /\ Rejected(t, asRead, r).token = t.token
           /\ Rejected(t, asRead, r).active = FALSE
<1>1. PICK d : d = IF asRead THEN r.device ELSE t.device
  OBVIOUS
<1>2. PICK v, u : v = [t EXCEPT !.active = FALSE] /\ u = [v EXCEPT !.device = d]
  OBVIOUS
<1>3. IsToken(v) /\ v.id = t.id /\ v.token = t.token /\ v.active = FALSE
  BY <1>2 DEF IsToken
<1>4. IsToken(u) /\ u.id = t.id /\ u.token = t.token /\ u.active = FALSE
  BY <1>2, <1>3 DEF IsToken
<1>5. u = Rejected(t, asRead, r)
  BY <1>1, <1>2 DEF Rejected
<1>. QED
  BY <1>4, <1>5

LEMMA DeactivateKeeps ==
    ASSUME AlertTurn, NEW h \in Requests, Deactivate(h) PROVE AlertsTurnInv'
<1>1. /\ Running(h) /\ handler[h].op = "push" /\ handler[h].step = "deactivate"
      /\ UNCHANGED <<preferences, queued, chosen, updates>>
  BY Zenon DEF Deactivate, Running, At
<1>2. /\ Shape /\ TokenRows /\ AlertRequestOK(h, handler[h])
      /\ ~overlapped' => AlertsInTurn
  BY <1>1, AlertFound
<1>3. PICK mem : mem = handler[h].mem
  OBVIOUS
<1>4. PICK r \in mem, asRead \in BOOLEAN :
          /\ tokens' = {IF t.id # r.id THEN t ELSE Rejected(t, asRead, r) : t \in tokens}
          /\ registered' = IF r.token = registered.token THEN NoToken ELSE registered
          /\ End(h) \/ Keep(h, "deactivate", mem \ {r})
  <2>1. PICK r \in Mem(h) :
            /\ \E asRead \in BOOLEAN :
                   tokens' = {IF t.id # r.id THEN t ELSE Rejected(t, asRead, r) : t \in tokens}
            /\ registered' = IF r.token = registered.token THEN NoToken ELSE registered
            /\ IF Mem(h) = {r} THEN End(h) ELSE Keep(h, "deactivate", Mem(h) \ {r})
    BY Zenon DEF Deactivate, Rejected
  <2>. QED
    BY <1>3, <2>1 DEF Mem
<1>5. PICK f : f = [t \in tokens |-> IF t.id # r.id THEN t ELSE Rejected(t, asRead, r)]
  OBVIOUS
<1>6. tokens' = {f[t] : t \in tokens}
  BY <1>4, <1>5
<1>7. \A t \in tokens : /\ IsToken(f[t]) /\ f[t].id = t.id /\ f[t].token = t.token
                        /\ f[t].active => f[t] = t
                        /\ t.id # r.id => f[t] = t
  <2> SUFFICES ASSUME NEW t \in tokens
               PROVE  /\ IsToken(f[t]) /\ f[t].id = t.id /\ f[t].token = t.token
                      /\ f[t].active => f[t] = t
                      /\ t.id # r.id => f[t] = t
    OBVIOUS
  <2>1. IsToken(t) /\ f[t] = IF t.id # r.id THEN t ELSE Rejected(t, asRead, r)
    BY <1>2, <1>5 DEF TokenRows
  <2>2. PICK u : u = Rejected(t, asRead, r)
    OBVIOUS
  <2>3. IsToken(u) /\ u.id = t.id /\ u.token = t.token /\ u.active = FALSE
    BY <2>1, <2>2, RejectedIs
  <2>. QED
    BY <2>1, <2>2, <2>3
<1>8. /\ TokenRows' /\ TokensStay
      /\ \A t \in tokens' : \E u \in tokens : u.id = t.id /\ t = f[u]
  BY <1>2, <1>6, <1>7, TokensChanged
<1>9. \A q \in mem : \E t \in tokens : t.id = q.id /\ t.token = q.token
  BY <1>1, <1>2, <1>3 DEF AlertRequestOK
<1>10. PICK s : /\ Moves(h, s) /\ s.op = handler[h].op
                /\ s.step = "done" \/ (s.step = "deactivate" /\ s.mem = mem \ {r})
  <2>1. PICK rest : rest = mem \ {r}
    OBVIOUS
  <2>2. End(h) \/ Keep(h, "deactivate", rest)
    BY <1>4, <2>1
  <2>. QED
    BY <1>2, <2>1, <2>2, Ends, GoesOn
<1>11. AlertRequestOK(h, s)' /\ AlertWaits(h, s)'
  <2>1. \A q \in mem : \E t \in tokens' : t.id = q.id /\ t.token = q.token
    BY <1>8, <1>9 DEF TokensStay
  <2>. QED
    BY <1>1, <1>10, <2>1 DEF AlertRequestOK, AlertWaits
<1>12. ASSUME ~overlapped' PROVE TokensAreSingle' /\ RegisteredIsActive'
  <2>1. TokensAreSingle /\ RegisteredIsActive
    BY <1>2, <1>12 DEF AlertsInTurn
  <2>2. \A t \in tokens' : t.active => t \in tokens
    BY <1>7, <1>8
  <2>3. TokensAreSingle'
    BY <2>1, <2>2 DEF TokensAreSingle
  <2>4. CASE registered' = NoToken
    BY <2>3, <2>4 DEF RegisteredIsActive
  <2>5. CASE registered # NoToken /\ r.token # registered.token
    <3>1. PICK t \in tokens : /\ t.active /\ t.token = registered.token
                              /\ registered.device \in {t.device, NoDevice}
      BY <2>1, <2>5 DEF RegisteredIsActive
    <3>2. t.id # r.id
      BY <1>2, <1>4, <1>9, <2>5, <3>1 DEF TokenRows
    <3>3. t \in tokens' /\ registered' = registered
      BY <1>4, <1>6, <1>7, <2>5, <3>1, <3>2
    <3>. QED
      BY <2>3, <3>1, <3>3 DEF RegisteredIsActive
  <2>. QED
    BY <1>4, <2>3, <2>4, <2>5
<1>. QED
  BY <1>1, <1>8, <1>10, <1>11, <1>12, TokenMoves

LEMMA AlertsStart == SInit /\ AlertsInit /\ overlapped = FALSE => AlertsTurnInv
<1> SUFFICES ASSUME SInit, AlertsInit PROVE AlertsTurnInv
  OBVIOUS
<1>1. \A h \in Requests : handler[h].op = "none" /\ handler[h].step = "idle"
  BY DEF SInit, Idle
<1>2. TokenRows /\ TokensMade /\ PreferenceRows /\ UpdatesCounted
  BY <1>1 DEF AlertsInit, TokenRows, TokensMade, PreferenceRows, UpdatesCounted, Updaters, NothingChosen
<1>3. \A h \in Requests : AlertRequestOK(h, handler[h]) /\ ~Running(h)
  BY <1>1 DEF AlertRequestOK, Running
<1>4. AlertsInTurn
  BY DEF AlertsInit, AlertsInTurn, ChoiceStands, AlertsAreWanted, TokensAreSingle, RegisteredIsActive
<1>. QED
  BY <1>2, <1>3, <1>4, ShapeInit DEF AlertsTurnInv, AlertsInv, OneAtWork, SInit

LEMMA AlertsStepKeeps ==
    AlertsTurnInv /\ [AlertsNext /\ Turns]_<<svars, avars, overlapped>> => AlertsTurnInv'
<1> SUFFICES ASSUME AlertsTurnInv, [AlertsNext /\ Turns]_<<svars, avars, overlapped>> PROVE AlertsTurnInv'
  OBVIOUS
<1>1. CASE UNCHANGED <<svars, avars, overlapped>>
  <2>1. /\ Shape' = Shape /\ TokenRows' = TokenRows /\ TokensMade' = TokensMade
        /\ PreferenceRows' = PreferenceRows /\ UpdatesCounted' = UpdatesCounted
        /\ \A h \in Requests : /\ AlertRequestOK(h, handler[h])' = AlertRequestOK(h, handler[h])
                               /\ AlertWaits(h, handler[h])' = AlertWaits(h, handler[h])
                               /\ Running(h)' = Running(h)
    BY <1>1 DEF svars, avars, Shape, TokenRows, TokensMade, PreferenceRows, UpdatesCounted, Updaters,
                NothingChosen, ChoiceStands, AlertRequestOK, AlertWaits, Wanted, Running
  <2>2. AlertsInTurn' = AlertsInTurn /\ OneAtWork' = OneAtWork
    BY <1>1 DEF svars, avars, AlertsInTurn, ChoiceStands, AlertsAreWanted, TokensAreSingle,
                RegisteredIsActive, OneAtWork, Running
  <2>. QED
    BY <1>1, <2>1, <2>2 DEF AlertsTurnInv, AlertsInv, svars
<1>2. ASSUME NEW h \in Requests, Turns, AlertsRequest(h) \/ AlertsStep(h) \/ AlertsFault(h)
      PROVE  AlertsTurnInv'
  <2>1. faults' = faults \/ faults' = faults + 1
    <3>1. CASE SaveToken(h) \/ Deactivate(h)
      BY <3>1, Zenon DEF SaveToken, Deactivate, End, Keep
    <3>2. CASE ReplaceOnDevice(h) \/ SavePreferences(h)
      BY <3>2, Zenon DEF ReplaceOnDevice, SavePreferences, End, Goto
    <3>3. CASE FindPreferences(h) \/ InsertPreferences(h)
      BY <3>3 DEF FindPreferences, InsertPreferences, Found, End, Keep, Goto
    <3>4. CASE AlertsRequest(h) \/ AlertsFault(h)
      BY <3>4 DEF AlertsRequest, AlertsFault, Ask, Fault
    <3>5. CASE PreferencesExist(h) \/ ReadSubscription(h) \/ QueueNotification(h) \/ ChannelFails(h)
      BY <3>5 DEF PreferencesExist, ReadSubscription, QueueNotification, ChannelFails, End, Keep
    <3>6. CASE FindToken(h) \/ SendPush(h)
      BY <3>6 DEF FindToken, SendPush, End, Keep
    <3>. QED
      BY <1>2, <3>1, <3>2, <3>3, <3>4, <3>5, <3>6 DEF AlertsStep
  <2>2. AlertTurn
    BY <1>2, <2>1 DEF AlertTurn, AlertsTurnInv, AlertsInv
  <2>3. CASE AlertsRequest(h)
    BY <2>2, <2>3, AlertAsked
  <2>4. CASE AlertsFault(h)
    <3>1. Running(h) /\ Fault(h) /\ UNCHANGED avars
      BY <2>4 DEF AlertsFault, Fault
    <3>. QED
      BY <2>2, <3>1, AlertEnds
  <2>5. CASE PreferencesExist(h)
    <3>1. Running(h) /\ End(h) /\ UNCHANGED avars
      BY <2>5 DEF PreferencesExist, Running
    <3>. QED
      BY <2>2, <3>1, AlertEnds
  <2>6. CASE FindPreferences(h) \/ InsertPreferences(h) \/ SavePreferences(h)
    BY <2>2, <2>6, FindPreferencesKeeps, InsertPreferencesKeeps, SavePreferencesKeeps
  <2>7. CASE ReadSubscription(h) \/ QueueNotification(h) \/ ChannelFails(h)
    BY <2>2, <2>7, ReadSubscriptionKeeps, QueueKeeps
  <2>8. CASE ReplaceOnDevice(h) \/ FindToken(h) \/ SaveToken(h) \/ SendPush(h) \/ Deactivate(h)
    BY <2>2, <2>8, ReplaceOnDeviceKeeps, FindTokenKeeps, SaveTokenKeeps, SendPushKeeps, DeactivateKeeps
  <2>. QED
    BY <1>2, <2>3, <2>4, <2>5, <2>6, <2>7, <2>8 DEF AlertsStep
<1>. QED
  BY <1>1, <1>2 DEF AlertsNext

\* An update of the preferences stands when it is the only one, whatever overlaps it;
\* while no request overlaps another what was chosen last stands, a job alert goes where
\* it is wanted, an active token is there once and alone on its device, and the one
\* registered last is active (updatePreferences, executeJobAlerts, registerPushToken).
THEOREM AlertsAreSound == AlertsTurns => []AlertsSound
<1>1. AlertsTurnInv => AlertsSound
  BY DEF AlertsTurnInv, AlertsInv, AlertsInTurn, UpdatesCounted, AlertsSound
<1>. QED
  BY <1>1, AlertsStart, AlertsStepKeeps, PTL DEF AlertsTurns

-----------------------------------------------------------------------------
(* Profile *)

ProfileRows == [given : 0 .. 4, percentage : Int, status : {"incomplete", "basic"}]

\* What is known of a row that was completed.
RowAgrees(row) ==
    /\ row \in ProfileRows
    /\ row.percentage = Percentage(row.given)
    /\ row.given >= 3 => row.status # "incomplete"

Experiences == [by : Requests, waited : BOOLEAN, employer : Requests]

\* A request that waited for the row still has its lock, so that every experience of
\* another that waited is among those it deletes.
DeletesWaited(h, old) == locked = h /\ \A f \in experiences : f.waited => f \in old

ProfileRequestOK(h, s) ==
    /\ s.step \notin {"idle", "done"} =>
           /\ s.op \in {"createProfile", "updateProfile"} /\ s.arg.list \in BOOLEAN
           /\ s.arg.given \in Counts \/ (s.op = "updateProfile" /\ s.arg.given = Same)
    /\ s.step \in {"insert", "save"} => s.mem \in ProfileRows
    /\ s.step \in {"list", "employer"} =>
           /\ s.mem \in [row : ProfileRows, old : SUBSET Experiences, waited : BOOLEAN]
           /\ RowAgrees(s.mem.row)
           /\ s.mem.waited => locked = h
    /\ s.step = "employer" => s.arg.list /\ (s.mem.waited => DeletesWaited(h, s.mem.old))
    /\ s.step \in {"completion", "commit"} =>
           /\ s.mem \in [row : ProfileRows, old : SUBSET Experiences, new : SUBSET Experiences]
           /\ RowAgrees(s.mem.row)
           /\ \A e \in s.mem.new : e.by = h /\ (e.waited => DeletesWaited(h, s.mem.old))
    /\ s.step = "queue" => s.mem \subseteq Experiences

ProfileTables ==
    /\ profile = NoProfile \/ RowAgrees(profile)
    /\ experiences \subseteq Experiences
    /\ employers \subseteq Requests
    /\ embedded \in Seq(SUBSET Experiences)
    /\ LockedListsReplace

\* What holds whatever overlaps or fails.
ProfileInv ==
    /\ Shape /\ faults \in Nat
    /\ ProfileTables
    /\ \A h \in Requests : ProfileRequestOK(h, handler[h])

EmbeddedLast == embedded # <<>> => Last(embedded) = experiences

\* What the only request at work has read is so; only it makes the queue wait.
ProfileWaits(r) ==
    /\ r.step = "employer" => r.mem.old = experiences
    /\ r.step \in {"completion", "commit"} =>
           IF r.arg.list
           THEN /\ r.mem.old = experiences
                /\ \A e, f \in r.mem.new : e = f
                /\ employers # {} => \A e \in r.mem.new : e.employer \in employers
           ELSE r.mem.old = {} /\ r.mem.new = {}
    /\ IF r.step = "queue" THEN r.mem = experiences ELSE r.step # "embed" => EmbeddedLast

OneList ==
    /\ \A e, f \in experiences : e.by = f.by
    /\ \A e, f \in employers : e = f

\* The inductive invariant.
ProfileTurnInv ==
    /\ ProfileInv
    /\ Undisturbed => /\ OneAtWork /\ OneList
                      /\ \A h \in Requests : Running(h) => ProfileWaits(handler[h])
                      /\ Quiet => EmbeddedLast

LEMMA PercentageIs ==
    ASSUME NEW n \in 0 .. 4
    PROVE  Percentage(n) \in 0 .. 69 /\ (n >= 3 => Percentage(n) >= 40)
<1>1. /\ 6 \div 12 = 0 /\ 206 \div 12 = 17 /\ 406 \div 12 = 33
      /\ 606 \div 12 = 50 /\ 806 \div 12 = 67
  OBVIOUS
<1>2. n = 0 \/ n = 1 \/ n = 2 \/ n = 3 \/ n = 4
  OBVIOUS
<1>. QED
  BY <1>1, <1>2 DEF Percentage

LEMMA CompletedAgrees ==
    ASSUME NEW row \in ProfileRows PROVE RowAgrees(Completed(row))
<1>1. row.given \in 0 .. 4 /\ row.status \in {"incomplete", "basic"}
  BY DEF ProfileRows
<1>2. PICK p : p = Percentage(row.given)
  OBVIOUS
<1>3. PICK st : st = Status(row.status, p)
  OBVIOUS
<1>4. p \in 0 .. 69 /\ (row.given >= 3 => p >= 40)
  BY <1>1, <1>2, PercentageIs
<1>5. st \in {"incomplete", "basic"} /\ (row.given >= 3 => st = "basic")
  BY <1>1, <1>3, <1>4 DEF Status
<1>6. PICK x : x = [row EXCEPT !.percentage = p, !.status = st]
  OBVIOUS
<1>7. Completed(row) = x
  BY <1>2, <1>3, <1>6 DEF Completed
<1>8. p \in Int /\ st \in {"incomplete", "basic"}
  BY <1>4, <1>5
<1>9. x.given = row.given /\ x.percentage = p /\ x.status = st /\ x \in ProfileRows
  BY <1>6, <1>8 DEF ProfileRows
<1>. QED
  BY <1>2, <1>5, <1>7, <1>9 DEF RowAgrees

LEMMA NewIsRow == ASSUME NEW n \in 0 .. 4 PROVE NewProfile(n) \in ProfileRows
BY DEF NewProfile, ProfileRows

ProfileTurn == ProfileTurnInv /\ Turns /\ faults' \in Nat /\ faults <= faults'

LEMMA ProfileBefore == ASSUME ProfileTurn, Undisturbed' PROVE Undisturbed
<1>1. ~overlapped
  BY TurnBefore DEF ProfileTurn, Undisturbed
<1>2. faults \in Nat /\ faults' = 0 /\ faults <= faults'
  BY DEF ProfileTurn, ProfileTurnInv, ProfileInv, Undisturbed
<1>3. faults = 0
  BY <1>2
<1>. QED
  BY <1>1, <1>3 DEF Undisturbed

LEMMA ProfileFound ==
    ASSUME ProfileTurn, NEW h \in Requests, Running(h)
    PROVE  /\ Shape /\ ProfileTables /\ ProfileRequestOK(h, handler[h])
           /\ Undisturbed' => OneList /\ ProfileWaits(handler[h])
           /\ handler[h].step \notin {"idle", "done"}
BY ProfileBefore DEF ProfileTurn, ProfileTurnInv, ProfileInv, Running

\* What has to be shown of a step of request h
LEMMA ProfileMovesOn ==
    ASSUME ProfileTurn, NEW h \in Requests, NEW s, Moves(h, s),
           Running(h) \/ s.step \notin {"idle", "done"},
           s.step # "idle",
           \A g \in Requests \ {h} : locked = g => locked' = g,
           \A f \in experiences' : f \in experiences \/ (f.waited => locked = h),
           ProfileTables', ProfileRequestOK(h, s)',
           Undisturbed' => /\ OneList'
                           /\ IF s.step = "done" THEN EmbeddedLast' ELSE ProfileWaits(s)'
    PROVE  ProfileTurnInv'
<1>1. ASSUME NEW g \in Requests PROVE ProfileRequestOK(g, handler[g])'
  <2>1. CASE g = h
    BY <2>1 DEF Moves, ProfileRequestOK, DeletesWaited
  <2>2. CASE g # h
    <3>1. handler'[g] = handler[g] /\ ProfileRequestOK(g, handler[g])
      BY <2>2 DEF Moves, ProfileTurn, ProfileTurnInv, ProfileInv
    <3>2. \A old : DeletesWaited(g, old) => DeletesWaited(g, old)'
      BY <2>2 DEF DeletesWaited
    <3>3. locked = g => locked' = g
      BY <2>2
    <3>. QED
      BY <3>1, <3>2, <3>3 DEF ProfileRequestOK
  <2>. QED
    BY <2>1, <2>2
<1>2. ProfileInv'
  BY <1>1 DEF ProfileInv, Moves, ProfileTurn
<1>3. ASSUME Undisturbed'
      PROVE  /\ OneAtWork' /\ OneList'
             /\ \A g \in Requests : Running(g)' => ProfileWaits(handler[g])'
             /\ Quiet' => EmbeddedLast'
  <2>1. OneAtWork' /\ \A g \in Requests \ {h} : ~Running(g)'
    BY <1>3, ProfileBefore, MovesAlone DEF ProfileTurn, ProfileTurnInv, Undisturbed
  <2>2. Running(h)' => ProfileWaits(handler[h])'
    <3>1. ASSUME Running(h)' PROVE ProfileWaits(s)'
      BY <1>3, <3>1 DEF Moves, Running
    <3>. QED
      BY <3>1 DEF Moves, ProfileWaits
  <2>3. Quiet' => EmbeddedLast'
    BY <1>3 DEF Quiet, Running, Moves
  <2>. QED
    BY <1>3, <2>1, <2>2, <2>3
<1>. QED
  BY <1>2, <1>3 DEF ProfileTurnInv

\* A request that writes no row, but takes the lock or gives it back
LEMMA ProfileGoes ==
    ASSUME ProfileTurn, NEW h \in Requests, Running(h), NEW s, Moves(h, s), s.step # "idle",
           UNCHANGED <<profile, experiences, employers, embedded>>,
           locked' = locked \/ (locked = NoOne /\ locked' = h) \/ (locked = h /\ locked' = NoOne),
           ProfileRequestOK(h, s)',
           Undisturbed' => IF s.step = "done" THEN EmbeddedLast ELSE ProfileWaits(s)
    PROVE  ProfileTurnInv'
<1>1. ProfileTables /\ (Undisturbed' => OneList)
  BY ProfileFound
<1>2. ProfileTables'
  BY <1>1 DEF ProfileTables, LockedListsReplace
<1>3. OneList' = OneList /\ EmbeddedLast' = EmbeddedLast
  BY DEF OneList, EmbeddedLast
<1>4. ProfileWaits(s) => ProfileWaits(s)'
  BY <1>3 DEF ProfileWaits
<1>5. \A g \in Requests \ {h} : locked = g => locked' = g
  BY ProfileAssumption
<1>. QED
  BY <1>1, <1>2, <1>3, <1>4, <1>5, ProfileMovesOn

LEMMA ProfileEnds ==
    ASSUME ProfileTurn, NEW h \in Requests, Running(h), End(h) \/ (Fault(h) /\ ~Undisturbed'),
           UNCHANGED <<profile, experiences, employers, embedded>>,
           locked' = locked \/ (locked = h /\ locked' = NoOne),
           handler[h].step \notin {"embed", "queue"} \/ ~Undisturbed'
    PROVE  ProfileTurnInv'
<1>1. PICK s : Moves(h, s) /\ s.op = handler[h].op /\ s.step = "done"
  BY ProfileFound, Ends
<1>2. ProfileRequestOK(h, s)'
  BY <1>1 DEF ProfileRequestOK
<1>3. Undisturbed' => EmbeddedLast
  BY ProfileFound DEF ProfileWaits
<1>. QED
  BY <1>1, <1>2, <1>3, ProfileGoes

LEMMA ProfileAsked ==
    ASSUME ProfileTurn, NEW h \in Requests, ProfileRequest(h) PROVE ProfileTurnInv'
<1>1. PICK op, arg :
          /\ op \in {"createProfile", "updateProfile"}
          /\ Ask(h, op, arg) /\ arg.list \in BOOLEAN
          /\ arg.given \in Counts \/ (op = "updateProfile" /\ arg.given = Same)
  <2>1. PICK list \in BOOLEAN, n \in Counts \cup {Same}, op \in {"createProfile", "updateProfile"} :
            /\ Ask(h, op, [given |-> n, list |-> list])
            /\ n \in Counts \/ op = "updateProfile"
    BY DEF ProfileRequest
  <2>2. PICK arg : arg = [given |-> n, list |-> list]
    OBVIOUS
  <2>. QED
    BY <2>1, <2>2
<1>2. PICK s : s = Request(op, "start", arg, "nothing")
  OBVIOUS
<1>3. /\ Moves(h, s) /\ handler[h].step = "idle" /\ s.step = "start" /\ s.op = op /\ s.arg = arg
      /\ UNCHANGED bvars
  BY <1>1, <1>2, AskMoves DEF ProfileTurn, ProfileTurnInv, ProfileInv, Request, ProfileRequest
<1>4. ProfileTables'
  BY <1>3 DEF bvars, ProfileTurn, ProfileTurnInv, ProfileInv, ProfileTables, LockedListsReplace
<1>5. ProfileRequestOK(h, s)'
  BY <1>1, <1>3 DEF ProfileRequestOK
<1>6. ASSUME Undisturbed' PROVE OneList' /\ ProfileWaits(s)'
  <2>1. Undisturbed /\ OneAtWork /\ OneList /\ (Quiet => EmbeddedLast)
    BY <1>6, ProfileBefore DEF ProfileTurn, ProfileTurnInv
  <2>2. \A g \in Requests \ {h} : ~Running(g)
    BY <1>3, <1>6, <2>1, MovesAlone DEF ProfileTurn, Undisturbed
  <2>3. EmbeddedLast
    BY <1>3, <2>1, <2>2 DEF Quiet, Running
  <2>. QED
    BY <1>3, <2>1, <2>3 DEF bvars, OneList, ProfileWaits, EmbeddedLast
<1>. QED
  BY <1>3, <1>4, <1>5, <1>6, ProfileMovesOn DEF bvars

LEMMA ReadProfileKeeps ==
    ASSUME ProfileTurn, NEW h \in Requests, ReadProfile(h) PROVE ProfileTurnInv'
<1>1. /\ handler[h].op \in {"createProfile", "updateProfile"} /\ handler[h].step = "start"
      /\ UNCHANGED bvars /\ Running(h)
  BY DEF ReadProfile, At, Running
<1>2. /\ Shape /\ ProfileTables /\ ProfileRequestOK(h, handler[h])
      /\ Undisturbed' => ProfileWaits(handler[h])
  BY <1>1, ProfileFound
<1>3. CASE End(h)
  BY <1>1, <1>3, ProfileEnds DEF bvars
<1>4. CASE ~End(h)
  <2>1. (handler[h].op = "createProfile") = (profile = NoProfile)
    BY <1>1, <1>4 DEF ReadProfile
  <2>2. PICK row, step :
            /\ Keep(h, step, row) /\ step \in {"insert", "save"}
            /\ handler[h].op = "createProfile" => row = NewProfile(Arg(h).given)
            /\ handler[h].op = "updateProfile" =>
                   row = IF Arg(h).given = Same THEN profile ELSE [profile EXCEPT !.given = Arg(h).given]
    <3>1. CASE handler[h].op = "createProfile"
      <4>1. Keep(h, "insert", NewProfile(Arg(h).given))
        BY <1>4, <3>1 DEF ReadProfile
      <4>. QED
        BY <3>1, <4>1
    <3>2. CASE handler[h].op = "updateProfile"
      <4>1. PICK row : row = IF Arg(h).given = Same THEN profile ELSE [profile EXCEPT !.given = Arg(h).given]
        OBVIOUS
      <4>2. Keep(h, "save", row)
        BY <1>4, <3>2, <4>1 DEF ReadProfile
      <4>. QED
        BY <3>2, <4>1, <4>2
    <3>. QED
      BY <1>1, <3>1, <3>2
  <2>3. row \in ProfileRows
    <3>1. Arg(h).given \in 0 .. 4 \/ (handler[h].op = "updateProfile" /\ Arg(h).given = Same)
      BY <1>1, <1>2, ProfileAssumption DEF ProfileRequestOK, Arg
    <3>2. CASE handler[h].op = "createProfile"
      BY <2>2, <3>1, <3>2, NewIsRow
    <3>3. CASE handler[h].op = "updateProfile"
      <4>1. profile \in ProfileRows
        BY <1>2, <2>1, <3>3 DEF ProfileTables, RowAgrees
      <4>. QED
        BY <2>2, <3>1, <3>3, <4>1 DEF ProfileRows
    <3>. QED
      BY <1>1, <3>2, <3>3
  <2>4. PICK s : /\ Moves(h, s) /\ s.op = handler[h].op /\ s.step = step
                 /\ s.arg = handler[h].arg /\ s.mem = row
    BY <1>2, <2>2, GoesOn
  <2>5. ProfileRequestOK(h, s)'
    BY <1>1, <1>2, <2>2, <2>3, <2>4 DEF ProfileRequestOK
  <2>6. Undisturbed' => ProfileWaits(s)
    BY <1>1, <1>2, <2>2, <2>4 DEF ProfileWaits
  <2>. QED
    BY <1>1, <2>2, <2>4, <2>5, <2>6, ProfileGoes DEF bvars
<1>. QED
  BY <1>3, <1>4

\* The row is inserted, or what differs from it is written.
LEMMA ProfileWritten ==
    ASSUME ProfileTurn, NEW h \in Requests, handler[h].step \in {"insert", "save"},
           NEW waited \in BOOLEAN,
           Keep(h, "list", [row |-> Completed(Mem(h)), old |-> {}, waited |-> waited]),
           locked' = locked \/ (locked = NoOne /\ locked' = h), waited => locked' = h,
           UNCHANGED <<profile, experiences, employers, embedded>>
    PROVE  ProfileTurnInv'
<1>1. Running(h)
  BY DEF Running
<1>2. /\ Shape /\ ProfileRequestOK(h, handler[h]) /\ (Undisturbed' => ProfileWaits(handler[h]))
  BY <1>1, ProfileFound
<1>3. PICK row : row = Completed(Mem(h))
  OBVIOUS
<1>4. RowAgrees(row)
  BY <1>2, <1>3, CompletedAgrees DEF ProfileRequestOK, Mem
<1>5. PICK mem : mem = [row |-> row, old |-> {}, waited |-> waited]
  OBVIOUS
<1>6. PICK s : /\ Moves(h, s) /\ s.op = handler[h].op /\ s.step = "list"
               /\ s.arg = handler[h].arg /\ s.mem = mem
  BY <1>2, <1>3, <1>5, GoesOn
<1>7. mem \in [row : ProfileRows, old : SUBSET Experiences, waited : BOOLEAN]
      /\ mem.row = row /\ mem.waited = waited
  BY <1>4, <1>5 DEF RowAgrees
<1>8. ProfileRequestOK(h, s)'
  BY <1>2, <1>4, <1>6, <1>7 DEF ProfileRequestOK, RowAgrees
<1>9. Undisturbed' => ProfileWaits(s)
  BY <1>2, <1>6 DEF ProfileWaits
<1>. QED
  BY <1>1, <1>6, <1>8, <1>9, ProfileGoes

LEMMA InsertProfileKeeps ==
    ASSUME ProfileTurn, NEW h \in Requests, InsertProfile(h) PROVE ProfileTurnInv'
<1>1. handler[h].step = "insert" /\ UNCHANGED <<profile, experiences, employers, embedded>>
  BY DEF InsertProfile, At
<1>2. CASE End(h) /\ locked' = locked
  BY <1>1, <1>2, ProfileEnds DEF Running
<1>3. CASE profile = NoProfile
  <2>1. /\ locked = NoOne /\ locked' = h
        /\ Keep(h, "list", [row |-> Completed(Mem(h)), old |-> {}, waited |-> TRUE])
    BY <1>3 DEF InsertProfile
  <2>. QED
    BY <1>1, <2>1, ProfileWritten
<1>. QED
  BY <1>2, <1>3 DEF InsertProfile

LEMMA SaveFieldsKeeps ==
    ASSUME ProfileTurn, NEW h \in Requests, SaveFields(h) PROVE ProfileTurnInv'
<1>1. PICK waited \in BOOLEAN :
          /\ Keep(h, "list", [row |-> Completed(Mem(h)), old |-> {}, waited |-> waited])
          /\ locked' = locked \/ (locked = NoOne /\ locked' = h)
          /\ waited => locked' = h
  BY DEF SaveFields
<1>2. handler[h].step = "save" /\ UNCHANGED <<profile, experiences, employers, embedded>>
  BY DEF SaveFields, At
<1>. QED
  BY <1>1, <1>2, ProfileWritten

LEMMA DeleteListKeeps ==
    ASSUME ProfileTurn, NEW h \in Requests, DeleteList(h) PROVE ProfileTurnInv'
<1>1. handler[h].step = "list" /\ UNCHANGED bvars /\ Running(h)
  BY DEF DeleteList, Running
<1>2. /\ Shape /\ ProfileTables /\ ProfileRequestOK(h, handler[h])
      /\ Undisturbed' => ProfileWaits(handler[h])
  BY <1>1, ProfileFound
<1>3. PICK row, waited : row = Mem(h).row /\ waited = Mem(h).waited
  OBVIOUS
<1>4. /\ Mem(h) \in [row : ProfileRows, old : SUBSET Experiences, waited : BOOLEAN]
      /\ RowAgrees(row) /\ row \in ProfileRows /\ waited \in BOOLEAN /\ (waited => locked = h)
  BY <1>1, <1>2, <1>3 DEF ProfileRequestOK, Mem
<1>5. CASE Arg(h).list
  <2>1. PICK mem : mem = [Mem(h) EXCEPT !.old = experiences]
    OBVIOUS
  <2>2. PICK s : /\ Moves(h, s) /\ s.op = handler[h].op /\ s.step = "employer"
                 /\ s.arg = handler[h].arg /\ s.mem = mem
    <3>1. Keep(h, "employer", mem)
      BY <1>5, <2>1 DEF DeleteList
    <3>. QED
      BY <1>2, <3>1, GoesOn
  <2>3. experiences \subseteq Experiences
    BY <1>2 DEF ProfileTables
  <2>4. /\ mem \in [row : ProfileRows, old : SUBSET Experiences, waited : BOOLEAN]
        /\ mem.row = row /\ mem.waited = waited /\ mem.old = experiences
    BY <1>3, <1>4, <2>1, <2>3
  <2>5. ProfileRequestOK(h, s)'
    BY <1>1, <1>2, <1>4, <1>5, <2>2, <2>4 DEF ProfileRequestOK, RowAgrees, DeletesWaited, bvars, Arg
  <2>6. Undisturbed' => ProfileWaits(s)
    BY <1>1, <1>2, <2>2, <2>4 DEF ProfileWaits
  <2>. QED
    BY <1>1, <2>2, <2>5, <2>6, ProfileGoes DEF bvars
<1>6. CASE ~Arg(h).list
  <2>1. PICK mem : mem = [row |-> row, old |-> {}, new |-> {}]
    OBVIOUS
  <2>2. PICK s : /\ Moves(h, s) /\ s.op = handler[h].op /\ s.step = "completion"
                 /\ s.arg = handler[h].arg /\ s.mem = mem
    <3>1. Keep(h, "completion", mem)
      BY <1>3, <1>6, <2>1 DEF DeleteList
    <3>. QED
      BY <1>2, <3>1, GoesOn
  <2>3. /\ mem \in [row : ProfileRows, old : SUBSET Experiences, new : SUBSET Experiences]
        /\ mem.row = row /\ mem.old = {} /\ mem.new = {}
    BY <1>4, <2>1
  <2>4. ProfileRequestOK(h, s)'
    BY <1>1, <1>2, <1>4, <2>2, <2>3 DEF ProfileRequestOK, RowAgrees
  <2>5. Undisturbed' => ProfileWaits(s)
    BY <1>1, <1>2, <1>6, <2>2, <2>3 DEF ProfileWaits, Arg
  <2>. QED
    BY <1>1, <2>2, <2>4, <2>5, ProfileGoes DEF bvars
<1>. QED
  BY <1>5, <1>6

LEMMA FindEmployerKeeps ==
    ASSUME ProfileTurn, NEW h \in Requests, FindEmployer(h) PROVE ProfileTurnInv'
<1>1. handler[h].step = "employer" /\ UNCHANGED bvars /\ Running(h)
  BY DEF FindEmployer, Running
<1>2. /\ Shape /\ ProfileTables /\ ProfileRequestOK(h, handler[h])
      /\ Undisturbed' => ProfileWaits(handler[h])
  BY <1>1, ProfileFound
<1>3. PICK row, old, waited : row = Mem(h).row /\ old = Mem(h).old /\ waited = Mem(h).waited
  OBVIOUS
<1>4. /\ RowAgrees(row) /\ row \in ProfileRows /\ waited \in BOOLEAN /\ old \subseteq Experiences
      /\ waited => DeletesWaited(h, old)
  <2>1. Mem(h) \in [row : ProfileRows, old : SUBSET Experiences, waited : BOOLEAN]
        /\ RowAgrees(row) /\ (waited => DeletesWaited(h, old))
    BY <1>1, <1>2, <1>3 DEF ProfileRequestOK, Mem
  <2>. QED
    BY <1>3, <2>1
<1>5. PICK e \in IF employers = {} THEN {h} ELSE employers :
          Keep(h, "completion", [row |-> row, old |-> old, new |-> {[by |-> h, waited |-> waited, employer |-> e]}])
  BY <1>3 DEF FindEmployer
<1>6. PICK x : x = [by |-> h, waited |-> waited, employer |-> e]
  OBVIOUS
<1>7. e \in Requests /\ (employers # {} => e \in employers)
  BY <1>2, <1>5 DEF ProfileTables
<1>8. x \in Experiences /\ x.by = h /\ x.waited = waited /\ x.employer = e
  BY <1>4, <1>6, <1>7 DEF Experiences
<1>9. PICK mem : mem = [row |-> row, old |-> old, new |-> {x}]
  OBVIOUS
<1>10. /\ mem \in [row : ProfileRows, old : SUBSET Experiences, new : SUBSET Experiences]
       /\ mem.row = row /\ mem.old = old /\ mem.new = {x}
  BY <1>4, <1>8, <1>9
<1>11. PICK s : /\ Moves(h, s) /\ s.op = handler[h].op /\ s.step = "completion"
                /\ s.arg = handler[h].arg /\ s.mem = mem
  BY <1>2, <1>5, <1>6, <1>9, GoesOn
<1>12. ProfileRequestOK(h, s)'
  BY <1>1, <1>2, <1>4, <1>8, <1>10, <1>11 DEF ProfileRequestOK, RowAgrees, DeletesWaited, bvars
<1>13. s.arg.list => (Undisturbed' => ProfileWaits(s))
  BY <1>1, <1>2, <1>3, <1>7, <1>8, <1>10, <1>11 DEF ProfileWaits, Mem
<1>14. handler[h].arg.list
  BY <1>1, <1>2 DEF ProfileRequestOK
<1>. QED
  BY <1>1, <1>11, <1>12, <1>13, <1>14, ProfileGoes DEF bvars

LEMMA SaveCompletionKeeps ==
    ASSUME ProfileTurn, NEW h \in Requests, SaveCompletion(h) PROVE ProfileTurnInv'
<1>1. /\ handler[h].step = "completion" /\ Goto(h, "commit") /\ Running(h)
      /\ UNCHANGED <<profile, experiences, employers, embedded>>
      /\ locked' = locked \/ (locked = NoOne /\ locked' = h)
  BY DEF SaveCompletion, Running
<1>2. ProfileRequestOK(h, handler[h]) /\ Shape /\ (Undisturbed' => ProfileWaits(handler[h]))
  BY <1>1, ProfileFound
<1>3. PICK s : /\ Moves(h, s) /\ s.op = handler[h].op /\ s.step = "commit"
               /\ s.arg = handler[h].arg /\ s.mem = handler[h].mem
  BY <1>1, <1>2, GoesOn
<1>4. locked = h => locked' = h
  BY <1>1
<1>5. ProfileRequestOK(h, s)'
  BY <1>1, <1>2, <1>3, <1>4 DEF ProfileRequestOK, DeletesWaited
<1>6. Undisturbed' => ProfileWaits(s)
  BY <1>1, <1>2, <1>3 DEF ProfileWaits
<1>. QED
  BY <1>1, <1>3, <1>5, <1>6, ProfileGoes

LEMMA ReadEmbeddingKeeps ==
    ASSUME ProfileTurn, NEW h \in Requests, ReadEmbedding(h) PROVE ProfileTurnInv'
<1>1. /\ handler[h].step = "embed" /\ Keep(h, "queue", experiences) /\ UNCHANGED bvars /\ Running(h)
  BY DEF ReadEmbedding, Running
<1>2. ProfileRequestOK(h, handler[h]) /\ Shape /\ ProfileTables
  BY <1>1, ProfileFound
<1>3. PICK s : /\ Moves(h, s) /\ s.op = handler[h].op /\ s.step = "queue"
               /\ s.arg = handler[h].arg /\ s.mem = experiences
  BY <1>1, <1>2, GoesOn
<1>4. ProfileRequestOK(h, s)'
  BY <1>1, <1>2, <1>3 DEF ProfileRequestOK, ProfileTables
<1>5. ProfileWaits(s)
  BY <1>3 DEF ProfileWaits
<1>. QED
  BY <1>1, <1>3, <1>4, <1>5, ProfileGoes DEF bvars

LEMMA QueueEmbeddingKeeps ==
    ASSUME ProfileTurn, NEW h \in Requests, QueueEmbedding(h) PROVE ProfileTurnInv'
<1>1. /\ handler[h].step = "queue" /\ embedded' = Append(embedded, handler[h].mem) /\ End(h) /\ Running(h)
      /\ UNCHANGED <<profile, locked, experiences, employers>>
  BY DEF QueueEmbedding, Running, Mem
<1>2. /\ Shape /\ ProfileTables /\ handler[h].mem \subseteq Experiences
      /\ Undisturbed' => OneList /\ handler[h].mem = experiences
  BY <1>1, ProfileFound DEF ProfileRequestOK, ProfileWaits
<1>3. PICK s : Moves(h, s) /\ s.op = handler[h].op /\ s.step = "done"
  BY <1>1, <1>2, Ends
<1>4. embedded' \in Seq(SUBSET Experiences) /\ Last(embedded') = handler[h].mem
  BY <1>1, <1>2 DEF ProfileTables, Last
<1>5. ProfileTables' /\ ProfileRequestOK(h, s)'
  BY <1>1, <1>2, <1>3, <1>4 DEF ProfileTables, LockedListsReplace, ProfileRequestOK
<1>6. Undisturbed' => OneList' /\ EmbeddedLast'
  BY <1>1, <1>2, <1>4 DEF OneList, EmbeddedLast
<1>. QED
  BY <1>1, <1>3, <1>5, <1>6, ProfileMovesOn

\* The rows of the transaction are seen; a list that waited meets no other that did.
LEMMA CommitKeeps ==
    ASSUME ProfileTurn, NEW h \in Requests, Commit(h) PROVE ProfileTurnInv'
<1>1. PICK row, old, new : row = Mem(h).row /\ old = Mem(h).old /\ new = Mem(h).new
  OBVIOUS
<1>2. /\ handler[h].step = "commit" /\ Running(h) /\ embedded' = embedded
      /\ profile' = IF locked = h THEN row ELSE profile
      /\ locked' = IF locked = h THEN NoOne ELSE locked
      /\ experiences' = (experiences \ old) \cup new
      /\ employers' = employers \cup {e.employer : e \in new}
      /\ Goto(h, "embed") \/ (~Arg(h).list /\ End(h))
  BY <1>1 DEF Commit, Running
<1>3. /\ Shape /\ ProfileTables /\ ProfileRequestOK(h, handler[h])
      /\ Undisturbed' => OneList /\ ProfileWaits(handler[h])
  BY <1>2, ProfileFound
<1>4. /\ RowAgrees(row) /\ new \subseteq Experiences
      /\ \A e \in new : e.by = h /\ (e.waited => DeletesWaited(h, old))
  <2>1. Mem(h) \in [row : ProfileRows, old : SUBSET Experiences, new : SUBSET Experiences]
        /\ RowAgrees(row) /\ \A e \in new : e.by = h /\ (e.waited => DeletesWaited(h, old))
    BY <1>1, <1>2, <1>3 DEF ProfileRequestOK, Mem
  <2>. QED
    BY <1>1, <2>1
<1>5. /\ handler[h].op \in {"createProfile", "updateProfile"} /\ handler[h].arg.list \in BOOLEAN
      /\ handler[h].arg.given \in Counts \/ (handler[h].op = "updateProfile" /\ handler[h].arg.given = Same)
  BY <1>2, <1>3 DEF ProfileRequestOK
<1>6. ProfileTables'
  <2>1. profile' = NoProfile \/ RowAgrees(profile')
    BY <1>2, <1>3, <1>4 DEF ProfileTables
  <2>2. experiences' \subseteq Experiences /\ experiences \subseteq Experiences
    BY <1>2, <1>3, <1>4 DEF ProfileTables
  <2>3. employers' \subseteq Requests
    BY <1>2, <1>3, <1>4 DEF ProfileTables, Experiences
  <2>4. ASSUME NEW e \in experiences', NEW f \in experiences', e.waited, f.waited
        PROVE  e.by = f.by
    <3>1. CASE e \in new /\ f \in new
      BY <1>4, <3>1
    <3>2. CASE e \in experiences \ old /\ f \in experiences \ old
      BY <1>3, <2>4, <3>2 DEF ProfileTables, LockedListsReplace
    <3>3. CASE (e \in new /\ f \in experiences \ old) \/ (f \in new /\ e \in experiences \ old)
      BY <1>4, <2>4, <3>3 DEF DeletesWaited
    <3>. QED
      BY <1>2, <3>1, <3>2, <3>3
  <2>. QED
    BY <1>2, <1>3, <2>1, <2>2, <2>3, <2>4 DEF ProfileTables, LockedListsReplace, RowAgrees
<1>7. \A f \in experiences' : f \in experiences \/ (f.waited => locked = h)
  BY <1>2, <1>4 DEF DeletesWaited
<1>8. \A g \in Requests \ {h} : locked = g => locked' = g
  BY <1>2
<1>9. ASSUME Undisturbed' PROVE OneList' /\ (~Arg(h).list => EmbeddedLast')
  <2>1. /\ OneList /\ EmbeddedLast
        /\ IF Arg(h).list
           THEN /\ old = experiences
                /\ \A e, f \in new : e = f
                /\ employers # {} => \A e \in new : e.employer \in employers
           ELSE old = {} /\ new = {}
    BY <1>1, <1>2, <1>3, <1>9 DEF ProfileWaits, Mem, Arg
  <2>2. CASE Arg(h).list
    <3>1. experiences' = new
      BY <1>2, <2>1, <2>2
    <3>2. \A e, f \in employers' : e = f
      BY <1>2, <2>1, <2>2 DEF OneList
    <3>. QED
      BY <1>4, <2>2, <3>1, <3>2 DEF OneList
  <2>3. CASE ~Arg(h).list
    <3>1. experiences' = experiences /\ employers' = employers
      BY <1>2, <2>1, <2>3
    <3>. QED
      BY <1>2, <2>1, <3>1 DEF OneList, EmbeddedLast
  <2>. QED
    BY <2>2, <2>3
<1>10. CASE Goto(h, "embed")
  <2>1. PICK s : /\ Moves(h, s) /\ s.op = handler[h].op /\ s.step = "embed"
                 /\ s.arg = handler[h].arg /\ s.mem = handler[h].mem
    BY <1>3, <1>10, GoesOn
  <2>2. ProfileRequestOK(h, s)' /\ ProfileWaits(s)'
    BY <1>5, <2>1 DEF ProfileRequestOK, ProfileWaits
  <2>. QED
    BY <1>2, <1>6, <1>7, <1>8, <1>9, <2>1, <2>2, ProfileMovesOn
<1>11. CASE ~Arg(h).list /\ End(h)
  <2>1. PICK s : Moves(h, s) /\ s.op = handler[h].op /\ s.step = "done"
    BY <1>3, <1>11, Ends
  <2>2. ProfileRequestOK(h, s)'
    BY <2>1 DEF ProfileRequestOK
  <2>. QED
    BY <1>2, <1>6, <1>7, <1>8, <1>9, <1>11, <2>1, <2>2, ProfileMovesOn
<1>. QED
  BY <1>2, <1>10, <1>11

LEMMA ProfileFaultKeeps ==
    ASSUME ProfileTurn, NEW h \in Requests, ProfileFault(h) PROVE ProfileTurnInv'
<1>1. /\ Running(h) /\ Fault(h) /\ UNCHANGED <<profile, experiences, employers, embedded>>
      /\ locked' = locked \/ (locked = h /\ locked' = NoOne)
  BY DEF ProfileFault, Fault
<1>2. ~Undisturbed'
  <2>1. faults \in Nat /\ faults' = faults + 1
    BY DEF ProfileFault, Fault, ProfileTurn, ProfileTurnInv, ProfileInv
  <2>2. faults' # 0
    BY <2>1
  <2>. QED
    BY <2>2 DEF Undisturbed
<1>. QED
  BY <1>1, <1>2, ProfileEnds

LEMMA ProfileStart == SInit /\ ProfileInit /\ overlapped = FALSE => ProfileTurnInv
<1> SUFFICES ASSUME SInit, ProfileInit PROVE ProfileTurnInv
  OBVIOUS
<1>1. \A h \in Requests : handler[h].step = "idle"
  BY DEF SInit, Idle
<1>2. profile = NoProfile \/ RowAgrees(profile)
  BY NewIsRow, CompletedAgrees, ProfileAssumption DEF ProfileInit
<1>3. /\ experiences = {} /\ employers = {} /\ embedded = <<>>
  BY DEF ProfileInit
<1>4. \A h \in Requests : ProfileRequestOK(h, handler[h]) /\ ~Running(h)
  BY <1>1 DEF ProfileRequestOK, Running
<1>5. ProfileTables /\ OneList /\ EmbeddedLast
  BY <1>2, <1>3 DEF ProfileTables, LockedListsReplace, OneList, EmbeddedLast
<1>. QED
  BY <1>4, <1>5, ShapeInit DEF ProfileTurnInv, ProfileInv, OneAtWork, SInit

LEMMA ProfileStepKeeps ==
    ProfileTurnInv /\ [ProfileNext /\ Turns]_<<svars, bvars, overlapped>> => ProfileTurnInv'
<1> SUFFICES ASSUME ProfileTurnInv, [ProfileNext /\ Turns]_<<svars, bvars, overlapped>> PROVE ProfileTurnInv'
  OBVIOUS
<1>1. CASE UNCHANGED <<svars, bvars, overlapped>>
  <2>1. /\ Shape' = Shape /\ ProfileTables' = ProfileTables
        /\ OneList' = OneList /\ EmbeddedLast' = EmbeddedLast
        /\ OneAtWork' = OneAtWork /\ Quiet' = Quiet
    BY <1>1 DEF svars, bvars, Shape, ProfileTables, RowAgrees, LockedListsReplace, OneList, EmbeddedLast,
                OneAtWork, Running, Quiet
  <2>2. \A h \in Requests : /\ ProfileRequestOK(h, handler[h])' = ProfileRequestOK(h, handler[h])
                            /\ Running(h)' = Running(h)
    BY <1>1 DEF svars, bvars, ProfileRequestOK, RowAgrees, DeletesWaited, Running
  <2>3. \A h \in Requests : ProfileWaits(handler[h])' = ProfileWaits(handler[h])
    BY <1>1, <2>1 DEF svars, bvars, ProfileWaits
  <2>. QED
    BY <1>1, <2>1, <2>2, <2>3 DEF ProfileTurnInv, ProfileInv, Undisturbed, svars
<1>2. ASSUME NEW h \in Requests, Turns, ProfileRequest(h) \/ ProfileStep(h) \/ ProfileFault(h)
      PROVE  ProfileTurnInv'
  <2>1. faults' = faults \/ faults' = faults + 1
    BY <1>2 DEF ProfileStep, ProfileRequest, ProfileFault, ReadProfile, InsertProfile, SaveFields, DeleteList,
                FindEmployer, SaveCompletion, Commit, ReadEmbedding, QueueEmbedding,
                Ask, Fault, End, Keep, Goto
  <2>2. ProfileTurn
    <3>1. faults \in Nat
      BY DEF ProfileTurnInv, ProfileInv
    <3>2. faults' \in Nat /\ faults <= faults'
      BY <2>1, <3>1
    <3>. QED
      BY <1>2, <3>2 DEF ProfileTurn
  <2>3. CASE ProfileRequest(h) \/ ProfileFault(h)
    BY <2>2, <2>3, ProfileAsked, ProfileFaultKeeps
  <2>4. CASE ProfileStep(h)
    BY <2>2, <2>4, ReadProfileKeeps, InsertProfileKeeps, SaveFieldsKeeps, DeleteListKeeps, FindEmployerKeeps,
       SaveCompletionKeeps, CommitKeeps, ReadEmbeddingKeeps, QueueEmbeddingKeeps DEF ProfileStep
  <2>. QED
    BY <1>2, <2>3, <2>4
<1>. QED
  BY <1>1, <1>2 DEF ProfileNext

LEMMA OneEmployer == OneList => Cardinality(employers) <= 1
<1>1. CASE employers = {}
  BY <1>1, FS_EmptySet
<1>2. CASE employers # {}
  <2> SUFFICES ASSUME OneList PROVE Cardinality(employers) = 1
    OBVIOUS
  <2>1. PICK e \in employers : TRUE
    BY <1>2
  <2>2. employers = {e}
    BY <2>1 DEF OneList
  <2>. QED
    BY <2>2, FS_Singleton
<1>. QED
  BY <1>1, <1>2

\* However updates overlap and fail, of those that waited for the row of the profile one list is
\* left, and the percentage is that of the fields; of requests in turn, without a failing query,
\* the last list replaces the others, has one organisation, and is embedded last
\* (createCandidateProfile, updateCandidateProfile).
THEOREM ProfilesAreSound == ProfileTurns => []ProfileSound
<1>1. ProfileTurnInv => ProfileSound
  <2> SUFFICES ASSUME ProfileTurnInv PROVE ProfileSound
    OBVIOUS
  <2>1. LockedListsReplace /\ CompletionAgrees
    BY DEF ProfileTurnInv, ProfileInv, ProfileTables, RowAgrees, ProfileRows, CompletionAgrees
  <2>2. Undisturbed /\ Quiet => ListsAreReplaced
    BY OneEmployer DEF ProfileTurnInv, OneList, EmbeddedLast, ListsAreReplaced
  <2>. QED
    BY <2>1, <2>2 DEF ProfileSound
<1>. QED
  BY <1>1, ProfileStart, ProfileStepKeeps, PTL DEF ProfileTurns
-----------------------------------------------------------------------------
(* Chat *)

\* What request h asks, or has asked, and for which time: the client remembers it.
Streams(h) == handler[h].op = "streamChat" /\ Running(h)
QuestionOf(h) == IF Streams(h) THEN Arg(h).question ELSE told[h].question
AttemptOf(h) == IF Streams(h) THEN Arg(h).attempt ELSE told[h].attempt

\* A question is that of the request that asked it first; no two ask it for the same time,
\* and who asked it before was told to retry, and did.
AttemptsOK ==
    /\ \A h \in Requests : AttemptOf(QuestionOf(h)) = 0
    /\ \A h \in Requests : QuestionOf(h) \in Requests /\ AttemptOf(h) \in 0 .. MaxRetries
    /\ \A h \in Requests : AttemptOf(h) = 0 => QuestionOf(h) = h
    /\ \A g, h \in Requests : QuestionOf(g) = QuestionOf(h) /\ AttemptOf(g) = AttemptOf(h) => g = h
    /\ \A g, h \in Requests : QuestionOf(g) = QuestionOf(h) /\ AttemptOf(g) < AttemptOf(h) =>
           told[g].what = "retried"

RetriesOK == \A h \in Requests : told[h].what = "retry" => told[h].attempt < MaxRetries

MessageRows == [role : {"user", "assistant"}, by : Requests, question : Requests, attempt : 0 .. MaxRetries]
ToldRows == [what : {"nothing", "error", "retry", "retried", "complete"}, question : Requests,
             attempt : 0 .. MaxRetries]

\* A request stores one message of each kind at most.
MessagesOK ==
    /\ messages \in Seq(MessageRows)
    /\ \A i \in DOMAIN messages : \A h \in Requests :
           messages[i].by = h => messages[i].question = QuestionOf(h) /\ messages[i].attempt = AttemptOf(h)
    /\ \A i, j \in DOMAIN messages :
           messages[i].role = messages[j].role /\ messages[i].by = messages[j].by => i = j

ToldNothing(h) == told[h] = [what |-> "nothing", question |-> h, attempt |-> 0]

Early == {"start", "rememberQuestion", "question"}
Between == {"attachments", "history", "agents", "rememberAnswer", "answer"}

ChatRequestOK(h, s) ==
    /\ s.step = "idle" => s.op = "none"
    /\ s.step # "done" => ToldNothing(h)
    /\ s.op = "streamChat" /\ s.step \notin {"idle", "done"} => s.step \in Early \cup Between \cup {"touch"}
    /\ s.op # "streamChat" \/ s.step \in {"idle"} \cup Early => ~Spoken("user", h) /\ ~Spoken("assistant", h)
    /\ s.op = "streamChat" /\ s.step \in Between => Spoken("user", h) /\ ~Spoken("assistant", h)
    /\ s.op = "streamChat" /\ s.step = "touch" => Spoken("user", h) /\ Spoken("assistant", h)
    /\ s.op = "streamChat" /\ s.step = "question" => <<"user", h>> \in remembered
    /\ s.op = "streamChat" /\ s.step = "answer" => <<"assistant", h>> \in remembered
    /\ s.op = "streamChat" /\ s.step = "agents" =>
           [role |-> "user", by |-> h, question |-> s.arg.question, attempt |-> s.arg.attempt] \in Range(s.mem)
    /\ s.op \in {"shareSession", "updateSession"} /\ s.step = "write" => s.mem \in SessionRows
    /\ s.op = "updateSession" /\ s.step # "done" => s.arg \in {"title", "tag"}
    /\ s.op = "shareSession" /\ s.step # "done" => s.arg = "none"

\* While no query fails, who was answered is not told to retry.
AnsweredIsOver == \A h \in Requests : Spoken("assistant", h) => told[h].what \in {"nothing", "complete"}

\* What holds whatever overlaps or fails.
ChatInv ==
    /\ Shape /\ faults \in Nat
    /\ session = NoSession \/ session \in SessionRows
    /\ told \in [Requests -> ToldRows]
    /\ AttemptsOK /\ RetriesOK /\ MessagesOK /\ TranscriptSound
    /\ \A h \in Requests : ChatRequestOK(h, handler[h])
    /\ faults = 0 => AnsweredIsOver

\* The question of the only request at work is the last message.
LastIsMine(h, s) ==
    s.op = "streamChat" /\ s.step \in Between =>
        /\ messages # <<>>
        /\ Last(messages).role = "user" /\ Last(messages).by = h

\* What a request will write leaves the session shared.
MergeKeeps(s) ==
    s.step = "write" =>
        /\ s.op = "shareSession" => "shared" \in s.mem.metadata
        /\ s.op = "updateSession" /\ session # NoSession => session.metadata \subseteq s.mem.metadata

SharedStays ==
    session # NoSession /\ (\E h \in Requests : handler[h].op = "shareSession" /\ handler[h].step = "done") =>
        "shared" \in session.metadata

\* The inductive invariant.
ChatTurnInv ==
    /\ ChatInv
    /\ ~overlapped => /\ OneAtWork /\ Alternating
                      /\ \A h \in Requests : Running(h) => LastIsMine(h, handler[h])
    /\ Undisturbed => /\ SharedStays
                      /\ \A h \in Requests : Running(h) => MergeKeeps(handler[h])

ChatTurn == ChatTurnInv /\ Turns /\ faults' \in Nat /\ faults <= faults'

LEMMA ChatBefore == ASSUME ChatTurn, Undisturbed' PROVE Undisturbed
<1>1. ~overlapped
  BY TurnBefore DEF ChatTurn, Undisturbed
<1>2. faults \in Nat /\ faults' = 0 /\ faults <= faults'
  BY DEF ChatTurn, ChatTurnInv, ChatInv, Undisturbed
<1>3. faults = 0
  BY <1>2
<1>. QED
  BY <1>1, <1>3 DEF Undisturbed

LEMMA ChatFound ==
    ASSUME ChatTurn, NEW h \in Requests
    PROVE  /\ ChatInv /\ Shape /\ ChatRequestOK(h, handler[h])
           /\ ~overlapped' => ~overlapped /\ OneAtWork /\ Alternating
           /\ Undisturbed' => SharedStays
           /\ Running(h) => /\ ~overlapped' => LastIsMine(h, handler[h])
                            /\ Undisturbed' => MergeKeeps(handler[h])
                            /\ handler[h].step \notin {"idle", "done"}
           /\ faults' = 0 => faults = 0
<1>1. ~overlapped' => ~overlapped
  BY TurnBefore DEF ChatTurn
<1>2. faults' = 0 => faults = 0
  <2>1. faults \in Nat
    BY DEF ChatTurn, ChatTurnInv, ChatInv
  <2>. QED
    BY <2>1 DEF ChatTurn
<1>. QED
  BY <1>1, <1>2, ChatBefore DEF ChatTurn, ChatTurnInv, ChatInv, Running

SamePairs == \A g \in Requests : QuestionOf(g)' = QuestionOf(g) /\ AttemptOf(g)' = AttemptOf(g)

\* What has to be shown of a step of request h
LEMMA ChatMovesOn ==
    ASSUME ChatTurn, NEW h \in Requests, NEW s, Moves(h, s), handler[h].step # "done",
           Running(h) \/ s.step \notin {"idle", "done"},
           \A g \in Requests \ {h} : handler[g].step # "done" => told'[g] = told[g],
           \A g \in Requests \ {h} : \A role \in {"user", "assistant"} : Spoken(role, g)' = Spoken(role, g),
           remembered \subseteq remembered',
           session' = NoSession \/ session' \in SessionRows, told' \in [Requests -> ToldRows],
           AttemptsOK', RetriesOK', MessagesOK', TranscriptSound', ChatRequestOK(h, s)',
           faults' = 0 => AnsweredIsOver',
           ~overlapped' => Alternating' /\ LastIsMine(h, s)',
           Undisturbed' => SharedStays' /\ MergeKeeps(s)'
    PROVE  ChatTurnInv'
<1>1. ASSUME NEW g \in Requests PROVE ChatRequestOK(g, handler[g])'
  <2>1. CASE g = h
    <3>1. handler'[g] = s
      BY <2>1 DEF Moves
    <3>. QED
      BY <2>1, <3>1 DEF ChatRequestOK
  <2>2. CASE g # h
    <3>1. handler'[g] = handler[g] /\ ChatRequestOK(g, handler[g])
      BY <2>2, ChatFound DEF Moves
    <3>2. /\ Spoken("user", g)' = Spoken("user", g) /\ Spoken("assistant", g)' = Spoken("assistant", g)
          /\ handler[g].step # "done" => ToldNothing(g)' = ToldNothing(g)
      BY <2>2 DEF ToldNothing
    <3>. QED
      BY <3>1, <3>2 DEF ChatRequestOK
  <2>. QED
    BY <2>1, <2>2
<1>2. ChatInv'
  BY <1>1 DEF ChatInv, Moves, ChatTurn
<1>3. ASSUME ~overlapped'
      PROVE  OneAtWork' /\ \A g \in Requests \ {h} : ~Running(g)'
  BY <1>3, ChatFound, MovesAlone DEF ChatTurn
<1>4. LastIsMine(h, s)' => LastIsMine(h, handler[h])'
  BY DEF Moves, LastIsMine
<1>5. MergeKeeps(s)' => MergeKeeps(handler[h])'
  BY DEF Moves, MergeKeeps
<1>6. Undisturbed' => ~overlapped'
  BY DEF Undisturbed
<1>. QED
  BY <1>2, <1>3, <1>4, <1>5, <1>6 DEF ChatTurnInv

LEMMA SamePairsOK ==
    ASSUME ChatInv, NEW h \in Requests, SamePairs,
           \A g \in Requests \ {h} : told'[g] = told[g],
           told'[h] = told[h] \/ told[h].what = "nothing"
    PROVE  AttemptsOK' /\ (messages' = messages => MessagesOK')
<1>1. AttemptsOK /\ MessagesOK
  BY DEF ChatInv
<1>2. \A g \in Requests : told[g].what = "retried" => told'[g].what = "retried"
  OBVIOUS
<1>3. AttemptsOK'
  BY <1>1, <1>2 DEF AttemptsOK, SamePairs
<1>4. messages' = messages => MessagesOK'
  BY <1>1 DEF MessagesOK, SamePairs
<1>. QED
  BY <1>3, <1>4

\* A step that stores no message, and tells the client no more than it should
LEMMA ChatTells ==
    ASSUME ChatTurn, NEW h \in Requests, NEW s, Moves(h, s), Running(h), s.op = handler[h].op,
           SamePairs, s.step # "idle", UNCHANGED <<session, messages>>, remembered \subseteq remembered',
           told' = told \/ told' = [told EXCEPT ![h] = told'[h]],
           told'[h] \in ToldRows, told'[h].what = "retry" => told'[h].attempt < MaxRetries,
           told'[h].what = "complete" => Spoken("user", h) /\ Spoken("assistant", h),
           faults' = 0 /\ Spoken("assistant", h) => told'[h].what \in {"nothing", "complete"},
           ChatRequestOK(h, s)', LastIsMine(h, handler[h]) => LastIsMine(h, s),
           MergeKeeps(handler[h]) => MergeKeeps(s),
           s.op = "shareSession" /\ s.step = "done" => session = NoSession \/ ~Undisturbed'
    PROVE  ChatTurnInv'
<1>1. /\ ChatInv /\ ChatRequestOK(h, handler[h])
      /\ ~overlapped' => Alternating /\ LastIsMine(h, handler[h])
      /\ Undisturbed' => SharedStays /\ MergeKeeps(handler[h])
      /\ handler[h].step # "done" /\ (faults' = 0 => faults = 0)
  BY ChatFound
<1>2. /\ \A g \in Requests \ {h} : told'[g] = told[g]
      /\ told' \in [Requests -> ToldRows] /\ told[h].what = "nothing"
  BY <1>1 DEF ChatInv, ChatRequestOK, ToldNothing
<1>3. AttemptsOK' /\ MessagesOK'
  BY <1>1, <1>2, SamePairsOK
<1>4. RetriesOK'
  BY <1>1, <1>2 DEF ChatInv, RetriesOK
<1>5. \A role, g : Spoken(role, g)' = Spoken(role, g)
  BY DEF Spoken
<1>6. TranscriptSound'
  BY <1>1, <1>2, <1>5 DEF ChatInv, TranscriptSound
<1>7. faults' = 0 => AnsweredIsOver'
  BY <1>1, <1>2, <1>5 DEF ChatInv, AnsweredIsOver
<1>8. ~overlapped' => Alternating' /\ LastIsMine(h, s)'
  BY <1>1 DEF Alternating, LastIsMine
<1>9. Undisturbed' => SharedStays' /\ MergeKeeps(s)'
  BY <1>1 DEF SharedStays, MergeKeeps, Moves
<1>10. session' = NoSession \/ session' \in SessionRows
  BY <1>1 DEF ChatInv
<1>. QED
  BY <1>1, <1>2, <1>3, <1>4, <1>5, <1>6, <1>7, <1>8, <1>9, <1>10, ChatMovesOn

\* What a request of a stream asks stays what it asked when it ends.
LEMMA PairsStay ==
    ASSUME NEW h \in Requests, NEW s, Moves(h, s), Running(h), s.op = handler[h].op,
           \A g \in Requests \ {h} : told'[g] = told[g],
           handler[h].op = "streamChat" =>
               \/ s.step \notin {"idle", "done"} /\ s.arg = handler[h].arg /\ told'[h] = told[h]
               \/ /\ s.step = "done" /\ told'[h].question = handler[h].arg.question
                  /\ told'[h].attempt = handler[h].arg.attempt,
           handler[h].op # "streamChat" => told'[h] = told[h]
    PROVE  SamePairs
<1>1. \A g \in Requests \ {h} : handler'[g] = handler[g] /\ told'[g] = told[g]
  BY DEF Moves
<1>2. \A g \in Requests \ {h} : QuestionOf(g)' = QuestionOf(g) /\ AttemptOf(g)' = AttemptOf(g)
  BY <1>1 DEF QuestionOf, AttemptOf, Streams, Running, Arg
<1>3. QuestionOf(h)' = QuestionOf(h) /\ AttemptOf(h)' = AttemptOf(h)
  <2>1. handler'[h] = s
    BY DEF Moves
  <2>2. CASE handler[h].op = "streamChat"
    BY <2>1, <2>2 DEF QuestionOf, AttemptOf, Streams, Running, Arg
  <2>3. CASE handler[h].op # "streamChat"
    BY <2>1, <2>3 DEF QuestionOf, AttemptOf, Streams, Running, Arg
  <2>. QED
    BY <2>2, <2>3
<1>. QED
  BY <1>2, <1>3 DEF SamePairs

\* A stream goes on and stores no message.
LEMMA StreamPasses ==
    ASSUME ChatTurn, NEW h \in Requests, NEW s, Moves(h, s), Running(h), handler[h].op = "streamChat",
           s.op = "streamChat", s.arg = handler[h].arg, UNCHANGED <<session, messages, told>>,
           remembered \subseteq remembered',
           \/ handler[h].step \in Early /\ s.step \in Early
           \/ handler[h].step \in Between /\ s.step \in Between,
           s.step = "question" => <<"user", h>> \in remembered',
           s.step = "answer" => <<"assistant", h>> \in remembered',
           s.step = "agents" => Row("user", h) \in Range(s.mem)
    PROVE  ChatTurnInv'
<1>1. ChatInv /\ ChatRequestOK(h, handler[h]) /\ handler[h].step \notin {"idle", "done"}
  BY ChatFound
<1>2. s.step \notin {"idle", "done", "touch", "write"} /\ handler[h].step # "touch"
  BY DEF Early, Between
<1>3. SamePairs
  BY <1>2, PairsStay
<1>4. told[h] \in ToldRows /\ ToldNothing(h)
  BY <1>1 DEF ChatInv, ChatRequestOK
<1>5. ToldNothing(h)' /\ \A role : Spoken(role, h)' = Spoken(role, h)
  BY <1>4 DEF ToldNothing, Spoken
<1>6. ChatRequestOK(h, s)'
  <2>1. s.step = "agents" =>
            [role |-> "user", by |-> h, question |-> s.arg.question, attempt |-> s.arg.attempt] \in Range(s.mem)
    BY DEF Row, Arg
  <2>2. handler[h].step \in Early => ~Spoken("user", h) /\ ~Spoken("assistant", h)
    BY <1>1 DEF ChatRequestOK
  <2>3. handler[h].step \in Between => Spoken("user", h) /\ ~Spoken("assistant", h)
    BY <1>1 DEF ChatRequestOK
  <2>4. Early \cap Between = {}
    BY DEF Early, Between
  <2>. QED
    BY <1>2, <1>5, <2>1, <2>2, <2>3, <2>4 DEF ChatRequestOK
<1>7. LastIsMine(h, handler[h]) => LastIsMine(h, s)
  BY DEF LastIsMine, Early, Between
<1>8. MergeKeeps(s)
  BY <1>2 DEF MergeKeeps
<1>9. told[h].what = "nothing"
  BY <1>4 DEF ToldNothing
<1>. QED
  BY <1>2, <1>3, <1>4, <1>6, <1>7, <1>8, <1>9, ChatTells

\* The message of h is in the history that it reads.
LEMMA HistoryHasMine ==
    ASSUME ChatInv, NEW h \in Requests, Streams(h), Spoken("user", h)
    PROVE  Row("user", h) \in Range(messages)
<1>1. PICK m \in Range(messages) : m.role = "user" /\ m.by = h
  BY DEF Spoken
<1>2. PICK i \in DOMAIN messages : messages[i] = m
  BY <1>1 DEF Range
<1>3. m \in MessageRows
  BY <1>2 DEF ChatInv, MessagesOK
<1>4. m.question = QuestionOf(h) /\ m.attempt = AttemptOf(h)
  BY <1>1, <1>2 DEF ChatInv, MessagesOK
<1>5. m = Row("user", h)
  BY <1>1, <1>3, <1>4 DEF MessageRows, Row, QuestionOf, AttemptOf
<1>. QED
  BY <1>1, <1>5

\* A stream ends, stores no message, and tells its client so.
LEMMA StreamEnds ==
    ASSUME ChatTurn, NEW h \in Requests, NEW s, Moves(h, s), Running(h), handler[h].op = "streamChat",
           s.op = "streamChat", s.step = "done", UNCHANGED <<session, messages, remembered>>,
           NEW what \in {"error", "retry", "complete"}, Tell(h, what),
           what = "retry" => MayRetry(h), what = "complete" => handler[h].step = "touch",
           what # "complete" /\ handler[h].step = "touch" => faults' # 0
    PROVE  ChatTurnInv'
<1>1. ChatInv /\ ChatRequestOK(h, handler[h]) /\ handler[h].step \notin {"idle", "done"}
  BY ChatFound
<1>2. told' = [told EXCEPT ![h] = [what |-> what, question |-> handler[h].arg.question,
                                   attempt |-> handler[h].arg.attempt]]
  BY DEF Tell, Arg
<1>3. handler[h].arg.question \in Requests /\ handler[h].arg.attempt \in 0 .. MaxRetries
  <2>1. QuestionOf(h) = handler[h].arg.question /\ AttemptOf(h) = handler[h].arg.attempt
    BY DEF QuestionOf, AttemptOf, Streams, Arg
  <2>. QED
    BY <1>1, <2>1 DEF ChatInv, AttemptsOK
<1>4. told'[h] = [what |-> what, question |-> handler[h].arg.question, attempt |-> handler[h].arg.attempt]
  BY <1>1, <1>2 DEF ChatInv
<1>5. told'[h] \in ToldRows /\ told'[h].what = what /\ told'[h].attempt = handler[h].arg.attempt
  BY <1>3, <1>4 DEF ToldRows
<1>6. told' = [told EXCEPT ![h] = told'[h]] /\ \A g \in Requests \ {h} : told'[g] = told[g]
  BY <1>1, <1>2, <1>4 DEF ChatInv
<1>7. SamePairs
  BY <1>4, <1>6, PairsStay
<1>8. handler[h].step = "touch" => Spoken("user", h) /\ Spoken("assistant", h)
  BY <1>1 DEF ChatRequestOK
<1>9. handler[h].step # "touch" => ~Spoken("assistant", h)
  BY <1>1 DEF ChatRequestOK
<1>10. ChatRequestOK(h, s)'
  BY DEF ChatRequestOK, Early, Between
<1>11. LastIsMine(h, s) /\ MergeKeeps(s)
  BY DEF LastIsMine, MergeKeeps, Between
<1>12. told'[h].what = "retry" => told'[h].attempt < MaxRetries
  BY <1>5 DEF MayRetry, Arg
<1>. QED
  BY <1>5, <1>6, <1>7, <1>8, <1>9, <1>10, <1>11, <1>12, ChatTells

LEMMA StreamFailsEnds ==
    ASSUME ChatTurn, NEW h \in Requests, End(h) \/ Fault(h), Running(h), handler[h].op = "streamChat",
           StreamFails(h), handler[h].step = "touch" => faults' # 0
    PROVE  ChatTurnInv'
<1>1. Shape
  BY ChatFound
<1>2. PICK s : Moves(h, s) /\ s.op = "streamChat" /\ s.step = "done"
  BY <1>1, Ends
<1>3. CASE Tell(h, "error")
  BY <1>2, <1>3, StreamEnds DEF StreamFails
<1>4. CASE Tell(h, "retry") /\ MayRetry(h)
  BY <1>2, <1>4, StreamEnds DEF StreamFails
<1>. QED
  BY <1>3, <1>4 DEF StreamFails

\* Other requests, as long as they do not write
LEMMA OthersPass ==
    ASSUME ChatTurn, NEW h \in Requests, NEW s, Moves(h, s), Running(h), handler[h].op # "streamChat",
           s.op = handler[h].op, s.step # "idle", UNCHANGED cvars, s.step \notin {"done"} => s.arg = handler[h].arg,
           s.op \in {"shareSession", "updateSession"} /\ s.step = "write" => s.mem \in SessionRows,
           MergeKeeps(s), s.op = "shareSession" /\ s.step = "done" => session = NoSession \/ ~Undisturbed'
    PROVE  ChatTurnInv'
<1>1. ChatInv /\ ChatRequestOK(h, handler[h]) /\ handler[h].step \notin {"idle", "done"}
  BY ChatFound
<1>2. told[h] \in ToldRows /\ ToldNothing(h) /\ told[h].what = "nothing"
  BY <1>1 DEF ChatInv, ChatRequestOK, ToldNothing
<1>3. told' = told /\ UNCHANGED <<session, messages, remembered>>
  BY DEF cvars
<1>4. SamePairs
  BY <1>3, PairsStay
<1>5. ToldNothing(h)' /\ \A role : Spoken(role, h)' = Spoken(role, h)
  BY <1>2, <1>3 DEF ToldNothing, Spoken
<1>6. ChatRequestOK(h, s)'
  BY <1>1, <1>5 DEF ChatRequestOK
<1>7. LastIsMine(h, s)
  BY DEF LastIsMine
<1>. QED
  BY <1>2, <1>3, <1>4, <1>6, <1>7, ChatTells

\* A request that is refused or fails before it writes to the session
LEMMA OthersEnd ==
    ASSUME ChatTurn, NEW h \in Requests, End(h) \/ Fault(h), Running(h), handler[h].op # "streamChat",
           UNCHANGED cvars, handler[h].op = "shareSession" => session = NoSession \/ ~Undisturbed'
    PROVE  ChatTurnInv'
<1>1. Shape
  BY ChatFound
<1>2. PICK s : Moves(h, s) /\ s.op = handler[h].op /\ s.step = "done"
  BY <1>1, Ends
<1>3. MergeKeeps(s)
  BY <1>2 DEF MergeKeeps
<1>. QED
  BY <1>2, <1>3, OthersPass

LEMMA StreamReads ==
    ASSUME ChatTurn, NEW h \in Requests,
           \/ OpenStream(h) \/ RememberQuestion(h) \/ InsertAttachments(h) \/ ReadHistory(h)
           \/ AgentsAnswer(h) \/ AgentsFail(h) \/ RememberAnswer(h) \/ TouchSession(h)
    PROVE  ChatTurnInv'
<1>1. ChatInv /\ Shape /\ ChatRequestOK(h, handler[h])
  BY ChatFound
<1>2. CASE OpenStream(h)
  <2>1. Running(h) /\ handler[h].op = "streamChat" /\ handler[h].step \in Early
    BY <1>2 DEF OpenStream, At, Running, Early
  <2>2. CASE session # NoSession
    <3>1. Goto(h, "rememberQuestion") /\ UNCHANGED <<session, messages, told, remembered>>
      BY <1>2, <2>2 DEF OpenStream, Check
    <3>2. PICK s : /\ Moves(h, s) /\ s.op = handler[h].op /\ s.step = "rememberQuestion"
                   /\ s.arg = handler[h].arg
      BY <1>1, <3>1, GoesOn
    <3>. QED
      BY <2>1, <3>1, <3>2, StreamPasses DEF Early
  <2>3. CASE session = NoSession
    <3>1. End(h) /\ Tell(h, "error") /\ UNCHANGED <<session, messages, remembered>> /\ handler[h].step = "start"
      BY <1>2, <2>3 DEF OpenStream, Check, At
    <3>2. PICK s : Moves(h, s) /\ s.op = handler[h].op /\ s.step = "done"
      BY <1>1, <3>1, Ends
    <3>. QED
      BY <2>1, <3>1, <3>2, StreamEnds
  <2>. QED
    BY <2>2, <2>3
<1>3. CASE RememberQuestion(h)
  <2>1. /\ Running(h) /\ handler[h].op = "streamChat" /\ handler[h].step \in Early
        /\ Goto(h, "question") /\ UNCHANGED <<session, messages, told>>
        /\ remembered \subseteq remembered' /\ <<"user", h>> \in remembered'
    BY <1>3 DEF RememberQuestion, At, Running, Early
  <2>2. PICK s : Moves(h, s) /\ s.op = handler[h].op /\ s.step = "question" /\ s.arg = handler[h].arg
    BY <1>1, <2>1, GoesOn
  <2>. QED
    BY <2>1, <2>2, StreamPasses DEF Early
<1>4. CASE InsertAttachments(h)
  <2>1. /\ Running(h) /\ handler[h].op = "streamChat" /\ handler[h].step \in Between
        /\ Goto(h, "history") /\ UNCHANGED <<session, messages, told, remembered>>
    BY <1>4 DEF InsertAttachments, At, Running, Between
  <2>2. PICK s : Moves(h, s) /\ s.op = handler[h].op /\ s.step = "history" /\ s.arg = handler[h].arg
    BY <1>1, <2>1, GoesOn
  <2>. QED
    BY <2>1, <2>2, StreamPasses DEF Between
<1>5. CASE ReadHistory(h)
  <2>1. /\ Running(h) /\ handler[h].op = "streamChat" /\ handler[h].step \in Between /\ Streams(h)
        /\ Keep(h, "agents", messages) /\ UNCHANGED <<session, messages, told, remembered>>
    BY <1>5 DEF ReadHistory, At, Running, Between, Streams, cvars
  <2>2. PICK s : /\ Moves(h, s) /\ s.op = handler[h].op /\ s.step = "agents" /\ s.arg = handler[h].arg
                 /\ s.mem = messages
    BY <1>1, <2>1, GoesOn
  <2>3. Row("user", h) \in Range(s.mem)
    BY <1>1, <2>1, <2>2, HistoryHasMine DEF ChatRequestOK
  <2>. QED
    BY <2>1, <2>2, <2>3, StreamPasses DEF Between
<1>6. CASE AgentsAnswer(h)
  <2>1. /\ Running(h) /\ handler[h].op = "streamChat" /\ handler[h].step \in Between
        /\ Keep(h, "rememberAnswer", "nothing") /\ UNCHANGED <<session, messages, told, remembered>>
    BY <1>6 DEF AgentsAnswer, At, Running, Between, cvars
  <2>2. PICK s : Moves(h, s) /\ s.op = handler[h].op /\ s.step = "rememberAnswer" /\ s.arg = handler[h].arg
    BY <1>1, <2>1, GoesOn
  <2>. QED
    BY <2>1, <2>2, StreamPasses DEF Between
<1>7. CASE AgentsFail(h)
  BY <1>7, StreamFailsEnds DEF AgentsFail, At, Running
<1>8. CASE RememberAnswer(h)
  <2>1. /\ Running(h) /\ handler[h].op = "streamChat" /\ handler[h].step \in Between
        /\ Goto(h, "answer") /\ UNCHANGED <<session, messages, told>>
        /\ remembered \subseteq remembered' /\ <<"assistant", h>> \in remembered'
    BY <1>8 DEF RememberAnswer, At, Running, Between
  <2>2. PICK s : Moves(h, s) /\ s.op = handler[h].op /\ s.step = "answer" /\ s.arg = handler[h].arg
    BY <1>1, <2>1, GoesOn
  <2>. QED
    BY <2>1, <2>2, StreamPasses DEF Between
<1>9. CASE TouchSession(h)
  <2>1. /\ Running(h) /\ handler[h].op = "streamChat" /\ handler[h].step = "touch"
        /\ Tell(h, "complete") /\ End(h) /\ UNCHANGED <<session, messages, remembered>>
    BY <1>9 DEF TouchSession, At, Running
  <2>2. PICK s : Moves(h, s) /\ s.op = handler[h].op /\ s.step = "done"
    BY <1>1, <2>1, Ends
  <2>. QED
    BY <2>1, <2>2, StreamEnds
<1>. QED
  BY <1>2, <1>3, <1>4, <1>5, <1>6, <1>7, <1>8, <1>9

\* What is merged into a session is a session, and what was shared stays so.
LEMMA MergedIs ==
    ASSUME session \in SessionRows, NEW h \in Requests, handler[h].op \in {"shareSession", "updateSession"},
           handler[h].op = "updateSession" => Arg(h) \in {"title", "tag"},
           handler[h].op = "shareSession" => Arg(h) = "none"
    PROVE  /\ Merged(h) \in SessionRows /\ session.metadata \subseteq Merged(h).metadata
           /\ handler[h].op = "shareSession" => "shared" \in Merged(h).metadata
<1>1. \A keys : session.metadata \subseteq keys /\ keys \subseteq {"shared", "tag"} =>
          LET merged == [session EXCEPT !.metadata = keys] IN
          merged \in SessionRows /\ merged.metadata = keys
  BY DEF SessionRows
<1>2. LET merged == [session EXCEPT !.title = "second"] IN
      merged \in SessionRows /\ merged.metadata = session.metadata
  BY DEF SessionRows
<1>3. session.metadata \subseteq {"shared", "tag"}
  BY DEF SessionRows
<1>4. CASE handler[h].op = "shareSession"
  <2>1. Merged(h) = [session EXCEPT !.metadata = session.metadata \cup {"shared"}]
    BY <1>4 DEF Merged
  <2>. QED
    BY <1>1, <1>3, <2>1
<1>5. CASE handler[h].op # "shareSession" /\ Arg(h) = "title"
  BY <1>2, <1>5 DEF Merged
<1>6. CASE handler[h].op # "shareSession" /\ Arg(h) = "tag"
  <2>1. Merged(h) = [session EXCEPT !.metadata = session.metadata \cup {Arg(h)}]
    BY <1>6 DEF Merged
  <2>. QED
    BY <1>1, <1>3, <1>6, <2>1
<1>. QED
  BY <1>4, <1>5, <1>6

LEMMA OthersRead ==
    ASSUME ChatTurn, NEW h \in Requests, ReadSession(h) \/ CheckDeleteSession(h)
    PROVE  ChatTurnInv'
<1>1. ChatInv /\ Shape /\ ChatRequestOK(h, handler[h])
  BY ChatFound
<1>2. Running(h) /\ handler[h].op # "streamChat" /\ UNCHANGED cvars /\ handler[h].step = "start"
  BY DEF ReadSession, CheckDeleteSession, At, Running
<1>3. CASE ReadSession(h) /\ session # NoSession
  <2>1. handler[h].op \in {"shareSession", "updateSession"} /\ Keep(h, "write", Merged(h))
    BY <1>3 DEF ReadSession
  <2>2. PICK s : /\ Moves(h, s) /\ s.op = handler[h].op /\ s.step = "write" /\ s.arg = handler[h].arg
                 /\ s.mem = Merged(h)
    BY <1>1, <2>1, GoesOn
  <2>3. /\ session \in SessionRows
        /\ handler[h].op = "updateSession" => Arg(h) \in {"title", "tag"}
        /\ handler[h].op = "shareSession" => Arg(h) = "none"
    BY <1>1, <1>2, <1>3 DEF ChatInv, ChatRequestOK, Arg
  <2>4. s.mem \in SessionRows /\ MergeKeeps(s)
    BY <2>1, <2>2, <2>3, MergedIs DEF MergeKeeps
  <2>. QED
    BY <1>2, <2>2, <2>4, OthersPass
<1>4. CASE ReadSession(h) /\ session = NoSession
  BY <1>2, <1>4, OthersEnd DEF ReadSession
<1>5. CASE CheckDeleteSession(h) /\ session # NoSession
  <2>1. handler[h].op = "deleteSession" /\ Goto(h, "delete")
    BY <1>5 DEF CheckDeleteSession, At, Check
  <2>2. PICK s : Moves(h, s) /\ s.op = handler[h].op /\ s.step = "delete" /\ s.arg = handler[h].arg
    BY <1>1, <2>1, GoesOn
  <2>3. MergeKeeps(s)
    BY <2>2 DEF MergeKeeps
  <2>. QED
    BY <1>2, <2>1, <2>2, <2>3, OthersPass
<1>6. CASE CheckDeleteSession(h) /\ session = NoSession
  BY <1>2, <1>6, OthersEnd DEF CheckDeleteSession, At, Check
<1>. QED
  BY <1>3, <1>4, <1>5, <1>6

LEMMA SpokenIs == \A role, h : Spoken(role, h) \in BOOLEAN /\ Spoken(role, h)' \in BOOLEAN
BY DEF Spoken

LEMMA AppendIs ==
    ASSUME NEW S, NEW q \in Seq(S), NEW e \in S, NEW n, n = Len(q)
    PROVE  /\ n \in Nat /\ DOMAIN q = 1 .. n /\ Append(q, e) \in Seq(S)
           /\ DOMAIN Append(q, e) = 1 .. n + 1 /\ Append(q, e)[n + 1] = e
           /\ \A i \in 1 .. n : Append(q, e)[i] = q[i]
           /\ Append(q, e) # <<>> /\ Last(Append(q, e)) = e
           /\ q # <<>> => n \in 1 .. n /\ Last(q) = q[n]
<1>1. n \in Nat /\ DOMAIN q = 1 .. n /\ \A i \in 1 .. n : q[i] \in S
  OBVIOUS
<1>2. PICK t : t = Append(q, e)
  OBVIOUS
<1>3. /\ t \in Seq(S) /\ Len(t) = n + 1 /\ t[n + 1] = e /\ \A i \in 1 .. n : t[i] = q[i]
  BY <1>2
<1>4. DOMAIN t = 1 .. n + 1 /\ t # <<>> /\ Last(t) = e
  BY <1>1, <1>3 DEF Last
<1>5. q # <<>> => n \in 1 .. n /\ Last(q) = q[n]
  BY <1>1 DEF Last
<1>. QED
  BY <1>1, <1>2, <1>3, <1>4, <1>5

\* A stream stores one of its messages.
LEMMA StreamStores ==
    ASSUME ChatTurn, NEW h \in Requests, NEW s, Moves(h, s), Running(h), handler[h].op = "streamChat",
           s.op = "streamChat", s.arg = handler[h].arg, session # NoSession,
           UNCHANGED <<session, remembered, told>>,
           NEW role, messages' = Append(messages, Row(role, h)),
           \/ role = "user" /\ handler[h].step = "question" /\ s.step = "attachments"
           \/ role = "assistant" /\ handler[h].step = "answer" /\ s.step = "touch"
    PROVE  ChatTurnInv'
<1> DEFINE e == Row(role, h)
           n == Len(messages)
<1>1. /\ ChatInv /\ ChatRequestOK(h, handler[h]) /\ ToldNothing(h)
      /\ ~overlapped' => Alternating /\ LastIsMine(h, handler[h])
      /\ Undisturbed' => SharedStays
      /\ faults' = 0 => faults = 0
  <2>1. ChatRequestOK(h, handler[h]) /\ handler[h].step # "done"
    BY ChatFound
  <2>. QED
    BY <2>1, ChatFound DEF ChatRequestOK
<1>2. Streams(h) /\ QuestionOf(h) = Arg(h).question /\ AttemptOf(h) = Arg(h).attempt
  BY DEF Streams, QuestionOf, AttemptOf
<1>3. /\ e \in MessageRows /\ e.role = role /\ e.by = h /\ e.question = QuestionOf(h) /\ e.attempt = AttemptOf(h)
      /\ role \in {"user", "assistant"}
  <2>1. Arg(h).question \in Requests /\ Arg(h).attempt \in 0 .. MaxRetries
    BY <1>1, <1>2 DEF ChatInv, AttemptsOK
  <2>. QED
    BY <1>2, <2>1 DEF Row, MessageRows
<1>4. /\ ~Spoken(role, h) /\ <<role, h>> \in remembered
      /\ role = "assistant" => Spoken("user", h)
      /\ role = "user" => ~Spoken("assistant", h)
  BY <1>1 DEF ChatRequestOK, Early, Between
<1>5. messages \in Seq(MessageRows)
  BY <1>1 DEF ChatInv, MessagesOK
<1>6. /\ n \in Nat /\ DOMAIN messages = 1 .. n /\ messages' \in Seq(MessageRows)
      /\ DOMAIN messages' = 1 .. n + 1 /\ messages'[n + 1] = e /\ messages' # <<>> /\ Last(messages') = e
      /\ \A i \in 1 .. n : messages'[i] = messages[i] /\ messages[i] \in MessageRows
      /\ messages # <<>> => n \in 1 .. n /\ Last(messages) = messages[n]
  <2> HIDE DEF e
  <2>1. messages' = Append(messages, e)
    BY DEF e
  <2>. QED
    BY <1>3, <1>5, <2>1, AppendIs
<1>7. SamePairs /\ AttemptsOK'
  <2>1. SamePairs
    BY PairsStay
  <2>. QED
    BY <1>1, <2>1, SamePairsOK
<1> HIDE DEF e, n
<1>8. \A r, g : Spoken(r, g)' <=> Spoken(r, g) \/ (r = role /\ g = h)
  BY <1>3, <1>6 DEF Spoken, Range
<1>9. \A i \in 1 .. n : messages[i].role # role \/ messages[i].by # h
  BY <1>4, <1>6 DEF Spoken, Range
<1>10. MessagesOK'
  <2>1. \A i \in 1 .. n : messages[i].by \in Requests
    BY <1>6 DEF MessageRows
  <2>2. ASSUME NEW i \in DOMAIN messages', NEW g \in Requests, messages'[i].by = g
        PROVE  messages'[i].question = QuestionOf(g)' /\ messages'[i].attempt = AttemptOf(g)'
    <3>1. QuestionOf(g)' = QuestionOf(g) /\ AttemptOf(g)' = AttemptOf(g)
      BY <1>7 DEF SamePairs
    <3>2. CASE i \in 1 .. n
      BY <1>1, <1>6, <2>2, <3>1, <3>2 DEF ChatInv, MessagesOK
    <3>3. CASE i = n + 1
      BY <1>3, <1>6, <2>2, <3>1, <3>3
    <3>. QED
      BY <1>6, <3>2, <3>3
  <2>3. \A i, j \in DOMAIN messages' :
            messages'[i].role = messages'[j].role /\ messages'[i].by = messages'[j].by => i = j
    <3>1. \A i, j \in 1 .. n : messages[i].role = messages[j].role /\ messages[i].by = messages[j].by => i = j
      BY <1>1, <1>6 DEF ChatInv, MessagesOK
    <3>. QED
      BY <1>3, <1>6, <1>9, <3>1
  <2>. QED
    BY <1>6, <2>2, <2>3 DEF MessagesOK
<1>11. role = "assistant" => e = [Row("assistant", h) EXCEPT !.role = "assistant"] /\ [e EXCEPT !.role = "user"] = Row("user", h)
  BY DEF e, Row
<1>12. role = "assistant" => \E j \in 1 .. n : messages[j] = Row("user", h)
  <2>1. role = "assistant" => Row("user", h) \in Range(messages)
    BY <1>1, <1>2, <1>4, HistoryHasMine
  <2>. QED
    BY <1>6, <2>1 DEF Range
<1>13. TranscriptSound'
  <2>1. ASSUME NEW i \in 1 .. n + 1
        PROVE  /\ <<messages'[i].role, messages'[i].by>> \in remembered
               /\ messages'[i].role = "assistant" =>
                      \E j \in 1 .. (i - 1) : messages'[j] = [messages'[i] EXCEPT !.role = "user"]
    <3>1. CASE i \in 1 .. n
      <4>1. /\ <<messages[i].role, messages[i].by>> \in remembered
            /\ messages[i].role = "assistant" =>
                   \E j \in 1 .. (i - 1) : messages[j] = [messages[i] EXCEPT !.role = "user"]
        BY <1>1, <1>6, <3>1 DEF ChatInv, TranscriptSound
      <4>2. \A j \in 1 .. (i - 1) : messages'[j] = messages[j]
        BY <1>6, <3>1
      <4>. QED
        BY <1>6, <3>1, <4>1, <4>2
    <3>2. CASE i = n + 1
      <4>1. 1 .. (i - 1) = 1 .. n /\ messages'[i] = e
        BY <1>6, <3>2
      <4>2. ASSUME role = "assistant"
            PROVE  \E j \in 1 .. n : messages'[j] = [e EXCEPT !.role = "user"]
        BY <1>6, <1>11, <1>12, <4>2
      <4>3. e.role = "assistant" => \E j \in 1 .. (i - 1) : messages'[j] = [e EXCEPT !.role = "user"]
        BY <1>3, <4>1, <4>2
      <4>4. <<messages'[i].role, messages'[i].by>> \in remembered
        BY <1>3, <1>4, <4>1
      <4>5. messages'[i].role = "assistant" =>
                \E j \in 1 .. (i - 1) : messages'[j] = [messages'[i] EXCEPT !.role = "user"]
        BY <4>1, <4>3
      <4>. QED
        BY <4>4, <4>5
    <3>3. i \in 1 .. n \/ i = n + 1
      BY <1>6
    <3>. QED
      BY <3>1, <3>2, <3>3
  <2>2. \A g \in Requests : told[g].what = "complete" => Spoken("user", g)' /\ Spoken("assistant", g)'
    BY <1>1, <1>8 DEF ChatInv, TranscriptSound
  <2>. QED
    BY <1>6, <2>1, <2>2 DEF TranscriptSound
<1>14. ~overlapped' => Alternating' /\ LastIsMine(h, s)'
  <2>1. ASSUME ~overlapped', role = "assistant"
        PROVE  messages[n] = Row("user", h) /\ n \in 1 .. n
    <3>1. /\ messages # <<>> /\ n \in 1 .. n
          /\ messages[n].role = "user" /\ messages[n].by = h
      BY <1>1, <1>6, <2>1 DEF LastIsMine, Between
    <3>2. PICK j \in 1 .. n : messages[j] = Row("user", h)
      BY <1>12, <2>1
    <3>3. messages[j].role = "user" /\ messages[j].by = h
      BY <3>2 DEF Row
    <3>4. j = n
      BY <1>1, <1>6, <3>1, <3>3 DEF ChatInv, MessagesOK
    <3>. QED
      BY <3>1, <3>2, <3>4
  <2>2. ASSUME ~overlapped', NEW i \in 1 .. n, messages[i].role = "assistant"
        PROVE  messages'[i - 1] = [messages[i] EXCEPT !.role = "user"]
    <3>1. messages[i - 1] = [messages[i] EXCEPT !.role = "user"]
      BY <1>1, <1>6, <2>2 DEF Alternating
    <3>2. PICK j \in 1 .. (i - 1) : TRUE
      BY <1>1, <1>6, <2>2 DEF ChatInv, TranscriptSound
    <3>3. i - 1 \in 1 .. n
      BY <1>6, <3>2
    <3>. QED
      BY <1>6, <3>1, <3>3
  <2>3. ASSUME ~overlapped', role = "assistant"
        PROVE  messages'[(n + 1) - 1] = [messages'[n + 1] EXCEPT !.role = "user"]
    <3>1. (n + 1) - 1 = n
      BY <1>6
    <3>. QED
      BY <1>6, <1>11, <2>1, <2>3, <3>1
  <2>4. ASSUME ~overlapped', NEW i \in DOMAIN messages', messages'[i].role = "assistant"
        PROVE  messages'[i - 1] = [messages'[i] EXCEPT !.role = "user"]
    <3>1. CASE i \in 1 .. n
      <4>1. messages'[i] = messages[i]
        BY <1>6, <3>1
      <4>. QED
        BY <2>2, <2>4, <3>1, <4>1
    <3>2. CASE i = n + 1
      BY <1>3, <1>6, <2>3, <2>4, <3>2
    <3>3. i \in 1 .. n \/ i = n + 1
      BY <1>6
    <3>. QED
      BY <3>1, <3>2, <3>3
  <2>5. LastIsMine(h, s)'
    BY <1>3, <1>6 DEF LastIsMine, Between
  <2>6. ~overlapped' => Alternating'
    BY <2>4 DEF Alternating
  <2>. QED
    BY <2>5, <2>6
<1>15. ChatRequestOK(h, s)'
  <2>1. ToldNothing(h)'
    BY <1>1 DEF ToldNothing
  <2>. QED
    BY <1>4, <1>8, <2>1 DEF ChatRequestOK, Early, Between
<1>16. faults' = 0 => AnsweredIsOver'
  BY <1>1, <1>8 DEF ChatInv, AnsweredIsOver, ToldNothing
<1>17. Undisturbed' => SharedStays' /\ MergeKeeps(s)'
  BY <1>1 DEF SharedStays, MergeKeeps, Moves
<1>18. RetriesOK'
  BY <1>1 DEF ChatInv, RetriesOK
<1>19. told' \in [Requests -> ToldRows] /\ session' \in SessionRows
  BY <1>1 DEF ChatInv
<1>20. ASSUME NEW g \in Requests \ {h}, NEW r \in {"user", "assistant"} PROVE Spoken(r, g)' = Spoken(r, g)
  <2>1. Spoken(r, g)' <=> Spoken(r, g)
    BY <1>8
  <2>. QED
    BY <2>1, SpokenIs
<1>21. handler[h].step # "done"
  BY DEF Running
<1>. QED
  BY <1>7, <1>10, <1>13, <1>14, <1>15, <1>16, <1>17, <1>18, <1>19, <1>20, <1>21, ChatMovesOn

LEMMA Inserts ==
    ASSUME ChatTurn, NEW h \in Requests, InsertQuestion(h) \/ InsertAnswer(h)
    PROVE  ChatTurnInv'
<1>1. ChatInv /\ Shape
  BY ChatFound
<1>2. PICK role, step :
          /\ InsertMessage(h, role, step) /\ handler[h].op = "streamChat"
          /\ \/ role = "user" /\ handler[h].step = "question" /\ step = "attachments"
             \/ role = "assistant" /\ handler[h].step = "answer" /\ step = "touch"
  BY DEF InsertQuestion, InsertAnswer, At
<1>3. Running(h) /\ handler[h].step # "touch"
  BY <1>2 DEF Running
<1>4. CASE session # NoSession
  <2>1. /\ messages' = Append(messages, Row(role, h)) /\ Goto(h, step)
        /\ UNCHANGED <<session, remembered, told>>
    BY <1>2, <1>4 DEF InsertMessage
  <2>2. PICK s : s = Request(handler[h].op, step, handler[h].arg, handler[h].mem)
    OBVIOUS
  <2>3. Moves(h, s)
    BY <1>1, <2>1, <2>2, GotoMoves
  <2>4. s.op = handler[h].op /\ s.step = step /\ s.arg = handler[h].arg
    BY <2>2 DEF Request
  <2>. QED
    BY <1>2, <1>3, <1>4, <2>1, <2>3, <2>4, StreamStores
<1>5. CASE session = NoSession
  <2>1. StreamFails(h) /\ End(h)
    BY <1>2, <1>5 DEF InsertMessage
  <2>. QED
    BY <1>2, <1>3, <2>1, StreamFailsEnds
<1>. QED
  BY <1>4, <1>5

\* Of a request that has stored nothing, no message tells what it asks.
LEMMA MessagesStay ==
    ASSUME ChatInv, NEW h \in Requests, ~Spoken("user", h), ~Spoken("assistant", h), messages' = messages,
           \A g \in Requests \ {h} : QuestionOf(g)' = QuestionOf(g) /\ AttemptOf(g)' = AttemptOf(g)
    PROVE  MessagesOK'
<1>1. \A i \in DOMAIN messages : messages[i] \in MessageRows
  BY DEF ChatInv, MessagesOK
<1>2. \A i \in DOMAIN messages : messages[i].by # h
  BY <1>1 DEF MessageRows, Spoken, Range
<1>. QED
  BY <1>2 DEF ChatInv, MessagesOK

\* A stream that fails before anything tells its client nothing: who retried a question
\* may have been the last to.
LEMMA StartFails ==
    ASSUME ChatTurn, NEW h \in Requests, Fault(h), At(h, "streamChat", "start"), UNCHANGED cvars
    PROVE  ChatTurnInv'
<1>1. /\ ChatInv /\ Shape /\ ChatRequestOK(h, handler[h]) /\ Running(h)
      /\ faults' = 0 => faults = 0
      /\ ~overlapped' => Alternating
      /\ Undisturbed' => SharedStays
  BY ChatFound DEF At, Running
<1>2. PICK s : Moves(h, s) /\ s.op = "streamChat" /\ s.step = "done"
  BY <1>1, Ends DEF At
<1>3. ToldNothing(h) /\ ~Spoken("user", h) /\ ~Spoken("assistant", h)
  BY <1>1 DEF ChatRequestOK, At, Early
<1>4. UNCHANGED <<session, messages, remembered, told>> /\ \A role, g : Spoken(role, g)' = Spoken(role, g)
  BY DEF cvars, Spoken
<1>5. QuestionOf(h)' = h /\ AttemptOf(h)' = 0
  BY <1>2, <1>3, <1>4 DEF QuestionOf, AttemptOf, Streams, Running, Moves, ToldNothing
<1>6. \A g \in Requests \ {h} : QuestionOf(g)' = QuestionOf(g) /\ AttemptOf(g)' = AttemptOf(g)
  BY <1>2, <1>4 DEF QuestionOf, AttemptOf, Streams, Running, Moves, Arg
<1>7. MessagesOK'
  BY <1>1, <1>3, <1>4, <1>6, MessagesStay
<1>8. AttemptsOK'
  <2>1. AttemptsOK /\ told[h].what = "nothing" /\ MaxRetries \in Nat
    BY <1>1, <1>3, ChatAssumption DEF ChatInv, ToldNothing
  <2>2. \A g \in Requests : QuestionOf(g) \in Requests /\ AttemptOf(g) \in 0 .. MaxRetries
    BY <2>1 DEF AttemptsOK
  <2>3. \A g \in Requests : QuestionOf(g)' \in Requests /\ AttemptOf(g)' \in 0 .. MaxRetries
    BY <1>5, <1>6, <2>1, <2>2
  <2>4. \A g \in Requests \ {h} : QuestionOf(g) = h => AttemptOf(g) # 0 /\ AttemptOf(h) = 0 /\ QuestionOf(h) = h
    BY <2>1, <2>2 DEF AttemptsOK
  <2>5. \A g \in Requests \ {h} : QuestionOf(g) # h
    BY <2>1, <2>2, <2>4 DEF AttemptsOK
  <2>6. \A g, k \in Requests : QuestionOf(g)' = QuestionOf(k)' => (g = h <=> k = h)
    BY <1>5, <1>6, <2>5
  <2>7. \A g \in Requests : AttemptOf(QuestionOf(g))' = 0
    <3>1. ASSUME NEW g \in Requests \ {h}, NEW k \in Requests, k = QuestionOf(g) PROVE AttemptOf(k)' = 0
      BY <1>6, <2>1, <2>5, <3>1 DEF AttemptsOK
    <3>2. ASSUME NEW g \in Requests, NEW k \in Requests, k = QuestionOf(g)' PROVE AttemptOf(k)' = 0
      BY <1>5, <1>6, <3>1, <3>2
    <3>. QED
      BY <2>3, <3>2
  <2>. QED
    BY <1>4, <1>5, <1>6, <2>1, <2>3, <2>6, <2>7 DEF AttemptsOK
<1>9. ChatRequestOK(h, s)'
  BY <1>2, <1>3, <1>4 DEF ChatRequestOK, Early, Between
<1>10. TranscriptSound' /\ RetriesOK' /\ (faults' = 0 => AnsweredIsOver')
  BY <1>1, <1>4 DEF ChatInv, TranscriptSound, RetriesOK, AnsweredIsOver
<1>11. LastIsMine(h, s)' /\ MergeKeeps(s)' /\ (~overlapped' => Alternating')
  BY <1>1, <1>2, <1>4 DEF LastIsMine, MergeKeeps, Alternating, Between
<1>12. Undisturbed' => SharedStays'
  BY <1>1, <1>2, <1>4 DEF SharedStays, Moves
<1>13. told' \in [Requests -> ToldRows] /\ (session' = NoSession \/ session' \in SessionRows)
  BY <1>1, <1>4 DEF ChatInv
<1>14. handler[h].step # "done"
  BY DEF At
<1>. QED
  BY <1>1, <1>2, <1>4, <1>7, <1>8, <1>9, <1>10, <1>11, <1>12, <1>13, <1>14, ChatMovesOn

LEMMA Faults ==
    ASSUME ChatTurn, NEW h \in Requests, ChatFault(h)
    PROVE  ChatTurnInv'
<1>1. /\ ChatInv /\ Fault(h) /\ Running(h) /\ faults' # 0
  <2>1. ChatInv
    BY ChatFound
  <2>. QED
    BY <2>1 DEF ChatFault, Fault, ChatInv
<1>2. CASE handler[h].op = "streamChat" /\ handler[h].step # "start"
  BY <1>1, <1>2, StreamFailsEnds DEF ChatFault
<1>3. CASE handler[h].op = "streamChat" /\ handler[h].step = "start"
  BY <1>1, <1>3, StartFails DEF ChatFault, At
<1>4. CASE handler[h].op # "streamChat"
  BY <1>1, <1>4, OthersEnd DEF ChatFault, Undisturbed
<1>. QED
  BY <1>2, <1>3, <1>4

\* A request writes to the session, which stays if there are messages.
LEMMA SessionChanges ==
    ASSUME ChatTurn, NEW h \in Requests, End(h), Running(h), handler[h].op # "streamChat",
           UNCHANGED <<messages, remembered, told>>, session' = NoSession \/ session' \in SessionRows,
           session' = NoSession => session = NoSession \/ messages = <<>>,
           Undisturbed' /\ session' # NoSession =>
               /\ session # NoSession
               /\ "shared" \in session.metadata => "shared" \in session'.metadata
               /\ handler[h].op = "shareSession" => "shared" \in session'.metadata
    PROVE  ChatTurnInv'
<1>1. /\ ChatInv /\ Shape /\ ChatRequestOK(h, handler[h]) /\ handler[h].step \notin {"idle", "done"}
      /\ faults' = 0 => faults = 0
      /\ ~overlapped' => Alternating
      /\ Undisturbed' => SharedStays
  BY ChatFound
<1>2. PICK s : Moves(h, s) /\ s.op = handler[h].op /\ s.step = "done"
  BY <1>1, Ends
<1>3. \A role, g : Spoken(role, g)' = Spoken(role, g)
  BY DEF Spoken
<1>4. AttemptsOK' /\ MessagesOK'
  <2>1. SamePairs
    BY <1>2, PairsStay
  <2>. QED
    BY <1>1, <2>1, SamePairsOK
<1>5. ChatRequestOK(h, s)'
  BY <1>1, <1>2, <1>3 DEF ChatRequestOK
<1>6. TranscriptSound' /\ RetriesOK' /\ (faults' = 0 => AnsweredIsOver')
  BY <1>1, <1>3 DEF ChatInv, TranscriptSound, RetriesOK, AnsweredIsOver
<1>7. LastIsMine(h, s)' /\ MergeKeeps(s)' /\ (~overlapped' => Alternating')
  BY <1>1, <1>2 DEF LastIsMine, MergeKeeps, Alternating
<1>8. Undisturbed' => SharedStays'
  BY <1>1, <1>2 DEF SharedStays, Moves
<1>9. told' \in [Requests -> ToldRows]
  BY <1>1 DEF ChatInv
<1>. QED
  BY <1>1, <1>2, <1>3, <1>4, <1>5, <1>6, <1>7, <1>8, <1>9, ChatMovesOn

LEMMA SessionWrites ==
    ASSUME ChatTurn, NEW h \in Requests, WriteSession(h) \/ DeleteSession(h)
    PROVE  ChatTurnInv'
<1>1. /\ End(h) /\ Running(h) /\ handler[h].op # "streamChat" /\ UNCHANGED <<messages, remembered, told>>
  BY DEF WriteSession, DeleteSession, At, Running
<1>2. /\ session = NoSession \/ session \in SessionRows
      /\ ChatRequestOK(h, handler[h])
      /\ Undisturbed' => MergeKeeps(handler[h])
  BY <1>1, ChatFound DEF ChatInv
<1>3. CASE WriteSession(h)
  <2>1. handler[h].step = "write" /\ handler[h].op \in {"shareSession", "updateSession"} /\ handler[h].mem \in SessionRows
    BY <1>2, <1>3 DEF WriteSession, ChatRequestOK
  <2>2. CASE session = NoSession
    <3>1. session' = NoSession
      BY <1>3, <2>2 DEF WriteSession
    <3>. QED
      BY <1>1, <2>2, <3>1, SessionChanges
  <2>3. CASE session # NoSession /\ handler[h].op = "updateSession"
    <3>1. session' = handler[h].mem
      BY <1>3, <2>3 DEF WriteSession, Mem
    <3>2. session' # NoSession
      BY <2>1, <3>1, ChatAssumption
    <3>3. Undisturbed' => session.metadata \subseteq session'.metadata
      BY <1>2, <2>1, <2>3, <3>1 DEF MergeKeeps
    <3>. QED
      BY <1>1, <2>1, <2>3, <3>1, <3>2, <3>3, SessionChanges
  <2>4. CASE session # NoSession /\ handler[h].op = "shareSession"
    <3>1. session' = [session EXCEPT !.metadata = handler[h].mem.metadata] /\ session \in SessionRows
      BY <1>2, <1>3, <2>4 DEF WriteSession, Mem
    <3>2. session' \in SessionRows /\ session'.metadata = handler[h].mem.metadata
      BY <2>1, <3>1 DEF SessionRows
    <3>3. Undisturbed' => "shared" \in session'.metadata
      BY <1>2, <2>1, <2>4, <3>2 DEF MergeKeeps
    <3>4. session' # NoSession
      BY <3>2, ChatAssumption
    <3>. QED
      BY <1>1, <2>4, <3>2, <3>3, <3>4, SessionChanges
  <2>. QED
    BY <2>1, <2>2, <2>3, <2>4
<1>4. CASE DeleteSession(h)
  <2>1. /\ handler[h].op = "deleteSession"
        /\ session' = session \/ (session' = NoSession /\ messages = <<>>)
    BY <1>4 DEF DeleteSession, At
  <2>. QED
    BY <1>1, <1>2, <2>1, SessionChanges
<1>. QED
  BY <1>3, <1>4

\* A request begins.
LEMMA ChatBegins ==
    ASSUME ChatTurn, NEW h \in Requests, NEW op, NEW arg, Ask(h, op, arg),
           UNCHANGED <<session, messages, remembered>>, AttemptsOK', MessagesOK', RetriesOK',
           told' \in [Requests -> ToldRows], told'[h] = told[h],
           \A g \in Requests : \/ told'[g] = told[g]
                               \/ handler[g].step = "done" /\ told[g].what = "retry" /\ told'[g].what = "retried",
           op = "updateSession" => arg \in {"title", "tag"}, op = "shareSession" => arg = "none"
    PROVE  ChatTurnInv'
<1>1. /\ ChatInv /\ Shape /\ ChatRequestOK(h, handler[h])
      /\ faults' = 0 => faults = 0
      /\ ~overlapped' => Alternating
      /\ Undisturbed' => SharedStays
  BY ChatFound
<1>2. PICK s : s = Request(op, "start", arg, "nothing")
  OBVIOUS
<1>3. Moves(h, s) /\ handler[h].step = "idle"
  BY <1>1, <1>2, AskMoves
<1>4. s.op = op /\ s.step = "start" /\ s.arg = arg
  BY <1>2 DEF Request
<1>5. \A role, g : Spoken(role, g)' = Spoken(role, g)
  BY DEF Spoken
<1>6. ToldNothing(h)' /\ ~Spoken("user", h) /\ ~Spoken("assistant", h)
  BY <1>1, <1>3 DEF ChatRequestOK, ToldNothing
<1>7. ChatRequestOK(h, s)'
  BY <1>4, <1>5, <1>6 DEF ChatRequestOK, Early, Between
<1>8. TranscriptSound'
  BY <1>1, <1>5 DEF ChatInv, TranscriptSound
<1>9. faults' = 0 => AnsweredIsOver'
  BY <1>1, <1>5 DEF ChatInv, AnsweredIsOver
<1>10. LastIsMine(h, s)' /\ MergeKeeps(s)' /\ (~overlapped' => Alternating')
  BY <1>1, <1>4 DEF LastIsMine, MergeKeeps, Alternating, Between
<1>11. Undisturbed' => SharedStays'
  BY <1>1, <1>3, <1>4 DEF SharedStays, Moves
<1>12. session' = NoSession \/ session' \in SessionRows
  BY <1>1 DEF ChatInv
<1>. QED
  BY <1>3, <1>4, <1>5, <1>7, <1>8, <1>9, <1>10, <1>11, <1>12, ChatMovesOn

\* Who asked for a retry is not the one who answers the call, and asks no more.
LEMMA RetriedPairs ==
    ASSUME ChatInv, NEW h \in Requests, NEW g \in Requests, handler[h].step = "idle", Retry(h, g)
    PROVE  /\ AttemptsOK' /\ MessagesOK' /\ RetriesOK' /\ told' \in [Requests -> ToldRows]
           /\ handler[g].step = "done" /\ told'[g].what = "retried" /\ told'[h] = told[h]
           /\ \A k \in Requests \ {g} : told'[k] = told[k]
<1> DEFINE q == told[g].question
           a == told[g].attempt
<1>1. /\ told[g].what = "retry" /\ told' = [told EXCEPT ![g].what = "retried"]
      /\ messages' = messages /\ Ask(h, "streamChat", [question |-> q, attempt |-> a + 1])
  BY DEF Retry
<1>2. /\ Shape /\ ChatRequestOK(h, handler[h]) /\ ChatRequestOK(g, handler[g])
      /\ AttemptsOK /\ RetriesOK /\ told \in [Requests -> ToldRows]
  BY DEF ChatInv
<1>3. /\ ToldNothing(h) /\ handler[g].step = "done" /\ g # h
      /\ ~Spoken("user", h) /\ ~Spoken("assistant", h)
  BY <1>1, <1>2 DEF ChatRequestOK, ToldNothing
<1>4. /\ q \in Requests /\ a \in 0 .. MaxRetries /\ a < MaxRetries /\ a + 1 \in 0 .. MaxRetries /\ a + 1 # 0
  <2>1. told[g] \in ToldRows /\ a < MaxRetries
    BY <1>1, <1>2 DEF RetriesOK
  <2>. QED
    BY <2>1, ChatAssumption DEF ToldRows
<1>5. /\ told'[g] = [told[g] EXCEPT !.what = "retried"]
      /\ \A k \in Requests \ {g} : told'[k] = told[k]
      /\ told' = [told EXCEPT ![g] = told'[g]]
  BY <1>1, <1>2
<1>6. /\ told'[g].what = "retried" /\ told'[g].question = q /\ told'[g].attempt = a /\ told'[g] \in ToldRows
  BY <1>2, <1>5 DEF ToldRows
<1>7. told' \in [Requests -> ToldRows] /\ RetriesOK'
  BY <1>2, <1>5, <1>6 DEF RetriesOK
<1>8. /\ QuestionOf(g) = q /\ AttemptOf(g) = a /\ QuestionOf(h) = h /\ AttemptOf(h) = 0
  BY <1>3 DEF QuestionOf, AttemptOf, Streams, Running, ToldNothing
<1>9. PICK s : s = Request("streamChat", "start", [question |-> q, attempt |-> a + 1], "nothing")
  OBVIOUS
<1>10. Moves(h, s) /\ s.op = "streamChat" /\ s.step = "start" /\ s.arg.question = q /\ s.arg.attempt = a + 1
  BY <1>1, <1>2, <1>9, AskMoves DEF Request
<1> HIDE DEF q, a
<1>11. /\ QuestionOf(h)' = q /\ AttemptOf(h)' = a + 1
       /\ \A k \in Requests \ {h} : QuestionOf(k)' = QuestionOf(k) /\ AttemptOf(k)' = AttemptOf(k)
  <2>1. QuestionOf(h)' = q /\ AttemptOf(h)' = a + 1
    BY <1>10 DEF QuestionOf, AttemptOf, Streams, Running, Moves, Arg
  <2>2. ASSUME NEW k \in Requests \ {h} PROVE QuestionOf(k)' = QuestionOf(k) /\ AttemptOf(k)' = AttemptOf(k)
    <3>1. handler'[k] = handler[k] /\ told'[k].question = told[k].question /\ told'[k].attempt = told[k].attempt
      BY <1>5, <1>6, <1>10 DEF Moves, q, a
    <3>. QED
      BY <3>1 DEF QuestionOf, AttemptOf, Streams, Running, Arg
  <2>. QED
    BY <2>1, <2>2
<1>12. MessagesOK'
  BY <1>1, <1>3, <1>11, MessagesStay
<1>13. \A k \in Requests : AttemptOf(k) \in 0 .. MaxRetries /\ QuestionOf(k) \in Requests
  BY <1>2 DEF AttemptsOK
<1>14. \A k \in Requests : told[k].what = "retried" => told'[k].what = "retried"
  BY <1>5, <1>6
<1>15. \A k \in Requests \ {h} : QuestionOf(k) # h
  <2>1. told[h].what = "nothing"
    BY <1>3 DEF ToldNothing
  <2>2. \A k \in Requests \ {h} : QuestionOf(k) = h => AttemptOf(k) # 0
    BY <1>2 DEF AttemptsOK
  <2>. QED
    BY <1>2, <1>8, <1>13, <2>1, <2>2 DEF AttemptsOK
<1>16. \A k \in Requests : QuestionOf(k) = q => AttemptOf(k) <= a /\ (AttemptOf(k) = a => k = g)
  <2>1. \A k \in Requests : QuestionOf(k) = q => ~(a < AttemptOf(k))
    BY <1>1, <1>2, <1>8 DEF AttemptsOK
  <2>2. \A k \in Requests : QuestionOf(k) = q /\ AttemptOf(k) = a => k = g
    BY <1>2, <1>8 DEF AttemptsOK
  <2>. QED
    BY <1>4, <1>13, <2>1, <2>2
<1>17. q # h /\ AttemptOf(q) = 0
  BY <1>2, <1>3, <1>8, <1>15 DEF AttemptsOK
<1>18. \A k \in Requests : AttemptOf(QuestionOf(k))' = 0
  <2>1. ASSUME NEW k \in Requests \ {h}, NEW l \in Requests, l = QuestionOf(k) PROVE AttemptOf(l)' = 0
    BY <1>2, <1>11, <1>15, <2>1 DEF AttemptsOK
  <2>2. ASSUME NEW k \in Requests, NEW l \in Requests, l = QuestionOf(k)' PROVE AttemptOf(l)' = 0
    BY <1>4, <1>11, <1>17, <2>1, <2>2
  <2>3. \A k \in Requests : QuestionOf(k)' \in Requests
    BY <1>4, <1>11, <1>13
  <2>. QED
    BY <2>2, <2>3
<1>19. \A k \in Requests : /\ QuestionOf(k)' \in Requests /\ AttemptOf(k)' \in 0 .. MaxRetries
                           /\ AttemptOf(k)' = 0 => QuestionOf(k)' = k
  BY <1>2, <1>4, <1>11, <1>13 DEF AttemptsOK
<1>20. ASSUME NEW k \in Requests, NEW l \in Requests, QuestionOf(k)' = QuestionOf(l)'
       PROVE  /\ AttemptOf(k)' = AttemptOf(l)' => k = l
              /\ AttemptOf(k)' < AttemptOf(l)' => told'[k].what = "retried"
  <2>1. CASE k # h /\ l # h
    BY <1>2, <1>11, <1>14, <1>20, <2>1 DEF AttemptsOK
  <2>2. CASE k = h /\ l # h
    <3>1. QuestionOf(l) = q /\ AttemptOf(l) <= a /\ AttemptOf(l) \in 0 .. MaxRetries
      BY <1>11, <1>13, <1>16, <1>20, <2>2
    <3>. QED
      BY <1>4, <1>11, <2>2, <3>1
  <2>3. CASE k # h /\ l = h
    <3>1. QuestionOf(k) = q /\ AttemptOf(k) <= a /\ AttemptOf(k) \in 0 .. MaxRetries
      BY <1>11, <1>13, <1>16, <1>20, <2>3
    <3>2. AttemptOf(k) = a => told'[k].what = "retried"
      BY <1>6, <1>16, <3>1
    <3>3. AttemptOf(k) < a => told'[k].what = "retried"
      BY <1>2, <1>8, <1>14, <3>1 DEF AttemptsOK
    <3>. QED
      BY <1>4, <1>11, <2>3, <3>1, <3>2, <3>3
  <2>4. CASE k = h /\ l = h
    BY <1>4, <1>11, <2>4
  <2>. QED
    BY <2>1, <2>2, <2>3, <2>4
<1>21. AttemptsOK'
  BY <1>18, <1>19, <1>20 DEF AttemptsOK
<1>. QED
  BY <1>3, <1>5, <1>6, <1>7, <1>12, <1>21

LEMMA ChatAsked ==
    ASSUME ChatTurn, NEW h \in Requests, ChatRequest(h)
    PROVE  ChatTurnInv'
<1>1. ChatInv /\ Shape /\ ChatRequestOK(h, handler[h])
  BY ChatFound
<1>2. ASSUME NEW g \in Requests, Retry(h, g) PROVE ChatTurnInv'
  <2>1. /\ Ask(h, "streamChat", [question |-> told[g].question, attempt |-> told[g].attempt + 1])
        /\ told[g].what = "retry" /\ UNCHANGED <<session, messages, remembered>> /\ handler[h].step = "idle"
    BY <1>2 DEF Retry, Ask
  <2>. QED
    BY <1>1, <1>2, <2>1, RetriedPairs, ChatBegins
<1>3. ASSUME NEW op, NEW arg, Ask(h, op, arg), UNCHANGED cvars,
             op = "streamChat" => arg = [question |-> h, attempt |-> 0],
             op = "updateSession" => arg \in {"title", "tag"}, op = "shareSession" => arg = "none"
      PROVE  ChatTurnInv'
  <2>1. told' = told /\ UNCHANGED <<session, messages, remembered>>
    BY <1>3 DEF cvars
  <2>2. PICK s : s = Request(op, "start", arg, "nothing")
    OBVIOUS
  <2>3. Moves(h, s) /\ handler[h].step = "idle" /\ s.op = op /\ s.arg = arg /\ s.step = "start"
    BY <1>1, <1>3, <2>2, AskMoves DEF Request
  <2>4. ToldNothing(h)
    BY <1>1, <2>3 DEF ChatRequestOK
  <2>5. \A g \in Requests \ {h} : QuestionOf(g)' = QuestionOf(g) /\ AttemptOf(g)' = AttemptOf(g)
    BY <2>1, <2>3 DEF QuestionOf, AttemptOf, Streams, Running, Moves, Arg
  <2>6. QuestionOf(h)' = QuestionOf(h) /\ AttemptOf(h)' = AttemptOf(h)
    <3>1. QuestionOf(h) = h /\ AttemptOf(h) = 0
      BY <2>3, <2>4 DEF QuestionOf, AttemptOf, Streams, Running, ToldNothing
    <3>2. QuestionOf(h)' = h /\ AttemptOf(h)' = 0
      BY <1>3, <2>1, <2>3, <2>4 DEF QuestionOf, AttemptOf, Streams, Running, ToldNothing, Moves, Arg
    <3>. QED
      BY <3>1, <3>2
  <2>7. SamePairs
    BY <2>5, <2>6 DEF SamePairs
  <2>8. AttemptsOK' /\ MessagesOK'
    BY <1>1, <2>1, <2>7, SamePairsOK
  <2>9. RetriesOK' /\ told' \in [Requests -> ToldRows]
    BY <1>1, <2>1 DEF ChatInv, RetriesOK
  <2>. QED
    BY <1>3, <2>1, <2>8, <2>9, ChatBegins
<1>4. CASE \/ Ask(h, "streamChat", [question |-> h, attempt |-> 0]) /\ UNCHANGED cvars
           \/ Ask(h, "shareSession", "none") /\ UNCHANGED cvars
           \/ Ask(h, "deleteSession", "none") /\ UNCHANGED cvars
  BY <1>3, <1>4
<1>5. CASE \E what \in {"title", "tag"} : Ask(h, "updateSession", what) /\ UNCHANGED cvars
  BY <1>3, <1>5
<1>. QED
  BY <1>2, <1>4, <1>5 DEF ChatRequest

LEMMA ChatStart == SInit /\ ChatInit /\ overlapped = FALSE => ChatTurnInv
<1> SUFFICES ASSUME SInit, ChatInit PROVE ChatTurnInv
  OBVIOUS
<1>1. \A h \in Requests : handler[h].step = "idle" /\ handler[h].op = "none"
  BY DEF SInit, Idle
<1>2. \A h \in Requests : ToldNothing(h) /\ told[h].what = "nothing" /\ ~Running(h)
  BY <1>1 DEF ChatInit, ToldNothing, Running
<1>3. ASSUME NEW h \in Requests PROVE QuestionOf(h) = h /\ AttemptOf(h) = 0
  <2>1. handler[h].op # "streamChat" /\ told[h] = [what |-> "nothing", question |-> h, attempt |-> 0]
    BY <1>1, <1>2 DEF ToldNothing
  <2>. QED
    BY <2>1 DEF QuestionOf, AttemptOf, Streams
<1>4. session \in SessionRows
  BY DEF ChatInit, SessionRows
<1>5. told \in [Requests -> ToldRows]
  <2>1. \A h \in Requests : [what |-> "nothing", question |-> h, attempt |-> 0] \in ToldRows
    BY ChatAssumption DEF ToldRows
  <2>. QED
    BY <2>1 DEF ChatInit
<1>6. messages = <<>> /\ \A role, h : ~Spoken(role, h)
  BY DEF ChatInit, Spoken, Range
<1>7. AttemptsOK
  BY <1>3, ChatAssumption DEF AttemptsOK
<1>8. MessagesOK /\ TranscriptSound /\ RetriesOK /\ AnsweredIsOver
  BY <1>2, <1>6 DEF MessagesOK, TranscriptSound, RetriesOK, AnsweredIsOver
<1>9. \A h \in Requests : ChatRequestOK(h, handler[h])
  BY <1>1, <1>2, <1>6 DEF ChatRequestOK, Between
<1>10. OneAtWork /\ Alternating /\ SharedStays
  BY <1>1, <1>2, <1>6 DEF OneAtWork, Alternating, SharedStays
<1>. QED
  BY <1>2, <1>4, <1>5, <1>7, <1>8, <1>9, <1>10, ShapeInit DEF ChatTurnInv, ChatInv, SInit

LEMMA ChatStepKeeps ==
    ChatTurnInv /\ [ChatNext /\ Turns]_<<svars, cvars, overlapped>> => ChatTurnInv'
<1> SUFFICES ASSUME ChatTurnInv, [ChatNext /\ Turns]_<<svars, cvars, overlapped>> PROVE ChatTurnInv'
  OBVIOUS
<1>1. CASE UNCHANGED <<svars, cvars, overlapped>>
  <2>1. UNCHANGED <<handler, faults, session, messages, remembered, told, overlapped>>
    BY <1>1 DEF svars, cvars
  <2>2. /\ Shape' = Shape /\ OneAtWork' = OneAtWork /\ RetriesOK' = RetriesOK
        /\ SharedStays' = SharedStays /\ Alternating' = Alternating
    BY <2>1 DEF Shape, OneAtWork, Running, RetriesOK, SharedStays, Alternating
  <2>3. /\ \A role, h : Spoken(role, h)' = Spoken(role, h)
        /\ \A h : QuestionOf(h)' = QuestionOf(h) /\ AttemptOf(h)' = AttemptOf(h) /\ Running(h)' = Running(h)
    BY <2>1 DEF Spoken, QuestionOf, AttemptOf, Streams, Running, Arg
  <2>4. TranscriptSound' = TranscriptSound /\ AnsweredIsOver' = AnsweredIsOver
    BY <2>1, <2>3 DEF TranscriptSound, AnsweredIsOver
  <2>5. AttemptsOK => AttemptsOK'
    BY <2>1, <2>3 DEF AttemptsOK
  <2>6. MessagesOK => MessagesOK'
    BY <2>1, <2>3 DEF MessagesOK
  <2>7. \A h \in Requests : ChatRequestOK(h, handler[h]) => ChatRequestOK(h, handler[h])'
    BY <2>1, <2>3 DEF ChatRequestOK, ToldNothing
  <2>8. \A h \in Requests : /\ LastIsMine(h, handler[h])' = LastIsMine(h, handler[h])
                            /\ MergeKeeps(handler[h])' = MergeKeeps(handler[h])
    BY <2>1 DEF LastIsMine, MergeKeeps
  <2>. QED
    BY <2>1, <2>2, <2>3, <2>4, <2>5, <2>6, <2>7, <2>8 DEF ChatTurnInv, ChatInv, Undisturbed
<1>2. ASSUME NEW h \in Requests, Turns, ChatRequest(h) \/ ChatStep(h) \/ ChatFault(h)
      PROVE  ChatTurnInv'
  <2>1. faults' = faults \/ faults' = faults + 1
    BY <1>2 DEF ChatStep, ChatRequest, ChatFault, Retry, OpenStream, RememberQuestion, InsertQuestion,
                InsertMessage, InsertAttachments, ReadHistory, AgentsAnswer, AgentsFail, RememberAnswer,
                InsertAnswer, TouchSession, ReadSession, WriteSession, CheckDeleteSession, DeleteSession,
                Ask, Fault, End, Keep, Goto, Check
  <2>2. ChatTurn
    <3>1. faults \in Nat
      BY DEF ChatTurnInv, ChatInv
    <3>2. faults' \in Nat /\ faults <= faults'
      BY <2>1, <3>1
    <3>. QED
      BY <1>2, <3>2 DEF ChatTurn
  <2>3. CASE ChatRequest(h) \/ ChatFault(h)
    BY <2>2, <2>3, ChatAsked, Faults
  <2>4. CASE ChatStep(h)
    BY <2>2, <2>4, StreamReads, Inserts, OthersRead, SessionWrites DEF ChatStep
  <2>. QED
    BY <1>2, <2>3, <2>4
<1>. QED
  BY <1>1, <1>2 DEF ChatNext

\* No two messages of one kind ask a question for the same time.
LEMMA AskedOnce ==
    ASSUME ChatInv, NEW i \in DOMAIN messages, NEW j \in DOMAIN messages,
           messages[i].role = messages[j].role, messages[i].question = messages[j].question
    PROVE  /\ messages[i].attempt \in 0 .. MaxRetries /\ messages[i].by \in Requests
           /\ messages[i].attempt = messages[j].attempt => i = j
           /\ messages[i].attempt < messages[j].attempt => told[messages[i].by].what = "retried"
<1>1. messages[i] \in MessageRows /\ messages[j] \in MessageRows
  BY DEF ChatInv, MessagesOK
<1>2. PICK g \in Requests, h \in Requests : messages[i].by = g /\ messages[j].by = h
  BY <1>1 DEF MessageRows
<1>3. /\ messages[i].question = QuestionOf(g) /\ messages[i].attempt = AttemptOf(g)
      /\ messages[j].question = QuestionOf(h) /\ messages[j].attempt = AttemptOf(h)
  BY <1>2 DEF ChatInv, MessagesOK
<1>4. messages[i].attempt = messages[j].attempt => g = h
  BY <1>3 DEF ChatInv, AttemptsOK
<1>5. messages[i].attempt < messages[j].attempt => told[g].what = "retried"
  <2>1. QuestionOf(g) = QuestionOf(h) /\ (AttemptOf(g) < AttemptOf(h) => told[g].what = "retried")
    <3>1. QuestionOf(g) = QuestionOf(h)
      BY <1>3
    <3>. QED
      BY <3>1 DEF ChatInv, AttemptsOK
  <2>. QED
    BY <1>3, <2>1
<1>6. g = h => i = j
  BY <1>2 DEF ChatInv, MessagesOK
<1>7. messages[i].attempt \in 0 .. MaxRetries
  BY <1>1 DEF MessageRows
<1>. QED
  BY <1>2, <1>4, <1>5, <1>6, <1>7

LEMMA RetriesCounted == ChatInv => RetriesAreLimited
<1> SUFFICES ASSUME ChatInv, NEW q \in Requests
             PROVE  Cardinality({i \in DOMAIN messages : messages[i].role = "user" /\ messages[i].question = q})
                        <= MaxRetries + 1
  BY DEF RetriesAreLimited
<1> DEFINE S == {i \in DOMAIN messages : messages[i].role = "user" /\ messages[i].question = q}
           f == [i \in S |-> messages[i].attempt]
<1>1. \A i, j \in S : f[i] \in 0 .. MaxRetries /\ (f[i] = f[j] => i = j)
  BY AskedOnce
<1>2. f \in Injection(S, 0 .. MaxRetries)
  BY <1>1 DEF Injection, IsInjective
<1>3. MaxRetries \in Nat /\ IsFiniteSet(0 .. MaxRetries) /\ Cardinality(0 .. MaxRetries) = MaxRetries + 1
  BY ChatAssumption, FS_Interval
<1> HIDE DEF S, f
<1>4. Cardinality(S) <= Cardinality(0 .. MaxRetries)
  BY <1>2, <1>3, FS_Injection
<1>. QED
  BY <1>3, <1>4 DEF S

LEMMA AnswersCounted == ASSUME ChatInv, faults = 0 PROVE AnsweredOnce
<1> SUFFICES ASSUME NEW i \in DOMAIN messages, NEW j \in DOMAIN messages,
                    messages[i].role = "assistant", messages[j].role = "assistant",
                    messages[i].question = messages[j].question
             PROVE  i = j
  BY DEF AnsweredOnce
<1>1. \A k \in {i, j} : told[messages[k].by].what # "retried"
  <2>1. ASSUME NEW k \in {i, j}, NEW g \in Requests, messages[k].by = g PROVE told[g].what # "retried"
    <3>1. Spoken("assistant", g)
      BY <2>1 DEF Spoken, Range
    <3>. QED
      BY <3>1 DEF ChatInv, AnsweredIsOver
  <2>2. messages[i].by \in Requests /\ messages[j].by \in Requests
    BY AskedOnce
  <2>. QED
    BY <2>1, <2>2
<1>2. messages[i].attempt \in 0 .. MaxRetries /\ messages[j].attempt \in 0 .. MaxRetries
  BY AskedOnce
<1>3. ~(messages[i].attempt < messages[j].attempt) /\ ~(messages[j].attempt < messages[i].attempt)
  BY <1>1, AskedOnce
<1>4. messages[i].attempt = messages[j].attempt
  BY <1>2, <1>3
<1>. QED
  BY <1>4, AskedOnce

\* However streams overlap and whatever fails, a transcript and the memory of the agents agree, a
\* question is stored once and once for each retry it is allowed, and the agents see it; with no
\* failing query it is answered once.  Of requests in turn, the answer is next to its question,
\* and a session stays shared (processMessageStream, shareSession, updateSession, deleteSession).
THEOREM ChatsAreSound == ChatTurns => []ChatSound
<1>1. ChatTurnInv => ChatSound
  <2> SUFFICES ASSUME ChatTurnInv PROVE ChatSound
    OBVIOUS
  <2>1. ChatInv
    BY DEF ChatTurnInv
  <2>2. TranscriptSound /\ RetriesAreLimited /\ (faults = 0 => AnsweredOnce)
    BY <2>1, RetriesCounted, AnswersCounted DEF ChatInv
  <2>3. AgentsSeeQuestion
    BY <2>1 DEF ChatInv, ChatRequestOK, AgentsSeeQuestion, At, Row, Arg, Mem
  <2>4. ~overlapped => Alternating
    BY DEF ChatTurnInv
  <2>5. Undisturbed /\ Quiet /\ Asked("shareSession") /\ session # NoSession => "shared" \in session.metadata
    BY <2>1 DEF ChatTurnInv, ChatInv, ChatRequestOK, SharedStays, Quiet, Running, Asked
  <2>. QED
    BY <2>2, <2>3, <2>4, <2>5 DEF ChatSound
<1>. QED
  BY <1>1, ChatStart, ChatStepKeeps, PTL DEF ChatTurns
=============================================================================
