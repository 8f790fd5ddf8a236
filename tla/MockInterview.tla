---------------------------- MODULE MockInterview ----------------------------
(***************************************************************************)
(* One AI mock interview: its session, its calls and their analysis, by    *)
(* the call controller and by Retell's webhook.  What a model answers is   *)
(* the request that asked it; that it fails is kept.                       *)
(***************************************************************************)
EXTENDS Server

CONSTANTS
    NoInterview,    \* stands for a session that was not created
    Nothing         \* stands for an absent value of a row

VARIABLES
    interview,      \* its row of mock_interview_sessions
    asked,          \* whether mock_interview_questions has its questions
    responses,      \* mock_interview_responses
    feedback,       \* mock_interview_feedback: the call and the request it comes from
    latest          \* history: the request that analysed a call of the session last

ivars == <<interview, asked, responses, feedback, latest>>

InterviewRow ==
    [status : {"created", "completed"}, results : Requests \cup {Nothing}, insights : Requests \cup {Nothing}]

ASSUME InterviewAssumption ==
    NoInterview \notin InterviewRow /\ Nothing \notin Requests /\ "first" \notin Requests

NewInterview == [status |-> "created", results |-> Nothing, insights |-> Nothing]

ResponseRow(id, call) ==
    [id |-> id, call |-> call, isEnded |-> FALSE, isAnalysed |-> FALSE, analytics |-> Nothing]

\* There is no session yet, or one whose call was registered.
InterviewInit ==
    /\ \/ interview = NoInterview /\ responses = {} /\ asked = FALSE
       \/ interview = NewInterview /\ responses = {ResponseRow("first", "first")} /\ asked = TRUE
    /\ feedback = {} /\ latest = Nothing

-----------------------------------------------------------------------------
(* createMockInterview and registerCall *)

InsertInterview(h) ==
    /\ At(h, "createMockInterview", "start")
    /\ interview' = NewInterview
    /\ Goto(h, "questions")
    /\ UNCHANGED <<asked, responses, feedback, latest>>

InsertQuestions(h) ==
    /\ At(h, "createMockInterview", "questions")
    /\ asked' = TRUE
    /\ End(h)
    /\ UNCHANGED <<interview, responses, feedback, latest>>

\* Retell makes a call; its row refers to the session.
RegisterCall(h) ==
    /\ At(h, "registerCall", "start")
    /\ responses' = IF interview = NoInterview THEN responses ELSE responses \cup {ResponseRow(h, h)}
    /\ End(h)
    /\ UNCHANGED <<interview, asked, feedback, latest>>

-----------------------------------------------------------------------------
(* analyzeCall and the webhook, of which Arg is the call *)

Analyses == {"analyzeCall", "retell"}
Analysing(h, step) == handler[h].op \in Analyses /\ handler[h].step = step
RowOf(call) == CHOOSE r \in responses : r.call = call

Unanalysed(h) == \E r \in responses : r.call = Arg(h) /\ ~r.isAnalysed

ReadCall(h) ==
    /\ Analysing(h, "start")
    /\ Check(h, Unanalysed(h), "model")
    /\ UNCHANGED ivars

\* The call has no transcript, or the model gives nothing that can be read.
ModelFails(h) ==
    /\ handler[h].step = "model"
    /\ End(h)
    /\ UNCHANGED ivars

ModelAnalyses(h) ==
    /\ Analysing(h, "model")
    /\ Goto(h, "scores")
    /\ UNCHANGED ivars

\* The repository of the scores is that of the responses, so a score becomes a
\* response that belongs to no call.  The answer may have no scores, or no feedback.
InsertScore(h) ==
    /\ Analysing(h, "scores")
    /\ responses' \in {responses, responses \cup {ResponseRow(h, Nothing)}}
    /\ Goto(h, "feedback")
    /\ UNCHANGED <<interview, asked, feedback, latest>>

InsertFeedback(h) ==
    /\ Analysing(h, "feedback")
    /\ feedback' \in {feedback, feedback \cup {[call |-> Arg(h), by |-> h]}}
    /\ Keep(h, "load", [interview EXCEPT !.results = h, !.insights = Nothing])
    /\ UNCHANGED <<interview, asked, responses, latest>>

LoadInterview_StatusKept(h) ==
    /\ handler[h].step = "load"
    /\ Keep(h, "results", [row |-> Mem(h), asked |-> asked, responses |-> {r.id : r \in responses},
                           feedback |-> feedback])
    /\ UNCHANGED ivars

\* updateSessionResults: getSession loads the rows that refer to the session with it.
LoadInterview(h) ==
    /\ handler[h].step = "load"
    /\ Keep(h, "results", [row |-> [Mem(h) EXCEPT !.status = "completed"],
                           asked |-> asked, responses |-> {r.id : r \in responses}, feedback |-> feedback])
    /\ UNCHANGED ivars

\* Rows that are not among those loaded would be taken from the session; their column
\* may not be null, so the save is rejected.
SameRows(h) ==
    /\ Mem(h).asked = asked
    /\ Mem(h).responses = {r.id : r \in responses}
    /\ Mem(h).feedback = feedback

SaveInterview(h) ==
    /\ handler[h].step = "results"
    /\ \/ /\ SameRows(h)
          /\ interview' = Mem(h).row
          /\ latest' = IF handler[h].op \in Analyses THEN h ELSE latest
          /\ IF handler[h].op \in Analyses THEN Keep(h, "response", "nothing") ELSE End(h)
       \/ /\ ~SameRows(h)
          /\ End(h)
          /\ UNCHANGED <<interview, latest>>
    /\ UNCHANGED <<asked, responses, feedback>>

\* The row is read once more and saved; the webhook does not say that the call ended.
ReadResponse(h) ==
    /\ Analysing(h, "response")
    /\ Keep(h, "save", [RowOf(Arg(h)) EXCEPT !.isAnalysed = TRUE, !.analytics = h,
                                             !.isEnded = @ \/ handler[h].op = "analyzeCall"])
    /\ UNCHANGED ivars

SaveResponse(h) ==
    /\ Analysing(h, "save")
    /\ responses' = {r \in responses : r.id # Mem(h).id} \cup {Mem(h)}
    /\ End(h)
    /\ UNCHANGED <<interview, asked, feedback, latest>>

-----------------------------------------------------------------------------
(* updateResponse: insights, from the session as it was read *)

ReadInterview(h) ==
    /\ At(h, "updateResponse", "start")
    /\ IF interview = NoInterview THEN End(h) ELSE Keep(h, "model", interview)
    /\ UNCHANGED ivars

\* Its results are those it had read, and the insights.
ModelHasInsights(h) ==
    /\ At(h, "updateResponse", "model")
    /\ Keep(h, "load", [Mem(h) EXCEPT !.insights = h])
    /\ UNCHANGED ivars

-----------------------------------------------------------------------------
InterviewRequest(h) ==
    /\ \/ /\ interview = NoInterview /\ \A g \in Requests : handler[g].op # "createMockInterview"
          /\ Ask(h, "createMockInterview", "none")
       \/ Ask(h, "registerCall", "none")
       \/ \E op \in Analyses, r \in responses : r.call # Nothing /\ Ask(h, op, r.call)
       \/ Ask(h, "updateResponse", "none")
    /\ UNCHANGED ivars

InterviewStep(h) ==
    \/ InsertInterview(h) \/ InsertQuestions(h) \/ RegisterCall(h)
    \/ ReadCall(h) \/ ModelFails(h) \/ ModelAnalyses(h) \/ InsertScore(h) \/ InsertFeedback(h)
    \/ LoadInterview(h) \/ SaveInterview(h) \/ ReadResponse(h) \/ SaveResponse(h)
    \/ ReadInterview(h) \/ ModelHasInsights(h)

InterviewNext ==
    \E h \in Requests : InterviewRequest(h) \/ InterviewStep(h) \/ (Fault(h) /\ UNCHANGED ivars)

InterviewSpec == SInit /\ InterviewInit /\ [][InterviewNext]_<<svars, ivars>>

-----------------------------------------------------------------------------
(* Properties *)

\* Whatever overlaps or fails: when a call is marked as analysed, its session is
\* completed, and shows the results of an analysis that was not undone (analyzeCall,
\* retell, updateSessionResults).
AnalysedIsComplete ==
    \A r \in responses :
        r.isAnalysed => r.analytics # Nothing /\ interview.status = "completed" /\ latest # Nothing

\* A call is analysed once: its feedback comes from a single request.
AnalysedOnce == \A f, g \in feedback : f.call = g.call => f = g

\* The results of the session are those of its last analysis, which its row shows.
ResultsAreLatest ==
    interview # NoInterview /\ latest # Nothing =>
        /\ interview.results = latest
        /\ \E r \in responses : r.isAnalysed /\ r.analytics = latest
=============================================================================
