----------------------------- MODULE Interview -----------------------------
(***************************************************************************)
(* The interviews of the application whose offers Offer models:            *)
(* InterviewService.  Both write the same applications row, and their      *)
(* requests interleave.                                                    *)
(***************************************************************************)
EXTENDS Offer

InterviewOps == {"schedule", "feedback", "reschedule", "unschedule", "calloff"}

\* strongly_recommend counts as recommend.
Recommendations == {"recommend", "neutral", "not_recommend"}

VARIABLE interviews     \* status of the interviews, by the request that inserted the row

hvars == <<ovars, interviews>>

Outstanding == {i \in Requests : interviews[i] \in {"scheduled", "rescheduled"}}
Interviews == {i \in Requests : interviews[i] # "none"}

IInit == OInit /\ interviews = [h \in Requests |-> "none"]

\* update(id, {status}) of a row that may be gone.
SetInterview(i, status) ==
    interviews' = IF i \in Interviews THEN [interviews EXCEPT ![i] = status] ELSE interviews

-----------------------------------------------------------------------------

\* findOne: of the application for scheduleInterview, of the interview otherwise;
\* only submitFeedback looks at its status.
ReadInterview(h) ==
    /\ handler[h].step = "read"
    /\ handler[h].op \in InterviewOps
    /\ LET i == handler[h].target
           found == \/ handler[h].op = "schedule"
                    \/ i \in Interviews /\ (handler[h].op = "feedback" => i \in Outstanding)
       IN Goto(h, IF found THEN "interview" ELSE "done")
    /\ UNCHANGED <<offers, application, job, faults, interviews>>

ScheduleInterview(h) ==
    /\ At(h, "schedule", "interview")
    /\ interviews' = [interviews EXCEPT ![h] = "scheduled"]
    /\ Goto(h, "tally")
    /\ UNCHANGED <<offers, application, job, faults>>

CompleteInterview(h) ==
    /\ At(h, "feedback", "interview")
    /\ SetInterview(handler[h].target, "completed")
    /\ Goto(h, "tally")
    /\ UNCHANGED <<offers, application, job, faults>>

\* The status of the interview is not looked at.
RescheduleInterview(h) ==
    /\ At(h, "reschedule", "interview")
    /\ SetInterview(handler[h].target, "rescheduled")
    /\ End(h)
    /\ UNCHANGED <<offers, application, job, faults>>

\* deleteInterviewById: no counter of the application is changed.
DeleteInterview(h) ==
    /\ At(h, "unschedule", "interview")
    /\ SetInterview(handler[h].target, "none")
    /\ End(h)
    /\ UNCHANGED <<offers, application, job, faults>>

CancelInterview(h) ==
    /\ At(h, "calloff", "interview")
    /\ SetInterview(handler[h].target, "cancelled")
    /\ Goto(h, "decide")
    /\ UNCHANGED <<offers, application, job, faults>>

\* Only what is scheduled is counted, as handleInterviewFeedback adds one anyway.
TallyInterview_Scheduled(h) ==
    /\ handler[h].step = "tally"
    /\ application' = IF handler[h].op = "schedule"
                      THEN [application EXCEPT !.total = @ + 1] ELSE application
    /\ Goto(h, IF handler[h].op = "schedule" THEN "done" ELSE "decide")
    /\ UNCHANGED <<offers, job, faults, interviews>>

\* The counters are incremented in the database.
TallyInterview(h) ==
    /\ handler[h].step = "tally"
    /\ application' = IF handler[h].op = "schedule"
                      THEN [application EXCEPT !.total = @ + 1]
                      ELSE [application EXCEPT !.completed = @ + 1]
    /\ Goto(h, IF handler[h].op = "schedule" THEN "done" ELSE "decide")
    /\ UNCHANGED <<offers, job, faults, interviews>>

\* handleInterviewFeedback: the counter read already includes this interview,
\* and one more is added.
FeedbackStatus(recommendation) ==
    CASE recommendation = "not_recommend" -> "rejected"
      [] recommendation = "recommend" /\ application.completed + 1 < application.total
             -> "interview_in_progress"
      [] OTHER -> "interview_completed"

\* The application is read again and its next status chosen.
Decide(h) ==
    /\ handler[h].step = "decide"
    /\ LET next == IF handler[h].op = "calloff" THEN "screening"
                   ELSE FeedbackStatus(handler[h].arg)
           changes == IF handler[h].op = "calloff" THEN application.total = 1
                      ELSE next # application.status
       IN IF changes
          THEN handler' = [handler EXCEPT ![h].step = "move", ![h].next = next,
                                          ![h].row = application]
          ELSE End(h)
    /\ UNCHANGED <<offers, application, job, faults, interviews>>

\* A status after an interview was called off is not entered in the history.
MoveApplication(h) ==
    /\ handler[h].step = "move"
    /\ application' = [application EXCEPT !.status = NewStatus(h)]
    /\ Goto(h, IF handler[h].op = "calloff" THEN "done" ELSE "history")
    /\ UNCHANGED <<offers, job, faults, interviews>>

\* Who asks makes no difference to the interviews.
Schedule(h)       == Starts(h, "schedule", Candidate, NoOffer, "none")
Feedback(h, i, r) == Starts(h, "feedback", Candidate, i, r)
Reschedule(h, i)  == Starts(h, "reschedule", Candidate, i, "none")
Unschedule(h, i)  == Starts(h, "unschedule", Candidate, i, "none")
CallOff(h, i)     == Starts(h, "calloff", Candidate, i, "none")

InterviewRequest(h) ==
    /\ \/ Schedule(h)
       \/ \E i \in Interviews :
              \/ \E r \in Recommendations : Feedback(h, i, r)
              \/ Reschedule(h, i)
              \/ Unschedule(h, i)
              \/ CallOff(h, i)
    /\ UNCHANGED <<offers, application, job, faults, interviews>>

InterviewStep(h) ==
    \/ ReadInterview(h)
    \/ ScheduleInterview(h)
    \/ CompleteInterview(h)
    \/ RescheduleInterview(h)
    \/ DeleteInterview(h)
    \/ CancelInterview(h)
    \/ TallyInterview(h)
    \/ Decide(h)
    \/ MoveApplication(h)

HNext ==
    \/ \E h \in Requests : InterviewRequest(h) \/ InterviewStep(h)
    \/ ONext /\ UNCHANGED interviews

HSpec == IInit /\ [][HNext]_hvars

-----------------------------------------------------------------------------
(* Properties *)

\* No scheduled and no completed interview is missing from the counters of the
\* application, in any order of requests, as long as no query fails and nobody
\* saves the application as a whole (scheduleInterview, submitFeedback).
InterviewsAreCounted ==
    Quiet /\ faults = 0 /\ (\A h \in Requests : handler[h].op # "status") =>
        /\ Cardinality(Interviews) <= application.total
        /\ Cardinality({i \in Interviews : interviews[i] = "completed"}) <= application.completed

\* A recommendation has just ended the interviews of the application.
JustEnded ==
    \E h \in Requests :
        /\ At(h, "feedback", "history")
        /\ handler[h].arg = "recommend" /\ handler[h].next = "interview_completed"

-----------------------------------------------------------------------------
(* The inductive invariant behind InterviewsAreCounted *)

InterviewStatuses == {"none", "scheduled", "rescheduled", "completed", "cancelled"}

Completed == {i \in Interviews : interviews[i] = "completed"}

\* What is written to the interviews and not yet to the counters
Uncounted(op) == {h \in Requests : At(h, op, "tally")}

ApplicationOK(row) ==
    /\ row = [status |-> row.status, history |-> row.history, current |-> row.current,
              total |-> row.total, completed |-> row.completed]
    /\ row.total \in Nat /\ row.completed \in Nat

\* No query has failed and nobody saves the application as a whole.
Undamaged == faults = 0 /\ \A h \in Requests : handler[h].op # "status"

CountersHold ==
    Undamaged =>
        /\ ApplicationOK(application)
        /\ Cardinality(Interviews) <= application.total + Cardinality(Uncounted("schedule"))
        /\ Cardinality(Completed) <= application.completed + Cardinality(Uncounted("feedback"))

CountersInv ==
    /\ interviews \in [Requests -> InterviewStatuses]
    /\ \A i \in Interviews : handler[i].step # "idle"
    /\ \A h \in Requests : /\ handler[h].step = "idle"  => handler[h].op = "none"
                           /\ handler[h].step = "tally" => handler[h].op \in {"schedule", "feedback"}
    /\ faults \in Nat
    /\ CountersHold
=============================================================================
