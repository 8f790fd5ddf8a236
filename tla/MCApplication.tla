--------------------------- MODULE MCApplication ---------------------------
(* Small instances of Application for TLC: two candidates, a pipeline of     *)
(* three stages, and a history variable that tells whether two requests were *)
(* ever at work at the same time.                                            *)
EXTENDS Application, TLC

CONSTANTS c1, c2, h1, h2, h3

TwoCandidates == {c1, c2}
ThreeRequests == {h1, h2, h3}

AllOps == {"apply", "status", "update", "stage", "score", "delete", "job"}
ApplyAndHire == {"apply", "status"}
OnlyHire == {"hired"}
CloseOrOpen == {"closed", "active"}
OneOrTwo == {1, 2}

ThreeStages == <<"phone", "offer", "join">>
Forward == {<<"phone", "offer">>, <<"offer", "join">>}
StatusOfStage == [s \in {"phone", "offer", "join"} |->
                     CASE s = "phone" -> "screening"
                       [] s = "offer" -> "offer_pending"
                       [] s = "join" -> "hired"]

VARIABLE overlapped

MCInit == AInit /\ overlapped = FALSE

MCNext ==
    /\ ANext
    /\ overlapped' = (overlapped \/ \E g, h \in Requests :
                                        g # h /\ Running(g)' /\ Running(h)')

MCSpec == MCInit /\ [][MCNext]_<<avars, overlapped>>

Undisturbed == ~overlapped /\ faults = 0

\* A job that closed itself was full once (updateJobStatusBasedOnApplications).  Of
\* requests that waited for each other, with no failing query, every applicant is listed
\* with the job (createApplication), and the hiring for the last place by
\* updateApplicationStatus closes the job, if no recruiter sets its status.
JobSound ==
    /\ ClosedOnlyFull
    /\ Undisturbed =>
        /\ AppliedListed
        /\ (\A h \in Requests : handler[h].op \notin {"update", "stage", "job"}) => FullJobCloses

\* Requests that wait for each other move an application along the transitions
\* of the pipeline (changeApplicationStage).
StagesInTurn ==
    [][~overlapped' => StagesFollow]_<<avars, overlapped>>

-----------------------------------------------------------------------------
(* The inductive invariant behind both *)

\* The copies of a row that requests will save or go by.
HoldsRow(h) == /\ handler[h].op \in {"status", "update", "stage", "score", "delete"}
               /\ handler[h].step \in {"save", "reset", "remove"}

\* One request at a time works on what the tables hold.
TurnInv == ~overlapped =>
    /\ \A g, h \in Requests : Running(g) /\ Running(h) => g = h
    /\ \A h \in Requests : HoldsRow(h) => handler[h].row = app[handler[h].cand]
    /\ \A h \in Requests : HoldsJob(h) /\ handler[h].step # "savejob" => handler[h].job = job

\* Who is not listed yet will be next.
ListInv == Undisturbed =>
    \A c \in Applications : \/ c \in job.appliedBy
                            \/ \E h \in Requests : At(h, "apply", "list") /\ handler[h].cand = c

\* A full job is closed, or about to be.
Full == job.limit > 0 /\ Cardinality(Hired) >= job.limit

FullInv == Undisturbed /\ (\A h \in Requests : handler[h].op \notin {"update", "stage", "job"}) =>
    (Full => /\ \/ job.status = "closed"
                \/ \E h \in Requests :
                       handler[h].op = "status" /\ handler[h].step \in {"readjob", "count", "savejob"}
             /\ \A h \in Requests :
                    At(h, "status", "savejob") => handler[h].job.status = "closed")
=============================================================================
