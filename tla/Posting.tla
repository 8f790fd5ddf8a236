------------------------------- MODULE Posting -------------------------------
(***************************************************************************)
(* One job from its creation to its removal, and the candidates who view,  *)
(* save and favour it: JobService, SavedJobService, JobManagementService   *)
(* of the back office, and what JobStatusService writes.  All but the last *)
(* save the row as they read it.                                           *)
(***************************************************************************)
EXTENDS Server

CONSTANTS
    Readers,        \* candidates
    NoJob           \* stands for a row that is not there

VARIABLES
    job,            \* the jobs row
    saved,          \* saved_jobs: its candidates
    favored,        \* favorite_jobs: its candidates
    interactions,   \* job_interactions: pairs of a request and a candidate
    announced,      \* how many JobPublishedEvents were published of it
    cleared         \* how many updates took its date of posting from it

jvars == <<job, saved, favored, interactions, announced, cleared>>

Statuses == {"draft", "active", "paused", "closed"}

JobRow == [status: Statuses, posted: BOOLEAN, views: Nat, savers: SUBSET Readers]

ASSUME PostingAssumption == NoJob \notin JobRow

JobExists == job # NoJob

PostingInit ==
    /\ job \in {NoJob, [status |-> "draft", posted |-> FALSE, views |-> 0, savers |-> {}]}
    /\ saved = {} /\ favored = {} /\ interactions = {} /\ announced = 0 /\ cleared = 0

-----------------------------------------------------------------------------
(* The recruiter and the administrator *)

\* A second one is another job, which is none of this module's.
CreateJob(h) ==
    /\ At(h, "createJob", "start")
    /\ IF JobExists
       THEN UNCHANGED <<job, announced>>
       ELSE /\ job' = [status |-> Arg(h), posted |-> Arg(h) = "active", views |-> 0, savers |-> {}]
            /\ announced' = IF Arg(h) = "active" THEN 1 ELSE 0
    /\ End(h)
    /\ UNCHANGED <<saved, favored, interactions, cleared>>

\* What updateJob may change of these: of its DTO's fields, the status and the date of
\* posting, which may be null, for nothing checks the body.
Changes == [status: Statuses \cup {"same"}, date: {"same", "set", "null"}]

NewStatus(h, row) ==
    CASE handler[h].op # "updateJob"  -> Arg(h)
      [] Arg(h).status = "same"       -> row.status
      [] OTHER                        -> Arg(h).status

\* updateJob assigns the date it is given before it looks for one.
KeepsDate(h, row) ==
    CASE handler[h].op # "updateJob"  -> row.posted
      [] Arg(h).date = "same"         -> row.posted
      [] OTHER                        -> Arg(h).date = "set"

Activates(h, row) == NewStatus(h, row) = "active" /\ row.status # "active"

Clears(h) == handler[h].op = "updateJob" /\ Arg(h).date = "null"

\* What a request writes into the row it has read; the date is kept, except in
\* the back office.
Activated_Undated(h, row) ==
    [row EXCEPT !.status = NewStatus(h, row), !.posted = KeepsDate(h, row)]

Activated(h, row) ==
    [row EXCEPT !.status = NewStatus(h, row), !.posted = KeepsDate(h, row) \/ Activates(h, row)]

AnnouncesNow_Always(h) == Activates(h, job)
AnnouncesNow(h) == Activates(h, job) /\ ~job.posted

\* updateJob, updateJobStatus and the back office; the event of updateJobStatus is
\* published before the row is saved.
ReadJob(h) ==
    /\ handler[h].step = "start"
    /\ handler[h].op \in {"updateJob", "updateJobStatus", "adminJobStatus"}
    /\ IF JobExists THEN Keep(h, "save", Activated(h, job)) ELSE End(h)
    /\ announced' = announced + IF /\ JobExists
                                   /\ handler[h].op = "updateJobStatus"
                                   /\ AnnouncesNow(h) THEN 1 ELSE 0
    /\ cleared' = cleared + IF JobExists /\ Clears(h) THEN 1 ELSE 0
    /\ UNCHANGED <<job, saved, favored, interactions>>

\* save(job) inserts the row again if it was removed.
SaveJobRow(h) ==
    /\ handler[h].step = "save"
    /\ job' = Mem(h)
    /\ IF handler[h].op = "saveJob" THEN Goto(h, "interaction") ELSE End(h)
    /\ UNCHANGED <<saved, favored, interactions, announced, cleared>>

\* updateJobStatusBasedOnApplications: update() of two columns.
RecountReads(h) ==
    /\ At(h, "recount", "start")
    /\ Check(h, JobExists /\ (JobExists => job.status # Arg(h)), "close")
    /\ UNCHANGED jvars

RecountSets(h) ==
    /\ At(h, "recount", "close")
    /\ job' = IF JobExists THEN [job EXCEPT !.status = Arg(h)] ELSE job
    /\ End(h)
    /\ UNCHANGED <<saved, favored, interactions, announced, cleared>>

\* remove(job): the foreign keys of saved_jobs and favorite_jobs refuse it, the
\* interactions go with it.
RemoveJobRow(h) ==
    /\ At(h, "deleteJob", "start")
    /\ IF saved = {} /\ favored = {}
       THEN job' = NoJob /\ interactions' = {}
       ELSE UNCHANGED <<job, interactions>>
    /\ End(h)
    /\ UNCHANGED <<saved, favored, announced, cleared>>

-----------------------------------------------------------------------------
(* The candidates *)

ViewJob(h) ==
    /\ At(h, "view", "start")
    /\ job' = IF JobExists THEN [job EXCEPT !.views = @ + 1] ELSE job
    /\ End(h)
    /\ UNCHANGED <<saved, favored, interactions, announced, cleared>>

\* The row of the job is read first and kept until the end.
SaveReads(h) ==
    /\ At(h, "saveJob", "start")
    /\ IF JobExists /\ Arg(h) \notin saved THEN Keep(h, "insert", job) ELSE End(h)
    /\ UNCHANGED jvars

InsertSaved(h) ==
    /\ At(h, "saveJob", "insert")
    /\ IF JobExists /\ Arg(h) \notin saved
       THEN /\ saved' = saved \cup {Arg(h)}
            /\ IF Arg(h) \in Mem(h).savers
               THEN Goto(h, "interaction")
               ELSE Keep(h, "save", [Mem(h) EXCEPT !.savers = @ \cup {Arg(h)}])
       ELSE UNCHANGED saved /\ End(h)
    /\ UNCHANGED <<job, favored, interactions, announced, cleared>>

InsertInteraction(h) ==
    /\ handler[h].step = "interaction"
    /\ interactions' = IF JobExists THEN interactions \cup {<<h, Arg(h)>>} ELSE interactions
    /\ IF handler[h].op = "favoriteJob" /\ JobExists THEN Goto(h, "favorite") ELSE End(h)
    /\ UNCHANGED <<job, saved, favored, announced, cleared>>

DeleteSaved(h) ==
    /\ At(h, "unsaveJob", "start")
    /\ saved' = saved \ {Arg(h)}
    /\ Check(h, Arg(h) \in saved, "read")
    /\ UNCHANGED <<job, favored, interactions, announced, cleared>>

UnsaveReads(h) ==
    /\ At(h, "unsaveJob", "read")
    /\ IF JobExists THEN Keep(h, "save", [job EXCEPT !.savers = @ \ {Arg(h)}]) ELSE End(h)
    /\ UNCHANGED jvars

FavoriteReads(h) ==
    /\ At(h, "favoriteJob", "start")
    /\ Check(h, JobExists /\ Arg(h) \notin favored, "interaction")
    /\ UNCHANGED jvars

InsertFavorite(h) ==
    /\ At(h, "favoriteJob", "favorite")
    /\ favored' = IF JobExists THEN favored \cup {Arg(h)} ELSE favored
    /\ End(h)
    /\ UNCHANGED <<job, saved, interactions, announced, cleared>>

DeleteFavorite(h) ==
    /\ At(h, "unfavoriteJob", "start")
    /\ favored' = favored \ {Arg(h)}
    /\ End(h)
    /\ UNCHANGED <<job, saved, interactions, announced, cleared>>

-----------------------------------------------------------------------------
PostingRequest(h) ==
    /\ \/ ~JobExists /\ \E s \in Statuses : Ask(h, "createJob", s)
       \/ \E op \in {"updateJobStatus", "adminJobStatus"}, s \in Statuses : Ask(h, op, s)
       \/ \E c \in Changes : Ask(h, "updateJob", c)
       \/ \E s \in {"paused", "closed"} : Ask(h, "recount", s)
       \/ \E c \in Readers :
              \/ Ask(h, "saveJob", c) \/ Ask(h, "unsaveJob", c)
              \/ Ask(h, "favoriteJob", c) \/ Ask(h, "unfavoriteJob", c)
       \/ Ask(h, "view", "none")
       \/ Ask(h, "deleteJob", "none")
    /\ UNCHANGED jvars

PostingStep(h) ==
    \/ CreateJob(h) \/ ReadJob(h) \/ SaveJobRow(h) \/ RecountReads(h) \/ RecountSets(h)
    \/ RemoveJobRow(h) \/ ViewJob(h)
    \/ SaveReads(h) \/ InsertSaved(h) \/ InsertInteraction(h) \/ DeleteSaved(h) \/ UnsaveReads(h)
    \/ FavoriteReads(h) \/ InsertFavorite(h) \/ DeleteFavorite(h)

PostingNext ==
    \E h \in Requests : PostingRequest(h) \/ PostingStep(h) \/ (Fault(h) /\ UNCHANGED jvars)

PostingSpec == SInit /\ PostingInit /\ [][PostingNext]_<<svars, jvars>>

-----------------------------------------------------------------------------
(* Properties *)

\* An active job has a date of posting, whatever stale row is saved over it,
\* unless an update said that it has none (createJob, updateJob, updateJobStatus;
\* candidates see jobs by that date).
ActiveIsPosted ==
    JobExists /\ cleared = 0 => (job.status = "active" => job.posted)

\* The savers in the row of the job are those of saved_jobs (saveJob, unsaveJob).
SaversAgree == Quiet => saved = IF JobExists THEN job.savers ELSE {}
=============================================================================
