---------------------------- MODULE Notifications ----------------------------
(***************************************************************************)
(* Notifications: rows of the notifications table, and the BullMQ queue    *)
(* whose jobs deliver them.  An API request inserts a row and then queues  *)
(* a job for it; the cron job of every replica queues scheduled rows that  *)
(* are due; the workers of the replicas take jobs, deliver and save the    *)
(* outcome; users mark their notifications as read.  No step is atomic     *)
(* with another, a replica may crash between any two, and queries, the     *)
(* queue and the delivery itself may fail.                                 *)
(*                                                                         *)
(* A provider whose send returns has not always delivered: only e-mail     *)
(* raises its errors.  BullMQ and the services behind the providers (SMTP, *)
(* Firebase, the sockets) are external.                                    *)
(***************************************************************************)
EXTENDS Naturals, FiniteSets

CONSTANTS
    Notifications,  \* rows of the notifications table
    Channels,       \* the channels they are sent on
    SmtpConfigured, \* whether SMTP_HOST, SMTP_USER and SMTP_PASS are set
    Jobs,           \* bound: jobs the queue can hold at a time
    Crons,          \* the cron job of every replica
    Readers,        \* requests that mark one notification as read
    Workers,        \* how many jobs are processed at a time
    Attempts,       \* how often the queue tries a job that fails
    MaxFaults       \* bound: rejected queries and queue additions, answers lost,
                    \* and crashes of a replica

ASSUME NotificationsAssumption ==
    /\ Notifications # {}
    /\ Channels \subseteq {"email", "sms", "push", "websocket"}
    /\ SmtpConfigured \in BOOLEAN
    /\ Workers \in Nat \ {0}
    /\ Attempts \in Nat \ {0}
    /\ MaxFaults \in Nat

VARIABLES
    row,        \* channel, status, scheduledAt and readAt (set or not) of every notification
    request,    \* the API request that creates each notification
    cron,       \* what each run of the cron job still has to do
    job,        \* the jobs of the queue, with the local state of their worker
    reader,     \* the local state of the mark-as-read requests
    faults,     \* how many failures and crashes there were
    delivered,  \* history: deliveries of each notification, up to two
    dropped     \* history: the notifications a provider returned for without delivering

nvars == <<row, request, cron, job, reader, faults, delivered, dropped>>

Statuses == {"none", "pending", "scheduled", "sent", "failed", "read", "gone"}
Row == [channel: Channels \cup {"none"}, status: Statuses,
        scheduledAt: {"null", "future", "past"}, read: BOOLEAN]
Exists(n) == row[n].status \notin {"none", "gone"}

\* SmtpProvider throws the errors of its transporter, so the processor hears of them.
Raises(n) == row[n].channel = "email" /\ SmtpConfigured

\* The other providers return whatever happened.
Silent(n) == row[n].channel # "none" /\ ~Raises(n)

\* SmsProvider only logs, and so does SmtpProvider without a transporter.
Reaches(n) == Raises(n) \/ row[n].channel \in {"push", "websocket"}

\* What is sent at once has no scheduledAt.
Immediate == {n \in Notifications : row[n].scheduledAt = "null"}

Processing == {"find", "send", "savesent", "failfind", "failsave"}
\* read: the readAt of the row as the worker knows it.
Job == [stage: {"free", "delayed", "waiting"} \cup Processing, of: Notifications,
        attempts: 0 .. Attempts - 1, stalls: {0, 1}, read: BOOLEAN]

Active == {j \in Jobs : job[j].stage \in Processing}
Unfinished(n) == {j \in Jobs : job[j].of = n
                                   /\ job[j].stage # "free"}

SomeRow == CHOOSE n \in Notifications : TRUE
Waiting(n, attempts, stalls) == [stage |-> "waiting", of |-> n, attempts |-> attempts,
                                 stalls |-> stalls, read |-> FALSE]
\* A job that has completed, or failed for good, leaves the queue.
Ended == [Waiting(SomeRow, 0, 0) EXCEPT !.stage = "free"]

SaveRow(n, status, read) == row' = [row EXCEPT ![n].status = status, ![n].read = read]
Goto(j, s) == job' = [job EXCEPT ![j].stage = s]

\* Queue.add
Add(n, stage) ==
    LET free == {j \in Jobs : job[j].stage = "free"} IN
    /\ free # {}
    /\ job' = [job EXCEPT ![CHOOSE j \in free : TRUE] =
                              [Waiting(n, 0, 0) EXCEPT !.stage = stage]]

Fault == /\ faults < MaxFaults
         /\ faults' = faults + 1
         /\ UNCHANGED <<delivered, dropped>>

-----------------------------------------------------------------------------
NInit ==
    /\ row = [n \in Notifications |->
                 [channel |-> "none", status |-> "none", scheduledAt |-> "null", read |-> FALSE]]
    /\ request = [n \in Notifications |-> "idle"]
    /\ cron = [c \in Crons |-> [batch |-> {}, lost |-> {}]]
    /\ job = [j \in Jobs |-> Ended]
    /\ reader = [r \in Readers |-> [stage |-> "idle", of |-> SomeRow]]
    /\ faults = 0
    /\ delivered = [n \in Notifications |-> 0]
    /\ dropped = {}

(* The API requests: SendNotificationHandler, ScheduleNotificationHandler and
   sendViaChannel of the orchestrator. *)

Creates(n) ==
    /\ request[n] = "idle"
    /\ \E channel \in Channels, at \in {"null", "past", "future"} :
           row' = [row EXCEPT ![n] =
                      [channel |-> channel, scheduledAt |-> at, read |-> FALSE,
                       status |-> IF at = "null" THEN "pending" ELSE "scheduled"]]
    /\ request' = [request EXCEPT ![n] = "queue"]
    /\ UNCHANGED <<cron, job, reader, faults, delivered, dropped>>

\* scheduleNotificationAt queues at once what is due already.
Queues(n) ==
    /\ request[n] = "queue"
    /\ Add(n, IF row[n].scheduledAt = "future" THEN "delayed" ELSE "waiting")
    /\ request' = [request EXCEPT ![n] = "done"]
    /\ UNCHANGED <<row, cron, reader, faults, delivered, dropped>>

\* The queue is down: the client gets an error, the row stays as it is.
QueueRefuses(n) ==
    /\ request[n] = "queue"
    /\ Fault
    /\ request' = [request EXCEPT ![n] = "done"]
    /\ UNCHANGED <<row, cron, job, reader>>

(* Time *)

FallsDue(n) ==
    /\ row[n].scheduledAt = "future"
    /\ row' = [row EXCEPT ![n].scheduledAt = "past"]
    /\ UNCHANGED <<request, cron, job, reader, faults, delivered, dropped>>

JobDue(j) ==
    /\ job[j].stage = "delayed"
    /\ row[job[j].of].scheduledAt = "past"
    /\ Goto(j, "waiting")
    /\ UNCHANGED <<row, request, cron, reader, faults, delivered, dropped>>

(* ScheduledNotificationScheduler, once a minute on every replica *)

\* A selection that forgets the status, and finds what is PENDING as well.
CronReads_AnyStatus(c) ==
    LET batch == {n \in Notifications :
                     /\ row[n].status \in {"pending", "scheduled"}
                     /\ row[n].scheduledAt # "future"} IN
    /\ cron[c].batch = {} /\ cron[c].lost = {} /\ batch # {}
    /\ cron' = [cron EXCEPT ![c].batch = batch]
    /\ UNCHANGED <<row, request, job, reader, faults, delivered, dropped>>

\* A comparison of scheduledAt with now the wrong way round.
CronReads_Early(c) ==
    LET batch == {n \in Notifications : row[n].status = "scheduled"
                                             /\ row[n].scheduledAt = "future"} IN
    /\ cron[c].batch = {} /\ cron[c].lost = {} /\ batch # {}
    /\ cron' = [cron EXCEPT ![c].batch = batch]
    /\ UNCHANGED <<row, request, job, reader, faults, delivered, dropped>>

\* The SCHEDULED rows that are due are read.  Nothing marks them as taken.
CronReads(c) ==
    LET batch == {n \in Notifications : row[n].status = "scheduled"
                                             /\ row[n].scheduledAt = "past"} IN
    /\ cron[c].batch = {} /\ cron[c].lost = {} /\ batch # {}
    /\ cron' = [cron EXCEPT ![c].batch = batch]
    /\ UNCHANGED <<row, request, job, reader, faults, delivered, dropped>>

\* One after the other is queued, whatever has become of its row.
CronQueues(c) ==
    /\ cron[c].lost = {}
    /\ \E n \in cron[c].batch :
           /\ Add(n, "waiting")
           /\ cron' = [cron EXCEPT ![c].batch = @ \ {n}]
    /\ UNCHANGED <<row, request, reader, faults, delivered, dropped>>

CronCannotQueue(c) ==
    /\ cron[c].lost = {}
    /\ Fault
    /\ \E n \in cron[c].batch : cron' = [cron EXCEPT ![c].batch = @ \ {n}, ![c].lost = {n}]
    /\ UNCHANGED <<row, request, job, reader>>

\* "Mark as failed if we can't queue it": the row as it was read, unread.
CronGivesUp(c) ==
    /\ \E n \in cron[c].lost : SaveRow(n, "failed", FALSE)
    /\ cron' = [cron EXCEPT ![c].lost = {}]
    /\ UNCHANGED <<request, job, reader, faults, delivered, dropped>>

\* The save is rejected too: the rest of the batch is left to the next run.
CronFails(c) ==
    /\ cron[c].lost # {}
    /\ Fault
    /\ cron' = [cron EXCEPT ![c] = [batch |-> {}, lost |-> {}]]
    /\ UNCHANGED <<row, request, job, reader>>

\* The daily clean-up, of rows created more than 30 days ago: only what was
\* scheduled long before can still have a job.
CleansUp(n) ==
    /\ row[n].status \in {"sent", "read", "failed"}
    /\ n \in Immediate => Unfinished(n) = {}
    /\ SaveRow(n, "gone", FALSE)
    /\ UNCHANGED <<request, cron, job, reader, faults, delivered, dropped>>

(* NotificationProcessor.process *)

Takes(j) ==
    /\ job[j].stage = "waiting"
    /\ Cardinality(Active) < Workers
    /\ Goto(j, "find")
    /\ UNCHANGED <<row, request, cron, reader, faults, delivered, dropped>>

\* A row that is not there raises, as everything inside the try block does.
Finds(j) ==
    /\ job[j].stage = "find"
    /\ job' = [job EXCEPT ![j].stage = IF Exists(job[j].of) THEN "send" ELSE "failfind",
                          ![j].read = row[job[j].of].read]
    /\ UNCHANGED <<row, request, cron, reader, faults, delivered, dropped>>

\* A processor that does not await provider.send, and saves SENT meanwhile.
Sends_SavesFirst(j) ==
    LET n == job[j].of IN
    /\ job[j].stage = "send"
    /\ SaveRow(n, "sent", job[j].read)
    /\ Goto(j, "savesent")
    /\ UNCHANGED <<request, cron, reader, faults, delivered, dropped>>

Delivers(n) ==
    /\ Reaches(n)
    /\ delivered' = [delivered EXCEPT ![n] = IF @ < 2 THEN @ + 1 ELSE @]
    /\ UNCHANGED dropped

\* No active token, a token that Firebase rejects, an error that allSettled takes
\* in, a recipient without a socket, or a provider that only logs.
Drops(n) ==
    /\ Silent(n)
    /\ dropped' = dropped \cup {n}
    /\ UNCHANGED delivered

\* provider.send: whether the row has changed meanwhile is not looked at, and
\* whatever returns counts as sent.
Sends(j) ==
    LET n == job[j].of IN
    /\ job[j].stage = "send"
    /\ \/ /\ Delivers(n) \/ Drops(n)
          /\ Goto(j, "savesent")
       \/ /\ Raises(n)
          /\ Goto(j, "failfind")
          /\ UNCHANGED <<delivered, dropped>>
    /\ UNCHANGED <<row, request, cron, reader, faults>>

\* Delivered, but the answer of the mail server is lost.
SendTimesOut(j) ==
    LET n == job[j].of IN
    /\ job[j].stage = "send"
    /\ Raises(n)
    /\ faults < MaxFaults
    /\ faults' = faults + 1
    /\ Delivers(n)
    /\ Goto(j, "failfind")
    /\ UNCHANGED <<row, request, cron, reader>>

\* save(notification): readAt is what it was when the row was found.
SavesSent(j) ==
    /\ job[j].stage = "savesent"
    /\ SaveRow(job[j].of, "sent", job[j].read)
    /\ job' = [job EXCEPT ![j] = Ended]
    /\ UNCHANGED <<request, cron, reader, faults, delivered, dropped>>

\* The error is rethrown: the queue tries again, or the job has failed.
Rethrow(j) ==
    LET k == job[j] IN
    job' = [job EXCEPT ![j] = IF k.attempts + 1 < Attempts
                              THEN Waiting(k.of, k.attempts + 1, k.stalls)
                              ELSE Ended]

\* The catch clause reads the row again, and saves it as FAILED.
FindsFailed(j) ==
    /\ job[j].stage = "failfind"
    /\ IF Exists(job[j].of)
       THEN job' = [job EXCEPT ![j].stage = "failsave", ![j].read = row[job[j].of].read]
       ELSE Rethrow(j)
    /\ UNCHANGED <<row, request, cron, reader, faults, delivered, dropped>>

\* A catch clause that only rethrows.
SavesFailed_Not(j) ==
    /\ job[j].stage = "failsave"
    /\ Rethrow(j)
    /\ UNCHANGED <<row, request, cron, reader, faults, delivered, dropped>>

SavesFailed(j) ==
    /\ job[j].stage = "failsave"
    /\ SaveRow(job[j].of, "failed", job[j].read)
    /\ Rethrow(j)
    /\ UNCHANGED <<request, cron, reader, faults, delivered, dropped>>

\* A query is rejected: one of the try block, or PushProvider's for the tokens,
\* goes to the catch clause, one of the catch clause is logged.
ProcessFails(j) ==
    /\ job[j].stage \in Processing
    /\ job[j].stage = "send" => row[job[j].of].channel = "push"
    /\ Fault
    /\ IF job[j].stage \in {"find", "send", "savesent"} THEN Goto(j, "failfind") ELSE Rethrow(j)
    /\ UNCHANGED <<row, request, cron, reader>>

(* markAsRead and markAllAsRead *)

ReaderFinds(r, n) ==
    /\ reader[r].stage = "idle"
    /\ Exists(n) /\ ~row[n].read
    /\ reader' = [reader EXCEPT ![r] = [stage |-> "save", of |-> n]]
    /\ UNCHANGED <<row, request, cron, job, faults, delivered, dropped>>

ReaderSaves(r) ==
    /\ reader[r].stage = "save"
    /\ SaveRow(reader[r].of, "read", TRUE)
    /\ reader' = [reader EXCEPT ![r] = [stage |-> "idle", of |-> SomeRow]]
    /\ UNCHANGED <<request, cron, job, faults, delivered, dropped>>

\* One UPDATE of all rows of the recipient that have no readAt, whatever their
\* status: what was not delivered yet, or is still scheduled, as well.
MarksAllRead ==
    LET unread == {n \in Notifications : Exists(n) /\ ~row[n].read} IN
    /\ unread # {}
    /\ row' = [n \in Notifications |->
                  IF n \in unread THEN [row[n] EXCEPT !.status = "read", !.read = TRUE]
                                  ELSE row[n]]
    /\ UNCHANGED <<request, cron, job, reader, faults, delivered, dropped>>

(* A replica crashes: whatever it was doing is lost, except that the queue
   gives a job whose lock expired to another worker, once. *)

Crash ==
    /\ Fault
    /\ \E N \in SUBSET Notifications, C \in SUBSET Crons, J \in SUBSET Active :
           /\ request' = [n \in Notifications |->
                             IF n \in N /\ request[n] = "queue" THEN "done" ELSE request[n]]
           /\ cron' = [c \in Crons |->
                          IF c \in C THEN [batch |-> {}, lost |-> {}] ELSE cron[c]]
           /\ job' = [j \in Jobs |->
                         IF j \notin J THEN job[j]
                         ELSE IF job[j].stalls = 0
                              THEN Waiting(job[j].of, job[j].attempts, 1)
                              ELSE Ended]
    /\ UNCHANGED <<row, reader>>

-----------------------------------------------------------------------------
RequestStep(n) == Queues(n)
CronStep(c) == CronReads(c) \/ CronQueues(c) \/ CronGivesUp(c)
JobStep(j) ==
    \/ JobDue(j) \/ Takes(j) \/ Finds(j) \/ Sends(j) \/ SavesSent(j)
    \/ FindsFailed(j) \/ SavesFailed(j)

NNext ==
    \/ \E n \in Notifications :
           Creates(n) \/ RequestStep(n) \/ QueueRefuses(n) \/ FallsDue(n) \/ CleansUp(n)
    \/ \E c \in Crons : CronStep(c) \/ CronCannotQueue(c) \/ CronFails(c)
    \/ \E j \in Jobs : JobStep(j) \/ SendTimesOut(j) \/ ProcessFails(j)
    \/ \E r \in Readers : ReaderSaves(r) \/ \E n \in Notifications : ReaderFinds(r, n)
    \/ MarksAllRead
    \/ Crash

NSpec == NInit /\ [][NNext]_nvars

\* The event loops run on, cron fires every minute, time passes and idle
\* workers take jobs.  Nobody has to create or to read a notification.
NFairness ==
    /\ \A n \in Notifications : WF_nvars(RequestStep(n)) /\ WF_nvars(FallsDue(n))
    /\ \A c \in Crons : WF_nvars(CronStep(c))
    /\ \A j \in Jobs : WF_nvars(JobStep(j))

FairNSpec == NSpec /\ NFairness

-----------------------------------------------------------------------------
(* Properties *)

NTypeOK ==
    /\ row \in [Notifications -> Row]
    /\ request \in [Notifications -> {"idle", "queue", "done"}]
    /\ cron \in [Crons -> [batch: SUBSET Notifications, lost: SUBSET Notifications]]
    /\ job \in [Jobs -> Job]
    /\ reader \in [Readers -> [stage: {"idle", "save"}, of: Notifications]]
    /\ faults \in 0 .. MaxFaults
    /\ delivered \in [Notifications -> 0 .. 2]
    /\ dropped \subseteq Notifications

\* Its provider returned without delivering, as those do that raise no errors.
Dropped(n) == n \in dropped /\ Silent(n)

\* A row that says SENT was delivered, whichever of several jobs, runs of the
\* cron job and readers saved it last; on a channel whose provider raises no
\* errors it was delivered or dropped (NotificationProcessor.process).
SentWasDelivered ==
    \A n \in Notifications : row[n].status = "sent" => delivered[n] > 0 \/ Dropped(n)

Undisturbed == faults = 0

\* What is sent at once reaches its recipient once, although a failed job is
\* tried again and cron jobs queue rows too: a delivery is only repeated after
\* a crash or a query that was rejected after it.
DeliveredOnce == \A n \in Immediate : Undisturbed => delivered[n] <= 1

\* When the queue is done with what was sent at once, its row tells how it
\* ended, unless its recipient has read it or it was cleaned up: e-mail that was
\* not delivered reads FAILED, what another provider dropped reads SENT.
OutcomeRecorded ==
    \A n \in Immediate :
        (Undisturbed /\ request[n] = "done" /\ Unfinished(n) = {}) =>
            row[n].status \in {"read", "gone",
                                IF delivered[n] > 0 \/ Dropped(n) THEN "sent" ELSE "failed"}

\* A notification that was scheduled gets to its provider in the end: if a crash
\* lost its delayed job or the worker that had it, the cron job finds the row.
\* It is delivered, unless a failure is recorded in the row, the recipient
\* marked it as read before, or a provider that raises no errors dropped it.
ScheduledIsSettled ==
    \A n \in Notifications :
        (row[n].status = "scheduled")
            ~> (delivered[n] > 0 \/ Dropped(n) \/ row[n].status \in {"failed", "read"})
=============================================================================
