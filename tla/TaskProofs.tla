---------------------------- MODULE TaskProofs ----------------------------
(***************************************************************************)
(* Proofs about the two components that work off lists of tasks.           *)
(* Notifications: for any number of rows, jobs, workers, cron jobs and     *)
(* readers, any number of attempts, and any number of failures and         *)
(* crashes.  Workflow: for any tasks and dependencies.                     *)
(***************************************************************************)
EXTENDS Notifications, Workflow, TLAPS

LEMMA JobTypes ==
    /\ SomeRow \in Notifications
    /\ \A n \in Notifications, stage \in {"waiting", "delayed"} :
           LET k == [Waiting(n, 0, 0) EXCEPT !.stage = stage]
           IN  k \in Job /\ k.of = n /\ k.stage = stage
    /\ \A k \in Job, stalls \in {0, 1} : Waiting(k.of, k.attempts, stalls) \in Job
    /\ Ended \in Job /\ Ended.stage = "free"
<1>1. SomeRow \in Notifications
  BY NotificationsAssumption DEF SomeRow
<1>2. 0 \in 0 .. Attempts - 1
  BY NotificationsAssumption
<1>. QED
  BY <1>1, <1>2 DEF Waiting, Ended, Job, Processing

\* Only job j moves, to the state s, and never to another row.
MovesTo(j, s) ==
    /\ job' = [job EXCEPT ![j] = s]
    /\ s \in Job
    /\ s.stage = "free" \/ s.of = job[j].of

\* Queue.add puts a new job in a free place.
LEMMA AddMoves ==
    ASSUME NTypeOK, NEW n \in Notifications, NEW stage \in {"waiting", "delayed"}, Add(n, stage)
    PROVE  \E j \in Jobs, s \in Job :
               /\ job[j].stage = "free"
               /\ job' = [job EXCEPT ![j] = s]
               /\ s.of = n /\ s.stage = stage
<1> DEFINE j == CHOOSE i \in {i \in Jobs : job[i].stage = "free"} : TRUE
           s == [Waiting(n, 0, 0) EXCEPT !.stage = stage]
<1>1. j \in Jobs /\ job[j].stage = "free"
  BY DEF Add
<1>2. job' = [job EXCEPT ![j] = s]
  BY DEF Add
<1>3. s \in Job /\ s.of = n /\ s.stage = stage
  BY JobTypes
<1> HIDE DEF j, s
<1>. QED
  BY <1>1, <1>2, <1>3

\* A job that fails is tried again or ends.
LEMMA RethrowMoves ==
    ASSUME NTypeOK, NEW j \in Jobs, Rethrow(j)
    PROVE  \E s : MovesTo(j, s) /\ s.stage \in {"waiting", "free"}
<1> DEFINE k == job[j]
           again == Waiting(k.of, k.attempts + 1, k.stalls)
<1>1. k \in Job
  BY DEF NTypeOK
<1>2. k.attempts + 1 < Attempts => again \in Job
  BY <1>1, NotificationsAssumption DEF Waiting, Job
<1>3. again.of = k.of /\ again.stage = "waiting"
  BY DEF Waiting
<1>4. job' = [job EXCEPT ![j] = IF k.attempts + 1 < Attempts THEN again ELSE Ended]
  BY DEF Rethrow
<1> HIDE DEF again
<1>. QED
  BY <1>2, <1>3, <1>4, JobTypes DEF MovesTo

LEMMA StageMoves ==
    ASSUME NTypeOK, NEW j \in Jobs, NEW stage \in {"waiting"} \cup Processing,
           NEW read \in BOOLEAN,
           \/ Goto(j, stage)
           \/ job' = [job EXCEPT ![j].stage = stage, ![j].read = read]
    PROVE  \E s : MovesTo(j, s) /\ s.stage = stage
<1> DEFINE k == job[j]
           s1 == [k EXCEPT !.stage = stage]
           s2 == [k EXCEPT !.stage = stage, !.read = read]
<1>1. k \in Job
  BY DEF NTypeOK
<1>2. /\ s1 \in Job /\ s1.of = k.of /\ s1.stage = stage
      /\ s2 \in Job /\ s2.of = k.of /\ s2.stage = stage
  BY <1>1 DEF Job
<1>3. job' = [job EXCEPT ![j] = s1] \/ job' = [job EXCEPT ![j] = s2]
  BY DEF Goto
<1> HIDE DEF s1, s2
<1>. QED
  BY <1>2, <1>3 DEF MovesTo

\* When the provider returns SENT is saved; when it raises the job has failed.
SendsTo(n, s) ==
    \/ s.stage = "savesent" /\ (Delivers(n) \/ Drops(n))
    \/ s.stage = "failfind" /\ UNCHANGED <<delivered, dropped>>

\* From where to where the steps of a job lead.
LEMMA JobsMove ==
    ASSUME NTypeOK, NEW j \in Jobs
    PROVE  /\ JobDue(j) => \E s : MovesTo(j, s) /\ s.stage = "waiting"
           /\ Takes(j) => \E s : MovesTo(j, s) /\ s.stage = "find"
           /\ Finds(j) => \E s : MovesTo(j, s) /\ s.stage \in {"send", "failfind"}
           /\ Sends(j) => \E s : MovesTo(j, s) /\ SendsTo(job[j].of, s)
           /\ SendTimesOut(j) => \E s : MovesTo(j, s) /\ s.stage = "failfind"
           /\ SavesSent(j) => \E s : MovesTo(j, s) /\ s.stage = "free"
           /\ FindsFailed(j) => \E s : MovesTo(j, s) /\
                 s.stage \in IF Exists(job[j].of) THEN {"failsave"} ELSE {"waiting", "free"}
           /\ SavesFailed(j) => \E s : MovesTo(j, s) /\ s.stage \in {"waiting", "free"}
           /\ ProcessFails(j) => \E s : MovesTo(j, s) /\ s.stage \in {"failfind", "waiting", "free"}
<1>1. job[j] \in Job /\ row[job[j].of].read \in BOOLEAN
  BY DEF NTypeOK, Job, Row
<1>2. {"find", "send", "savesent", "failfind", "failsave"} = Processing
  BY DEF Processing
<1>3. ASSUME NEW stage \in {"waiting"} \cup Processing, Goto(j, stage)
      PROVE  \E s : MovesTo(j, s) /\ s.stage = stage
  BY <1>1, <1>3, StageMoves
<1>4. ASSUME NEW stage \in {"waiting"} \cup Processing, NEW read \in BOOLEAN,
             job' = [job EXCEPT ![j].stage = stage, ![j].read = read]
      PROVE  \E s : MovesTo(j, s) /\ s.stage = stage
  BY <1>4, StageMoves
<1>5. JobDue(j) => \E s : MovesTo(j, s) /\ s.stage = "waiting"
  BY <1>3 DEF JobDue
<1>6. Takes(j) => \E s : MovesTo(j, s) /\ s.stage = "find"
  BY <1>2, <1>3 DEF Takes
<1>7. Finds(j) => \E s : MovesTo(j, s) /\ s.stage \in {"send", "failfind"}
  <2>1. PICK stage \in {"send", "failfind"} : 
           Finds(j) => job' = [job EXCEPT ![j].stage = stage, ![j].read = row[job[j].of].read]
    BY DEF Finds
  <2>. QED
    BY <1>1, <1>2, <1>4, <2>1
<1>8. Sends(j) => \E s : MovesTo(j, s) /\ SendsTo(job[j].of, s)
  <2>1. Goto(j, "savesent") => \E s : MovesTo(j, s) /\ s.stage = "savesent"
    BY <1>2, <1>3
  <2>2. Goto(j, "failfind") => \E s : MovesTo(j, s) /\ s.stage = "failfind"
    BY <1>2, <1>3
  <2>3. Sends(j) => \/ Goto(j, "savesent") /\ (Delivers(job[j].of) \/ Drops(job[j].of))
                    \/ Goto(j, "failfind") /\ UNCHANGED <<delivered, dropped>>
    BY DEF Sends
  <2>. QED
    BY <2>1, <2>2, <2>3 DEF SendsTo
<1>9. SendTimesOut(j) => \E s : MovesTo(j, s) /\ s.stage = "failfind"
  BY <1>2, <1>3 DEF SendTimesOut
<1>10. SavesSent(j) => \E s : MovesTo(j, s) /\ s.stage = "free"
  BY JobTypes DEF SavesSent, MovesTo
<1>11. FindsFailed(j) => \E s : MovesTo(j, s) /\
                 s.stage \in IF Exists(job[j].of) THEN {"failsave"} ELSE {"waiting", "free"}
  <2>1. CASE Exists(job[j].of)
    BY <1>1, <1>2, <1>4, <2>1 DEF FindsFailed
  <2>2. CASE ~Exists(job[j].of)
    BY <2>2, RethrowMoves DEF FindsFailed
  <2>. QED
    BY <2>1, <2>2
<1>12. SavesFailed(j) => \E s : MovesTo(j, s) /\ s.stage \in {"waiting", "free"}
  BY RethrowMoves DEF SavesFailed
<1>13. ProcessFails(j) => \E s : MovesTo(j, s) /\ s.stage \in {"failfind", "waiting", "free"}
  BY <1>2, <1>3, RethrowMoves DEF ProcessFails
<1>. QED
  BY <1>5, <1>6, <1>7, <1>8, <1>9, <1>10, <1>11, <1>12, <1>13

-----------------------------------------------------------------------------
\* Its provider returned, with a delivery or without.
Reached(n) == delivered[n] > 0 \/ n \in dropped

\* A job that is about to save SENT has seen its provider return.
SaversReached == \A j \in Jobs : job[j].stage = "savesent" => Reached(job[j].of)

SentReached == \A n \in Notifications : row[n].status = "sent" => Reached(n)

\* The channel and the time are chosen when the row is created, and only providers
\* that raise no errors drop.
Unset == \A n \in Notifications :
             request[n] = "idle" => row[n].channel = "none" /\ row[n].scheduledAt = "null"
DroppedSilent == \A n \in dropped : Silent(n)

\* The cron job only queues, or gives up, what was scheduled.
CronScheduled == \A c \in Crons : (cron[c].batch \cup cron[c].lost) \cap Immediate = {}

Created == \A n \in Notifications : request[n] # "idle" => row[n].status # "none"

\* What is sent at once has one job, which reaches its provider once, and then the
\* row knows.
OneJob(n) ==
    /\ \A i, j \in Unfinished(n) : i = j
    /\ \A j \in Unfinished(n) :
           /\ request[n] = "done"
           /\ delivered[n] <= 1
           /\ Reached(n) <=> job[j].stage = "savesent"
    /\ Unfinished(n) = {} =>
           IF request[n] = "done"
           THEN /\ delivered[n] <= 1
                /\ row[n].status \in {"read", "gone", IF Reached(n) THEN "sent" ELSE "failed"}
           ELSE ~Reached(n)

\* The inductive invariant.
NInv ==
    /\ NTypeOK
    /\ Unset /\ DroppedSilent
    /\ SaversReached /\ SentReached
    /\ CronScheduled /\ Created
    /\ \A n \in Immediate : Undisturbed => OneJob(n)

LEMMA TypeInit == NInit => NTypeOK
BY JobTypes, NotificationsAssumption DEF NInit, NTypeOK, Row, Statuses

LEMMA RowTypes ==
    ASSUME NEW r \in Row, NEW found \in Statuses, NEW read \in BOOLEAN,
           NEW at \in {"null", "future", "past"}, NEW channel \in Channels
    PROVE  /\ [r EXCEPT !.status = found, !.read = read] \in Row
           /\ [channel |-> channel, scheduledAt |-> at, read |-> read, status |-> found] \in Row
           /\ [r EXCEPT !.scheduledAt = at] \in Row
           /\ r.read \in BOOLEAN
BY DEF Row

\* SaveRow, with the row as one value.
LEMMA RowSaved ==
    ASSUME NTypeOK, NEW n \in Notifications, NEW found \in Statuses, NEW read \in BOOLEAN,
           SaveRow(n, found, read)
    PROVE  /\ row' = [row EXCEPT ![n] = [row[n] EXCEPT !.status = found, !.read = read]]
           /\ row' \in [Notifications -> Row]
<1>1. row[n] \in Row /\ "null" \in {"null", "future", "past"}
  BY DEF NTypeOK
<1>2. row' = [row EXCEPT ![n] = [row[n] EXCEPT !.status = found, !.read = read]]
  BY DEF SaveRow
<1>3. [row[n] EXCEPT !.status = found, !.read = read] \in Row
  BY <1>1 DEF Row
<1>. QED
  BY <1>2, <1>3 DEF NTypeOK

LEMMA TypeStep == NTypeOK /\ [NNext]_nvars => NTypeOK'
<1> SUFFICES ASSUME NTypeOK, [NNext]_nvars PROVE NTypeOK'
  OBVIOUS
<1>1. ASSUME NEW j \in Jobs, NEW s, MovesTo(j, s) PROVE job' \in [Jobs -> Job]
  BY <1>1 DEF MovesTo, NTypeOK
<1>2. ASSUME NEW n \in Notifications, NEW found \in Statuses, NEW read \in BOOLEAN,
             SaveRow(n, found, read)
      PROVE  row' \in [Notifications -> Row]
  BY <1>2, RowSaved
<1>3. ASSUME NEW n \in Notifications, NEW stage \in {"waiting", "delayed"}, Add(n, stage)
      PROVE  job' \in [Jobs -> Job]
  BY <1>3, AddMoves DEF NTypeOK
<1>4. ASSUME Fault PROVE faults' \in 0 .. MaxFaults /\ UNCHANGED <<delivered, dropped>>
  BY <1>4, NotificationsAssumption DEF Fault, NTypeOK
<1>5. ASSUME NEW n \in Notifications, Delivers(n) \/ Drops(n)
      PROVE  delivered' \in [Notifications -> 0 .. 2] /\ dropped' \subseteq Notifications
  BY <1>5 DEF Delivers, Drops, NTypeOK
<1>6. \A n \in Notifications : row[n].read \in BOOLEAN
  BY DEF NTypeOK, Row
<1>7. \A j \in Jobs : job[j] \in Job /\ job[j].of \in Notifications /\ job[j].read \in BOOLEAN
  BY DEF NTypeOK, Job
<1>8. {"none", "pending", "scheduled", "sent", "failed", "read", "gone"} = Statuses
  BY DEF Statuses
<1>9. ASSUME NEW n \in Notifications, Creates(n) PROVE NTypeOK'
  <2>1. PICK channel \in Channels, at \in {"null", "past", "future"} :
            row' = [row EXCEPT ![n] =
                       [channel |-> channel, scheduledAt |-> at, read |-> FALSE,
                        status |-> IF at = "null" THEN "pending" ELSE "scheduled"]]
    BY <1>9 DEF Creates
  <2>2. row' \in [Notifications -> Row]
    BY <1>8, <2>1, RowTypes DEF NTypeOK
  <2>. QED
    BY <1>9, <2>2 DEF Creates, NTypeOK
<1>10. ASSUME NEW n \in Notifications, Queues(n) \/ QueueRefuses(n) PROVE NTypeOK'
  <2>1. job' \in [Jobs -> Job]
    BY <1>3, <1>10 DEF Queues, QueueRefuses, NTypeOK
  <2>. QED
    BY <1>4, <1>10, <2>1 DEF Queues, QueueRefuses, NTypeOK
<1>11. ASSUME NEW n \in Notifications, FallsDue(n) \/ CleansUp(n) PROVE NTypeOK'
  <2>1. [row[n] EXCEPT !.scheduledAt = "past"] \in Row
    BY DEF NTypeOK, Row
  <2>2. FallsDue(n) => row' = [row EXCEPT ![n] = [row[n] EXCEPT !.scheduledAt = "past"]]
    BY DEF FallsDue
  <2>3. row' \in [Notifications -> Row]
    BY <1>2, <1>8, <1>11, <2>1, <2>2 DEF CleansUp, NTypeOK
  <2>. QED
    BY <1>11, <2>3 DEF FallsDue, CleansUp, NTypeOK
<1>12. ASSUME NEW c \in Crons, CronReads(c) PROVE NTypeOK'
  BY <1>12 DEF CronReads, NTypeOK
<1>13. ASSUME NEW c \in Crons, CronQueues(c) PROVE NTypeOK'
  <2>1. job' \in [Jobs -> Job]
    BY <1>3, <1>13 DEF CronQueues, NTypeOK
  <2>. QED
    BY <1>13, <2>1 DEF CronQueues, NTypeOK
<1>14. ASSUME NEW c \in Crons, CronGivesUp(c) PROVE NTypeOK'
  <2>1. row' \in [Notifications -> Row]
    BY <1>2, <1>8, <1>14 DEF CronGivesUp, NTypeOK
  <2>. QED
    BY <1>14, <2>1 DEF CronGivesUp, NTypeOK
<1>15. ASSUME NEW c \in Crons, CronCannotQueue(c) \/ CronFails(c) PROVE NTypeOK'
  <2>1. cron[c] \in [batch: SUBSET Notifications, lost: SUBSET Notifications]
    BY DEF NTypeOK
  <2>2. ASSUME NEW n \in Notifications
        PROVE  [cron[c] EXCEPT !.batch = @ \ {n}, !.lost = {n}]
                   \in [batch: SUBSET Notifications, lost: SUBSET Notifications]
    BY <2>1
  <2>3. ASSUME CronCannotQueue(c)
        PROVE  cron' \in [Crons -> [batch: SUBSET Notifications, lost: SUBSET Notifications]]
    <3>1. PICK n \in cron[c].batch :
              cron' = [cron EXCEPT ![c] = [cron[c] EXCEPT !.batch = @ \ {n}, !.lost = {n}]]
      BY <2>3 DEF CronCannotQueue
    <3>. QED
      BY <2>1, <2>2, <3>1 DEF NTypeOK
  <2>4. CronFails(c) => cron' \in [Crons -> [batch: SUBSET Notifications, lost: SUBSET Notifications]]
    BY DEF CronFails, NTypeOK
  <2>. QED
    BY <1>4, <1>15, <2>3, <2>4 DEF CronCannotQueue, CronFails, NTypeOK
<1>16. ASSUME NEW j \in Jobs, JobStep(j) \/ SendTimesOut(j) \/ ProcessFails(j) PROVE NTypeOK'
  <2>1. job' \in [Jobs -> Job]
    BY <1>1, <1>16, JobsMove DEF JobStep
  <2>2. row' \in [Notifications -> Row]
    BY <1>2, <1>7, <1>8, <1>16
    DEF JobStep, JobDue, Takes, Finds, Sends, SavesSent, FindsFailed, SavesFailed, SendTimesOut,
        ProcessFails, NTypeOK
  <2>3. /\ faults' \in 0 .. MaxFaults
        /\ delivered' \in [Notifications -> 0 .. 2] /\ dropped' \subseteq Notifications
    BY <1>4, <1>5, <1>7, <1>16, NotificationsAssumption
    DEF JobStep, JobDue, Takes, Finds, Sends, SavesSent, FindsFailed, SavesFailed, SendTimesOut,
        ProcessFails, NTypeOK
  <2>4. UNCHANGED <<request, cron, reader>>
    BY <1>16
    DEF JobStep, JobDue, Takes, Finds, Sends, SavesSent, FindsFailed, SavesFailed, SendTimesOut,
        ProcessFails
  <2>. QED
    BY <2>1, <2>2, <2>3, <2>4 DEF NTypeOK
<1>17. ASSUME NEW r \in Readers, ReaderSaves(r) PROVE NTypeOK'
  <2>1. row' \in [Notifications -> Row]
    BY <1>2, <1>8, <1>17 DEF ReaderSaves, NTypeOK
  <2>. QED
    BY <1>17, <2>1, JobTypes DEF ReaderSaves, NTypeOK
<1>18. ASSUME NEW r \in Readers, NEW n \in Notifications, ReaderFinds(r, n) PROVE NTypeOK'
  BY <1>18 DEF ReaderFinds, NTypeOK
<1>19. ASSUME MarksAllRead PROVE NTypeOK'
  <2>1. \A n \in Notifications : [row[n] EXCEPT !.status = "read", !.read = TRUE] \in Row
    <3>1. \A n \in Notifications : row[n] \in Row
      BY DEF NTypeOK
    <3>. QED
      BY <1>8, <3>1 DEF Row
  <2>2. row' \in [Notifications -> Row]
    BY <1>19, <2>1 DEF MarksAllRead, NTypeOK
  <2>. QED
    BY <1>19, <2>2 DEF MarksAllRead, NTypeOK
<1>20. ASSUME Crash PROVE NTypeOK'
  <2>1. job' \in [Jobs -> Job]
    BY <1>7, <1>20, JobTypes DEF Crash, NTypeOK
  <2>. QED
    BY <1>4, <1>20, <2>1 DEF Crash, NTypeOK
<1>21. CASE UNCHANGED nvars
  BY <1>21 DEF nvars, NTypeOK
<1>. QED
  BY <1>9, <1>10, <1>11, <1>12, <1>13, <1>14, <1>15, <1>16, <1>17, <1>18, <1>19, <1>20, <1>21
  DEF NNext, RequestStep, CronStep

-----------------------------------------------------------------------------
\* What a step does to a row.
RowMoves(n) ==
    /\ row'[n].channel = row[n].channel \/ Creates(n)
    /\ (row'[n].scheduledAt = "null") = (row[n].scheduledAt = "null") \/ Creates(n)
    /\ row'[n].status = "none" => row[n].status = "none"
    /\ row'[n].status = "sent" =>
           row[n].status = "sent" \/ \E j \in Jobs : SavesSent(j) /\ job[j].of = n

LEMMA RowsMove ==
    ASSUME NTypeOK, [NNext]_nvars
    PROVE  \A n \in Notifications : RowMoves(n)
<1> USE DEF RowMoves
<1>1. ASSUME NEW m \in Notifications, NEW found \in Statuses, NEW read \in BOOLEAN,
             SaveRow(m, found, read), found \notin {"none", "sent"}
      PROVE  \A n \in Notifications : RowMoves(n)
  <2>1. row[m] \in Row
    BY DEF NTypeOK
  <2>3. row' = [row EXCEPT ![m] = [row[m] EXCEPT !.status = found, !.read = read]]
    BY <1>1 DEF SaveRow
  <2>2. /\ [row[m] EXCEPT !.status = found, !.read = read].status = found
        /\ [row[m] EXCEPT !.status = found, !.read = read].channel = row[m].channel
        /\ [row[m] EXCEPT !.status = found, !.read = read].scheduledAt = row[m].scheduledAt
    BY <2>1 DEF Row
  <2>. QED
    BY <1>1, <2>3, <2>2 DEF NTypeOK
<1>2. \A j \in Jobs : job[j].of \in Notifications /\ job[j].read \in BOOLEAN
  BY DEF NTypeOK, Job
<1>3. {"none", "pending", "scheduled", "sent", "failed", "read", "gone"} = Statuses
  BY DEF Statuses
<1>4. ASSUME NEW m \in Notifications, Creates(m) PROVE \A n \in Notifications : RowMoves(n)
  <2>1. PICK channel \in Channels, at \in {"null", "past", "future"} :
            row' = [row EXCEPT ![m] =
                       [channel |-> channel, scheduledAt |-> at, read |-> FALSE,
                        status |-> IF at = "null" THEN "pending" ELSE "scheduled"]]
    BY <1>4 DEF Creates
  <2>. QED
    BY <1>4, <2>1 DEF NTypeOK
<1>5. ASSUME NEW m \in Notifications, FallsDue(m) PROVE \A n \in Notifications : RowMoves(n)
  <2>1. row[m] \in Row
    BY DEF NTypeOK
  <2>2. row' = [row EXCEPT ![m] = [row[m] EXCEPT !.scheduledAt = "past"]]
    BY <1>5 DEF FallsDue
  <2>3. /\ [row[m] EXCEPT !.scheduledAt = "past"].status = row[m].status
        /\ [row[m] EXCEPT !.scheduledAt = "past"].scheduledAt = "past"
        /\ [row[m] EXCEPT !.scheduledAt = "past"].channel = row[m].channel
    BY <2>1 DEF Row
  <2>. QED
    BY <1>5, <2>2, <2>3 DEF FallsDue, NTypeOK
<1>6. ASSUME NEW m \in Notifications, CleansUp(m) PROVE \A n \in Notifications : RowMoves(n)
  BY <1>1, <1>3, <1>6 DEF CleansUp
<1>7. ASSUME NEW c \in Crons, CronGivesUp(c) PROVE \A n \in Notifications : RowMoves(n)
  BY <1>1, <1>3, <1>7 DEF CronGivesUp, NTypeOK
<1>8. ASSUME NEW j \in Jobs, SavesFailed(j) PROVE \A n \in Notifications : RowMoves(n)
  BY <1>1, <1>2, <1>3, <1>8 DEF SavesFailed
<1>9. ASSUME NEW j \in Jobs, SavesSent(j) PROVE \A n \in Notifications : RowMoves(n)
  <2> DEFINE m == job[j].of
             r == [row[m] EXCEPT !.status = "sent", !.read = job[j].read]
  <2>1. m \in Notifications /\ row[m] \in Row
    BY <1>2 DEF NTypeOK
  <2>3. row' = [row EXCEPT ![m] = r]
    BY <1>9 DEF SavesSent, SaveRow
  <2>2. r.status = "sent" /\ r.scheduledAt = row[m].scheduledAt /\ r.channel = row[m].channel
    BY <2>1 DEF Row
  <2> HIDE DEF r
  <2>. QED
    BY <1>9, <2>1, <2>2, <2>3 DEF NTypeOK
<1>10. ASSUME NEW r \in Readers, ReaderSaves(r) PROVE \A n \in Notifications : RowMoves(n)
  BY <1>1, <1>3, <1>10 DEF ReaderSaves, NTypeOK
<1>11. ASSUME MarksAllRead PROVE \A n \in Notifications : RowMoves(n)
  <2> SUFFICES ASSUME NEW n \in Notifications PROVE RowMoves(n)
    OBVIOUS
  <2>1. row[n] \in Row
    BY DEF NTypeOK
  <2>2. /\ [row[n] EXCEPT !.status = "read", !.read = TRUE].status = "read"
        /\ [row[n] EXCEPT !.status = "read", !.read = TRUE].scheduledAt = row[n].scheduledAt
        /\ [row[n] EXCEPT !.status = "read", !.read = TRUE].channel = row[n].channel
    BY <2>1 DEF Row
  <2>3. row'[n] \in {row[n], [row[n] EXCEPT !.status = "read", !.read = TRUE]}
    BY <1>11 DEF MarksAllRead
  <2>. QED
    BY <2>2, <2>3
<1>12. ASSUME UNCHANGED row PROVE \A n \in Notifications : RowMoves(n)
  BY <1>12
<1>. QED
  BY <1>4, <1>5, <1>6, <1>7, <1>8, <1>9, <1>10, <1>11, <1>12
  DEF NNext, RequestStep, CronStep, JobStep, nvars, Queues, QueueRefuses, CronReads, CronQueues,
      CronCannotQueue, CronFails, JobDue, Takes, Finds, Sends, FindsFailed, SendTimesOut,
      ProcessFails, ReaderFinds, Crash

-----------------------------------------------------------------------------
\* A request is made once.
LEMMA RequestsMove ==
    ASSUME NTypeOK, [NNext]_nvars, NEW n \in Notifications
    PROVE  request'[n] = "idle" <=> (request[n] = "idle" /\ ~Creates(n))
<1>1. request \in [Notifications -> {"idle", "queue", "done"}]
  BY DEF NTypeOK
<1>2. ASSUME NEW m \in Notifications, request[m] # "idle", request' = [request EXCEPT ![m] = "done"]
      PROVE  request'[n] = "idle" <=> request[n] = "idle"
  BY <1>1, <1>2
<1>3. Crash => (request'[n] = "idle" <=> request[n] = "idle")
  BY DEF Crash
<1>4. CASE Creates(n)
  BY <1>1, <1>4 DEF Creates
<1>5. ASSUME NEW m \in Notifications, m # n, Creates(m) PROVE request'[n] = request[n]
  BY <1>1, <1>5 DEF Creates
<1>. QED
  BY <1>2, <1>3, <1>4, <1>5
  DEF NNext, RequestStep, CronStep, JobStep, nvars, Queues, QueueRefuses, FallsDue,
      CleansUp, CronReads, CronQueues, CronGivesUp, CronCannotQueue, CronFails, JobDue, Takes,
      Finds, Sends, SavesSent, FindsFailed, SavesFailed, SendTimesOut, ProcessFails, ReaderFinds,
      ReaderSaves, MarksAllRead

LEMMA UnsetStep == NTypeOK /\ Unset /\ [NNext]_nvars => Unset'
BY RowsMove, RequestsMove DEF Unset, RowMoves

\* What was sent at once, or silently, was so when its row was created.
LEMMA ChannelsStay ==
    ASSUME NTypeOK, Unset, [NNext]_nvars
    PROVE  Immediate' \subseteq Immediate /\ \A n \in Notifications : Silent(n) => Silent(n)'
<1>1. \A n \in Notifications :
          Creates(n) => row[n].channel = "none" /\ row[n].scheduledAt = "null"
  BY DEF Unset, Creates
<1>. QED
  BY <1>1, RowsMove DEF RowMoves, Immediate, Silent, Raises

\* What a step adds to the histories.
LEMMA HistoryMoves ==
    ASSUME NTypeOK, [NNext]_nvars
    PROVE  \/ UNCHANGED <<delivered, dropped>>
           \/ \E m \in Notifications : Delivers(m) \/ Drops(m)
<1>1. \A j \in Jobs : job[j].of \in Notifications
  BY DEF NTypeOK, Job
<1>2. CASE \E j \in Jobs : Sends(j) \/ SendTimesOut(j)
  BY <1>1, <1>2 DEF Sends, SendTimesOut
<1>3. CASE UNCHANGED <<delivered, dropped>>
  BY <1>3
<1>. QED
  BY <1>2, <1>3
  DEF NNext, RequestStep, CronStep, JobStep, nvars, Fault, Creates, Queues, QueueRefuses, FallsDue,
      CleansUp, CronReads, CronQueues, CronGivesUp, CronCannotQueue, CronFails, JobDue, Takes,
      Finds, SavesSent, FindsFailed, SavesFailed, ProcessFails, ReaderFinds, ReaderSaves,
      MarksAllRead, Crash

LEMMA DroppedStep ==
    ASSUME NTypeOK, Unset, DroppedSilent, [NNext]_nvars PROVE DroppedSilent'
<1>1. \A n \in dropped' : n \in Notifications /\ Silent(n)
  BY HistoryMoves DEF DroppedSilent, Delivers, Drops, NTypeOK
<1>. QED
  BY <1>1, ChannelsStay DEF DroppedSilent

\* What reached its provider stays so.
LEMMA ReachedStays ==
    ASSUME NTypeOK, [NNext]_nvars, NEW n \in Notifications, Reached(n)
    PROVE  Reached(n)'
<1>1. delivered[n] \in 0 .. 2
  BY DEF NTypeOK
<1>. QED
  BY <1>1, HistoryMoves DEF Reached, Delivers, Drops, NTypeOK

LEMMA SaversStep ==
    ASSUME NTypeOK, SaversReached, [NNext]_nvars PROVE SaversReached'
<1>0. \A j \in Jobs : job[j].of \in Notifications
  BY DEF NTypeOK, Job
<1>1. CASE UNCHANGED job
  BY <1>0, <1>1, ReachedStays DEF SaversReached
<1>2. ASSUME NEW j \in Jobs, NEW s, MovesTo(j, s),
             s.stage = "savesent" => Reached(s.of)'
      PROVE  SaversReached'
  BY <1>0, <1>2, ReachedStays DEF SaversReached, MovesTo, NTypeOK
<1>3. ASSUME NEW n \in Notifications, NEW stage \in {"waiting", "delayed"}, Add(n, stage)
      PROVE  SaversReached'
  <2>1. PICK j \in Jobs, s \in Job : job' = [job EXCEPT ![j] = s] /\ s.stage = stage
    BY <1>3, AddMoves
  <2>. QED
    BY <1>0, <2>1, ReachedStays DEF SaversReached, NTypeOK
<1>4. CASE \E n \in Notifications : Queues(n)
  BY <1>3, <1>4 DEF Queues
<1>5. CASE \E c \in Crons : CronQueues(c)
  BY <1>3, <1>5 DEF CronQueues, NTypeOK
<1>6. ASSUME NEW j \in Jobs, Sends(j) PROVE SaversReached'
  <2>1. PICK s : MovesTo(j, s) /\ SendsTo(job[j].of, s)
    BY <1>6, JobsMove
  <2>2. s.stage = "savesent" => Reached(s.of)'
    <3>1. s.stage = "savesent" => s.of = job[j].of /\ (Delivers(s.of) \/ Drops(s.of))
      BY <2>1 DEF SendsTo, MovesTo
    <3>. QED
      BY <1>0, <3>1 DEF Delivers, Drops, Reached, NTypeOK
  <2>. QED
    BY <1>2, <2>1, <2>2
<1>7. ASSUME NEW j \in Jobs,
             \/ JobDue(j) \/ Takes(j) \/ Finds(j) \/ SavesSent(j) \/ FindsFailed(j)
             \/ SavesFailed(j) \/ SendTimesOut(j) \/ ProcessFails(j)
      PROVE  SaversReached'
  <2>1. PICK s : MovesTo(j, s) /\ s.stage # "savesent"
    BY <1>7, JobsMove
  <2>. QED
    BY <1>2, <2>1
<1>8. CASE Crash
  <2>1. \A j \in Jobs : job'[j] = job[j] \/ job'[j].stage \in {"waiting", "free"}
    BY <1>8, JobTypes DEF Crash, Waiting
  <2>. QED
    BY <1>0, <2>1, ReachedStays DEF SaversReached
<1>. QED
  BY <1>1, <1>4, <1>5, <1>6, <1>7, <1>8
  DEF NNext, RequestStep, CronStep, JobStep, nvars, Creates, QueueRefuses, FallsDue,
      CleansUp, CronReads, CronGivesUp, CronCannotQueue, CronFails, ReaderFinds, ReaderSaves,
      MarksAllRead

LEMMA SentStep ==
    ASSUME NTypeOK, SaversReached, SentReached, [NNext]_nvars PROVE SentReached'
<1> SUFFICES ASSUME NEW n \in Notifications, row'[n].status = "sent" PROVE Reached(n)'
  BY DEF SentReached
<1>1. CASE row[n].status = "sent"
  BY <1>1, ReachedStays DEF SentReached
<1>2. ASSUME NEW j \in Jobs, SavesSent(j), job[j].of = n PROVE Reached(n)'
  BY <1>2, ReachedStays DEF SavesSent, SaversReached
<1>. QED
  BY <1>1, <1>2, RowsMove DEF RowMoves

LEMMA CronsStep ==
    ASSUME NTypeOK, Unset, CronScheduled, [NNext]_nvars PROVE CronScheduled'
<1>1. Immediate' \subseteq Immediate
  BY ChannelsStay
<1>2. ASSUME NEW c \in Crons PROVE
          (cron'[c].batch \cup cron'[c].lost) \cap Immediate \subseteq
              (cron[c].batch \cup cron[c].lost) \cap Immediate
  <2>1. CASE UNCHANGED cron
    BY <2>1
  <2>2. ASSUME NEW d \in Crons, NEW new, cron' = [cron EXCEPT ![d] = new],
               (new.batch \cup new.lost) \cap Immediate \subseteq
                   (cron[d].batch \cup cron[d].lost) \cap Immediate
        PROVE  (cron'[c].batch \cup cron'[c].lost) \cap Immediate \subseteq
                   (cron[c].batch \cup cron[c].lost) \cap Immediate
    BY <2>2 DEF NTypeOK
  <2>3. ASSUME NEW d \in Crons, CronReads(d)
        PROVE  \E new : /\ cron' = [cron EXCEPT ![d] = new]
                        /\ (new.batch \cup new.lost) \cap Immediate \subseteq
                               (cron[d].batch \cup cron[d].lost) \cap Immediate
    <3> DEFINE batch == {n \in Notifications : row[n].status = "scheduled"
                                             /\ row[n].scheduledAt = "past"}
               new == [cron[d] EXCEPT !.batch = batch]
    <3>1. batch \cap Immediate = {}
      BY DEF Immediate
    <3>2. cron' = [cron EXCEPT ![d] = new]
      BY <2>3 DEF CronReads
    <3> HIDE DEF batch
    <3>3. new.batch = batch /\ new.lost = cron[d].lost
      BY DEF NTypeOK
    <3> HIDE DEF new
    <3>. QED
      BY <3>1, <3>2, <3>3
  <2>5. ASSUME NEW d \in Crons,
               CronQueues(d) \/ CronGivesUp(d) \/ CronCannotQueue(d) \/ CronFails(d)
        PROVE  \E new : /\ cron' = [cron EXCEPT ![d] = new]
                        /\ new.batch \cup new.lost \subseteq cron[d].batch \cup cron[d].lost
    <3>1. cron[d] \in [batch: SUBSET Notifications, lost: SUBSET Notifications]
      BY DEF NTypeOK
    <3>2. CASE CronQueues(d)
      <4>1. PICK n \in cron[d].batch : cron' = [cron EXCEPT ![d] = [cron[d] EXCEPT !.batch = @ \ {n}]]
        BY <3>2 DEF CronQueues
      <4>2. /\ [cron[d] EXCEPT !.batch = @ \ {n}].batch = cron[d].batch \ {n}
            /\ [cron[d] EXCEPT !.batch = @ \ {n}].lost = cron[d].lost
        BY <3>1
      <4>. QED
        BY <4>1, <4>2
    <3>3. CASE CronCannotQueue(d)
      <4>1. PICK n \in cron[d].batch :
                cron' = [cron EXCEPT ![d] = [cron[d] EXCEPT !.batch = @ \ {n}, !.lost = {n}]]
        BY <3>3 DEF CronCannotQueue
      <4>2. /\ [cron[d] EXCEPT !.batch = @ \ {n}, !.lost = {n}].batch = cron[d].batch \ {n}
            /\ [cron[d] EXCEPT !.batch = @ \ {n}, !.lost = {n}].lost = {n}
        BY <3>1
      <4>. QED
        BY <4>1, <4>2
    <3>4. CASE CronGivesUp(d)
      <4>1. cron' = [cron EXCEPT ![d] = [cron[d] EXCEPT !.lost = {}]]
        BY <3>4 DEF CronGivesUp
      <4>2. /\ [cron[d] EXCEPT !.lost = {}].batch = cron[d].batch
            /\ [cron[d] EXCEPT !.lost = {}].lost = {}
        BY <3>1
      <4>. QED
        BY <4>1, <4>2
    <3>5. CASE CronFails(d)
      <4>1. cron' = [cron EXCEPT ![d] = [batch |-> {}, lost |-> {}]]
        BY <3>5 DEF CronFails
      <4>2. [batch |-> {}, lost |-> {}].batch = {} /\ [batch |-> {}, lost |-> {}].lost = {}
        OBVIOUS
      <4>. QED
        BY <4>1, <4>2
    <3>. QED
      BY <2>5, <3>2, <3>3, <3>4, <3>5
  <2>4. CASE Crash
    BY <2>4 DEF Crash
  <2>. QED
    BY <2>1, <2>2, <2>3, <2>4, <2>5
    DEF NNext, RequestStep, CronStep, JobStep, nvars, Creates, Queues, QueueRefuses, FallsDue,
      CleansUp, JobDue, Takes, Finds, Sends, SavesSent, FindsFailed, SavesFailed, SendTimesOut,
      ProcessFails, ReaderFinds, ReaderSaves, MarksAllRead
<1>. QED
  BY <1>1, <1>2 DEF CronScheduled

LEMMA CreatedStep ==
    ASSUME NTypeOK, Created, [NNext]_nvars PROVE Created'
<1> SUFFICES ASSUME NEW n \in Notifications, request'[n] # "idle" PROVE row'[n].status # "none"
  BY DEF Created
<1>1. CASE Creates(n)
  <2>1. PICK channel \in Channels, at \in {"null", "past", "future"} :
            row' = [row EXCEPT ![n] =
                       [channel |-> channel, scheduledAt |-> at, read |-> FALSE,
                        status |-> IF at = "null" THEN "pending" ELSE "scheduled"]]
    BY <1>1 DEF Creates
  <2>. QED
    BY <2>1 DEF NTypeOK
<1>2. CASE request[n] # "idle"
  BY <1>2, RowsMove DEF Created, RowMoves
<1>. QED
  BY <1>1, <1>2, RequestsMove

-----------------------------------------------------------------------------
\* A job that is not of n does not count for n.
LEMMA OtherJob ==
    ASSUME NTypeOK, NEW n \in Notifications, NEW j \in Jobs, NEW s, job' = [job EXCEPT ![j] = s],
           job[j].of # n \/ job[j].stage = "free", s.of # n \/ s.stage = "free"
    PROVE  Unfinished(n)' = Unfinished(n) /\ \A i \in Unfinished(n) : job'[i] = job[i]
BY DEF NTypeOK, Unfinished

\* The only job of n moves.
LEMMA OwnJob ==
    ASSUME NTypeOK, NEW n \in Notifications, NEW j \in Jobs, NEW s, job' = [job EXCEPT ![j] = s],
           Unfinished(n) \subseteq {j}
    PROVE  /\ job'[j] = s
           /\ Unfinished(n)' = IF s.of = n /\ s.stage # "free" THEN {j} ELSE {}
BY DEF NTypeOK, Unfinished

\* Nothing happens to the job of n, and no failure is saved for it.
LEMMA NothingHappens ==
    ASSUME NEW n \in Notifications, OneJob(n),
           Unfinished(n)' = Unfinished(n), \A j \in Unfinished(n) : job'[j] = job[j],
           request'[n] = request[n], delivered'[n] = delivered[n], n \in dropped' <=> n \in dropped,
           row'[n].status \in {row[n].status, "read", "gone"}
    PROVE  OneJob(n)'
BY DEF OneJob, Reached

LEMMA FaultsGrow == [NNext]_nvars => faults' = faults \/ faults' = faults + 1
<1> SUFFICES ASSUME [NNext]_nvars PROVE faults' = faults \/ faults' = faults + 1
  OBVIOUS
<1>1. CASE Crash
  BY <1>1 DEF Crash, Fault
<1>2. ASSUME NEW n \in Notifications,
             Creates(n) \/ Queues(n) \/ QueueRefuses(n) \/ FallsDue(n) \/ CleansUp(n)
      PROVE  faults' = faults \/ faults' = faults + 1
  BY <1>2 DEF Creates, Queues, QueueRefuses, FallsDue, CleansUp, Fault
<1>3. ASSUME NEW c \in Crons, CronStep(c) \/ CronCannotQueue(c) \/ CronFails(c)
      PROVE  faults' = faults \/ faults' = faults + 1
  BY <1>3 DEF CronStep, CronReads, CronQueues, CronGivesUp, CronCannotQueue, CronFails, Fault
<1>4. ASSUME NEW j \in Jobs, JobStep(j) \/ SendTimesOut(j) \/ ProcessFails(j)
      PROVE  faults' = faults \/ faults' = faults + 1
  BY <1>4
  DEF JobStep, JobDue, Takes, Finds, Sends, SavesSent, FindsFailed, SavesFailed, SendTimesOut,
      ProcessFails, Fault
<1>5. CASE MarksAllRead \/ UNCHANGED nvars
  BY <1>5 DEF MarksAllRead, nvars
<1>6. ASSUME NEW r \in Readers, ReaderSaves(r) \/ \E n \in Notifications : ReaderFinds(r, n)
      PROVE  faults' = faults \/ faults' = faults + 1
  BY <1>6 DEF ReaderSaves, ReaderFinds
<1>. QED
  BY <1>1, <1>2, <1>3, <1>4, <1>5, <1>6 DEF NNext, RequestStep

\* Adding a job for another row
LEMMA OtherAdded ==
    ASSUME NTypeOK, NEW n \in Notifications, NEW m \in Notifications, m # n,
           NEW stage \in {"waiting", "delayed"}, Add(m, stage)
    PROVE  Unfinished(n)' = Unfinished(n) /\ \A j \in Unfinished(n) : job'[j] = job[j]
BY AddMoves, OtherJob

LEMMA OneJobStep ==
    ASSUME NInv, [NNext]_nvars, NEW n \in Immediate', Undisturbed' PROVE OneJob(n)'
<1>1. n \in Notifications /\ n \in Immediate /\ row[n].scheduledAt = "null"
  BY ChannelsStay DEF Immediate, NInv
<1>2. NTypeOK /\ row[n] \in Row /\ faults \in Nat
  BY <1>1, NotificationsAssumption DEF NInv, NTypeOK
<1>3. faults = 0 /\ faults' = 0 /\ ~Fault
  BY <1>2, FaultsGrow DEF Fault, Undisturbed
<1>4. OneJob(n)
  BY <1>1, <1>3 DEF NInv, Undisturbed
<1>5. ASSUME UNCHANGED <<job, delivered, dropped>>, request'[n] = request[n],
             row'[n].status \in {row[n].status, "read", "gone"}
      PROVE  OneJob(n)'
  BY <1>1, <1>4, <1>5, NothingHappens DEF Unfinished
<1>6. ASSUME NEW m \in Notifications, NEW found \in {"read", "gone"}, NEW read, SaveRow(m, found, read)
      PROVE  row'[n].status \in {row[n].status, "read", "gone"}
  BY <1>1, <1>2, <1>6 DEF SaveRow, NTypeOK, Row
<1>7. ASSUME NEW m \in Notifications, Creates(m) PROVE OneJob(n)'
  <2>1. CASE m = n
    <3>1. request'[n] = "queue" /\ request[n] = "idle"
      BY <1>1, <1>7, <2>1 DEF Creates, NInv, NTypeOK
    <3>2. Unfinished(n)' = Unfinished(n) /\ UNCHANGED <<delivered, dropped>>
      BY <1>7 DEF Creates, Unfinished
    <3>. QED
      BY <1>4, <3>1, <3>2 DEF OneJob, Reached
  <2>2. CASE m # n
    <3>1. row'[n] = row[n] /\ request'[n] = request[n]
      BY <1>1, <1>7, <2>2 DEF Creates, NInv, NTypeOK
    <3>. QED
      BY <1>5, <1>7, <3>1 DEF Creates
  <2>. QED
    BY <2>1, <2>2
<1>8. ASSUME NEW m \in Notifications, Queues(m) PROVE OneJob(n)'
  <2>1. PICK stage \in {"waiting", "delayed"} : Add(m, stage)
    BY <1>8 DEF Queues
  <2>2. CASE m = n
    <3>1. Unfinished(n) = {} /\ ~Reached(n) /\ request'[n] = "done"
      BY <1>1, <1>4, <1>8, <2>2 DEF OneJob, Queues, NInv, NTypeOK
    <3>2. PICK j \in Jobs, s \in Job : job' = [job EXCEPT ![j] = s] /\ s.of = n /\ s.stage = stage
      BY <1>2, <2>1, <2>2, AddMoves
    <3>3. Unfinished(n)' = {j} /\ job'[j] = s
      BY <1>1, <1>2, <3>1, <3>2, OwnJob
    <3>4. UNCHANGED <<delivered, dropped>> /\ delivered[n] \in 0 .. 2
      BY <1>1, <1>2, <1>8 DEF Queues, NTypeOK
    <3>. QED
      BY <3>1, <3>2, <3>3, <3>4 DEF OneJob, Reached
  <2>3. CASE m # n
    <3>1. row' = row /\ request'[n] = request[n] /\ UNCHANGED <<delivered, dropped>>
      BY <1>1, <1>8, <2>3 DEF Queues, NInv, NTypeOK
    <3>. QED
      BY <1>1, <1>2, <1>4, <2>1, <2>3, <3>1, OtherAdded, NothingHappens
  <2>. QED
    BY <2>2, <2>3
<1>9. ASSUME NEW m \in Notifications, FallsDue(m) \/ CleansUp(m) PROVE OneJob(n)'
  <2>1. FallsDue(m) => row'[n].status = row[n].status
    BY <1>1, <1>2 DEF FallsDue, NTypeOK, Row
  <2>2. CleansUp(m) => row'[n].status \in {row[n].status, "read", "gone"}
    BY <1>6 DEF CleansUp
  <2>. QED
    BY <1>5, <1>9, <2>1, <2>2 DEF FallsDue, CleansUp
<1>10. ASSUME NEW c \in Crons, CronReads(c) \/ CronGivesUp(c) PROVE OneJob(n)'
  <2>1. CronGivesUp(c) => row'[n] = row[n]
    BY <1>1 DEF CronGivesUp, NInv, CronScheduled, SaveRow, NTypeOK
  <2>. QED
    BY <1>5, <1>10, <2>1 DEF CronReads, CronGivesUp
<1>11. ASSUME NEW c \in Crons, CronQueues(c) PROVE OneJob(n)'
  <2>1. PICK m \in cron[c].batch : Add(m, "waiting")
    BY <1>11 DEF CronQueues
  <2>2. m \in Notifications /\ m # n
    BY <1>1 DEF NInv, CronScheduled, NTypeOK
  <2>3. Unfinished(n)' = Unfinished(n) /\ \A j \in Unfinished(n) : job'[j] = job[j]
    BY <1>1, <1>2, <2>1, <2>2, OtherAdded
  <2>. QED
    BY <1>1, <1>4, <1>11, <2>3, NothingHappens DEF CronQueues
<1>12. ASSUME NEW j \in Jobs, JobStep(j) PROVE OneJob(n)'
  <2> DEFINE m == job[j].of
  <2>1. m \in Notifications /\ job[j].stage # "free" /\ UNCHANGED request
    BY <1>2, <1>12
    DEF NTypeOK, Job, JobStep, JobDue, Takes, Finds, Sends, SavesSent, FindsFailed, SavesFailed
  <2>2. CASE m # n
    <3>1. PICK s : MovesTo(j, s)
      BY <1>2, <1>12, JobsMove DEF JobStep
    <3>2. Unfinished(n)' = Unfinished(n) /\ \A i \in Unfinished(n) : job'[i] = job[i]
      BY <1>1, <1>2, <2>2, <3>1, OtherJob DEF MovesTo
    <3>3. row'[n] = row[n]
      BY <1>1, <1>2, <1>12, <2>1, <2>2
      DEF JobStep, JobDue, Takes, Finds, Sends, SavesSent, FindsFailed, SavesFailed, SaveRow, NTypeOK
    <3>4. delivered'[n] = delivered[n] /\ (n \in dropped' <=> n \in dropped)
      BY <1>1, <1>2, <1>12, <2>1, <2>2
      DEF JobStep, JobDue, Takes, Finds, Sends, SavesSent, FindsFailed, SavesFailed, Delivers, Drops,
          NTypeOK
    <3>. QED
      BY <1>1, <1>4, <2>1, <3>2, <3>3, <3>4, NothingHappens
  <2>3. CASE m = n
    <3>1. /\ j \in Unfinished(n) /\ Unfinished(n) \subseteq {j} /\ request[n] = "done"
          /\ delivered[n] \in {0, 1} /\ (Reached(n) <=> job[j].stage = "savesent")
      <4>1. delivered[n] \in 0 .. 2
        BY <1>1, <1>2 DEF NTypeOK
      <4>. QED
        BY <1>4, <2>1, <2>3, <4>1 DEF Unfinished, OneJob
    <3>2. ASSUME NEW s, MovesTo(j, s), s.stage # "free",
                 delivered'[n] \in {0, 1}, Reached(n)' <=> s.stage = "savesent"
          PROVE  OneJob(n)'
      <4>1. Unfinished(n)' = {j} /\ job'[j] = s
        BY <1>1, <1>2, <2>3, <3>1, <3>2, OwnJob, ZenonT(30) DEF MovesTo
      <4>. QED
        BY <2>1, <3>1, <3>2, <4>1 DEF OneJob
    <3>3. ASSUME NEW s, MovesTo(j, s), s.stage = "free", delivered'[n] \in {0, 1},
                 row'[n].status \in {"gone", IF Reached(n)' THEN "sent" ELSE "failed"}
          PROVE  OneJob(n)'
      <4>1. Unfinished(n)' = {}
        BY <1>1, <1>2, <3>1, <3>3, OwnJob DEF MovesTo
      <4>. QED
        BY <2>1, <3>1, <3>3, <4>1 DEF OneJob
    <3>4. ASSUME UNCHANGED <<delivered, dropped>>
          PROVE  delivered'[n] \in {0, 1} /\ (Reached(n)' <=> job[j].stage = "savesent")
      BY <3>1, <3>4 DEF Reached
    <3>5. CASE JobDue(j) \/ Takes(j) \/ Finds(j)
      <4>1. PICK s : MovesTo(j, s) /\ s.stage \in {"waiting", "find", "send", "failfind"}
        BY <1>2, <3>5, JobsMove
      <4>2. UNCHANGED <<delivered, dropped>> /\ job[j].stage # "savesent"
        BY <3>5 DEF JobDue, Takes, Finds
      <4>. QED
        BY <3>2, <3>4, <4>1, <4>2
    <3>6. CASE Sends(j)
      <4>1. PICK s : MovesTo(j, s) /\ SendsTo(m, s)
        BY <1>2, <3>6, JobsMove
      <4>2. delivered[n] = 0 /\ ~Reached(n)
        BY <3>1, <3>6 DEF Sends, Reached
      <4>3. delivered'[n] \in {0, 1} /\ (Reached(n)' <=> s.stage = "savesent")
        <5>1. CASE Delivers(n) /\ s.stage = "savesent"
          BY <1>1, <1>2, <4>2, <5>1 DEF Delivers, Reached, NTypeOK
        <5>2. CASE Drops(n) /\ s.stage = "savesent"
          BY <4>2, <5>2 DEF Drops, Reached
        <5>3. CASE UNCHANGED <<delivered, dropped>> /\ s.stage = "failfind"
          BY <4>2, <5>3 DEF Reached
        <5>. QED
          BY <2>3, <4>1, <5>1, <5>2, <5>3 DEF SendsTo
      <4>4. s.stage # "free"
        BY <4>1 DEF SendsTo
      <4>. QED
        BY <3>2, <4>1, <4>3, <4>4
    <3>7. CASE SavesSent(j)
      <4>1. PICK s : MovesTo(j, s) /\ s.stage = "free"
        BY <1>2, <3>7, JobsMove
      <4>2. delivered'[n] \in {0, 1} /\ Reached(n)'
        BY <3>4, <3>7 DEF SavesSent
      <4>3. row'[n].status = "sent"
        BY <1>1, <1>2, <2>3, <3>7 DEF SavesSent, SaveRow, NTypeOK, Row
      <4>. QED
        BY <3>3, <4>1, <4>2, <4>3
    <3>8. CASE FindsFailed(j)
      <4>1. PICK s : MovesTo(j, s) /\
                s.stage \in IF Exists(m) THEN {"failsave"} ELSE {"waiting", "free"}
        BY <1>2, <3>8, JobsMove
      <4>2. delivered'[n] \in {0, 1} /\ ~Reached(n)' /\ row' = row
        BY <3>4, <3>8 DEF FindsFailed
      <4>3. ~Exists(n) => row[n].status = "gone"
        BY <1>1, <3>1 DEF NInv, Created, Exists
      <4>4. CASE s.stage = "free"
        BY <2>3, <3>3, <4>1, <4>2, <4>3, <4>4
      <4>5. CASE s.stage # "free"
        <5>1. s.stage # "savesent"
          BY <4>1
        <5>. QED
          BY <3>2, <4>1, <4>2, <4>5, <5>1
      <4>. QED
        BY <4>4, <4>5
    <3>9. CASE SavesFailed(j)
      <4>1. PICK s : MovesTo(j, s) /\ s.stage \in {"waiting", "free"}
        BY <1>2, <3>9, JobsMove
      <4>2. delivered'[n] \in {0, 1} /\ ~Reached(n)'
        BY <3>4, <3>9 DEF SavesFailed
      <4>3. row'[n].status = "failed"
        BY <1>1, <1>2, <2>3, <3>9 DEF SavesFailed, SaveRow, NTypeOK, Row
      <4>. QED
        BY <3>2, <3>3, <4>1, <4>2, <4>3
    <3>. QED
      BY <1>12, <3>5, <3>6, <3>7, <3>8, <3>9 DEF JobStep
  <2>. QED
    BY <2>2, <2>3
<1>13. ASSUME NEW r \in Readers, ReaderSaves(r) \/ \E m \in Notifications : ReaderFinds(r, m)
       PROVE  OneJob(n)'
  <2>1. reader[r].of \in Notifications
    BY <1>2 DEF NTypeOK
  <2>2. row'[n].status \in {row[n].status, "read", "gone"}
    BY <1>6, <1>13, <2>1 DEF ReaderSaves, ReaderFinds
  <2>. QED
    BY <1>5, <1>13, <2>2 DEF ReaderSaves, ReaderFinds
<1>14. CASE MarksAllRead
  <2>1. row'[n] \in {row[n], [row[n] EXCEPT !.status = "read", !.read = TRUE]}
    BY <1>1, <1>14 DEF MarksAllRead
  <2>2. [row[n] EXCEPT !.status = "read", !.read = TRUE].status = "read"
    BY <1>2 DEF Row
  <2>. QED
    BY <1>5, <1>14, <2>1, <2>2 DEF MarksAllRead
<1>15. CASE UNCHANGED nvars
  BY <1>5, <1>15 DEF nvars
<1>. QED
  BY <1>3, <1>7, <1>8, <1>9, <1>10, <1>11, <1>12, <1>13, <1>14, <1>15
  DEF NNext, RequestStep, CronStep, QueueRefuses, CronCannotQueue, CronFails, SendTimesOut,
      ProcessFails, Crash

-----------------------------------------------------------------------------
LEMMA NInvInit == NInit => NInv
<1> SUFFICES ASSUME NInit PROVE NInv
  OBVIOUS
<1>1. NTypeOK
  BY TypeInit
<1>2. \A j \in Jobs : job[j].stage = "free"
  BY JobTypes DEF NInit
<1>3. Unset /\ DroppedSilent /\ SaversReached /\ SentReached
  BY <1>2 DEF NInit, Unset, DroppedSilent, SaversReached, SentReached
<1>4. CronScheduled /\ Created
  BY DEF NInit, CronScheduled, Created
<1>5. \A n \in Notifications : OneJob(n)
  BY <1>2 DEF NInit, OneJob, Unfinished, Reached
<1>. QED
  BY <1>1, <1>3, <1>4, <1>5 DEF NInv, Immediate

LEMMA NInvStep == NInv /\ [NNext]_nvars => NInv'
<1> SUFFICES ASSUME NInv, [NNext]_nvars PROVE NInv'
  OBVIOUS
<1>1. NTypeOK /\ Unset /\ DroppedSilent /\ SaversReached /\ SentReached /\ CronScheduled /\ Created
  BY DEF NInv
<1>2. /\ NTypeOK' /\ Unset' /\ DroppedSilent' /\ SaversReached' /\ SentReached'
      /\ CronScheduled' /\ Created'
  BY <1>1, TypeStep, UnsetStep, DroppedStep, SaversStep, SentStep, CronsStep, CreatedStep
<1>3. \A n \in Immediate' : Undisturbed' => OneJob(n)'
  BY OneJobStep
<1>. QED
  BY <1>2, <1>3 DEF NInv

LEMMA NInvHolds == NSpec => []NInv
BY NInvInit, NInvStep, PTL DEF NSpec

\* Every row, job, cron job and reader is of its type, in whatever order they move
\* (NotificationProcessor, ScheduledNotificationScheduler, the repository).
THEOREM NotificationTypes == NSpec => []NTypeOK
BY NInvHolds, PTL DEF NInv

\* A row that says SENT was delivered, or dropped by a provider that raises no errors,
\* whichever workers, cron jobs, readers and crashes came between: SENT of an e-mail
\* means that it was delivered (NotificationProcessor.process, SmtpProvider.send).
THEOREM SentIsTrue == NSpec => []SentWasDelivered
<1>1. NInv => SentWasDelivered
  BY DEF NInv, SentReached, Reached, DroppedSilent, SentWasDelivered, Dropped
<1>. QED
  BY <1>1, NInvHolds, PTL

\* While nothing fails, what is sent at once is delivered once, however often a
\* failed job is tried again (SendNotificationHandler, NotificationProcessor.process,
\* ScheduledNotificationScheduler).
THEOREM ImmediateOnce == NSpec => []DeliveredOnce
<1>1. NInv => DeliveredOnce
  <2> SUFFICES ASSUME NInv, NEW n \in Immediate, Undisturbed PROVE delivered[n] <= 1
    BY DEF DeliveredOnce
  <2>1. OneJob(n) /\ delivered[n] \in 0 .. 2
    BY DEF NInv, NTypeOK, Immediate
  <2>. QED
    BY <2>1 DEF OneJob, Reached
<1>. QED
  BY <1>1, NInvHolds, PTL

\* While nothing fails, the row of what was sent at once tells in the end what its
\* provider answered: FAILED of an e-mail that was not delivered, SENT of what was
\* delivered or silently dropped (NotificationProcessor.process).
THEOREM OutcomeIsRecorded == NSpec => []OutcomeRecorded
<1>1. NInv => OutcomeRecorded
  <2> SUFFICES ASSUME NInv, NEW n \in Immediate, Undisturbed, request[n] = "done", Unfinished(n) = {}
               PROVE  row[n].status \in {"read", "gone",
                                          IF delivered[n] > 0 \/ Dropped(n) THEN "sent" ELSE "failed"}
    BY DEF OutcomeRecorded
  <2>1. OneJob(n)
    BY DEF NInv
  <2>2. Dropped(n) <=> n \in dropped
    BY DEF NInv, DroppedSilent, Dropped
  <2>. QED
    BY <2>1, <2>2 DEF OneJob, Reached
<1>. QED
  BY <1>1, NInvHolds, PTL
-----------------------------------------------------------------------------
(* Workflow: what a task needs *)

LEMMA DependencyIs ==
    ASSUME depends \in [Tasks -> DependencyLists]
    PROVE  \A t \in Tasks : /\ depends[t] \in Seq(Range(depends[t]))
                            /\ Range(depends[t]) \subseteq Needs(t)
                            /\ Range(depends[t]) \subseteq Named
BY WorkflowAssumption DEF Needs, Named

LEMMA NeedsLeast ==
    ASSUME NEW t \in Tasks, NEW S \in SUBSET Named, Range(depends[t]) \subseteq S, SelfContained(S)
    PROVE  Needs(t) \subseteq S
BY DEF Needs

LEMMA NeedsClosed ==
    ASSUME depends \in [Tasks -> DependencyLists], NEW t \in Tasks
    PROVE  /\ Needs(t) \subseteq Named
           /\ \A u \in Needs(t) \cap Tasks : Range(depends[u]) \subseteq Needs(t)
<1>1. Needs(t) \subseteq Named
  BY DEF Needs
<1>2. ASSUME NEW u \in Needs(t) \cap Tasks, NEW d \in Range(depends[u])
      PROVE  d \in Needs(t)
  <2>1. d \in Named
    BY DEF Named
  <2>2. ASSUME NEW S \in SUBSET Named, Range(depends[t]) \subseteq S, SelfContained(S)
        PROVE  d \in S
    <3>1. u \in S
      BY <2>2 DEF Needs
    <3> QED
      BY <2>2, <3>1 DEF SelfContained
  <2> QED
    BY <2>1, <2>2 DEF Needs
<1> QED
  BY <1>1, <1>2

LEMMA NeedsNest ==
    ASSUME depends \in [Tasks -> DependencyLists], NEW t \in Tasks, NEW u \in Needs(t) \cap Tasks
    PROVE  Needs(u) \subseteq Needs(t)
<1>1. SelfContained(Needs(t)) /\ Needs(t) \in SUBSET Named /\ Range(depends[u]) \subseteq Needs(t)
  BY NeedsClosed DEF SelfContained
<1> QED
  BY <1>1, NeedsLeast

-----------------------------------------------------------------------------
(* WorkflowSound follows from the invariant. *)

THEOREM InvImpliesSound == WorkflowInv => WorkflowSound
<1> SUFFICES ASSUME WorkflowInv, phase = "done", NEW t \in Tasks
             PROVE  status[t] = "pending" <=> Hopeless(t)
  BY DEF WorkflowSound, Hopeless
<1> USE DEF WorkflowInv
<1>0. /\ depends \in [Tasks -> DependencyLists] /\ completedTasks = {v \in Tasks : status[v] = "completed"}
      /\ sorted \in Seq(Named) /\ IsInjective(sorted)
  BY DEF WorkflowTypeOK
<1>1. \A v \in Tasks : \E p \in DOMAIN sorted : sorted[p] = v
  BY DEF ListedOK, Range
<1>2. \A v \in Tasks : Before(v, next)
  BY <1>0, <1>1 DEF Before, WorkflowTypeOK
<1>3. \A v \in Tasks : IF status[v] = "pending" THEN Hopeless(v)
                       ELSE \A d \in Range(depends[v]) :
                                d \in completedTasks /\ \A p \in DOMAIN sorted : sorted[p] = v => Before(d, p)
  BY <1>2 DEF RunOK
<1>4. ASSUME status[t] # "pending", Hopeless(t)
      PROVE  FALSE
  <2>1. completedTasks \in SUBSET Named /\ SelfContained(completedTasks)
    BY <1>0, <1>3 DEF SelfContained, Named
  <2>2. Needs(t) \subseteq completedTasks
    BY <1>3, <1>4, <2>1, NeedsLeast
  <2>3. PICK u \in Needs(t) : u \notin Tasks \/ status[u] = "failed" \/ u \in Needs(u)
    BY <1>4 DEF Hopeless
  <2>4. u \in completedTasks /\ u \in Tasks /\ status[u] = "completed" /\ u \in Needs(u)
    BY <1>0, <2>2, <2>3
  <2>5. PICK p \in DOMAIN sorted : sorted[p] = u
    BY <1>1, <2>4
  <2> DEFINE S == {v \in completedTasks : Before(v, p)}
  <2>6. S \in SUBSET Named
    BY <2>1
  <2>7. Range(depends[u]) \subseteq S
    BY <1>3, <2>4, <2>5
  <2>8. ASSUME NEW v \in S \cap Tasks, NEW d \in Range(depends[v])
        PROVE  d \in S
    <3>1. PICK q \in 1 .. p - 1 : q \in DOMAIN sorted /\ sorted[q] = v
      BY <2>8 DEF Before
    <3>2. d \in completedTasks /\ Before(d, q)
      BY <1>0, <1>3, <2>8, <3>1
    <3>3. Before(d, p)
      BY <1>0, <3>1, <3>2 DEF Before
    <3> QED
      BY <3>2, <3>3
  <2>9. SelfContained(S)
    BY <2>8 DEF SelfContained
  <2>10. u \in S
    BY <2>4, <2>6, <2>7, <2>9, NeedsLeast
  <2> QED
    BY <1>0, <2>5, <2>10 DEF Before, IsInjective
<1> QED
  BY <1>3, <1>4

-----------------------------------------------------------------------------
(* Sorting the tasks *)

Fixed == depends' = depends

LEMMA SameNeeds ==
    Fixed => /\ Named' = Named /\ Calls' = Calls
             /\ \A t : Needs(t)' = Needs(t) /\ Dependencies(t)' = Dependencies(t)
BY DEF Fixed, Needs, Named, Calls, SelfContained, Dependencies

LEMMA CallIs ==
    WorkflowTypeOK =>
        /\ \A t : Dependencies(t) \in Seq(Named) /\ (Dependencies(t) # <<>> => t \in Tasks)
        /\ \A t \in Tasks : Dependencies(t) = depends[t]
<1> SUFFICES ASSUME WorkflowTypeOK
             PROVE  \A t : Dependencies(t) \in Seq(Named) /\ (Dependencies(t) # <<>> => t \in Tasks)
  BY DEF Dependencies
<1>1. \A t \in Tasks : depends[t] \in Seq(Range(depends[t])) /\ Range(depends[t]) \subseteq Named
  BY DependencyIs DEF WorkflowTypeOK
<1>2. \A t \in Tasks : depends[t] \in Seq(Named)
  BY <1>1
<1> QED
  BY <1>2 DEF Dependencies

LEMMA InitHolds == WorkflowInit => WorkflowInv
<1> SUFFICES ASSUME WorkflowInit
             PROVE  WorkflowInv
  OBVIOUS
<1> USE DEF WorkflowInit
<1>1. WorkflowTypeOK
  BY DEF WorkflowTypeOK, IsInjective
<1>2. StackOK /\ CallsOK /\ SortOK
  BY DEF StackOK, CallsOK, SortOK, Range
<1>3. ListedOK /\ RunOK
  BY WorkflowAssumption DEF ListedOK, RunOK
<1> QED
  BY <1>1, <1>2, <1>3 DEF WorkflowInv

LEMMA VisitNextKeeps == WorkflowInv /\ VisitNext => WorkflowInv'
<1> SUFFICES ASSUME WorkflowInv, VisitNext
             PROVE  WorkflowInv'
  OBVIOUS
<1> USE DEF WorkflowInv
<1>0. /\ phase = "sort" /\ phase' = "sort" /\ next \in DOMAIN TaskList /\ next' = next + 1 /\ next \in Nat \ {0}
      /\ UNCHANGED <<depends, visited, sorted, status, completedTasks>> /\ stack = <<>>
  BY WorkflowAssumption DEF VisitNext, WorkflowTypeOK
<1> DEFINE t == TaskList[next]
<1>1. t \in Tasks /\ t \in Named
  BY <1>0 DEF Tasks, Named, Range
<1>2. /\ Named' = Named /\ Calls' = Calls /\ \A u : Needs(u)' = Needs(u) /\ Dependencies(u)' = Dependencies(u)
  BY <1>0, SameNeeds DEF Fixed
<1>3. SortOK'
  BY <1>0, <1>2 DEF SortOK, Before, InCycle
<1>4. RunOK'
  BY <1>0 DEF RunOK
<1>5. visiting = {}
  BY <1>0 DEF StackOK
<1>6. CASE t \in visited
  <2>1. stack' = stack /\ visiting' = visiting
    BY <1>6 DEF VisitNext
  <2>2. WorkflowTypeOK'
    BY <1>0, <1>2, <2>1 DEF WorkflowTypeOK
  <2>3. StackOK' /\ CallsOK'
    BY <1>0, <1>5, <2>1 DEF StackOK, CallsOK
  <2>4. ListedOK'
    BY <1>0, <1>5, <1>6, <2>1, WorkflowAssumption DEF ListedOK
  <2> QED
    BY <1>0, <1>3, <1>4, <2>2, <2>3, <2>4
<1>7. CASE t \notin visited
  <2>1. stack' = <<Call(t)>> /\ visiting' = {t}
    BY <1>5, <1>7 DEF VisitNext
  <2>2. WorkflowTypeOK'
    BY <1>0, <1>1, <1>2, <2>1 DEF WorkflowTypeOK, Call, Calls
  <2>3. StackOK'
    BY <1>0, <1>7, <2>1 DEF StackOK, Call
  <2>4. CallsOK'
    <3>1. Len(Dependencies(t)) \in Nat
      BY CallIs
    <3>2. DOMAIN stack' = {1} /\ stack'[1].dep = 1 /\ stack'[1].task = t
      BY <2>1 DEF Call
    <3> QED
      BY <1>2, <3>1, <3>2 DEF CallsOK
  <2>5. ListedOK'
    BY <1>0, <1>5, <2>1, WorkflowAssumption DEF ListedOK
  <2> QED
    BY <1>0, <1>3, <1>4, <2>2, <2>3, <2>4, <2>5
<1> QED
  BY <1>6, <1>7
\* The call on top of the stack, after it has gone through one more dependency
Caller ==
    Append(Front(stack), [Last(stack) EXCEPT !.dep = @ + 1])

LEMMA StackedIs ==
    ASSUME WorkflowTypeOK
    PROVE  \A i \in DOMAIN stack :
               /\ stack[i] \in Calls /\ stack[i].task \in Named /\ stack[i].dep \in Nat \ {0}
               /\ Len(Dependencies(stack[i].task)) \in Nat
<1>1. \A i \in DOMAIN stack : stack[i] \in Calls /\ Len(Dependencies(stack[i].task)) \in Nat
  BY CallIs DEF WorkflowTypeOK
<1> QED
  BY <1>1 DEF Calls

LEMMA FrontIs ==
    ASSUME NEW S, NEW s \in Seq(S), s # <<>>
    PROVE  /\ Len(s) \in Nat \ {0} /\ Len(s) \in DOMAIN s /\ DOMAIN s = 1 .. Len(s)
           /\ Last(s) = s[Len(s)] /\ Last(s) \in S
           /\ Front(s) \in Seq(S) /\ Len(Front(s)) = Len(s) - 1
           /\ \A i \in 1 .. Len(s) - 1 : Front(s)[i] = s[i]
<1>1. Len(s) \in Nat \ {0} /\ Len(s) \in DOMAIN s /\ DOMAIN s = 1 .. Len(s)
  OBVIOUS
<1>2. Last(s) = s[Len(s)] /\ Last(s) \in S
  BY <1>1 DEF Last
<1>3. Front(s) \in Seq(S)
  BY <1>1 DEF Front
<1>4. Len(Front(s)) = Len(s) - 1
  BY <1>1 DEF Front
<1>5. \A i \in 1 .. Len(s) - 1 : Front(s)[i] = s[i]
  BY <1>1 DEF Front
<1> QED
  BY <1>1, <1>2, <1>3, <1>4, <1>5

LEMMA CallerIs ==
    ASSUME WorkflowTypeOK, stack # <<>>
    PROVE  /\ Len(stack) \in DOMAIN stack /\ Last(stack) = stack[Len(stack)]
           /\ Caller \in Seq(Calls) /\ Len(Caller) = Len(stack)
           /\ \A i \in DOMAIN stack :
                  /\ Caller[i].task = stack[i].task
                  /\ Caller[i].dep = IF i = Len(stack) THEN stack[i].dep + 1 ELSE stack[i].dep
<1>0. stack \in Seq(Calls)
  BY DEF WorkflowTypeOK
<1>1. Len(stack) \in Nat \ {0} /\ Len(stack) \in DOMAIN stack
  BY <1>0
<1>2. /\ Last(stack) = stack[Len(stack)] /\ Last(stack) \in Calls
      /\ Front(stack) \in Seq(Calls) /\ Len(Front(stack)) = Len(stack) - 1
      /\ \A i \in 1 .. Len(stack) - 1 : Front(stack)[i] = stack[i]
  BY <1>0, FrontIs
<1>3. [Last(stack) EXCEPT !.dep = @ + 1] = [task |-> Last(stack).task, dep |-> Last(stack).dep + 1]
  BY <1>2 DEF Calls
<1>4. [Last(stack) EXCEPT !.dep = @ + 1] \in Calls
  BY <1>2, <1>3 DEF Calls
<1>5. /\ Caller \in Seq(Calls) /\ Len(Caller) = Len(stack) /\ DOMAIN stack = 1 .. Len(stack)
      /\ \A i \in 1 .. Len(stack) - 1 : Caller[i] = stack[i]
      /\ Caller[Len(stack)] = [Last(stack) EXCEPT !.dep = @ + 1]
  BY <1>0, <1>1, <1>2, <1>4 DEF Caller
<1> QED
  BY <1>1, <1>2, <1>3, <1>5

LEMMA VisitDependencyKeeps == WorkflowInv /\ VisitDependency => WorkflowInv'
<1> SUFFICES ASSUME WorkflowInv, VisitDependency
             PROVE  WorkflowInv'
  OBVIOUS
<1> USE DEF WorkflowInv
<1> DEFINE n == Len(stack)
           t == stack[n].task
           k == stack[n].dep
           d == Dependencies(t)[k]
<1>0. /\ phase = "sort" /\ phase' = "sort" /\ stack # <<>> /\ n \in DOMAIN stack /\ n \in Nat
      /\ UNCHANGED <<next, depends, visited, sorted, status, completedTasks>>
  BY DEF VisitDependency, WorkflowTypeOK
<1>1. /\ k \in 1 .. Len(Dependencies(t)) /\ k \in Nat
      /\ IF d \in visiting \cup visited
         THEN stack' = Caller /\ UNCHANGED visiting
         ELSE stack' = Append(Caller, Call(d)) /\ visiting' = visiting \cup {d}
  <2>1. Last(stack) = stack[n]
    BY <1>0, CallerIs
  <2>2. k \in Nat \ {0} /\ Len(Dependencies(t)) \in Nat
    BY <1>0, StackedIs
  <2>3. /\ k <= Len(Dependencies(t))
        /\ IF d \in visiting \cup visited
           THEN stack' = Caller /\ UNCHANGED visiting
           ELSE stack' = Append(Caller, Call(d)) /\ visiting' = visiting \cup {d}
    BY <2>1 DEF VisitDependency, Caller
  <2> QED
    BY <2>2, <2>3
<1>2. /\ Named' = Named /\ Calls' = Calls /\ \A u : Needs(u)' = Needs(u) /\ Dependencies(u)' = Dependencies(u)
  BY <1>0, SameNeeds DEF Fixed
<1>3. /\ t \in Tasks /\ d \in Named /\ d \in Range(depends[t]) /\ d \in Needs(t)
      /\ Dependencies(t) = depends[t]
  <2>1. Dependencies(t) \in Seq(Named) /\ t \in Tasks /\ Dependencies(t) = depends[t]
    BY <1>1, CallIs
  <2>2. d \in Named /\ d \in Range(depends[t])
    BY <1>1, <2>1 DEF Range
  <2>3. Range(depends[t]) \subseteq Needs(t)
    BY <2>1, DependencyIs DEF WorkflowTypeOK
  <2> QED
    BY <2>1, <2>2, <2>3
<1>4. \A i \in DOMAIN stack :
          /\ i \in 1 .. n /\ stack[i].task \in Tasks /\ d \in Needs(stack[i].task)
          /\ i < n => t \in Needs(stack[i].task)
  <2> SUFFICES ASSUME NEW i \in DOMAIN stack, i < n
               PROVE  stack[i].task \in Tasks /\ d \in Needs(stack[i].task) /\ t \in Needs(stack[i].task)
    BY <1>0, <1>3 DEF WorkflowTypeOK
  <2>1. stack[i].task \in Tasks /\ t \in Needs(stack[i].task)
    BY <1>0 DEF StackOK
  <2> QED
    BY <1>3, <2>1, NeedsClosed DEF WorkflowTypeOK
<1>5. SortOK'
  BY <1>0, <1>2 DEF SortOK, Before, InCycle
<1>6. RunOK'
  BY <1>0 DEF RunOK
<1>7. /\ DOMAIN Caller = DOMAIN stack /\ Caller \in Seq(Calls)
      /\ \A i \in DOMAIN stack :
             /\ Caller[i].task = stack[i].task
             /\ Caller[i].dep = IF i = n THEN k + 1 ELSE stack[i].dep
  BY <1>0, CallerIs
\* The dependencies the calls had gone through, and now this one
<1>8. ASSUME NEW i \in DOMAIN stack
      PROVE  /\ Caller[i].dep <= Len(Dependencies(stack[i].task)) + 1
             /\ \A l \in 1 .. Caller[i].dep - 1 :
                    LET e == Dependencies(stack[i].task)[l] IN
                    \/ e \in visited
                    \/ InCycle(stack[i].task, e)
                    \/ i < n /\ e = stack[i + 1].task
                    \/ i = n /\ e = d
  <2>1. /\ stack[i].dep \in Nat /\ Len(Dependencies(stack[i].task)) \in Nat
        /\ stack[i].dep <= Len(Dependencies(stack[i].task)) + 1
        /\ \A l \in 1 .. stack[i].dep - 1 :
               LET e == Dependencies(stack[i].task)[l] IN
               e \in visited \/ InCycle(stack[i].task, e) \/ (i < n /\ e = stack[i + 1].task)
    BY StackedIs DEF CallsOK
  <2>2. CASE i = n
    <3>1. Caller[i].dep = k + 1 /\ Len(Dependencies(stack[i].task)) \in Nat
      BY <1>7, <2>1, <2>2
    <3>2. ASSUME NEW l \in 1 .. Caller[i].dep - 1
          PROVE  l \in 1 .. stack[i].dep - 1 \/ l = k
      BY <1>1, <2>2, <3>1
    <3> QED
      BY <1>1, <2>1, <2>2, <3>1, <3>2
  <2>3. CASE i # n
    BY <1>7, <2>1, <2>3
  <2> QED
    BY <2>2, <2>3
<1>9. CASE d \in visiting \cup visited
  <2>1. stack' = Caller /\ visiting' = visiting
    BY <1>1, <1>9
  <2>2. WorkflowTypeOK'
    BY <1>0, <1>2, <1>7, <2>1 DEF WorkflowTypeOK
  <2>3. StackOK'
    BY <1>0, <1>2, <1>7, <2>1 DEF StackOK
  <2>4. d \in visited \/ InCycle(t, d)
    <3> SUFFICES ASSUME d \in visiting
                 PROVE  InCycle(t, d)
      BY <1>9
    <3>1. PICK j \in DOMAIN stack : stack[j].task = d
      BY DEF StackOK
    <3>2. CASE j < n
      BY <1>4, <3>1, <3>2 DEF InCycle
    <3>3. CASE j = n
      BY <1>3, <3>1, <3>3 DEF InCycle
    <3> QED
      BY <1>0, <1>4, <3>2, <3>3
  <2>5. CallsOK'
    <3> SUFFICES ASSUME NEW i \in DOMAIN stack
                 PROVE  /\ stack'[i].dep <= Len(Dependencies(stack'[i].task)) + 1
                        /\ \A l \in 1 .. stack'[i].dep - 1 :
                               LET e == Dependencies(stack'[i].task)[l] IN
                               \/ e \in visited
                               \/ InCycle(stack'[i].task, e)
                               \/ i < Len(stack') /\ e = stack'[i + 1].task
      BY <1>0, <1>2, <1>7, <2>1 DEF CallsOK, InCycle
    <3>1. Len(stack') = n /\ stack'[i].task = stack[i].task /\ (i < n => stack'[i + 1].task = stack[i + 1].task)
      BY <1>0, <1>4, <1>7, <2>1, CallerIs
    <3> QED
      BY <1>8, <2>1, <2>4, <3>1
  <2>6. ListedOK'
    BY <1>0, <2>1 DEF ListedOK
  <2> QED
    BY <1>0, <1>5, <1>6, <2>2, <2>3, <2>5, <2>6
<1>10. CASE d \notin visiting \cup visited
  <2>1. stack' = Append(Caller, Call(d)) /\ visiting' = visiting \cup {d}
    BY <1>1, <1>10
  <2>2. /\ Len(stack') = n + 1 /\ DOMAIN stack' = 1 .. n + 1 /\ DOMAIN stack = 1 .. n
        /\ stack' \in Seq(Calls)
        /\ stack'[n + 1].task = d /\ stack'[n + 1].dep = 1
        /\ \A i \in 1 .. n : stack'[i] = Caller[i] /\ stack'[i].task = stack[i].task
    BY <1>0, <1>3, <1>7, <2>1, CallerIs DEF Call, Calls, WorkflowTypeOK
  <2>3. WorkflowTypeOK'
    BY <1>0, <1>2, <1>3, <2>1, <2>2 DEF WorkflowTypeOK
  <2>4. StackOK'
    <3>1. visiting' = {stack'[i].task : i \in DOMAIN stack'}
      <4>1. visiting = {stack[i].task : i \in 1 .. n}
        BY <2>2 DEF StackOK
      <4>2. {stack'[i].task : i \in 1 .. n + 1} = {stack'[i].task : i \in 1 .. n} \cup {stack'[n + 1].task}
        BY <1>0
      <4>3. {stack'[i].task : i \in 1 .. n} = {stack[i].task : i \in 1 .. n}
        BY <2>2
      <4> QED
        BY <2>1, <2>2, <4>1, <4>2, <4>3
    <3>2. ASSUME NEW i \in DOMAIN stack', NEW j \in DOMAIN stack', i < j
          PROVE  /\ stack'[i].task \in Tasks /\ stack'[i].task # stack'[j].task
                 /\ stack'[j].task \in Needs(stack'[i].task)
      <4>1. i \in 1 .. n /\ stack'[i].task = stack[i].task /\ stack[i].task \in visiting
        BY <1>0, <2>2, <3>2 DEF StackOK
      <4>2. CASE j = n + 1
        BY <1>4, <1>10, <2>2, <4>1, <4>2
      <4>3. CASE j \in 1 .. n
        BY <2>2, <3>2, <4>1, <4>3 DEF StackOK
      <4> QED
        BY <1>0, <2>2, <4>2, <4>3
    <3>3. visited' = Range(sorted)' /\ visiting' \cap visited' = {}
      BY <1>0, <1>10, <2>1 DEF StackOK
    <3> QED
      BY <1>2, <3>1, <3>2, <3>3 DEF StackOK
  <2>5. CallsOK'
    <3> SUFFICES ASSUME NEW i \in 1 .. n + 1
                 PROVE  /\ stack'[i].dep <= Len(Dependencies(stack'[i].task)) + 1
                        /\ \A l \in 1 .. stack'[i].dep - 1 :
                               LET e == Dependencies(stack'[i].task)[l] IN
                               \/ e \in visited
                               \/ InCycle(stack'[i].task, e)
                               \/ i < n + 1 /\ e = stack'[i + 1].task
      BY <1>0, <1>2, <2>2 DEF CallsOK, InCycle
    <3>1. CASE i = n + 1
      <4>1. Len(Dependencies(d)) \in Nat
        BY CallIs
      <4> QED
        BY <2>2, <3>1, <4>1
    <3>2. CASE i \in 1 .. n
      <4>1. i < n => i + 1 \in 1 .. n /\ stack'[i + 1].task = stack[i + 1].task
        BY <1>0, <2>2, <3>2
      <4>2. /\ Caller[i].dep <= Len(Dependencies(stack[i].task)) + 1
            /\ \A l \in 1 .. Caller[i].dep - 1 :
                   LET e == Dependencies(stack[i].task)[l] IN
                   \/ e \in visited
                   \/ InCycle(stack[i].task, e)
                   \/ i < n /\ e = stack[i + 1].task
                   \/ i = n /\ e = d
        BY <1>8, <2>2, <3>2
      <4>3. i < n + 1 /\ (i = n => stack'[i + 1].task = d)
        BY <1>0, <2>2, <3>2
      <4>4. stack'[i].dep = Caller[i].dep /\ stack'[i].task = stack[i].task
        BY <2>2, <3>2
      <4> HIDE DEF d
      <4> QED
        BY <4>1, <4>2, <4>3, <4>4
    <3> QED
      BY <1>0, <3>1, <3>2
  <2>6. ListedOK'
    BY <1>0, <2>1 DEF ListedOK
  <2> QED
    BY <1>0, <1>5, <1>6, <2>3, <2>4, <2>5, <2>6
<1> QED
  BY <1>9, <1>10
LEMMA EndVisitKeeps == WorkflowInv /\ EndVisit => WorkflowInv'
<1> SUFFICES ASSUME WorkflowInv, EndVisit
             PROVE  WorkflowInv'
  OBVIOUS
<1> USE DEF WorkflowInv
<1> DEFINE n == Len(stack)
           m == Len(sorted)
           t == stack[n].task
<1>0. /\ phase = "sort" /\ phase' = "sort" /\ stack # <<>> /\ stack \in Seq(Calls)
      /\ UNCHANGED <<next, depends, status, completedTasks>>
      /\ sorted \in Seq(Named) /\ m \in Nat /\ IsInjective(sorted)
  BY DEF EndVisit, WorkflowTypeOK
<1>1. /\ n \in Nat \ {0} /\ DOMAIN stack = 1 .. n /\ Last(stack) = stack[n] /\ t \in Named
      /\ Front(stack) \in Seq(Calls) /\ Len(Front(stack)) = n - 1
      /\ \A i \in 1 .. n - 1 : Front(stack)[i] = stack[i]
  <2>1. /\ n \in Nat \ {0} /\ DOMAIN stack = 1 .. n /\ n \in DOMAIN stack /\ Last(stack) = stack[n]
        /\ Front(stack) \in Seq(Calls) /\ Len(Front(stack)) = n - 1
        /\ \A i \in 1 .. n - 1 : Front(stack)[i] = stack[i]
    BY <1>0, FrontIs
  <2>2. t \in Named
    BY <2>1, StackedIs
  <2> QED
    BY <2>1, <2>2
<1>2. /\ stack[n].dep > Len(Dependencies(t)) /\ stack' = Front(stack)
      /\ visiting' = visiting \ {t} /\ visited' = visited \cup {t} /\ sorted' = Append(sorted, t)
  BY <1>1 DEF EndVisit, Sorted
<1>3. /\ Named' = Named /\ Calls' = Calls /\ \A u : Needs(u)' = Needs(u) /\ Dependencies(u)' = Dependencies(u)
  BY <1>0, SameNeeds DEF Fixed
<1>4. /\ Len(stack') = n - 1 /\ DOMAIN stack' = 1 .. n - 1
      /\ \A i \in 1 .. n - 1 : stack'[i] = stack[i] /\ stack[i].task # t
  <2>1. \A i \in 1 .. n - 1 : i \in DOMAIN stack /\ i < n /\ n \in DOMAIN stack
    BY <1>1
  <2>2. Len(stack') = n - 1 /\ DOMAIN stack' = 1 .. n - 1 /\ \A i \in 1 .. n - 1 : stack'[i] = stack[i]
    <3>1. stack' \in Seq(Calls) /\ Len(stack') = n - 1
      BY <1>1, <1>2
    <3>2. DOMAIN stack' = 1 .. Len(stack')
      BY <3>1
    <3> QED
      BY <1>1, <1>2, <3>1, <3>2
  <2> QED
    BY <2>1, <2>2 DEF StackOK
<1>5. /\ sorted' \in Seq(Named) /\ DOMAIN sorted' = 1 .. m + 1 /\ sorted'[m + 1] = t /\ DOMAIN sorted = 1 .. m
      /\ \A p \in 1 .. m : sorted'[p] = sorted[p] /\ sorted[p] # t
  <2>1. t \notin Range(sorted)
    <3>1. t \in visiting
      BY <1>1 DEF StackOK
    <3> QED
      BY <3>1 DEF StackOK
  <2>2. \A p \in DOMAIN sorted : sorted[p] # t
    BY <2>1 DEF Range
  <2> QED
    BY <1>0, <1>1, <1>2, <2>2
<1>6. IsInjective(sorted')
  BY <1>0, <1>5 DEF IsInjective
<1>7. WorkflowTypeOK'
  <2>1. visited' \subseteq Named /\ visiting' \subseteq Named /\ stack' \in Seq(Calls)
    BY <1>1, <1>2 DEF WorkflowTypeOK
  <2>2. Tasks' = Tasks
    BY DEF Tasks
  <2> QED
    BY <1>0, <1>3, <1>5, <1>6, <2>1, <2>2 DEF WorkflowTypeOK
<1>8. visited' = Range(sorted)'
  BY <1>0, <1>2, <1>5 DEF StackOK, Range
<1>9. StackOK'
  <2>1. visiting = {stack[i].task : i \in 1 .. n}
    BY <1>1 DEF StackOK
  <2>2. visiting' = {stack[i].task : i \in 1 .. n - 1}
    <3>1. 1 .. n = (1 .. n - 1) \cup {n}
      BY <1>1
    <3>2. visiting = {stack[i].task : i \in 1 .. n - 1} \cup {t}
      BY <2>1, <3>1
    <3>3. t \notin {stack[i].task : i \in 1 .. n - 1}
      BY <1>4
    <3> QED
      BY <1>2, <3>2, <3>3
  <2>3. {stack[i].task : i \in 1 .. n - 1} = {stack'[i].task : i \in 1 .. n - 1}
    BY <1>4
  <2>4. visiting' \cap visited' = {}
    BY <1>2 DEF StackOK
  <2>5. \A i, j \in DOMAIN stack' : i < j =>
            /\ stack'[i].task \in Tasks /\ stack'[i].task # stack'[j].task
            /\ stack'[j].task \in Needs(stack'[i].task)
    BY <1>1, <1>4 DEF StackOK
  <2> QED
    BY <1>3, <1>4, <1>8, <2>2, <2>3, <2>4, <2>5 DEF StackOK
<1>10. CallsOK'
  <2>1. ASSUME NEW i \in 1 .. n - 1, NEW k \in 1 .. stack[i].dep - 1
        PROVE  LET d == Dependencies(stack[i].task)[k] IN
               \/ d \in visited'
               \/ InCycle(stack[i].task, d)
               \/ i < n - 1 /\ d = stack'[i + 1].task
    <3>1. i \in DOMAIN stack
      BY <1>1
    <3>2. LET d == Dependencies(stack[i].task)[k] IN
          d \in visited \/ InCycle(stack[i].task, d) \/ d = stack[i + 1].task
      BY <3>1 DEF CallsOK
    <3>3. i + 1 = n \/ (i < n - 1 /\ i + 1 \in 1 .. n - 1)
      <4>1. n \in Nat
        BY <1>1
      <4> HIDE DEF n
      <4> QED
        BY <4>1
    <3> QED
      BY <1>2, <1>4, <3>2, <3>3
  <2>2. \A i \in 1 .. n - 1 : stack[i].dep <= Len(Dependencies(stack[i].task)) + 1
    BY <1>1 DEF CallsOK
  <2>3. \A i \in 1 .. n - 1 : stack'[i] = stack[i] /\ stack'[i].task = stack[i].task /\ stack'[i].dep = stack[i].dep
    BY <1>4
  <2>4. \A u, d : InCycle(u, d)' = InCycle(u, d)
    BY <1>3 DEF InCycle
  <2>5. \A i \in 1 .. n - 1 :
            /\ stack'[i].dep <= Len(Dependencies(stack'[i].task)) + 1
            /\ \A k \in 1 .. stack'[i].dep - 1 :
                   LET d == Dependencies(stack'[i].task)[k] IN
                   \/ d \in visited'
                   \/ InCycle(stack'[i].task, d)
                   \/ i < n - 1 /\ d = stack'[i + 1].task
    BY <2>1, <2>2, <2>3
  <2> HIDE DEF n
  <2> QED
    BY <1>3, <1>4, <2>4, <2>5 DEF CallsOK
<1>11. SortOK'
  <2> SUFFICES ASSUME NEW p \in 1 .. m + 1, sorted'[p] \in Tasks, NEW d \in Range(depends[sorted'[p]])
               PROVE  Before(d, p)' \/ InCycle(sorted'[p], d)
    BY <1>0, <1>3, <1>5 DEF SortOK, InCycle
  <2>1. CASE p \in 1 .. m
    <3>1. p \in DOMAIN sorted /\ sorted'[p] = sorted[p]
      BY <1>5, <2>1
    <3>2. Before(d, p) \/ InCycle(sorted[p], d)
      BY <3>1 DEF SortOK
    <3>3. Before(d, p) => Before(d, p)'
      BY <1>0, <1>5 DEF Before
    <3> QED
      BY <3>1, <3>2, <3>3
  <2>2. CASE p = m + 1
    <3>1. t \in Tasks /\ Dependencies(t) = depends[t] /\ Dependencies(t) \in Seq(Named) /\ stack[n].dep \in Nat
      BY <1>1, <1>5, <2>2, CallIs, StackedIs
    <3>2. PICK k \in 1 .. Len(Dependencies(t)) : d = Dependencies(t)[k]
      BY <1>5, <2>2, <3>1 DEF Range
    <3>3. k \in 1 .. stack[n].dep - 1
      BY <1>2, <3>1, <3>2
    <3>4. d \in visited \/ InCycle(t, d)
      BY <1>1, <3>2, <3>3 DEF CallsOK
    <3>5. ASSUME d \in visited
          PROVE  Before(d, p)'
      BY <1>0, <1>5, <2>2, <3>5 DEF StackOK, Range, Before
    <3> QED
      BY <1>5, <2>2, <3>4, <3>5
  <2> QED
    BY <1>0, <2>1, <2>2
<1>12. ListedOK' /\ RunOK'
  BY <1>0, <1>2 DEF ListedOK, RunOK
<1> QED
  BY <1>0, <1>7, <1>9, <1>10, <1>11, <1>12

LEMMA EndSortKeeps == WorkflowInv /\ EndSort => WorkflowInv'
<1> SUFFICES ASSUME WorkflowInv, EndSort
             PROVE  WorkflowInv'
  OBVIOUS
<1> USE DEF WorkflowInv, EndSort
<1>1. /\ Named' = Named /\ Calls' = Calls /\ \A u : Needs(u)' = Needs(u) /\ Dependencies(u)' = Dependencies(u)
  BY SameNeeds DEF Fixed
<1>2. WorkflowTypeOK' /\ StackOK' /\ CallsOK' /\ SortOK'
  BY <1>1 DEF WorkflowTypeOK, StackOK, CallsOK, SortOK, Before, InCycle
<1>3. visiting = {}
  BY DEF StackOK
<1>4. Tasks \subseteq visited
  <2>1. next \in Nat /\ TaskList \in Seq(Range(TaskList))
    BY WorkflowAssumption DEF WorkflowTypeOK
  <2> QED
    BY <1>3, <2>1 DEF ListedOK, Tasks, Range
<1>5. ListedOK'
  BY <1>4 DEF ListedOK, StackOK
<1>6. RunOK'
  BY DEF RunOK, Before
<1> QED
  BY <1>2, <1>5, <1>6

-----------------------------------------------------------------------------
(* Running the tasks *)

\* What a task of the run does leaves the order alone.
RunStep ==
    /\ phase = "run" /\ phase' = "run" /\ next \in DOMAIN sorted /\ next' = next + 1
    /\ UNCHANGED <<depends, stack, visited, visiting, sorted>>

LEMMA RunStepKeeps ==
    WorkflowInv /\ RunStep =>
        /\ StackOK' /\ CallsOK' /\ SortOK' /\ ListedOK'
        /\ Named' = Named /\ Calls' = Calls /\ \A u : Needs(u)' = Needs(u)
        /\ \A t, p : Before(t, p)' = Before(t, p)
        /\ \A t : Before(t, next') <=> Before(t, next) \/ t = Current
        /\ \A p \in DOMAIN sorted : sorted[p] = Current => p = next
        /\ ~Before(Current, next)
<1> SUFFICES ASSUME WorkflowInv, RunStep
             PROVE  /\ StackOK' /\ CallsOK' /\ SortOK' /\ ListedOK'
                    /\ Named' = Named /\ Calls' = Calls /\ \A u : Needs(u)' = Needs(u)
                    /\ \A t, p : Before(t, p)' = Before(t, p)
                    /\ \A t : Before(t, next') <=> Before(t, next) \/ t = Current
                    /\ \A p \in DOMAIN sorted : sorted[p] = Current => p = next
                    /\ ~Before(Current, next)
  OBVIOUS
<1> USE DEF WorkflowInv, RunStep
<1>1. /\ Named' = Named /\ Calls' = Calls /\ \A u : Needs(u)' = Needs(u) /\ Dependencies(u)' = Dependencies(u)
  BY SameNeeds DEF Fixed
<1>2. StackOK' /\ CallsOK' /\ SortOK' /\ ListedOK'
  BY <1>1 DEF StackOK, CallsOK, SortOK, ListedOK, Before, InCycle
<1>3. sorted \in Seq(Named) /\ next \in Nat \ {0} /\ DOMAIN sorted = 1 .. Len(sorted) /\ IsInjective(sorted)
  BY DEF WorkflowTypeOK
<1>4. \A p \in DOMAIN sorted : sorted[p] = Current => p = next
  BY <1>3 DEF IsInjective, Current
<1>5. ~Before(Current, next)
  BY <1>3, <1>4 DEF Before
<1>6. ASSUME NEW t
      PROVE  Before(t, next') <=> Before(t, next) \/ t = Current
  <2>1. ASSUME NEW q \in 1 .. next' - 1
        PROVE  q \in 1 .. next - 1 \/ q = next
    BY <1>3
  <2>2. next \in 1 .. next' - 1 /\ \A q \in 1 .. next - 1 : q \in 1 .. next' - 1
    BY <1>3
  <2> QED
    BY <2>1, <2>2 DEF Before, Current
<1> QED
  BY <1>1, <1>2, <1>4, <1>5, <1>6 DEF Before

LEMMA SkipTaskKeeps == WorkflowInv /\ SkipTask => WorkflowInv'
<1> SUFFICES ASSUME WorkflowInv, SkipTask
             PROVE  WorkflowInv'
  OBVIOUS
<1> DEFINE c == Current
<1>0. RunStep /\ UNCHANGED <<status, completedTasks>> /\ depends \in [Tasks -> DependencyLists]
  BY DEF SkipTask, InRun, RunStep, WorkflowInv, WorkflowTypeOK
<1>1. /\ StackOK' /\ CallsOK' /\ SortOK' /\ ListedOK'
      /\ Named' = Named /\ Calls' = Calls /\ \A u : Needs(u)' = Needs(u)
      /\ \A t, p : Before(t, p)' = Before(t, p)
      /\ \A t : Before(t, next') <=> Before(t, next) \/ t = c
      /\ ~Before(c, next)
  BY <1>0, RunStepKeeps
<1>2. WorkflowTypeOK'
  BY <1>0, <1>1 DEF WorkflowInv, WorkflowTypeOK, RunStep
<1>3. ASSUME c \in Tasks
      PROVE  status[c] = "pending" /\ Hopeless(c)
  <2>1. status[c] = "pending"
    BY <1>1, <1>3 DEF WorkflowInv, RunOK
  <2>2. PICK d \in Range(depends[c]) : d \notin completedTasks
    BY <1>3 DEF SkipTask, Ready
  <2>3. d \in Needs(c)
    BY <1>0, <1>3, DependencyIs
  <2>4. Before(d, next) \/ InCycle(c, d)
    BY <1>0, <1>3 DEF WorkflowInv, SortOK, RunStep, Current
  <2>5. CASE d \notin Tasks
    BY <2>1, <2>3, <2>5 DEF Hopeless
  <2>6. CASE d \in Tasks /\ InCycle(c, d)
    <3>1. d \in Needs(d)
      BY <1>0, <1>3, <2>3, <2>6, NeedsNest DEF InCycle
    <3> QED
      BY <2>1, <2>3, <3>1 DEF Hopeless
  <2>7. CASE d \in Tasks /\ Before(d, next)
    <3>1. status[d] \in {"pending", "failed"}
      BY <1>0, <2>2, <2>7 DEF WorkflowInv, WorkflowTypeOK
    <3>2. status[d] = "pending" => Hopeless(d)
      BY <1>0, <2>7 DEF WorkflowInv, RunOK, RunStep
    <3>3. Needs(d) \subseteq Needs(c)
      BY <1>0, <1>3, <2>3, <2>7, NeedsNest
    <3> QED
      BY <2>1, <2>3, <2>7, <3>1, <3>2, <3>3 DEF Hopeless
  <2> QED
    BY <2>1, <2>4, <2>5, <2>6, <2>7
<1>4. \A t : Hopeless(t) => Hopeless(t)'
  BY <1>0, <1>1 DEF Hopeless
<1>5. RunOK'
  BY <1>0, <1>1, <1>3, <1>4 DEF WorkflowInv, RunOK, RunStep
<1> QED
  BY <1>0, <1>1, <1>2, <1>5 DEF WorkflowInv, RunStep

LEMMA RunTaskKeeps == WorkflowInv /\ (CompleteTask \/ FailTask) => WorkflowInv'
<1> SUFFICES ASSUME WorkflowInv, CompleteTask \/ FailTask
             PROVE  WorkflowInv'
  OBVIOUS
<1> DEFINE c == Current
<1>0. /\ RunStep /\ c \in Tasks /\ Range(depends[c]) \subseteq completedTasks
      /\ \A t \in Tasks \ {c} : status'[t] = status[t]
      /\ \/ status'[c] = "completed" /\ completedTasks' = completedTasks \cup {c}
         \/ status'[c] = "failed" /\ completedTasks' = completedTasks
  BY DEF CompleteTask, FailTask, InRun, Ready, RunStep, WorkflowInv, WorkflowTypeOK
<1>1. /\ StackOK' /\ CallsOK' /\ SortOK' /\ ListedOK'
      /\ Named' = Named /\ Calls' = Calls /\ \A u : Needs(u)' = Needs(u)
      /\ \A t, p : Before(t, p)' = Before(t, p)
      /\ \A t : Before(t, next') <=> Before(t, next) \/ t = c
      /\ \A p \in DOMAIN sorted : sorted[p] = c => p = next
      /\ ~Before(c, next)
  BY <1>0, RunStepKeeps
<1>2. /\ status \in [Tasks -> {"pending", "completed", "failed"}]
      /\ completedTasks = {t \in Tasks : status[t] = "completed"}
      /\ status' \in [Tasks -> {"pending", "completed", "failed"}]
  BY DEF CompleteTask, FailTask, WorkflowInv, WorkflowTypeOK
<1>3. status[c] = "pending"
  BY <1>0, <1>1 DEF WorkflowInv, RunOK
<1>4. WorkflowTypeOK'
  <2>1. completedTasks' = {t \in Tasks : status'[t] = "completed"}
    BY <1>0, <1>2, <1>3
  <2> QED
    BY <1>0, <1>1, <1>2, <2>1 DEF WorkflowInv, WorkflowTypeOK, RunStep
<1>5. \A d \in completedTasks : d \in completedTasks' /\ Before(d, next)
  BY <1>0, <1>2 DEF WorkflowInv, RunOK
<1>6. \A t : Hopeless(t) => Hopeless(t)'
  BY <1>0, <1>1, <1>3 DEF Hopeless
<1>7. ASSUME NEW t \in Tasks
      PROVE  IF Before(t, next')
             THEN IF status'[t] = "pending" THEN Hopeless(t)'
                  ELSE \A d \in Range(depends[t]) :
                           d \in completedTasks' /\ \A p \in DOMAIN sorted : sorted[p] = t => Before(d, p)
             ELSE status'[t] = "pending"
  <2>1. CASE t = c
    BY <1>0, <1>1, <1>5, <2>1
  <2>2. CASE t # c
    <3>1. status'[t] = status[t] /\ (Before(t, next') <=> Before(t, next))
      BY <1>0, <1>1, <2>2
    <3>2. IF Before(t, next)
          THEN IF status[t] = "pending" THEN Hopeless(t)
               ELSE \A d \in Range(depends[t]) :
                        d \in completedTasks /\ \A p \in DOMAIN sorted : sorted[p] = t => Before(d, p)
          ELSE status[t] = "pending"
      BY <1>0 DEF WorkflowInv, RunOK, RunStep
    <3> QED
      BY <1>5, <1>6, <3>1, <3>2
  <2> QED
    BY <2>1, <2>2
<1>8. RunOK'
  BY <1>0, <1>1, <1>7 DEF RunOK, RunStep
<1> QED
  BY <1>0, <1>1, <1>4, <1>8 DEF WorkflowInv, RunStep

LEMMA StandStill ==
    WorkflowInv /\ (EndWorkflow \/ UNCHANGED wvars) => WorkflowInv'
<1> SUFFICES ASSUME WorkflowInv, EndWorkflow \/ UNCHANGED wvars
             PROVE  WorkflowInv'
  OBVIOUS
<1>0. /\ UNCHANGED <<depends, stack, visited, visiting, sorted, status, completedTasks, next>>
      /\ (phase = "run" /\ phase' = "done" /\ next > Len(sorted)) \/ phase' = phase
  BY DEF EndWorkflow, wvars
<1>1. /\ Named' = Named /\ Calls' = Calls /\ \A u : Needs(u)' = Needs(u) /\ Dependencies(u)' = Dependencies(u)
  BY <1>0, SameNeeds DEF Fixed
<1>2. (WorkflowTypeOK /\ StackOK /\ CallsOK /\ SortOK)'
  BY <1>0, <1>1 DEF WorkflowInv, WorkflowTypeOK, StackOK, CallsOK, SortOK, Before, InCycle
<1>3. (ListedOK /\ RunOK)'
  BY <1>0, <1>1 DEF WorkflowInv, ListedOK, RunOK, Before, Hopeless
<1> QED
  BY <1>0, <1>2, <1>3 DEF WorkflowInv

\* In whatever order the tasks are listed, and whatever they depend on, cycles and missing
\* tasks included, the ones left out are exactly those with no chance (topologicalSort,
\* executeWorkflow).
THEOREM LeftOutHopeless == WorkflowSpec => []WorkflowSound
<1>1. WorkflowInv /\ [WorkflowNext]_wvars => WorkflowInv'
  BY VisitNextKeeps, VisitDependencyKeeps, EndVisitKeeps, EndSortKeeps, SkipTaskKeeps, RunTaskKeeps, StandStill
     DEF WorkflowNext
<1> QED
  BY <1>1, InitHolds, InvImpliesSound, PTL DEF WorkflowSpec
=============================================================================
