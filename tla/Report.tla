------------------------------- MODULE Report -------------------------------
(***************************************************************************)
(* Reports of abuse and who reviews them: ReportService, and the two keys  *)
(* it has in Redis through RedisCacheService.                              *)
(***************************************************************************)
EXTENDS Server, Sequences, SequencesExt

CONSTANTS
    Admins,         \* users with the role super_admin, admin or employee
    Reported,       \* what is reported
    Nobody,         \* stands for no assigned admin
    NoList          \* stands for a key that is not in Redis

ASSUME ReportAssumption == Nobody \notin Admins /\ IsFiniteSet(Admins)

VARIABLES
    onDuty,         \* the admins whose status is ACTIVE
    adminList,      \* reports:admin:users in Redis
    turnIndex,      \* reports:round-robin:index in Redis, -1 when it is not there
    reports,        \* the reports table
    turns           \* history: the lists and indexes that reports were assigned by

rvars == <<onDuty, adminList, turnIndex, reports, turns>>

ReportStatuses == {"pending", "under_review", "resolved", "dismissed", "closed"}

ReportRow(id, about, admin) ==
    [id |-> id, about |-> about, admin |-> admin, resolvedAt |-> FALSE,
     status |-> IF admin = Nobody THEN "pending" ELSE "under_review"]

ReportInit ==
    /\ onDuty \in SUBSET Admins
    /\ adminList = NoList /\ turnIndex = -1
    /\ reports = {} /\ turns = <<>>

-----------------------------------------------------------------------------
(* createReport *)

CheckReport(h) ==
    /\ At(h, "createReport", "start")
    /\ Check(h, \A r \in reports : r.about = Arg(h) => r.status # "pending", "admins")
    /\ UNCHANGED rvars

\* Without a list in Redis, or with an empty one, the users are looked up: find()
\* does not order them.
GetAdmins(h) ==
    /\ At(h, "createReport", "admins")
    /\ IF adminList \in {NoList, <<>>}
       THEN \E list \in SetToSeqs(onDuty) : Keep(h, "cache", list)
       ELSE Keep(h, "index", adminList)
    /\ UNCHANGED rvars

CacheAdmins(h) ==
    /\ At(h, "createReport", "cache")
    /\ adminList' = Mem(h)
    /\ IF Mem(h) = <<>>
       THEN Keep(h, "insert", [list |-> <<>>, index |-> -1])
       ELSE Goto(h, "index")
    /\ UNCHANGED <<onDuty, turnIndex, reports, turns>>

NextIndex(list, index) == (index + 1) % Len(list)

GetIndex(h) ==
    /\ At(h, "createReport", "index")
    /\ Keep(h, "turn", [list |-> Mem(h), index |-> NextIndex(Mem(h), turnIndex)])
    /\ UNCHANGED rvars

SetIndex_Next(h) ==
    /\ At(h, "createReport", "turn")
    /\ turnIndex' = Mem(h).index + 1
    /\ Goto(h, "insert")
    /\ UNCHANGED <<onDuty, adminList, reports, turns>>

SetIndex(h) ==
    /\ At(h, "createReport", "turn")
    /\ turnIndex' = Mem(h).index
    /\ Goto(h, "insert")
    /\ UNCHANGED <<onDuty, adminList, reports, turns>>

InsertReport(h) ==
    /\ At(h, "createReport", "insert")
    /\ LET turn == Mem(h)
           admin == IF turn.list = <<>> THEN Nobody ELSE turn.list[turn.index + 1]
       IN /\ reports' = reports \cup {ReportRow(h, Arg(h), admin)}
          /\ turns' = IF admin = Nobody THEN turns ELSE Append(turns, turn)
    /\ End(h)
    /\ UNCHANGED <<onDuty, adminList, turnIndex>>

\* RedisCacheService catches what Redis throws: what it cannot get is not there, and
\* what it cannot set or delete stays as it is.
RedisFails(h) ==
    /\ faults < MaxFaults
    /\ faults' = faults + 1
    /\ \/ /\ At(h, "createReport", "admins")
          /\ \E list \in SetToSeqs(onDuty) :
                 handler' = [handler EXCEPT ![h].step = "cache", ![h].mem = list]
       \/ /\ At(h, "createReport", "index")
          /\ handler' = [handler EXCEPT ![h].step = "turn",
                            ![h].mem = [list |-> Mem(h), index |-> NextIndex(Mem(h), -1)]]
       \/ /\ At(h, "createReport", "cache")
          /\ handler' = IF Mem(h) = <<>>
                        THEN [handler EXCEPT ![h].step = "insert",
                                 ![h].mem = [list |-> <<>>, index |-> -1]]
                        ELSE [handler EXCEPT ![h].step = "index"]
       \/ /\ At(h, "createReport", "turn")
          /\ handler' = [handler EXCEPT ![h].step = "insert"]
    /\ UNCHANGED rvars

-----------------------------------------------------------------------------
(* The back office *)

\* The row is read with the admin it is assigned to and saved whole: with both the
\* relation and its column set, either may be what is written.
ReadReport(h) ==
    /\ At(h, "updateReport", "start")
    /\ \/ /\ \A r \in reports : r.id # Arg(h).id
          /\ End(h)
       \/ \E r \in reports, admin \in Admins \cup {Nobody} :
             /\ r.id = Arg(h).id
             /\ IF Arg(h).admin = Nobody THEN admin = r.admin
                ELSE admin = Arg(h).admin \/ (r.admin # Nobody /\ admin = r.admin)
             /\ LET status == IF Arg(h).status = "as it is" THEN r.status ELSE Arg(h).status IN
                Keep(h, "save",
                     [r EXCEPT !.admin = admin,
                               !.resolvedAt = @ \/ Arg(h).status = "resolved",
                               !.status = IF Arg(h).admin # Nobody /\ status = "pending"
                                          THEN "under_review" ELSE status])
    /\ UNCHANGED rvars

SaveReport(h) ==
    /\ At(h, "updateReport", "save")
    /\ reports' = {r \in reports : r.id # Mem(h).id} \cup {Mem(h)}
    /\ End(h)
    /\ UNCHANGED <<onDuty, adminList, turnIndex, turns>>

RefreshAdminCache(h) ==
    /\ At(h, "refreshAdminCache", "start")
    /\ adminList' = NoList
    /\ End(h)
    /\ UNCHANGED <<onDuty, turnIndex, reports, turns>>

\* Five minutes after it was set, the list is gone.
AdminListExpires ==
    /\ adminList # NoList
    /\ adminList' = NoList
    /\ UNCHANGED <<svars, onDuty, turnIndex, reports, turns>>

\* An admin is activated or deactivated; the list in Redis is not told.
ToggleAdmin(a) ==
    /\ onDuty' = IF a \in onDuty THEN onDuty \ {a} ELSE onDuty \cup {a}
    /\ UNCHANGED <<svars, adminList, turnIndex, reports, turns>>

-----------------------------------------------------------------------------
ReportRequest(h) ==
    /\ \/ \E e \in Reported : Ask(h, "createReport", e)
       \/ \E r \in reports, s \in ReportStatuses \cup {"as it is"}, a \in Admins \cup {Nobody} :
              Ask(h, "updateReport", [id |-> r.id, status |-> s, admin |-> a])
       \/ Ask(h, "refreshAdminCache", "none")
    /\ UNCHANGED rvars

ReportStep(h) ==
    \/ CheckReport(h) \/ GetAdmins(h) \/ CacheAdmins(h) \/ GetIndex(h) \/ SetIndex(h) \/ InsertReport(h)
    \/ ReadReport(h) \/ SaveReport(h) \/ RefreshAdminCache(h)
    \/ RedisFails(h)

ReportNext ==
    \/ \E h \in Requests : ReportRequest(h) \/ ReportStep(h) \/ (Fault(h) /\ UNCHANGED rvars)
    \/ AdminListExpires
    \/ \E a \in Admins : ToggleAdmin(a)

ReportSpec == SInit /\ ReportInit /\ [][ReportNext]_<<svars, rvars>>

-----------------------------------------------------------------------------
(* Properties *)

\* Of the reports that were assigned from lists of the same admins, in the same order,
\* no admin gets a second one before every other has had one (getNextAdmin).
RoundRobin ==
    \A i, j \in DOMAIN turns :
        /\ i < j /\ j - i < Len(turns[i].list)
        /\ \A k \in i..j : turns[k].list = turns[i].list
        => turns[i].index # turns[j].index
=============================================================================
