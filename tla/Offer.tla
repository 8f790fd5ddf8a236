------------------------------- MODULE Offer -------------------------------
(***************************************************************************)
(* The offers of one application: OfferService, and the requests that save *)
(* the application as a whole.  Every awaited query is an action; between  *)
(* two of them a request holds nothing but what it has read.               *)
(* The tables are as the entities declare them, with their foreign keys.   *)
(***************************************************************************)
EXTENDS Integers, Sequences, SequencesExt, FiniteSets

CONSTANTS
    Candidate,      \* the user whose application it is
    Recruiters,     \* the other users
    Requests,       \* HTTP requests
    Ops,            \* the operations that requests perform
    Asked,          \* statuses other than HIRED that updateApplicationStatus may be asked for
    Responses,      \* offer statuses that recordCandidateResponse may be asked for
    Limits,         \* values of applicationsLimit of the job; 0 stands for none
    OthersHired,    \* how many other applications for the job are HIRED
    MaxFaults,      \* how many queries may fail
    NoOffer         \* stands for a missing row, or a null reference to one

Users == Recruiters \cup {Candidate}

OfferOps == {"create", "counter", "accept", "reject", "respond",
             "update", "delete", "cancel", "status"}
OfferStatuses == {"pending", "accepted", "rejected", "cancelled", "negotiating"} \cup Responses

OfferRow == [by: Users, status: OfferStatuses, type: {"initial", "revised", "counter"},
             version: Nat, rounds: Nat, previous: Requests \cup {NoOffer},
             root: Requests \cup {NoOffer}, negotiable: BOOLEAN, at: Nat]

ASSUME OfferAssumption ==
    /\ Candidate \notin Recruiters
    /\ NoOffer \notin Requests \cup OfferRow
    /\ Asked \subseteq STRING \ {"hired"} /\ Responses \subseteq STRING
    /\ Limits \subseteq Nat /\ Limits # {}
    /\ OthersHired \in Nat /\ MaxFaults \in Nat

VARIABLES
    offers,         \* the offers table, by the request that inserted the row
    application,    \* the applications row
    job,            \* the jobs row: is it ACTIVE, and its limit
    handler,        \* the local state of every request
    faults          \* how many queries have failed

ovars == <<offers, application, job, handler, faults>>

NewApplication == [status |-> "shortlisted", history |-> <<"shortlisted">>,
                   current |-> NoOffer, total |-> 0, completed |-> 0]

IdleHandler == [op |-> "none", step |-> "idle", user |-> Candidate, target |-> NoOffer,
                arg |-> "none", row |-> NewApplication, offer |-> NoOffer, next |-> "none"]

At(h, op, step) == handler[h].op = op /\ handler[h].step = step
Running(h) == handler[h].step \notin {"idle", "done"}
Quiet == \A h \in Requests : ~Running(h)

\* A request that is answered forgets what it has read.
End(h) == handler' = [handler EXCEPT ![h] = [IdleHandler EXCEPT !.op = handler[h].op,
                                                                !.step = "done"]]
Goto(h, step) ==
    IF step = "done" THEN End(h) ELSE handler' = [handler EXCEPT ![h].step = step]

Starts(h, op, u, target, arg) ==
    /\ op \in Ops
    /\ handler[h].step = "idle"
    /\ handler' = [handler EXCEPT ![h] = [IdleHandler EXCEPT
                       !.op = op, !.step = "read", !.user = u, !.target = target, !.arg = arg]]

Offered == {o \in Requests : offers[o] # NoOffer}

\* getLatestOffer
Latest == CHOOSE o \in Offered : \A p \in Offered : offers[p].at <= offers[o].at

\* The foreign keys previousOfferId and currentOfferId.
Exists(o) == o = NoOffer \/ o \in Offered
Referred(o) == application.current = o \/ \E p \in Offered : offers[p].previous = o

OInit ==
    /\ offers = [h \in Requests |-> NoOffer]
    /\ application = NewApplication
    /\ job \in {[active |-> TRUE, limit |-> n] : n \in Limits}
    /\ handler = [h \in Requests |-> IdleHandler]
    /\ faults = 0

-----------------------------------------------------------------------------
(* createOffer, createCounterOffer, acceptOffer and rejectOffer *)

\* findOne of the application, with its job; an offer needs an active job.
ReadApplication(h) ==
    /\ handler[h].step = "read"
    /\ handler[h].op \in {"create", "counter", "accept", "reject", "status"}
    /\ IF handler[h].op = "create" /\ ~job.active
       THEN End(h)
       ELSE handler' = [handler EXCEPT
                ![h].row = application,
                ![h].step = IF handler[h].op = "status" THEN "save" ELSE "latest"]
    /\ UNCHANGED <<offers, application, job, faults>>

IsOwner(o, u) == o.by = u

IsOppositeParty(o, u) == IF o.by = Candidate THEN u # Candidate ELSE u = Candidate

\* verifyOfferAccess
HasAccess(o, u) == IsOwner(o, u) \/ IsOppositeParty(o, u)

IsActive(o) == o.status \in {"pending", "rejected", "negotiating", "counter-offer"}

\* What a request demands of the latest offer, and where it goes on.
AllowsCounter(o, u) == HasAccess(o, u) /\ o.negotiable /\ IsActive(o)
AllowsAnswer_Rejected(o, u) == ~IsOwner(o, u) /\ o.status \in {"pending", "accepted"}

AllowsAnswer(o, u) == ~IsOwner(o, u) /\ o.status = "pending"

ReadLatest(h) ==
    /\ handler[h].step = "latest"
    /\ LET u == handler[h].user
           found == Offered # {}
           next == CASE handler[h].op = "create" -> "insert"
                     [] handler[h].op = "counter" /\ found /\ AllowsCounter(offers[Latest], u) -> "supersede"
                     [] handler[h].op \in {"accept", "reject"} /\ found
                            /\ AllowsAnswer(offers[Latest], u) -> "answer"
                     [] OTHER -> "done"
       IN IF next = "done" THEN End(h)
          ELSE handler' = [handler EXCEPT
                   ![h].step = next,
                   ![h].target = IF found THEN Latest ELSE NoOffer,
                   ![h].offer = IF found THEN offers[Latest] ELSE NoOffer]
    /\ UNCHANGED <<offers, application, job, faults>>

\* update(id, {status}) of a row that may be gone.
SetOffer(o, status) ==
    offers' = IF o \in Offered THEN [offers EXCEPT ![o].status = status] ELSE offers

\* The offer countered is rejected before the counter-offer exists.
Supersede(h) ==
    /\ At(h, "counter", "supersede")
    /\ SetOffer(handler[h].target, "rejected")
    /\ Goto(h, "insert")
    /\ UNCHANGED <<application, job, faults>>

Now == 1 + (IF Offered = {} THEN 0 ELSE offers[Latest].at)

NewOffer_RootIsPrevious(h) ==
    LET last == handler[h].offer  first == last = NoOffer  counter == handler[h].op = "counter" IN
    [by |-> handler[h].user, status |-> "pending",
     type |-> IF counter THEN "counter" ELSE IF first THEN "initial" ELSE "revised",
     version |-> IF first THEN 1 ELSE last.version + 1,
     rounds |-> IF counter THEN last.rounds + 1 ELSE 0,
     previous |-> handler[h].target, root |-> handler[h].target,
     negotiable |-> handler[h].arg = "negotiable", at |-> Now]

\* The row to insert follows the latest offer, as it was read.
NewOffer(h) ==
    LET last == handler[h].offer  first == last = NoOffer  counter == handler[h].op = "counter" IN
    [by |-> handler[h].user, status |-> "pending",
     type |-> IF counter THEN "counter" ELSE IF first THEN "initial" ELSE "revised",
     version |-> IF first THEN 1 ELSE last.version + 1,
     rounds |-> IF counter THEN last.rounds + 1 ELSE 0,
     previous |-> handler[h].target,
     root |-> IF first \/ last.root = NoOffer THEN handler[h].target ELSE last.root,
     negotiable |-> handler[h].arg = "negotiable", at |-> Now]

InsertOffer(h) ==
    /\ handler[h].step = "insert"
    /\ IF Exists(handler[h].target)
       THEN offers' = [offers EXCEPT ![h] = NewOffer(h)] /\ Goto(h, "name")
       ELSE UNCHANGED offers /\ End(h)
    /\ UNCHANGED <<application, job, faults>>

\* The status a request gives the application.
NewStatus(h) ==
    CASE handler[h].op = "create"  -> "offer_sent"
      [] handler[h].op = "counter" -> "negotiating"
      [] handler[h].op = "accept"  -> "offer_accepted"
      [] handler[h].op = "reject"  -> "offer_rejected"
      [] handler[h].op = "cancel"  -> "offer_pending"
      [] handler[h].op = "respond" -> CASE handler[h].arg = "accepted" -> "offer_accepted"
                                        [] handler[h].arg = "rejected" -> "offer_rejected"
                                        [] OTHER -> "negotiating"
      [] handler[h].op = "status" -> handler[h].arg
      [] OTHER -> handler[h].next           \* chosen by InterviewService

\* The status is set, and the application goes on naming the old offer.
NameOffer_NotCurrent(h) ==
    /\ handler[h].step = "name"
    /\ application' = [application EXCEPT !.status = NewStatus(h)]
    /\ Goto(h, "history")
    /\ UNCHANGED <<offers, job, faults>>

NameOffer(h) ==
    /\ handler[h].step = "name"
    /\ IF h \in Offered
       THEN /\ application' = [application EXCEPT !.current = h, !.status = NewStatus(h)]
            /\ Goto(h, "history")
       ELSE UNCHANGED application /\ End(h)
    /\ UNCHANGED <<offers, job, faults>>

\* Where a request goes once the application is updated: only an accepted offer
\* may close the job.
ThenCloses(h) ==
    IF \/ handler[h].op = "accept"
       \/ handler[h].op = "respond" /\ handler[h].arg = "accepted"
    THEN "job" ELSE "done"

\* The status of the job is all that is left to do.
\* The history that was read first, and the new status.
PushHistory(h) ==
    /\ handler[h].step = "history"
    /\ application' = [application EXCEPT !.history = Append(handler[h].row.history, NewStatus(h))]
    /\ Goto(h, ThenCloses(h))
    /\ UNCHANGED <<offers, job, faults>>

AnswerOffer(h) ==
    /\ handler[h].step = "answer"
    /\ SetOffer(handler[h].target, IF handler[h].op = "accept" THEN "accepted" ELSE "rejected")
    /\ Goto(h, "settle")
    /\ UNCHANGED <<application, job, faults>>

\* Status and history in one query.
Settle(h) ==
    /\ handler[h].step = "settle"
    /\ application' = [application EXCEPT
           !.status = NewStatus(h),
           !.history = Append(handler[h].row.history, NewStatus(h))]
    /\ Goto(h, ThenCloses(h))
    /\ UNCHANGED <<offers, job, faults>>

\* checkAndCloseJob counts the HIRED, not the accepted.
Hired == OthersHired + IF application.status = "hired" THEN 1 ELSE 0

CheckJob(h) ==
    /\ handler[h].step = "job"
    /\ Goto(h, IF job.limit > 0 /\ Hired >= job.limit THEN "close" ELSE "done")
    /\ UNCHANGED <<offers, application, job, faults>>

CloseJob(h) ==
    /\ handler[h].step = "close"
    /\ job' = [job EXCEPT !.active = FALSE]
    /\ End(h)
    /\ UNCHANGED <<offers, application, faults>>

-----------------------------------------------------------------------------
(* updateOffer, deleteOffer, cancelOffer and recordCandidateResponse, by id *)

Allows(h, o) ==
    CASE handler[h].op = "update"  -> IsOwner(o, handler[h].user) /\ o.status = "pending"
      [] handler[h].op = "delete"  -> IsOwner(o, handler[h].user) /\ o.status = "accepted"
      [] handler[h].op = "cancel"  -> IsOwner(o, handler[h].user)
      [] handler[h].op = "respond" -> o.status = "pending"

\* findOne of the offer together with its application.
ReadOffer(h) ==
    /\ handler[h].step = "read"
    /\ handler[h].op \in {"update", "delete", "cancel", "respond"}
    /\ LET o == handler[h].target IN
       IF o \in Offered /\ Allows(h, offers[o])
       THEN handler' = [handler EXCEPT ![h].step = "save", ![h].offer = offers[o],
                                       ![h].row = application]
       ELSE End(h)
    /\ UNCHANGED <<offers, application, job, faults>>

UpdateOffer(h) ==
    /\ At(h, "update", "save")
    /\ LET o == handler[h].target IN
       offers' = IF o \in Offered
                 THEN [offers EXCEPT ![o].negotiable = handler[h].arg = "negotiable"] ELSE offers
    /\ End(h)
    /\ UNCHANGED <<application, job, faults>>

DeleteOffer_Cascades(h) ==
    /\ At(h, "delete", "save")
    /\ offers' = [offers EXCEPT ![handler[h].target] = NoOffer]
    /\ application' = [application EXCEPT !.current = IF @ = handler[h].target THEN NoOffer ELSE @]
    /\ End(h)
    /\ UNCHANGED <<job, faults>>

\* The foreign keys refuse it while something refers to the offer.
DeleteOffer(h) ==
    /\ At(h, "delete", "save")
    /\ LET o == handler[h].target IN
       offers' = IF Referred(o) THEN offers ELSE [offers EXCEPT ![o] = NoOffer]
    /\ End(h)
    /\ UNCHANGED <<application, job, faults>>

\* save(offer) writes the row as it was read, or inserts it again.
CancelOffer(h) ==
    /\ At(h, "cancel", "save")
    /\ LET row == handler[h].offer IN
       IF Exists(row.previous)
       THEN /\ offers' = [offers EXCEPT ![handler[h].target] = [row EXCEPT !.status = "cancelled"]]
            /\ Goto(h, "status")
       ELSE UNCHANGED offers /\ End(h)
    /\ UNCHANGED <<application, job, faults>>

\* Any status may be recorded; three of them go on to handleOfferResponse.
RespondOffer(h) ==
    /\ At(h, "respond", "save")
    /\ SetOffer(handler[h].target, handler[h].arg)
    /\ Goto(h, IF handler[h].arg \in {"accepted", "rejected", "negotiating"} THEN "status" ELSE "done")
    /\ UNCHANGED <<application, job, faults>>

SetStatus(h) ==
    /\ handler[h].step = "status"
    /\ application' = [application EXCEPT !.status = NewStatus(h)]
    /\ Goto(h, "history")
    /\ UNCHANGED <<offers, job, faults>>

(* updateApplicationStatus, updateApplication, rejectApplication and        *)
(* withdrawApplication: save(application), every column as it was read      *)
SaveApplication(h) ==
    /\ At(h, "status", "save")
    /\ LET row == handler[h].row IN
       application' = IF Exists(row.current)
                      THEN [row EXCEPT !.status = NewStatus(h), !.history = Append(@, NewStatus(h))]
                      ELSE application
    /\ End(h)
    /\ UNCHANGED <<offers, job, faults>>

\* A query is rejected: the request ends, what it has written stays.
Fault(h) ==
    /\ faults < MaxFaults
    /\ Running(h)
    /\ faults' = faults + 1
    /\ End(h)
    /\ UNCHANGED <<offers, application, job>>

Terms == {"negotiable", "firm"}

Create(h, u, t)      == Starts(h, "create", u, NoOffer, t)
Counter(h, t)        == Starts(h, "counter", Candidate, NoOffer, t)
Accept(h, u)         == Starts(h, "accept", u, NoOffer, "none")
Reject(h, u)         == Starts(h, "reject", u, NoOffer, "none")
Respond(h, u, o, s)  == Starts(h, "respond", u, o, s)
Update(h, u, o, t)   == Starts(h, "update", u, o, t)
Delete(h, u, o)      == Starts(h, "delete", u, o, "none")
Cancel(h, u, o)      == Starts(h, "cancel", u, o, "none")
AskStatus(h, s)      == Starts(h, "status", Candidate, NoOffer, s)

Request(h) ==
    /\ \/ \E u \in Users, t \in Terms : Create(h, u, t)
       \/ \E t \in Terms : Counter(h, t)
       \/ \E u \in Users : Accept(h, u) \/ Reject(h, u)
       \/ \E u \in Recruiters, o \in Offered, s \in Responses : Respond(h, u, o, s)
       \/ \E u \in Recruiters, o \in Offered :
              \/ \E t \in Terms : Update(h, u, o, t)
              \/ Delete(h, u, o)
              \/ Cancel(h, u, o)
       \/ \E s \in Asked : AskStatus(h, s)
    /\ UNCHANGED <<offers, application, job, faults>>

RequestStep(h) ==
    \/ ReadApplication(h)
    \/ ReadLatest(h)
    \/ Supersede(h)
    \/ InsertOffer(h)
    \/ NameOffer(h)
    \/ PushHistory(h)
    \/ AnswerOffer(h)
    \/ Settle(h)
    \/ CheckJob(h)
    \/ CloseJob(h)
    \/ ReadOffer(h)
    \/ UpdateOffer(h)
    \/ DeleteOffer(h)
    \/ CancelOffer(h)
    \/ RespondOffer(h)
    \/ SetStatus(h)
    \/ SaveApplication(h)

ONext == \E h \in Requests : Request(h) \/ RequestStep(h) \/ Fault(h)

OSpec == OInit /\ [][ONext]_ovars

-----------------------------------------------------------------------------
(* Properties *)

Statuses == {"shortlisted", "offer_sent", "negotiating", "offer_accepted",
             "offer_rejected", "offer_pending"} \cup Asked

\* A chain of offers is well formed, however requests overlap and fail: an offer
\* names an earlier one that exists, is one version above it, counts its rounds of
\* negotiation from it, and has the same root (createOffer, createCounterOffer).
ChainSound ==
    \A o \in Offered :
        LET x == offers[o]  y == offers[x.previous] IN
        IF x.previous = NoOffer
        THEN x.version = 1 /\ x.root = NoOffer /\ x.rounds = 0
        ELSE /\ x.previous \in Offered
             /\ x.version = y.version + 1
             /\ x.rounds \in {0, y.rounds + 1}
             /\ x.root = IF y.root = NoOffer THEN x.previous ELSE y.root
             /\ x.at > y.at

\* The application names the latest offer when no request is at work.
CurrentIsLatest == Quiet /\ Offered # {} => application.current = Latest

\* An application whose offer is accepted has an accepted offer.
AcceptedHasOffer ==
    Quiet /\ application.status = "offer_accepted" =>
        \E o \in Offered : offers[o].status = "accepted"

\* The status of the application is the last entry of its history.
HistoryEndsInStatus == Quiet => Last(application.history) = application.status

\* An accepted offer is not answered again: it can only be cancelled.
AcceptedStays ==
    \A o \in Offered :
        offers[o].status = "accepted" =>
            offers'[o] # NoOffer /\ offers'[o].status \in {"accepted", "cancelled"}

-----------------------------------------------------------------------------
(* The inductive invariant behind ChainSound *)

\* The rows of the table, and those that requests have read and may write back
Copies ==
    {<<o, offers[o]>> : o \in Offered}
        \cup {<<handler[h].target, handler[h].offer>> : h \in {h \in Requests : handler[h].offer # NoOffer}}

\* A request inserts one offer; who reads it only finds it afterwards.
Inserted(o) == o \in Requests /\ handler[o].step \notin {"idle", "read", "latest", "supersede", "insert"}

\* What is never changed once an offer is inserted
SameOrigin(x, y) ==
    /\ x.version = y.version /\ x.rounds = y.rounds /\ x.at = y.at
    /\ x.root = y.root /\ x.previous = y.previous

\* x follows the offer o, whose row is y.
Follows(x, o, y) ==
    /\ x.version = y.version + 1
    /\ x.rounds \in {0, y.rounds + 1}
    /\ x.root = IF y.root = NoOffer THEN o ELSE y.root
    /\ x.at > y.at

CopyOK(c) ==
    /\ Inserted(c[1]) /\ c[2] \in OfferRow
    /\ IF c[2].previous = NoOffer
       THEN c[2].version = 1 /\ c[2].root = NoOffer /\ c[2].rounds = 0
       ELSE Inserted(c[2].previous)

\* The copies of an offer agree on what is never changed, and follow the copies of
\* the offer that it names.
CopiesOK ==
    /\ \A c \in Copies : CopyOK(c)
    /\ \A c, d \in Copies :
           /\ c[1] = d[1] => SameOrigin(c[2], d[2])
           /\ c[2].previous = d[1] => Follows(c[2], d[1], d[2])

\* What a request knows at the point that it has reached
HandlerOK(s) ==
    /\ s.user \in Users
    /\ s.op = "respond" /\ s.step \in {"read", "save"} => s.arg \in Responses
    /\ s.step \in {"supersede", "insert"} /\ s.offer = NoOffer => s.target = NoOffer /\ s.op # "counter"
    /\ s.op = "cancel" /\ s.step = "save" => s.offer # NoOffer

HandlerShape ==
    handler = [h \in Requests |->
        [op |-> handler[h].op, step |-> handler[h].step, user |-> handler[h].user,
         target |-> handler[h].target, arg |-> handler[h].arg, row |-> handler[h].row,
         offer |-> handler[h].offer, next |-> handler[h].next]]

ChainInv ==
    /\ HandlerShape /\ \A h \in Requests : HandlerOK(handler[h])
    /\ IsFiniteSet({h \in Requests : handler[h].step # "idle"})
    /\ offers \in [Requests -> OfferRow \cup {NoOffer}]
    /\ \A o \in Offered : Exists(offers[o].previous)
    /\ CopiesOK
=============================================================================
