---------------------------- MODULE HiringProofs ----------------------------
(***************************************************************************)
(* Proofs about Offer and Interview, for any requests and users, any limit *)
(* of the job and any number of failing queries.                           *)
(***************************************************************************)
EXTENDS MCHiring, FiniteSetTheorems, WellFoundedInduction, TLAPS

-----------------------------------------------------------------------------
(* The latest of the offers *)

LEMMA MinimalSubset ==
    ASSUME NEW S, IsFiniteSet(S), NEW T \in SUBSET SUBSET S, T # {}
    PROVE  \E s \in T : \A t \in T : t \subseteq s => t = s
<1> DEFINE R == StrictSubsetOrdering(S)
<1>1. IsWellFoundedOn(R, FiniteSubsetsOf(S))
  BY FS_StrictSubsetOrderingWellFounded
<1>2. T \subseteq FiniteSubsetsOf(S)
  BY FS_FiniteSubsetsOfFinite
<1>3. ASSUME NEW s \in T, NEW t \in T, t \subseteq s, t # s PROVE <<t, s>> \in R
  BY <1>3 DEF StrictSubsetOrdering
<1> HIDE DEF R
<1>4. \E s \in T : \A t \in T : ~(<<t, s>> \in R)
  BY <1>1, <1>2, WFMin
<1> QED
  BY <1>3, <1>4

\* A finite set has a member of the greatest rank: the least of its subsets that no
\* member is above.
LEMMA GreatestMember ==
    ASSUME NEW S, IsFiniteSet(S), S # {}, NEW rank, rank \in [S -> Nat]
    PROVE  \E m \in S : \A s \in S : rank[s] <= rank[m]
<1> DEFINE Tops == {A \in SUBSET S : A # {} /\ \A s \in S : \E a \in A : rank[s] <= rank[a]}
<1>1. S \in Tops
  OBVIOUS
<1>2. PICK A \in Tops : \A B \in Tops : B \subseteq A => B = A
  <2>1. Tops \in SUBSET SUBSET S /\ Tops # {}
    BY <1>1
  <2> HIDE DEF Tops
  <2> QED
    BY <2>1, MinimalSubset
<1>3. PICK m \in A : TRUE
  OBVIOUS
<1>4. ASSUME NEW a \in A, NEW b \in A, a # b, rank[a] <= rank[b]
      PROVE  FALSE
  <2>1. \A s \in S : \E c \in A \ {a} : rank[s] <= rank[c]
    <3> SUFFICES ASSUME NEW s \in S
                 PROVE  \E c \in A \ {a} : rank[s] <= rank[c]
      OBVIOUS
    <3>1. PICK c \in A : rank[s] <= rank[c]
      OBVIOUS
    <3>2. rank[s] \in Nat /\ rank[a] \in Nat /\ rank[b] \in Nat
      OBVIOUS
    <3>3. CASE c = a
      BY <1>4, <3>1, <3>2, <3>3
    <3> QED
      BY <3>1, <3>3
  <2>2. A \ {a} \in Tops
    BY <1>4, <2>1
  <2> QED
    BY <1>2, <2>2
<1>5. \A a \in A : a = m
  <2> SUFFICES ASSUME NEW a \in A, a # m
               PROVE  FALSE
    OBVIOUS
  <2>1. rank[a] \in Nat /\ rank[m] \in Nat
    OBVIOUS
  <2>2. rank[a] <= rank[m] \/ rank[m] <= rank[a]
    BY <2>1
  <2> HIDE DEF Tops
  <2> QED
    BY <1>4, <2>2
<1>6. \A s \in S : rank[s] <= rank[m]
  BY <1>2, <1>5
<1> QED
  BY <1>6

LEMMA LatestIs ==
    ASSUME ChainInv, Offered # {}
    PROVE  Latest \in Offered /\ \A o \in Offered : offers[o].at <= offers[Latest].at
<1>1. \A o \in Offered : <<o, offers[o]>> \in Copies /\ offers[o] \in OfferRow
  BY DEF ChainInv, Offered, Copies
<1>2. Offered \subseteq {h \in Requests : handler[h].step # "idle"}
  BY <1>1 DEF ChainInv, CopiesOK, CopyOK, Inserted
<1>3. IsFiniteSet(Offered)
  BY <1>2, FS_Subset DEF ChainInv
<1> DEFINE rank == [o \in Offered |-> offers[o].at]
<1>4. rank \in [Offered -> Nat]
  BY <1>1 DEF OfferRow
<1>5. \E m \in Offered : \A o \in Offered : rank[o] <= rank[m]
  <2> HIDE DEF rank
  <2> QED
    BY <1>3, <1>4, GreatestMember
<1>6. \E m \in Offered : \A o \in Offered : offers[o].at <= offers[m].at
  BY <1>5
<1> QED
  BY <1>6 DEF Latest

-----------------------------------------------------------------------------
(* What a step does to the requests *)

\* Request h moves; what it has read, if anything, was in the table or in its memory.
HandlerStep(h) ==
    /\ HandlerShape'
    /\ \A g \in Requests \ {h} : handler'[g] = handler[g]
    /\ HandlerOK(handler'[h]) /\ handler'[h].step # "idle"
    /\ Inserted(h) => Inserted(h)'
    /\ handler'[h].offer # NoOffer => <<handler'[h].target, handler'[h].offer>> \in Copies

\* What a step does to the table, if it inserts no offer.
OffersKept ==
    /\ offers' \in [Requests -> OfferRow \cup {NoOffer}]
    /\ \A o \in Offered' :
           /\ \E x : <<o, x>> \in Copies /\ SameOrigin(offers'[o], x)
           /\ offers'[o].previous \in {NoOffer} \cup Offered'

LEMMA KeepsChain ==
    ASSUME ChainInv, NEW h \in Requests, HandlerStep(h), OffersKept
    PROVE  ChainInv'
<1>1. HandlerShape' /\ \A g \in Requests : HandlerOK(handler'[g])
  BY DEF HandlerStep, ChainInv
<1>2. \A o : Inserted(o) => Inserted(o)'
  BY DEF HandlerStep, Inserted
<1>3. IsFiniteSet({g \in Requests : handler'[g].step # "idle"})
  <2>1. {g \in Requests : handler'[g].step # "idle"} \subseteq {g \in Requests : handler[g].step # "idle"} \cup {h}
    BY DEF HandlerStep
  <2>2. IsFiniteSet({g \in Requests : handler[g].step # "idle"} \cup {h})
    BY FS_AddElement DEF ChainInv
  <2> QED
    BY <2>1, <2>2, FS_Subset
<1>4. ASSUME NEW c \in Copies'
      PROVE  /\ c[2] \in OfferRow
             /\ \E d \in Copies : d[1] = c[1] /\ SameOrigin(c[2], d[2])
  <2>1. CASE \E o \in Offered' : c = <<o, offers'[o]>>
    <3>1. PICK o \in Offered' : c = <<o, offers'[o]>>
      BY <2>1
    <3>2. PICK x : <<o, x>> \in Copies /\ SameOrigin(offers'[o], x)
      BY DEF OffersKept
    <3>3. offers'[o] \in OfferRow
      BY DEF OffersKept, Offered
    <3> QED
      BY <3>1, <3>2, <3>3
  <2>2. CASE \E g \in Requests : handler'[g].offer # NoOffer /\ c = <<handler'[g].target, handler'[g].offer>>
    <3>1. c \in Copies
      BY <2>2 DEF HandlerStep, Copies
    <3>2. c[2] \in OfferRow
      BY <3>1 DEF ChainInv, CopiesOK, CopyOK
    <3> QED
      BY <3>1, <3>2 DEF SameOrigin
  <2> QED
    BY <2>1, <2>2 DEF Copies
<1>5. \A c \in Copies' : CopyOK(c)'
  <2> SUFFICES ASSUME NEW c, c \in Copies'
               PROVE  CopyOK(c)'
    OBVIOUS
  <2>1. PICK d \in Copies : d[1] = c[1] /\ SameOrigin(c[2], d[2])
    BY <1>4
  <2> QED
    BY <1>2, <1>4, <2>1 DEF ChainInv, CopiesOK, CopyOK, SameOrigin
<1>6. \A c, d \in Copies' :
          /\ c[1] = d[1] => SameOrigin(c[2], d[2])
          /\ c[2].previous = d[1] => Follows(c[2], d[1], d[2])
  <2> SUFFICES ASSUME NEW c, c \in Copies', NEW d, d \in Copies'
               PROVE  /\ c[1] = d[1] => SameOrigin(c[2], d[2])
                      /\ c[2].previous = d[1] => Follows(c[2], d[1], d[2])
    OBVIOUS
  <2>1. PICK a \in Copies : a[1] = c[1] /\ SameOrigin(c[2], a[2])
    BY <1>4
  <2>2. PICK b \in Copies : b[1] = d[1] /\ SameOrigin(d[2], b[2])
    BY <1>4
  <2>3. /\ a[1] = b[1] => SameOrigin(a[2], b[2])
        /\ a[2].previous = b[1] => Follows(a[2], b[1], b[2])
    BY DEF ChainInv, CopiesOK
  <2> QED
    BY <2>1, <2>2, <2>3 DEF SameOrigin, Follows
<1>7. CopiesOK'
  BY <1>5, <1>6 DEF CopiesOK
<1>8. (\A g \in Requests : HandlerOK(handler[g]))'
  BY <1>1
<1>9. (\A o \in Offered : Exists(offers[o].previous))'
  BY DEF OffersKept, Exists
<1>10. (offers \in [Requests -> OfferRow \cup {NoOffer}])'
  BY DEF OffersKept
<1> QED
  BY <1>1, <1>3, <1>7, <1>8, <1>9, <1>10 DEF ChainInv
LEMMA SameOffers ==
    ASSUME ChainInv, offers' = offers
    PROVE  OffersKept
<1>1. Offered' = Offered /\ \A o : Exists(o)' = Exists(o)
  BY DEF Offered, Exists
<1>2. \A o \in Offered : <<o, offers[o]>> \in Copies /\ SameOrigin(offers[o], offers[o]) /\ Exists(offers[o].previous)
  BY DEF ChainInv, Copies, SameOrigin
<1> QED
  BY <1>1, <1>2 DEF ChainInv, OffersKept, Exists

\* A row is written over one that it shares its origin with.
LEMMA WrittenOffer ==
    ASSUME ChainInv, NEW o \in Requests, NEW x, <<o, x>> \in Copies, NEW row \in OfferRow,
           SameOrigin(row, x), Exists(row.previous), offers' = [offers EXCEPT ![o] = row]
    PROVE  OffersKept
<1>1. /\ offers' \in [Requests -> OfferRow \cup {NoOffer}] /\ Offered' = Offered \cup {o}
      /\ offers'[o] = row /\ \A p \in Requests \ {o} : offers'[p] = offers[p]
  BY OfferAssumption DEF ChainInv, Offered
<1>2. ASSUME NEW p \in Offered'
      PROVE  /\ \E y : <<p, y>> \in Copies /\ SameOrigin(offers'[p], y)
             /\ Exists(offers'[p].previous)
  <2>1. CASE p = o
    BY <1>1, <2>1
  <2>2. CASE p # o
    <3>1. p \in Offered /\ offers'[p] = offers[p] /\ <<p, offers[p]>> \in Copies
      BY <1>1, <2>2 DEF Copies
    <3> QED
      BY <3>1 DEF ChainInv, SameOrigin
  <2> QED
    BY <2>1, <2>2
<1> QED
  BY <1>1, <1>2 DEF OffersKept, Exists

LEMMA SetOfferKeeps ==
    ASSUME ChainInv, NEW o, NEW status \in OfferStatuses, SetOffer(o, status)
    PROVE  OffersKept
<1>1. CASE o \notin Offered
  BY <1>1, SameOffers DEF SetOffer
<1>2. CASE o \in Offered
  <2> DEFINE row == [offers[o] EXCEPT !.status = status]
  <2>1. o \in Requests /\ offers[o] \in OfferRow /\ <<o, offers[o]>> \in Copies /\ Exists(offers[o].previous)
    BY <1>2 DEF ChainInv, Offered, Copies
  <2>2. row \in OfferRow /\ SameOrigin(row, offers[o]) /\ row.previous = offers[o].previous
    BY <2>1 DEF OfferRow, SameOrigin
  <2>3. offers' = [offers EXCEPT ![o] = row]
    BY <1>2 DEF SetOffer
  <2> HIDE DEF row
  <2> QED
    BY <2>1, <2>2, <2>3, WrittenOffer
<1> QED
  BY <1>1, <1>2

\* s is the local state of a request.
IsHandler(s) ==
    s = [op |-> s.op, step |-> s.step, user |-> s.user, target |-> s.target,
         arg |-> s.arg, row |-> s.row, offer |-> s.offer, next |-> s.next]

LEMMA Moved ==
    ASSUME HandlerShape, NEW h \in Requests, NEW s, IsHandler(s), handler' = [handler EXCEPT ![h] = s]
    PROVE  HandlerShape' /\ handler'[h] = s /\ \A g \in Requests \ {h} : handler'[g] = handler[g]
<1>1. /\ handler'[h] = s /\ \A g \in Requests \ {h} : handler'[g] = handler[g]
      /\ handler' = [g \in Requests |-> handler'[g]]
  BY DEF HandlerShape
<1>2. \A g \in Requests : IsHandler(handler[g])
  BY DEF HandlerShape, IsHandler
<1>3. \A g \in Requests : IsHandler(handler'[g])
  BY <1>1, <1>2
<1> QED
  BY <1>1, <1>3 DEF HandlerShape, IsHandler

Late(step) == step \notin {"idle", "read", "latest", "supersede", "insert", "save"}

LEMMA EndKeeps ==
    ASSUME ChainInv, NEW h \in Requests, End(h)
    PROVE  HandlerStep(h) /\ handler'[h].step = "done" /\ handler'[h].op = handler[h].op
<1>0. PICK s : s = [IdleHandler EXCEPT !.op = handler[h].op, !.step = "done"]
  OBVIOUS
<1>1. HandlerShape' /\ handler'[h] = s /\ \A g \in Requests \ {h} : handler'[g] = handler[g]
  <2>1. IsHandler(s)
    BY <1>0 DEF IsHandler, IdleHandler
  <2>2. handler' = [handler EXCEPT ![h] = s]
    BY <1>0 DEF End
  <2> QED
    BY <2>1, <2>2, Moved DEF ChainInv
<1>2. handler'[h].step = "done" /\ handler'[h].op = handler[h].op /\ handler'[h].user = Candidate /\ handler'[h].offer = NoOffer
  BY <1>0, <1>1 DEF IdleHandler
<1> QED
  BY <1>1, <1>2 DEF HandlerStep, HandlerOK, Inserted, Users

LEMMA GotoKeeps ==
    ASSUME ChainInv, NEW h \in Requests, NEW step, Late(step), Goto(h, step)
    PROVE  HandlerStep(h) /\ handler'[h].step = step /\ handler'[h].op = handler[h].op
<1>1. CASE step = "done"
  BY <1>1, EndKeeps DEF Goto
<1>2. CASE step # "done"
  <2>1. /\ HandlerShape' /\ \A g \in Requests \ {h} : handler'[g] = handler[g]
        /\ handler'[h] = [handler[h] EXCEPT !.step = step]
    BY <1>2 DEF ChainInv, HandlerShape, Goto
  <2>2. /\ handler'[h].step = step /\ handler'[h].op = handler[h].op /\ handler'[h].user = handler[h].user
        /\ handler'[h].target = handler[h].target /\ handler'[h].offer = handler[h].offer
    BY <2>1 DEF ChainInv, HandlerShape
  <2>3. handler[h].offer # NoOffer => <<handler[h].target, handler[h].offer>> \in Copies
    BY DEF Copies
  <2> QED
    BY <2>1, <2>2, <2>3 DEF ChainInv, HandlerStep, HandlerOK, Inserted, Late
<1> QED
  BY <1>1, <1>2

\* The requests of candidates, recruiters and interviewers
LEMMA StartsKeeps ==
    ASSUME ChainInv, NEW h \in Requests, NEW op, NEW u \in Users, NEW target, NEW arg,
           op = "respond" => arg \in Responses, Starts(h, op, u, target, arg)
    PROVE  HandlerStep(h)
<1>0. PICK s : s = [IdleHandler EXCEPT !.op = op, !.step = "read", !.user = u, !.target = target, !.arg = arg]
  OBVIOUS
<1>1. HandlerShape' /\ handler'[h] = s /\ \A g \in Requests \ {h} : handler'[g] = handler[g]
  <2>1. IsHandler(s)
    BY <1>0 DEF IsHandler, IdleHandler
  <2>2. handler' = [handler EXCEPT ![h] = s]
    BY <1>0 DEF Starts
  <2> QED
    BY <2>1, <2>2, Moved DEF ChainInv
<1>2. /\ handler'[h].step = "read" /\ handler'[h].op = op /\ handler'[h].user = u
      /\ handler'[h].arg = arg /\ handler'[h].offer = NoOffer
  BY <1>0, <1>1 DEF IdleHandler
<1> QED
  BY <1>1, <1>2 DEF HandlerStep, HandlerOK, Inserted, Starts

LEMMA RequestKeeps ==
    ASSUME ChainInv, NEW h \in Requests, Request(h)
    PROVE  HandlerStep(h)
<1>1. \E op, u, target, arg : u \in Users /\ (op = "respond" => arg \in Responses) /\ Starts(h, op, u, target, arg)
  BY DEF Request, Create, Counter, Accept, Reject, Respond, Update, Delete, Cancel, AskStatus, Users
<1> QED
  BY <1>1, StartsKeeps

LEMMA InterviewRequestKeeps ==
    ASSUME ChainInv, NEW h \in Requests, InterviewRequest(h)
    PROVE  HandlerStep(h)
<1>1. \E op, target, arg : op # "respond" /\ Starts(h, op, Candidate, target, arg)
  BY DEF InterviewRequest, Schedule, Feedback, Reschedule, Unschedule, CallOff
<1>2. Candidate \in Users
  BY DEF Users
<1> QED
  BY <1>1, <1>2, StartsKeeps
\* A request that reads: it goes on with what it has read, or ends.
LEMMA ReadKeeps ==
    ASSUME ChainInv, NEW h \in Requests, ReadApplication(h) \/ ReadLatest(h) \/ ReadOffer(h)
    PROVE  HandlerStep(h) /\ UNCHANGED <<offers, application, faults>> /\ handler'[h].op = handler[h].op
           /\ handler'[h].step # "tally"
<1>0. UNCHANGED <<offers, application, faults>>
  BY DEF ReadApplication, ReadLatest, ReadOffer
<1>1. CASE End(h)
  BY <1>0, <1>1, EndKeeps
<1>2. CASE \E row \in {application}, step \in {"save", "latest"} :
               /\ handler' = [handler EXCEPT ![h].row = row, ![h].step = step]
               /\ handler[h].step = "read" /\ handler[h].op \in {"create", "counter", "accept", "reject", "status"}
  <2>1. PICK row, step :
            /\ handler' = [handler EXCEPT ![h].row = row, ![h].step = step] /\ step \in {"save", "latest"}
            /\ handler[h].step = "read" /\ handler[h].op \in {"create", "counter", "accept", "reject", "status"}
    BY <1>2
  <2>2. PICK s : s = [handler[h] EXCEPT !.row = row, !.step = step]
    OBVIOUS
  <2>3. IsHandler(s) /\ handler' = [handler EXCEPT ![h] = s]
    <3>1. IsHandler(s)
      BY <2>2 DEF IsHandler, ChainInv, HandlerShape
    <3> QED
      BY <2>1, <2>2, <3>1
  <2>4. HandlerShape' /\ handler'[h] = s /\ \A g \in Requests \ {h} : handler'[g] = handler[g]
    BY <2>3, Moved DEF ChainInv
  <2>5. /\ s.step = step /\ s.op = handler[h].op /\ s.user = handler[h].user
        /\ s.target = handler[h].target /\ s.offer = handler[h].offer
    BY <2>2 DEF ChainInv, HandlerShape
  <2>6. handler[h].offer # NoOffer => <<handler[h].target, handler[h].offer>> \in Copies
    BY DEF Copies
  <2> QED
    BY <1>0, <2>1, <2>4, <2>5, <2>6 DEF ChainInv, HandlerStep, HandlerOK, Inserted
<1>3. CASE \E step, target, offer :
               /\ handler' = [handler EXCEPT ![h].step = step, ![h].target = target, ![h].offer = offer]
               /\ step \in {"insert", "supersede", "answer"} /\ handler[h].step = "latest"
               /\ IF Offered = {} THEN target = NoOffer /\ offer = NoOffer /\ handler[h].op = "create"
                  ELSE target = Latest /\ offer = offers[Latest]
  <2>1. PICK step, target, offer :
            /\ handler' = [handler EXCEPT ![h].step = step, ![h].target = target, ![h].offer = offer]
            /\ step \in {"insert", "supersede", "answer"} /\ handler[h].step = "latest"
            /\ IF Offered = {} THEN target = NoOffer /\ offer = NoOffer /\ handler[h].op = "create"
               ELSE target = Latest /\ offer = offers[Latest]
    BY <1>3
  <2>2. PICK s : s = [handler[h] EXCEPT !.step = step, !.target = target, !.offer = offer]
    OBVIOUS
  <2>3. IsHandler(s) /\ handler' = [handler EXCEPT ![h] = s]
    <3>1. IsHandler(s)
      BY <2>2 DEF IsHandler, ChainInv, HandlerShape
    <3> QED
      BY <2>1, <2>2, <3>1
  <2>4. HandlerShape' /\ handler'[h] = s /\ \A g \in Requests \ {h} : handler'[g] = handler[g]
    BY <2>3, Moved DEF ChainInv
  <2>5. s.step = step /\ s.op = handler[h].op /\ s.user = handler[h].user /\ s.target = target /\ s.offer = offer
    BY <2>2 DEF ChainInv, HandlerShape
  <2>6. Offered # {} => Latest \in Offered /\ offers[Latest] # NoOffer /\ <<Latest, offers[Latest]>> \in Copies
    BY LatestIs DEF Offered, Copies
  <2>7. offer # NoOffer => <<target, offer>> \in Copies
    BY <2>1, <2>6
  <2>8. offer = NoOffer => target = NoOffer /\ handler[h].op = "create"
    BY <2>1, <2>6
  <2> QED
    BY <1>0, <2>1, <2>4, <2>5, <2>7, <2>8 DEF ChainInv, HandlerStep, HandlerOK, Inserted
<1>4. CASE \E o \in Offered :
               /\ handler' = [handler EXCEPT ![h].step = "save", ![h].offer = offers[o], ![h].row = application]
               /\ handler[h].step = "read" /\ handler[h].target = o
  <2>1. PICK o \in Offered :
               /\ handler' = [handler EXCEPT ![h].step = "save", ![h].offer = offers[o], ![h].row = application]
               /\ handler[h].step = "read" /\ handler[h].target = o
    BY <1>4
  <2>2. PICK s : s = [handler[h] EXCEPT !.step = "save", !.offer = offers[o], !.row = application]
    OBVIOUS
  <2>3. IsHandler(s) /\ handler' = [handler EXCEPT ![h] = s]
    <3>1. IsHandler(s)
      BY <2>2 DEF IsHandler, ChainInv, HandlerShape
    <3> QED
      BY <2>1, <2>2, <3>1
  <2>4. HandlerShape' /\ handler'[h] = s /\ \A g \in Requests \ {h} : handler'[g] = handler[g]
    BY <2>3, Moved DEF ChainInv
  <2>5. /\ s.step = "save" /\ s.op = handler[h].op /\ s.user = handler[h].user
        /\ s.target = o /\ s.offer = offers[o] /\ s.arg = handler[h].arg
    BY <2>1, <2>2 DEF ChainInv, HandlerShape
  <2>6. offers[o] # NoOffer /\ <<o, offers[o]>> \in Copies
    BY DEF Offered, Copies
  <2> QED
    BY <1>0, <2>1, <2>4, <2>5, <2>6 DEF ChainInv, HandlerStep, HandlerOK, Inserted
<1>5. CASE ReadApplication(h)
  BY <1>1, <1>2, <1>5 DEF ReadApplication
<1>6. CASE ReadLatest(h)
  <2> DEFINE u == handler[h].user
             found == Offered # {}
             next == CASE handler[h].op = "create" -> "insert"
                       [] handler[h].op = "counter" /\ found /\ AllowsCounter(offers[Latest], u) -> "supersede"
                       [] handler[h].op \in {"accept", "reject"} /\ found
                              /\ AllowsAnswer(offers[Latest], u) -> "answer"
                       [] OTHER -> "done"
  <2>1. /\ next \in {"insert", "supersede", "answer", "done"}
        /\ ~found => next = "done" \/ handler[h].op = "create"
    OBVIOUS
  <2>2. /\ handler[h].step = "latest"
        /\ IF next = "done" THEN End(h)
           ELSE handler' = [handler EXCEPT
                   ![h].step = next,
                   ![h].target = IF found THEN Latest ELSE NoOffer,
                   ![h].offer = IF found THEN offers[Latest] ELSE NoOffer]
    BY <1>6 DEF ReadLatest
  <2> HIDE DEF next
  <2> QED
    BY <1>1, <1>3, <2>1, <2>2
<1>7. CASE ReadOffer(h)
  BY <1>1, <1>4, <1>7 DEF ReadOffer
<1> QED
  BY <1>5, <1>6, <1>7

LEMMA WriteKeeps ==
    ASSUME ChainInv, NEW h \in Requests,
           \/ Supersede(h) \/ NameOffer(h) \/ PushHistory(h) \/ AnswerOffer(h) \/ Settle(h)
           \/ CheckJob(h) \/ CloseJob(h) \/ UpdateOffer(h) \/ DeleteOffer(h) \/ CancelOffer(h)
           \/ RespondOffer(h) \/ SetStatus(h) \/ SaveApplication(h) \/ Fault(h)
    PROVE  HandlerStep(h) /\ OffersKept /\ handler'[h].op = handler[h].op /\ handler'[h].step # "tally"
<1>1. CASE Supersede(h)
  <2>1. \A g \in Requests \ {h} : handler'[g] = handler[g]
    BY <1>1 DEF Supersede, Goto, ChainInv, HandlerShape
  <2>2. PICK s : s = [handler[h] EXCEPT !.step = "insert"]
    OBVIOUS
  <2>3. IsHandler(s)
    BY <2>2 DEF IsHandler, ChainInv, HandlerShape
  <2>4. HandlerShape' /\ handler'[h] = s
    BY <1>1, <2>2, <2>3, Moved DEF Supersede, Goto, ChainInv
  <2>5. /\ s.step = "insert" /\ s.op = handler[h].op /\ s.user = handler[h].user
        /\ s.target = handler[h].target /\ s.offer = handler[h].offer
    BY <2>2 DEF ChainInv, HandlerShape
  <2>6. handler[h].offer # NoOffer => <<handler[h].target, handler[h].offer>> \in Copies
    BY DEF Copies
  <2>7. HandlerStep(h)
    BY <1>1, <2>1, <2>4, <2>5, <2>6 DEF Supersede, At, ChainInv, HandlerStep, HandlerOK, Inserted
  <2>8. OffersKept
    BY <1>1, SetOfferKeeps DEF Supersede, OfferStatuses
  <2> QED
    BY <2>4, <2>5, <2>7, <2>8
<1>2. CASE NameOffer(h) \/ PushHistory(h) \/ Settle(h) \/ CheckJob(h) \/ SetStatus(h)
  <2>1. PICK step \in {"history", "job", "close", "done"} : Goto(h, step)
    BY <1>2 DEF NameOffer, PushHistory, Settle, CheckJob, SetStatus, ThenCloses, Goto
  <2>2. offers' = offers
    BY <1>2 DEF NameOffer, PushHistory, Settle, CheckJob, SetStatus
  <2>3. Late(step) /\ step # "tally"
    BY <2>1 DEF Late
  <2> QED
    BY <2>1, <2>2, <2>3, GotoKeeps, SameOffers
<1>3. CASE CloseJob(h) \/ SaveApplication(h) \/ Fault(h)
  <2>1. End(h) /\ offers' = offers
    BY <1>3 DEF CloseJob, SaveApplication, Fault
  <2> QED
    BY <2>1, EndKeeps, SameOffers
<1>4. CASE AnswerOffer(h)
  <2>1. Goto(h, "settle") /\ Late("settle")
    BY <1>4 DEF AnswerOffer, Late
  <2>2. PICK status \in {"accepted", "rejected"} : SetOffer(handler[h].target, status)
    BY <1>4 DEF AnswerOffer
  <2>3. OffersKept
    BY <2>2, SetOfferKeeps DEF OfferStatuses
  <2> QED
    BY <2>1, <2>3, GotoKeeps
<1>5. CASE RespondOffer(h)
  <2>1. PICK step \in {"status", "done"} : Goto(h, step)
    BY <1>5 DEF RespondOffer
  <2>2. Late(step) /\ step # "tally"
    BY <2>1 DEF Late
  <2>3. handler[h].arg \in OfferStatuses
    BY <1>5 DEF RespondOffer, At, ChainInv, HandlerOK, OfferStatuses
  <2>4. OffersKept
    BY <1>5, <2>3, SetOfferKeeps DEF RespondOffer
  <2> QED
    BY <2>1, <2>2, <2>4, GotoKeeps
<1>6. CASE UpdateOffer(h)
  <2> DEFINE o == handler[h].target
             t == handler[h].arg = "negotiable"
  <2>1. End(h)
    BY <1>6 DEF UpdateOffer
  <2>2. CASE o \notin Offered
    BY <1>6, <2>1, <2>2, EndKeeps, SameOffers DEF UpdateOffer
  <2>3. CASE o \in Offered
    <3>1. o \in Requests /\ offers[o] \in OfferRow /\ <<o, offers[o]>> \in Copies /\ Exists(offers[o].previous)
      BY <2>3 DEF ChainInv, Offered, Copies
    <3>2. PICK row : row = [offers[o] EXCEPT !.negotiable = t]
      OBVIOUS
    <3>3. t \in BOOLEAN
      OBVIOUS
    <3>4. offers' = [offers EXCEPT ![o] = row]
      BY <1>6, <2>3, <3>2 DEF UpdateOffer
    <3> HIDE DEF t
    <3>5. row \in OfferRow /\ SameOrigin(row, offers[o]) /\ row.previous = offers[o].previous
      BY <3>1, <3>2, <3>3 DEF OfferRow, SameOrigin
    <3>6. OffersKept
      BY <3>1, <3>4, <3>5, WrittenOffer
    <3> QED
      BY <2>1, <3>6, EndKeeps
  <2> QED
    BY <2>2, <2>3
<1>7. CASE DeleteOffer(h)
  <2>1. End(h)
    BY <1>7 DEF DeleteOffer
  <2>2. CASE offers' = offers
    BY <2>1, <2>2, EndKeeps, SameOffers
  <2>3. CASE ~Referred(handler[h].target) /\ offers' = [offers EXCEPT ![handler[h].target] = NoOffer]
    <3>1. /\ offers' \in [Requests -> OfferRow \cup {NoOffer}]
          /\ Offered' = Offered \ {handler[h].target}
          /\ \A p \in Offered' : offers'[p] = offers[p]
      BY <2>3 DEF ChainInv, Offered
    <3>2. \A p \in Offered : /\ <<p, offers[p]>> \in Copies /\ SameOrigin(offers[p], offers[p])
                             /\ offers[p].previous # handler[h].target
                             /\ offers[p].previous \in {NoOffer} \cup Offered
      BY <2>3 DEF ChainInv, Copies, SameOrigin, Referred, Exists
    <3>3. OffersKept
      BY <3>1, <3>2 DEF OffersKept
    <3> QED
      BY <2>1, <3>3, EndKeeps
  <2> QED
    BY <1>7, <2>2, <2>3 DEF DeleteOffer
<1>8. CASE CancelOffer(h)
  <2> DEFINE o == handler[h].target
             old == handler[h].offer
  <2>1. CASE ~Exists(old.previous)
    BY <1>8, <2>1, EndKeeps, SameOffers DEF CancelOffer
  <2>2. CASE Exists(old.previous)
    <3>1. /\ offers' = [offers EXCEPT ![o] = [old EXCEPT !.status = "cancelled"]]
          /\ Goto(h, "status") /\ Late("status")
      BY <1>8, <2>2 DEF CancelOffer, Late
    <3>2. old # NoOffer
      BY <1>8 DEF CancelOffer, At, ChainInv, HandlerOK
    <3>3. <<o, old>> \in Copies
      BY <3>2 DEF Copies
    <3>4. o \in Requests /\ old \in OfferRow
      BY <3>3 DEF ChainInv, CopiesOK, CopyOK, Inserted
    <3>5. PICK row : row = [old EXCEPT !.status = "cancelled"]
      OBVIOUS
    <3>6. row \in OfferRow /\ SameOrigin(row, old) /\ row.previous = old.previous
      BY <3>4, <3>5 DEF OfferRow, SameOrigin, OfferStatuses
    <3>7. offers' = [offers EXCEPT ![o] = row]
      BY <3>1, <3>5
    <3>8. OffersKept
      BY <2>2, <3>3, <3>4, <3>6, <3>7, WrittenOffer
    <3> QED
      BY <3>1, <3>8, GotoKeeps
  <2> QED
    BY <2>1, <2>2
<1> QED
  BY <1>1, <1>2, <1>3, <1>4, <1>5, <1>6, <1>7, <1>8

\* The new offer follows the one that was read, if that still exists; nobody has read
\* or named the new one before.
LEMMA InsertKeeps ==
    ASSUME ChainInv, NEW h \in Requests, InsertOffer(h)
    PROVE  /\ ChainInv' /\ HandlerStep(h) /\ handler'[h].op = handler[h].op /\ handler'[h].step # "tally"
           /\ Exists(handler[h].target) => NewOffer(h) \in OfferRow
<1> DEFINE o == handler[h].target
           last == handler[h].offer
           new == NewOffer(h)
<1>1. CASE ~Exists(o)
  <2>1. HandlerStep(h) /\ handler'[h].op = handler[h].op /\ handler'[h].step = "done" /\ OffersKept
    BY <1>1, EndKeeps, SameOffers DEF InsertOffer
  <2> QED
    BY <1>1, <2>1, KeepsChain
<1>2. CASE Exists(o)
  <2>0. offers' = [offers EXCEPT ![h] = new] /\ Goto(h, "name") /\ handler[h].step = "insert"
    BY <1>2 DEF InsertOffer
  <2>1. HandlerStep(h) /\ handler'[h].op = handler[h].op /\ handler'[h].step = "name"
    BY <2>0, GotoKeeps DEF Late
  <2>2. \A c \in Copies : c[1] # h /\ c[2].previous # h
    BY <2>0, OfferAssumption DEF ChainInv, CopiesOK, CopyOK, Inserted
  <2>3. /\ last = NoOffer => o = NoOffer /\ handler[h].op # "counter"
        /\ last # NoOffer => <<o, last>> \in Copies /\ last \in OfferRow /\ Inserted(o) /\ o \in Requests /\ o \in Offered
    <3>1. last = NoOffer => o = NoOffer /\ handler[h].op # "counter"
      BY <2>0 DEF ChainInv, HandlerOK
    <3>2. ASSUME last # NoOffer
          PROVE  <<o, last>> \in Copies /\ last \in OfferRow /\ Inserted(o) /\ o \in Requests /\ o \in Offered
      <4>1. <<o, last>> \in Copies
        BY <3>2 DEF Copies
      <4>2. last \in OfferRow /\ Inserted(o)
        BY <4>1 DEF ChainInv, CopiesOK, CopyOK
      <4> QED
        BY <1>2, <4>1, <4>2, OfferAssumption DEF Inserted, Exists
    <3> QED
      BY <3>1, <3>2
  <2>4. Now \in Nat /\ \A p \in Offered : offers[p].at < Now
    <3>1. CASE Offered = {}
      BY <3>1 DEF Now
    <3>2. CASE Offered # {}
      <4>1. Latest \in Offered /\ \A p \in Offered : offers[p].at <= offers[Latest].at
        BY <3>2, LatestIs
      <4>2. \A p \in Offered : offers[p].at \in Nat
        BY DEF ChainInv, Offered, OfferRow
      <4> QED
        BY <3>2, <4>1, <4>2 DEF Now
    <3> QED
      BY <3>1, <3>2
  <2>5. o = NoOffer <=> last = NoOffer
    BY <2>3, OfferAssumption
  <2>6. PICK row : row = new
    OBVIOUS
  <2>7. /\ row \in OfferRow /\ row.previous = o /\ row.at = Now
        /\ IF last = NoOffer
           THEN row.version = 1 /\ row.root = NoOffer /\ row.rounds = 0
           ELSE /\ row.version = last.version + 1
                /\ row.rounds \in {0, last.rounds + 1}
                /\ row.root = IF last.root = NoOffer THEN o ELSE last.root
    <3>1. handler[h].user \in Users
      BY DEF ChainInv, HandlerOK
    <3>2. last # NoOffer => /\ last.version \in Nat /\ last.rounds \in Nat /\ o \in Requests
                            /\ last.root \in Requests \cup {NoOffer}
      BY <2>3 DEF OfferRow
    <3>3. "pending" \in OfferStatuses
      BY DEF OfferStatuses
    <3>4. /\ row.previous = o /\ row.at = Now
          /\ row.version = IF last = NoOffer THEN 1 ELSE last.version + 1
          /\ row.rounds = IF handler[h].op = "counter" THEN last.rounds + 1 ELSE 0
          /\ row.root = IF last = NoOffer \/ last.root = NoOffer THEN o ELSE last.root
      BY <2>6 DEF NewOffer
    <3>5. row \in OfferRow
      <4>1. row.version \in Nat /\ row.rounds \in Nat
        BY <2>3, <3>2, <3>4
      <4>2. row.previous \in Requests \cup {NoOffer} /\ row.root \in Requests \cup {NoOffer}
        BY <2>5, <3>2, <3>4
      <4>3. /\ row = [by |-> row.by, status |-> row.status, type |-> row.type, version |-> row.version,
                     rounds |-> row.rounds, previous |-> row.previous, root |-> row.root,
                     negotiable |-> row.negotiable, at |-> row.at]
            /\ row.by = handler[h].user /\ row.status = "pending"
            /\ row.type \in {"initial", "revised", "counter"} /\ row.negotiable \in BOOLEAN
        BY <2>6 DEF NewOffer
      <4> QED
        BY <2>4, <3>1, <3>3, <3>4, <4>1, <4>2, <4>3 DEF OfferRow
    <3> QED
      BY <2>3, <2>5, <3>4, <3>5
  <2>8. /\ offers' \in [Requests -> OfferRow \cup {NoOffer}] /\ offers'[h] = row /\ Offered' = Offered \cup {h}
        /\ \A p \in Requests \ {h} : offers'[p] = offers[p]
    BY <2>0, <2>6, <2>7, OfferAssumption DEF ChainInv, Offered
  <2>9. ASSUME NEW c \in Copies'
        PROVE  c \in Copies \/ c = <<h, row>>
    BY <2>1, <2>8 DEF Copies, HandlerStep, Offered
  <2>10. \A p : Inserted(p) => Inserted(p)'
    BY <2>1 DEF HandlerStep, Inserted
  <2>11. Inserted(h)'
    BY <2>1 DEF Inserted
  <2>12. ASSUME NEW c \in Copies'
         PROVE  CopyOK(c)'
    <3>1. CASE c \in Copies
      BY <2>10, <3>1 DEF ChainInv, CopiesOK, CopyOK
    <3>2. CASE c = <<h, row>>
      BY <2>3, <2>5, <2>7, <2>10, <2>11, <3>2 DEF CopyOK
    <3> QED
      BY <2>9, <3>1, <3>2
  <2>13. ASSUME NEW d \in Copies, d[1] = o
         PROVE  Follows(row, o, d[2])
    <3>1. d[2] \in OfferRow /\ o \in Requests
      BY <2>13 DEF ChainInv, CopiesOK, CopyOK, Inserted
    <3>2. last # NoOffer
      BY <2>3, <3>1, OfferAssumption
    <3>3. SameOrigin(d[2], last)
      BY <2>3, <2>13, <3>2 DEF ChainInv, CopiesOK
    <3>4. d[2].at = offers[o].at /\ o \in Offered
      <4>1. o \in Offered /\ <<o, offers[o]>> \in Copies
        BY <2>3, <3>2 DEF Copies
      <4>2. SameOrigin(d[2], offers[o])
        BY <2>13, <4>1 DEF ChainInv, CopiesOK
      <4> QED
        BY <4>1, <4>2 DEF SameOrigin
    <3>5. d[2].at < Now /\ d[2].at \in Nat
      BY <2>4, <3>1, <3>4 DEF OfferRow
    <3> QED
      BY <2>4, <2>7, <3>2, <3>3, <3>5 DEF Follows, SameOrigin
  <2>14. ASSUME NEW c \in Copies', NEW d \in Copies'
         PROVE  /\ c[1] = d[1] => SameOrigin(c[2], d[2])
                /\ c[2].previous = d[1] => Follows(c[2], d[1], d[2])
    <3>1. CASE c \in Copies /\ d \in Copies
      BY <3>1 DEF ChainInv, CopiesOK
    <3>2. CASE c = <<h, row>> /\ d \in Copies
      BY <2>2, <2>7, <2>13, <3>2
    <3>3. CASE c \in Copies /\ d = <<h, row>>
      BY <2>2, <3>3
    <3>4. CASE c = <<h, row>> /\ d = <<h, row>>
      <4>1. o # h
        BY <2>0, <2>3, <2>5, OfferAssumption DEF Inserted
      <4> QED
        BY <2>7, <3>4, <4>1 DEF SameOrigin
    <3> QED
      BY <2>9, <3>1, <3>2, <3>3, <3>4
  <2>15. CopiesOK'
    BY <2>12, <2>14 DEF CopiesOK
  <2>16. (\A p \in Offered : Exists(offers[p].previous))'
    BY <1>2, <2>7, <2>8 DEF ChainInv, Exists, Offered
  <2>17. HandlerShape' /\ (\A g \in Requests : HandlerOK(handler[g]))'
    BY <2>1 DEF HandlerStep, ChainInv
  <2>18. IsFiniteSet({g \in Requests : handler[g].step # "idle"})'
    <3>1. {g \in Requests : handler'[g].step # "idle"} \subseteq {g \in Requests : handler[g].step # "idle"} \cup {h}
      BY <2>1 DEF HandlerStep
    <3> QED
      BY <3>1, FS_AddElement, FS_Subset DEF ChainInv
  <2> QED
    BY <2>1, <2>6, <2>7, <2>8, <2>15, <2>16, <2>17, <2>18 DEF ChainInv
<1> QED
  BY <1>1, <1>2
LEMMA InterviewStepKeeps ==
    ASSUME ChainInv, NEW h \in Requests, InterviewStep(h)
    PROVE  /\ HandlerStep(h) /\ offers' = offers /\ handler'[h].op = handler[h].op
           /\ handler'[h].step = "tally" <=> ScheduleInterview(h) \/ CompleteInterview(h)
<1>0. offers' = offers
  BY DEF InterviewStep, ReadInterview, ScheduleInterview, CompleteInterview, RescheduleInterview,
         DeleteInterview, CancelInterview, TallyInterview, Decide, MoveApplication
<1>1. CASE ScheduleInterview(h) \/ CompleteInterview(h)
  <2>1. Goto(h, "tally") /\ Late("tally")
    BY <1>1 DEF ScheduleInterview, CompleteInterview, Late
  <2> QED
    BY <1>0, <1>1, <2>1, GotoKeeps
<1>2. CASE \E step \in {"interview", "decide", "history", "done"} : Goto(h, step)
  <2>1. PICK step \in {"interview", "decide", "history", "done"} : Goto(h, step)
    BY <1>2
  <2>2. Late(step) /\ step # "tally"
    BY DEF Late
  <2>3. HandlerStep(h) /\ handler'[h].op = handler[h].op /\ handler'[h].step = step
    BY <2>1, <2>2, GotoKeeps
  <2>4. CASE ScheduleInterview(h) \/ CompleteInterview(h)
    BY <1>1, <2>4
  <2> QED
    BY <1>0, <2>2, <2>3, <2>4
<1>3. CASE End(h)
  <2>1. Goto(h, "done")
    BY <1>3 DEF Goto
  <2> QED
    BY <1>2, <2>1
<1>4. CASE Decide(h) /\ ~End(h)
  <2>1. PICK next, row : handler' = [handler EXCEPT ![h].step = "move", ![h].next = next, ![h].row = row]
    BY <1>4, ZenonT(30) DEF Decide
  <2>2. PICK s : s = [handler[h] EXCEPT !.step = "move", !.next = next, !.row = row]
    OBVIOUS
  <2>3. IsHandler(s)
    BY <2>2 DEF IsHandler, ChainInv, HandlerShape
  <2>4. handler' = [handler EXCEPT ![h] = s]
    BY <2>1, <2>2
  <2>5. HandlerShape' /\ handler'[h] = s /\ \A g \in Requests \ {h} : handler'[g] = handler[g]
    BY <2>3, <2>4, Moved DEF ChainInv
  <2>6. /\ s.step = "move" /\ s.op = handler[h].op /\ s.user = handler[h].user
        /\ s.target = handler[h].target /\ s.offer = handler[h].offer
    BY <2>2 DEF ChainInv, HandlerShape
  <2>7. handler[h].offer # NoOffer => <<handler[h].target, handler[h].offer>> \in Copies
    BY DEF Copies
  <2>8. HandlerStep(h)
    BY <2>5, <2>6, <2>7 DEF ChainInv, HandlerStep, HandlerOK, Inserted
  <2>9. CASE ScheduleInterview(h) \/ CompleteInterview(h)
    BY <1>1, <2>9
  <2> QED
    BY <1>0, <2>5, <2>6, <2>8, <2>9
<1>5. \/ ScheduleInterview(h) \/ CompleteInterview(h) \/ End(h) \/ (Decide(h) /\ ~End(h))
      \/ \E step \in {"interview", "decide", "history", "done"} : Goto(h, step)
  BY DEF InterviewStep, ReadInterview, RescheduleInterview, DeleteInterview, CancelInterview,
         TallyInterview, Decide, MoveApplication
<1> QED
  BY <1>1, <1>2, <1>3, <1>4, <1>5

LEMMA ChainInit == OInit => ChainInv
<1> SUFFICES ASSUME OInit
             PROVE  ChainInv
  OBVIOUS
<1> USE DEF OInit
<1>1. HandlerShape /\ \A h \in Requests : HandlerOK(handler[h])
  BY DEF HandlerShape, HandlerOK, IdleHandler, Users
<1>2. Offered = {} /\ offers \in [Requests -> OfferRow \cup {NoOffer}]
  BY DEF Offered
<1>3. Copies = {}
  BY <1>2 DEF Copies, IdleHandler
<1>4. {h \in Requests : handler[h].step # "idle"} = {}
  BY DEF IdleHandler
<1> QED
  BY <1>1, <1>2, <1>3, <1>4, FS_EmptySet DEF ChainInv, CopiesOK

LEMMA ChainStep == ChainInv /\ [HNext]_hvars => ChainInv'
<1> SUFFICES ASSUME ChainInv, [HNext]_hvars
             PROVE  ChainInv'
  OBVIOUS
<1>1. CASE UNCHANGED hvars
  <2>1. UNCHANGED <<offers, handler>>
    BY <1>1 DEF hvars, ovars
  <2>2. Offered' = Offered /\ Copies' = Copies /\ (\A o : Inserted(o)' = Inserted(o) /\ Exists(o)' = Exists(o))
    BY <2>1 DEF Offered, Copies, Inserted, Exists
  <2>3. CopiesOK'
    BY <2>2 DEF ChainInv, CopiesOK, CopyOK
  <2> QED
    BY <2>1, <2>2, <2>3 DEF ChainInv, HandlerShape, Exists
<1>2. ASSUME NEW h \in Requests, InterviewRequest(h)
      PROVE  ChainInv'
  <2>1. offers' = offers
    BY <1>2 DEF InterviewRequest
  <2> QED
    BY <1>2, <2>1, InterviewRequestKeeps, SameOffers, KeepsChain
<1>3. ASSUME NEW h \in Requests, InterviewStep(h)
      PROVE  ChainInv'
  BY <1>3, InterviewStepKeeps, SameOffers, KeepsChain
<1>4. ASSUME NEW h \in Requests, Request(h)
      PROVE  ChainInv'
  <2>1. offers' = offers
    BY <1>4 DEF Request
  <2> QED
    BY <1>4, <2>1, RequestKeeps, SameOffers, KeepsChain
<1>5. ASSUME NEW h \in Requests, ReadApplication(h) \/ ReadLatest(h) \/ ReadOffer(h)
      PROVE  ChainInv'
  BY <1>5, ReadKeeps, SameOffers, KeepsChain
<1>6. ASSUME NEW h \in Requests, RequestStep(h) \/ Fault(h)
      PROVE  ChainInv'
  BY <1>5, <1>6, InsertKeeps, WriteKeeps, KeepsChain DEF RequestStep
<1> QED
  BY <1>1, <1>2, <1>3, <1>4, <1>6 DEF HNext, ONext

\* An offer names one that exists, and its version, round, root and time follow from that
\* one, whatever else is offered, deleted, restored by a cancellation or lost in between
\* (OfferService), with interviews going on (InterviewService).
THEOREM ChainsAreSound == HSpec => []ChainSound
<1>1. ChainInv => ChainSound
  <2> SUFFICES ASSUME ChainInv, NEW o \in Offered
               PROVE  LET x == offers[o]  y == offers[x.previous] IN
                      IF x.previous = NoOffer
                      THEN x.version = 1 /\ x.root = NoOffer /\ x.rounds = 0
                      ELSE /\ x.previous \in Offered
                           /\ x.version = y.version + 1
                           /\ x.rounds \in {0, y.rounds + 1}
                           /\ x.root = IF y.root = NoOffer THEN x.previous ELSE y.root
                           /\ x.at > y.at
    BY DEF ChainSound
  <2>1. \A p \in Offered : <<p, offers[p]>> \in Copies
    BY DEF Copies
  <2>2. CopyOK(<<o, offers[o]>>) /\ Exists(offers[o].previous)
    BY <2>1 DEF ChainInv, CopiesOK
  <2>3. CASE offers[o].previous = NoOffer
    BY <2>2, <2>3 DEF CopyOK
  <2>4. CASE offers[o].previous # NoOffer
    <3>1. offers[o].previous \in Offered
      BY <2>2, <2>4 DEF Exists
    <3>2. Follows(offers[o], offers[o].previous, offers[offers[o].previous])
      BY <2>1, <3>1 DEF ChainInv, CopiesOK
    <3> QED
      BY <2>4, <3>1, <3>2 DEF Follows
  <2> QED
    BY <2>3, <2>4
<1> QED
  BY <1>1, ChainInit, ChainStep, PTL DEF HSpec, IInit
-----------------------------------------------------------------------------
(* The counters of the application *)

LEMMA OneMore ==
    ASSUME NEW S, IsFiniteSet(S), NEW x, NEW T \in SUBSET (S \cup {x})
    PROVE  IsFiniteSet(T) /\ Cardinality(T) <= Cardinality(S) + 1 /\ Cardinality(T) \in Nat /\ Cardinality(S) \in Nat
<1>1. /\ IsFiniteSet(S \cup {x})
      /\ Cardinality(S \cup {x}) = Cardinality(S) \/ Cardinality(S \cup {x}) = Cardinality(S) + 1
  BY FS_AddElement
<1>2. IsFiniteSet(T) /\ Cardinality(T) <= Cardinality(S \cup {x})
  BY <1>1, FS_Subset
<1>3. Cardinality(T) \in Nat /\ Cardinality(S) \in Nat /\ Cardinality(S \cup {x}) \in Nat
  BY <1>1, <1>2, FS_CardinalityType
<1> QED
  BY <1>1, <1>2, <1>3

LEMMA Finite ==
    ASSUME ChainInv, CountersInv
    PROVE  /\ IsFiniteSet(Interviews) /\ IsFiniteSet(Completed)
           /\ \A op : IsFiniteSet(Uncounted(op))
<1> DEFINE Asking == {h \in Requests : handler[h].step # "idle"}
<1>1. Interviews \subseteq Asking /\ Completed \subseteq Asking
  BY DEF CountersInv, Interviews, Completed
<1>2. \A op : Uncounted(op) \subseteq Asking
  BY DEF Uncounted, At
<1>3. IsFiniteSet(Asking)
  BY DEF ChainInv
<1> HIDE DEF Asking
<1> QED
  BY <1>1, <1>2, <1>3, FS_Subset

\* Only what a step writes to the interviews, its request and the counters matters.
CountersStep(h) ==
    /\ h \in Requests /\ HandlerStep(h)
    /\ handler'[h].op = handler[h].op \/ handler[h].step = "idle"
    /\ handler'[h].step = "tally" => handler'[h].op \in {"schedule", "feedback"}
    /\ interviews' \in [Requests -> InterviewStatuses]
    /\ \A i \in Interviews' : i \in Interviews \/ i = h
    /\ faults' = faults \/ faults' = faults + 1

LEMMA Undone ==
    ASSUME CountersInv, NEW h, CountersStep(h), Undamaged'
    PROVE  Undamaged /\ faults' = faults /\ ApplicationOK(application)
<1>1. faults \in Nat /\ faults' = 0
  BY DEF CountersInv, Undamaged
<1>2. faults = 0 /\ faults' = faults
  BY <1>1 DEF CountersStep
<1>3. \A g \in Requests : handler[g].op # "status"
  <2> SUFFICES ASSUME NEW g \in Requests
               PROVE  handler[g].op # "status"
    OBVIOUS
  <2>1. handler'[g].op # "status"
    BY DEF Undamaged
  <2>2. CASE g = h
    BY <2>1, <2>2 DEF CountersStep, CountersInv
  <2>3. CASE g # h
    BY <2>1, <2>3 DEF CountersStep, HandlerStep
  <2> QED
    BY <2>2, <2>3
<1> QED
  BY <1>2, <1>3 DEF Undamaged, CountersInv, CountersHold

LEMMA CountersFrame ==
    ASSUME CountersInv, NEW h, CountersStep(h), CountersHold'
    PROVE  CountersInv'
<1>1. \A i \in Interviews' : handler'[i].step # "idle"
  BY DEF CountersInv, CountersStep, HandlerStep, Interviews
<1>2. \A g \in Requests : /\ handler'[g].step = "idle" => handler'[g].op = "none"
                          /\ handler'[g].step = "tally" => handler'[g].op \in {"schedule", "feedback"}
  BY DEF CountersInv, CountersStep, HandlerStep
<1>3. faults' \in Nat
  BY DEF CountersInv, CountersStep
<1>4. interviews' \in [Requests -> InterviewStatuses]
  BY DEF CountersStep
<1> QED
  BY <1>1, <1>2, <1>3, <1>4 DEF CountersInv

\* A step that counts nothing and leaves nothing to count
LEMMA QuietStep ==
    ASSUME ChainInv, CountersInv, NEW h, CountersStep(h),
           handler[h].step # "tally" \/ faults' # faults, handler'[h].step # "tally",
           Interviews' \subseteq Interviews, Completed' \subseteq Completed,
           Undamaged' /\ ApplicationOK(application) =>
               /\ ApplicationOK(application')
               /\ application'.total = application.total /\ application'.completed = application.completed
    PROVE  CountersInv'
<1> SUFFICES ASSUME Undamaged'
             PROVE  /\ ApplicationOK(application')
                    /\ Cardinality(Interviews') <= application'.total + Cardinality(Uncounted("schedule")')
                    /\ Cardinality(Completed') <= application'.completed + Cardinality(Uncounted("feedback")')
  BY CountersFrame DEF CountersHold
<1>1. Undamaged /\ faults' = faults /\ ApplicationOK(application)
  BY Undone
<1>2. \A op : Uncounted(op)' = Uncounted(op)
  BY <1>1 DEF CountersStep, HandlerStep, Uncounted, At
<1>3. /\ Cardinality(Interviews) <= application.total + Cardinality(Uncounted("schedule"))
      /\ Cardinality(Completed) <= application.completed + Cardinality(Uncounted("feedback"))
  BY <1>1 DEF CountersInv, CountersHold
<1>4. /\ Cardinality(Interviews') <= Cardinality(Interviews)
      /\ Cardinality(Completed') <= Cardinality(Completed)
  BY Finite, FS_Subset
<1>5. /\ Cardinality(Interviews) \in Nat /\ Cardinality(Completed) \in Nat
      /\ IsFiniteSet(Interviews') /\ IsFiniteSet(Completed')
      /\ Cardinality(Uncounted("schedule")) \in Nat /\ Cardinality(Uncounted("feedback")) \in Nat
  BY Finite, FS_Subset, FS_CardinalityType
<1>6. Cardinality(Interviews') \in Nat /\ Cardinality(Completed') \in Nat
  BY <1>5, FS_CardinalityType
<1>7. /\ ApplicationOK(application')
      /\ application'.total = application.total /\ application'.completed = application.completed
  BY <1>1
<1>8. application.total \in Nat /\ application.completed \in Nat
  BY <1>1 DEF ApplicationOK
<1> QED
  BY <1>2, <1>3, <1>4, <1>5, <1>6, <1>7, <1>8
LEMMA SetInterviewKeeps ==
    ASSUME CountersInv, NEW i, NEW status \in InterviewStatuses, SetInterview(i, status)
    PROVE  /\ interviews' \in [Requests -> InterviewStatuses] /\ Interviews' \subseteq Interviews
           /\ Completed' \subseteq Completed \cup {i}
           /\ status # "completed" => Completed' \subseteq Completed
<1>1. CASE i \notin Interviews
  <2>1. interviews' = interviews
    BY <1>1 DEF SetInterview
  <2> QED
    BY <2>1 DEF CountersInv, Interviews, Completed
<1>2. CASE i \in Interviews
  <2>1. /\ i \in Requests /\ interviews' \in [Requests -> InterviewStatuses]
        /\ interviews'[i] = status /\ \A j \in Requests \ {i} : interviews'[j] = interviews[j]
    BY <1>2 DEF SetInterview, CountersInv, Interviews
  <2> QED
    BY <1>2, <2>1 DEF Interviews, Completed
<1> QED
  BY <1>1, <1>2

LEMMA UpdatedApplication ==
    ASSUME ApplicationOK(application), NEW row,
           \/ \E status : row = [application EXCEPT !.status = status]
           \/ \E history : row = [application EXCEPT !.history = history]
           \/ \E status, history : row = [application EXCEPT !.status = status, !.history = history]
           \/ \E current, status : row = [application EXCEPT !.current = current, !.status = status]
    PROVE  ApplicationOK(row) /\ row.total = application.total /\ row.completed = application.completed
BY DEF ApplicationOK

LEMMA RequestCounts ==
    ASSUME ChainInv, CountersInv, NEW h \in Requests, Request(h) \/ InterviewRequest(h), interviews' = interviews
    PROVE  CountersInv'
<1>1. HandlerStep(h)
  BY RequestKeeps, InterviewRequestKeeps
<1>2. \E op, u, target, arg : Starts(h, op, u, target, arg)
  BY DEF Request, Create, Counter, Accept, Reject, Respond, Update, Delete, Cancel, AskStatus,
         InterviewRequest, Schedule, Feedback, Reschedule, Unschedule, CallOff
<1>3. handler[h].step = "idle" /\ handler'[h].step = "read"
  BY <1>2 DEF Starts, IdleHandler, ChainInv, HandlerShape
<1>4. UNCHANGED <<application, faults>>
  BY DEF Request, InterviewRequest
<1>5. Interviews' = Interviews /\ Completed' = Completed
  BY DEF Interviews, Completed
<1>6. CountersStep(h)
  BY <1>1, <1>3, <1>4, <1>5 DEF CountersStep, CountersInv
<1> QED
  BY <1>3, <1>4, <1>5, <1>6, QuietStep

LEMMA OfferStepCounts ==
    ASSUME ChainInv, CountersInv, NEW h \in Requests, RequestStep(h) \/ Fault(h), interviews' = interviews
    PROVE  CountersInv'
<1>1. HandlerStep(h) /\ handler'[h].op = handler[h].op /\ handler'[h].step # "tally"
  BY ReadKeeps, InsertKeeps, WriteKeeps DEF RequestStep
<1>2. Interviews' = Interviews /\ Completed' = Completed
  BY DEF Interviews, Completed
<1>3. faults' = faults \/ (faults' = faults + 1 /\ faults' # faults)
  BY DEF RequestStep, Fault, CountersInv, ReadApplication, ReadLatest, Supersede, InsertOffer, NameOffer, PushHistory,
         AnswerOffer, Settle, CheckJob, CloseJob, ReadOffer, UpdateOffer, DeleteOffer, CancelOffer, RespondOffer,
         SetStatus, SaveApplication
<1>4. handler[h].step # "tally" \/ faults' # faults
  <2>1. CASE Fault(h)
    <3>1. faults' = faults + 1 /\ faults \in Nat
      BY <2>1 DEF Fault, CountersInv
    <3> QED
      BY <3>1
  <2>2. CASE ReadApplication(h) \/ ReadLatest(h) \/ Supersede(h) \/ InsertOffer(h) \/ NameOffer(h) \/ PushHistory(h)
             \/ AnswerOffer(h) \/ Settle(h) \/ CheckJob(h) \/ CloseJob(h)
    BY <2>2 DEF ReadApplication, ReadLatest, Supersede, InsertOffer, NameOffer, PushHistory, AnswerOffer, Settle,
           CheckJob, CloseJob, At
  <2>3. CASE ReadOffer(h) \/ UpdateOffer(h) \/ DeleteOffer(h) \/ CancelOffer(h) \/ RespondOffer(h) \/ SetStatus(h)
             \/ SaveApplication(h)
    BY <2>3 DEF ReadOffer, UpdateOffer, DeleteOffer, CancelOffer, RespondOffer, SetStatus, SaveApplication, At
  <2> QED
    BY <2>1, <2>2, <2>3 DEF RequestStep
<1>5. CountersStep(h)
  BY <1>1, <1>2, <1>3 DEF CountersStep, CountersInv
<1>6. ASSUME Undamaged', ApplicationOK(application)
      PROVE  /\ ApplicationOK(application')
             /\ application'.total = application.total /\ application'.completed = application.completed
  <2>1. CASE NameOffer(h) \/ PushHistory(h) \/ Settle(h) \/ SetStatus(h)
    <3>1. \/ application' = application
          \/ \E status : application' = [application EXCEPT !.status = status]
          \/ \E history : application' = [application EXCEPT !.history = history]
          \/ \E status, history : application' = [application EXCEPT !.status = status, !.history = history]
          \/ \E current, status : application' = [application EXCEPT !.current = current, !.status = status]
      BY <2>1 DEF NameOffer, PushHistory, Settle, SetStatus
    <3> QED
      BY <1>6, <3>1, UpdatedApplication
  <2>2. CASE SaveApplication(h)
    BY <1>1, <1>6, <2>2 DEF SaveApplication, At, Undamaged
  <2>3. CASE Fault(h)
    BY <1>6, <2>3 DEF Fault
  <2>4. CASE ~(NameOffer(h) \/ PushHistory(h) \/ Settle(h) \/ SetStatus(h) \/ SaveApplication(h) \/ Fault(h))
    <3>1. application' = application
      BY <2>4 DEF RequestStep, ReadApplication, ReadLatest, Supersede, InsertOffer, AnswerOffer, CheckJob, CloseJob,
             ReadOffer, UpdateOffer, DeleteOffer, CancelOffer, RespondOffer
    <3> QED
      BY <1>6, <3>1
  <2> QED
    BY <2>1, <2>2, <2>3, <2>4
<1> QED
  BY <1>1, <1>2, <1>4, <1>5, <1>6, QuietStep

LEMMA QuietInterviewCounts ==
    ASSUME ChainInv, CountersInv, NEW h \in Requests,
           \/ ReadInterview(h) \/ RescheduleInterview(h) \/ DeleteInterview(h) \/ CancelInterview(h)
           \/ Decide(h) \/ MoveApplication(h)
    PROVE  CountersInv'
<1>0. faults' = faults
  BY DEF ReadInterview, RescheduleInterview, DeleteInterview, CancelInterview, Decide, MoveApplication
<1>1. HandlerStep(h) /\ handler'[h].op = handler[h].op /\ handler[h].step # "tally"
  BY InterviewStepKeeps
     DEF InterviewStep, ReadInterview, RescheduleInterview, DeleteInterview, CancelInterview, Decide, MoveApplication, At
<1>2. handler'[h].step # "tally"
  <2>1. ~ScheduleInterview(h) /\ ~CompleteInterview(h)
    BY DEF ScheduleInterview, CompleteInterview, ReadInterview, RescheduleInterview, DeleteInterview, CancelInterview,
           Decide, MoveApplication, At, InterviewOps
  <2> QED
    BY <2>1, InterviewStepKeeps DEF InterviewStep
<1>3. /\ interviews' \in [Requests -> InterviewStatuses]
      /\ Interviews' \subseteq Interviews /\ Completed' \subseteq Completed
  <2>1. CASE interviews' = interviews
    BY <2>1 DEF Interviews, Completed, CountersInv
  <2>2. CASE \E status \in {"rescheduled", "none", "cancelled"} : SetInterview(handler[h].target, status)
    BY <2>2, SetInterviewKeeps DEF InterviewStatuses
  <2> QED
    BY <2>1, <2>2 DEF ReadInterview, RescheduleInterview, DeleteInterview, CancelInterview, Decide, MoveApplication
<1>4. CountersStep(h)
  BY <1>0, <1>1, <1>2, <1>3 DEF CountersStep
<1>5. application' = application \/ \E status : application' = [application EXCEPT !.status = status]
  BY DEF ReadInterview, RescheduleInterview, DeleteInterview, CancelInterview, Decide, MoveApplication
<1>6. ApplicationOK(application) =>
          /\ ApplicationOK(application')
          /\ application'.total = application.total /\ application'.completed = application.completed
  BY <1>5, UpdatedApplication
<1> QED
  BY <1>1, <1>2, <1>3, <1>4, <1>6, QuietStep

LEMMA ScheduleCounts ==
    ASSUME ChainInv, CountersInv, NEW h \in Requests, ScheduleInterview(h)
    PROVE  CountersInv'
<1>1. /\ HandlerStep(h) /\ handler'[h].op = handler[h].op /\ handler'[h].step = "tally"
      /\ handler[h].op = "schedule" /\ handler[h].step = "interview" /\ UNCHANGED <<application, faults>>
  BY InterviewStepKeeps DEF InterviewStep, ScheduleInterview, At
<1>2. /\ interviews' \in [Requests -> InterviewStatuses] /\ interviews'[h] = "scheduled"
      /\ \A j \in Requests \ {h} : interviews'[j] = interviews[j]
  BY DEF ScheduleInterview, CountersInv, InterviewStatuses
<1>3. Interviews' \subseteq Interviews \cup {h} /\ Completed' \subseteq Completed
  BY <1>2 DEF Interviews, Completed
<1>4. CountersStep(h)
  BY <1>1, <1>2, <1>3 DEF CountersStep
<1> SUFFICES ASSUME Undamaged'
             PROVE  /\ ApplicationOK(application')
                    /\ Cardinality(Interviews') <= application'.total + Cardinality(Uncounted("schedule")')
                    /\ Cardinality(Completed') <= application'.completed + Cardinality(Uncounted("feedback")')
  BY <1>4, CountersFrame DEF CountersHold
<1>5. Undamaged /\ ApplicationOK(application)
  BY <1>4, Undone
<1>6. Uncounted("schedule")' = Uncounted("schedule") \cup {h} /\ h \notin Uncounted("schedule")
  BY <1>1 DEF HandlerStep, Uncounted, At
<1>7. Uncounted("feedback")' = Uncounted("feedback")
  BY <1>1 DEF HandlerStep, Uncounted, At
<1>8. Cardinality(Uncounted("schedule")') = Cardinality(Uncounted("schedule")) + 1
  BY <1>6, Finite, FS_AddElement
<1>9. Cardinality(Interviews') <= Cardinality(Interviews) + 1 /\ Cardinality(Interviews') \in Nat /\ Cardinality(Interviews) \in Nat
  BY <1>3, Finite, OneMore
<1>10. Cardinality(Completed') <= Cardinality(Completed) /\ Cardinality(Completed') \in Nat /\ Cardinality(Completed) \in Nat
  BY <1>3, Finite, FS_Subset, FS_CardinalityType
<1>11. /\ Cardinality(Interviews) <= application.total + Cardinality(Uncounted("schedule"))
       /\ Cardinality(Completed) <= application.completed + Cardinality(Uncounted("feedback"))
  BY <1>5 DEF CountersInv, CountersHold
<1>12. Cardinality(Uncounted("schedule")) \in Nat /\ Cardinality(Uncounted("feedback")) \in Nat
  BY Finite, FS_CardinalityType
<1>13. application.total \in Nat /\ application.completed \in Nat
  BY <1>5 DEF ApplicationOK
<1> QED
  BY <1>1, <1>5, <1>7, <1>8, <1>9, <1>10, <1>11, <1>12, <1>13

LEMMA CompleteCounts ==
    ASSUME ChainInv, CountersInv, NEW h \in Requests, CompleteInterview(h)
    PROVE  CountersInv'
<1>1. /\ HandlerStep(h) /\ handler'[h].op = handler[h].op /\ handler'[h].step = "tally"
      /\ handler[h].op = "feedback" /\ handler[h].step = "interview" /\ UNCHANGED <<application, faults>>
  BY InterviewStepKeeps DEF InterviewStep, CompleteInterview, At
<1>2. /\ interviews' \in [Requests -> InterviewStatuses]
      /\ Interviews' \subseteq Interviews /\ Completed' \subseteq Completed \cup {handler[h].target}
  BY SetInterviewKeeps DEF CompleteInterview, InterviewStatuses
<1>4. CountersStep(h)
  BY <1>1, <1>2 DEF CountersStep
<1> SUFFICES ASSUME Undamaged'
             PROVE  /\ ApplicationOK(application')
                    /\ Cardinality(Interviews') <= application'.total + Cardinality(Uncounted("schedule")')
                    /\ Cardinality(Completed') <= application'.completed + Cardinality(Uncounted("feedback")')
  BY <1>4, CountersFrame DEF CountersHold
<1>5. Undamaged /\ ApplicationOK(application)
  BY <1>4, Undone
<1>6. Uncounted("feedback")' = Uncounted("feedback") \cup {h} /\ h \notin Uncounted("feedback")
  BY <1>1 DEF HandlerStep, Uncounted, At
<1>7. Uncounted("schedule")' = Uncounted("schedule")
  BY <1>1 DEF HandlerStep, Uncounted, At
<1>8. Cardinality(Uncounted("feedback")') = Cardinality(Uncounted("feedback")) + 1
  BY <1>6, Finite, FS_AddElement
<1>9. Cardinality(Completed') <= Cardinality(Completed) + 1 /\ Cardinality(Completed') \in Nat /\ Cardinality(Completed) \in Nat
  BY <1>2, Finite, OneMore
<1>10. Cardinality(Interviews') <= Cardinality(Interviews) /\ Cardinality(Interviews') \in Nat /\ Cardinality(Interviews) \in Nat
  BY <1>2, Finite, FS_Subset, FS_CardinalityType
<1>11. /\ Cardinality(Interviews) <= application.total + Cardinality(Uncounted("schedule"))
       /\ Cardinality(Completed) <= application.completed + Cardinality(Uncounted("feedback"))
  BY <1>5 DEF CountersInv, CountersHold
<1>12. Cardinality(Uncounted("schedule")) \in Nat /\ Cardinality(Uncounted("feedback")) \in Nat
  BY Finite, FS_CardinalityType
<1>13. application.total \in Nat /\ application.completed \in Nat
  BY <1>5 DEF ApplicationOK
<1> QED
  BY <1>1, <1>5, <1>7, <1>8, <1>9, <1>10, <1>11, <1>12, <1>13

LEMMA TallyCounts ==
    ASSUME ChainInv, CountersInv, NEW h \in Requests, TallyInterview(h)
    PROVE  CountersInv'
<1>0. handler[h].step = "tally" /\ UNCHANGED <<faults, interviews>> /\ handler[h].op \in {"schedule", "feedback"}
  BY DEF TallyInterview, CountersInv
<1>1. HandlerStep(h) /\ handler'[h].op = handler[h].op
  BY InterviewStepKeeps DEF InterviewStep
<1>2. handler'[h].step # "tally"
  BY <1>0, InterviewStepKeeps DEF InterviewStep, ScheduleInterview, CompleteInterview, At
<1>3. Interviews' = Interviews /\ Completed' = Completed
  BY <1>0 DEF Interviews, Completed
<1>4. CountersStep(h)
  BY <1>0, <1>1, <1>2, <1>3 DEF CountersStep, CountersInv
<1> SUFFICES ASSUME Undamaged'
             PROVE  /\ ApplicationOK(application')
                    /\ Cardinality(Interviews) <= application'.total + Cardinality(Uncounted("schedule")')
                    /\ Cardinality(Completed) <= application'.completed + Cardinality(Uncounted("feedback")')
  BY <1>3, <1>4, CountersFrame DEF CountersHold
<1>5. Undamaged /\ ApplicationOK(application)
  BY <1>4, Undone
<1>6. /\ Cardinality(Interviews) <= application.total + Cardinality(Uncounted("schedule"))
      /\ Cardinality(Completed) <= application.completed + Cardinality(Uncounted("feedback"))
  BY <1>5 DEF CountersInv, CountersHold
<1>7. /\ Cardinality(Uncounted("schedule")) \in Nat /\ Cardinality(Uncounted("feedback")) \in Nat
      /\ Cardinality(Interviews) \in Nat /\ Cardinality(Completed) \in Nat
  BY Finite, FS_CardinalityType
<1>8. application.total \in Nat /\ application.completed \in Nat
  BY <1>5 DEF ApplicationOK
<1>9. CASE handler[h].op = "schedule"
  <2>1. application' = [application EXCEPT !.total = @ + 1]
    BY <1>9 DEF TallyInterview
  <2>2. /\ ApplicationOK(application')
        /\ application'.total = application.total + 1 /\ application'.completed = application.completed
    BY <1>5, <2>1 DEF ApplicationOK
  <2>3. Uncounted("schedule")' = Uncounted("schedule") \ {h} /\ h \in Uncounted("schedule")
    BY <1>0, <1>1, <1>2, <1>9 DEF HandlerStep, Uncounted, At
  <2>4. Uncounted("feedback")' = Uncounted("feedback")
    BY <1>0, <1>1, <1>2, <1>9 DEF HandlerStep, Uncounted, At
  <2>5. Cardinality(Uncounted("schedule")') = Cardinality(Uncounted("schedule")) - 1
    BY <2>3, Finite, FS_RemoveElement
  <2> QED
    BY <1>6, <1>7, <1>8, <2>2, <2>4, <2>5
<1>10. CASE handler[h].op = "feedback"
  <2>1. application' = [application EXCEPT !.completed = @ + 1]
    BY <1>10 DEF TallyInterview
  <2>2. /\ ApplicationOK(application')
        /\ application'.total = application.total /\ application'.completed = application.completed + 1
    BY <1>5, <2>1 DEF ApplicationOK
  <2>3. Uncounted("feedback")' = Uncounted("feedback") \ {h} /\ h \in Uncounted("feedback")
    BY <1>0, <1>1, <1>2, <1>10 DEF HandlerStep, Uncounted, At
  <2>4. Uncounted("schedule")' = Uncounted("schedule")
    BY <1>0, <1>1, <1>2, <1>10 DEF HandlerStep, Uncounted, At
  <2>5. Cardinality(Uncounted("feedback")') = Cardinality(Uncounted("feedback")) - 1
    BY <2>3, Finite, FS_RemoveElement
  <2> QED
    BY <1>6, <1>7, <1>8, <2>2, <2>4, <2>5
<1> QED
  BY <1>0, <1>9, <1>10

LEMMA CountersInit == IInit => CountersInv
<1> SUFFICES ASSUME IInit
             PROVE  CountersInv
  OBVIOUS
<1> USE DEF IInit, OInit
<1>1. Interviews = {} /\ Completed = {} /\ interviews \in [Requests -> InterviewStatuses]
  BY DEF Interviews, Completed, InterviewStatuses
<1>2. \A h \in Requests : handler[h].step = "idle" /\ handler[h].op = "none"
  BY DEF IdleHandler
<1>3. \A op : Uncounted(op) = {}
  BY <1>2 DEF Uncounted, At
<1>4. ApplicationOK(application) /\ application.total = 0 /\ application.completed = 0
  BY DEF ApplicationOK, NewApplication
<1>5. CountersHold
  BY <1>1, <1>3, <1>4, FS_EmptySet DEF CountersHold
<1> QED
  BY <1>1, <1>2, <1>5 DEF CountersInv

LEMMA CountersKept == ChainInv /\ CountersInv /\ [HNext]_hvars => CountersInv'
<1> SUFFICES ASSUME ChainInv, CountersInv, [HNext]_hvars
             PROVE  CountersInv'
  OBVIOUS
<1>1. CASE UNCHANGED hvars
  <2>1. UNCHANGED <<application, handler, faults, interviews>>
    BY <1>1 DEF hvars, ovars
  <2>2. Interviews' = Interviews /\ Completed' = Completed /\ \A op : Uncounted(op)' = Uncounted(op)
    BY <2>1 DEF Interviews, Completed, Uncounted, At
  <2>3. CountersHold'
    BY <2>1, <2>2 DEF CountersInv, CountersHold, Undamaged
  <2> QED
    BY <2>1, <2>2, <2>3 DEF CountersInv
<1>2. ASSUME NEW h \in Requests, InterviewRequest(h)
      PROVE  CountersInv'
  <2>1. interviews' = interviews
    BY <1>2 DEF InterviewRequest
  <2> QED
    BY <1>2, <2>1, RequestCounts
<1>3. ASSUME NEW h \in Requests, InterviewStep(h)
      PROVE  CountersInv'
  BY <1>3, QuietInterviewCounts, ScheduleCounts, CompleteCounts, TallyCounts DEF InterviewStep
<1>4. ASSUME NEW h \in Requests, Request(h) \/ RequestStep(h) \/ Fault(h), interviews' = interviews
      PROVE  CountersInv'
  BY <1>4, RequestCounts, OfferStepCounts
<1> QED
  BY <1>1, <1>2, <1>3, <1>4 DEF HNext, ONext

\* No interview, and no completed one, is missing from the counters of the application once
\* its requests are answered, in any order of requests (scheduleInterview, submitFeedback).
THEOREM CountersAreComplete == HSpec => []InterviewsAreCounted
<1>1. ChainInv /\ CountersInv => InterviewsAreCounted
  <2> SUFFICES ASSUME ChainInv, CountersInv, Quiet, Undamaged
               PROVE  /\ Cardinality(Interviews) <= application.total
                      /\ Cardinality(Completed) <= application.completed
    BY DEF InterviewsAreCounted, Undamaged, Completed
  <2>1. Uncounted("schedule") = {} /\ Uncounted("feedback") = {}
    BY DEF Quiet, Running, Uncounted, At
  <2>2. /\ Cardinality(Interviews) <= application.total + Cardinality(Uncounted("schedule"))
        /\ Cardinality(Completed) <= application.completed + Cardinality(Uncounted("feedback"))
        /\ application.total \in Nat /\ application.completed \in Nat
    BY DEF CountersInv, CountersHold, ApplicationOK
  <2> QED
    BY <2>1, <2>2, FS_EmptySet
<1>2. IInit => ChainInv /\ CountersInv
  BY ChainInit, CountersInit DEF IInit
<1>3. (ChainInv /\ CountersInv) /\ [HNext]_hvars => (ChainInv /\ CountersInv)'
  BY ChainStep, CountersKept
<1> QED
  BY <1>1, <1>2, <1>3, PTL DEF HSpec
-----------------------------------------------------------------------------
(* Requests in turn *)

OneAtWork == \A g, h \in Requests : Running(g) /\ Running(h) => g = h

\* o is the offer that was made last.
IsTop(o) == o \in Offered /\ \A p \in Offered : p = o \/ offers[p].at < offers[o].at

\* Every other offer is named by one that followed it, so that a foreign key protects it.
Followed == \A o \in Offered : IsTop(o) \/ \E p \in Offered : offers[p].previous = o

SomeAccepted == \E o \in Offered : offers[o].status = "accepted"
NoCallOff == \A h \in Requests : handler[h].op # "calloff"

CurrentIsTop == Offered # {} => IsTop(application.current)
AcceptedIsSome == application.status = "offer_accepted" /\ "offer_accepted" \notin Asked => SomeAccepted
HistoryEnds == Last(application.history) = application.status

\* What holds between requests
AllSettled == CurrentIsTop /\ AcceptedIsSome /\ (NoCallOff => HistoryEnds)

\* While request h is at work, it holds but for what h is about to write.
SettledBut(h) ==
    /\ handler[h].step # "name" => CurrentIsTop
    /\ ~At(h, "cancel", "status") => AcceptedIsSome
    /\ NoCallOff => IF handler[h].step = "history" THEN application.status = NewStatus(h) ELSE HistoryEnds

\* What the only request at work has read is so.
UpToDate(h) ==
    LET s == handler[h] IN
    /\ s.step \in {"latest", "supersede", "insert", "name", "answer", "settle", "save", "status", "move", "history"}
       => s.row.history = application.history
    /\ At(h, "status", "save") => s.row = application
    /\ s.step \in {"supersede", "insert"} => Offered = {} \/ IsTop(s.target)
    /\ s.step = "supersede" => s.target \in Offered /\ offers[s.target].status # "accepted"
    /\ s.step = "answer" => s.target \in Offered /\ offers[s.target].status = "pending"
    /\ s.step = "name" => IsTop(h)
    /\ s.step = "save" /\ s.op # "status" =>
           /\ s.target \in Offered /\ s.offer = offers[s.target]
           /\ s.op \in {"update", "respond"} => s.offer.status = "pending"
    /\ At(h, "accept", "settle") \/ (At(h, "respond", "status") /\ s.arg = "accepted") => SomeAccepted

\* "none" stands for a status that was not chosen yet.
Decisions == {"none", "rejected", "interview_in_progress", "interview_completed", "screening"}

\* The operations that come to a step, and what they may have decided
Fits(s) ==
    /\ s.step \in {"insert", "name"} => s.op \in {"create", "counter"}
    /\ s.step = "supersede" => s.op = "counter"
    /\ s.step \in {"answer", "settle"} => s.op \in {"accept", "reject"}
    /\ s.step = "status" => s.op \in {"cancel", "respond"}
    /\ s.step \in {"decide", "move"} => s.op \in {"feedback", "calloff"}
    /\ s.step = "history" => s.op \notin {"calloff", "status"}
    /\ s.op = "status" /\ s.step \in {"read", "save"} => s.arg \in Asked
    /\ s.next \in Decisions

ApplicationRow(row) ==
    /\ row = [status |-> row.status, history |-> row.history, current |-> row.current,
              total |-> row.total, completed |-> row.completed]
    /\ row.history \in Seq(Statuses \cup Decisions)

TurnInv ==
    /\ ChainInv /\ CountersInv /\ \A h \in Requests : Fits(handler[h])
    /\ Undisturbed =>
           /\ OneAtWork /\ Followed /\ ApplicationRow(application)
           /\ \A h \in Requests : Running(h) => SettledBut(h) /\ UpToDate(h)
           /\ Quiet => AllSettled

TurnStep ==
    /\ TurnInv /\ Turns /\ ChainInv' /\ CountersInv'
    /\ faults' \in Nat /\ faults <= faults'

LEMMA TurnFinds ==
    ASSUME TurnStep, NEW h \in Requests, Running(h), Undisturbed'
    PROVE  /\ ChainInv /\ Followed /\ ApplicationRow(application) /\ SettledBut(h) /\ UpToDate(h)
           /\ Fits(handler[h])
<1> DEFINE b == \E g, k \in Requests : g # k /\ Running(g)' /\ Running(k)'
<1>1. overlapped' = (overlapped \/ b)
  BY DEF TurnStep, Turns
<1> HIDE DEF b
<1>2. ~overlapped
  <2>1. ~(overlapped \/ b)
    BY <1>1, Zenon DEF Undisturbed
  <2> QED
    BY <2>1, Zenon
<1>3. faults = 0
  BY DEF TurnStep, TurnInv, CountersInv, Undisturbed
<1> QED
  BY <1>2, <1>3 DEF TurnStep, TurnInv, Undisturbed

LEMMA TurnAlone ==
    ASSUME TurnStep, NEW h \in Requests, HandlerStep(h), Running(h) \/ handler'[h].step # "done", Undisturbed'
    PROVE  /\ Undisturbed /\ OneAtWork'
           /\ \A g \in Requests \ {h} : ~Running(g) /\ ~Running(g)'
<1> DEFINE b == \E g, k \in Requests : g # k /\ Running(g)' /\ Running(k)'
<1>1. overlapped' = (overlapped \/ b)
  BY DEF TurnStep, Turns
<1>2. ~overlapped /\ ~b
  <2> HIDE DEF b
  <2>1. ~(overlapped \/ b)
    BY <1>1, Zenon DEF Undisturbed
  <2> QED
    BY <2>1, Zenon
<1>3. Undisturbed /\ OneAtWork
  BY <1>2 DEF TurnStep, TurnInv, CountersInv, Undisturbed
<1>4. OneAtWork'
  BY <1>2 DEF OneAtWork
<1>5. \A g \in Requests \ {h} : handler'[g] = handler[g] /\ Running(g)' = Running(g)
  BY DEF HandlerStep, Running
<1>6. \A g \in Requests \ {h} : ~Running(g)
  <2>1. CASE Running(h)
    BY <1>3, <2>1 DEF OneAtWork
  <2>2. CASE handler'[h].step # "done"
    <3>1. Running(h)'
      BY <2>2 DEF Running, HandlerStep
    <3> QED
      BY <1>4, <1>5, <3>1 DEF OneAtWork
  <2> QED
    BY <2>1, <2>2
<1> QED
  BY <1>3, <1>4, <1>5, <1>6

\* What has to be shown of a step of request h
LEMMA TurnMoves ==
    ASSUME TurnStep, NEW h \in Requests, HandlerStep(h), Running(h) \/ handler'[h].step # "done",
           handler'[h].op = handler[h].op \/ handler[h].step = "idle", Fits(handler'[h]),
           Undisturbed' =>
               /\ Followed' /\ ApplicationRow(application')
               /\ handler'[h].step # "name" => CurrentIsTop'
               /\ ~At(h, "cancel", "status")' => AcceptedIsSome'
               /\ NoCallOff => IF handler'[h].step = "history"
                               THEN application'.status = NewStatus(h)' ELSE HistoryEnds'
               /\ UpToDate(h)'
    PROVE  TurnInv'
<1>1. ChainInv' /\ CountersInv' /\ \A g \in Requests : Fits(handler'[g])
  BY DEF TurnStep, TurnInv, HandlerStep
<1>2. NoCallOff' => NoCallOff
  <2> SUFFICES ASSUME NoCallOff', NEW g \in Requests
               PROVE  handler[g].op # "calloff"
    BY DEF NoCallOff
  <2>1. handler'[g].op # "calloff"
    BY DEF NoCallOff
  <2>2. CASE g = h
    BY <2>1, <2>2 DEF TurnStep, TurnInv, CountersInv
  <2>3. CASE g # h
    BY <2>1, <2>3 DEF HandlerStep
  <2> QED
    BY <2>2, <2>3
<1>3. ASSUME Undisturbed'
      PROVE  /\ OneAtWork' /\ Followed' /\ ApplicationRow(application')
             /\ \A g \in Requests : Running(g)' => SettledBut(g)' /\ UpToDate(g)'
             /\ Quiet' => AllSettled'
  <2>1. OneAtWork' /\ \A g \in Requests \ {h} : ~Running(g)'
    BY <1>3, TurnAlone
  <2>2. SettledBut(h)' /\ UpToDate(h)'
    BY <1>2, <1>3 DEF SettledBut
  <2>3. Quiet' => handler'[h].step = "done"
    BY DEF Quiet, Running, HandlerStep
  <2>4. handler'[h].step = "done" => AllSettled'
    BY <2>2 DEF SettledBut, AllSettled, At
  <2> QED
    BY <1>3, <2>1, <2>2, <2>3, <2>4
<1> QED
  BY <1>1, <1>3 DEF TurnInv

LEMMA GotoIs ==
    ASSUME ChainInv, NEW h \in Requests, NEW step, step # "done", Goto(h, step)
    PROVE  /\ handler'[h].step = step /\ handler'[h].op = handler[h].op
           /\ handler'[h].target = handler[h].target /\ handler'[h].arg = handler[h].arg
           /\ handler'[h].row = handler[h].row /\ handler'[h].offer = handler[h].offer
           /\ handler'[h].next = handler[h].next
<1>1. handler'[h] = [handler[h] EXCEPT !.step = step]
  BY DEF ChainInv, HandlerShape, Goto
<1> QED
  BY <1>1 DEF ChainInv, HandlerShape

LEMMA EndIs ==
    ASSUME ChainInv, NEW h \in Requests, End(h)
    PROVE  /\ HandlerStep(h) /\ handler'[h].step = "done" /\ handler'[h].op = handler[h].op
           /\ handler'[h].next = "none"
<1>1. handler'[h] = [IdleHandler EXCEPT !.op = handler[h].op, !.step = "done"]
  BY DEF ChainInv, HandlerShape, End
<1>2. handler'[h].next = "none"
  BY <1>1 DEF IdleHandler
<1> QED
  BY <1>2, EndKeeps

LEMMA StatusKept ==
    ASSUME NEW h, handler'[h].op = handler[h].op, handler'[h].arg = handler[h].arg,
           handler'[h].next = handler[h].next
    PROVE  NewStatus(h)' = NewStatus(h)
BY DEF NewStatus

LEMMA StatusIs ==
    ASSUME NEW h, Fits(handler[h]), handler[h].op = "status" => handler[h].step \in {"read", "save"}
    PROVE  /\ NewStatus(h) \in Statuses \cup Decisions
           /\ NewStatus(h) = "offer_accepted" =>
                  \/ handler[h].op = "accept"
                  \/ handler[h].op = "respond" /\ handler[h].arg = "accepted"
                  \/ "offer_accepted" \in Asked
<1>1. PICK op, arg, next : op = handler[h].op /\ arg = handler[h].arg /\ next = handler[h].next
  OBVIOUS
<1>2. /\ next \in Decisions
      /\ op = "status" => arg \in Asked
  BY <1>1 DEF Fits
<1>3. CASE op = "respond"
  <2>1. /\ arg = "accepted" => NewStatus(h) = "offer_accepted"
        /\ arg = "rejected" => NewStatus(h) = "offer_rejected"
        /\ arg \notin {"accepted", "rejected"} => NewStatus(h) = "negotiating"
    BY <1>1, <1>3 DEF NewStatus
  <2>2. NewStatus(h) \in {"offer_accepted", "offer_rejected", "negotiating"}
    BY <2>1
  <2>3. NewStatus(h) \in Statuses \cup Decisions
    BY <2>2 DEF Statuses, Decisions
  <2>4. NewStatus(h) = "offer_accepted" => arg = "accepted"
    BY <2>1
  <2> QED
    BY <1>1, <1>3, <2>3, <2>4
<1>4. CASE op = "status"
  <2>1. NewStatus(h) = arg
    BY <1>1, <1>4 DEF NewStatus
  <2> QED
    BY <1>1, <1>2, <1>4, <2>1 DEF Statuses
<1>5. CASE op \notin {"respond", "status"}
  <2>1. /\ op = "create" => NewStatus(h) = "offer_sent"
        /\ op = "counter" => NewStatus(h) = "negotiating"
        /\ op = "accept" => NewStatus(h) = "offer_accepted"
        /\ op = "reject" => NewStatus(h) = "offer_rejected"
        /\ op = "cancel" => NewStatus(h) = "offer_pending"
    BY <1>1 DEF NewStatus
  <2>2. op \notin {"create", "counter", "accept", "reject", "cancel"} => NewStatus(h) = next
    BY <1>1, <1>5 DEF NewStatus
  <2>3. NewStatus(h) \in {"offer_sent", "negotiating", "offer_accepted", "offer_rejected", "offer_pending", "none",
                           "rejected", "interview_in_progress", "interview_completed", "screening"}
    BY <1>2, <2>1, <2>2 DEF Decisions
  <2>4. NewStatus(h) \in Statuses \cup Decisions
    BY <2>3 DEF Statuses, Decisions
  <2>5. NewStatus(h) = "offer_accepted" => op = "accept"
    BY <1>2, <2>1, <2>2 DEF Decisions
  <2> QED
    BY <1>1, <2>4, <2>5
<1> QED
  BY <1>3, <1>4, <1>5

LEMMA Appended ==
    ASSUME NEW S, NEW seq \in Seq(S), NEW x \in S
    PROVE  Append(seq, x) \in Seq(S) /\ Last(Append(seq, x)) = x
<1>1. /\ Append(seq, x) \in Seq(S) /\ Len(Append(seq, x)) = Len(seq) + 1
      /\ Append(seq, x)[Len(seq) + 1] = x
  OBVIOUS
<1> QED
  BY <1>1 DEF Last

\* A request that ends
LEMMA TurnEnds ==
    ASSUME TurnStep, NEW h \in Requests, Running(h), End(h),
           Undisturbed' =>
               /\ Followed' /\ ApplicationRow(application')
               /\ CurrentIsTop' /\ AcceptedIsSome' /\ (NoCallOff => HistoryEnds')
    PROVE  TurnInv'
<1>1. /\ HandlerStep(h) /\ handler'[h].step = "done" /\ handler'[h].op = handler[h].op
      /\ handler'[h].next = "none"
  BY EndIs DEF TurnStep, TurnInv
<1>2. Fits(handler'[h]) /\ UpToDate(h)'
  BY <1>1 DEF Fits, UpToDate, At, Decisions
<1> QED
  BY <1>1, <1>2, TurnMoves

\* The table as it was, but for statuses
Kept ==
    /\ Offered' = Offered
    /\ \A o \in Offered : offers'[o].at = offers[o].at /\ offers'[o].previous = offers[o].previous

LEMMA TableKept == ASSUME Kept PROVE Followed' = Followed /\ \A o : IsTop(o)' = IsTop(o)
<1>1. \A o : IsTop(o)' = IsTop(o)
  BY DEF Kept, IsTop
<1>2. Followed' = Followed
  BY <1>1 DEF Kept, Followed
<1> QED
  BY <1>1, <1>2

LEMMA SameTable ==
    ASSUME offers' = offers
    PROVE  Kept /\ Offered' = Offered /\ SomeAccepted' = SomeAccepted /\ AcceptedStays
BY DEF Kept, Offered, SomeAccepted, AcceptedStays

\* Nothing is written.
LEMMA SameRows ==
    ASSUME UNCHANGED <<offers, application>>
    PROVE  /\ Offered' = Offered /\ Followed' = Followed /\ CurrentIsTop' = CurrentIsTop
           /\ AcceptedIsSome' = AcceptedIsSome /\ HistoryEnds' = HistoryEnds /\ SomeAccepted' = SomeAccepted
           /\ ApplicationRow(application') = ApplicationRow(application) /\ AcceptedStays
           /\ \A o : IsTop(o)' = IsTop(o)
<1>1. /\ Offered' = Offered /\ SomeAccepted' = SomeAccepted /\ AcceptedStays
      /\ Followed' = Followed /\ \A o : IsTop(o)' = IsTop(o)
  BY SameTable, TableKept
<1> QED
  BY <1>1 DEF CurrentIsTop, AcceptedIsSome, HistoryEnds

LEMMA TurnStarts ==
    ASSUME TurnStep, NEW h \in Requests, Request(h) \/ InterviewRequest(h)
    PROVE  TurnInv' /\ AcceptedStays
<1>1. PICK op, u, target, arg : Starts(h, op, u, target, arg) /\ (op = "status" => arg \in Asked)
  BY DEF Request, Create, Counter, Accept, Reject, Respond, Update, Delete, Cancel, AskStatus,
         InterviewRequest, Schedule, Feedback, Reschedule, Unschedule, CallOff
<1>2. HandlerStep(h) /\ UNCHANGED <<offers, application>>
  BY RequestKeeps, InterviewRequestKeeps DEF Request, InterviewRequest, TurnStep, TurnInv
<1>3. handler'[h] = [IdleHandler EXCEPT !.op = op, !.step = "read", !.user = u, !.target = target, !.arg = arg]
  BY <1>1 DEF Starts, TurnStep, TurnInv, ChainInv, HandlerShape
<1>4. /\ handler'[h].step = "read" /\ handler'[h].op = op /\ handler'[h].arg = arg
      /\ handler'[h].next = "none" /\ handler[h].step = "idle"
  <2>1. PICK s : s = [IdleHandler EXCEPT !.op = op, !.step = "read", !.user = u, !.target = target, !.arg = arg]
    OBVIOUS
  <2>2. s.step = "read" /\ s.op = op /\ s.arg = arg
    BY <2>1 DEF IdleHandler
  <2>3. s.next = "none"
    BY <2>1 DEF IdleHandler
  <2> QED
    BY <1>1, <1>3, <2>1, <2>2, <2>3 DEF Starts
<1>5. Fits(handler'[h]) /\ UpToDate(h)'
  BY <1>1, <1>4 DEF Fits, UpToDate, At, Decisions
<1>6. ASSUME Undisturbed' PROVE Followed /\ ApplicationRow(application) /\ AllSettled
  <2>1. Undisturbed /\ \A g \in Requests \ {h} : ~Running(g)
    BY <1>2, <1>4, <1>6, TurnAlone
  <2>2. Quiet
    BY <1>4, <2>1 DEF Quiet, Running
  <2> QED
    BY <2>1, <2>2 DEF TurnStep, TurnInv
<1> QED
  BY <1>2, <1>4, <1>5, <1>6, SameRows, TurnMoves DEF AllSettled

\* What a request keeps when it reads
RowRead(h, row, step) == handler' = [handler EXCEPT ![h].row = row, ![h].step = step]

LEMMA ReadsRow ==
    ASSUME ChainInv, NEW h \in Requests, NEW row, NEW step, RowRead(h, row, step)
    PROVE  /\ handler'[h].step = step /\ handler'[h].op = handler[h].op
           /\ handler'[h].target = handler[h].target /\ handler'[h].arg = handler[h].arg
           /\ handler'[h].row = row /\ handler'[h].next = handler[h].next
<1>1. PICK s : s = [handler[h] EXCEPT !.row = row, !.step = step]
  OBVIOUS
<1>2. handler'[h] = s
  BY <1>1 DEF RowRead, ChainInv, HandlerShape
<1>3. /\ s.step = step /\ s.op = handler[h].op /\ s.target = handler[h].target
      /\ s.arg = handler[h].arg /\ s.next = handler[h].next
  BY <1>1 DEF ChainInv, HandlerShape
<1>4. s.row = row
  BY <1>1 DEF ChainInv, HandlerShape
<1> QED
  BY <1>2, <1>3, <1>4

LEMMA TurnReadsApplication ==
    ASSUME TurnStep, NEW h \in Requests, ReadApplication(h)
    PROVE  TurnInv' /\ AcceptedStays
<1>1. PICK op : op = handler[h].op
  OBVIOUS
<1>2. /\ Running(h) /\ handler[h].step = "read" /\ UNCHANGED <<offers, application>>
      /\ op \in {"create", "counter", "accept", "reject", "status"}
  BY <1>1 DEF ReadApplication, Running
<1>3. Undisturbed' => /\ Followed /\ ApplicationRow(application) /\ CurrentIsTop /\ AcceptedIsSome
                      /\ (NoCallOff => HistoryEnds)
  BY <1>2, TurnFinds DEF SettledBut, At
<1>4. AcceptedStays
  BY <1>2, SameRows
<1>5. CASE End(h)
  BY <1>2, <1>3, <1>4, <1>5, SameRows, TurnEnds
<1>6. CASE ~End(h)
  <2>1. PICK step \in {"save", "latest"} :
            /\ RowRead(h, application, step)
            /\ step = "save" => op = "status"
            /\ step = "latest" => op # "status"
    BY <1>1, <1>6 DEF ReadApplication, RowRead
  <2>2. /\ handler'[h].step = step /\ handler'[h].op = op /\ handler'[h].arg = handler[h].arg
        /\ handler'[h].row = application /\ handler'[h].next = handler[h].next
    BY <1>1, <2>1, ReadsRow DEF TurnStep, TurnInv
  <2>3. HandlerStep(h)
    BY ReadKeeps DEF TurnStep, TurnInv
  <2>4. Fits(handler'[h])
    BY <1>1, <1>2, <2>1, <2>2 DEF TurnStep, TurnInv, Fits
  <2>5. UpToDate(h)'
    BY <1>2, <2>1, <2>2 DEF UpToDate, At
  <2> QED
    BY <1>1, <1>2, <1>3, <1>4, <2>1, <2>2, <2>3, <2>4, <2>5, SameRows, TurnMoves DEF At
<1> QED
  BY <1>5, <1>6

LatestRead(h, step, target, offer) ==
    handler' = [handler EXCEPT ![h].step = step, ![h].target = target, ![h].offer = offer]

LEMMA ReadsLatest ==
    ASSUME ChainInv, NEW h \in Requests, NEW step, NEW target, NEW offer, LatestRead(h, step, target, offer)
    PROVE  /\ handler'[h].step = step /\ handler'[h].op = handler[h].op
           /\ handler'[h].target = target /\ handler'[h].arg = handler[h].arg
           /\ handler'[h].row = handler[h].row /\ handler'[h].next = handler[h].next
<1>1. PICK s : s = [handler[h] EXCEPT !.step = step, !.target = target, !.offer = offer]
  OBVIOUS
<1>2. handler'[h] = s
  BY <1>1 DEF LatestRead, ChainInv, HandlerShape
<1>3. /\ s.step = step /\ s.op = handler[h].op /\ s.target = target
      /\ s.arg = handler[h].arg /\ s.row = handler[h].row /\ s.next = handler[h].next
  BY <1>1 DEF ChainInv, HandlerShape
<1> QED
  BY <1>2, <1>3

LEMMA TopIsLatest ==
    ASSUME ChainInv, NEW o, IsTop(o)
    PROVE  Offered # {} /\ Latest = o
<1>1. Offered # {} /\ o \in Offered
  BY DEF IsTop
<1>2. Latest \in Offered /\ offers[o].at <= offers[Latest].at
  BY <1>1, LatestIs
<1>3. offers[o].at \in Nat /\ offers[Latest].at \in Nat
  BY <1>1, <1>2 DEF ChainInv, Offered, OfferRow
<1> QED
  BY <1>1, <1>2, <1>3 DEF IsTop

LEMMA TurnReadsLatest ==
    ASSUME TurnStep, NEW h \in Requests, ReadLatest(h)
    PROVE  TurnInv' /\ AcceptedStays
<1>1. PICK op, u : op = handler[h].op /\ u = handler[h].user
  OBVIOUS
<1>2. Running(h) /\ handler[h].step = "latest" /\ UNCHANGED <<offers, application>>
  BY DEF ReadLatest, Running
<1>3. Undisturbed' => /\ Followed /\ ApplicationRow(application) /\ CurrentIsTop /\ AcceptedIsSome
                      /\ (NoCallOff => HistoryEnds) /\ handler[h].row.history = application.history
  BY <1>2, TurnFinds DEF SettledBut, UpToDate, At
<1>4. AcceptedStays
  BY <1>2, SameRows
<1>5. CASE End(h)
  BY <1>2, <1>3, <1>4, <1>5, SameRows, TurnEnds
<1>6. CASE ~End(h)
  <2>1. PICK step, target, offer :
            /\ LatestRead(h, step, target, offer)
            /\ Offered # {} => target = Latest
            /\ \/ step = "insert" /\ op = "create"
               \/ step = "supersede" /\ op = "counter" /\ Offered # {} /\ AllowsCounter(offers[Latest], u)
               \/ step = "answer" /\ op \in {"accept", "reject"} /\ Offered # {} /\ AllowsAnswer(offers[Latest], u)
    <3> DEFINE found == Offered # {}
               next == CASE handler[h].op = "create" -> "insert"
                         [] handler[h].op = "counter" /\ found /\ AllowsCounter(offers[Latest], u) -> "supersede"
                         [] handler[h].op \in {"accept", "reject"} /\ found
                                /\ AllowsAnswer(offers[Latest], u) -> "answer"
                         [] OTHER -> "done"
    <3>1. \/ next = "insert" /\ op = "create"
          \/ next = "supersede" /\ op = "counter" /\ Offered # {} /\ AllowsCounter(offers[Latest], u)
          \/ next = "answer" /\ op \in {"accept", "reject"} /\ Offered # {} /\ AllowsAnswer(offers[Latest], u)
          \/ next = "done"
      BY <1>1
    <3>2. IF next = "done" THEN End(h)
          ELSE handler' = [handler EXCEPT
                   ![h].step = next,
                   ![h].target = IF found THEN Latest ELSE NoOffer,
                   ![h].offer = IF found THEN offers[Latest] ELSE NoOffer]
      BY <1>1 DEF ReadLatest
    <3>3. PICK target, offer :
              /\ next # "done" => LatestRead(h, next, target, offer)
              /\ Offered # {} => target = Latest
      <4> DEFINE target == IF found THEN Latest ELSE NoOffer
                 offer == IF found THEN offers[Latest] ELSE NoOffer
      <4>1. next # "done" => LatestRead(h, next, target, offer)
        BY <3>2 DEF LatestRead
      <4>2. Offered # {} => target = Latest
        OBVIOUS
      <4> HIDE DEF next, target, offer
      <4> QED
        BY <4>1, <4>2
    <3>4. next = "done" => End(h)
      BY <3>2
    <3> HIDE DEF next
    <3> QED
      BY <1>6, <3>1, <3>3, <3>4
  <2>2. /\ handler'[h].step = step /\ handler'[h].op = op /\ handler'[h].arg = handler[h].arg
        /\ handler'[h].target = target /\ handler'[h].row = handler[h].row /\ handler'[h].next = handler[h].next
    BY <1>1, <2>1, ReadsLatest DEF TurnStep, TurnInv
  <2>3. HandlerStep(h)
    BY ReadKeeps DEF TurnStep, TurnInv
  <2>4. Fits(handler'[h])
    BY <1>1, <2>1, <2>2 DEF TurnStep, TurnInv, Fits
  <2>5. ASSUME Undisturbed' PROVE UpToDate(h)'
    <3>1. Offered # {} => IsTop(target) /\ target \in Offered
      <4>1. Offered # {} => IsTop(application.current) /\ Latest = application.current
        BY <1>3, <2>5, TopIsLatest DEF CurrentIsTop, TurnStep, TurnInv
      <4> QED
        BY <2>1, <4>1 DEF IsTop
    <3>2. step = "supersede" => offers[target].status # "accepted"
      BY <2>1 DEF AllowsCounter, IsActive
    <3>3. step = "answer" => offers[target].status = "pending"
      BY <2>1 DEF AllowsAnswer
    <3>4. Offered' = Offered /\ \A o : IsTop(o)' = IsTop(o)
      BY <1>2, SameRows
    <3> QED
      BY <1>2, <1>3, <2>1, <2>2, <2>5, <3>1, <3>2, <3>3, <3>4 DEF UpToDate, At
  <2> QED
    BY <1>1, <1>2, <1>3, <1>4, <2>1, <2>2, <2>3, <2>4, <2>5, SameRows, TurnMoves DEF At
<1> QED
  BY <1>5, <1>6

BothRead(h, offer, row) ==
    handler' = [handler EXCEPT ![h].step = "save", ![h].offer = offer, ![h].row = row]

LEMMA ReadsBoth ==
    ASSUME ChainInv, NEW h \in Requests, NEW offer, NEW row, BothRead(h, offer, row)
    PROVE  /\ handler'[h].step = "save" /\ handler'[h].op = handler[h].op
           /\ handler'[h].target = handler[h].target /\ handler'[h].arg = handler[h].arg
           /\ handler'[h].row = row /\ handler'[h].offer = offer /\ handler'[h].next = handler[h].next
<1>1. PICK s : s = [handler[h] EXCEPT !.step = "save", !.offer = offer, !.row = row]
  OBVIOUS
<1>2. handler'[h] = s
  BY <1>1 DEF BothRead, ChainInv, HandlerShape
<1>3. /\ s.step = "save" /\ s.op = handler[h].op /\ s.target = handler[h].target
      /\ s.arg = handler[h].arg /\ s.next = handler[h].next
  BY <1>1 DEF ChainInv, HandlerShape
<1>4. s.row = row
  BY <1>1 DEF ChainInv, HandlerShape
<1>5. s.offer = offer
  BY <1>1 DEF ChainInv, HandlerShape
<1> QED
  BY <1>2, <1>3, <1>4, <1>5

LEMMA TurnReadsOffer ==
    ASSUME TurnStep, NEW h \in Requests, ReadOffer(h)
    PROVE  TurnInv' /\ AcceptedStays
<1>1. PICK op, o : op = handler[h].op /\ o = handler[h].target
  OBVIOUS
<1>2. /\ Running(h) /\ handler[h].step = "read" /\ UNCHANGED <<offers, application>>
      /\ op \in {"update", "delete", "cancel", "respond"}
  BY <1>1 DEF ReadOffer, Running
<1>3. Undisturbed' => /\ Followed /\ ApplicationRow(application) /\ CurrentIsTop /\ AcceptedIsSome
                      /\ (NoCallOff => HistoryEnds)
  BY <1>2, TurnFinds DEF SettledBut, At
<1>4. AcceptedStays
  BY <1>2, SameRows
<1>5. CASE End(h)
  BY <1>2, <1>3, <1>4, <1>5, SameRows, TurnEnds
<1>6. CASE ~End(h)
  <2>1. /\ BothRead(h, offers[o], application)
        /\ o \in Offered /\ Allows(h, offers[o])
    BY <1>1, <1>6 DEF ReadOffer, BothRead
  <2>2. /\ handler'[h].step = "save" /\ handler'[h].op = op /\ handler'[h].arg = handler[h].arg
        /\ handler'[h].target = o /\ handler'[h].row = application /\ handler'[h].offer = offers[o]
        /\ handler'[h].next = handler[h].next
    BY <1>1, <2>1, ReadsBoth DEF TurnStep, TurnInv
  <2>3. HandlerStep(h)
    BY ReadKeeps DEF TurnStep, TurnInv
  <2>4. Fits(handler'[h])
    BY <1>1, <1>2, <2>2 DEF TurnStep, TurnInv, Fits
  <2>5. op \in {"update", "respond"} => offers[o].status = "pending"
    BY <1>1, <2>1 DEF Allows
  <2>6. UpToDate(h)'
    <3>1. Offered' = Offered /\ offers' = offers /\ application' = application
      BY <1>2, SameRows
    <3> QED
      BY <1>2, <2>1, <2>2, <2>5, <3>1 DEF UpToDate, At
  <2> QED
    BY <1>1, <1>2, <1>3, <1>4, <2>2, <2>3, <2>4, <2>6, SameRows, TurnMoves DEF At
<1> QED
  BY <1>5, <1>6

\* An offer's status is set.
LEMMA SetOfferIs ==
    ASSUME ChainInv, NEW o, o \in Offered, NEW status, status \in OfferStatuses, SetOffer(o, status)
    PROVE  /\ Kept /\ Offered' = Offered /\ offers'[o].status = status
           /\ \A p \in Offered \ {o} : offers'[p] = offers[p]
           /\ \A p \in Offered : offers'[p] # NoOffer
           /\ offers[o].status # "accepted" => AcceptedStays /\ (SomeAccepted => SomeAccepted')
<1>1. o \in Requests /\ offers[o] \in OfferRow
  BY DEF ChainInv, Offered
<1>2. PICK row : row = [offers[o] EXCEPT !.status = status]
  OBVIOUS
<1>3. row \in OfferRow /\ row.status = status /\ row.at = offers[o].at /\ row.previous = offers[o].previous
  BY <1>1, <1>2 DEF OfferRow
<1>4. /\ offers'[o] = row /\ \A p \in Requests \ {o} : offers'[p] = offers[p]
      /\ row # NoOffer
  BY <1>1, <1>2, <1>3, OfferAssumption DEF SetOffer, ChainInv
<1>5. Offered' = Offered
  BY <1>1, <1>4 DEF Offered
<1>6. Kept
  BY <1>3, <1>4, <1>5 DEF Kept, Offered
<1>7. \A p \in Offered : offers'[p] # NoOffer
  BY <1>5 DEF Offered
<1>8. \A p \in Offered \ {o} : offers'[p] = offers[p]
  BY <1>4 DEF Offered
<1>9. offers[o].status # "accepted" => AcceptedStays /\ (SomeAccepted => SomeAccepted')
  BY <1>5, <1>7, <1>8 DEF AcceptedStays, SomeAccepted
<1> QED
  BY <1>3, <1>4, <1>5, <1>6, <1>7, <1>8, <1>9

LEMMA TurnSupersedes ==
    ASSUME TurnStep, NEW h \in Requests, Supersede(h)
    PROVE  TurnInv' /\ (Undisturbed' => AcceptedStays)
<1>1. PICK o : o = handler[h].target
  OBVIOUS
<1>2. /\ Running(h) /\ At(h, "counter", "supersede") /\ SetOffer(o, "rejected") /\ Goto(h, "insert")
      /\ application' = application
  BY <1>1 DEF Supersede, At, Running
<1>3. ChainInv
  BY DEF TurnStep, TurnInv
<1>4. HandlerStep(h)
  BY <1>3, WriteKeeps
<1>5. /\ handler'[h].step = "insert" /\ handler'[h].op = "counter" /\ handler'[h].target = o
      /\ handler'[h].row = handler[h].row /\ handler'[h].next = handler[h].next
  BY <1>1, <1>2, <1>3, GotoIs DEF At
<1>6. Fits(handler'[h])
  BY <1>5 DEF TurnStep, TurnInv, Fits
<1>7. ASSUME Undisturbed'
      PROVE  /\ Followed' /\ ApplicationRow(application') /\ CurrentIsTop' /\ AcceptedIsSome'
             /\ (NoCallOff => HistoryEnds') /\ UpToDate(h)' /\ AcceptedStays
  <2>1. /\ Followed /\ ApplicationRow(application) /\ CurrentIsTop /\ AcceptedIsSome
        /\ (NoCallOff => HistoryEnds) /\ handler[h].row.history = application.history
        /\ o \in Offered /\ offers[o].status # "accepted" /\ IsTop(o)
    BY <1>1, <1>2, <1>7, TurnFinds DEF SettledBut, UpToDate, At
  <2>2. Kept /\ Offered' = Offered /\ AcceptedStays /\ (SomeAccepted => SomeAccepted')
    BY <1>2, <1>3, <2>1, SetOfferIs DEF OfferStatuses
  <2>3. Followed' /\ \A p : IsTop(p)' = IsTop(p)
    BY <2>1, <2>2, TableKept
  <2>4. UpToDate(h)'
    BY <1>2, <1>5, <2>1, <2>3 DEF UpToDate, At
  <2> QED
    BY <1>2, <2>1, <2>2, <2>3, <2>4 DEF CurrentIsTop, AcceptedIsSome, HistoryEnds
<1> QED
  BY <1>2, <1>4, <1>5, <1>6, <1>7, TurnMoves DEF At

LEMMA TurnAnswers ==
    ASSUME TurnStep, NEW h \in Requests, AnswerOffer(h)
    PROVE  TurnInv' /\ (Undisturbed' => AcceptedStays)
<1>1. PICK o, op : o = handler[h].target /\ op = handler[h].op
  OBVIOUS
<1>2. /\ Running(h) /\ handler[h].step = "answer" /\ Goto(h, "settle") /\ application' = application
      /\ SetOffer(o, IF op = "accept" THEN "accepted" ELSE "rejected")
  BY <1>1 DEF AnswerOffer, Running
<1>3. ChainInv
  BY DEF TurnStep, TurnInv
<1>4. HandlerStep(h)
  BY <1>3, WriteKeeps
<1>5. /\ handler'[h].step = "settle" /\ handler'[h].op = op
      /\ handler'[h].row = handler[h].row /\ handler'[h].next = handler[h].next
  BY <1>1, <1>2, <1>3, GotoIs
<1>6. Fits(handler'[h])
  BY <1>1, <1>2, <1>5 DEF TurnStep, TurnInv, Fits
<1>7. ASSUME Undisturbed'
      PROVE  /\ Followed' /\ ApplicationRow(application') /\ CurrentIsTop' /\ AcceptedIsSome'
             /\ (NoCallOff => HistoryEnds') /\ UpToDate(h)' /\ AcceptedStays
  <2>1. /\ Followed /\ ApplicationRow(application) /\ CurrentIsTop /\ AcceptedIsSome
        /\ (NoCallOff => HistoryEnds) /\ handler[h].row.history = application.history
        /\ o \in Offered /\ offers[o].status = "pending"
    BY <1>1, <1>2, <1>7, TurnFinds DEF SettledBut, UpToDate, At
  <2>2. PICK status : status = IF op = "accept" THEN "accepted" ELSE "rejected"
    OBVIOUS
  <2>3. /\ Kept /\ Offered' = Offered /\ AcceptedStays /\ (SomeAccepted => SomeAccepted')
        /\ offers'[o].status = status
    BY <1>2, <1>3, <2>1, <2>2, SetOfferIs DEF OfferStatuses
  <2>4. Followed' /\ \A p : IsTop(p)' = IsTop(p)
    BY <2>1, <2>3, TableKept
  <2>5. op = "accept" => SomeAccepted'
    BY <2>1, <2>2, <2>3 DEF SomeAccepted
  <2>6. UpToDate(h)'
    BY <1>2, <1>5, <2>1, <2>5 DEF UpToDate, At
  <2> QED
    BY <1>2, <2>1, <2>3, <2>4, <2>6 DEF CurrentIsTop, AcceptedIsSome, HistoryEnds
<1> QED
  BY <1>1, <1>2, <1>4, <1>5, <1>6, <1>7, TurnMoves DEF At

LEMMA TurnResponds ==
    ASSUME TurnStep, NEW h \in Requests, RespondOffer(h)
    PROVE  TurnInv' /\ (Undisturbed' => AcceptedStays)
<1>1. PICK o, arg : o = handler[h].target /\ arg = handler[h].arg
  OBVIOUS
<1>2. /\ Running(h) /\ At(h, "respond", "save") /\ SetOffer(o, arg) /\ application' = application
      /\ Goto(h, "status") \/ (End(h) /\ arg # "accepted")
  BY <1>1 DEF RespondOffer, At, Running, Goto
<1>3. ChainInv /\ arg \in OfferStatuses
  BY <1>1, <1>2 DEF TurnStep, TurnInv, ChainInv, HandlerOK, OfferStatuses, At
<1>4. ASSUME Undisturbed'
      PROVE  /\ Followed' /\ ApplicationRow(application') /\ CurrentIsTop' /\ AcceptedIsSome'
             /\ (NoCallOff => HistoryEnds') /\ AcceptedStays
             /\ handler[h].row.history = application'.history /\ (arg = "accepted" => SomeAccepted')
  <2>1. /\ Followed /\ ApplicationRow(application) /\ CurrentIsTop /\ AcceptedIsSome
        /\ (NoCallOff => HistoryEnds) /\ handler[h].row.history = application.history
        /\ o \in Offered /\ offers[o].status = "pending"
    BY <1>1, <1>2, <1>4, TurnFinds DEF SettledBut, UpToDate, At
  <2>2. /\ Kept /\ Offered' = Offered /\ AcceptedStays /\ (SomeAccepted => SomeAccepted')
        /\ offers'[o].status = arg
    BY <1>2, <1>3, <2>1, SetOfferIs
  <2>3. Followed' /\ \A p : IsTop(p)' = IsTop(p)
    BY <2>1, <2>2, TableKept
  <2>4. arg = "accepted" => SomeAccepted'
    BY <2>1, <2>2 DEF SomeAccepted
  <2> QED
    BY <1>2, <2>1, <2>2, <2>3, <2>4 DEF CurrentIsTop, AcceptedIsSome, HistoryEnds
<1>5. CASE End(h)
  BY <1>2, <1>4, <1>5, TurnEnds
<1>6. CASE Goto(h, "status")
  <2>1. /\ handler'[h].step = "status" /\ handler'[h].op = "respond" /\ handler'[h].arg = arg
        /\ handler'[h].row = handler[h].row /\ handler'[h].next = handler[h].next
    BY <1>1, <1>2, <1>3, <1>6, GotoIs DEF At
  <2>2. HandlerStep(h)
    BY <1>3, WriteKeeps
  <2>3. Fits(handler'[h])
    BY <2>1 DEF TurnStep, TurnInv, Fits
  <2>4. Undisturbed' => UpToDate(h)'
    BY <1>4, <2>1 DEF UpToDate, At
  <2> QED
    BY <1>2, <1>4, <2>1, <2>2, <2>3, <2>4, TurnMoves DEF At
<1> QED
  BY <1>2, <1>5, <1>6

LEMMA TurnUpdates ==
    ASSUME TurnStep, NEW h \in Requests, UpdateOffer(h)
    PROVE  TurnInv' /\ (Undisturbed' => AcceptedStays)
<1>1. PICK o, t : o = handler[h].target /\ t = (handler[h].arg = "negotiable")
  OBVIOUS
<1>2. /\ Running(h) /\ At(h, "update", "save") /\ End(h) /\ application' = application
      /\ o \in Offered => offers' = [offers EXCEPT ![o].negotiable = t]
  BY <1>1 DEF UpdateOffer, At, Running
<1>3. ChainInv
  BY DEF TurnStep, TurnInv
<1>4. ASSUME Undisturbed'
      PROVE  /\ Followed' /\ ApplicationRow(application') /\ CurrentIsTop' /\ AcceptedIsSome'
             /\ (NoCallOff => HistoryEnds') /\ AcceptedStays
  <2>1. /\ Followed /\ ApplicationRow(application) /\ CurrentIsTop /\ AcceptedIsSome
        /\ (NoCallOff => HistoryEnds) /\ o \in Offered
    BY <1>1, <1>2, <1>4, TurnFinds DEF SettledBut, UpToDate, At
  <2>2. o \in Requests /\ offers[o] \in OfferRow
    BY <1>3, <2>1 DEF ChainInv, Offered
  <2>3. PICK row : row = [offers[o] EXCEPT !.negotiable = t]
    OBVIOUS
  <2>4. /\ row.status = offers[o].status /\ row.at = offers[o].at /\ row.previous = offers[o].previous
        /\ row \in OfferRow
    <3>1. t \in BOOLEAN
      BY <1>1
    <3> QED
      BY <2>2, <2>3, <3>1 DEF OfferRow
  <2>5. offers'[o] = row /\ row # NoOffer /\ \A p \in Requests \ {o} : offers'[p] = offers[p]
    BY <1>2, <1>3, <2>1, <2>2, <2>3, <2>4, OfferAssumption DEF ChainInv
  <2>6. Kept /\ Offered' = Offered /\ \A p \in Offered : offers'[p].status = offers[p].status /\ offers'[p] # NoOffer
    <3>1. \A p : p \in Offered <=> p \in Requests /\ offers[p] # NoOffer
      BY DEF Offered
    <3>2. \A p : p \in Offered' <=> p \in Requests /\ offers'[p] # NoOffer
      BY DEF Offered
    <3>3. Offered' = Offered
      BY <2>1, <2>2, <2>5, <3>1, <3>2
    <3> QED
      BY <2>4, <2>5, <3>1, <3>2, <3>3 DEF Kept
  <2>7. Followed' /\ (\A p : IsTop(p)' = IsTop(p)) /\ SomeAccepted' = SomeAccepted /\ AcceptedStays
    BY <2>1, <2>6, TableKept DEF SomeAccepted, AcceptedStays
  <2> QED
    BY <1>2, <2>1, <2>6, <2>7 DEF CurrentIsTop, AcceptedIsSome, HistoryEnds
<1> QED
  BY <1>2, <1>4, TurnEnds

\* No offer is deleted: each is named by the application or by the one that followed it.
LEMMA TurnDeletes ==
    ASSUME TurnStep, NEW h \in Requests, DeleteOffer(h)
    PROVE  TurnInv' /\ (Undisturbed' => AcceptedStays)
<1>1. PICK o : o = handler[h].target
  OBVIOUS
<1>2. /\ Running(h) /\ At(h, "delete", "save") /\ End(h) /\ application' = application
      /\ Referred(o) => offers' = offers
  BY <1>1 DEF DeleteOffer, At, Running
<1>3. ASSUME Undisturbed'
      PROVE  /\ Followed /\ ApplicationRow(application) /\ CurrentIsTop /\ AcceptedIsSome
             /\ (NoCallOff => HistoryEnds) /\ Referred(o)
  <2>1. /\ ChainInv /\ Followed /\ ApplicationRow(application) /\ CurrentIsTop /\ AcceptedIsSome
        /\ (NoCallOff => HistoryEnds) /\ o \in Offered
    BY <1>1, <1>2, <1>3, TurnFinds DEF SettledBut, UpToDate, At
  <2>2. CASE IsTop(o)
    <3>1. Latest = o /\ Latest = application.current
      BY <2>1, <2>2, TopIsLatest DEF CurrentIsTop
    <3> QED
      BY <2>1, <3>1 DEF Referred
  <2>3. CASE ~IsTop(o)
    BY <2>1, <2>3 DEF Followed, Referred
  <2> QED
    BY <2>1, <2>2, <2>3
<1>4. Undisturbed' => UNCHANGED <<offers, application>>
  BY <1>2, <1>3
<1> QED
  BY <1>2, <1>3, <1>4, SameRows, TurnEnds

LEMMA TurnCancels ==
    ASSUME TurnStep, NEW h \in Requests, CancelOffer(h)
    PROVE  TurnInv' /\ (Undisturbed' => AcceptedStays)
<1>1. PICK o, old : o = handler[h].target /\ old = handler[h].offer
  OBVIOUS
<1>2. Running(h) /\ At(h, "cancel", "save") /\ application' = application
  BY DEF CancelOffer, At, Running
<1>3. ChainInv
  BY DEF TurnStep, TurnInv
<1>4. Undisturbed' => /\ Followed /\ ApplicationRow(application) /\ CurrentIsTop /\ AcceptedIsSome
                      /\ (NoCallOff => HistoryEnds) /\ handler[h].row.history = application.history
                      /\ o \in Offered /\ old = offers[o]
  BY <1>1, <1>2, TurnFinds DEF SettledBut, UpToDate, At
<1>5. CASE ~Exists(old.previous)
  <2>1. End(h) /\ UNCHANGED <<offers, application>>
    BY <1>1, <1>2, <1>5 DEF CancelOffer
  <2> QED
    BY <1>2, <1>4, <2>1, SameRows, TurnEnds
<1>6. CASE Exists(old.previous)
  <2>1. PICK row : row = [old EXCEPT !.status = "cancelled"]
    OBVIOUS
  <2>2. offers' = [offers EXCEPT ![o] = row] /\ Goto(h, "status")
    BY <1>1, <1>6, <2>1 DEF CancelOffer
  <2>3. /\ handler'[h].step = "status" /\ handler'[h].op = "cancel"
        /\ handler'[h].row = handler[h].row /\ handler'[h].next = handler[h].next
    BY <1>2, <1>3, <2>2, GotoIs DEF At
  <2>4. HandlerStep(h)
    BY <1>3, WriteKeeps
  <2>5. Fits(handler'[h])
    BY <2>3 DEF TurnStep, TurnInv, Fits
  <2>6. ASSUME Undisturbed' PROVE Followed' /\ CurrentIsTop' /\ AcceptedStays
    <3>1. o \in Requests /\ old \in OfferRow
      BY <1>3, <1>4, <2>6 DEF ChainInv, Offered
    <3>2. row.status = "cancelled" /\ row.at = old.at /\ row.previous = old.previous /\ row \in OfferRow
      BY <2>1, <3>1 DEF OfferRow, OfferStatuses
    <3>3. offers'[o] = row /\ row # NoOffer /\ \A p \in Requests \ {o} : offers'[p] = offers[p]
      BY <1>3, <2>2, <3>1, <3>2, OfferAssumption DEF ChainInv
    <3>4. Kept /\ Offered' = Offered
      BY <1>4, <2>6, <3>1, <3>2, <3>3 DEF Kept, Offered
    <3>5. AcceptedStays
      BY <3>2, <3>3 DEF AcceptedStays, Offered
    <3>6. Followed' /\ \A p : IsTop(p)' = IsTop(p)
      BY <1>4, <2>6, <3>4, TableKept
    <3> QED
      BY <1>2, <1>4, <2>6, <3>4, <3>5, <3>6 DEF CurrentIsTop
  <2>7. Undisturbed' => UpToDate(h)'
    BY <1>2, <1>4, <2>3 DEF UpToDate, At
  <2>8. Undisturbed' => ApplicationRow(application') /\ (NoCallOff => HistoryEnds')
    BY <1>2, <1>4 DEF HistoryEnds
  <2> QED
    BY <1>2, <2>3, <2>4, <2>5, <2>6, <2>7, <2>8, TurnMoves DEF At
<1> QED
  BY <1>5, <1>6

\* The new offer follows the one that was made last, and becomes that one.
LEMMA TurnInserts ==
    ASSUME TurnStep, NEW h \in Requests, InsertOffer(h)
    PROVE  TurnInv' /\ (Undisturbed' => AcceptedStays)
<1>1. PICK o, row : o = handler[h].target /\ row = NewOffer(h)
  OBVIOUS
<1>2. Running(h) /\ handler[h].step = "insert" /\ application' = application
  BY DEF InsertOffer, Running
<1>3. ChainInv
  BY DEF TurnStep, TurnInv
<1>4. Undisturbed' => /\ Followed /\ ApplicationRow(application) /\ CurrentIsTop /\ AcceptedIsSome
                      /\ (NoCallOff => HistoryEnds) /\ handler[h].row.history = application.history
                      /\ Offered = {} \/ IsTop(o)
  BY <1>1, <1>2, TurnFinds DEF SettledBut, UpToDate, At
<1>5. CASE ~Exists(o)
  <2>1. End(h) /\ UNCHANGED <<offers, application>>
    BY <1>1, <1>2, <1>5 DEF InsertOffer
  <2> QED
    BY <1>2, <1>4, <2>1, SameRows, TurnEnds
<1>6. CASE Exists(o)
  <2>1. offers' = [offers EXCEPT ![h] = row] /\ Goto(h, "name")
    BY <1>1, <1>6 DEF InsertOffer
  <2>2. /\ handler'[h].step = "name" /\ handler'[h].op = handler[h].op
        /\ handler'[h].row = handler[h].row /\ handler'[h].next = handler[h].next
    BY <1>3, <2>1, GotoIs
  <2>3. HandlerStep(h)
    BY <1>3, InsertKeeps
  <2>4. Fits(handler'[h])
    BY <1>2, <2>2 DEF TurnStep, TurnInv, Fits
  <2>5. row.previous = o /\ row.at = Now /\ row.status = "pending"
    BY <1>1 DEF NewOffer
  <2>6. h \notin Offered
    <3>1. \A p \in Offered : <<p, offers[p]>> \in Copies
      BY DEF Copies
    <3>2. \A p \in Offered : Inserted(p)
      BY <1>3, <3>1 DEF ChainInv, CopiesOK, CopyOK
    <3> QED
      BY <1>2, <3>2 DEF Inserted
  <2>7. Now \in Nat /\ \A p \in Offered : offers[p].at < Now
    <3>1. CASE Offered = {}
      BY <3>1 DEF Now
    <3>2. CASE Offered # {}
      <4>1. Latest \in Offered /\ \A p \in Offered : offers[p].at <= offers[Latest].at
        BY <1>3, <3>2, LatestIs
      <4>2. \A p \in Offered : offers[p].at \in Nat
        BY <1>3 DEF ChainInv, Offered, OfferRow
      <4> QED
        BY <3>2, <4>1, <4>2 DEF Now
    <3> QED
      BY <3>1, <3>2
  <2>8. offers'[h] = row /\ \A p \in Requests \ {h} : offers'[p] = offers[p]
    BY <1>3, <2>1 DEF ChainInv
  <2>9. row # NoOffer
    BY <1>1, <1>3, <1>6, InsertKeeps, OfferAssumption
  <2>10. Offered' = Offered \cup {h} /\ \A p \in Offered : p # h /\ offers'[p] = offers[p]
    BY <2>6, <2>8, <2>9 DEF Offered
  <2>11. IsTop(h)'
    BY <2>5, <2>7, <2>8, <2>10 DEF IsTop
  <2>12. ASSUME Undisturbed' PROVE Followed' /\ AcceptedIsSome' /\ AcceptedStays
    <3>1. ASSUME NEW p \in Offered PROVE \E q \in Offered' : offers'[q].previous = p
      <4>1. CASE IsTop(p)
        <5>1. Latest = p /\ Latest = o
          BY <1>3, <1>4, <2>12, <3>1, <4>1, TopIsLatest
        <5> QED
          BY <2>5, <2>8, <2>10, <5>1
      <4>2. CASE ~IsTop(p)
        <5>1. PICK q \in Offered : offers[q].previous = p
          BY <1>4, <2>12, <4>2 DEF Followed
        <5> QED
          BY <2>10, <5>1
      <4> QED
        BY <4>1, <4>2
    <3>2. Followed'
      BY <2>10, <2>11, <3>1 DEF Followed
    <3>3. SomeAccepted => SomeAccepted'
      BY <2>10 DEF SomeAccepted
    <3>4. AcceptedStays
      BY <2>10 DEF AcceptedStays, Offered
    <3> QED
      BY <1>2, <1>4, <2>12, <3>2, <3>3, <3>4 DEF AcceptedIsSome
  <2>13. Undisturbed' => UpToDate(h)'
    BY <1>2, <1>4, <2>2, <2>4, <2>11 DEF UpToDate, At, Fits
  <2>14. Undisturbed' => ApplicationRow(application') /\ (NoCallOff => HistoryEnds')
    BY <1>2, <1>4 DEF HistoryEnds
  <2> QED
    BY <1>2, <2>2, <2>3, <2>4, <2>12, <2>13, <2>14, TurnMoves DEF At
<1> QED
  BY <1>5, <1>6

\* The steps for which a request at work holds nothing that matters later
Plain == {"interview", "tally", "decide", "job", "close", "done"}

LEMMA TurnGoes ==
    ASSUME TurnStep, NEW h \in Requests, Running(h), NEW step \in Plain, Goto(h, step),
           step = "decide" => handler[h].op \in {"feedback", "calloff"},
           Undisturbed' =>
               /\ Followed' /\ ApplicationRow(application')
               /\ CurrentIsTop' /\ AcceptedIsSome' /\ (NoCallOff => HistoryEnds')
    PROVE  TurnInv'
<1>1. CASE step = "done"
  <2>1. End(h)
    BY <1>1 DEF Goto
  <2> QED
    BY <2>1, TurnEnds
<1>2. CASE step # "done"
  <2>1. ChainInv /\ Late(step)
    BY DEF TurnStep, TurnInv, Plain, Late
  <2>2. HandlerStep(h)
    BY <2>1, GotoKeeps
  <2>3. /\ handler'[h].step = step /\ handler'[h].op = handler[h].op
        /\ handler'[h].arg = handler[h].arg /\ handler'[h].next = handler[h].next
    BY <1>2, <2>1, GotoIs
  <2>4. Fits(handler'[h])
    BY <2>3 DEF TurnStep, TurnInv, Fits, Plain
  <2>5. UpToDate(h)'
    BY <2>3 DEF UpToDate, At, Plain
  <2> QED
    BY <2>2, <2>3, <2>4, <2>5, TurnMoves DEF Plain
<1> QED
  BY <1>1, <1>2

\* A request that goes on without a change of offers and application
LEMMA TurnPasses ==
    ASSUME TurnStep, NEW h \in Requests, Running(h), NEW step \in Plain, Goto(h, step),
           step = "decide" => handler[h].op \in {"feedback", "calloff"},
           handler[h].step \notin {"name", "history", "status"}, UNCHANGED <<offers, application>>
    PROVE  TurnInv' /\ AcceptedStays
<1>1. Undisturbed' => /\ Followed /\ ApplicationRow(application) /\ CurrentIsTop /\ AcceptedIsSome
                      /\ (NoCallOff => HistoryEnds)
  BY TurnFinds DEF SettledBut, At
<1> QED
  BY <1>1, SameRows, TurnGoes

\* What becomes of the row of the application
LEMMA StatusSet ==
    ASSUME NEW row, ApplicationRow(row), NEW status, NEW new, new = [row EXCEPT !.status = status]
    PROVE  /\ ApplicationRow(new) /\ new.status = status
           /\ new.history = row.history /\ new.current = row.current
<1>1. new.status = status /\ new.history = row.history /\ new.current = row.current
  BY DEF ApplicationRow
<1>2. new = [status |-> new.status, history |-> new.history, current |-> new.current,
             total |-> new.total, completed |-> new.completed]
  BY DEF ApplicationRow
<1> QED
  BY <1>1, <1>2 DEF ApplicationRow

LEMMA HistorySet ==
    ASSUME NEW row, ApplicationRow(row), NEW status \in Statuses \cup Decisions, NEW new,
           new = [row EXCEPT !.history = Append(row.history, status)]
    PROVE  /\ ApplicationRow(new) /\ Last(new.history) = status
           /\ new.status = row.status /\ new.current = row.current
<1>1. PICK log : log = Append(row.history, status)
  OBVIOUS
<1>2. log \in Seq(Statuses \cup Decisions) /\ Last(log) = status
  BY <1>1, Appended DEF ApplicationRow
<1>3. new.status = row.status /\ new.history = log /\ new.current = row.current
  BY <1>1 DEF ApplicationRow
<1>4. new = [status |-> new.status, history |-> new.history, current |-> new.current,
             total |-> new.total, completed |-> new.completed]
  BY <1>1 DEF ApplicationRow
<1> QED
  BY <1>2, <1>3, <1>4 DEF ApplicationRow

WithBoth(row, status, log) == [row EXCEPT !.status = status, !.history = Append(log, status)]

LEMMA BothSet ==
    ASSUME NEW row, ApplicationRow(row), NEW status \in Statuses \cup Decisions, NEW new,
           new = WithBoth(row, status, row.history)
    PROVE  /\ ApplicationRow(new) /\ Last(new.history) = status
           /\ new.status = status /\ new.current = row.current
<1>1. PICK log : log = Append(row.history, status)
  OBVIOUS
<1>2. log \in Seq(Statuses \cup Decisions) /\ Last(log) = status
  BY <1>1, Appended DEF ApplicationRow
<1>3. new.status = status /\ new.history = log /\ new.current = row.current
  BY <1>1 DEF ApplicationRow, WithBoth
<1>4. new = [status |-> new.status, history |-> new.history, current |-> new.current,
             total |-> new.total, completed |-> new.completed]
  BY <1>1 DEF ApplicationRow, WithBoth
<1> QED
  BY <1>2, <1>3, <1>4 DEF ApplicationRow

Named(row, current, status) == [row EXCEPT !.current = current, !.status = status]

LEMMA NameSet ==
    ASSUME NEW row, ApplicationRow(row), NEW current, NEW status, NEW new,
           new = Named(row, current, status)
    PROVE  /\ ApplicationRow(new) /\ new.status = status
           /\ new.history = row.history /\ new.current = current
<1>1. new.status = status /\ new.history = row.history /\ new.current = current
  BY DEF ApplicationRow, Named
<1>2. new = [status |-> new.status, history |-> new.history, current |-> new.current,
             total |-> new.total, completed |-> new.completed]
  BY DEF ApplicationRow, Named
<1> QED
  BY <1>1, <1>2 DEF ApplicationRow

\* The offers stay as they are.
LEMMA OffersStay ==
    ASSUME offers' = offers
    PROVE  /\ AcceptedStays /\ SomeAccepted' = SomeAccepted /\ Followed' = Followed /\ Offered' = Offered
           /\ \A o : IsTop(o)' = IsTop(o)
BY SameTable, TableKept

LEMMA TurnNames ==
    ASSUME TurnStep, NEW h \in Requests, NameOffer(h)
    PROVE  TurnInv' /\ AcceptedStays
<1>1. Running(h) /\ handler[h].step = "name" /\ offers' = offers
  BY DEF NameOffer, Running
<1>2. ChainInv /\ Fits(handler[h])
  BY DEF TurnStep, TurnInv
<1>3. Undisturbed' => /\ Followed /\ ApplicationRow(application) /\ IsTop(h)
                      /\ handler[h].row.history = application.history
  BY <1>1, TurnFinds DEF UpToDate
<1>4. CASE h \notin Offered
  <2>1. End(h) /\ ~Undisturbed'
    BY <1>3, <1>4 DEF NameOffer, IsTop
  <2> QED
    BY <1>1, <2>1, OffersStay, TurnEnds
<1>5. CASE h \in Offered
  <2>1. PICK status : status = NewStatus(h)
    OBVIOUS
  <2>2. application' = Named(application, h, status) /\ Goto(h, "history")
    BY <1>5, <2>1 DEF NameOffer, Named
  <2>3. /\ handler'[h].step = "history" /\ handler'[h].op = handler[h].op /\ handler'[h].arg = handler[h].arg
        /\ handler'[h].row = handler[h].row /\ handler'[h].next = handler[h].next
    BY <1>2, <2>2, GotoIs
  <2>4. HandlerStep(h)
    BY <1>2, WriteKeeps
  <2>5. Fits(handler'[h])
    BY <1>1, <1>2, <2>3 DEF Fits
  <2>6. NewStatus(h)' = status
    BY <2>1, <2>3, StatusKept
  <2>7. status = "offer_accepted" => "offer_accepted" \in Asked
    BY <1>1, <1>2, <2>1, StatusIs DEF Fits
  <2>8. ASSUME Undisturbed'
        PROVE  /\ Followed' /\ ApplicationRow(application') /\ CurrentIsTop' /\ AcceptedIsSome'
               /\ application'.status = status /\ UpToDate(h)'
    <3>1. /\ ApplicationRow(application') /\ application'.status = status
          /\ application'.history = application.history /\ application'.current = h
      BY <1>3, <2>2, <2>8, NameSet
    <3>2. Followed' /\ IsTop(h)'
      BY <1>1, <1>3, <2>8, OffersStay
    <3>3. UpToDate(h)'
      BY <1>3, <2>3, <2>8, <3>1 DEF UpToDate, At
    <3> QED
      BY <2>7, <3>1, <3>2, <3>3 DEF CurrentIsTop, AcceptedIsSome
  <2> QED
    BY <1>1, <2>3, <2>4, <2>5, <2>6, <2>8, OffersStay, TurnMoves
<1> QED
  BY <1>4, <1>5

LEMMA TurnPushes ==
    ASSUME TurnStep, NEW h \in Requests, PushHistory(h)
    PROVE  TurnInv' /\ AcceptedStays
<1>1. PICK status : status = NewStatus(h)
  OBVIOUS
<1>2. /\ Running(h) /\ handler[h].step = "history" /\ offers' = offers
      /\ application' = [application EXCEPT !.history = Append(handler[h].row.history, status)]
  BY <1>1 DEF PushHistory, Running
<1>3. PICK step \in Plain : Goto(h, step) /\ step # "decide"
  BY DEF PushHistory, ThenCloses, Plain
<1>4. status \in Statuses \cup Decisions
  BY <1>1, <1>2, StatusIs DEF TurnStep, TurnInv, Fits
<1>5. ASSUME Undisturbed'
      PROVE  /\ Followed' /\ ApplicationRow(application') /\ CurrentIsTop' /\ AcceptedIsSome'
             /\ (NoCallOff => HistoryEnds')
  <2>1. /\ Followed /\ ApplicationRow(application) /\ CurrentIsTop /\ AcceptedIsSome
        /\ (NoCallOff => application.status = status) /\ handler[h].row.history = application.history
    BY <1>1, <1>2, <1>5, TurnFinds DEF SettledBut, UpToDate, At
  <2>2. /\ ApplicationRow(application') /\ Last(application'.history) = status
        /\ application'.status = application.status /\ application'.current = application.current
    BY <1>2, <1>4, <2>1, HistorySet
  <2>3. Followed' /\ CurrentIsTop'
    BY <1>2, <2>1, <2>2, OffersStay DEF CurrentIsTop
  <2>4. AcceptedIsSome'
    BY <1>2, <2>1, <2>2, OffersStay DEF AcceptedIsSome
  <2> QED
    BY <2>1, <2>2, <2>3, <2>4 DEF HistoryEnds
<1> QED
  BY <1>2, <1>3, <1>5, OffersStay, TurnGoes

LEMMA TurnSettles ==
    ASSUME TurnStep, NEW h \in Requests, Settle(h)
    PROVE  TurnInv' /\ AcceptedStays
<1>1. PICK status : status = NewStatus(h)
  OBVIOUS
<1>2. /\ Running(h) /\ handler[h].step = "settle" /\ offers' = offers
      /\ application' = WithBoth(application, status, handler[h].row.history)
  BY <1>1 DEF Settle, Running, WithBoth
<1>3. PICK step \in Plain : Goto(h, step) /\ step # "decide"
  BY DEF Settle, ThenCloses, Plain
<1>4. /\ status \in Statuses \cup Decisions
      /\ status = "offer_accepted" => handler[h].op = "accept" \/ "offer_accepted" \in Asked
  BY <1>1, <1>2, StatusIs DEF TurnStep, TurnInv, Fits
<1>5. ASSUME Undisturbed'
      PROVE  /\ Followed' /\ ApplicationRow(application') /\ CurrentIsTop' /\ AcceptedIsSome'
             /\ (NoCallOff => HistoryEnds')
  <2>1. /\ Followed /\ ApplicationRow(application) /\ CurrentIsTop
        /\ handler[h].row.history = application.history
        /\ handler[h].op = "accept" => SomeAccepted
    BY <1>2, <1>5, TurnFinds DEF SettledBut, UpToDate, At
  <2>2. /\ ApplicationRow(application') /\ Last(application'.history) = status
        /\ application'.status = status /\ application'.current = application.current
    BY <1>2, <1>4, <2>1, BothSet
  <2>3. Followed' /\ CurrentIsTop'
    BY <1>2, <2>1, <2>2, OffersStay DEF CurrentIsTop
  <2>4. AcceptedIsSome'
    BY <1>2, <1>4, <2>1, <2>2, OffersStay DEF AcceptedIsSome
  <2> QED
    BY <2>1, <2>2, <2>3, <2>4 DEF HistoryEnds
<1> QED
  BY <1>2, <1>3, <1>5, OffersStay, TurnGoes

LEMMA TurnSetsStatus ==
    ASSUME TurnStep, NEW h \in Requests, SetStatus(h)
    PROVE  TurnInv' /\ AcceptedStays
<1>1. PICK status : status = NewStatus(h)
  OBVIOUS
<1>2. /\ Running(h) /\ handler[h].step = "status" /\ offers' = offers /\ Goto(h, "history")
      /\ application' = [application EXCEPT !.status = status]
  BY <1>1 DEF SetStatus, Running
<1>3. ChainInv /\ Fits(handler[h])
  BY DEF TurnStep, TurnInv
<1>4. /\ handler'[h].step = "history" /\ handler'[h].op = handler[h].op /\ handler'[h].arg = handler[h].arg
      /\ handler'[h].row = handler[h].row /\ handler'[h].next = handler[h].next
  BY <1>2, <1>3, GotoIs
<1>5. HandlerStep(h)
  BY <1>3, WriteKeeps
<1>6. Fits(handler'[h])
  BY <1>2, <1>3, <1>4 DEF Fits
<1>7. NewStatus(h)' = status
  BY <1>1, <1>4, StatusKept
<1>8. status = "offer_accepted" => \/ handler[h].op = "respond" /\ handler[h].arg = "accepted"
                                   \/ "offer_accepted" \in Asked
  BY <1>1, <1>2, <1>3, StatusIs DEF Fits
<1>9. ASSUME Undisturbed'
      PROVE  /\ Followed' /\ ApplicationRow(application') /\ CurrentIsTop' /\ AcceptedIsSome'
             /\ application'.status = status /\ UpToDate(h)'
  <2>1. /\ Followed /\ ApplicationRow(application) /\ CurrentIsTop
        /\ handler[h].row.history = application.history
        /\ handler[h].op = "respond" /\ handler[h].arg = "accepted" => SomeAccepted
    BY <1>2, <1>9, TurnFinds DEF SettledBut, UpToDate, At
  <2>2. /\ ApplicationRow(application') /\ application'.status = status
        /\ application'.history = application.history /\ application'.current = application.current
    BY <1>2, <2>1, StatusSet
  <2>3. Followed' /\ CurrentIsTop'
    BY <1>2, <2>1, <2>2, OffersStay DEF CurrentIsTop
  <2>4. AcceptedIsSome'
    BY <1>2, <1>8, <2>1, <2>2, OffersStay DEF AcceptedIsSome
  <2>5. UpToDate(h)'
    BY <1>4, <2>1, <2>2 DEF UpToDate, At
  <2> QED
    BY <2>2, <2>3, <2>4, <2>5
<1> QED
  BY <1>2, <1>4, <1>5, <1>6, <1>7, <1>9, OffersStay, TurnMoves

LEMMA TurnChecks ==
    ASSUME TurnStep, NEW h \in Requests, CheckJob(h) \/ CloseJob(h)
    PROVE  TurnInv' /\ AcceptedStays
<1>1. /\ Running(h) /\ handler[h].step \notin {"name", "history", "status"}
      /\ UNCHANGED <<offers, application>>
  BY DEF CheckJob, CloseJob, Running
<1>2. PICK step \in {"close", "done"} : Goto(h, step)
  BY DEF CheckJob, CloseJob, Goto
<1> QED
  BY <1>1, <1>2, TurnPasses DEF Plain

\* Nothing was written since the application was read, and the save writes it as it is.
LEMMA TurnSaves ==
    ASSUME TurnStep, NEW h \in Requests, SaveApplication(h)
    PROVE  TurnInv' /\ AcceptedStays
<1>1. PICK status, row : status = NewStatus(h) /\ row = handler[h].row
  OBVIOUS
<1>2. Running(h) /\ At(h, "status", "save") /\ offers' = offers /\ End(h)
  BY DEF SaveApplication, At, Running
<1>3. application' = IF Exists(row.current) THEN WithBoth(row, status, row.history) ELSE application
  BY <1>1 DEF SaveApplication, WithBoth
<1>4. /\ status \in Statuses \cup Decisions
      /\ status = "offer_accepted" => "offer_accepted" \in Asked
  BY <1>1, <1>2, StatusIs DEF TurnStep, TurnInv, At
<1>5. ASSUME Undisturbed'
      PROVE  /\ Followed' /\ ApplicationRow(application') /\ CurrentIsTop' /\ AcceptedIsSome'
             /\ (NoCallOff => HistoryEnds')
  <2>1. /\ Followed /\ ApplicationRow(application) /\ CurrentIsTop /\ row = application
        /\ AcceptedIsSome /\ (NoCallOff => HistoryEnds)
    BY <1>1, <1>2, <1>5, TurnFinds DEF SettledBut, UpToDate, At
  <2>2. CASE application' = application
    BY <1>2, <2>1, <2>2, SameRows
  <2>3. CASE application' = WithBoth(application, status, application.history)
    <3>1. /\ ApplicationRow(application') /\ Last(application'.history) = status
          /\ application'.status = status /\ application'.current = application.current
      BY <1>4, <2>1, <2>3, BothSet
    <3>2. Followed' /\ CurrentIsTop' /\ AcceptedIsSome'
      BY <1>2, <1>4, <2>1, <3>1, OffersStay DEF CurrentIsTop, AcceptedIsSome
    <3> QED
      BY <3>1, <3>2 DEF HistoryEnds
  <2> QED
    BY <1>3, <2>1, <2>2, <2>3
<1> QED
  BY <1>2, <1>5, OffersStay, TurnEnds

LEMMA TurnFails ==
    ASSUME TurnStep, NEW h \in Requests, Fault(h)
    PROVE  TurnInv' /\ AcceptedStays
<1>1. Running(h) /\ End(h) /\ offers' = offers /\ faults' = faults + 1
  BY DEF Fault
<1>2. ~Undisturbed'
  BY <1>1 DEF Undisturbed, TurnStep, TurnInv, CountersInv
<1> QED
  BY <1>1, <1>2, OffersStay, TurnEnds

-----------------------------------------------------------------------------
(* Interviews in turn *)

LEMMA TurnInterviews ==
    ASSUME TurnStep, NEW h \in Requests,
           \/ ReadInterview(h) \/ ScheduleInterview(h) \/ CompleteInterview(h)
           \/ RescheduleInterview(h) \/ DeleteInterview(h) \/ CancelInterview(h)
    PROVE  TurnInv' /\ AcceptedStays
<1>1. /\ Running(h) /\ handler[h].step \notin {"name", "history", "status"}
      /\ UNCHANGED <<offers, application>>
  BY DEF ReadInterview, ScheduleInterview, CompleteInterview, RescheduleInterview, DeleteInterview,
         CancelInterview, At, Running
<1>2. PICK step \in Plain : Goto(h, step) /\ (step = "decide" => handler[h].op = "calloff")
  BY DEF ReadInterview, ScheduleInterview, CompleteInterview, RescheduleInterview, DeleteInterview,
         CancelInterview, At, Plain, Goto
<1> QED
  BY <1>1, <1>2, TurnPasses

Counted(row, scheduled) ==
    IF scheduled THEN [row EXCEPT !.total = @ + 1] ELSE [row EXCEPT !.completed = @ + 1]

LEMMA CounterSet ==
    ASSUME NEW row, ApplicationRow(row), NEW scheduled, NEW new, new = Counted(row, scheduled)
    PROVE  /\ ApplicationRow(new) /\ new.status = row.status
           /\ new.history = row.history /\ new.current = row.current
<1>1. CASE scheduled
  <2>1. PICK n : n = row.total + 1
    OBVIOUS
  <2>2. new = [row EXCEPT !.total = n]
    BY <1>1, <2>1 DEF Counted
  <2>3. new.status = row.status /\ new.history = row.history /\ new.current = row.current
    BY <2>2 DEF ApplicationRow
  <2>4. new = [status |-> new.status, history |-> new.history, current |-> new.current,
               total |-> new.total, completed |-> new.completed]
    BY <2>2 DEF ApplicationRow
  <2> QED
    BY <2>3, <2>4 DEF ApplicationRow
<1>2. CASE ~scheduled
  <2>1. PICK n : n = row.completed + 1
    OBVIOUS
  <2>2. new = [row EXCEPT !.completed = n]
    BY <1>2, <2>1 DEF Counted
  <2>3. new.status = row.status /\ new.history = row.history /\ new.current = row.current
    BY <2>2 DEF ApplicationRow
  <2>4. new = [status |-> new.status, history |-> new.history, current |-> new.current,
               total |-> new.total, completed |-> new.completed]
    BY <2>2 DEF ApplicationRow
  <2> QED
    BY <2>3, <2>4 DEF ApplicationRow
<1> QED
  BY <1>1, <1>2

LEMMA TurnTallies ==
    ASSUME TurnStep, NEW h \in Requests, TallyInterview(h)
    PROVE  TurnInv' /\ AcceptedStays
<1>1. PICK scheduled : scheduled = (handler[h].op = "schedule")
  OBVIOUS
<1>2. /\ Running(h) /\ handler[h].step = "tally" /\ offers' = offers
      /\ application' = Counted(application, scheduled)
  BY <1>1 DEF TallyInterview, Running, Counted
<1>3. PICK step \in {"done", "decide"} : Goto(h, step) /\ (step = "decide" => handler[h].op # "schedule")
  BY DEF TallyInterview
<1>4. step \in Plain /\ (step = "decide" => handler[h].op = "feedback")
  BY <1>2, <1>3 DEF Plain, TurnStep, TurnInv, CountersInv
<1>5. ASSUME Undisturbed'
      PROVE  /\ Followed' /\ ApplicationRow(application') /\ CurrentIsTop' /\ AcceptedIsSome'
             /\ (NoCallOff => HistoryEnds')
  <2>1. /\ Followed /\ ApplicationRow(application) /\ CurrentIsTop /\ AcceptedIsSome
        /\ (NoCallOff => HistoryEnds)
    BY <1>2, <1>5, TurnFinds DEF SettledBut, At
  <2>2. /\ ApplicationRow(application') /\ application'.status = application.status
        /\ application'.history = application.history /\ application'.current = application.current
    BY <1>2, <2>1, CounterSet
  <2> QED
    BY <1>2, <2>1, <2>2, OffersStay DEF CurrentIsTop, AcceptedIsSome, HistoryEnds
<1> QED
  BY <1>2, <1>3, <1>4, <1>5, OffersStay, TurnGoes

Decided(h, next, row) ==
    handler' = [handler EXCEPT ![h].step = "move", ![h].next = next, ![h].row = row]

LEMMA DecidedIs ==
    ASSUME ChainInv, NEW h \in Requests, NEW next, NEW row, Decided(h, next, row)
    PROVE  /\ handler'[h].step = "move" /\ handler'[h].op = handler[h].op
           /\ handler'[h].arg = handler[h].arg /\ handler'[h].row = row /\ handler'[h].next = next
<1>1. PICK s : s = [handler[h] EXCEPT !.step = "move", !.next = next, !.row = row]
  OBVIOUS
<1>2. handler'[h] = s
  BY <1>1 DEF Decided, ChainInv, HandlerShape
<1>3. s.step = "move" /\ s.op = handler[h].op /\ s.arg = handler[h].arg
  BY <1>1 DEF ChainInv, HandlerShape
<1>4. s.row = row
  BY <1>1 DEF ChainInv, HandlerShape
<1>5. s.next = next
  BY <1>1 DEF ChainInv, HandlerShape
<1> QED
  BY <1>2, <1>3, <1>4, <1>5

LEMMA TurnDecides ==
    ASSUME TurnStep, NEW h \in Requests, Decide(h)
    PROVE  TurnInv' /\ AcceptedStays
<1>1. Running(h) /\ handler[h].step = "decide" /\ UNCHANGED <<offers, application>>
  BY DEF Decide, Running
<1>2. Undisturbed' => /\ Followed /\ ApplicationRow(application) /\ CurrentIsTop /\ AcceptedIsSome
                      /\ (NoCallOff => HistoryEnds)
  BY <1>1, TurnFinds DEF SettledBut, At
<1>3. ChainInv /\ Fits(handler[h])
  BY DEF TurnStep, TurnInv
<1>4. PICK next : /\ next \in Decisions
                  /\ End(h) \/ Decided(h, next, application)
  <2> DEFINE next == IF handler[h].op = "calloff" THEN "screening" ELSE FeedbackStatus(handler[h].arg)
  <2>1. FeedbackStatus(handler[h].arg) \in Decisions
    BY DEF FeedbackStatus, Decisions
  <2>2. next \in Decisions
    BY <2>1 DEF Decisions
  <2>3. End(h) \/ Decided(h, next, application)
    BY DEF Decide, Decided
  <2> HIDE DEF next
  <2> QED
    BY <2>2, <2>3
<1>5. CASE End(h)
  BY <1>1, <1>2, <1>5, SameRows, TurnEnds
<1>6. CASE Decided(h, next, application)
  <2>1. /\ handler'[h].step = "move" /\ handler'[h].op = handler[h].op
        /\ handler'[h].row = application /\ handler'[h].next = next
    BY <1>3, <1>6, DecidedIs
  <2>2. HandlerStep(h)
    BY <1>3, InterviewStepKeeps DEF InterviewStep
  <2>3. Fits(handler'[h])
    BY <1>1, <1>3, <1>4, <2>1 DEF Fits
  <2>4. UpToDate(h)'
    BY <1>1, <2>1 DEF UpToDate, At
  <2> QED
    BY <1>1, <1>2, <2>1, <2>2, <2>3, <2>4, SameRows, TurnMoves DEF At
<1> QED
  BY <1>4, <1>5, <1>6

LEMMA TurnMovesApplication ==
    ASSUME TurnStep, NEW h \in Requests, MoveApplication(h)
    PROVE  TurnInv' /\ AcceptedStays
<1>1. PICK status, step : /\ status = NewStatus(h)
                          /\ step = IF handler[h].op = "calloff" THEN "done" ELSE "history"
  OBVIOUS
<1>2. /\ Running(h) /\ handler[h].step = "move" /\ offers' = offers /\ Goto(h, step)
      /\ application' = [application EXCEPT !.status = status]
  BY <1>1 DEF MoveApplication, Running
<1>3. ChainInv /\ Fits(handler[h]) /\ handler[h].op \in {"feedback", "calloff"}
  BY <1>2 DEF TurnStep, TurnInv, Fits
<1>4. status = "offer_accepted" => "offer_accepted" \in Asked
  BY <1>1, <1>2, <1>3, StatusIs DEF Fits
<1>5. ASSUME Undisturbed'
      PROVE  /\ Followed' /\ ApplicationRow(application') /\ CurrentIsTop' /\ AcceptedIsSome'
             /\ application'.status = status /\ application'.history = handler[h].row.history
  <2>1. /\ Followed /\ ApplicationRow(application) /\ CurrentIsTop
        /\ handler[h].row.history = application.history
    BY <1>2, <1>5, TurnFinds DEF SettledBut, UpToDate, At
  <2>2. /\ ApplicationRow(application') /\ application'.status = status
        /\ application'.history = application.history /\ application'.current = application.current
    BY <1>2, <2>1, StatusSet
  <2> QED
    BY <1>2, <1>4, <2>1, <2>2, OffersStay DEF CurrentIsTop, AcceptedIsSome
<1>6. CASE step = "done"
  <2>1. End(h) /\ ~NoCallOff
    BY <1>1, <1>2, <1>6 DEF Goto, NoCallOff
  <2> QED
    BY <1>2, <1>5, <2>1, OffersStay, TurnEnds
<1>7. CASE step = "history"
  <2>1. /\ handler'[h].step = "history" /\ handler'[h].op = handler[h].op /\ handler'[h].arg = handler[h].arg
        /\ handler'[h].row = handler[h].row /\ handler'[h].next = handler[h].next
    BY <1>2, <1>3, <1>7, GotoIs
  <2>2. HandlerStep(h)
    BY <1>3, InterviewStepKeeps DEF InterviewStep
  <2>3. Fits(handler'[h])
    BY <1>1, <1>3, <1>7, <2>1 DEF Fits
  <2>4. NewStatus(h)' = status
    BY <1>1, <2>1, StatusKept
  <2>5. Undisturbed' => UpToDate(h)'
    BY <1>5, <2>1 DEF UpToDate, At
  <2> QED
    BY <1>2, <1>5, <2>1, <2>2, <2>3, <2>4, <2>5, OffersStay, TurnMoves
<1> QED
  BY <1>1, <1>6, <1>7

-----------------------------------------------------------------------------
(* Offers and application, one request at a time *)

LEMMA TurnInit == MCInit => TurnInv
<1> SUFFICES ASSUME MCInit
             PROVE  TurnInv
  OBVIOUS
<1> USE DEF MCInit, IInit, OInit
<1>1. ChainInv /\ CountersInv
  BY ChainInit, CountersInit
<1>2. \A h \in Requests : handler[h].step = "idle" /\ handler[h].op = "none" /\ handler[h].next = "none"
  BY DEF IdleHandler
<1>3. \A h \in Requests : Fits(handler[h]) /\ ~Running(h)
  BY <1>2 DEF Fits, Running, Decisions
<1>4. Offered = {}
  BY DEF Offered
<1>5. PICK history : history = <<"shortlisted">>
  OBVIOUS
<1>6. /\ application = [status |-> "shortlisted", history |-> history, current |-> NoOffer,
                        total |-> 0, completed |-> 0]
      /\ history \in Seq(Statuses \cup Decisions) /\ Last(history) = "shortlisted"
  <2>1. "shortlisted" \in Statuses \cup Decisions
    BY DEF Statuses
  <2>2. history \in Seq(Statuses \cup Decisions) /\ Len(history) = 1 /\ history[1] = "shortlisted"
    BY <1>5, <2>1
  <2> QED
    BY <1>5, <2>2 DEF NewApplication, Last
<1>7. ApplicationRow(application) /\ CurrentIsTop /\ AcceptedIsSome /\ HistoryEnds /\ Followed
  BY <1>4, <1>6 DEF ApplicationRow, CurrentIsTop, AcceptedIsSome, HistoryEnds, Followed
<1> QED
  BY <1>1, <1>3, <1>7 DEF TurnInv, OneAtWork, AllSettled

LEMMA FaultsGrow ==
    ASSUME CountersInv, HNext
    PROVE  faults' \in Nat /\ faults <= faults'
<1>1. faults \in Nat
  BY DEF CountersInv
<1>2. ASSUME NEW h \in Requests, InterviewRequest(h) \/ InterviewStep(h)
      PROVE  faults' = faults
  BY <1>2 DEF InterviewRequest, InterviewStep, ReadInterview, ScheduleInterview, CompleteInterview,
              RescheduleInterview, DeleteInterview, CancelInterview, TallyInterview, Decide, MoveApplication
<1>3. ASSUME NEW h \in Requests, Request(h) \/ RequestStep(h)
      PROVE  faults' = faults
  BY <1>3 DEF Request, RequestStep, ReadApplication, ReadLatest, Supersede, InsertOffer, NameOffer,
              PushHistory, AnswerOffer, Settle, CheckJob, CloseJob, ReadOffer, UpdateOffer, DeleteOffer,
              CancelOffer, RespondOffer, SetStatus, SaveApplication
<1>4. ASSUME NEW h \in Requests, Fault(h)
      PROVE  faults' = faults + 1
  BY <1>4 DEF Fault
<1>5. faults' = faults \/ faults' = faults + 1
  BY <1>2, <1>3, <1>4 DEF HNext, ONext
<1> QED
  BY <1>1, <1>5

LEMMA TurnNext ==
    ASSUME TurnInv, [HNext /\ Turns]_<<hvars, overlapped>>
    PROVE  TurnInv' /\ (Undisturbed' => AcceptedStays)
<1>1. CASE UNCHANGED <<hvars, overlapped>>
  <2>1. UNCHANGED <<offers, application, handler, faults, interviews, overlapped>>
    BY <1>1 DEF hvars, ovars
  <2>2. ChainInv' /\ CountersInv'
    <3>1. [HNext]_hvars
      BY <1>1
    <3> QED
      BY <3>1, ChainStep, CountersKept DEF TurnInv
  <2>3. /\ \A h \in Requests : /\ Fits(handler'[h]) = Fits(handler[h]) /\ Running(h)' = Running(h)
                               /\ SettledBut(h)' = SettledBut(h) /\ UpToDate(h)' = UpToDate(h)
        /\ NoCallOff' = NoCallOff
    <3>1. \A h \in Requests : Running(h)' = Running(h) /\ NewStatus(h)' = NewStatus(h)
      BY <2>1 DEF Running, NewStatus
    <3>2. NoCallOff' = NoCallOff
      BY <2>1 DEF NoCallOff
    <3>3. \A h \in Requests : SettledBut(h)' = SettledBut(h)
      BY <2>1, <3>1, <3>2, SameRows DEF SettledBut, At
    <3>4. \A h \in Requests : UpToDate(h)' = UpToDate(h)
      BY <2>1, SameRows DEF UpToDate, At
    <3> QED
      BY <2>1, <3>1, <3>2, <3>3, <3>4
  <2>4. OneAtWork' = OneAtWork /\ Quiet' = Quiet
    BY <2>3 DEF OneAtWork, Quiet
  <2>5. AllSettled' = AllSettled
    BY <2>1, <2>3, SameRows DEF AllSettled
  <2>6. Undisturbed' = Undisturbed
    BY <2>1 DEF Undisturbed
  <2> QED
    BY <2>1, <2>2, <2>3, <2>4, <2>5, <2>6, SameRows DEF TurnInv
<1>2. CASE HNext /\ Turns
  <2>1. TurnStep
    BY <1>2, ChainStep, CountersKept, FaultsGrow DEF TurnStep, TurnInv
  <2>2. ASSUME NEW h \in Requests, InterviewRequest(h) \/ InterviewStep(h)
        PROVE  TurnInv' /\ AcceptedStays
    BY <2>1, <2>2, TurnStarts, TurnInterviews, TurnTallies, TurnDecides, TurnMovesApplication DEF InterviewStep
  <2>3. ASSUME NEW h \in Requests, Request(h) \/ RequestStep(h) \/ Fault(h)
        PROVE  TurnInv' /\ (Undisturbed' => AcceptedStays)
    BY <2>1, <2>3, TurnStarts, TurnReadsApplication, TurnReadsLatest, TurnReadsOffer, TurnSupersedes,
       TurnInserts, TurnNames, TurnPushes, TurnAnswers, TurnSettles, TurnChecks, TurnUpdates, TurnDeletes,
       TurnCancels, TurnResponds, TurnSetsStatus, TurnSaves, TurnFails DEF RequestStep
  <2> QED
    BY <1>2, <2>2, <2>3 DEF HNext, ONext
<1> QED
  BY <1>1, <1>2

LEMMA TurnInvSays ==
    ASSUME "offer_accepted" \notin Asked, TurnInv
    PROVE  OffersInTurn
<1> SUFFICES ASSUME Undisturbed, Quiet
             PROVE  /\ Offered # {} => application.current = Latest
                    /\ application.status = "offer_accepted" => SomeAccepted
                    /\ NoCallOff => HistoryEnds
  BY DEF OffersInTurn, CurrentIsLatest, AcceptedHasOffer, HistoryEndsInStatus, SomeAccepted, NoCallOff, HistoryEnds
<1>1. ChainInv /\ AllSettled
  BY DEF TurnInv
<1> QED
  BY <1>1, TopIsLatest DEF AllSettled, CurrentIsTop, AcceptedIsSome

\* OffersInTurn for any requests of any users, as long as nobody asks for OFFER_ACCEPTED
\* by hand (updateApplicationStatus): if the requests waited for each other and no query
\* failed, the application names its latest offer, is OFFER_ACCEPTED only with an
\* accepted one, and its history ends in its status.
THEOREM OffersFollowInTurn ==
    ASSUME "offer_accepted" \notin Asked
    PROVE  HiringTurns => []OffersInTurn
<1>1. MCInit => TurnInv
  BY TurnInit
<1>2. TurnInv /\ [HNext /\ Turns]_<<hvars, overlapped>> => TurnInv'
  BY TurnNext
<1>3. TurnInv => OffersInTurn
  BY TurnInvSays
<1> QED
  BY <1>1, <1>2, <1>3, PTL DEF HiringTurns

\* AcceptedStaysInTurn for any requests of any users: of requests that waited for each
\* other, none answers an accepted offer again, and none deletes it, though deleteOffer
\* is meant for accepted offers: a foreign key refuses it.
THEOREM AcceptedStay == HiringTurns => AcceptedStaysInTurn
<1>1. MCInit => TurnInv
  BY TurnInit
<1>2. TurnInv /\ [HNext /\ Turns]_<<hvars, overlapped>>
          => TurnInv' /\ [Undisturbed' => AcceptedStays]_<<hvars, overlapped>>
  BY TurnNext
<1> QED
  BY <1>1, <1>2, PTL DEF HiringTurns, AcceptedStaysInTurn
=============================================================================
