------------------------------ MODULE MCHiring ------------------------------
(* Small instances of Interview and Offer for TLC: one candidate and one      *)
(* recruiter.  A history variable tells whether two requests were ever at     *)
(* work at the same time.  Bound: one request less is made when some did, one *)
(* less when a query failed, and one less when the job has a limit.           *)
EXTENDS Interview, TLC

CONSTANTS candidate, recruiter, r1, r2, r3, r4

Staff == {recruiter}
FourRequests == {r1, r2, r3, r4}

AllOps == OfferOps \cup InterviewOps
OnlyInterviews == {"schedule", "feedback"}
OnHold == {"on_hold"}
AcceptOrNegotiate == {"accepted", "negotiating"}
NoneOrOne == {0, 1}
None == {}
Zero == {0}

Alike == Permutations(FourRequests)

VARIABLE overlapped

Made == {h \in Requests : handler[h].step # "idle"}

MCInit == IInit /\ overlapped = FALSE

\* Are two requests at work?
Turns ==
    overlapped' = (overlapped \/ \E g, h \in Requests : g # h /\ Running(g)' /\ Running(h)')

MCNext ==
    /\ HNext /\ Turns
    /\ Cardinality(Made') + faults' + (IF overlapped' THEN 1 ELSE 0) + job.limit
           <= Cardinality(Requests)

MCSpec == MCInit /\ [][MCNext]_<<hvars, overlapped>>

\* With no bound on the requests
HiringTurns == MCInit /\ [][HNext /\ Turns]_<<hvars, overlapped>>

Undisturbed == ~overlapped /\ faults = 0

\* Of requests that waited for each other, with no failing query, the application
\* names the latest offer, the one that is accepted, rejected or countered next
\* (createOffer, createCounterOffer, getLatestOffer), it is OFFER_ACCEPTED only while
\* an offer is (acceptOffer, cancelOffer, recordCandidateResponse), and every status is
\* entered in the history, unless an interview is called off (cancelInterview).
OffersInTurn ==
    Undisturbed =>
        /\ CurrentIsLatest /\ AcceptedHasOffer
        /\ (\A h \in Requests : handler[h].op # "calloff") => HistoryEndsInStatus

\* Of requests that waited for each other, with no failing query, none answers
\* an accepted offer again, and none deletes it (rejectOffer, recordCandidateResponse, updateOffer, deleteOffer).
AcceptedStaysInTurn == [][Undisturbed' => AcceptedStays]_<<hvars, overlapped>>

\* "INTERVIEW_IN_PROGRESS --> INTERVIEW_COMPLETED : Complete All Interviews": a
\* recommendation ends the interviews when none is still to come.
AllCompletedInTurn == Undisturbed /\ JustEnded => Outstanding = {}
=============================================================================
