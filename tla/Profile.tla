------------------------------- MODULE Profile -------------------------------
(***************************************************************************)
(* The profile of one candidate: CandidateProfileService.  A list that an  *)
(* update names is replaced; the other lists are like the experiences.     *)
(* The transactions are READ COMMITTED: what one writes is seen when it    *)
(* commits, and a row it writes is locked until then.                      *)
(***************************************************************************)
EXTENDS Server, Sequences, SequencesExt

CONSTANTS
    Counts,         \* how many of the four plain fields a profile may have
    NoProfile,      \* stands for a profile that was not created
    NoOne           \* stands for no transaction

ASSUME ProfileAssumption == Counts \subseteq 0..4 /\ NoOne \notin Requests

VARIABLES
    profile,        \* the row of candidate_profiles
    locked,         \* the transaction that has written it
    experiences,    \* the rows of work_experiences
    employers,      \* the organisations that were created by the name of its employer
    embedded        \* the lists in the queue of embeddings, in its order

bvars == <<profile, locked, experiences, employers, embedded>>

\* calculateCompletionPercentage: of six fields, two are lists that are not loaded.
Percentage(given) == (200 * given + 6) \div 12
Status(status, percentage) ==
    IF percentage >= 90 THEN "complete" ELSE IF percentage >= 70 THEN "intermediate"
    ELSE IF percentage >= 40 THEN "basic" ELSE status

Completed(row) ==
    [row EXCEPT !.percentage = Percentage(row.given), !.status = Status(row.status, Percentage(row.given))]

NewProfile(given) == [given |-> given, percentage |-> 0, status |-> "incomplete"]

\* The candidate has no profile yet, or one without a list.
ProfileInit ==
    /\ profile \in {NoProfile} \cup {Completed(NewProfile(n)) : n \in Counts}
    /\ locked = NoOne
    /\ experiences = {} /\ employers = {} /\ embedded = <<>>

-----------------------------------------------------------------------------
\* What a request is asked: how many fields, or Same, and whether it has a list.
Same == -1

ReadProfile(h) ==
    /\ At(h, "createProfile", "start") \/ At(h, "updateProfile", "start")
    /\ LET create == handler[h].op = "createProfile"
           row == IF create THEN NewProfile(Arg(h).given)
                  ELSE IF Arg(h).given = Same THEN profile ELSE [profile EXCEPT !.given = Arg(h).given]
       IN IF create # (profile = NoProfile) THEN End(h)
          ELSE Keep(h, IF create THEN "insert" ELSE "save", row)
    /\ UNCHANGED bvars

\* Waits for another transaction that creates it; then userId must be new.
InsertProfile(h) ==
    /\ At(h, "createProfile", "insert") /\ locked = NoOne
    /\ IF profile = NoProfile
       THEN locked' = h /\ Keep(h, "list", [row |-> Completed(Mem(h)), old |-> {}, waited |-> TRUE])
       ELSE End(h) /\ UNCHANGED locked
    /\ UNCHANGED <<profile, experiences, employers, embedded>>

SaveFields_Unlocked(h) ==
    /\ At(h, "updateProfile", "save")
    /\ Keep(h, "list", [row |-> Completed(Mem(h)), old |-> {}, waited |-> Mem(h) # profile])
    /\ UNCHANGED bvars

\* Only what differs from the row is written, so that it may not be locked.
SaveFields(h) ==
    /\ At(h, "updateProfile", "save")
    /\ \/ /\ Mem(h) = profile
          /\ Keep(h, "list", [row |-> Completed(Mem(h)), old |-> {}, waited |-> FALSE])
          /\ UNCHANGED locked
       \/ /\ Mem(h) # profile /\ locked = NoOne
          /\ locked' = h
          /\ Keep(h, "list", [row |-> Completed(Mem(h)), old |-> {}, waited |-> TRUE])
    /\ UNCHANGED <<profile, experiences, employers, embedded>>

\* The experiences that are there are deleted when the update names the list.
DeleteList(h) ==
    /\ handler[h].step = "list"
    /\ IF Arg(h).list
       THEN Keep(h, "employer", [Mem(h) EXCEPT !.old = experiences])
       ELSE Keep(h, "completion", [row |-> Mem(h).row, old |-> {}, new |-> {}])
    /\ UNCHANGED bvars

\* An organisation with the employer's name, or a new one
FindEmployer(h) ==
    /\ handler[h].step = "employer"
    /\ \E e \in IF employers = {} THEN {h} ELSE employers :
           Keep(h, "completion", [row |-> Mem(h).row, old |-> Mem(h).old,
                                  new |-> {[by |-> h, waited |-> Mem(h).waited, employer |-> e]}])
    /\ UNCHANGED bvars

SaveCompletion(h) ==
    /\ handler[h].step = "completion"
    /\ \/ /\ locked = h \/ Mem(h).row = profile
          /\ UNCHANGED locked
       \/ /\ locked = NoOne /\ Mem(h).row # profile
          /\ locked' = h
    /\ Goto(h, "commit")
    /\ UNCHANGED <<profile, experiences, employers, embedded>>

\* A new profile is embedded, and one with a new list; of the fields, two are.
Commit(h) ==
    /\ handler[h].step = "commit"
    /\ profile' = IF locked = h THEN Mem(h).row ELSE profile
    /\ locked' = IF locked = h THEN NoOne ELSE locked
    /\ experiences' = (experiences \ Mem(h).old) \cup Mem(h).new
    /\ employers' = employers \cup {e.employer : e \in Mem(h).new}
    /\ \/ Goto(h, "embed")
       \/ handler[h].op = "updateProfile" /\ ~Arg(h).list /\ End(h)
    /\ UNCHANGED embedded

ReadEmbedding(h) ==
    /\ handler[h].step = "embed"
    /\ Keep(h, "queue", experiences)
    /\ UNCHANGED bvars

QueueEmbedding(h) ==
    /\ handler[h].step = "queue"
    /\ embedded' = Append(embedded, Mem(h))
    /\ End(h)
    /\ UNCHANGED <<profile, locked, experiences, employers>>

\* A rejected query rolls the transaction back; after the commit there is nothing to
\* roll back, and the request is answered with an error though it was saved.
ProfileFault(h) ==
    /\ Fault(h)
    /\ locked' = IF locked = h THEN NoOne ELSE locked
    /\ UNCHANGED <<profile, experiences, employers, embedded>>

-----------------------------------------------------------------------------
ProfileRequest(h) ==
    /\ \E list \in BOOLEAN :
           \/ \E n \in Counts : Ask(h, "createProfile", [given |-> n, list |-> list])
           \/ \E n \in Counts \cup {Same} : Ask(h, "updateProfile", [given |-> n, list |-> list])
    /\ UNCHANGED bvars

ProfileStep(h) ==
    \/ ReadProfile(h) \/ InsertProfile(h) \/ SaveFields(h) \/ DeleteList(h)
    \/ FindEmployer(h) \/ SaveCompletion(h) \/ Commit(h) \/ ReadEmbedding(h) \/ QueueEmbedding(h)

ProfileNext == \E h \in Requests : ProfileRequest(h) \/ ProfileStep(h) \/ ProfileFault(h)

ProfileSpec == SInit /\ ProfileInit /\ [][ProfileNext]_<<svars, bvars>>

-----------------------------------------------------------------------------
(* Properties *)

\* Whatever overlaps or fails: of updates that changed a field first, and so waited for
\* each other's row, the list of one replaces the list of the other (updateCandidateProfile).
LockedListsReplace ==
    \A e, f \in experiences : e.waited /\ f.waited => e.by = f.by

\* Whatever overlaps or fails: the percentage is that of the fields in the row, half of
\* them are enough for more than "incomplete", and no profile is ever complete.
CompletionAgrees ==
    profile # NoProfile =>
        /\ profile.percentage = Percentage(profile.given)
        /\ profile.given >= 3 => profile.status # "incomplete"
        /\ profile.status \in {"incomplete", "basic"}

\* One list, one organisation for its employer, and the embedding of it last in the queue
ListsAreReplaced ==
    /\ \A e, f \in experiences : e.by = f.by
    /\ Cardinality(employers) <= 1
    /\ embedded # <<>> => Last(embedded) = experiences
=============================================================================
