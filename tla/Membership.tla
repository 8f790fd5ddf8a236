----------------------------- MODULE Membership -----------------------------
(***************************************************************************)
(* The roles, members and invitations of one organisation:                 *)
(* OrganizationRBACService and OrganizationRBACMigrationService.  No index *)
(* makes a role or a member unique.                                        *)
(***************************************************************************)
EXTENDS Server, Sequences

CONSTANTS
    Founder,        \* the user who creates the organisation
    Colleagues      \* other users

ASSUME MembershipAssumption == Founder \notin Colleagues /\ "first" \notin Requests

VARIABLES
    founded,        \* is there a row in organizations?
    roles,          \* organization_roles, with whether their permissions were saved
    members,        \* organization_memberships
    invitations     \* organization_invitations

mvars == <<founded, roles, members, invitations>>

Users == Colleagues \cup {Founder}

\* DEFAULT_ORGANIZATION_ROLES: of the others, none may manage members.
DefaultRoles == <<"owner", "recruiter">>

RoleRow(h, name, granted) == [id |-> <<h, name>>, name |-> name, granted |-> granted]
Role(id) == CHOOSE r \in roles : r.id = id
RoleIds == {r.id : r \in roles}

MemberRow(h, u, role, via) == [id |-> h, user |-> u, role |-> role, via |-> via, status |-> "active"]
IsMember(u) == \E m \in members : m.user = u
InvitationIds == {i.id : i \in invitations}
Invitation(id) == CHOOSE i \in invitations : i.id = id

\* hasPermission(MANAGE, MEMBERS), of the rows of a user findOne may return any.
MayManage(u) == \E m \in members :
    /\ m.user = u /\ m.status = "active"
    /\ Role(m.role).name = "owner" /\ Role(m.role).granted

\* No organisation yet, one of the time before there were roles, or one with its owner.
MembershipInit ==
    /\ founded \in BOOLEAN
    /\ \/ roles = {} /\ members = {}
       \/ /\ founded
          /\ roles = {RoleRow("first", DefaultRoles[n], TRUE) : n \in DOMAIN DefaultRoles}
          /\ members = {MemberRow("first", Founder, <<"first", "owner">>, "first")}
    /\ invitations = {}

PutMember(m) == members' = {n \in members : n.id # m.id} \cup {m}
SetInvitation(id, status) ==
    invitations' = {IF i.id = id THEN [i EXCEPT !.status = status] ELSE i : i \in invitations}

-----------------------------------------------------------------------------
(* createOrganizationWithOwner and migrateOrganization *)

InsertOrganization(h) ==
    /\ At(h, "createOrganization", "start")
    /\ founded' = TRUE
    /\ IF founded THEN End(h) ELSE Keep(h, "role", 1)
    /\ UNCHANGED <<roles, members, invitations>>

ReadOrganization(h) ==
    /\ At(h, "migrate", "start")
    /\ IF founded THEN Keep(h, "role", 1) ELSE End(h)
    /\ UNCHANGED mvars

\* An error of the creation is caught and undone.
Failed(h) ==
    IF handler[h].op = "createOrganization" THEN Goto(h, "undo") ELSE End(h)

HasRole(name) == \E r \in roles : r.name = name

\* The next default role, or the owner when they are all there.  A migration
\* leaves out the roles it finds.
NextRole(h, n) == IF n > Len(DefaultRoles) THEN Goto(h, "owner") ELSE Keep(h, "role", n)

InsertRole(h) ==
    /\ handler[h].step = "role"
    /\ LET name == DefaultRoles[Mem(h)] IN
       IF handler[h].op = "migrate" /\ HasRole(name)
       THEN UNCHANGED roles /\ NextRole(h, Mem(h) + 1)
       ELSE /\ roles' = IF founded THEN roles \cup {RoleRow(h, name, FALSE)} ELSE roles
            /\ IF founded THEN Goto(h, "grant") ELSE Failed(h)
    /\ UNCHANGED <<founded, members, invitations>>

GrantRole(h) ==
    /\ handler[h].step = "grant"
    /\ LET id == <<h, DefaultRoles[Mem(h)]>> IN
       roles' = {IF r.id = id THEN [r EXCEPT !.granted = TRUE] ELSE r : r \in roles}
    /\ NextRole(h, Mem(h) + 1)
    /\ UNCHANGED <<founded, members, invitations>>

\* A founder who is a member already is an error to the creation, which is undone,
\* and is left alone by a migration.
FindOwner(h) ==
    /\ handler[h].step = "owner"
    /\ IF IsMember(Founder)
       THEN Failed(h)
       ELSE IF HasRole("owner")
       THEN \E r \in roles : r.name = "owner" /\ Keep(h, "join", MemberRow(h, Founder, r.id, h))
       ELSE End(h)
    /\ UNCHANGED mvars

UndoOrganization_Not(h) ==
    /\ At(h, "createOrganization", "undo")
    /\ End(h)
    /\ UNCHANGED mvars

\* The rows of the organisation go with it.
UndoOrganization(h) ==
    /\ At(h, "createOrganization", "undo")
    /\ founded' = FALSE /\ roles' = {} /\ members' = {} /\ invitations' = {}
    /\ End(h)

-----------------------------------------------------------------------------
(* Members *)

CheckMember(h) ==
    /\ At(h, "addMember", "start")
    /\ IF ~IsMember(Arg(h).user) /\ Arg(h).role \in RoleIds
       THEN Keep(h, "join", MemberRow(h, Arg(h).user, Arg(h).role, h))
       ELSE End(h)
    /\ UNCHANGED mvars

\* Of an invitation, the membership comes first.
Join(h) ==
    /\ handler[h].step = "join"
    /\ IF Mem(h).role \in RoleIds
       THEN members' = members \cup {Mem(h)} /\ Check(h, handler[h].op = "accept", "accepted")
       ELSE UNCHANGED members /\ Failed(h)
    /\ UNCHANGED <<founded, roles, invitations>>

\* updateMemberRole and removeMemberFromOrganization read the row they save.
ReadMember(h) ==
    /\ handler[h].step = "start" /\ handler[h].op \in {"changeRole", "removeMember"}
    /\ IF MayManage(Arg(h).by) /\ IsMember(Arg(h).user)
          /\ (handler[h].op = "changeRole" => Arg(h).role \in RoleIds)
       THEN \E m \in members :
                /\ m.user = Arg(h).user
                /\ Keep(h, "save", IF handler[h].op = "changeRole"
                                   THEN [m EXCEPT !.role = Arg(h).role]
                                   ELSE [m EXCEPT !.status = "left"])
       ELSE End(h)
    /\ UNCHANGED mvars

SaveMember(h) ==
    /\ handler[h].step = "save"
    /\ IF Mem(h).role \in RoleIds THEN PutMember(Mem(h)) ELSE UNCHANGED members
    /\ End(h)
    /\ UNCHANGED <<founded, roles, invitations>>

-----------------------------------------------------------------------------
(* Invitations *)

CheckInvite(h) ==
    /\ At(h, "invite", "start")
    /\ Check(h, /\ ~IsMember(Arg(h).user) /\ Arg(h).role \in RoleIds
                /\ ~\E i \in invitations : i.user = Arg(h).user /\ i.status = "pending", "insert")
    /\ UNCHANGED mvars

InsertInvitation(h) ==
    /\ At(h, "invite", "insert")
    /\ invitations' = IF Arg(h).role \in RoleIds
                      THEN invitations \cup {[id |-> h, user |-> Arg(h).user, role |-> Arg(h).role,
                                              status |-> "pending", late |-> FALSE]}
                      ELSE invitations
    /\ End(h)
    /\ UNCHANGED <<founded, roles, members>>

\* The week of an invitation is over.
InvitationLapses(id) ==
    /\ id \in InvitationIds /\ ~Invitation(id).late
    /\ invitations' = {IF i.id = id THEN [i EXCEPT !.late = TRUE] ELSE i : i \in invitations}
    /\ UNCHANGED <<svars, founded, roles, members>>

IsPending(id) == id \in InvitationIds /\ Invitation(id).status = "pending"

ReadInvitation_AcceptFirst(h) ==
    /\ At(h, "accept", "start")
    /\ LET id == Arg(h)  i == Invitation(id) IN
       IF ~IsPending(id) THEN End(h)
       ELSE IF i.late THEN Goto(h, "expired")
       ELSE IF IsMember(i.user) THEN End(h)
       ELSE Goto(h, "accepted")
    /\ UNCHANGED mvars

ReadInvitation(h) ==
    /\ At(h, "accept", "start")
    /\ LET id == Arg(h)  i == Invitation(id) IN
       IF ~IsPending(id) THEN End(h)
       ELSE IF i.late THEN Goto(h, "expired")
       ELSE IF IsMember(i.user) THEN End(h)
       ELSE Keep(h, "join", MemberRow(h, i.user, i.role, id))
    /\ UNCHANGED mvars

CheckDecline(h) ==
    /\ At(h, "decline", "start")
    /\ Check(h, IsPending(Arg(h)), "declined")
    /\ UNCHANGED mvars

\* Its status is not looked at.
CheckCancel(h) ==
    /\ At(h, "cancel", "start")
    /\ Check(h, Arg(h).id \in InvitationIds /\ MayManage(Arg(h).by), "cancelled")
    /\ UNCHANGED mvars

\* The last step of all three is an update of the status.
CloseInvitation(h) ==
    /\ handler[h].step \in {"accepted", "expired", "declined", "cancelled"}
    /\ SetInvitation(IF handler[h].op = "cancel" THEN Arg(h).id ELSE Arg(h), handler[h].step)
    /\ End(h)
    /\ UNCHANGED <<founded, roles, members>>

-----------------------------------------------------------------------------
\* A failed query of the creation is caught, but not the one that undoes it.
MembershipFault(h) ==
    /\ faults < MaxFaults /\ Running(h)
    /\ faults' = faults + 1
    /\ handler' = [handler EXCEPT ![h] =
           IF handler[h].op = "createOrganization" /\ handler[h].step \notin {"start", "undo"}
           THEN [@ EXCEPT !.step = "undo"] ELSE Answered(h)]
    /\ UNCHANGED mvars

MembershipRequest(h) ==
    /\ \/ ~founded /\ Ask(h, "createOrganization", "none")
       \/ Ask(h, "migrate", "none")
       \/ \E u \in Colleagues, r \in RoleIds :
              Ask(h, "addMember", [user |-> u, role |-> r]) \/ Ask(h, "invite", [user |-> u, role |-> r])
       \/ \E u, by \in Users : Ask(h, "removeMember", [user |-> u, by |-> by])
       \/ \E u, by \in Users, r \in RoleIds : Ask(h, "changeRole", [user |-> u, by |-> by, role |-> r])
       \/ \E id \in InvitationIds :
              \/ Ask(h, "accept", id) \/ Ask(h, "decline", id)
              \/ \E by \in Users : Ask(h, "cancel", [id |-> id, by |-> by])
    /\ UNCHANGED mvars

MembershipStep(h) ==
    \/ InsertOrganization(h) \/ ReadOrganization(h) \/ InsertRole(h) \/ GrantRole(h)
    \/ FindOwner(h) \/ UndoOrganization(h)
    \/ CheckMember(h) \/ Join(h) \/ ReadMember(h) \/ SaveMember(h)
    \/ CheckInvite(h) \/ InsertInvitation(h) \/ ReadInvitation(h)
    \/ CheckDecline(h) \/ CheckCancel(h) \/ CloseInvitation(h)
    \/ MembershipFault(h)

MembershipNext ==
    \/ \E h \in Requests : MembershipRequest(h) \/ MembershipStep(h)
    \/ \E id \in Requests : InvitationLapses(id)

MembershipSpec == SInit /\ MembershipInit /\ [][MembershipNext]_<<svars, mvars>>

-----------------------------------------------------------------------------
(* Properties *)

\* An invitation is ACCEPTED only of somebody who is, or was, a member, wherever the
\* requests are interrupted (acceptInvitation).
AcceptedIsMember == \A i \in invitations : i.status = "accepted" => IsMember(i.user)

\* A creation that fails once leaves nothing behind; else the founder is a member.
FoundedHasFounder ==
    /\ Quiet /\ founded
    /\ \E h \in Requests : handler[h].op = "createOrganization"
    => IsMember(Founder)

\* Nobody is a member twice, or by an invitation that was declined.
MembersAreSingle ==
    /\ \A m, n \in members : m.user = n.user => m = n
    /\ \A m \in members, i \in invitations : m.via = i.id => i.status # "declined"
=============================================================================
