--------------------------------- MODULE Team ---------------------------------
(***************************************************************************)
(* The users of one tenant, their roles in it and in its projects, and the *)
(* invitations that bring in new users.                                    *)
(*                                                                         *)
(* Every operation that changes any of this locks the tenant's row first   *)
(* and decides on what it reads behind the lock, so each is one action.    *)
(***************************************************************************)
EXTENDS Integers, FiniteSets

CONSTANTS
    User,           \* ids the users table may ever hold
    Founder,        \* the user the platform was set up by
    Project,
    Invitation,     \* ids of invitations
    Given,          \* bound: the project roles anybody is given
    None

ASSUME TeamAssumption ==
    /\ Founder \in User /\ None \notin Project \cup User
    /\ Given \subseteq {"admin", "editor", "member", "viewer"}

VARIABLES
    users,          \* user -> role in the tenant ("none": no such user) and whether active
    membership,     \* project -> user -> role in the project, "none" without a row
    invitations     \* invitation -> its row

teamVars == <<users, membership, invitations>>

----------------------------------------------------------------------------

TenantRole == {"owner", "admin", "member"}
ProjectRole == {"admin", "editor", "member", "viewer"}

NoUser == [role |-> "none", active |-> FALSE]
NoInvitation == [status |-> "none", project |-> None, role |-> "viewer", by |-> None]

\* Identity.setup: the first user owns the tenant.
TeamInit ==
    /\ users = [u \in User |-> IF u = Founder THEN [role |-> "owner", active |-> TRUE] ELSE NoUser]
    /\ membership = [p \in Project |-> [u \in User |-> "none"]]
    /\ invitations = [i \in Invitation |-> NoInvitation]

----------------------------------------------------------------------------
(* Access: what a user may do, read anew for every request. *)

Exists(u) == users[u].role # "none"
ManagesTenant(u) == users[u].active /\ users[u].role \in {"owner", "admin"}

\* Who runs the tenant is an admin of every project.
RoleIn(u, p) ==
    IF ~users[u].active THEN "none"
    ELSE IF users[u].role \in {"owner", "admin"} THEN "admin" ELSE membership[p][u]

Grants(role) ==
    CASE role = "admin" -> {"project.read", "project.manage", "agent.edit", "agent.publish", "agent.run",
                            "resource.read", "resource.edit", "resource.manage"}
      [] role = "editor" -> {"project.read", "agent.edit", "agent.run", "resource.read", "resource.edit"}
      [] role = "member" -> {"project.read", "agent.run"}
      [] role = "viewer" -> {"project.read", "resource.read"}
      [] OTHER -> {}

May(u, p, permission) == permission \in Grants(RoleIn(u, p))

\* An invitation is for a project, or for the tenant alone.
MayInvite(u, p) == IF p = None THEN ManagesTenant(u) ELSE May(u, p, "project.manage")

----------------------------------------------------------------------------
(* Members: what is changed, and by whom. *)

Pending(i) == invitations[i].status = "pending"
Open(i) == invitations[i].status \in {"pending", "expired"}
Revoked(row) == [row EXCEPT !.status = "revoked"]

\* The invitations somebody sent who is no longer who they were, all or for one project.
Withdraw(u, from) ==
    invitations' = [i \in Invitation |->
                      IF Open(i) /\ invitations[i].by = u /\ invitations[i].project \in from
                      THEN Revoked(invitations[i]) ELSE invitations[i]]

\* Members.update: a new role or state for somebody else, never for the owner; only
\* the owner deals with admins.
Update(actor, target, role, active) ==
    /\ ManagesTenant(actor)
    /\ Exists(target) /\ users[target].role # "owner" /\ target # actor
    /\ users[actor].role # "owner" => users[target].role # "admin" /\ role # "admin"
    /\ users' = [users EXCEPT ![target] = [role |-> role, active |-> active]]
    /\ Withdraw(target, Project \cup {None})
    /\ UNCHANGED membership

\* Members.transfer
Became(row, role) == [role |-> role, active |-> row.active]
CanOwn(u) == Exists(u) /\ users[u].active
Transfer(actor, target) ==
    /\ users[actor].active /\ users[actor].role = "owner"
    /\ CanOwn(target) /\ target # actor
    /\ users' = [users EXCEPT ![actor] = Became(@, "admin"), ![target] = Became(@, "owner")]
    /\ UNCHANGED <<membership, invitations>>

\* Which invitations go with a change of the role in one project?
WithdrawnOnRemoval(role, p) == IF role = "none" THEN {p} ELSE {}
WithdrawnWith(role, p) == {p}

\* Members.setProjectMember: gives a plain member a role in a project or takes it away.
SetProjectMember(actor, p, target, role) ==
    /\ May(actor, p, "project.manage")
    /\ users[target].role = "member" /\ target # actor
    /\ role # "none" => users[target].active
    /\ membership' = [membership EXCEPT ![p][target] = role]
    /\ Withdraw(target, WithdrawnWith(role, p))
    /\ UNCHANGED users

\* Members.invite
Invite(actor, i, p, role) ==
    /\ MayInvite(actor, p)
    /\ invitations[i] = NoInvitation
    /\ invitations' = [invitations EXCEPT ![i] =
                         [status |-> "pending", project |-> p, role |-> role, by |-> actor]]
    /\ UNCHANGED <<users, membership>>

\* Members.revokeInvitation
RevokeInvitation(actor, i) ==
    /\ Open(i)
    /\ MayInvite(actor, invitations[i].project)
    /\ invitations' = [invitations EXCEPT ![i] = Revoked(@)]
    /\ UNCHANGED <<users, membership>>

\* Three days pass.
Expire(i) ==
    /\ Pending(i)
    /\ invitations' = [invitations EXCEPT ![i].status = "expired"]
    /\ UNCHANGED <<users, membership>>

\* Members.join: whoever holds the invitation becomes a user, once.
Join(i, u) ==
    LET row == invitations[i] IN
    /\ Pending(i) /\ ~Exists(u)
    /\ users' = [users EXCEPT ![u] = [role |-> "member", active |-> TRUE]]
    /\ membership' = [p \in Project |-> IF p = row.project THEN [membership[p] EXCEPT ![u] = row.role]
                                        ELSE membership[p]]
    /\ invitations' = [invitations EXCEPT ![i].status = "accepted"]

\* A step somebody takes behind the tenant's lock, or the clock.
TeamStep ==
    \/ \E actor, target \in User :
         \/ \E role \in {"admin", "member"}, active \in BOOLEAN : Update(actor, target, role, active)
         \/ Transfer(actor, target)
         \/ \E p \in Project, role \in Given \cup {"none"} : SetProjectMember(actor, p, target, role)
    \/ \E actor \in User, i \in Invitation :
         \/ \E p \in Project \cup {None}, role \in Given : Invite(actor, i, p, role)
         \/ RevokeInvitation(actor, i)
    \/ \E i \in Invitation : Expire(i) \/ \E u \in User : Join(i, u)

TeamSpec == TeamInit /\ [][TeamStep]_teamVars

----------------------------------------------------------------------------
(* What the team can rely on. *)

\* The type invariant.
TeamTypeOK ==
    /\ users \in [User -> [role : TenantRole \cup {"none"}, active : BOOLEAN]]
    /\ membership \in [Project -> [User -> ProjectRole \cup {"none"}]]
    /\ invitations \in [Invitation -> [status : {"none", "pending", "expired", "revoked", "accepted"},
                                       project : Project \cup {None}, role : ProjectRole,
                                       by : User \cup {None}]]

\* Whoever changes hands, is promoted, demoted, disabled or removed: the tenant has
\* one owner, who is active, so somebody can always undo what was done.
OneActiveOwner ==
    \E o \in User : /\ users[o] = [role |-> "owner", active |-> TRUE]
                    /\ \A u \in User : users[u].role = "owner" => u = o

\* An invitation that can still be accepted was sent by somebody who could still send
\* it: it does not outlive its sender's role, in the tenant or in its project.
PendingInvitationsAreBacked ==
    \A i \in Invitation :
        Pending(i) => invitations[i].by \in User /\ MayInvite(invitations[i].by, invitations[i].project)

\* Nobody's authority hangs in the air, neither the team's nor an invitation's.
AuthorityIsBacked == OneActiveOwner /\ PendingInvitationsAreBacked
=============================================================================
