--------------------------- MODULE Proposals_proofs ---------------------------
(***************************************************************************)
(* Proofs about Team, and about Proposals, whose operations are those of   *)
(* the team, for any number of users, projects, invitations, proposals and *)
(* requests that apply them.                                               *)
(*                                                                         *)
(* Of proposals: at most one request works on one, because only            *)
(* an undecided one is handed to it, so its row, its effects and the place *)
(* of that request fit together: Fine says how a row fits its effects,     *)
(* Holds how the request that works on it fits both.  A step of a request  *)
(* replaces these three and nothing else.                                  *)
(***************************************************************************)
EXTENDS Proposals, TLAPS

----------------------------------------------------------------------------
(* The team alone: users, memberships and invitations keep their shape, and authority is backed. *)

LEMMA InitTypes == TeamInit => TeamTypeOK
  BY TeamAssumption DEF TeamInit, TeamTypeOK, NoUser, NoInvitation, TenantRole, ProjectRole

\* What is left of an invitation that is withdrawn.
LEMMA RevokedRow ==
    ASSUME TeamTypeOK, NEW i \in Invitation
    PROVE  /\ Revoked(invitations[i]) = [status |-> "revoked", project |-> invitations[i].project,
                                         role |-> invitations[i].role, by |-> invitations[i].by]
  BY DEF TeamTypeOK, Revoked

LEMMA WithdrawKeepsTypes ==
    ASSUME TeamTypeOK, NEW u \in User, NEW from, Withdraw(u, from)
    PROVE  invitations' \in [Invitation -> [status : {"none", "pending", "expired", "revoked", "accepted"},
                                            project : Project \cup {None}, role : ProjectRole,
                                            by : User \cup {None}]]
  BY RevokedRow DEF TeamTypeOK, Withdraw

LEMMA StepKeepsTypes ==
    ASSUME TeamTypeOK, [TeamStep]_teamVars
    PROVE  TeamTypeOK'
<1> USE DEF TeamTypeOK
<1>1. ASSUME NEW actor \in User, NEW target \in User, NEW role \in {"admin", "member"}, NEW active \in BOOLEAN,
             Update(actor, target, role, active)
      PROVE  TeamTypeOK'
  BY <1>1, WithdrawKeepsTypes DEF Update, TenantRole
<1>2. ASSUME NEW actor \in User, NEW target \in User, Transfer(actor, target)
      PROVE  TeamTypeOK'
  BY <1>2 DEF Transfer, Became, TenantRole
<1>3. ASSUME NEW actor \in User, NEW target \in User, NEW p \in Project, NEW role \in Given \cup {"none"},
             SetProjectMember(actor, p, target, role)
      PROVE  TeamTypeOK'
  <2>1. role \in ProjectRole \cup {"none"}
    BY TeamAssumption DEF ProjectRole
  <2> QED BY <1>3, <2>1, WithdrawKeepsTypes DEF SetProjectMember
<1>4. ASSUME NEW actor \in User, NEW i \in Invitation, NEW p \in Project \cup {None}, NEW role \in Given,
             Invite(actor, i, p, role)
      PROVE  TeamTypeOK'
  BY <1>4, TeamAssumption DEF Invite, ProjectRole
<1>5. ASSUME NEW actor \in User, NEW i \in Invitation, RevokeInvitation(actor, i)
      PROVE  TeamTypeOK'
  BY <1>5, RevokedRow DEF RevokeInvitation
<1>6. ASSUME NEW i \in Invitation, Expire(i)
      PROVE  TeamTypeOK'
  BY <1>6 DEF Expire
<1>7. ASSUME NEW i \in Invitation, NEW u \in User, Join(i, u)
      PROVE  TeamTypeOK'
  BY <1>7 DEF Join, TenantRole
<1>8. CASE UNCHANGED teamVars
  BY <1>8 DEF teamVars
<1> HIDE DEF TeamTypeOK
<1> QED BY <1>1, <1>2, <1>3, <1>4, <1>5, <1>6, <1>7, <1>8 DEF TeamStep

\* Users, memberships and invitations keep their shape.
THEOREM TeamTypeCorrectness == TeamSpec => []TeamTypeOK
  BY InitTypes, StepKeepsTypes, PTL DEF TeamSpec

----------------------------------------------------------------------------
(* One owner. *)

\* Whoever does not exist is not active.
NobodyIsIdle == \A u \in User : users[u].role = "none" => ~users[u].active

LEMMA InitAuthority == TeamInit => NobodyIsIdle /\ OneActiveOwner /\ PendingInvitationsAreBacked
<1> SUFFICES ASSUME TeamInit PROVE NobodyIsIdle /\ OneActiveOwner /\ PendingInvitationsAreBacked
  OBVIOUS
<1>1. NobodyIsIdle
  BY DEF TeamInit, NobodyIsIdle, NoUser
<1>2. OneActiveOwner
  <2>1. users[Founder] = [role |-> "owner", active |-> TRUE]
    BY TeamAssumption DEF TeamInit
  <2>2. \A u \in User \ {Founder} : users[u].role # "owner"
    BY DEF TeamInit, NoUser
  <2> QED BY <2>1, <2>2, TeamAssumption DEF OneActiveOwner
<1>3. PendingInvitationsAreBacked
  BY DEF TeamInit, PendingInvitationsAreBacked, Pending, NoInvitation
<1> QED BY <1>1, <1>2, <1>3

\* What a step does to the users: nothing, a new role or state for somebody who is not
\* the owner, a new owner, or a new member.
UsersStep ==
    \/ users' = users
    \/ \E target \in User, role \in {"admin", "member"}, active \in BOOLEAN :
         /\ users[target].role \notin {"none", "owner"}
         /\ users' = [users EXCEPT ![target] = [role |-> role, active |-> active]]
    \/ \E actor, target \in User :
         /\ actor # target /\ users[actor].active /\ users[actor].role = "owner" /\ users[target].active
         /\ users' = [users EXCEPT ![actor] = [role |-> "admin", active |-> TRUE],
                                   ![target] = [role |-> "owner", active |-> TRUE]]
    \/ \E u \in User :
         users[u].role = "none" /\ users' = [users EXCEPT ![u] = [role |-> "member", active |-> TRUE]]

LEMMA StepIsUsersStep ==
    ASSUME TeamTypeOK, [TeamStep]_teamVars
    PROVE  UsersStep
<1>1. ASSUME NEW actor \in User, NEW target \in User, NEW role \in {"admin", "member"}, NEW active \in BOOLEAN,
             Update(actor, target, role, active)
      PROVE  UsersStep
  BY <1>1 DEF Update, Exists, UsersStep
<1>2. ASSUME NEW actor \in User, NEW target \in User, Transfer(actor, target)
      PROVE  UsersStep
  <2>1. users[actor].active = TRUE /\ users[target].active = TRUE /\ actor # target
    BY <1>2 DEF Transfer, CanOwn, TeamTypeOK
  <2>2. Became(users[actor], "admin") = [role |-> "admin", active |-> TRUE]
    BY <2>1 DEF Became
  <2>3. Became(users[target], "owner") = [role |-> "owner", active |-> TRUE]
    BY <2>1 DEF Became
  <2>4. users' = [users EXCEPT ![actor] = Became(@, "admin"), ![target] = Became(@, "owner")]
    BY <1>2 DEF Transfer
  <2>5. users' = [users EXCEPT ![actor] = [role |-> "admin", active |-> TRUE],
                              ![target] = [role |-> "owner", active |-> TRUE]]
    BY <2>1, <2>2, <2>3, <2>4 DEF TeamTypeOK
  <2> QED BY <1>2, <2>1, <2>5 DEF Transfer, UsersStep
<1>3. ASSUME NEW i \in Invitation, NEW u \in User, Join(i, u)
      PROVE  UsersStep
  BY <1>3 DEF Join, Exists, UsersStep
<1>4. CASE users' = users
  BY <1>4 DEF UsersStep
<1> QED BY <1>1, <1>2, <1>3, <1>4
        DEF TeamStep, teamVars, SetProjectMember, Invite, RevokeInvitation, Expire

LEMMA StepKeepsOwner ==
    ASSUME TeamTypeOK, OneActiveOwner, [TeamStep]_teamVars
    PROVE  OneActiveOwner'
<1> USE DEF TeamTypeOK
<1>1. PICK o \in User : users[o] = [role |-> "owner", active |-> TRUE]
                        /\ \A u \in User : users[u].role = "owner" => u = o
  BY DEF OneActiveOwner
<1>0. users[o].role = "owner" /\ users[o].active = TRUE
  BY <1>1
<1>2. CASE users' = users
  BY <1>1, <1>2 DEF OneActiveOwner
<1>3. ASSUME NEW target \in User, NEW role \in {"admin", "member"}, NEW active \in BOOLEAN,
             users[target].role \notin {"none", "owner"},
             users' = [users EXCEPT ![target] = [role |-> role, active |-> active]]
      PROVE  OneActiveOwner'
  <2>1. users'[target] = [role |-> role, active |-> active] /\ o # target
    BY <1>0, <1>3
  <2>2. users'[target].role # "owner"
    BY <2>1
  <2>3. \A u \in User \ {target} : users'[u] = users[u]
    BY <1>3
  <2> QED BY <1>1, <2>1, <2>2, <2>3, ZenonT(40) DEF OneActiveOwner
<1>4. ASSUME NEW actor \in User, NEW target \in User,
             actor # target, users[actor].role = "owner",
             users' = [users EXCEPT ![actor] = [role |-> "admin", active |-> TRUE],
                                   ![target] = [role |-> "owner", active |-> TRUE]]
      PROVE  OneActiveOwner'
  <2>1. actor = o
    BY <1>1, <1>4
  <2>2. users'[target] = [role |-> "owner", active |-> TRUE] /\ users'[actor] = [role |-> "admin", active |-> TRUE]
    BY <1>4
  <2>3. \A u \in User \ {actor, target} : users'[u] = users[u]
    BY <1>4
  <2>4. users'[actor].role # "owner"
    BY <2>2
  <2>5. \A u \in User : users'[u].role = "owner" => u = target
    BY <1>1, <2>1, <2>3, <2>4
  <2> QED BY <2>2, <2>5 DEF OneActiveOwner
<1>5. ASSUME NEW u \in User, users[u].role = "none",
             users' = [users EXCEPT ![u] = [role |-> "member", active |-> TRUE]]
      PROVE  OneActiveOwner'
  <2>1. users'[u] = [role |-> "member", active |-> TRUE] /\ o # u
    BY <1>0, <1>5
  <2>2. users'[u].role # "owner"
    BY <2>1
  <2>3. \A v \in User \ {u} : users'[v] = users[v]
    BY <1>5
  <2> QED BY <1>1, <2>1, <2>2, <2>3, ZenonT(40) DEF OneActiveOwner
<1> QED BY <1>2, <1>3, <1>4, <1>5, StepIsUsersStep DEF UsersStep

----------------------------------------------------------------------------
(* Nobody's invitation outlives what allowed it. *)

LEMMA StepKeepsNobody ==
    ASSUME TeamTypeOK, NobodyIsIdle, [TeamStep]_teamVars
    PROVE  NobodyIsIdle'
<1> SUFFICES ASSUME NEW v \in User, users'[v].role = "none"
             PROVE  ~users'[v].active
  BY DEF NobodyIsIdle
<1> USE DEF TeamTypeOK
<1>1. ASSUME NEW u \in User, NEW row, row.role # "none", users' = [users EXCEPT ![u] = row]
      PROVE  ~users'[v].active
  BY <1>1 DEF NobodyIsIdle
<1>2. ASSUME NEW actor \in User, NEW target \in User,
             users' = [users EXCEPT ![actor] = [role |-> "admin", active |-> TRUE],
                                   ![target] = [role |-> "owner", active |-> TRUE]]
      PROVE  ~users'[v].active
  <2>1. CASE v = target
    BY <1>2, <2>1
  <2>2. CASE v = actor /\ actor # target
    BY <1>2, <2>2
  <2>3. CASE v # target /\ v # actor
    BY <1>2, <2>3 DEF NobodyIsIdle
  <2> QED BY <2>1, <2>2, <2>3
<1>3. CASE users' = users
  BY <1>3 DEF NobodyIsIdle
<1>4. ASSUME NEW role \in {"admin", "member"}, NEW active \in BOOLEAN
      PROVE  [role |-> role, active |-> active].role # "none"
  OBVIOUS
<1> QED BY <1>1, <1>2, <1>3, <1>4, StepIsUsersStep DEF UsersStep

\* Who may invite somewhere: whoever runs the tenant, and the admins of the project.
LEMMA Inviters ==
    ASSUME TeamTypeOK, NEW u \in User, NEW p \in Project \cup {None}
    PROVE  MayInvite(u, p) <=> /\ users[u].active
                               /\ \/ users[u].role \in {"owner", "admin"}
                                  \/ p # None /\ membership[p][u] = "admin"
<1>1. CASE p = None
  BY <1>1 DEF MayInvite, ManagesTenant
<1>2. CASE p # None
  <2>1. \A role \in {"none", "admin", "editor", "member", "viewer"} :
           "project.manage" \in Grants(role) <=> role = "admin"
    BY DEF Grants
  <2>2. RoleIn(u, p) \in {"none", "admin", "editor", "member", "viewer"}
    BY <1>2 DEF RoleIn, TeamTypeOK, ProjectRole
  <2>3. MayInvite(u, p) <=> RoleIn(u, p) = "admin"
    BY <1>2, <2>1, <2>2 DEF MayInvite, May
  <2> QED BY <1>2, <2>3 DEF RoleIn, TeamTypeOK
<1> QED BY <1>1, <1>2

\* An invitation is pending after a step because it was and nobody withdrew it, or
\* because it was just sent.
LEMMA PendingBefore ==
    ASSUME TeamTypeOK, [TeamStep]_teamVars, NEW i \in Invitation, Pending(i)'
    PROVE  \/ Pending(i) /\ invitations'[i] = invitations[i]
           \/ \E actor \in User, p \in Project \cup {None}, role \in Given : Invite(actor, i, p, role)
<1> USE DEF TeamTypeOK, Pending
<1>1. ASSUME NEW u \in User, NEW from, Withdraw(u, from)
      PROVE  Pending(i) /\ invitations'[i] = invitations[i]
  <2>1. Revoked(invitations[i]).status # "pending"
    BY RevokedRow
  <2> QED BY <1>1, <2>1 DEF Withdraw
<1>2. ASSUME NEW actor \in User, NEW j \in Invitation, NEW p \in Project \cup {None}, NEW role \in Given,
             Invite(actor, j, p, role)
      PROVE  \/ Pending(i) /\ invitations'[i] = invitations[i]
             \/ Invite(actor, i, p, role)
  BY <1>2 DEF Invite
<1>3. ASSUME NEW actor \in User, NEW j \in Invitation, RevokeInvitation(actor, j)
      PROVE  Pending(i) /\ invitations'[i] = invitations[i]
  <2>1. Revoked(invitations[j]).status # "pending"
    BY RevokedRow
  <2> QED BY <1>3, <2>1 DEF RevokeInvitation
<1>4. ASSUME NEW j \in Invitation, Expire(j)
      PROVE  Pending(i) /\ invitations'[i] = invitations[i]
  BY <1>4 DEF Expire
<1>5. ASSUME NEW j \in Invitation, NEW u \in User, Join(j, u)
      PROVE  Pending(i) /\ invitations'[i] = invitations[i]
  BY <1>5 DEF Join
<1>6. CASE invitations' = invitations
  BY <1>6
<1> HIDE DEF TeamTypeOK, Pending
<1> QED BY <1>1, <1>2, <1>3, <1>4, <1>5, <1>6
        DEF TeamStep, teamVars, Update, Transfer, SetProjectMember

\* What lets somebody invite.
Standing(u, p) == /\ users[u].active
                  /\ users[u].role \in {"owner", "admin"} \/ (p # None /\ membership[p][u] = "admin")

LEMMA InvitersNext ==
    TeamTypeOK' => (\A u \in User, p \in Project \cup {None} : MayInvite(u, p) <=> Standing(u, p))'
<1>1. TeamTypeOK => \A u \in User, p \in Project \cup {None} : MayInvite(u, p) <=> Standing(u, p)
  BY Inviters DEF Standing
<1> QED BY <1>1, PTL

\* While an invitation is pending and not withdrawn its sender's standing stays.
LEMMA StandingStays ==
    ASSUME TeamTypeOK, NobodyIsIdle, [TeamStep]_teamVars, NEW i \in Invitation, NEW u \in User,
           NEW p \in Project \cup {None}, Pending(i), Pending(i)',
           invitations[i].by = u, invitations[i].project = p, Standing(u, p)
    PROVE  Standing(u, p)'
<1> USE DEF TeamTypeOK
<1>1. ASSUME NEW v \in User, NEW from, Withdraw(v, from), p \in from
      PROVE  u # v
  <2>1. SUFFICES ASSUME u = v PROVE FALSE
    OBVIOUS
  <2>2. invitations'[i] = Revoked(invitations[i])
    BY <1>1, <2>1 DEF Withdraw, Pending, Open
  <2> QED BY <2>2, RevokedRow DEF Pending
<1>2. ASSUME NEW actor \in User, NEW target \in User, NEW role \in {"admin", "member"}, NEW active \in BOOLEAN,
             Update(actor, target, role, active)
      PROVE  Standing(u, p)'
  <2>1. u # target
    BY <1>1, <1>2 DEF Update
  <2> QED BY <1>2, <2>1 DEF Update, Standing
<1>3. ASSUME NEW actor \in User, NEW target \in User, Transfer(actor, target)
      PROVE  Standing(u, p)'
  <2>1. membership' = membership /\ users[actor].active /\ users[target].active
    BY <1>3 DEF Transfer, CanOwn
  <2>2. CASE u = target
    <3>1. users'[u] = Became(users[target], "owner")
      BY <1>3, <2>2 DEF Transfer
    <3>2. users'[u].role = "owner" /\ users'[u].active
      BY <2>1, <3>1 DEF Became
    <3> QED BY <3>2 DEF Standing
  <2>3. CASE u = actor /\ u # target
    <3>1. users'[u] = Became(users[actor], "admin")
      BY <1>3, <2>3 DEF Transfer
    <3>2. users'[u].role = "admin" /\ users'[u].active
      BY <2>1, <2>3, <3>1 DEF Became
    <3> QED BY <3>2 DEF Standing
  <2>4. CASE u # actor /\ u # target
    <3>1. users'[u] = users[u]
      BY <1>3, <2>4 DEF Transfer
    <3> QED BY <2>1, <3>1 DEF Standing
  <2> QED BY <2>2, <2>3, <2>4
<1>4. ASSUME NEW actor \in User, NEW target \in User, NEW q \in Project, NEW role \in Given \cup {"none"},
             SetProjectMember(actor, q, target, role)
      PROVE  Standing(u, p)'
  <2>1. u = target => p # q
    BY <1>1, <1>4 DEF SetProjectMember, WithdrawnWith
  <2>2. p # None => membership'[p][u] = membership[p][u]
    BY <1>4, <2>1 DEF SetProjectMember
  <2> QED BY <1>4, <2>2 DEF SetProjectMember, Standing
<1>5. ASSUME NEW j \in Invitation, NEW v \in User, Join(j, v)
      PROVE  Standing(u, p)'
  <2>1. u # v
    BY <1>5 DEF Join, Exists, NobodyIsIdle, Standing
  <2>2. users'[u] = users[u]
    BY <1>5, <2>1 DEF Join
  <2>3. p # None => membership'[p][u] = membership[p][u]
    BY <1>5, <2>1 DEF Join
  <2> QED BY <2>2, <2>3 DEF Standing
<1>6. CASE users' = users /\ membership' = membership
  BY <1>6 DEF Standing
<1> HIDE DEF TeamTypeOK
<1> QED BY <1>2, <1>3, <1>4, <1>5, <1>6
        DEF TeamStep, teamVars, Invite, RevokeInvitation, Expire

LEMMA StepKeepsBacked ==
    ASSUME TeamTypeOK, NobodyIsIdle, PendingInvitationsAreBacked, [TeamStep]_teamVars
    PROVE  PendingInvitationsAreBacked'
<1>1. TeamTypeOK'
  BY StepKeepsTypes
<1>2. SUFFICES ASSUME NEW i \in Invitation, Pending(i)'
               PROVE  invitations'[i].by \in User /\ MayInvite(invitations[i].by, invitations[i].project)'
  BY DEF PendingInvitationsAreBacked
<1>3. CASE Pending(i) /\ invitations'[i] = invitations[i]
  <2>1. PICK u \in User, p \in Project \cup {None} :
           u = invitations[i].by /\ p = invitations[i].project /\ MayInvite(u, p)
    BY <1>3 DEF PendingInvitationsAreBacked, TeamTypeOK
  <2>2. Standing(u, p)
    BY <2>1, Inviters DEF Standing
  <2>3. Standing(u, p)'
    BY <1>2, <1>3, <2>1, <2>2, StandingStays
  <2>4. MayInvite(u, p)'
    BY <1>1, <2>3, InvitersNext
  <2> QED BY <1>3, <2>1, <2>4 DEF MayInvite, ManagesTenant, May, RoleIn
<1>4. ASSUME NEW actor \in User, NEW p \in Project \cup {None}, NEW role \in Given, Invite(actor, i, p, role)
      PROVE  invitations'[i].by \in User /\ MayInvite(invitations[i].by, invitations[i].project)'
  <2>1. /\ invitations'[i].by = actor /\ invitations'[i].project = p
        /\ users' = users /\ membership' = membership
    BY <1>4 DEF Invite, TeamTypeOK
  <2> QED BY <1>4, <2>1 DEF Invite, MayInvite, ManagesTenant, May, RoleIn
<1> QED BY <1>2, <1>3, <1>4, PendingBefore

\* Whoever is promoted, demoted, disabled, removed or made the owner, at whatever moment: the
\* team has its one active owner, and no invitation can be accepted whose sender may not invite.
THEOREM AuthorityStands == TeamSpec => []AuthorityIsBacked
<1>1. TeamTypeOK /\ NobodyIsIdle /\ OneActiveOwner /\ PendingInvitationsAreBacked /\ [TeamStep]_teamVars
      => (NobodyIsIdle /\ OneActiveOwner /\ PendingInvitationsAreBacked)'
  BY StepKeepsNobody, StepKeepsOwner, StepKeepsBacked
<1>2. OneActiveOwner /\ PendingInvitationsAreBacked => AuthorityIsBacked
  BY DEF AuthorityIsBacked
<1> QED BY InitAuthority, InitTypes, StepKeepsTypes, <1>1, <1>2, PTL DEF TeamSpec

----------------------------------------------------------------------------
(* Proposals: the shape of their state. *)

Statuses == {"none", "pending", "dismissed", "applying", "succeeded", "failed"}
MarkSet == {"pending", "running", "succeeded", "failed", "unknown"}
Rows == [status : Statuses, by : User \cup {None}, project : Project \cup {None},
         operations : Seq(Offered), actions : Seq(MarkSet), expired : BOOLEAN]
Places == [stage : {"idle", "checking", "running", "entered", "taken", "saved"},
           proposal : Proposal \cup {None}, step : Nat]

\* What a row says of a step is so.
Truth(row, done, i) ==
    /\ row.actions[i] = "succeeded" \/ row.status = "succeeded" => i <= Len(done)
    /\ row.actions[i] = "pending" => i > Len(done)
    /\ row.actions[i] = "failed" => i > Len(done) \/ Registry[row.operations[i]].rereads

Fine(row, done) ==
    /\ Len(row.actions) = Len(row.operations)
    /\ row.status # "none" => row.by \in User /\ row.project \in Project /\ Len(row.operations) > 0
    /\ done = [i \in 1..Len(done) |-> i]
    /\ row.status \in {"none", "pending", "dismissed"} => Len(done) = 0
    /\ row.status = "pending" => \A i \in 1..Len(row.operations) : row.actions[i] = "pending"
    /\ \A i \in 1..Len(row.operations) : Truth(row, done, i)

Holds(row, done, at) ==
    /\ at.stage # "idle" /\ row.status = "applying"
    /\ at.step \in 1..Len(row.operations)
    /\ Len(done) = IF at.stage \in {"taken", "saved"} THEN at.step ELSE at.step - 1
    /\ row.actions[at.step] = CASE at.stage = "checking" -> "pending"
                                [] at.stage = "saved" -> "succeeded"
                                [] OTHER -> "running"
    /\ \A i \in 1..Len(row.operations) : i > at.step => row.actions[i] = "pending"

Works(x) == appliers[x].proposal \in Proposal /\ Holds(rows[appliers[x].proposal], effects[appliers[x].proposal], appliers[x])

Inv == /\ rows \in [Proposal -> Rows] /\ effects \in [Proposal -> Seq(Nat)] /\ appliers \in [Applier -> Places]
       /\ \A r \in Proposal : Fine(rows[r], effects[r])
       /\ \A x \in Applier : appliers[x] = Idle \/ Works(x)
       /\ \A x, y \in Applier : x # y /\ appliers[x] # Idle /\ appliers[y] # Idle => appliers[x].proposal # appliers[y].proposal

----------------------------------------------------------------------------
(* Rows and places. *)

LEMMA DecidedRow ==
    ASSUME NEW row \in Rows, NEW status \in Statuses
    PROVE  /\ Decided(row, status) \in Rows /\ Decided(row, status).status = status
           /\ Decided(row, status).by = row.by /\ Decided(row, status).project = row.project
           /\ Decided(row, status).operations = row.operations /\ Decided(row, status).actions = row.actions
  BY DEF Rows, Decided

LEMMA OverdueRow ==
    ASSUME NEW row \in Rows
    PROVE  /\ Overdue(row) \in Rows /\ Overdue(row).status = row.status
           /\ Overdue(row).by = row.by /\ Overdue(row).project = row.project
           /\ Overdue(row).operations = row.operations /\ Overdue(row).actions = row.actions
  BY DEF Rows, Overdue

LEMMA MarkedRow ==
    ASSUME NEW row \in Rows, Len(row.actions) = Len(row.operations),
           NEW i \in 1..Len(row.operations), NEW mark \in MarkSet
    PROVE  /\ Marked(row, i, mark) \in Rows /\ Marked(row, i, mark).status = row.status
           /\ Marked(row, i, mark).by = row.by /\ Marked(row, i, mark).project = row.project
           /\ Marked(row, i, mark).operations = row.operations
           /\ Len(Marked(row, i, mark).actions) = Len(row.operations)
           /\ Marked(row, i, mark).actions[i] = mark
           /\ \A k \in 1..Len(row.operations) : k # i => Marked(row, i, mark).actions[k] = row.actions[k]
<1>1. [row.actions EXCEPT ![i] = mark] \in Seq(MarkSet)
  BY DEF Rows
<1>2. Len([row.actions EXCEPT ![i] = mark]) = Len(row.actions)
  BY DEF Rows
<1>3. [row.actions EXCEPT ![i] = mark][i] = mark
  BY DEF Rows
<1>4. \A k \in 1..Len(row.operations) : k # i => [row.actions EXCEPT ![i] = mark][k] = row.actions[k]
  BY DEF Rows
<1> QED BY <1>1, <1>2, <1>3, <1>4 DEF Rows, Marked

LEMMA PreparedRow ==
    ASSUME NEW u \in User, NEW p \in Project, NEW operations \in Seq(Offered), operations # <<>>
    PROVE  Prepared(u, p, operations) \in Rows /\ Fine(Prepared(u, p, operations), <<>>)
<1>1. [i \in 1..Len(operations) |-> "pending"] \in Seq(MarkSet)
  BY DEF MarkSet
<1>2. Len([i \in 1..Len(operations) |-> "pending"]) = Len(operations)
  OBVIOUS
<1>3. Prepared(u, p, operations) \in Rows
  BY <1>1 DEF Prepared, Rows, Statuses
<1>4. <<>> = [i \in 1..Len(<<>>) |-> i]
  OBVIOUS
<1>5. Len(operations) > 0
  OBVIOUS
<1> QED BY <1>2, <1>3, <1>4, <1>5 DEF Prepared, Fine, Truth

LEMMA NoRow == NoProposal \in Rows /\ NoProposal.status = "none" /\ Fine(NoProposal, <<>>)
<1>1. Prepared(None, None, <<>>) \in Rows /\ Prepared(None, None, <<>>).operations = <<>>
      /\ Len(Prepared(None, None, <<>>).actions) = 0
  BY DEF Prepared, Rows, Statuses, MarkSet
<1>2. <<>> = [i \in 1..Len(<<>>) |-> i]
  OBVIOUS
<1> QED BY <1>1, <1>2, DecidedRow DEF NoProposal, Fine, Statuses

LEMMA Place ==
    ASSUME NEW r \in Proposal \cup {None}, NEW i \in Nat,
           NEW stage \in {"idle", "checking", "running", "entered", "taken", "saved"}
    PROVE  /\ Stands(r, i, stage) \in Places /\ Stands(r, i, stage).stage = stage
           /\ Stands(r, i, stage).proposal = r /\ Stands(r, i, stage).step = i
  BY DEF Stands, Places

LEMMA IdlePlace == Idle \in Places /\ Idle.stage = "idle"
  BY Place DEF Idle

----------------------------------------------------------------------------
(* What a working request may do to its row. *)

\* It marks its step as running, or, once the step had its effect, as succeeded, and goes on to "next".
LEMMA MarkFits ==
    ASSUME NEW row \in Rows, NEW done \in Seq(Nat), NEW at \in Places, Fine(row, done), Holds(row, done, at),
           NEW mark, NEW next, NEW r \in Proposal,
           \/ at.stage = "checking" /\ mark = "running" /\ next = "running"
           \/ at.stage = "taken" /\ mark = "succeeded" /\ next = "saved"
    PROVE  /\ Fine(Marked(row, at.step, mark), done)
           /\ Holds(Marked(row, at.step, mark), done, Stands(r, at.step, next))
<1> DEFINE new == Marked(row, at.step, mark)
<1> DEFINE place == Stands(r, at.step, next)
<1>1. at.step \in 1..Len(row.operations) /\ at.step \in Nat /\ mark \in MarkSet /\ Len(row.actions) = Len(row.operations)
  BY DEF Holds, Fine, Places, MarkSet
<1>2. /\ new.status = row.status /\ new.by = row.by /\ new.project = row.project /\ new.operations = row.operations
      /\ Len(new.actions) = Len(row.operations) /\ new.actions[at.step] = mark
      /\ \A k \in 1..Len(row.operations) : k # at.step => new.actions[k] = row.actions[k]
  BY <1>1, MarkedRow
<1>3. place.stage = next /\ place.step = at.step
  BY <1>1, Place
<1> HIDE DEF new, place
<1>4. row.status = "applying" /\ Len(done) \in Nat
  BY DEF Holds
<1>5. Holds(new, done, place)
  BY <1>1, <1>2, <1>3 DEF Holds
<1>6. ASSUME NEW i \in 1..Len(row.operations) PROVE Truth(new, done, i)
  <2>1. CASE i # at.step
    BY <1>2, <2>1 DEF Fine, Truth
  <2>2. CASE i = at.step
    BY <1>2, <1>4, <2>2 DEF Holds, Truth
  <2> QED BY <2>1, <2>2
<1>7. Fine(new, done)
  BY <1>2, <1>4, <1>6 DEF Fine
<1> QED BY <1>5, <1>7 DEF new, place

\* It fails, and says "failed" only of a step that had no effect or whose operation reads again.
LEMMA FailureFits ==
    ASSUME NEW row \in Rows, NEW done \in Seq(Nat), NEW at \in Places, Fine(row, done), Holds(row, done, at),
           NEW mark \in {"failed", "unknown"},
           mark = "failed" => at.stage \notin {"taken", "saved"} \/ Registry[row.operations[at.step]].rereads
    PROVE  Fine(Decided(Marked(row, at.step, mark), "failed"), done)
<1> DEFINE new == Marked(row, at.step, mark)
<1>1. at.step \in 1..Len(row.operations) /\ at.step \in Nat /\ mark \in MarkSet /\ Len(row.actions) = Len(row.operations)
  BY DEF Holds, Fine, Places, MarkSet
<1>2. /\ new \in Rows /\ new.status = row.status /\ new.by = row.by /\ new.project = row.project /\ new.operations = row.operations
      /\ Len(new.actions) = Len(row.operations) /\ new.actions[at.step] = mark
      /\ \A k \in 1..Len(row.operations) : k # at.step => new.actions[k] = row.actions[k]
  BY <1>1, MarkedRow
<1> HIDE DEF new
<1>3. /\ Decided(new, "failed").status = "failed" /\ Decided(new, "failed").by = row.by
      /\ Decided(new, "failed").project = row.project /\ Decided(new, "failed").operations = row.operations
      /\ Decided(new, "failed").actions = new.actions
  BY <1>2, DecidedRow DEF Statuses
<1>4. row.status = "applying" /\ Len(done) \in Nat
  BY DEF Holds
<1>5. ASSUME NEW i \in 1..Len(row.operations) PROVE Truth(Decided(new, "failed"), done, i)
  <2>1. CASE i # at.step
    BY <1>2, <1>3, <1>4, <2>1 DEF Fine, Truth
  <2>2. CASE i = at.step
    BY <1>1, <1>2, <1>3, <1>4, <2>2 DEF Holds, Truth
  <2> QED BY <2>1, <2>2
<1>6. Fine(Decided(new, "failed"), done)
  BY <1>2, <1>3, <1>4, <1>5 DEF Fine
<1> QED BY <1>6 DEF new

\* Its step has its effect.
LEMMA EffectFits ==
    ASSUME NEW row \in Rows, NEW done \in Seq(Nat), NEW at \in Places, Fine(row, done), Holds(row, done, at),
           at.stage \in {"running", "entered"}, NEW r \in Proposal
    PROVE  /\ Append(done, at.step) \in Seq(Nat) /\ Fine(row, Append(done, at.step))
           /\ Holds(row, Append(done, at.step), Stands(r, at.step, "taken"))
<1> DEFINE more == Append(done, at.step)
<1> DEFINE place == Stands(r, at.step, "taken")
<1>1. at.step \in 1..Len(row.operations) /\ at.step \in Nat /\ Len(done) = at.step - 1
      /\ row.actions[at.step] = "running" /\ row.status = "applying"
  BY DEF Holds, Places
<1>2. more \in Seq(Nat) /\ Len(more) = at.step
  BY <1>1
<1>3. more = [i \in 1..Len(more) |-> i]
  <2>1. \A i \in 1..Len(done) : done[i] = i
    BY DEF Fine
  <2>2. \A i \in 1..Len(more) : more[i] = i
    BY <1>1, <2>1
  <2> QED BY <1>2, <2>2
<1>4. place.stage = "taken" /\ place.step = at.step
  BY <1>1, Place
<1> HIDE DEF more, place
<1>5. Holds(row, more, place)
  BY <1>1, <1>2, <1>4 DEF Holds
<1>6. ASSUME NEW i \in 1..Len(row.operations) PROVE Truth(row, more, i)
  <2>1. CASE i > at.step
    <3>1. row.actions[i] = "pending"
      BY <2>1 DEF Holds
    <3> QED BY <1>1, <1>2, <2>1, <3>1 DEF Truth
  <2>2. CASE i = at.step
    BY <1>1, <1>2, <2>2 DEF Truth
  <2>3. CASE i < at.step
    BY <1>1, <1>2, <2>3 DEF Fine, Truth
  <2> QED BY <1>1, <2>1, <2>2, <2>3
<1>7. Fine(row, more)
  BY <1>1, <1>2, <1>3, <1>6 DEF Fine
<1> QED BY <1>2, <1>5, <1>7 DEF more, place

\* Its step is on record and it goes on to the next, or it was the last.
LEMMA NextFits ==
    ASSUME NEW row \in Rows, NEW done \in Seq(Nat), NEW at \in Places, Fine(row, done), Holds(row, done, at),
           at.stage = "saved", NEW r \in Proposal
    PROVE  /\ at.step < Len(row.operations) => Holds(row, done, Stands(r, at.step + 1, "checking"))
           /\ ~(at.step < Len(row.operations)) => Fine(Decided(row, "succeeded"), done)
<1>1. at.step \in 1..Len(row.operations) /\ at.step \in Nat /\ Len(done) = at.step /\ row.status = "applying"
  BY DEF Holds, Places
<1>2. ASSUME at.step < Len(row.operations) PROVE Holds(row, done, Stands(r, at.step + 1, "checking"))
  <2>1. Stands(r, at.step + 1, "checking").stage = "checking" /\ Stands(r, at.step + 1, "checking").step = at.step + 1
    BY <1>1, Place
  <2>2. at.step + 1 \in 1..Len(row.operations) /\ row.actions[at.step + 1] = "pending"
    BY <1>1, <1>2 DEF Holds
  <2> QED BY <1>1, <2>1, <2>2 DEF Holds
<1>3. ASSUME ~(at.step < Len(row.operations)) PROVE Fine(Decided(row, "succeeded"), done)
  <2>1. Len(done) = Len(row.operations)
    BY <1>1, <1>3
  <2>2. /\ Decided(row, "succeeded").status = "succeeded" /\ Decided(row, "succeeded").by = row.by
        /\ Decided(row, "succeeded").project = row.project /\ Decided(row, "succeeded").operations = row.operations
        /\ Decided(row, "succeeded").actions = row.actions
    BY DecidedRow DEF Statuses
  <2> QED BY <1>1, <2>1, <2>2 DEF Fine, Truth
<1> QED BY <1>2, <1>3

----------------------------------------------------------------------------
(* Every step keeps the invariant. *)

\* A request works on its own proposal, and what it makes of it fits.
LEMMA WorkKeeps ==
    ASSUME Inv, NEW x \in Applier, Works(x), NEW row \in Rows, NEW done \in Seq(Nat), NEW at \in Places,
           Fine(row, done),
           at = Idle \/ (at.proposal = appliers[x].proposal /\ Holds(row, done, at)),
           rows' = [rows EXCEPT ![appliers[x].proposal] = row],
           effects' = [effects EXCEPT ![appliers[x].proposal] = done],
           appliers' = [appliers EXCEPT ![x] = at]
    PROVE  Inv'
<1> DEFINE r == appliers[x].proposal
<1>1. r \in Proposal /\ appliers[x] # Idle
  BY IdlePlace DEF Works, Holds
<1>2. rows'[r] = row /\ effects'[r] = done /\ appliers'[x] = at
      /\ \A q \in Proposal : q # r => rows'[q] = rows[q] /\ effects'[q] = effects[q]
      /\ \A y \in Applier : y # x => appliers'[y] = appliers[y]
  BY <1>1 DEF Inv
<1>3. rows' \in [Proposal -> Rows] /\ effects' \in [Proposal -> Seq(Nat)] /\ appliers' \in [Applier -> Places]
  BY DEF Inv
<1>4. \A y \in Applier : y # x /\ appliers[y] # Idle => appliers[y].proposal \in Proposal /\ appliers[y].proposal # r
  BY <1>1 DEF Inv, Works
<1> HIDE DEF r
<1>5. \A q \in Proposal : Fine(rows'[q], effects'[q])
  BY <1>2 DEF Inv
<1>6. ASSUME NEW y \in Applier PROVE appliers'[y] = Idle \/ Works(y)'
  <2>1. CASE y = x
    BY <1>1, <1>2, <2>1 DEF Works, r
  <2>2. CASE y # x /\ appliers[y] # Idle
    BY <1>2, <1>4, <2>2 DEF Works, Inv
  <2> QED BY <1>2, <2>1, <2>2
<1>7. ASSUME NEW y \in Applier, NEW z \in Applier, y # z, appliers'[y] # Idle, appliers'[z] # Idle
      PROVE  appliers'[y].proposal # appliers'[z].proposal
  <2>1. at # Idle => at.proposal = r
    BY DEF r
  <2> QED BY <1>2, <1>4, <1>7, <2>1 DEF Inv
<1> QED BY <1>3, <1>5, <1>6, <1>7 DEF Inv

\* A proposal nobody works on is decided on.
LEMMA DecisionKeeps ==
    ASSUME Inv, NEW r \in Proposal, rows[r].status # "applying", NEW row \in Rows, Fine(row, effects[r]),
           rows' = [rows EXCEPT ![r] = row], effects' = effects,
           \/ appliers' = appliers
           \/ \E x \in Applier : /\ appliers[x] = Idle /\ Stands(r, 1, "checking") \in Places
                                 /\ Stands(r, 1, "checking").proposal = r
                                 /\ Holds(row, effects[r], Stands(r, 1, "checking"))
                                 /\ appliers' = [appliers EXCEPT ![x] = Stands(r, 1, "checking")]
    PROVE  Inv'
<1>1. rows'[r] = row /\ \A q \in Proposal : q # r => rows'[q] = rows[q]
  BY DEF Inv
<1>2. rows' \in [Proposal -> Rows] /\ effects' \in [Proposal -> Seq(Nat)] /\ appliers' \in [Applier -> Places]
  BY DEF Inv
<1>3. \A y \in Applier : appliers[y] # Idle => Works(y) /\ appliers[y].proposal # r
  BY DEF Inv, Works, Holds
<1>4. \A q \in Proposal : Fine(rows'[q], effects'[q])
  BY <1>1 DEF Inv
<1>5. \A y \in Applier : appliers[y] # Idle /\ appliers'[y] = appliers[y] => Works(y)'
  BY <1>1, <1>3 DEF Works
<1>6. CASE appliers' = appliers
  BY <1>2, <1>4, <1>5, <1>6 DEF Inv
<1>7. ASSUME NEW x \in Applier, appliers[x] = Idle, Stands(r, 1, "checking").proposal = r,
             Holds(row, effects[r], Stands(r, 1, "checking")),
             appliers' = [appliers EXCEPT ![x] = Stands(r, 1, "checking")]
      PROVE  Inv'
  <2>1. appliers'[x] = Stands(r, 1, "checking") /\ \A y \in Applier : y # x => appliers'[y] = appliers[y]
    BY <1>7 DEF Inv
  <2>2. Works(x)'
    BY <1>1, <1>7, <2>1 DEF Works
  <2>3. \A y \in Applier : appliers'[y] = Idle \/ Works(y)'
    BY <1>5, <2>1, <2>2
  <2>4. \A y, z \in Applier : y # z /\ appliers'[y] # Idle /\ appliers'[z] # Idle => appliers'[y].proposal # appliers'[z].proposal
    BY <1>3, <1>7, <2>1 DEF Inv
  <2> QED BY <1>2, <1>4, <2>3, <2>4 DEF Inv
<1> QED BY <1>6, <1>7

LEMMA StepKeeps ==
    ASSUME Inv, NEW x \in Applier, Step(x)
    PROVE  Inv'
<1> DEFINE at == appliers[x]
<1> DEFINE r == at.proposal
<1>1. at # Idle
  BY IdlePlace DEF Step, Check, Enter, Refuse, Take, TakeAccess, RereadFails, Save, Advance, Breaks, Lose, At
<1>2. Works(x) /\ r \in Proposal /\ rows[r] \in Rows /\ effects[r] \in Seq(Nat) /\ at \in Places
      /\ Fine(rows[r], effects[r]) /\ Holds(rows[r], effects[r], at)
  BY <1>1 DEF Inv, Works
<1>3. at.step \in 1..Len(rows[r].operations) /\ at.step \in Nat /\ Len(rows[r].actions) = Len(rows[r].operations)
  BY <1>2 DEF Holds, Fine, Places
<1>4. effects = [effects EXCEPT ![r] = effects[r]] /\ rows = [rows EXCEPT ![r] = rows[r]]
  BY <1>2 DEF Inv
<1>5. ASSUME NEW error, Fails(x, error),
             error = "ApiError" => at.stage \notin {"taken", "saved"} \/ Registry[rows[r].operations[at.step]].rereads
      PROVE  Inv'
  <2>1. Failure(error) \in {"failed", "unknown"} /\ Failure(error) \in MarkSet /\ (Failure(error) = "failed" => error = "ApiError")
    BY DEF Failure, MarkSet
  <2>2. Fine(Decided(Marked(rows[r], at.step, Failure(error)), "failed"), effects[r])
    BY <1>2, <1>5, <2>1, FailureFits
  <2>3. Decided(Marked(rows[r], at.step, Failure(error)), "failed") \in Rows
    BY <1>2, <1>3, <2>1, MarkedRow, DecidedRow DEF Statuses
  <2>4. /\ rows' = [rows EXCEPT ![r] = Decided(Marked(rows[r], at.step, Failure(error)), "failed")]
        /\ appliers' = [appliers EXCEPT ![x] = Idle] /\ effects' = [effects EXCEPT ![r] = effects[r]]
    BY <1>2, <1>4, <1>5 DEF Fails, Inv
  <2> QED BY <1>2, <2>2, <2>3, <2>4, IdlePlace, WorkKeeps
<1>6. ASSUME NEW mark, NEW next, Marks(x, mark), Goes(x, next), effects' = effects,
             \/ at.stage = "checking" /\ mark = "running" /\ next = "running"
             \/ at.stage = "taken" /\ mark = "succeeded" /\ next = "saved"
      PROVE  Inv'
  <2>1. Fine(Marked(rows[r], at.step, mark), effects[r]) /\ Holds(Marked(rows[r], at.step, mark), effects[r], Stands(r, at.step, next))
    BY <1>2, <1>6, MarkFits
  <2>2. Marked(rows[r], at.step, mark) \in Rows
    BY <1>2, <1>3, <1>6, MarkedRow, SMTT(30) DEF MarkSet
  <2>3. Stands(r, at.step, next) \in Places /\ Stands(r, at.step, next).proposal = r
    BY <1>2, <1>3, <1>6, Place
  <2>4. /\ rows' = [rows EXCEPT ![r] = Marked(rows[r], at.step, mark)]
        /\ appliers' = [appliers EXCEPT ![x] = Stands(r, at.step, next)] /\ effects' = [effects EXCEPT ![r] = effects[r]]
    BY <1>2, <1>4, <1>6 DEF Marks, Goes, Inv
  <2> QED BY <1>2, <2>1, <2>2, <2>3, <2>4, WorkKeeps
<1>7. ASSUME Happens(x), Goes(x, "taken"), rows' = rows, at.stage \in {"running", "entered"}
      PROVE  Inv'
  <2>1. /\ Append(effects[r], at.step) \in Seq(Nat) /\ Fine(rows[r], Append(effects[r], at.step))
        /\ Holds(rows[r], Append(effects[r], at.step), Stands(r, at.step, "taken"))
    BY <1>2, <1>7, EffectFits
  <2>2. Stands(r, at.step, "taken") \in Places /\ Stands(r, at.step, "taken").proposal = r
    BY <1>2, <1>3, Place
  <2>3. /\ effects' = [effects EXCEPT ![r] = Append(effects[r], at.step)]
        /\ appliers' = [appliers EXCEPT ![x] = Stands(r, at.step, "taken")] /\ rows' = [rows EXCEPT ![r] = rows[r]]
    BY <1>2, <1>4, <1>7 DEF Happens, Goes, Inv
  <2> QED BY <1>2, <2>1, <2>2, <2>3, WorkKeeps
<1>8. ASSUME Goes(x, "entered"), rows' = rows, effects' = effects, at.stage = "running"
      PROVE  Inv'
  <2>1. Stands(r, at.step, "entered") \in Places /\ Stands(r, at.step, "entered").proposal = r
        /\ Stands(r, at.step, "entered").stage = "entered" /\ Stands(r, at.step, "entered").step = at.step
    BY <1>2, <1>3, Place
  <2>2. Holds(rows[r], effects[r], Stands(r, at.step, "entered"))
    BY <1>2, <1>8, <2>1 DEF Holds
  <2>3. appliers' = [appliers EXCEPT ![x] = Stands(r, at.step, "entered")]
    BY <1>8 DEF Goes
  <2> QED BY <1>2, <1>4, <1>8, <2>1, <2>2, <2>3, WorkKeeps
<1>9. CASE Advance(x)
  <2>1. at.stage = "saved" /\ effects' = effects
    BY <1>9 DEF Advance, At
  <2>2. CASE at.step < Len(rows[r].operations)
    <3>1. rows' = rows /\ appliers' = [appliers EXCEPT ![x] = Stands(r, at.step + 1, "checking")]
      BY <1>9, <2>2 DEF Advance, Row
    <3>2. Stands(r, at.step + 1, "checking") \in Places /\ Stands(r, at.step + 1, "checking").proposal = r
      BY <1>2, <1>3, Place
    <3>3. Holds(rows[r], effects[r], Stands(r, at.step + 1, "checking"))
      BY <1>2, <2>1, <2>2, NextFits
    <3> QED BY <1>2, <1>4, <2>1, <3>1, <3>2, <3>3, WorkKeeps
  <2>3. CASE ~(at.step < Len(rows[r].operations))
    <3>1. rows' = [rows EXCEPT ![r] = Decided(rows[r], "succeeded")] /\ appliers' = [appliers EXCEPT ![x] = Idle]
      BY <1>2, <1>9, <2>3 DEF Advance, Row, Inv
    <3>2. Fine(Decided(rows[r], "succeeded"), effects[r]) /\ Decided(rows[r], "succeeded") \in Rows
      BY <1>2, <2>1, <2>3, NextFits, DecidedRow DEF Statuses
    <3> QED BY <1>2, <1>4, <2>1, <3>1, <3>2, IdlePlace, WorkKeeps
  <2> QED BY <2>2, <2>3
<1>10. CASE Lose(x)
  BY <1>2, <1>4, <1>10, IdlePlace, WorkKeeps DEF Lose
<1>11. CASE Check(x)
  BY <1>5, <1>6, <1>11 DEF Check, At
<1>12. CASE Enter(x)
  BY <1>5, <1>8, <1>12 DEF Enter, At
<1>13. CASE Refuse(x)
  BY <1>5, <1>13 DEF Refuse, At
<1>14. CASE Take(x)
  BY <1>7, <1>14 DEF Take, At
<1>15. ASSUME NEW target \in User, NEW role \in Given \cup {"none"}, TakeAccess(x, target, role) PROVE Inv'
  BY <1>7, <1>15 DEF TakeAccess, At
<1>16. CASE RereadFails(x)
  BY <1>5, <1>16 DEF RereadFails, Rereads, Operation, Row
<1>17. CASE Save(x)
  BY <1>6, <1>17 DEF Save, At
<1>18. CASE Breaks(x)
  BY <1>5, <1>18 DEF Breaks
<1> QED BY <1>9, <1>10, <1>11, <1>12, <1>13, <1>14, <1>15, <1>16, <1>17, <1>18 DEF Step

LEMMA InitKeeps == Init => Inv
<1> SUFFICES ASSUME Init PROVE Inv
  OBVIOUS
<1> USE DEF Init
<1>1. rows \in [Proposal -> Rows] /\ \A r \in Proposal : Fine(rows[r], effects[r])
  BY NoRow
<1>2. effects \in [Proposal -> Seq(Nat)] /\ appliers \in [Applier -> Places]
  BY IdlePlace
<1> QED BY <1>1, <1>2 DEF Inv

LEMMA OperationsOffered == \A operations \in BoundedSeq(Offered, MaxSteps) : operations \in Seq(Offered)
  BY ProposalsAssumption DEF BoundedSeq, SeqOf, ProposalsAssumption

LEMMA DecideKeeps ==
    ASSUME Inv, NEW r \in Proposal,
           \/ \E u \in User, p \in Project, operations \in BoundedSeq(Offered, MaxSteps) : Propose(r, u, p, operations)
           \/ Lapse(r) \/ Dismiss(r) \/ \E x \in Applier : Approve(x, r)
    PROVE  Inv'
<1>1. rows[r] \in Rows /\ Fine(rows[r], effects[r]) /\ effects[r] \in Seq(Nat)
  BY DEF Inv
<1>2. ASSUME NEW u \in User, NEW p \in Project, NEW operations \in BoundedSeq(Offered, MaxSteps), Propose(r, u, p, operations)
      PROVE  Inv'
  <2>1. rows[r].status = "none"
    BY <1>2, NoRow DEF Propose
  <2>2. effects[r] = <<>>
    BY <1>1, <2>1 DEF Fine
  <2>3. Prepared(u, p, operations) \in Rows /\ Fine(Prepared(u, p, operations), effects[r])
    BY <1>2, <2>2, OperationsOffered, PreparedRow DEF Propose
  <2> QED BY <1>2, <2>1, <2>3, DecisionKeeps DEF Propose
<1>3. CASE Lapse(r)
  <2>1. rows[r].status = "pending" /\ rows' = [rows EXCEPT ![r] = Overdue(rows[r])]
    BY <1>3 DEF Lapse, Inv
  <2>2. Overdue(rows[r]) \in Rows /\ Fine(Overdue(rows[r]), effects[r])
    BY <1>1, OverdueRow DEF Fine, Truth
  <2> QED BY <1>3, <2>1, <2>2, DecisionKeeps DEF Lapse
<1>4. ASSUME NEW status \in {"dismissed", "applying"}, rows[r].status = "pending"
      PROVE  /\ Decided(rows[r], status) \in Rows /\ Fine(Decided(rows[r], status), effects[r])
             /\ Decided(rows[r], status).operations = rows[r].operations /\ Decided(rows[r], status).status = status
             /\ Decided(rows[r], status).actions = rows[r].actions
  BY <1>1, <1>4, DecidedRow DEF Statuses, Fine, Truth
<1>5. CASE Dismiss(r)
  <2>1. rows[r].status = "pending" /\ rows' = [rows EXCEPT ![r] = Decided(rows[r], "dismissed")]
    BY <1>5 DEF Dismiss, Undecided, Inv
  <2> QED BY <1>4, <1>5, <2>1, DecisionKeeps DEF Dismiss
<1>6. ASSUME NEW x \in Applier, Approve(x, r) PROVE Inv'
  <2>1. rows[r].status = "pending" /\ rows' = [rows EXCEPT ![r] = Decided(rows[r], "applying")]
    BY <1>6 DEF Approve, Undecided, Inv
  <2>2. appliers[x] = Idle /\ effects' = effects /\ appliers' = [appliers EXCEPT ![x] = Stands(r, 1, "checking")]
    BY <1>6 DEF Approve
  <2>3. Stands(r, 1, "checking") \in Places /\ Stands(r, 1, "checking").proposal = r
        /\ Stands(r, 1, "checking").stage = "checking" /\ Stands(r, 1, "checking").step = 1
    BY Place
  <2>4. Len(effects[r]) = 0 /\ Len(rows[r].operations) > 0 /\ Len(rows[r].operations) \in Nat
        /\ \A i \in 1..Len(rows[r].operations) : rows[r].actions[i] = "pending"
    BY <1>1, <2>1 DEF Fine, Rows
  <2>5. Holds(Decided(rows[r], "applying"), effects[r], Stands(r, 1, "checking"))
    BY <1>4, <2>1, <2>3, <2>4 DEF Holds
  <2> QED BY <1>4, <2>1, <2>2, <2>3, <2>5, DecisionKeeps
<1> QED BY <1>2, <1>3, <1>5, <1>6

LEMMA NextKeeps ==
    ASSUME Inv, [Next]_vars
    PROVE  Inv'
<1>1. CASE UNCHANGED proposalVars
  BY <1>1 DEF proposalVars, Inv, Works
<1>2. CASE UNCHANGED vars
  BY <1>1, <1>2 DEF vars
<1> QED BY <1>1, <1>2, DecideKeeps, StepKeeps DEF Next

----------------------------------------------------------------------------
(* What follows. *)

\* To the team, an assistant that changes a member's role is its user doing so.
LEMMA StepIsTeamStep ==
    ASSUME Inv, [Next]_vars
    PROVE  [TeamStep]_teamVars
<1>1. ASSUME NEW x \in Applier, Step(x) PROVE TeamStep \/ UNCHANGED teamVars
  <2>1. ASSUME NEW target \in User, NEW role \in Given \cup {"none"}, TakeAccess(x, target, role) PROVE TeamStep
    <3>1. appliers[x] # Idle
      BY <2>1, IdlePlace DEF TakeAccess, At
    <3>2. Row(x).status = "applying" /\ Fine(Row(x), effects[appliers[x].proposal])
      BY <3>1 DEF Inv, Works, Holds, Row
    <3>3. Row(x).by \in User /\ Row(x).project \in Project
      BY <3>2 DEF Fine
    <3>4. SetProjectMember(Row(x).by, Row(x).project, target, role)
      BY <2>1 DEF TakeAccess
    <3> QED BY <3>3, <3>4 DEF TeamStep
  <2> QED BY <1>1, <2>1 DEF Step, Check, Enter, Refuse, Take, RereadFails, Save, Advance, Breaks, Lose, Fails
<1>2. ASSUME NEW r \in Proposal,
             \/ \E u \in User, p \in Project, operations \in BoundedSeq(Offered, MaxSteps) : Propose(r, u, p, operations)
             \/ Lapse(r) \/ Dismiss(r) \/ \E x \in Applier : Approve(x, r)
      PROVE  UNCHANGED teamVars
  BY <1>2 DEF Propose, Lapse, Dismiss, Approve
<1> QED BY <1>1, <1>2 DEF Next, vars

\* Rows, effects and the requests that work on them fit together.
THEOREM ProposalsInvariant == Spec => []Inv
<1>1. Init => Inv
  BY InitKeeps
<1>2. Inv /\ [Next]_vars => Inv'
  BY NextKeeps
<1> QED BY <1>1, <1>2, PTL DEF Spec

\* The assistant does nothing to the team that its users could not do: operations.ts calls Members'
\* own functions in its user's name, so the composition implements Team.
THEOREM ProposalsActAsUsers == Spec => TeamSpec
<1>1. Init => TeamInit
  BY DEF Init
<1>2. Inv /\ [Next]_vars => [TeamStep]_teamVars
  BY StepIsTeamStep
<1> QED BY <1>1, <1>2, ProposalsInvariant, PTL DEF Spec, TeamSpec

\* With an assistant at work too, the tenant keeps one active owner and invitations are backed.
THEOREM AuthorityStandsToo == Spec => []AuthorityIsBacked
  BY ProposalsActAsUsers, AuthorityStands, PTL

\* Repeated, interrupted or failed: a step has its effect at most once and in its order, and none
\* of a proposal that nobody applied (assistant.ts, apply).
THEOREM StepsAreAppliedOnce == Spec => []AppliedOnceInOrder
<1>1. Inv => AppliedOnceInOrder
  <2> SUFFICES ASSUME Inv, NEW r \in Proposal
               PROVE  /\ effects[r] = [i \in 1..Len(effects[r]) |-> i]
                      /\ effects[r] # <<>> => rows[r].status \in {"applying", "succeeded", "failed"}
    BY DEF AppliedOnceInOrder
  <2>1. Fine(rows[r], effects[r]) /\ rows[r].status \in Statuses /\ effects[r] \in Seq(Nat)
    BY DEF Inv, Rows
  <2>2. effects[r] # <<>> => Len(effects[r]) # 0
    BY <2>1
  <2> QED BY <2>1, <2>2 DEF Fine, Statuses
<1> QED BY <1>1, ProposalsInvariant, PTL

\* The record of a proposal is true of its effects: a recorded success took effect, a step recorded
\* as pending did not, and "failed" is said of an effect only by an operation that reads again.
THEOREM RecordsAreTrue == Spec => []RecordTellsTheTruth
<1>1. Inv => RecordTellsTheTruth
  <2> SUFFICES ASSUME Inv, NEW r \in Proposal, NEW i \in 1..Len(rows[r].operations)
               PROVE  /\ rows[r].actions[i] = "succeeded" \/ rows[r].status = "succeeded" => i <= Len(effects[r])
                      /\ rows[r].actions[i] = "pending" => ~(i <= Len(effects[r]))
                      /\ rows[r].actions[i] = "failed" => ~(i <= Len(effects[r])) \/ Registry[rows[r].operations[i]].rereads
    BY DEF RecordTellsTheTruth
  <2>1. Truth(rows[r], effects[r], i) /\ Len(effects[r]) \in Nat /\ i \in Nat
    BY DEF Inv, Fine
  <2> QED BY <2>1 DEF Truth
<1> QED BY <1>1, ProposalsInvariant, PTL

=============================================================================
