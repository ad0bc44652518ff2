------------------------------ MODULE Proposals ------------------------------
(***************************************************************************)
(* The platform assistant's proposals: the model prepares a list of        *)
(* changes, its user applies or dismisses it, and the control plane then   *)
(* carries out one step after another in the user's name.                  *)
(*                                                                         *)
(* Only the approval is a transaction.  Between the steps, and between a   *)
(* step's checks, its effect and the record of it, users come and go (the  *)
(* module Team), the same request may be served again, the database may    *)
(* fail and the control plane may stop; nothing takes a proposal up again. *)
(***************************************************************************)
EXTENDS Team, Sequences, SequencesExt

CONSTANTS
    Proposal,       \* one for each run and tool call of the model
    Applier,        \* bound: requests to apply or dismiss that are served at a time
    Offered,        \* bound: the operations the model proposes
    MaxSteps        \* bound: ... in one proposal

VARIABLES
    rows,       \* proposal -> its row in platform_assistant_proposals
    appliers,   \* applier -> where the request it serves stands
    effects     \* history: proposal -> the steps that had their effect

proposalVars == <<rows, appliers, effects>>
vars == <<teamVars, proposalVars>>

----------------------------------------------------------------------------
(* The operations a model may propose, one for each kind there is. *)

\* "rereads": what was written is read again, as its user, before it is returned.
Write(permission, tenantAdmin, risk, rereads) ==
    [permission |-> permission, tenantAdmin |-> tenantAdmin, risk |-> risk, rereads |-> rereads]
Registry ==
    [o \in {"agent.update", "workflow.create", "project.create", "agent.publish", "member.set"} |->
        CASE o = "agent.update" -> Write("agent.edit", FALSE, "draft", FALSE)
          [] o = "workflow.create" -> Write("agent.edit", FALSE, "draft", TRUE)
          [] o = "project.create" -> Write("project.read", TRUE, "draft", TRUE)
          [] o = "agent.publish" -> Write("agent.publish", FALSE, "publish", FALSE)
          [] o = "member.set" -> Write("project.manage", FALSE, "access", FALSE)]

ASSUME ProposalsAssumption == Offered \subseteq DOMAIN Registry /\ MaxSteps \in Nat

\* PlatformAssistant.allowed
Allowed(u, p, o) ==
    May(u, p, Registry[o].permission) /\ (Registry[o].tenantAdmin => ManagesTenant(u))

HasAccess(u, p) == RoleIn(u, p) # "none"

\* A row with another status, past its hour, or with another mark on one of its steps.
Decided(row, status) == [row EXCEPT !.status = status]
Overdue(row) == [row EXCEPT !.expired = TRUE]
Marked(row, i, mark) == [row EXCEPT !.actions = [row.actions EXCEPT ![i] = mark]]

Prepared(u, p, operations) ==
    [status |-> "pending", by |-> u, project |-> p, operations |-> operations,
     actions |-> [i \in 1..Len(operations) |-> "pending"], expired |-> FALSE]
NoProposal == Decided(Prepared(None, None, <<>>), "none")
Stands(r, i, stage) == [stage |-> stage, proposal |-> r, step |-> i]
Idle == Stands(None, 0, "idle")

Init ==
    /\ TeamInit
    /\ rows = [r \in Proposal |-> NoProposal]
    /\ appliers = [x \in Applier |-> Idle]
    /\ effects = [r \in Proposal |-> <<>>]

----------------------------------------------------------------------------
(* Preparing and deciding. *)

\* A publication, or a change of access, is reviewed on its own.
ReviewedAlone(operations) ==
    (\E i \in 1..Len(operations) : Registry[operations[i]].risk # "draft") => Len(operations) = 1

\* The tool call propose; repeated, it finds its row.
Propose(r, u, p, operations) ==
    /\ rows[r] = NoProposal
    /\ \A i \in 1..Len(operations) : Allowed(u, p, operations[i])
    /\ operations # <<>> /\ ReviewedAlone(operations)
    /\ rows' = [rows EXCEPT ![r] = Prepared(u, p, operations)]
    /\ UNCHANGED <<teamVars, appliers, effects>>

\* An hour passes.
Lapse(r) ==
    /\ rows[r].status = "pending" /\ ~rows[r].expired
    /\ rows' = [rows EXCEPT ![r] = Overdue(@)]
    /\ UNCHANGED <<teamVars, appliers, effects>>

\* Behind the row's lock only what is still pending is decided; a request that comes
\* later is answered with what is there.
UndecidedOrStuck(row) == row.status \in {"pending", "applying"}
Undecided(row) == row.status = "pending"

Approve(x, r) ==
    LET row == rows[r] IN
    /\ appliers[x] = Idle
    /\ Undecided(row) /\ ~row.expired
    /\ HasAccess(row.by, row.project)
    /\ \A i \in 1..Len(row.operations) : Allowed(row.by, row.project, row.operations[i])
    /\ rows' = [rows EXCEPT ![r] = Decided(@, "applying")]
    /\ appliers' = [appliers EXCEPT ![x] = Stands(r, 1, "checking")]
    /\ UNCHANGED <<teamVars, effects>>

Dismiss(r) ==
    /\ Undecided(rows[r])
    /\ HasAccess(rows[r].by, rows[r].project)
    /\ rows' = [rows EXCEPT ![r] = Decided(@, "dismissed")]
    /\ UNCHANGED <<teamVars, appliers, effects>>

----------------------------------------------------------------------------
(* Applying: one request works through the steps. *)

At(x, stage) == appliers[x].stage = stage
Row(x) == rows[appliers[x].proposal]
Operation(x) == Row(x).operations[appliers[x].step]
MayStill(x) == Allowed(Row(x).by, Row(x).project, Operation(x))

Goes(x, stage) ==
    appliers' = [appliers EXCEPT ![x] = Stands(appliers[x].proposal, appliers[x].step, stage)]
Marks(x, mark) ==
    rows' = [rows EXCEPT ![appliers[x].proposal] = Marked(@, appliers[x].step, mark)]
Happens(x) ==
    effects' = [effects EXCEPT ![appliers[x].proposal] = Append(@, appliers[x].step)]

\* An ApiError says that nothing was done, anything else says nothing.
FailureAlways(error) == "failed"
Failure(error) == IF error = "ApiError" THEN "failed" ELSE "unknown"

\* The step fails, and the rest is not carried out.
Fails(x, error) ==
    /\ rows' = [rows EXCEPT ![appliers[x].proposal] =
                               Decided(Marked(@, appliers[x].step, Failure(error)), "failed")]
    /\ appliers' = [appliers EXCEPT ![x] = Idle]
    /\ UNCHANGED <<teamVars, effects>>

\* The user's permission is read anew for the step, which is then marked as running.
Check(x) ==
    /\ At(x, "checking")
    /\ \/ MayStill(x) /\ Marks(x, "running") /\ Goes(x, "running") /\ UNCHANGED <<teamVars, effects>>
       \/ ~MayStill(x) /\ Fails(x, "ApiError")

\* The operation's own check.  What comes after it may find the change impossible.
Enter(x) ==
    /\ At(x, "running") /\ Operation(x) # "member.set"
    /\ \/ MayStill(x) /\ Goes(x, "entered") /\ UNCHANGED <<teamVars, rows, effects>>
       \/ ~MayStill(x) /\ Fails(x, "ApiError")

Refuse(x) == (At(x, "running") \/ At(x, "entered")) /\ Fails(x, "ApiError")

\* Its effect is committed.
Take(x) ==
    /\ At(x, "entered")
    /\ Happens(x) /\ Goes(x, "taken")
    /\ UNCHANGED <<teamVars, rows>>

\* A change of access checks and changes behind the tenant's lock.
TakeAccess(x, target, role) ==
    /\ At(x, "running") /\ Operation(x) = "member.set"
    /\ SetProjectMember(Row(x).by, Row(x).project, target, role)
    /\ Happens(x) /\ Goes(x, "taken")
    /\ UNCHANGED rows

\* What was written is read again: a user without access to it by now does not find it.
\* A new project is open to those who run the tenant.
Rereads(x) == Registry[Operation(x)].rereads
Finds(x) == IF Operation(x) = "project.create" THEN ManagesTenant(Row(x).by)
            ELSE HasAccess(Row(x).by, Row(x).project)

RereadFails(x) ==
    /\ At(x, "taken") /\ Rereads(x) /\ ~Finds(x)
    /\ Fails(x, "ApiError")

Save(x) ==
    /\ At(x, "taken") /\ (Rereads(x) => Finds(x))
    /\ Marks(x, "succeeded") /\ Goes(x, "saved")
    /\ UNCHANGED <<teamVars, effects>>

\* The step is on the audit record: on to the next, or the proposal has succeeded.
Advance(x) ==
    /\ At(x, "saved")
    /\ IF appliers[x].step < Len(Row(x).operations)
       THEN /\ appliers' = [appliers EXCEPT ![x] = Stands(appliers[x].proposal, appliers[x].step + 1, "checking")]
            /\ UNCHANGED rows
       ELSE /\ appliers' = [appliers EXCEPT ![x] = Idle]
            /\ rows' = [rows EXCEPT ![appliers[x].proposal] = Decided(@, "succeeded")]
    /\ UNCHANGED <<teamVars, effects>>

\* The database fails anywhere: before the step, in it, or with its effect committed.
Breaks(x) == appliers[x] # Idle /\ Fails(x, "Error")

\* The control plane stops, or not even the failure can be saved.
Lose(x) ==
    /\ appliers[x] # Idle
    /\ appliers' = [appliers EXCEPT ![x] = Idle]
    /\ UNCHANGED <<teamVars, rows, effects>>

----------------------------------------------------------------------------

Step(x) ==
    \/ Check(x) \/ Enter(x) \/ Refuse(x) \/ Take(x)
    \/ \E target \in User, role \in Given \cup {"none"} : TakeAccess(x, target, role)
    \/ RereadFails(x) \/ Save(x) \/ Advance(x) \/ Breaks(x) \/ Lose(x)

Next ==
    \/ TeamStep /\ UNCHANGED proposalVars
    \/ \E r \in Proposal :
         \/ \E u \in User, p \in Project, operations \in BoundedSeq(Offered, MaxSteps) :
                Propose(r, u, p, operations)
         \/ Lapse(r) \/ Dismiss(r)
         \/ \E x \in Applier : Approve(x, r)
    \/ \E x \in Applier : Step(x)

Spec == Init /\ [][Next]_vars

----------------------------------------------------------------------------
(* What a user who applies a proposal can rely on. *)

\* However often the request is repeated, whatever fails and whenever the control plane
\* stops: every step has its effect at most once, in the order the user saw, none
\* behind one that did not, and none of a proposal that was not applied.
AppliedOnceInOrder ==
    \A r \in Proposal :
        /\ effects[r] = [i \in 1..Len(effects[r]) |-> i]
        /\ effects[r] # <<>> => rows[r].status \in {"applying", "succeeded", "failed"}

\* What the proposal's record says of a step is so: one that succeeded had its effect,
\* one that is pending had none, and one that failed had none unless its operation
\* reads again what it wrote; a proposal that succeeded had all of them.
RecordTellsTheTruth ==
    \A r \in Proposal : \A i \in 1..Len(rows[r].operations) :
        LET had == i <= Len(effects[r])
            status == rows[r].actions[i] IN
        /\ status = "succeeded" \/ rows[r].status = "succeeded" => had
        /\ status = "pending" => ~had
        /\ status = "failed" => ~had \/ Registry[rows[r].operations[i]].rereads

\* What the documentation says besides: a step that failed was not applied.
FailedMeansNotApplied ==
    \A r \in Proposal : \A i \in 1..Len(rows[r].operations) :
        rows[r].actions[i] = "failed" => i > Len(effects[r])

=============================================================================
