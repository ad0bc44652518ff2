------------------------------- MODULE Releases -------------------------------
(***************************************************************************)
(* An agent's draft, its releases, and a run of one of them that executes  *)
(* scripts of the skill version the release is pinned to.                  *)
(*                                                                         *)
(* Saving, publishing and trying a draft check what their author may do,   *)
(* and then wait for the agent's row.  Saving writes it as it was checked; *)
(* the others hold the row from reading the draft to inserting the         *)
(* release, but take no lock on the skills they read.                      *)
(* The platform answers a run's every request for a skill anew, and        *)
(* anything may happen between its answer and what the run does with it.   *)
(***************************************************************************)
EXTENDS Skills, FiniteSets

CONSTANTS Script,       \* entrypoints of the package
          MaxReleases,    \* bound: releases there ever are
          Call            \* bound: calls of the run's script tool

VARIABLES drafts,       \* what each revision of the draft was; the last one is the draft
          edits,        \* user -> the request that was checked and waits for the agent's row
          holder,       \* the transaction that holds the agent's row
          releases,     \* published ones and tried drafts, in the order of their insertion
          run, calls

authoring == <<drafts, edits, holder, releases>>
running == <<run, calls>>
vars == <<skillVars, authoring, running>>

Binding == [version : Nat, scripts : SUBSET Script]
Nothing == [version |-> 0, scripts |-> {}]
NoEdit == [kind |-> "none", binding |-> Nothing, base |-> 0]
NoHolder == [kind |-> "none", binding |-> Nothing, rev |-> 0, granted |-> FALSE]
NoRun == [stage |-> "none", release |-> 0, alive |-> TRUE, checking |-> FALSE]
NoCall == [stage |-> "none", script |-> None, before |-> FALSE, after |-> FALSE]

\* Skills.snapshots: a version that is switched off is not bound.
Usable(b) == b.version = 0 \/ (b.version \in DOMAIN versions /\ versions[b.version].enabled)

Bindings == {b \in [version : 0..Len(versions), scripts : SUBSET Script] : b.version = 0 => b.scripts = {}}

\* Agents.create, by the owner.
Init ==
    /\ SkillsInit
    /\ \E b \in Bindings : Usable(b) /\ drafts = <<[binding |-> b, base |-> 0]>>
    /\ edits = [u \in User |-> NoEdit]
    /\ holder = NoHolder
    /\ releases = <<>>
    /\ run = NoRun
    /\ calls = [c \in Call |-> NoCall]

----------------------------------------------------------------------------
(* Drafts *)

\* The newest published release before the n-th, 0 if there is none.
PublishedBefore(n) ==
    LET published == {i \in DOMAIN releases : i < n /\ releases[i].kind = "published"}
    IN IF published = {} THEN 0 ELSE CHOOSE i \in published : \A j \in published : j <= i
Current == PublishedBefore(Len(releases) + 1)
Covers(i, b) == b.scripts = {} \/ (i # 0 /\ releases[i].binding.version = b.version
                                         /\ b.scripts \subseteq releases[i].binding.scripts)

\* Agents.scriptGrants: who may not publish may name only scripts the current release has.
ScriptGrants(u, b) == Manages(u) \/ Covers(Current, b)

\* What is asked for is based on the newest draft, or will be refused.
Ask(u, kind, b) ==
    /\ edits[u] = NoEdit
    /\ edits' = [edits EXCEPT ![u] = [kind |-> kind, binding |-> b, base |-> Len(drafts)]]
    /\ UNCHANGED <<role, versions, imports, drafts, holder, releases, running>>
\* The row is free for u; the revision is compared with the one the request is based on.
Gets(u, kind) == edits[u].kind = kind /\ holder = NoHolder /\ edits' = [edits EXCEPT ![u] = NoEdit]
Fresh(u) == edits[u].base = Len(drafts)

\* Agents.update up to its UPDATE
CheckSave(u, b) == Asks /\ Edits(u) /\ ScriptGrants(u, b) /\ Usable(b) /\ Ask(u, "save", b)
\* Its UPDATE
Save(u) ==
    /\ Gets(u, "save")
    /\ drafts' = IF Fresh(u) THEN Append(drafts, [binding |-> edits[u].binding, base |-> edits[u].base]) ELSE drafts
    /\ UNCHANGED <<skillVars, holder, releases, running>>

----------------------------------------------------------------------------
(* Releases: a transaction locks the agent, reads the draft and the skills, and inserts. *)

Draft == drafts[Len(drafts)].binding
Lock(u, kind, accepted, granted) ==
    /\ Len(releases) < MaxReleases
    /\ Gets(u, kind)
    /\ holder' = IF Fresh(u) /\ accepted /\ Usable(Draft)
                 THEN [kind |-> kind, binding |-> Draft, rev |-> edits[u].base, granted |-> granted]
                 ELSE NoHolder
    /\ UNCHANGED <<skillVars, drafts, releases, running>>

\* Agents.publish; only the request is checked for the permission.
AskPublish(u) == Manages(u) /\ Ask(u, "published", Nothing) /\ UNCHANGED asked
Publish(u) == Lock(u, "published", TRUE, TRUE)
\* Agents.preview: what was granted when the draft was saved may not be any more.
AskPreview(u) == Edits(u) /\ Ask(u, "preview", Nothing) /\ UNCHANGED asked
\* Mutant: the draft was checked when it was saved.
PreviewSaved(u) == Lock(u, "preview", TRUE, Manages(u))
Preview(u) == Lock(u, "preview", ScriptGrants(u, Draft), Manages(u))

\* Publishing what is published already changes nothing.
Unchanged == /\ holder.kind = "published"
             /\ Current # 0 /\ releases[Current].binding = holder.binding
Commit ==
    /\ holder # NoHolder
    /\ holder' = NoHolder
    /\ releases' = IF Unchanged THEN releases ELSE Append(releases, holder)
    /\ UNCHANGED <<skillVars, drafts, edits, running>>
\* The transaction fails, or the process that runs it.
Rollback == /\ holder # NoHolder /\ holder' = NoHolder
            /\ UNCHANGED <<skillVars, drafts, edits, releases, running>>

----------------------------------------------------------------------------
(* A run: its conversation is pinned to a release, current or not. *)

Pinned == releases[run.release].binding
\* Skills.runAccess and access, for a version the release is pinned to.
Stands(enabled) == run.alive /\ enabled
Access == Stands(versions[Pinned.version].enabled)

\* Bound: by then what was asked for is done, and no more is; to a run only the switches matter.
StartRun(i) ==
    /\ run = NoRun
    /\ holder = NoHolder /\ \A u \in User : edits[u] = NoEdit
    /\ releases[i].binding.version # 0
    /\ run' = [run EXCEPT !.stage = "preparing", !.release = i]
    /\ asked' = MaxRequests
    /\ UNCHANGED <<role, versions, imports, authoring, calls>>
\* The run is cancelled, its lease or its deadline passes, its application is switched off.
RunIsLost == /\ run.stage \in {"preparing", "working"} /\ run.alive
             /\ run' = [run EXCEPT !.alive = FALSE]
             /\ UNCHANGED <<skillVars, authoring, calls>>

Open == run.stage = "working"
RunStep == UNCHANGED <<skillVars, authoring>>
Becomes(stage) == run' = [run EXCEPT !.stage = stage, !.checking = FALSE]

\* The check before anything else.  It, and every later request, may be refused, lost or never answered.
Prepare == /\ run.stage = "preparing"
           /\ \/ Access /\ Becomes("working")
              \/ Becomes("stopped")
           /\ RunStep /\ UNCHANGED calls

\* Every two seconds, unless a check is out.
Tick == /\ Open /\ ~run.checking
        /\ run' = [run EXCEPT !.checking = TRUE]
        /\ RunStep /\ UNCHANGED calls
\* Mutant: a refusal is caught with the check and goes no further.
TickedDeaf == /\ Open /\ run.checking
              /\ run' = [run EXCEPT !.checking = FALSE]
              /\ RunStep /\ UNCHANGED calls
Ticked == /\ Open /\ run.checking
          /\ \/ Access /\ run' = [run EXCEPT !.checking = FALSE]
             \/ ~Access /\ Becomes("stopped")
          /\ RunStep /\ UNCHANGED calls
\* Anything that goes wrong with a request or a script stops the run.
Stop == Open /\ Becomes("stopped") /\ RunStep /\ UNCHANGED calls

Moves(c, from, row) == /\ Open /\ calls[c].stage = from
                       /\ calls' = [calls EXCEPT ![c] = row]
                       /\ RunStep /\ UNCHANGED run
To(c, stage) == [calls[c] EXCEPT !.stage = stage]
Busy == {"turn", "permitted", "loaded", "checked", "launched", "finished"}

\* run_skill_script: calls wait for one another.
CallScript(c, s) == /\ Moves(c, "none", [NoCall EXCEPT !.stage = "queued", !.script = s])
                    /\ s \in Pinned.scripts
Turn(c) == Moves(c, "queued", To(c, "turn")) /\ \A d \in Call : calls[d].stage \notin Busy
\* The entrypoint is asked for and every file is read: requests that are all answered, the last one now.
Permit(c) == Moves(c, "turn", To(c, "permitted")) /\ Access
\* The last file arrives.
Load(c) == Moves(c, "permitted", [To(c, "loaded") EXCEPT !.before = Access])
\* Mutant: what was read may be executed.
RecheckNothing(c) == Moves(c, "loaded", To(c, "checked"))
Recheck(c) == Moves(c, "loaded", To(c, "checked")) /\ Access
Launch(c) == Moves(c, "checked", To(c, "launched"))
\* External: the container is done.
Finish(c) == Moves(c, "launched", [To(c, "finished") EXCEPT !.after = Access])
Answer(c) == Moves(c, "finished", To(c, "answered")) /\ Access
EndRun == /\ Open /\ \A c \in Call : calls[c].stage \in {"none", "answered"}
          /\ Becomes("succeeded") /\ RunStep /\ UNCHANGED calls

\* A call does not see a switch; it only counts for what is said of it.
Seen(row, enabled) ==
    CASE row.stage = "loaded" -> [row EXCEPT !.before = @ \/ Stands(enabled)]
      [] row.stage = "finished" -> [row EXCEPT !.after = @ \/ Stands(enabled)]
      [] OTHER -> row
Observed == IF run.release = 0 THEN calls
            ELSE [c \in Call |-> Seen(calls[c], versions'[Pinned.version].enabled)]

----------------------------------------------------------------------------

Author == \E u \in User :
    \/ \E b \in Bindings : CheckSave(u, b)
    \/ Save(u) \/ AskPublish(u) \/ Publish(u) \/ AskPreview(u) \/ Preview(u)
Execute ==
    \/ \E i \in DOMAIN releases : StartRun(i)
    \/ RunIsLost \/ Prepare \/ Tick \/ Ticked \/ Stop \/ EndRun
    \/ \E c \in Call : \/ \E s \in Script : CallScript(c, s)
                       \/ Turn(c) \/ Permit(c) \/ Load(c) \/ Recheck(c) \/ Launch(c) \/ Finish(c) \/ Answer(c)

Release ==
    \/ SkillStep /\ UNCHANGED <<authoring, running>>
    \/ Switch /\ calls' = Observed /\ UNCHANGED <<authoring, run>>
    \/ Author \/ Commit \/ Rollback
Next == Release \/ Execute

Spec == Init /\ [][Next]_vars

\* The interval of a run's process keeps firing, and a check is answered or given up.
TimerFairness == WF_vars(Tick) /\ WF_vars(Ticked)
FairSpec == Spec /\ TimerFairness

----------------------------------------------------------------------------

\* Every row is of its type.
TypeOK ==
    /\ SkillsTypeOK
    /\ drafts \in Seq([binding : Binding, base : Nat]) /\ drafts # <<>>
    /\ edits \in [User -> [kind : {"none", "save", "published", "preview"}, binding : Binding, base : Nat]]
    /\ holder \in [kind : {"none", "published", "preview"}, binding : Binding, rev : Nat, granted : BOOLEAN]
    /\ releases \in Seq([kind : {"published", "preview"}, binding : Binding, rev : Nat, granted : BOOLEAN])
    /\ run \in [stage : {"none", "preparing", "working", "stopped", "succeeded"}, release : Nat,
                alive : BOOLEAN, checking : BOOLEAN]
    /\ calls \in [Call -> [stage : {"none", "queued", "answered"} \cup Busy, script : Script \cup {None},
                           before : BOOLEAN, after : BOOLEAN]]

\* A script a run may execute was put into its release by somebody who could publish it, or was in the
\* release that was published when a draft was tried: a grant that has been withdrawn does not come
\* back through a draft that was checked before.
ScriptsAreGranted ==
    \A n \in DOMAIN releases : releases[n].granted \/ Covers(PublishedBefore(n), releases[n].binding)

\* A release is the draft of the revision its author had read, and no revision was written by somebody
\* who had not seen the one before it.
ReleasesWereSeen ==
    /\ \A n \in 2..Len(drafts) : drafts[n].base = n - 1
    /\ \A n \in DOMAIN releases : /\ releases[n].rev \in DOMAIN drafts
                                  /\ releases[n].binding = drafts[releases[n].rev].binding

\* Whoever edits, publishes, tries and withdraws at once: a release is what its author read, and holds
\* no script that nobody entitled to it had granted.
ReleasesAreSound == ScriptsAreGranted /\ ReleasesWereSeen

\* A script starts only if its version was switched on after all of it had been read, and what it
\* printed is used only if it was on after it had ended; one script runs at a time.
RevocationStands ==
    /\ \A c \in Call : /\ calls[c].stage \in {"launched", "finished", "answered"} => calls[c].before
                       /\ calls[c].stage = "answered" => calls[c].after
    /\ Cardinality({c \in Call : calls[c].stage = "launched"}) <= 1

\* A version that stays switched off stops the runs that are pinned to it, also those that do not use it just then.
Revoked == Open /\ ~versions[Pinned.version].enabled
RevocationReachesRuns == Revoked ~> ~Revoked
=============================================================================
