--------------------------- MODULE WorkflowAssets ---------------------------
(***************************************************************************)
(* The drafts and releases of workflows, beside the jobs of WorkflowQueue: *)
(* an execution runs a release, a generation proposes a new draft for the  *)
(* revision it was asked for.                                              *)
(*                                                                         *)
(* A draft keeps its history here, of which the code keeps the last row.   *)
(* What a person sends rests on the revision their console last showed.    *)
(* Dependencies that are gone (a disabled service, a deleted release)      *)
(* refuse a publication, a run or a candidate and change nothing.          *)
(***************************************************************************)
EXTENDS WorkflowQueue, Sequences

CONSTANTS Person,
          Edits,          \* person -> the workflow they have open
          Definition,     \* what a draft executes; its layout is left aside
          Valid,          \* the definitions validateWorkflow has no issue with
          First,          \* the definition workflows are created with
          MaxRevisions    \* bound: revisions of a draft

ASSUME AssetsAssumption ==
    /\ Edits \in [Person -> Workflow] /\ Valid \subseteq Definition /\ First \in Definition
    /\ MaxRevisions \in Nat \ {0}

VARIABLES drafts,      \* workflow -> its revisions
          releases,    \* workflow -> its versions: the definition, and the draft's revision
          requests,    \* job -> the revision a generation is based on, the version an execution runs; 0
          candidates,  \* generation -> the definitions it has delivered: none or one
          accepted,    \* generation -> the revision its candidate became, 0 for none
          seen         \* person -> the revision their console shows

assets == <<drafts, releases, requests, candidates, accepted, seen>>
assetVars == <<vars, assets>>

Revision(w) == Len(drafts[w])
Version(w) == Len(releases[w])
Draft(w) == drafts[w][Revision(w)].definition
\* from is the generation it was accepted from, if any; over the revision its author had before them.
RevisionRow(d, from, over) == [definition |-> d, from |-> from, over |-> over]

AssetInit ==
    /\ Init
    /\ drafts = [w \in Workflow |-> <<RevisionRow(First, {}, 0)>>]
    /\ releases = [w \in Workflow |-> <<>>]
    /\ requests = [j \in Job |-> 0]
    /\ candidates = [j \in Generation |-> {}]
    /\ accepted = [j \in Generation |-> 0]
    /\ seen = [p \in Person |-> 1]

----------------------------------------------------------------------------

\* An enqueueing transaction holds the workflow's row until it has inserted.
Unlocked(w) == counted[w] = {}
Revise(w, row) == /\ Unlocked(w) /\ Revision(w) < MaxRevisions
                  /\ drafts' = [drafts EXCEPT ![w] = Append(@, row)]

Open(p) == /\ seen[p] # Revision(Edits[p])
           /\ seen' = [seen EXCEPT ![p] = Revision(Edits[p])]
           /\ UNCHANGED <<vars, drafts, releases, requests, candidates, accepted>>

Current(w, revision) == Revision(w) = revision
\* An edit may leave what is executed as it was and only move nodes about; its answer may be lost.
Save(p, d) ==
    LET w == Edits[p]
    IN /\ Current(w, seen[p]) /\ Revise(w, RevisionRow(d, {}, seen[p]))
       /\ seen' \in {seen, [seen EXCEPT ![p] = Revision(w) + 1]}
       /\ UNCHANGED <<vars, releases, requests, candidates, accepted>>

Published(w) == Version(w) > 0 /\ releases[w][Version(w)].definition = Draft(w)
Publish(p) ==
    LET w == Edits[p]
    IN /\ Unlocked(w) /\ Current(w, seen[p]) /\ Draft(w) \in Valid /\ ~Published(w)
       /\ releases' = [releases EXCEPT ![w] = Append(@, [definition |-> Draft(w), revision |-> Revision(w)])]
       /\ UNCHANGED <<vars, drafts, requests, candidates, accepted, seen>>

\* The transactions that create a job check what it is to work on before they count.
Generate(p, j) ==
    /\ j \in Generation /\ WorkflowOf[j] = Edits[p] /\ Current(Edits[p], seen[p])
    /\ Count(j)
    /\ requests' = [requests EXCEPT ![j] = seen[p]]
    /\ UNCHANGED <<drafts, releases, candidates, accepted, seen>>
\* The business application, or a person, may ask for any version.
Execute(j) ==
    /\ j \notin Generation
    /\ Count(j)
    /\ \E v \in DOMAIN releases[WorkflowOf[j]] : requests' = [requests EXCEPT ![j] = v]
    /\ UNCHANGED <<drafts, releases, candidates, accepted, seen>>

\* A finish delivers the candidate with its issues; only without any it succeeds.
Deliver(j, status, valid, d) ==
    /\ Finish(j, status, valid)
    /\ status = "succeeded" => (valid <=> d \in Valid)
    /\ candidates' = IF status = "succeeded" THEN [candidates EXCEPT ![j] = {d}] ELSE candidates
    /\ UNCHANGED <<drafts, releases, requests, accepted, seen>>

\* Mutant: only the person's revision is compared, not the one the candidate was made for.
AcceptableBy(p, j) == accepted[j] = 0 /\ jobs[j].status = "succeeded" /\ Current(WorkflowOf[j], seen[p])
Acceptable(p, j) == /\ accepted[j] = 0
                    /\ jobs[j].status = "succeeded"
                    /\ Current(WorkflowOf[j], seen[p]) /\ requests[j] = seen[p]
\* Accepted again, the draft is returned as it is.
Accept(p, j) ==
    LET w == WorkflowOf[j]
    IN /\ Edits[p] = w /\ Acceptable(p, j)
       /\ \E d \in candidates[j] : Revise(w, RevisionRow(d, {j}, requests[j]))
       /\ accepted' = [accepted EXCEPT ![j] = Revision(w) + 1]
       /\ seen' \in {seen, [seen EXCEPT ![p] = Revision(w) + 1]}
       /\ UNCHANGED <<vars, releases, requests, candidates>>

----------------------------------------------------------------------------

Author(p) == Open(p) \/ Publish(p) \/ \E d \in Definition : Save(p, d)
AssetStep == \/ \E p \in Person : Author(p)
             \/ \E p \in Person, j \in Generation : Generate(p, j) \/ Accept(p, j)
             \/ \E j \in Job : Execute(j)
             \/ \E j \in Generation, status \in Ended, valid \in BOOLEAN, d \in Definition : Deliver(j, status, valid, d)

\* The steps of WorkflowQueue that concern no asset.
QueueRequest(j) ==
    \/ Insert(j) \/ Cancel(j)
    \/ Claim(j) \/ Renew(j)
    \/ \E n \in Node : StartNode(j, n)
    \/ \E n \in Node, status \in {"succeeded", "failed"}, match \in BOOLEAN : FinishNode(j, n, status, match)
    \/ j \notin Generation /\ \E status \in Ended : Finish(j, status, TRUE)
    \/ Clock(j)
QueueStep == ((\E j \in Job : QueueRequest(j)) \/ Reap \/ Revoke) /\ UNCHANGED assets

AssetNext == AssetStep \/ QueueStep
AssetSpec == AssetInit /\ [][AssetNext]_assetVars
             /\ WF_vars(Reap /\ UNCHANGED assets) /\ \A j \in Job : WF_vars(Expire(j) /\ UNCHANGED assets)

----------------------------------------------------------------------------

\* Nobody's work is lost: every revision was written over the one before it, in full view of it, and a
\* candidate, however often and by whomever it is accepted, became one revision, that of the draft it
\* was made for.
NoWorkIsLost ==
    /\ \A w \in Workflow : \A i \in 2..Revision(w) : drafts[w][i].over = i - 1
    /\ \A w \in Workflow, j \in Generation :
          {i \in 1..Revision(w) : j \in drafts[w][i].from} = (IF WorkflowOf[j] = w THEN {accepted[j]} ELSE {}) \ {0}
    /\ \A j \in Generation : accepted[j] # 0 => /\ jobs[j].status = "succeeded"
                                                /\ candidates[j] = {drafts[WorkflowOf[j]][accepted[j]].definition}

\* Each version is a valid draft as it was saved and differs from the version before it; and what an
\* execution runs, from its insertion on, is such a version, whatever is saved or published meanwhile.
VersionsAreDrafts ==
    /\ \A w \in Workflow : \A v \in 1..Version(w) :
          /\ releases[w][v].definition = drafts[w][releases[w][v].revision].definition
          /\ releases[w][v].definition \in Valid
          /\ v > 1 => /\ releases[w][v].definition # releases[w][v - 1].definition
                      /\ releases[w][v].revision > releases[w][v - 1].revision
    /\ \A j \in Job \ Generation : jobs[j].status # "absent" => requests[j] \in 1..Version(WorkflowOf[j])

\* What somebody saved, generated, accepted or published stands as it was made.
SavedWorkStands == NoWorkIsLost /\ VersionsAreDrafts
=============================================================================
