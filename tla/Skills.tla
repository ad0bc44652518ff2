-------------------------------- MODULE Skills --------------------------------
(***************************************************************************)
(* The skill packages of a project: imports, versions and their switches.  *)
(*                                                                         *)
(* Versions belong to a name and names do not meet, so this is one name;   *)
(* a package's files stand behind its digest.  Whatever adds a version     *)
(* locks the project first, so each such transaction is one action; what a *)
(* preview shows is read before and without that lock.                     *)
(***************************************************************************)
EXTENDS Integers, Sequences

CONSTANTS User,         \* users of the project
          Owner,        \* one who stays an admin
          Digest,       \* contents a package of this name may have
          ImportId,       \* bound: imports ever previewed
          MaxRequests,  \* bound: imports and edits people ever ask for
          None

ASSUME SkillsAssumption == Owner \in User /\ None \notin ImportId /\ MaxRequests \in Nat

VARIABLES role,         \* what each user is in the project; Team says how that changes
          versions,     \* the versions of the name, in order
          imports,      \* import -> its preview and its result
          asked

skillVars == <<role, versions, imports, asked>>

Role == {"none", "editor", "admin"}
Edits(u) == role[u] # "none"
Manages(u) == role[u] = "admin"

NoImport == [stage |-> "none", by |-> Owner, digest |-> None, base |-> 0, result |-> 0]

First(digest) == [digest |-> digest, enabled |-> TRUE, by |-> None]

\* A package may have been uploaded before.
SkillsInit ==
    /\ role \in {r \in [User -> {"editor", "admin"}] : r[Owner] = "admin"}
    /\ versions \in {<<>>} \cup {<<First(digest)>> : digest \in Digest}
    /\ imports = [p \in ImportId |-> NoImport]
    /\ asked = 0

Asks == asked < MaxRequests /\ asked' = asked + 1

----------------------------------------------------------------------------
(* Versions *)

\* The version of this content, 0 if there is none.
Same(digest) == IF \E v \in DOMAIN versions : versions[v].digest = digest
                THEN CHOOSE v \in DOMAIN versions : versions[v].digest = digest
                ELSE 0
New(digest, by) == versions' = Append(versions, [First(digest) EXCEPT !.by = by])

\* Skills.upload, a package sent without a preview: its content is there already or becomes a version.
Upload(u, digest) ==
    /\ Asks /\ Edits(u)
    /\ Same(digest) = 0
    /\ New(digest, None)
    /\ UNCHANGED <<role, imports>>

\* Skills.setEnabled
Enabled(v, enabled) == versions' = [versions EXCEPT ![v].enabled = enabled]
SetEnabled(u, v, enabled) ==
    /\ Manages(u)
    /\ v \in DOMAIN versions /\ versions[v].enabled # enabled
    /\ Enabled(v, enabled)
    /\ UNCHANGED <<role, imports, asked>>

----------------------------------------------------------------------------
(* Imports: what is compared with what, shown, and confirmed. *)

\* Skills.preview and previewUpdate up to the query of stage: the newest version is what the content is compared with.
Compare(u, p, digest) ==
    /\ Asks /\ Edits(u)
    /\ imports[p] = NoImport
    /\ imports' = [imports EXCEPT ![p] =
                     [stage |-> "compared", by |-> u, digest |-> digest, base |-> Len(versions), result |-> 0]]
    /\ UNCHANGED <<role, versions>>

\* The transaction of stage: the preview is kept and shown.
Show(p) ==
    /\ imports[p].stage = "compared"
    /\ Edits(imports[p].by)
    /\ imports' = [imports EXCEPT ![p].stage = "shown"]
    /\ UNCHANGED <<role, versions, asked>>

\* An hour passes, ten newer previews push this one out, or its request fails.
Drop(p) ==
    /\ imports[p].stage \in {"compared", "shown"}
    /\ imports' = [imports EXCEPT ![p].stage = "dropped"]
    /\ UNCHANGED <<role, versions, asked>>

Confirmable(p) == imports[p].stage = "shown" /\ Edits(imports[p].by)
Results(p, v) == imports' = [imports EXCEPT ![p].result = v]
\* Skills.confirmImport; repeated, it answers with the result it had.
\* Mutant: nobody looks what the newest version has become.
ConfirmUnseen(p) ==
    /\ Confirmable(p) /\ imports[p].result = 0
    /\ IF Same(imports[p].digest) # 0
       THEN Results(p, Same(imports[p].digest)) /\ UNCHANGED versions
       ELSE /\ New(imports[p].digest, p)
            /\ Results(p, Len(versions) + 1)
    /\ UNCHANGED <<role, asked>>
Confirm(p) ==
    /\ Confirmable(p) /\ imports[p].result = 0
    /\ \/ /\ Same(imports[p].digest) # 0
          /\ Results(p, Same(imports[p].digest))
          /\ UNCHANGED versions
       \/ /\ Same(imports[p].digest) = 0
          /\ imports[p].base = Len(versions)
          /\ New(imports[p].digest, p)
          /\ Results(p, Len(versions) + 1)
    /\ UNCHANGED <<role, asked>>

\* External: the team changes.
SetRole(u, r) ==
    /\ u # Owner /\ role[u] # r
    /\ role' = [role EXCEPT ![u] = r]
    /\ UNCHANGED <<versions, imports, asked>>

----------------------------------------------------------------------------

SkillStep ==
    \/ \E u \in User :
         \/ \E digest \in Digest : Upload(u, digest) \/ \E p \in ImportId : Compare(u, p, digest)
         \/ \E r \in Role : SetRole(u, r)
    \/ \E p \in ImportId : Show(p) \/ Drop(p) \/ Confirm(p)
Switch == \E u \in User, v \in DOMAIN versions, enabled \in BOOLEAN : SetEnabled(u, v, enabled)

SkillNext == SkillStep \/ Switch
SkillsSpec == SkillsInit /\ [][SkillNext]_skillVars

\* Every row is of its type.
SkillsTypeOK ==
    /\ role \in [User -> Role] /\ role[Owner] = "admin"
    /\ versions \in Seq([digest : Digest, enabled : BOOLEAN, by : ImportId \cup {None}])
    /\ imports \in [ImportId -> [stage : {"none", "compared", "shown", "dropped"}, by : User,
                               digest : Digest \cup {None}, base : Nat, result : Nat]]
    /\ asked \in 0..MaxRequests

\* A content is one version only.
OneVersionPerContent ==
    \A v, w \in DOMAIN versions : versions[v].digest = versions[w].digest => v = w

\* What a confirmed import added is what its preview showed, next to the very version the preview
\* compared it with: nobody's upload or import came between the two, and a content is one version only.
ImportsAreAsShown ==
    /\ OneVersionPerContent
    /\ \A p \in ImportId : imports[p].result # 0 =>
         imports[p].result \in DOMAIN versions /\ versions[imports[p].result].digest = imports[p].digest
    /\ \A v \in DOMAIN versions : versions[v].by # None =>
         imports[versions[v].by].result = v /\ imports[versions[v].by].base = v - 1
=============================================================================
