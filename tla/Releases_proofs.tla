---------------------------- MODULE Releases_proofs ----------------------------
(***************************************************************************)
(* Proofs about Skills and Releases, for any number of users, contents,    *)
(* imports, releases and calls.                                            *)
(***************************************************************************)
EXTENDS Releases, FiniteSetTheorems, SequenceTheorems, TLAPS

----------------------------------------------------------------------------
(* Packages and their imports. *)

VersionRow == [digest : Digest, enabled : BOOLEAN, by : ImportId \cup {None}]
ImportRow == [stage : {"none", "compared", "shown", "dropped"}, by : User,
              digest : Digest \cup {None}, base : Nat, result : Nat]

\* Same finds the version of a content, and 0 only if there is none.
LEMMA SameFinds ==
    ASSUME SkillsTypeOK, NEW digest
    PROVE  /\ Same(digest) = 0 => \A v \in DOMAIN versions : versions[v].digest # digest
           /\ Same(digest) # 0 => Same(digest) \in DOMAIN versions /\ versions[Same(digest)].digest = digest
<1>1. \A v \in DOMAIN versions : v # 0
  BY DEF SkillsTypeOK
<1>2. CASE \E v \in DOMAIN versions : versions[v].digest = digest
  <2>1. Same(digest) \in DOMAIN versions /\ versions[Same(digest)].digest = digest
    BY <1>2 DEF Same
  <2> QED BY <2>1, <1>1
<1>3. CASE ~\E v \in DOMAIN versions : versions[v].digest = digest
  BY <1>3 DEF Same
<1> QED BY <1>2, <1>3

\* A new version is the last one, and the others stay what they are.
LEMMA NewAppends ==
    ASSUME SkillsTypeOK, NEW digest \in Digest, NEW by \in ImportId \cup {None}, New(digest, by)
    PROVE  /\ versions' \in Seq(VersionRow)
           /\ Len(versions') = Len(versions) + 1
           /\ \A v \in DOMAIN versions : v \in DOMAIN versions' /\ versions'[v] = versions[v]
           /\ \A v \in DOMAIN versions' : v \in DOMAIN versions \/ v = Len(versions) + 1
           /\ versions'[Len(versions) + 1].digest = digest /\ versions'[Len(versions) + 1].by = by
<1> DEFINE row == [First(digest) EXCEPT !.by = by]
<1>1. row \in VersionRow /\ row.digest = digest /\ row.by = by
  BY DEF First, VersionRow
<1>2. versions' = Append(versions, row) /\ versions \in Seq(VersionRow)
  BY DEF New, SkillsTypeOK, VersionRow
<1> HIDE DEF row
<1> QED BY <1>1, <1>2

\* What has been compared has a content.
ContentKnown == \A p \in ImportId : imports[p].stage # "none" => imports[p].digest \in Digest
SkillsShape == SkillsTypeOK /\ ContentKnown

LEMMA VersionRows ==
    ASSUME SkillsTypeOK
    PROVE  /\ Len(versions) \in Nat /\ DOMAIN versions = 1..Len(versions)
           /\ \A v \in DOMAIN versions : versions[v] \in VersionRow /\ versions[v].by \in ImportId \cup {None}
<1>1. versions \in Seq(VersionRow)
  BY DEF SkillsTypeOK, VersionRow
<1>2. \A v \in DOMAIN versions : versions[v] \in VersionRow
  BY <1>1, ElementOfSeq
<1> QED BY <1>1, <1>2 DEF VersionRow

LEMMA SkillsInitTypes == SkillsInit => SkillsShape
<1> SUFFICES ASSUME SkillsInit PROVE SkillsShape
  OBVIOUS
<1>1. versions \in Seq(VersionRow)
  <2>1. ASSUME NEW digest \in Digest PROVE <<First(digest)>> \in Seq(VersionRow)
    <3>1. First(digest) \in VersionRow
      BY DEF First, VersionRow
    <3> QED BY <3>1
  <2>2. <<>> \in Seq(VersionRow)
    OBVIOUS
  <2>3. versions = <<>> \/ \E digest \in Digest : versions = <<First(digest)>>
    BY DEF SkillsInit
  <2> QED BY <2>1, <2>2, <2>3
<1>2. imports \in [ImportId -> ImportRow] /\ ContentKnown
  BY SkillsAssumption DEF SkillsInit, NoImport, ImportRow, ContentKnown
<1>3. role \in [User -> Role] /\ role[Owner] = "admin"
  BY SkillsAssumption DEF SkillsInit, Role
<1>4. asked \in 0..MaxRequests
  BY SkillsAssumption DEF SkillsInit
<1> QED BY <1>1, <1>2, <1>3, <1>4 DEF SkillsShape, SkillsTypeOK, VersionRow, ImportRow

LEMMA AskTypes == SkillsTypeOK /\ Asks => asked' \in 0..MaxRequests
  BY SkillsAssumption DEF SkillsTypeOK, Asks

\* The switch of one version is all that moves.
LEMMA EnabledSwitches ==
    ASSUME SkillsTypeOK, NEW v \in DOMAIN versions, NEW enabled \in BOOLEAN, Enabled(v, enabled)
    PROVE  /\ versions' \in Seq(VersionRow) /\ Len(versions') = Len(versions)
           /\ \A w \in DOMAIN versions : /\ versions'[w].digest = versions[w].digest
                                         /\ versions'[w].by = versions[w].by
                                         /\ w # v => versions'[w] = versions[w]
<1> DEFINE row == [versions[v] EXCEPT !.enabled = enabled]
<1>1. versions \in Seq(VersionRow)
  BY DEF SkillsTypeOK, VersionRow
<1>2. versions[v] \in VersionRow
  BY <1>1, ElementOfSeq
<1>3. row \in VersionRow /\ row.digest = versions[v].digest /\ row.by = versions[v].by
  BY <1>2 DEF VersionRow
<1>4. versions' = [versions EXCEPT ![v] = row]
  BY DEF Enabled
<1> HIDE DEF row
<1>5. versions' \in Seq(VersionRow) /\ Len(versions') = Len(versions)
      /\ \A w \in 1..Len(versions) : versions'[w] = IF w = v THEN row ELSE versions[w]
  BY <1>1, <1>3, <1>4, ExceptSeq
<1> QED BY <1>1, <1>3, <1>5

\* One case per operation.
LEMMA SkillsStepTypes == SkillsShape /\ SkillNext => SkillsShape'
<1> SUFFICES ASSUME SkillsShape, SkillNext PROVE SkillsShape'
  OBVIOUS
<1> USE SkillsAssumption DEF SkillsShape
<1>a. imports \in [ImportId -> ImportRow]
  BY DEF SkillsTypeOK, ImportRow
<1>1. ASSUME NEW u \in User, NEW digest \in Digest, Upload(u, digest) PROVE SkillsShape'
  <2>1. New(digest, None) /\ None \in ImportId \cup {None}
    BY <1>1 DEF Upload
  <2>2. versions' \in Seq(VersionRow)
    BY <2>1, NewAppends
  <2> QED BY <1>1, <2>2, AskTypes DEF Upload, SkillsTypeOK, ContentKnown, VersionRow
<1>2. ASSUME NEW u \in User, NEW digest \in Digest, NEW p \in ImportId, Compare(u, p, digest) PROVE SkillsShape'
  <2>1. Len(versions) \in Nat
    BY DEF SkillsTypeOK
  <2>2. imports' \in [ImportId -> ImportRow]
    BY <1>a, <1>2, <2>1 DEF Compare, ImportRow
  <2>3. ContentKnown'
    BY <1>a, <1>2 DEF Compare, ContentKnown, ImportRow
  <2> QED BY <1>2, <2>2, <2>3, AskTypes DEF Compare, SkillsTypeOK, ImportRow
<1>3. ASSUME NEW u \in User, NEW r \in Role, SetRole(u, r) PROVE SkillsShape'
  BY <1>3 DEF SetRole, SkillsTypeOK, ContentKnown
<1>4. ASSUME NEW p \in ImportId, Show(p) PROVE SkillsShape'
  <2>1. imports' \in [ImportId -> ImportRow] /\ ContentKnown'
    BY <1>4, <1>a DEF Show, ContentKnown, ImportRow
  <2> QED BY <1>4, <2>1 DEF Show, SkillsTypeOK, ImportRow
<1>5. ASSUME NEW p \in ImportId, Drop(p) PROVE SkillsShape'
  <2>1. imports' \in [ImportId -> ImportRow] /\ ContentKnown'
    BY <1>5, <1>a DEF Drop, ContentKnown, ImportRow
  <2> QED BY <1>5, <2>1 DEF Drop, SkillsTypeOK, ImportRow
<1>6. ASSUME NEW p \in ImportId, Confirm(p) PROVE SkillsShape'
  <2>1. imports[p].digest \in Digest
    BY <1>6 DEF Confirm, Confirmable, ContentKnown
  <2>2. versions' \in Seq(VersionRow)
    <3>1. CASE UNCHANGED versions
      BY <3>1 DEF SkillsTypeOK, VersionRow
    <3>2. CASE New(imports[p].digest, p)
      BY <2>1, <3>2, NewAppends
    <3> QED BY <3>1, <3>2, <1>6 DEF Confirm
  <2>3. PICK v \in Nat : Results(p, v)
    <3>1. Same(imports[p].digest) # 0 => Same(imports[p].digest) \in Nat
      BY SameFinds DEF SkillsTypeOK
    <3>2. Len(versions) + 1 \in Nat
      BY DEF SkillsTypeOK
    <3> QED BY <3>1, <3>2, <1>6 DEF Confirm
  <2>4. imports' \in [ImportId -> ImportRow] /\ ContentKnown'
    BY <2>3, <1>a DEF Results, ContentKnown, ImportRow
  <2> QED BY <1>6, <2>2, <2>4 DEF Confirm, SkillsTypeOK, ImportRow, VersionRow
<1>7. ASSUME NEW u \in User, NEW v \in DOMAIN versions, NEW enabled \in BOOLEAN, SetEnabled(u, v, enabled)
      PROVE  SkillsShape'
  <2>1. versions' \in Seq(VersionRow)
    BY <1>7, EnabledSwitches DEF SetEnabled
  <2> QED BY <1>7, <2>1 DEF SetEnabled, SkillsTypeOK, VersionRow, ContentKnown
<1> QED BY <1>1, <1>2, <1>3, <1>4, <1>5, <1>6, <1>7 DEF SkillNext, SkillStep, Switch

\* Packages, their versions and their imports keep their shape, for any number of users, contents and imports.
THEOREM SkillsTypeCorrectness == SkillsSpec => []SkillsTypeOK
<1>1. SkillsShape /\ UNCHANGED skillVars => SkillsShape'
  BY DEF SkillsShape, SkillsTypeOK, ContentKnown, skillVars
<1>2. SkillsShape => SkillsTypeOK
  BY DEF SkillsShape
<1> QED BY SkillsInitTypes, SkillsStepTypes, <1>1, <1>2, PTL DEF SkillsSpec

\* The versions that were there, as a step sees them.
Kept == \A v \in DOMAIN versions : /\ v \in DOMAIN versions' /\ versions'[v].digest = versions[v].digest
                                   /\ versions'[v].by = versions[v].by

\* ImportsAreAsShown only looks at versions and at these two of an import.
LEMMA ShownStays ==
    ASSUME ImportsAreAsShown, Kept, DOMAIN versions' = DOMAIN versions,
           \A p \in ImportId : imports'[p].result # 0 =>
             imports'[p].result = imports[p].result /\ imports'[p].digest = imports[p].digest,
           \A v \in DOMAIN versions : versions[v].by # None =>
             /\ imports'[versions[v].by].result = imports[versions[v].by].result
             /\ imports'[versions[v].by].base = imports[versions[v].by].base
    PROVE  ImportsAreAsShown'
<1>1. OneVersionPerContent'
  BY DEF ImportsAreAsShown, OneVersionPerContent, Kept
<1>2. ASSUME NEW p \in ImportId, imports'[p].result # 0
      PROVE  imports'[p].result \in DOMAIN versions' /\ versions'[imports'[p].result].digest = imports'[p].digest
  BY <1>2 DEF ImportsAreAsShown, Kept
<1>3. ASSUME NEW v \in DOMAIN versions', versions'[v].by # None
      PROVE  imports'[versions'[v].by].result = v /\ imports'[versions'[v].by].base = v - 1
  BY <1>3 DEF ImportsAreAsShown, Kept
<1> QED BY <1>1, <1>2, <1>3 DEF ImportsAreAsShown

\* A content nobody has becomes the newest version, of import p or of none.
LEMMA ShownGrows ==
    ASSUME SkillsShape, ImportsAreAsShown, NEW digest \in Digest, NEW by \in ImportId \cup {None},
           New(digest, by), Same(digest) = 0,
           by = None => UNCHANGED imports,
           by # None => /\ imports[by].result = 0 /\ imports[by].digest = digest
                        /\ imports[by].base = Len(versions) /\ Results(by, Len(versions) + 1)
    PROVE  ImportsAreAsShown'
<1> DEFINE last == Len(versions) + 1
<1>1. SkillsTypeOK /\ Len(versions) \in Nat /\ DOMAIN versions = 1..Len(versions)
  BY DEF SkillsShape, SkillsTypeOK
<1>2. /\ \A v \in DOMAIN versions : v \in DOMAIN versions' /\ versions'[v] = versions[v]
      /\ \A v \in DOMAIN versions' : v \in DOMAIN versions \/ v = last
      /\ versions'[last].digest = digest /\ versions'[last].by = by
      /\ last \in DOMAIN versions'
  BY <1>1, NewAppends
<1>3. \A v \in DOMAIN versions : versions[v].digest # digest
  BY <1>1, SameFinds
<1>4. imports \in [ImportId -> ImportRow]
  BY <1>1 DEF SkillsTypeOK, ImportRow
<1>5. \A p \in ImportId : /\ p # by => imports'[p] = imports[p]
                          /\ imports'[p].digest = imports[p].digest /\ imports'[p].base = imports[p].base
  BY <1>4 DEF Results, ImportRow
<1>6. by # None => imports'[by].result = last
  BY <1>1, <1>4 DEF Results, ImportRow
<1>7. OneVersionPerContent'
  BY <1>2, <1>3 DEF ImportsAreAsShown, OneVersionPerContent
<1>8. ASSUME NEW p \in ImportId, imports'[p].result # 0
      PROVE  imports'[p].result \in DOMAIN versions' /\ versions'[imports'[p].result].digest = imports'[p].digest
  <2>1. CASE p = by
    BY <2>1, <1>2, <1>5, <1>6, SkillsAssumption
  <2>2. CASE p # by
    BY <2>2, <1>2, <1>5, <1>8 DEF ImportsAreAsShown
  <2> QED BY <2>1, <2>2
<1>9. ASSUME NEW v \in DOMAIN versions', versions'[v].by # None
      PROVE  imports'[versions'[v].by].result = v /\ imports'[versions'[v].by].base = v - 1
  <2>1. CASE v = last
    BY <2>1, <1>1, <1>2, <1>5, <1>6, <1>9
  <2>2. CASE v \in DOMAIN versions
    <3>1. versions[v].by # None /\ versions'[v] = versions[v] /\ versions[v].by \in ImportId
      BY <2>2, <1>1, <1>2, <1>9, VersionRows
    <3>2. imports[versions[v].by].result = v /\ imports[versions[v].by].base = v - 1 /\ v # 0
      BY <3>1, <2>2, <1>1 DEF ImportsAreAsShown
    <3>3. versions[v].by # by
      BY <3>1, <3>2
    <3> QED BY <3>1, <3>2, <3>3, <1>5
  <2> QED BY <2>1, <2>2, <1>2
<1> QED BY <1>7, <1>8, <1>9 DEF ImportsAreAsShown

LEMMA StepShows == SkillsShape /\ ImportsAreAsShown /\ SkillNext => ImportsAreAsShown'
<1> SUFFICES ASSUME SkillsShape, ImportsAreAsShown, SkillNext PROVE ImportsAreAsShown'
  OBVIOUS
<1>a. SkillsTypeOK /\ imports \in [ImportId -> ImportRow] /\ DOMAIN versions \subseteq Nat \ {0}
      /\ \A v \in DOMAIN versions : versions[v].by \in ImportId \cup {None}
  BY VersionRows DEF SkillsShape, SkillsTypeOK, ImportRow
<1>b. ASSUME UNCHANGED versions PROVE Kept /\ DOMAIN versions' = DOMAIN versions
  BY <1>b DEF Kept
<1>1. ASSUME NEW u \in User, NEW digest \in Digest, Upload(u, digest) PROVE ImportsAreAsShown'
  <2>1. New(digest, None) /\ Same(digest) = 0 /\ UNCHANGED imports
    BY <1>1 DEF Upload
  <2> QED BY <2>1, ShownGrows
<1>2. ASSUME NEW u \in User, NEW digest \in Digest, NEW p \in ImportId, Compare(u, p, digest)
      PROVE  ImportsAreAsShown'
  <2>1. imports[p].result = 0 /\ imports'[p].result = 0 /\ UNCHANGED versions
        /\ \A q \in ImportId : q # p => imports'[q] = imports[q]
    BY <1>2, <1>a DEF Compare, NoImport, ImportRow
  <2>2. \A v \in DOMAIN versions : versions[v].by # None => versions[v].by # p
    BY <2>1, <1>a DEF ImportsAreAsShown
  <2> QED BY <2>1, <2>2, <1>a, <1>b, ShownStays
<1>3. ASSUME NEW u \in User, NEW r \in Role, SetRole(u, r) PROVE ImportsAreAsShown'
  BY <1>3, <1>b, ShownStays DEF SetRole
<1>4. ASSUME NEW p \in ImportId, Show(p) \/ Drop(p) PROVE ImportsAreAsShown'
  <2>1. UNCHANGED versions
        /\ \A q \in ImportId : /\ imports'[q].result = imports[q].result
                               /\ imports'[q].digest = imports[q].digest
                               /\ imports'[q].base = imports[q].base
    BY <1>4, <1>a DEF Show, Drop, ImportRow
  <2> QED BY <2>1, <1>a, <1>b, ShownStays
<1>5. ASSUME NEW p \in ImportId, Confirm(p) PROVE ImportsAreAsShown'
  <2>1. CASE Same(imports[p].digest) # 0 /\ Results(p, Same(imports[p].digest)) /\ UNCHANGED versions
    <3>1. imports[p].result = 0
      BY <1>5 DEF Confirm
    <3>2. \A v \in DOMAIN versions : versions[v].by # None => versions[v].by # p
      BY <3>1, <1>a DEF ImportsAreAsShown
    <3>3. Same(imports[p].digest) \in DOMAIN versions
          /\ versions[Same(imports[p].digest)].digest = imports[p].digest
      BY <2>1, <1>a, SameFinds
    <3>4. /\ imports'[p].result = Same(imports[p].digest) /\ imports'[p].digest = imports[p].digest
          /\ \A q \in ImportId : q # p => imports'[q] = imports[q]
      BY <2>1, <1>a DEF Results, ImportRow
    <3>5. OneVersionPerContent'
      BY <2>1 DEF ImportsAreAsShown, OneVersionPerContent
    <3>6. ASSUME NEW q \in ImportId, imports'[q].result # 0
          PROVE  imports'[q].result \in DOMAIN versions' /\ versions'[imports'[q].result].digest = imports'[q].digest
      BY <2>1, <3>3, <3>4, <3>6 DEF ImportsAreAsShown
    <3>7. ASSUME NEW v \in DOMAIN versions', versions'[v].by # None
          PROVE  imports'[versions'[v].by].result = v /\ imports'[versions'[v].by].base = v - 1
      BY <2>1, <3>2, <3>4, <3>7, <1>a DEF ImportsAreAsShown
    <3> QED BY <3>5, <3>6, <3>7 DEF ImportsAreAsShown
  <2>2. CASE /\ Same(imports[p].digest) = 0 /\ imports[p].base = Len(versions)
             /\ New(imports[p].digest, p) /\ Results(p, Len(versions) + 1)
    <3>1. imports[p].result = 0 /\ imports[p].digest \in Digest
      BY <1>5 DEF Confirm, Confirmable, SkillsShape, ContentKnown
    <3> QED BY <3>1, <2>2, ShownGrows, SkillsAssumption
  <2> QED BY <1>5, <2>1, <2>2 DEF Confirm
<1>6. ASSUME NEW u \in User, NEW v \in DOMAIN versions, NEW enabled \in BOOLEAN, SetEnabled(u, v, enabled)
      PROVE  ImportsAreAsShown'
  <2>1. UNCHANGED imports /\ Enabled(v, enabled)
    BY <1>6 DEF SetEnabled
  <2>2. Kept /\ DOMAIN versions' = DOMAIN versions
    BY <2>1, <1>a, EnabledSwitches DEF Kept, Enabled
  <2> QED BY <2>1, <2>2, ShownStays
<1> QED BY <1>1, <1>2, <1>3, <1>4, <1>5, <1>6 DEF SkillNext, SkillStep, Switch

\* Whoever uploads and imports at once, and however late a preview is confirmed: what an import added
\* is what its preview showed, next to the version it was compared with.
THEOREM ImportsStand == SkillsSpec => []ImportsAreAsShown
<1>1. SkillsInit => ImportsAreAsShown
  BY DEF SkillsInit, ImportsAreAsShown, OneVersionPerContent, NoImport, First
<1>2. SkillsShape /\ UNCHANGED skillVars => SkillsShape'
  BY DEF SkillsShape, SkillsTypeOK, ContentKnown, skillVars
<1>3. ImportsAreAsShown /\ UNCHANGED skillVars => ImportsAreAsShown'
  BY DEF ImportsAreAsShown, OneVersionPerContent, skillVars
<1> QED BY SkillsInitTypes, SkillsStepTypes, StepShows, <1>1, <1>2, <1>3, PTL DEF SkillsSpec

----------------------------------------------------------------------------
(* Drafts, releases and runs: the shape of their state. *)

DraftRow == [binding : Binding, base : Nat]
EditRow == [kind : {"none", "save", "published", "preview"}, binding : Binding, base : Nat]
HolderRow == [kind : {"none", "published", "preview"}, binding : Binding, rev : Nat, granted : BOOLEAN]
ReleaseRow == [kind : {"published", "preview"}, binding : Binding, rev : Nat, granted : BOOLEAN]
RunRow == [stage : {"none", "preparing", "working", "stopped", "succeeded"}, release : Nat,
           alive : BOOLEAN, checking : BOOLEAN]
CallRow == [stage : {"none", "queued", "answered"} \cup Busy, script : Script \cup {None},
            before : BOOLEAN, after : BOOLEAN]

Shape ==
    /\ SkillsShape
    /\ drafts \in Seq(DraftRow) /\ drafts # <<>>
    /\ edits \in [User -> EditRow]
    /\ holder \in HolderRow /\ (holder.kind = "none" => holder = NoHolder)
    /\ releases \in Seq(ReleaseRow)
    /\ run \in RunRow
    /\ calls \in [Call -> CallRow]

LEMMA BindingsAreBindings == ASSUME SkillsTypeOK PROVE Bindings \subseteq Binding
  BY VersionRows DEF Bindings, Binding

LEMMA NoBinding == Nothing \in Binding
  BY DEF Nothing, Binding

\* A step that leaves the packages alone, whatever is asked for.
LEMMA SkillsStayShaped ==
    ASSUME SkillsShape, UNCHANGED <<role, versions, imports>>, asked' \in 0..MaxRequests
    PROVE  SkillsShape'
  BY DEF SkillsShape, SkillsTypeOK, ContentKnown

LEMMA AskedStays == ASSUME SkillsShape, UNCHANGED asked PROVE asked' \in 0..MaxRequests
  BY DEF SkillsShape, SkillsTypeOK

LEMMA TheDraft ==
    ASSUME Shape
    PROVE  /\ Len(drafts) \in Nat \ {0} /\ Len(drafts) \in DOMAIN drafts
           /\ drafts[Len(drafts)] \in DraftRow /\ Draft \in Binding
<1>1. Len(drafts) \in Nat \ {0} /\ Len(drafts) \in DOMAIN drafts
  BY DEF Shape
<1>2. drafts[Len(drafts)] \in DraftRow
  BY <1>1, ElementOfSeq DEF Shape
<1> QED BY <1>1, <1>2 DEF Draft, DraftRow

LEMMA InitShape == Init => Shape
<1> SUFFICES ASSUME Init PROVE Shape
  OBVIOUS
<1>1. SkillsShape
  BY SkillsInitTypes DEF Init
<1>2. PICK b \in Bindings : drafts = <<[binding |-> b, base |-> 0]>>
  BY DEF Init
<1>3. b \in Binding
  BY <1>1, BindingsAreBindings DEF SkillsShape
<1>4. [binding |-> b, base |-> 0] \in DraftRow
  BY <1>3 DEF DraftRow
<1>5. drafts \in Seq(DraftRow) /\ drafts # <<>>
  BY <1>2, <1>4
<1>6. edits \in [User -> EditRow]
  BY NoBinding DEF Init, NoEdit, EditRow
<1>7. holder \in HolderRow /\ holder = NoHolder
  BY NoBinding DEF Init, NoHolder, HolderRow
<1>8. releases \in Seq(ReleaseRow) /\ run \in RunRow
  BY DEF Init, NoRun, RunRow
<1>9. calls \in [Call -> CallRow]
  BY DEF Init, NoCall, CallRow
<1> QED BY <1>1, <1>5, <1>6, <1>7, <1>8, <1>9 DEF Shape

LEMMA AskShapes ==
    ASSUME Shape, NEW u \in User, NEW kind \in {"save", "published", "preview"}, NEW b \in Binding,
           Ask(u, kind, b), asked' \in 0..MaxRequests
    PROVE  Shape'
<1>1. edits' \in [User -> EditRow]
  BY TheDraft DEF Ask, Shape, EditRow
<1>2. SkillsShape'
  BY SkillsStayShaped DEF Ask, Shape
<1> QED BY <1>1, <1>2 DEF Ask, Shape, running

LEMMA GetsShapes ==
    ASSUME Shape, NEW u \in User, NEW kind, Gets(u, kind) PROVE edits' \in [User -> EditRow]
  BY NoBinding DEF Shape, Gets, NoEdit, EditRow

LEMMA LockShapes ==
    ASSUME Shape, NEW u \in User, NEW kind \in {"published", "preview"}, NEW accepted,
           NEW granted \in BOOLEAN, Lock(u, kind, accepted, granted)
    PROVE  Shape'
<1>1. edits' \in [User -> EditRow] /\ edits[u] \in EditRow
  BY GetsShapes DEF Lock, Shape
<1>2. [kind |-> kind, binding |-> Draft, rev |-> edits[u].base, granted |-> granted] \in HolderRow
  BY TheDraft, <1>1 DEF HolderRow, EditRow
<1>3. NoHolder \in HolderRow
  BY NoBinding DEF NoHolder, HolderRow
<1>4. holder' \in HolderRow /\ (holder'.kind = "none" => holder' = NoHolder)
  BY <1>2, <1>3 DEF Lock
<1>5. SkillsShape'
  BY SkillsStayShaped, AskedStays DEF Lock, skillVars, Shape
<1> QED BY <1>1, <1>4, <1>5 DEF Lock, Shape, running

LEMMA SaveShapes == ASSUME Shape, NEW u \in User, Save(u) PROVE Shape'
<1>1. edits' \in [User -> EditRow] /\ edits[u] \in EditRow
  BY GetsShapes DEF Save, Shape
<1>2. [binding |-> edits[u].binding, base |-> edits[u].base] \in DraftRow
  BY <1>1 DEF EditRow, DraftRow
<1>3. drafts' \in Seq(DraftRow) /\ drafts' # <<>>
  BY <1>2 DEF Save, Shape
<1>4. SkillsShape'
  BY SkillsStayShaped, AskedStays DEF Save, skillVars, Shape
<1> QED BY <1>1, <1>3, <1>4 DEF Save, Shape, running

LEMMA CommitShapes == ASSUME Shape, Commit \/ Rollback PROVE Shape'
<1>1. holder' \in HolderRow /\ (holder'.kind = "none" => holder' = NoHolder)
  <2>1. holder' = NoHolder
    BY DEF Commit, Rollback
  <2>2. NoHolder \in HolderRow
    BY NoBinding DEF NoHolder, HolderRow
  <2> QED BY <2>1, <2>2
<1>2. releases' \in Seq(ReleaseRow)
  <2>1. holder # NoHolder => holder \in ReleaseRow
    BY DEF Shape, HolderRow, ReleaseRow
  <2>2. releases' = releases \/ (holder # NoHolder /\ releases' = Append(releases, holder))
    BY DEF Commit, Rollback
  <2>3. releases \in Seq(ReleaseRow)
    BY DEF Shape
  <2> HIDE DEF ReleaseRow
  <2> QED BY <2>1, <2>2, <2>3
<1>3. SkillsShape'
  BY SkillsStayShaped, AskedStays DEF Commit, Rollback, skillVars, Shape
<1> QED BY <1>1, <1>2, <1>3 DEF Commit, Rollback, Shape, running

LEMMA AuthorShapes == ASSUME Shape, NEW u \in User PROVE
    /\ \A b \in Bindings : CheckSave(u, b) => Shape'
    /\ Save(u) \/ AskPublish(u) \/ Publish(u) \/ AskPreview(u) \/ Preview(u) => Shape'
<1>1. ASSUME NEW b \in Bindings, CheckSave(u, b) PROVE Shape'
  <2>1. b \in Binding /\ Ask(u, "save", b) /\ asked' \in 0..MaxRequests
    BY <1>1, BindingsAreBindings, AskTypes DEF Shape, SkillsShape, CheckSave
  <2> QED BY <2>1, AskShapes
<1>2. ASSUME AskPublish(u) \/ AskPreview(u) PROVE Shape'
  <2>1. asked' \in 0..MaxRequests
    BY <1>2, AskedStays DEF Shape, AskPublish, AskPreview
  <2> QED BY <2>1, <1>2, NoBinding, AskShapes DEF AskPublish, AskPreview
<1>3. ASSUME Publish(u) PROVE Shape'
  BY <1>3, LockShapes DEF Publish
<1>4. ASSUME Preview(u) PROVE Shape'
  BY <1>4, LockShapes DEF Preview, Manages
<1> QED BY <1>1, <1>2, <1>3, <1>4, SaveShapes

\* What a step of the run leaves alone.
LEMMA RunStepShapes ==
    ASSUME Shape, RunStep, run' \in RunRow, calls' \in [Call -> CallRow] PROVE Shape'
<1>1. SkillsShape'
  BY SkillsStayShaped, AskedStays DEF RunStep, skillVars, Shape
<1> QED BY <1>1 DEF RunStep, authoring, Shape

LEMMA MovesShapes ==
    ASSUME Shape, NEW c \in Call, NEW from, NEW row \in CallRow, Moves(c, from, row) PROVE Shape'
<1>1. calls' \in [Call -> CallRow] /\ UNCHANGED run /\ RunStep
  BY DEF Moves, Shape
<1> QED BY <1>1, RunStepShapes DEF Shape

LEMMA ToRow ==
    ASSUME Shape, NEW c \in Call, NEW stage \in {"none", "queued", "answered"} \cup Busy
    PROVE  To(c, stage) \in CallRow /\ To(c, stage).before = calls[c].before
           /\ To(c, stage).after = calls[c].after /\ To(c, stage).stage = stage
  BY DEF Shape, To, CallRow

LEMMA AccessIsBoolean == Access \in BOOLEAN
  BY DEF Access, Stands

LEMMA Witnessed ==
    ASSUME NEW row \in CallRow, NEW seen \in BOOLEAN
    PROVE  [row EXCEPT !.before = seen] \in CallRow /\ [row EXCEPT !.after = seen] \in CallRow
  BY DEF CallRow

LEMMA CallStepShapes ==
    ASSUME Shape, NEW c \in Call,
           \/ \E s \in Script : CallScript(c, s)
           \/ Turn(c) \/ Permit(c) \/ Load(c) \/ Recheck(c) \/ Launch(c) \/ Finish(c) \/ Answer(c)
    PROVE  Shape'
<1>1. ASSUME NEW s \in Script, CallScript(c, s) PROVE Shape'
  <2>1. [NoCall EXCEPT !.stage = "queued", !.script = s] \in CallRow
    BY DEF NoCall, CallRow
  <2> QED BY <1>1, <2>1, MovesShapes DEF CallScript
<1>2. ASSUME NEW stage \in Busy \cup {"answered"}, NEW from, Moves(c, from, To(c, stage)) PROVE Shape'
  BY <1>2, ToRow, MovesShapes
<1>3. ASSUME Load(c) PROVE Shape'
  <2>1. To(c, "loaded") \in CallRow
    BY ToRow DEF Busy
  <2>2. [To(c, "loaded") EXCEPT !.before = Access] \in CallRow
    BY <2>1, AccessIsBoolean, Witnessed
  <2> QED BY <1>3, <2>2, MovesShapes DEF Load
<1>4. ASSUME Finish(c) PROVE Shape'
  <2>1. To(c, "finished") \in CallRow
    BY ToRow DEF Busy
  <2>2. [To(c, "finished") EXCEPT !.after = Access] \in CallRow
    BY <2>1, AccessIsBoolean, Witnessed
  <2> QED BY <1>4, <2>2, MovesShapes DEF Finish
<1>5. ASSUME Turn(c) \/ Permit(c) \/ Recheck(c) \/ Launch(c) \/ Answer(c) PROVE Shape'
  BY <1>2, <1>5 DEF Turn, Permit, Recheck, Launch, Answer, Busy
<1> QED BY <1>1, <1>3, <1>4, <1>5

LEMMA ExecuteShapes == Shape /\ Execute => Shape'
<1> SUFFICES ASSUME Shape, Execute PROVE Shape'
  OBVIOUS
<1>1. ASSUME NEW i \in DOMAIN releases, StartRun(i) PROVE Shape'
  <2>1. asked' \in 0..MaxRequests
    BY <1>1, SkillsAssumption DEF StartRun
  <2>2. SkillsShape'
    BY <1>1, <2>1, SkillsStayShaped DEF StartRun, Shape
  <2>3. i \in Nat
    BY DEF Shape
  <2>4. run' \in RunRow
    BY <1>1, <2>3 DEF StartRun, Shape, RunRow
  <2> QED BY <1>1, <2>2, <2>4 DEF StartRun, authoring, Shape
<1>2. ASSUME RunIsLost PROVE Shape'
  <2>1. run' \in RunRow
    BY <1>2 DEF RunIsLost, Shape, RunRow
  <2> QED BY <1>2, <2>1, RunStepShapes DEF RunIsLost, RunStep, Shape
<1>3. ASSUME NEW stage \in {"working", "stopped", "succeeded"}, Becomes(stage), RunStep, UNCHANGED calls PROVE Shape'
  <2>1. run' \in RunRow
    BY <1>3 DEF Becomes, Shape, RunRow
  <2> QED BY <1>3, <2>1, RunStepShapes DEF Shape
<1>4. ASSUME Prepare \/ Stop \/ EndRun PROVE Shape'
  BY <1>3, <1>4 DEF Prepare, Stop, EndRun
<1>5. ASSUME Tick \/ Ticked PROVE Shape'
  <2>1. run' \in RunRow
    BY <1>5 DEF Tick, Ticked, Becomes, Shape, RunRow
  <2> QED BY <1>5, <2>1, RunStepShapes DEF Tick, Ticked, Shape
<1> QED BY <1>1, <1>2, <1>4, <1>5, CallStepShapes DEF Execute

LEMMA SwitchShapes == ASSUME Shape, Switch, calls' = Observed, UNCHANGED <<authoring, run>> PROVE Shape'
<1>1. SkillsShape'
  BY SkillsStepTypes DEF Shape, SkillNext
<1>2. \A c \in Call : calls[c] \in CallRow
  BY DEF Shape
<1>3. ASSUME NEW row \in CallRow, NEW enabled PROVE Seen(row, enabled) \in CallRow
  BY DEF Seen, CallRow, Stands
<1>4. calls' \in [Call -> CallRow]
  BY <1>2, <1>3 DEF Observed, Shape
<1> QED BY <1>1, <1>4 DEF Shape, authoring

LEMMA NextShapes == Shape /\ [Next]_vars => Shape'
<1> SUFFICES ASSUME Shape, [Next]_vars PROVE Shape'
  OBVIOUS
<1>1. ASSUME SkillStep, UNCHANGED <<authoring, running>> PROVE Shape'
  <2>1. SkillsShape'
    BY <1>1, SkillsStepTypes DEF Shape, SkillNext
  <2> QED BY <1>1, <2>1 DEF Shape, authoring, running
<1>2. ASSUME UNCHANGED vars PROVE Shape'
  BY <1>2 DEF vars, skillVars, authoring, running, Shape, SkillsShape, SkillsTypeOK, ContentKnown
<1> QED BY <1>1, <1>2, SwitchShapes, AuthorShapes, CommitShapes, ExecuteShapes DEF Next, Release, Author

\* Drafts, releases, runs and their calls keep their shape, for any number of each.
THEOREM TypeCorrectness == Spec => []TypeOK
<1>1. Shape => TypeOK
  BY DEF Shape, SkillsShape, TypeOK, DraftRow, EditRow, HolderRow, ReleaseRow, RunRow, CallRow
<1> QED BY InitShape, NextShapes, <1>1, PTL DEF Spec

----------------------------------------------------------------------------
(* Releases: what is inserted was granted and seen, and what is inserted later changes no earlier one. *)

\* The same of any releases rs, so that those of two states can be compared.
PublishedIn(rs, n) == {i \in DOMAIN rs : i < n /\ rs[i].kind = "published"}
NewestOf(published) == IF published = {} THEN 0 ELSE CHOOSE i \in published : \A j \in published : j <= i
NewestIn(rs, n) == NewestOf(PublishedIn(rs, n))
CoveredIn(rs, n, b) ==
    LET i == NewestIn(rs, n)
    IN b.scripts = {} \/ (i # 0 /\ rs[i].binding.version = b.version /\ b.scripts \subseteq rs[i].binding.scripts)

\* There is a newest one among published ones: a new one is newer than all others.
NewestExistsIn(rs) == \A n \in 1..Len(rs) + 1 : NewestIn(rs, n) # 0 => NewestIn(rs, n) \in PublishedIn(rs, n)
GrantedIn(rs) == \A n \in DOMAIN rs : rs[n].granted \/ CoveredIn(rs, n, rs[n].binding)

LEMMA PublishedStays ==
    ASSUME NEW rs \in Seq(ReleaseRow), NEW row \in ReleaseRow, NEW n \in 1..Len(rs) + 1
    PROVE  /\ PublishedIn(Append(rs, row), n) = PublishedIn(rs, n)
           /\ NewestIn(Append(rs, row), n) = NewestIn(rs, n)
<1>1. /\ DOMAIN rs = 1..Len(rs) /\ DOMAIN Append(rs, row) = 1..Len(rs) + 1 /\ Len(rs) \in Nat
      /\ \A i \in 1..Len(rs) : Append(rs, row)[i] = rs[i]
  OBVIOUS
<1>2. PublishedIn(Append(rs, row), n) = PublishedIn(rs, n)
  BY <1>1 DEF PublishedIn
<1> QED BY <1>2 DEF NewestIn

LEMMA NewestStays ==
    ASSUME NEW rs \in Seq(ReleaseRow), NEW row \in ReleaseRow, NewestExistsIn(rs)
    PROVE  NewestExistsIn(Append(rs, row))
<1> DEFINE last == Len(rs) + 1
           new == Append(rs, row)
<1>1. /\ DOMAIN rs = 1..Len(rs) /\ DOMAIN new = 1..last /\ Len(rs) \in Nat /\ Len(new) = last
      /\ new[last] = row /\ \A i \in 1..Len(rs) : new[i] = rs[i]
  OBVIOUS
<1>2. ASSUME NEW n \in 1..last, NewestIn(new, n) # 0 PROVE NewestIn(new, n) \in PublishedIn(new, n)
  BY <1>2, PublishedStays DEF NewestExistsIn
<1>3. ASSUME NewestIn(new, last + 1) # 0 PROVE NewestIn(new, last + 1) \in PublishedIn(new, last + 1)
  <2>1. CASE row.kind = "published"
    <3>1. last \in PublishedIn(new, last + 1) /\ \A j \in PublishedIn(new, last + 1) : j <= last
      BY <2>1, <1>1 DEF PublishedIn
    <3> QED BY <3>1 DEF NewestIn, NewestOf
  <2>2. CASE row.kind # "published"
    <3>1. PublishedIn(new, last + 1) = PublishedIn(rs, last)
      BY <2>2, <1>1 DEF PublishedIn
    <3>2. NewestIn(new, last + 1) = NewestIn(rs, last)
      BY <3>1 DEF NewestIn
    <3>3. last \in 1..Len(rs) + 1
      BY <1>1
    <3> QED BY <3>1, <3>2, <3>3, <1>3 DEF NewestExistsIn
  <2> QED BY <2>1, <2>2
<1>4. \A n \in 1..Len(new) + 1 : n \in 1..last \/ n = last + 1
  BY <1>1
<1> QED BY <1>2, <1>3, <1>4 DEF NewestExistsIn

\* What is covered stays covered, by the same release.
LEMMA CoveredStays ==
    ASSUME NEW rs \in Seq(ReleaseRow), NEW row \in ReleaseRow, NewestExistsIn(rs),
           NEW n \in 1..Len(rs) + 1, NEW b, CoveredIn(rs, n, b)
    PROVE  CoveredIn(Append(rs, row), n, b)
<1>1. NewestIn(Append(rs, row), n) = NewestIn(rs, n)
  BY PublishedStays
<1>2. NewestIn(rs, n) # 0 => NewestIn(rs, n) \in 1..Len(rs)
  BY DEF NewestExistsIn, PublishedIn
<1>3. \A i \in 1..Len(rs) : Append(rs, row)[i] = rs[i]
  OBVIOUS
<1> QED BY <1>1, <1>2, <1>3 DEF CoveredIn

LEMMA GrantedStays ==
    ASSUME NEW rs \in Seq(ReleaseRow), NEW row \in ReleaseRow, NewestExistsIn(rs), GrantedIn(rs),
           row.granted \/ CoveredIn(rs, Len(rs) + 1, row.binding)
    PROVE  GrantedIn(Append(rs, row))
<1> SUFFICES ASSUME NEW n \in DOMAIN Append(rs, row)
             PROVE  Append(rs, row)[n].granted \/ CoveredIn(Append(rs, row), n, Append(rs, row)[n].binding)
  BY DEF GrantedIn
<1>1. Len(rs) \in Nat /\ (n \in 1..Len(rs) \/ n = Len(rs) + 1)
  OBVIOUS
<1>2. CASE n \in 1..Len(rs)
  <2>1. Append(rs, row)[n] = rs[n] /\ n \in DOMAIN rs
    BY <1>2
  <2> QED BY <1>1, <1>2, <2>1, CoveredStays DEF GrantedIn
<1>3. CASE n = Len(rs) + 1
  <2>1. Append(rs, row)[n] = row
    BY <1>3
  <2> QED BY <1>1, <1>3, <2>1, CoveredStays
<1> QED BY <1>1, <1>2, <1>3

----------------------------------------------------------------------------
(* What the holder of the agent's row has read still stands when it inserts. *)

HolderStands ==
    holder # NoHolder => /\ holder.granted \/ CoveredIn(releases, Len(releases) + 1, holder.binding)
                         /\ holder.rev \in DOMAIN drafts
                         /\ holder.binding = drafts[holder.rev].binding

Sound == /\ Shape /\ NewestExistsIn(releases) /\ GrantedIn(releases)
         /\ HolderStands /\ ReleasesWereSeen

LEMMA CoversIsCovered ==
    /\ \A b : Covers(Current, b) <=> CoveredIn(releases, Len(releases) + 1, b)
    /\ ScriptsAreGranted <=> GrantedIn(releases)
  BY DEF Covers, Current, PublishedBefore, CoveredIn, NewestIn, NewestOf, PublishedIn, ScriptsAreGranted, GrantedIn

LEMMA CommitKeepsSound ==
    ASSUME Sound, Shape', Commit, ~Unchanged PROVE Sound'
<1>1. Shape /\ holder # NoHolder /\ holder.kind # "none"
  BY DEF Sound, Commit, Shape
<1>2. holder \in ReleaseRow /\ releases \in Seq(ReleaseRow)
  BY <1>1 DEF Shape, HolderRow, ReleaseRow
<1>3. releases' = Append(releases, holder) /\ UNCHANGED drafts /\ holder' = NoHolder
  BY DEF Commit
<1>4. NewestExistsIn(Append(releases, holder)) /\ GrantedIn(Append(releases, holder))
  BY <1>1, <1>2, NewestStays, GrantedStays DEF Sound, HolderStands
<1>5. ASSUME NEW n \in DOMAIN Append(releases, holder)
      PROVE  LET row == Append(releases, holder)[n]
             IN row.rev \in DOMAIN drafts /\ row.binding = drafts[row.rev].binding
  <2> HIDE DEF ReleaseRow
  <2>1. (n \in DOMAIN releases /\ Append(releases, holder)[n] = releases[n]) \/ Append(releases, holder)[n] = holder
    BY <1>2
  <2> QED BY <2>1, <1>1 DEF Sound, HolderStands, ReleasesWereSeen
<1>6. ReleasesWereSeen'
  BY <1>3, <1>5 DEF Sound, ReleasesWereSeen
<1> QED BY <1>3, <1>4, <1>6 DEF HolderStands, Sound

\* The other steps leave the releases.
LEMMA ReleasesStay ==
    ASSUME Sound, Shape', UNCHANGED releases, HolderStands', ReleasesWereSeen' PROVE Sound'
  BY DEF Sound

LEMMA DraftsStay == ASSUME Sound, Shape', UNCHANGED <<releases, drafts, holder>> PROVE Sound'
<1>1. HolderStands' /\ ReleasesWereSeen'
  BY DEF Sound, HolderStands, ReleasesWereSeen
<1> QED BY <1>1, ReleasesStay

LEMMA LockKeepsSound ==
    ASSUME Sound, Shape', NEW u \in User, NEW kind \in {"published", "preview"}, NEW accepted,
           NEW granted \in BOOLEAN, Lock(u, kind, accepted, granted),
           accepted => granted \/ Covers(Current, Draft)
    PROVE  Sound'
<1>1. UNCHANGED <<releases, drafts>>
  BY DEF Lock
<1>2. ReleasesWereSeen'
  BY <1>1 DEF Sound, ReleasesWereSeen
<1>3. HolderStands'
  <2>1. CASE holder' = NoHolder
    BY <2>1 DEF HolderStands
  <2>2. CASE holder' # NoHolder
    <3>1. /\ accepted /\ edits[u].base = Len(drafts)
          /\ holder' = [kind |-> kind, binding |-> Draft, rev |-> edits[u].base, granted |-> granted]
      BY <2>2 DEF Lock, Fresh
    <3>2. holder'.granted = granted /\ holder'.binding = Draft /\ holder'.rev = Len(drafts)
      BY <3>1
    <3>3. Len(drafts) \in DOMAIN drafts
      BY TheDraft DEF Sound
    <3>4. granted \/ CoveredIn(releases, Len(releases) + 1, Draft)
      BY <3>1, CoversIsCovered
    <3> QED BY <1>1, <3>2, <3>3, <3>4 DEF HolderStands, Draft
  <2> QED BY <2>1, <2>2
<1> QED BY <1>1, <1>2, <1>3, ReleasesStay

LEMMA SaveKeepsSound == ASSUME Sound, Shape', NEW u \in User, Save(u) PROVE Sound'
<1>1. holder = NoHolder /\ UNCHANGED <<holder, releases>>
  BY DEF Save, Gets
<1>2. CASE UNCHANGED drafts
  BY <1>1, <1>2, DraftsStay
<1>3. CASE /\ edits[u].base = Len(drafts)
           /\ drafts' = Append(drafts, [binding |-> edits[u].binding, base |-> edits[u].base])
  <2> DEFINE row == [binding |-> edits[u].binding, base |-> edits[u].base]
  <2>1. row \in DraftRow /\ row.base = Len(drafts)
    BY <1>3 DEF Sound, Shape, EditRow, DraftRow
  <2>2. drafts \in Seq(DraftRow) /\ drafts' = Append(drafts, row)
    BY <1>3 DEF Sound, Shape
  <2> HIDE DEF row, DraftRow
  <2>3. /\ Len(drafts) \in Nat /\ Len(drafts') = Len(drafts) + 1 /\ DOMAIN drafts = 1..Len(drafts)
        /\ DOMAIN drafts' = 1..Len(drafts) + 1
        /\ \A n \in DOMAIN drafts : n \in DOMAIN drafts' /\ drafts'[n] = drafts[n]
        /\ drafts'[Len(drafts) + 1].base = Len(drafts)
    BY <2>1, <2>2
  <2>4. ReleasesWereSeen'
    BY <1>1, <2>3 DEF Sound, ReleasesWereSeen
  <2>5. HolderStands'
    BY <1>1 DEF HolderStands
  <2> QED BY <1>1, <2>4, <2>5, ReleasesStay
<1> QED BY <1>2, <1>3 DEF Save, Fresh

LEMMA AuthorKeepsSound == ASSUME Sound, Shape', Author PROVE Sound'
<1>1. ASSUME NEW u \in User, NEW kind, NEW b, Ask(u, kind, b) PROVE Sound'
  BY <1>1, DraftsStay DEF Ask
<1>2. ASSUME NEW u \in User, Publish(u) PROVE Sound'
  BY <1>2, LockKeepsSound DEF Publish
<1>3. ASSUME NEW u \in User, Preview(u) PROVE Sound'
  <2>1. ScriptGrants(u, Draft) => Manages(u) \/ Covers(Current, Draft)
    BY DEF ScriptGrants
  <2>2. Manages(u) \in BOOLEAN
    BY DEF Manages
  <2> QED BY <1>3, <2>1, <2>2, LockKeepsSound DEF Preview
<1> QED BY <1>1, <1>2, <1>3, SaveKeepsSound DEF Author, CheckSave, AskPublish, AskPreview

\* A transaction that inserts nothing, because of what it found or because it failed.
LEMMA NothingInserted ==
    ASSUME Sound, Shape', UNCHANGED <<releases, drafts>>, holder' = NoHolder PROVE Sound'
<1>1. HolderStands' /\ ReleasesWereSeen'
  BY DEF HolderStands, Sound, ReleasesWereSeen
<1> QED BY <1>1, ReleasesStay

LEMMA NextKeepsSound == Sound /\ [Next]_vars => Sound'
<1> SUFFICES ASSUME Sound, [Next]_vars PROVE Sound'
  OBVIOUS
<1>1. Shape'
  BY NextShapes DEF Sound
<1>2. CASE UNCHANGED <<releases, drafts, holder>>
  BY <1>1, <1>2, DraftsStay
<1>3. CASE Author
  BY <1>1, <1>3, AuthorKeepsSound
<1>4. CASE Commit
  <2>1. CASE ~Unchanged
    BY <1>1, <1>4, <2>1, CommitKeepsSound
  <2>2. CASE Unchanged
    BY <1>1, <1>4, <2>2, NothingInserted DEF Commit
  <2> QED BY <2>1, <2>2
<1>5. CASE Rollback
  BY <1>1, <1>5, NothingInserted DEF Rollback
<1>6. CASE Execute
  <2>1. UNCHANGED <<releases, drafts, holder>>
    BY <1>6 DEF Execute, StartRun, RunIsLost, Prepare, Tick, Ticked, Stop, EndRun, CallScript, Turn, Permit, Load,
                Recheck, Launch, Finish, Answer, Moves, RunStep, authoring
  <2> QED BY <1>2, <2>1
<1>7. CASE \/ SkillStep /\ UNCHANGED <<authoring, running>>
           \/ Switch /\ calls' = Observed /\ UNCHANGED <<authoring, run>>
  BY <1>2, <1>7 DEF authoring
<1>8. CASE UNCHANGED vars
  BY <1>2, <1>8 DEF vars, authoring
<1> QED BY <1>3, <1>4, <1>5, <1>6, <1>7, <1>8 DEF Next, Release

\* Whoever edits, publishes, tries and withdraws at once, a release is what its author read and holds
\* no script that nobody entitled to it had granted.
THEOREM ReleasesStand == Spec => []ReleasesAreSound
<1>1. Init => Sound
  <2> SUFFICES ASSUME Init PROVE Sound
    OBVIOUS
  <2>1. releases = <<>> /\ holder = NoHolder /\ Len(drafts) = 1
    BY DEF Init
  <2>2. NewestExistsIn(releases) /\ GrantedIn(releases)
    BY <2>1 DEF NewestExistsIn, NewestIn, NewestOf, PublishedIn, GrantedIn
  <2> QED BY <2>1, <2>2, InitShape DEF Sound, HolderStands, ReleasesWereSeen
<1>2. Sound => ReleasesAreSound
  BY CoversIsCovered DEF Sound, ReleasesAreSound
<1> QED BY <1>1, <1>2, NextKeepsSound, PTL DEF Spec

----------------------------------------------------------------------------
(* Runs: what a call has been answered with goes with the place it is at. *)

Exists(b) == b.version \in 0..Len(versions)
BindingsExist == Exists(holder.binding) /\ \A n \in DOMAIN releases : Exists(releases[n].binding)

RunFits ==
    /\ run.stage = "none" => \A c \in Call : calls[c].stage = "none"
    /\ run.stage # "none" => run.release \in DOMAIN releases /\ Pinned.version \in DOMAIN versions

CallFits(row, access) ==
    /\ row.stage = "loaded" /\ access => row.before
    /\ row.stage \in {"checked", "launched", "finished", "answered"} => row.before
    /\ row.stage = "finished" /\ access => row.after
    /\ row.stage = "answered" => row.after

CallsFit == \A c \in Call : CallFits(calls[c], Access)
OneAtATime == \A c, d \in Call : calls[c].stage \in Busy /\ calls[d].stage \in Busy => c = d

Safe == Shape /\ BindingsExist /\ RunFits /\ CallsFit /\ OneAtATime

\* No version goes away, and only a switch changes one.
LEMMA VersionsGrow ==
    ASSUME SkillsTypeOK, SkillsShape, SkillStep
    PROVE  /\ Len(versions') \in Nat /\ Len(versions) <= Len(versions')
           /\ \A v \in DOMAIN versions : v \in DOMAIN versions' /\ versions'[v] = versions[v]
<1>1. ASSUME UNCHANGED versions
      PROVE  /\ Len(versions') \in Nat /\ Len(versions) <= Len(versions')
             /\ \A v \in DOMAIN versions : v \in DOMAIN versions' /\ versions'[v] = versions[v]
  BY <1>1, VersionRows
<1>2. ASSUME NEW digest \in Digest, NEW by \in ImportId \cup {None}, New(digest, by)
      PROVE  /\ Len(versions') \in Nat /\ Len(versions) <= Len(versions')
             /\ \A v \in DOMAIN versions : v \in DOMAIN versions' /\ versions'[v] = versions[v]
  BY <1>2, NewAppends, VersionRows
<1>3. ASSUME NEW u \in User, NEW digest \in Digest, Upload(u, digest) PROVE New(digest, None)
  BY <1>3 DEF Upload
<1>4. ASSUME NEW p \in ImportId, Confirm(p)
      PROVE  UNCHANGED versions \/ (imports[p].digest \in Digest /\ New(imports[p].digest, p))
  BY <1>4 DEF Confirm, Confirmable, SkillsShape, ContentKnown
<1>5. \/ UNCHANGED versions
      \/ \E digest \in Digest, by \in ImportId \cup {None} : New(digest, by)
  BY <1>3, <1>4 DEF SkillStep, Compare, SetRole, Show, Drop
<1> QED BY <1>1, <1>2, <1>5

LEMMA SwitchKeepsVersions ==
    ASSUME SkillsTypeOK, Switch
    PROVE  Len(versions') = Len(versions) /\ DOMAIN versions' = DOMAIN versions
<1>1. PICK v \in DOMAIN versions, enabled \in BOOLEAN : Enabled(v, enabled)
  BY DEF Switch, SetEnabled
<1>2. versions' \in Seq(VersionRow) /\ Len(versions') = Len(versions)
  BY <1>1, EnabledSwitches
<1> QED BY <1>2, VersionRows

\* A step that no run takes: versions and releases only become more.
LEMMA QuietKeepsSafe ==
    ASSUME Safe, Shape', UNCHANGED running, BindingsExist',
           \A v \in DOMAIN versions : v \in DOMAIN versions' /\ versions'[v] = versions[v],
           \A n \in DOMAIN releases : n \in DOMAIN releases' /\ releases'[n] = releases[n]
    PROVE  Safe'
<1>1. UNCHANGED <<run, calls>>
  BY DEF running
<1>2. run.stage # "none" => Pinned' = Pinned /\ Access' = Access
  BY <1>1 DEF Safe, RunFits, Pinned, Access, Stands
<1>3. RunFits'
  BY <1>1, <1>2 DEF Safe, RunFits
<1>4. CallsFit'
  BY <1>1, <1>2 DEF Safe, RunFits, CallsFit, CallFits
<1> QED BY <1>1, <1>3, <1>4 DEF Safe, OneAtATime

LEMMA ReleaseKeepsBindings ==
    ASSUME Safe, Shape', UNCHANGED versions, Author \/ Commit \/ Rollback
    PROVE  /\ BindingsExist'
           /\ \A n \in DOMAIN releases : n \in DOMAIN releases' /\ releases'[n] = releases[n]
<1>1. NoHolder.binding.version \in 0..Len(versions)
  BY VersionRows DEF NoHolder, Nothing, Safe, Shape, SkillsShape
<1>2. ASSUME NEW u \in User, NEW kind, NEW accepted, NEW granted, Lock(u, kind, accepted, granted)
      PROVE  UNCHANGED releases /\ (holder' = NoHolder \/ (holder'.binding = Draft /\ Usable(Draft)))
  BY <1>2 DEF Lock
<1>3. Usable(Draft) => Draft.version \in 0..Len(versions)
  BY VersionRows DEF Usable, Safe, Shape, SkillsShape
<1>4. CASE Author
  <2>1. UNCHANGED releases /\ \/ UNCHANGED holder
                              \/ holder' = NoHolder
                              \/ (holder'.binding = Draft /\ Usable(Draft))
    BY <1>2, <1>4 DEF Author, CheckSave, AskPublish, AskPreview, Ask, Save, Publish, Preview
  <2> QED BY <2>1, <1>1, <1>3 DEF Safe, BindingsExist, Exists
<1>5. CASE Commit \/ Rollback
  <2>1. holder' = NoHolder /\ (UNCHANGED releases \/ (holder # NoHolder /\ releases' = Append(releases, holder)))
    BY <1>5 DEF Commit, Rollback
  <2>2. CASE UNCHANGED releases
    BY <2>1, <2>2, <1>1 DEF Safe, BindingsExist, Exists
  <2>3. CASE holder # NoHolder /\ releases' = Append(releases, holder)
    <3>1. holder \in ReleaseRow /\ releases \in Seq(ReleaseRow)
      BY <2>3 DEF Safe, Shape, HolderRow, ReleaseRow
    <3> HIDE DEF ReleaseRow
    <3>2. /\ \A n \in DOMAIN releases : n \in DOMAIN releases' /\ releases'[n] = releases[n]
          /\ \A n \in DOMAIN releases' : (n \in DOMAIN releases /\ releases'[n] = releases[n]) \/ releases'[n] = holder
      BY <2>3, <3>1
    <3> QED BY <2>1, <3>2, <1>1 DEF Safe, BindingsExist, Exists
  <2> QED BY <2>1, <2>2, <2>3
<1> QED BY <1>4, <1>5

\* A switch tells every call that has to know.
LEMMA SwitchKeepsSafe ==
    ASSUME Safe, Shape', Switch, calls' = Observed, UNCHANGED <<authoring, run>> PROVE Safe'
<1>1. UNCHANGED <<releases, holder, run>> /\ Pinned' = Pinned
  BY DEF authoring, Pinned
<1>2. Len(versions') = Len(versions) /\ DOMAIN versions' = DOMAIN versions
  BY SwitchKeepsVersions DEF Safe, Shape, SkillsShape
<1>3. BindingsExist'
  BY <1>1, <1>2 DEF Safe, BindingsExist, Exists
<1>4. \A c \in Call : calls'[c].stage = calls[c].stage
  BY DEF Observed, Seen, Safe, Shape, CallRow
<1>5. RunFits'
  BY <1>1, <1>2, <1>4 DEF Safe, RunFits
<1>6. CallsFit'
  <2>1. CASE run.release = 0
    <3>1. 0 \notin DOMAIN releases
      BY DEF Safe, Shape
    <3>2. \A c \in Call : calls[c].stage = "none"
      BY <2>1, <3>1 DEF Safe, RunFits
    <3> QED BY <3>2, <1>4 DEF CallsFit, CallFits
  <2>2. CASE run.release # 0
    <3> DEFINE enabled == versions'[Pinned.version].enabled
    <3>1. Access' <=> Stands(enabled)
      BY <1>1 DEF Access, Stands
    <3>2. ASSUME NEW c \in Call PROVE CallFits(calls'[c], Access')
      <4>1. calls'[c] = Seen(calls[c], enabled) /\ calls[c] \in CallRow
        BY <2>2 DEF Observed, Safe, Shape
      <4>2. CallFits(calls[c], Access)
        BY DEF Safe, CallsFit
      <4> HIDE DEF enabled
      <4>3. CASE calls[c].stage = "loaded"
        BY <3>1, <4>1, <4>3 DEF Seen, CallFits, CallRow
      <4>4. CASE calls[c].stage = "finished"
        BY <3>1, <4>1, <4>2, <4>4 DEF Seen, CallFits, CallRow
      <4>5. CASE calls[c].stage \notin {"loaded", "finished"}
        BY <4>1, <4>2, <4>5 DEF Seen, CallFits
      <4> QED BY <4>3, <4>4, <4>5
    <3> QED BY <3>2 DEF CallsFit
  <2> QED BY <2>1, <2>2
<1>7. OneAtATime'
  BY <1>4 DEF Safe, OneAtATime
<1> QED BY <1>3, <1>5, <1>6, <1>7 DEF Safe

\* A step of the run with its call c, which goes to row; the others stay.
LEMMA MoveKeepsSafe ==
    ASSUME Safe, Shape', NEW c \in Call, NEW from, NEW row, Moves(c, from, row),
           CallFits(row, Access),
           row.stage \in Busy => from \in Busy \/ \A d \in Call : calls[d].stage \notin Busy
    PROVE  Safe'
<1>1. /\ run.stage = "working" /\ calls[c].stage = from /\ calls' = [calls EXCEPT ![c] = row]
      /\ UNCHANGED <<run, versions, releases, holder>>
  BY DEF Moves, Open, RunStep, skillVars, authoring
<1>2. BindingsExist' /\ (Access' <=> Access)
  BY <1>1 DEF Safe, BindingsExist, Exists, Access, Stands, Pinned
<1>3. RunFits'
  BY <1>1 DEF Safe, RunFits, Pinned
<1>4. \A d \in Call : calls'[d] = IF d = c THEN row ELSE calls[d]
  BY <1>1 DEF Safe, Shape
<1>5. CallsFit'
  BY <1>2, <1>4 DEF Safe, CallsFit, CallFits
<1>6. OneAtATime'
  BY <1>1, <1>4 DEF Safe, OneAtATime
<1> QED BY <1>2, <1>3, <1>5, <1>6 DEF Safe

LEMMA CallKeepsSafe ==
    ASSUME Safe, Shape', NEW c \in Call,
           \/ \E s \in Script : CallScript(c, s)
           \/ Turn(c) \/ Permit(c) \/ Load(c) \/ Recheck(c) \/ Launch(c) \/ Finish(c) \/ Answer(c)
    PROVE  Safe'
<1>0. CallFits(calls[c], Access) /\ Shape /\ calls[c] \in CallRow
  BY DEF Safe, CallsFit, Shape
<1>1. ASSUME NEW s \in Script, CallScript(c, s) PROVE Safe'
  <2> DEFINE row == [NoCall EXCEPT !.stage = "queued", !.script = s]
  <2>1. row.stage = "queued"
    BY DEF NoCall
  <2>2. CallFits(row, Access) /\ row.stage \notin Busy
    BY <2>1 DEF CallFits, Busy
  <2> QED BY <1>1, <2>2, MoveKeepsSafe DEF CallScript
<1>2. ASSUME Turn(c) PROVE Safe'
  <2>1. CallFits(To(c, "turn"), Access)
    BY <1>0, ToRow DEF CallFits, Busy
  <2> QED BY <1>2, <2>1, MoveKeepsSafe DEF Turn
<1>3. ASSUME Permit(c) PROVE Safe'
  <2>1. CallFits(To(c, "permitted"), Access) /\ "turn" \in Busy
    BY <1>0, ToRow DEF CallFits, Busy
  <2> QED BY <1>3, <2>1, MoveKeepsSafe DEF Permit
<1>4. ASSUME Load(c) PROVE Safe'
  <2> DEFINE row == [To(c, "loaded") EXCEPT !.before = Access]
  <2>1. row.stage = "loaded" /\ row.before = Access
    BY <1>0, ToRow, AccessIsBoolean DEF CallRow, Busy
  <2>2. CallFits(row, Access) /\ "permitted" \in Busy
    BY <2>1, AccessIsBoolean DEF CallFits, Busy
  <2> QED BY <1>4, <2>2, MoveKeepsSafe DEF Load
<1>5. ASSUME Recheck(c) PROVE Safe'
  <2>1. CallFits(To(c, "checked"), Access) /\ "loaded" \in Busy
    BY <1>0, <1>5, ToRow DEF CallFits, Busy, Recheck, Moves
  <2> QED BY <1>5, <2>1, MoveKeepsSafe DEF Recheck
<1>6. ASSUME Launch(c) PROVE Safe'
  <2>1. CallFits(To(c, "launched"), Access) /\ "checked" \in Busy
    BY <1>0, <1>6, ToRow DEF CallFits, Busy, Launch, Moves
  <2> QED BY <1>6, <2>1, MoveKeepsSafe DEF Launch
<1>7. ASSUME Finish(c) PROVE Safe'
  <2> DEFINE row == [To(c, "finished") EXCEPT !.after = Access]
  <2>1. row.stage = "finished" /\ row.after = Access /\ row.before = calls[c].before
    BY <1>0, ToRow, AccessIsBoolean DEF CallRow, Busy
  <2>2. CallFits(row, Access) /\ "launched" \in Busy
    BY <1>0, <1>7, <2>1, AccessIsBoolean DEF CallFits, Busy, Finish, Moves
  <2> QED BY <1>7, <2>2, MoveKeepsSafe DEF Finish
<1>8. ASSUME Answer(c) PROVE Safe'
  <2>1. CallFits(To(c, "answered"), Access) /\ "finished" \in Busy
    BY <1>0, <1>8, ToRow DEF CallFits, Busy, Answer, Moves
  <2> QED BY <1>8, <2>1, MoveKeepsSafe DEF Answer
<1> QED BY <1>1, <1>2, <1>3, <1>4, <1>5, <1>6, <1>7, <1>8

\* The run ends, is lost, or checks: its calls stay, and it may do no more than before.
LEMMA RunKeepsSafe ==
    ASSUME Safe, Shape', UNCHANGED <<versions, releases, holder, calls>>,
           run'.release = run.release, run'.stage # "none", run.stage # "none",
           run'.alive => run.alive
    PROVE  Safe'
<1>1. BindingsExist' /\ Pinned' = Pinned
  BY DEF Safe, BindingsExist, Exists, Pinned
<1>2. Access' => Access
  BY <1>1 DEF Access, Stands
<1>3. RunFits'
  BY <1>1 DEF Safe, RunFits
<1>4. CallsFit'
  BY <1>2 DEF Safe, CallsFit, CallFits
<1> QED BY <1>1, <1>3, <1>4 DEF Safe, OneAtATime

LEMMA ExecuteKeepsSafe == ASSUME Safe, Shape', Execute PROVE Safe'
<1>0. run \in RunRow
  BY DEF Safe, Shape
<1>1. ASSUME NEW i \in DOMAIN releases, StartRun(i) PROVE Safe'
  <2>1. /\ UNCHANGED <<versions, releases, holder, calls>> /\ run.stage = "none"
        /\ run'.release = i /\ run'.stage = "preparing" /\ releases[i].binding.version # 0
    BY <1>0, <1>1 DEF StartRun, authoring, NoRun, RunRow
  <2>2. \A c \in Call : calls'[c].stage = "none"
    BY <2>1 DEF Safe, RunFits
  <2>3. BindingsExist'
    BY <2>1 DEF Safe, BindingsExist, Exists
  <2>4. releases[i].binding.version \in 0..Len(versions)
    BY DEF Safe, BindingsExist, Exists
  <2>5. RunFits'
    BY <2>1, <2>4, VersionRows DEF RunFits, Pinned, Safe, Shape, SkillsShape
  <2>6. CallsFit' /\ OneAtATime'
    BY <2>2 DEF CallsFit, CallFits, OneAtATime, Busy
  <2> QED BY <2>3, <2>5, <2>6 DEF Safe
<1>2. ASSUME RunIsLost PROVE Safe'
  BY <1>0, <1>2, RunKeepsSafe DEF RunIsLost, RunRow, skillVars, authoring
<1>3. ASSUME NEW stage \in {"working", "stopped", "succeeded"}, Becomes(stage), RunStep, UNCHANGED calls,
             run.stage # "none"
      PROVE  Safe'
  BY <1>0, <1>3, RunKeepsSafe DEF Becomes, RunStep, RunRow, skillVars, authoring
<1>4. ASSUME Prepare \/ Stop \/ EndRun PROVE Safe'
  BY <1>3, <1>4 DEF Prepare, Stop, EndRun, Open
<1>5. ASSUME Tick \/ Ticked PROVE Safe'
  <2>1. /\ UNCHANGED <<versions, releases, holder, calls>> /\ run.stage = "working"
        /\ run'.release = run.release /\ run'.stage # "none" /\ run'.alive = run.alive
    BY <1>0, <1>5, ZenonT(40) DEF Tick, Ticked, Becomes, Open, RunStep, RunRow, skillVars, authoring
  <2> QED BY <2>1, RunKeepsSafe
<1> QED BY <1>1, <1>2, <1>4, <1>5, CallKeepsSafe DEF Execute

LEMMA NextKeepsSafe == Safe /\ [Next]_vars => Safe'
<1> SUFFICES ASSUME Safe, [Next]_vars PROVE Safe'
  OBVIOUS
<1>1. Shape' /\ SkillsShape /\ SkillsTypeOK
  BY NextShapes DEF Safe, Shape, SkillsShape
<1>2. CASE SkillStep /\ UNCHANGED <<authoring, running>>
  <2>1. UNCHANGED <<releases, holder>> /\ UNCHANGED running
    BY <1>2 DEF authoring
  <2>2. /\ Len(versions') \in Nat /\ Len(versions) <= Len(versions')
        /\ \A v \in DOMAIN versions : v \in DOMAIN versions' /\ versions'[v] = versions[v]
    BY <1>1, <1>2, VersionsGrow
  <2>3. BindingsExist'
    BY <1>1, <2>1, <2>2, VersionRows DEF Safe, BindingsExist, Exists
  <2> QED BY <1>1, <2>1, <2>2, <2>3, QuietKeepsSafe
<1>3. CASE Author \/ Commit \/ Rollback
  <2>1. UNCHANGED versions /\ UNCHANGED running
    BY <1>3 DEF Author, CheckSave, AskPublish, AskPreview, Ask, Save, Publish, Preview, Lock, Commit, Rollback, skillVars
  <2>2. /\ BindingsExist'
        /\ \A n \in DOMAIN releases : n \in DOMAIN releases' /\ releases'[n] = releases[n]
    BY <1>1, <1>3, <2>1, ReleaseKeepsBindings
  <2> QED BY <1>1, <2>1, <2>2, QuietKeepsSafe
<1>4. CASE UNCHANGED vars
  <2>1. UNCHANGED <<versions, releases, holder>> /\ UNCHANGED running
    BY <1>4 DEF vars, skillVars, authoring
  <2>2. BindingsExist'
    BY <2>1 DEF Safe, BindingsExist, Exists
  <2> QED BY <1>1, <2>1, <2>2, QuietKeepsSafe
<1> QED BY <1>1, <1>2, <1>3, <1>4, SwitchKeepsSafe, ExecuteKeepsSafe DEF Next, Release

\* Whenever a package is switched off while a script is asked for, read, started or running: it starts only if
\* it was on after all of it had been read, its output is used only if it was on after it had ended, and one
\* runs at a time.
THEOREM RevocationHolds == Spec => []RevocationStands
<1>1. Init => Safe
  <2> SUFFICES ASSUME Init PROVE Safe
    OBVIOUS
  <2>1. /\ Shape /\ releases = <<>> /\ holder = NoHolder /\ run = NoRun
        /\ \A c \in Call : calls[c].stage = "none"
    BY InitShape DEF Init, NoCall
  <2>2. BindingsExist
    BY <2>1, VersionRows DEF BindingsExist, Exists, NoHolder, Nothing, Shape, SkillsShape
  <2> QED BY <2>1, <2>2 DEF Safe, RunFits, CallsFit, CallFits, OneAtATime, NoRun, Busy
<1>2. ASSUME Safe PROVE RevocationStands
  <2> DEFINE started == {c \in Call : calls[c].stage = "launched"}
  <2>1. \A c \in Call : /\ calls[c].stage \in {"launched", "finished", "answered"} => calls[c].before
                        /\ calls[c].stage = "answered" => calls[c].after
    BY <1>2 DEF Safe, CallsFit, CallFits
  <2>2. started = {} \/ \E c \in Call : started = {c}
    BY <1>2 DEF Safe, OneAtATime, Busy
  <2>3. Cardinality(started) <= 1
    <3>1. CASE started = {}
      BY <3>1, FS_EmptySet
    <3>2. CASE \E c \in Call : started = {c}
      <4>1. \A c \in Call : Cardinality({c}) = 1
        BY FS_Singleton
      <4> QED BY <3>2, <4>1
    <3> QED BY <2>2, <3>1, <3>2
  <2> QED BY <2>1, <2>3 DEF RevocationStands
<1> QED BY <1>1, <1>2, NextKeepsSafe, PTL DEF Spec
=============================================================================
