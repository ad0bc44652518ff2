----------------------------- MODULE Knowledge -----------------------------
(***************************************************************************)
(* One knowledge base in the control plane: documents and their versions,  *)
(* staged previews, the jobs that index a version or answer a search, the  *)
(* chunks they deliver, and the dimension of the base's vectors.           *)
(*                                                                         *)
(* Each action is one transaction.  Jobs are claimed once, and requests of *)
(* the runtime are taken as they come: any batch, in any order, from a     *)
(* worker given up for lost as well.  Documents and jobs are numbered in   *)
(* the order they were created; a document's latest version is its last.   *)
(***************************************************************************)
EXTENDS Integers, Sequences, FiniteSets, SequencesExt

CONSTANTS Content,        \* what files hold; stands for its hash
          Size,           \* content -> the chunks its parsed file is planned into
          Preview,        \* bound: previews at a time
          Dimension,      \* the lengths of vectors embedding services answer with
          None,
          MaxDocuments, MaxVersions, MaxChunks,   \* documents of a base, versions of a document, chunks of a version
          Capacity,       \* chunks a base may hold
          MaxSearches,    \* active searches a base may have
          MaxJobs,        \* bound: jobs ever created
          Window          \* bound: ticks of a lease

Ordinal == 0..(MaxChunks - 1)

ASSUME KnowledgeAssumption ==
    /\ Size \in [Content -> 1..MaxChunks]
    /\ {MaxDocuments, MaxVersions, MaxChunks, Capacity, MaxSearches, MaxJobs, Window} \subseteq Nat \ {0}
    /\ None \notin Dimension

VARIABLES documents,   \* sequence of document rows, each with its versions
          jobs,        \* sequence of job rows
          chunks,      \* the chunks stored: job, ordinal, dimension
          dimension,   \* the dimension the base has adopted
          previews     \* preview -> the file parsed for it, or None

vars == <<documents, jobs, chunks, dimension, previews>>

Alive == {"queued", "running"}
Ended == {"succeeded", "failed", "cancelled"}
Busy == {"queued", "processing"}

\* plan is the number of chunks of a parsed file, 0 for a text the worker splits itself.
VersionRow == [content : Content, job : 1..MaxJobs, plan : 0..MaxChunks,
               status : Busy \cup {"ready", "failed"}]
\* content is the latest version's; active is a version's number, 0 for none.
DocumentRow == [status : Busy \cup {"ready", "failed", "deleted"}, content : Content, job : 1..MaxJobs,
                active : 0..MaxVersions, versions : Seq(VersionRow)]
Chunk == [job : 1..MaxJobs, ordinal : Ordinal, dimension : Dimension]
\* hits are the candidates of a search: documents and the versions they were found in.
Hit == (1..MaxJobs) \X (1..MaxVersions)
JobRow == [kind : {"ingest", "search"}, document : 0..MaxJobs, status : Alive \cup Ended,
           lease : 0..Window, overdue : BOOLEAN, hits : SUBSET Hit]
\* A preview that has been imported only repeats its answer; it is forgotten.
Staged == [document : 0..MaxJobs, base : 0..MaxVersions, content : Content, staged : BOOLEAN]

NewJob(kind, d) == [kind |-> kind, document |-> d, status |-> "queued", lease |-> 0,
                    overdue |-> FALSE, hits |-> {}]
NewVersion(c, j, plan) == [content |-> c, job |-> j, plan |-> plan, status |-> "queued"]

NextJob == Len(jobs) + 1
NewDocument == Len(documents) + 1
LiveDocuments == {d \in DOMAIN documents : documents[d].status # "deleted"}
Latest(doc) == Len(doc.versions)
OfJob(j) == {c \in chunks : c.job = j}
\* Of a job that has ended, neither lease nor deadline is read again.
EndedAs(job, status) == [job EXCEPT !.status = status, !.lease = 0, !.overdue = FALSE]

\* UPDATE knowledge_document_versions ... WHERE job_id = j
MarkVersion(doc, j, status) ==
    [doc EXCEPT !.versions = [v \in DOMAIN @ |-> IF @[v].job = j THEN [@[v] EXCEPT !.status = status] ELSE @[v]]]

Live(j) == /\ jobs[j].status = "running" /\ jobs[j].lease > 0

----------------------------------------------------------------------------

\* A file for a new document, or for the next version of d, is parsed outside of
\* any transaction; what was read of d is looked at again before it is staged.
ParsePreview(p, d, c) ==
    /\ previews[p] = None
    /\ d # 0 => d \in LiveDocuments /\ documents[d].status \notin Busy
    /\ previews' = [previews EXCEPT ![p] =
           [document |-> d, base |-> IF d = 0 THEN 0 ELSE Latest(documents[d]), content |-> c, staged |-> FALSE]]
    /\ UNCHANGED <<documents, jobs, chunks, dimension>>
CurrentBase(p) ==
    LET d == previews[p].document IN d # 0 => d \in LiveDocuments /\ Latest(documents[d]) = previews[p].base
StagePreview(p) == /\ previews[p] # None /\ ~previews[p].staged /\ CurrentBase(p)
                   /\ previews' = [previews EXCEPT ![p].staged = TRUE]
                   /\ UNCHANGED <<documents, jobs, chunks, dimension>>
\* It expires, gives way to newer ones, or its request is refused.
DropPreview(p) == /\ previews[p] # None
                  /\ previews' = [previews EXCEPT ![p] = None]
                  /\ UNCHANGED <<documents, jobs, chunks, dimension>>

SameContent(c) == {d \in LiveDocuments : documents[d].content = c}
CanCreate == Cardinality(LiveDocuments) < MaxDocuments

Enqueue(kind, d) == Len(jobs) < MaxJobs /\ jobs' = Append(jobs, NewJob(kind, d))
Create(c, plan) ==
    documents' = Append(documents, [status |-> "queued", content |-> c, job |-> NextJob, active |-> 0,
                                    versions |-> <<NewVersion(c, NextJob, plan)>>])
\* Mutant: an update takes the active version out of the search until it is indexed.
UpdatedInactive(doc, c) ==
    [doc EXCEPT !.status = "queued", !.content = c, !.job = NextJob, !.active = 0,
                !.versions = Append(@, NewVersion(c, NextJob, Size[c]))]
Updated(doc, c) ==
    [doc EXCEPT !.status = "queued", !.content = c, !.job = NextJob,
                !.versions = Append(@, NewVersion(c, NextJob, Size[c]))]
AddVersion(d, c) == documents' = [documents EXCEPT ![d] = Updated(@, c)]

\* Mutant: the job still running is not looked at.
CanUpdateBusy(d, c) == Latest(documents[d]) < MaxVersions /\ SameContent(c) = {}
CanUpdate(d, c) ==
    /\ documents[d].status \notin Busy
    /\ Latest(documents[d]) < MaxVersions
    /\ SameContent(c) = {}
Import(p) ==
    /\ previews[p] # None /\ previews[p].staged /\ CurrentBase(p)
    /\ previews' = [previews EXCEPT ![p] = None]
    /\ LET d == previews[p].document   c == previews[p].content IN
         IF d = 0
         THEN \/ SameContent(c) # {} /\ UNCHANGED <<documents, jobs>>
              \/ /\ SameContent(c) = {} /\ CanCreate
                 /\ Create(c, Size[c]) /\ Enqueue("ingest", NewDocument)
         ELSE \/ documents[d].content = c /\ UNCHANGED <<documents, jobs>>
              \/ /\ documents[d].content # c /\ CanUpdate(d, c)
                 /\ AddVersion(d, c) /\ Enqueue("ingest", d)
    /\ UNCHANGED <<chunks, dimension>>

\* Plain text is uploaded without a preview and without a plan.
Upload(c) == /\ SameContent(c) = {} /\ CanCreate
             /\ Create(c, 0) /\ Enqueue("ingest", NewDocument)
             /\ UNCHANGED <<chunks, dimension, previews>>

Requeued(doc) ==
    [doc EXCEPT !.status = "queued", !.job = NextJob,
                !.versions[Latest(doc)] = [@ EXCEPT !.job = NextJob, !.status = "queued"]]
Retry(d) == /\ documents[d].status = "failed"
            /\ Enqueue("ingest", d)
            /\ chunks' = chunks \ OfJob(documents[d].job)
            /\ documents' = [documents EXCEPT ![d] = Requeued(@)]
            /\ UNCHANGED <<dimension, previews>>

RemoveDocument(d) ==
    /\ jobs' = [j \in DOMAIN jobs |-> IF jobs[j].document = d /\ jobs[j].status \in Alive
                                      THEN EndedAs(jobs[j], "cancelled") ELSE jobs[j]]
    /\ documents' = [documents EXCEPT ![d].status = "deleted", ![d].active = 0]
    /\ chunks' = {c \in chunks : jobs[c.job].document # d}
    /\ previews' = [p \in Preview |->
           IF previews[p] # None /\ previews[p].staged /\ previews[p].document = d THEN None ELSE previews[p]]
    /\ UNCHANGED dimension

Search == /\ Cardinality({j \in DOMAIN jobs : jobs[j].kind = "search" /\ jobs[j].status \in Alive}) < MaxSearches
          /\ Enqueue("search", 0)
          /\ UNCHANGED <<documents, chunks, dimension, previews>>

----------------------------------------------------------------------------

Processing(doc) == [doc EXCEPT !.status = "processing",
                               !.versions[Latest(doc)].status = "processing"]
\* The document is marked only if it waits for this job; otherwise the claim is refused.
Claim(j) == /\ jobs[j].status = "queued" /\ ~jobs[j].overdue
            /\ jobs' = [jobs EXCEPT ![j].status = "running", ![j].lease = Window]
            /\ IF jobs[j].kind = "ingest"
               THEN LET d == jobs[j].document IN
                    /\ documents[d].job = j /\ documents[d].status = "queued"
                    /\ documents' = [documents EXCEPT ![d] = Processing(@)]
               ELSE UNCHANGED documents
            /\ UNCHANGED <<chunks, dimension, previews>>

Renew(j) == /\ Live(j)
            /\ jobs' = [jobs EXCEPT ![j].lease = Window]
            /\ UNCHANGED <<documents, chunks, dimension, previews>>

Planned(j) == {v.plan : v \in {w \in UNION {Range(documents[d].versions) : d \in DOMAIN documents} : w.job = j}}
Adopted(dim) == IF dimension = None THEN dim ELSE dimension
\* A batch that repeats chunks is accepted as long as they are the same.
Batch(j, ordinals, dim) ==
    /\ Live(j) /\ jobs[j].kind = "ingest"
    /\ \A plan \in Planned(j) : plan = 0 \/ \A o \in ordinals : o < plan
    /\ dim = Adopted(dim)
    /\ dimension' = Adopted(dim)
    /\ LET new == {[job |-> j, ordinal |-> o, dimension |-> dim] :
                      o \in ordinals \ {c.ordinal : c \in OfJob(j)}} IN
         /\ Cardinality(chunks \cup new) <= Capacity
         /\ chunks' = chunks \cup new
    /\ UNCHANGED <<documents, jobs, previews>>

\* nearest looks at the chunks of active versions only.
\* Mutant: the latest version is searched instead of the active one.
VisibleLatest == {h \in Hit : /\ h[1] \in LiveDocuments /\ Latest(documents[h[1]]) = h[2]
                              /\ OfJob(documents[h[1]].versions[h[2]].job) # {}}
Visible == {h \in Hit : /\ h[1] \in LiveDocuments /\ documents[h[1]].active = h[2]
                        /\ OfJob(documents[h[1]].versions[h[2]].job) # {}}
Query(j) == /\ Live(j) /\ jobs[j].kind = "search" /\ dimension # None
            /\ jobs' = [jobs EXCEPT ![j].hits = Visible]
            /\ UNCHANGED <<documents, chunks, dimension, previews>>

\* Mutant: chunks are counted, their ordinals are not looked at.
WholeByCount(j, count) == /\ \A plan \in Planned(j) : plan \in {0, count}
                          /\ Cardinality(OfJob(j)) = count
Whole(j, count) == /\ \A plan \in Planned(j) : plan \in {0, count}
                   /\ {c.ordinal : c \in OfJob(j)} = 0..(count - 1)
FinishIngest(j, count) ==
    /\ Live(j) /\ jobs[j].kind = "ingest"
    /\ Whole(j, count)
    /\ LET d == jobs[j].document
           doc == MarkVersion(documents[d], j, "ready") IN
         documents' = [documents EXCEPT ![d] =
             IF doc.job = j THEN [doc EXCEPT !.status = "ready", !.active = Latest(doc)] ELSE doc]
    /\ jobs' = [jobs EXCEPT ![j] = EndedAs(@, "succeeded")]
    /\ UNCHANGED <<chunks, dimension, previews>>
FinishSearch(j, results) ==
    /\ Live(j) /\ jobs[j].kind = "search" /\ results \subseteq jobs[j].hits
    /\ jobs' = [jobs EXCEPT ![j] = [EndedAs(@, "succeeded") EXCEPT !.hits = results]]
    /\ UNCHANGED <<documents, chunks, dimension, previews>>
FinishFailed(j) ==
    /\ Live(j)
    /\ jobs' = [jobs EXCEPT ![j] = EndedAs(@, "failed")]
    /\ IF jobs[j].kind = "ingest"
       THEN LET d == jobs[j].document
                doc == MarkVersion(documents[d], j, "failed") IN
            /\ chunks' = chunks \ OfJob(j)
            /\ documents' = [documents EXCEPT ![d] = IF doc.job = j THEN [doc EXCEPT !.status = "failed"] ELSE doc]
       ELSE UNCHANGED <<documents, chunks>>
    /\ UNCHANGED <<dimension, previews>>

Lost(j) == \/ jobs[j].status = "queued" /\ jobs[j].overdue
           \/ jobs[j].status = "running" /\ jobs[j].lease = 0
LostJobs == {j \in DOMAIN jobs : Lost(j)}
FailLost(doc) ==
    [doc EXCEPT !.versions = [v \in DOMAIN @ |-> IF @[v].job \in LostJobs THEN [@[v] EXCEPT !.status = "failed"] ELSE @[v]],
                !.status = IF doc.job \in LostJobs /\ @ \in Busy THEN "failed" ELSE @]
Reap == /\ jobs' = [j \in DOMAIN jobs |-> IF Lost(j) THEN EndedAs(jobs[j], "failed") ELSE jobs[j]]
        /\ chunks' = {c \in chunks : c.job \notin LostJobs}
        /\ documents' = [d \in DOMAIN documents |-> FailLost(documents[d])]
        /\ UNCHANGED <<dimension, previews>>

Age(j) == /\ jobs[j].status = "running" /\ jobs[j].lease > 0
          /\ jobs' = [jobs EXCEPT ![j].lease = @ - 1]
          /\ UNCHANGED <<documents, chunks, dimension, previews>>
\* Past its deadline a running job is refused and reaped just as without its lease.
Expire(j) == /\ jobs[j].status \in Alive
             /\ jobs' = IF jobs[j].status = "queued" THEN [jobs EXCEPT ![j].overdue = TRUE]
                        ELSE [jobs EXCEPT ![j].lease = 0]
             /\ UNCHANGED <<documents, chunks, dimension, previews>>

----------------------------------------------------------------------------

\* The dimension is fixed with the base or left to the first batch.
Init == /\ documents = <<>> /\ jobs = <<>> /\ chunks = {}
        /\ dimension \in Dimension \cup {None}
        /\ previews = [p \in Preview |-> None]

UserRequest ==
    \/ \E p \in Preview : \/ \E d \in 0..Len(documents), c \in Content : ParsePreview(p, d, c)
                          \/ StagePreview(p) \/ DropPreview(p) \/ Import(p)
    \/ \E c \in Content : Upload(c)
    \/ \E d \in DOMAIN documents : Retry(d) \/ RemoveDocument(d)
    \/ Search
RuntimeRequest(j) ==
    \/ Claim(j) \/ Renew(j)
    \/ \E ordinals \in SUBSET Ordinal \ {{}}, dim \in Dimension : Batch(j, ordinals, dim)
    \/ Query(j)
    \/ \E count \in 1..MaxChunks : FinishIngest(j, count)
    \/ \E results \in SUBSET jobs[j].hits : FinishSearch(j, results)
    \/ FinishFailed(j)
Clock(j) == Age(j) \/ Expire(j)

Next == \/ UserRequest
        \/ \E j \in DOMAIN jobs : RuntimeRequest(j) \/ Clock(j)
        \/ Reap

Spec == Init /\ [][Next]_vars

----------------------------------------------------------------------------

\* The rows have the values their columns allow.
TypeOK == /\ documents \in Seq(DocumentRow) /\ \A d \in DOMAIN documents : Latest(documents[d]) \in 1..MaxVersions
          /\ jobs \in Seq(JobRow) /\ Len(jobs) <= MaxJobs
          /\ chunks \subseteq Chunk
          /\ dimension \in Dimension \cup {None}
          /\ previews \in [Preview -> Staged \cup {None}]

\* What a search can find is whole: the active version of a document is indexed,
\* every one of its chunks is there, and nothing of another attempt is.
ActiveIsComplete ==
    \A d \in LiveDocuments : documents[d].active # 0 =>
        LET version == documents[d].versions[documents[d].active]
            found == {c.ordinal : c \in OfJob(version.job)} IN
          /\ version.status = "ready" /\ jobs[version.job].status = "succeeded"
          /\ found # {} /\ found = 0..(Cardinality(found) - 1)
          /\ version.plan # 0 => Cardinality(found) = version.plan

\* Every vector of the base can be compared with every query: the first batch
\* fixes the dimension for all documents, whichever of them it belongs to.
OneDimension == \A c \in chunks : c.dimension = dimension

\* Chunks of an attempt that failed, was given up or was deleted are gone, and a
\* late batch does not bring them back.
NoOrphanChunks ==
    \A c \in chunks : /\ jobs[c.job].status \in {"running", "succeeded"}
                      /\ jobs[c.job].document \in LiveDocuments
                      /\ \E v \in DOMAIN documents[jobs[c.job].document].versions :
                            documents[jobs[c.job].document].versions[v].job = c.job

\* Nothing else is searchable than whole versions whose vectors can be compared.
SearchableIsWhole == ActiveIsComplete /\ NoOrphanChunks /\ OneDimension

\* A document that waits has a job that will end its wait, and a job that is alive
\* has the document that waits for it: a claim is never refused for its document.
DocumentFollowsJob ==
    /\ \A j \in DOMAIN jobs : jobs[j].kind = "ingest" /\ jobs[j].status \in Alive =>
           LET doc == documents[jobs[j].document] IN
             /\ doc.job = j /\ Last(doc.versions).job = j
             /\ doc.status = IF jobs[j].status = "queued" THEN "queued" ELSE "processing"
    /\ \A d \in LiveDocuments : documents[d].status \in Busy => jobs[documents[d].job].status \in Alive

\* The same content is one document (docs/development/m2.md:9).
OneDocumentPerContent ==
    \A d, e \in LiveDocuments : documents[d].content = documents[e].content => d = e

\* What is uploaded is neither doubled nor left waiting for a job that will never come.
DocumentsAreKept == DocumentFollowsJob /\ OneDocumentPerContent

\* What a search answers with was taken from versions that were fully indexed,
\* also if the document has moved on or been deleted since.
HitsWereIndexed ==
    \A j \in DOMAIN jobs : \A h \in jobs[j].hits : documents[h[1]].versions[h[2]].status = "ready"

\* An update that waits or fails does not take the last good version out of the
\* search: until it is deleted, a document only moves on to a later version.
LastGoodStays ==
    [][\A d \in DOMAIN documents :
          documents[d].active # 0 => \/ documents'[d].status = "deleted"
                                    \/ documents'[d].active >= documents[d].active]_vars

=============================================================================
