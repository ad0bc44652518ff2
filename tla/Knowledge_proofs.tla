-------------------------- MODULE Knowledge_proofs --------------------------
(***************************************************************************)
(* What a knowledge base keeps, for any number of documents, versions,     *)
(* jobs, chunks and previews, and any order of requests: documents, jobs   *)
(* and chunks fit one another.  Fits is inductive; each document, job and  *)
(* chunk fits by itself, so a step is looked at for the one document it    *)
(* moves, and the rest only has to see that nothing of theirs has changed. *)
(***************************************************************************)
EXTENDS Knowledge, FiniteSetTheorems, SequenceTheorems, TLAPS

----------------------------------------------------------------------------
(* What fits.  The rows are parameters, so that lemmas can speak of any. *)

Of(ch, j) == {c \in ch : c.job = j}
Found(ch, j) == {c.ordinal : c \in Of(ch, j)}

\* A version that can be searched: its job succeeded and delivered all chunks.
Complete(version, js, ch) ==
    LET found == Found(ch, version.job)
    IN /\ version.status = "ready" /\ js[version.job].status = "succeeded"
       /\ found # {} /\ found = 0..(Cardinality(found) - 1)
       /\ version.plan # 0 => Cardinality(found) = version.plan

\* Each version has a job of its own, the document waits for the latest one's.
VersionFits(version, d, js) ==
    /\ version.job \in DOMAIN js /\ js[version.job].kind = "ingest" /\ js[version.job].document = d
    /\ version.status = "ready" => js[version.job].status = "succeeded"
    /\ version.status = "failed" => js[version.job].status = "failed"
DocumentFits(doc, d, js, ch) ==
    /\ doc.job = doc.versions[Len(doc.versions)].job
    /\ doc.active \in 0..Len(doc.versions)
    /\ \A v \in 1..Len(doc.versions) : VersionFits(doc.versions[v], d, js)
    /\ \A v, w \in 1..Len(doc.versions) : doc.versions[v].job = doc.versions[w].job => v = w
    /\ doc.status = "failed" => doc.versions[Len(doc.versions)].status = "failed"
    /\ doc.status \in Busy => js[doc.job].status \in Alive
    /\ doc.status # "deleted" /\ doc.active # 0 => Complete(doc.versions[doc.active], js, ch)

\* A job that is alive has the document that waits for it.
JobFits(j, js, docs) ==
    js[j].kind = "ingest" =>
        /\ js[j].document \in DOMAIN docs
        /\ js[j].status \in Alive =>
             /\ docs[js[j].document].job = j
             /\ docs[js[j].document].status = IF js[j].status = "queued" THEN "queued" ELSE "processing"

\* A chunk is of a version that is there, and of an attempt that goes on or went well.
ChunkFits(c, js, docs) ==
    /\ c.job \in DOMAIN js /\ js[c.job].kind = "ingest" /\ js[c.job].status \in {"running", "succeeded"}
    /\ docs[js[c.job].document].status # "deleted"
    /\ \E v \in 1..Len(docs[js[c.job].document].versions) : docs[js[c.job].document].versions[v].job = c.job

HitFits(h, docs) ==
    h[1] \in DOMAIN docs /\ h[2] \in 1..Len(docs[h[1]].versions) /\ docs[h[1]].versions[h[2]].status = "ready"

Shape == TypeOK /\ Len(documents) <= Len(jobs)
DocumentsFit == \A d \in DOMAIN documents : DocumentFits(documents[d], d, jobs, chunks)
JobsFit == \A j \in DOMAIN jobs : JobFits(j, jobs, documents)
ChunksFit == \A c \in chunks : ChunkFits(c, jobs, documents)
HitsFit == \A j \in DOMAIN jobs : \A h \in jobs[j].hits : HitFits(h, documents)

Fits == /\ Shape /\ DocumentsFit /\ JobsFit /\ ChunksFit /\ HitsFit
        /\ OneDimension /\ OneDocumentPerContent

----------------------------------------------------------------------------
(* Rows of a sequence. *)

LEMMA Rows ==
    ASSUME NEW S, NEW s \in Seq(S)
    PROVE  /\ Len(s) \in Nat /\ DOMAIN s = 1..Len(s)
           /\ \A i \in DOMAIN s : s[i] \in S
  BY LenProperties, ElementOfSeq

LEMMA RowsOf ==
    ASSUME NEW S, NEW n \in Nat, NEW s, s = [i \in 1..n |-> s[i]], \A i \in 1..n : s[i] \in S
    PROVE  s \in Seq(S) /\ Len(s) = n /\ DOMAIN s = 1..n
<1>1. s \in [1..n -> S]
  OBVIOUS
<1>2. s \in Seq(S)
  BY <1>1, SeqDef
<1>3. DOMAIN s = 1..n
  BY <1>1
<1> QED BY <1>2, <1>3, LenProperties

LEMMA Appended ==
    ASSUME NEW S, NEW s \in Seq(S), NEW e \in S
    PROVE  /\ Append(s, e) \in Seq(S) /\ Len(Append(s, e)) = Len(s) + 1
           /\ DOMAIN Append(s, e) = 1..(Len(s) + 1)
           /\ \A i \in 1..Len(s) : Append(s, e)[i] = s[i]
           /\ Append(s, e)[Len(s) + 1] = e
  OBVIOUS

\* One row is replaced.
LEMMA Replaced ==
    ASSUME NEW S, NEW s \in Seq(S), NEW i \in DOMAIN s, NEW e \in S
    PROVE  /\ [s EXCEPT ![i] = e] \in Seq(S) /\ Len([s EXCEPT ![i] = e]) = Len(s)
           /\ DOMAIN [s EXCEPT ![i] = e] = DOMAIN s
           /\ \A j \in DOMAIN s : [s EXCEPT ![i] = e][j] = IF j = i THEN e ELSE s[j]
<1>1. DOMAIN s = 1..Len(s)
  BY Rows
<1> QED BY <1>1, ExceptSeq

----------------------------------------------------------------------------
(* A document, as a step leaves it. *)

\* No job goes away or is given to another document, and what has ended stays as it ended.
JobsGrow(js, js2) ==
    \A j \in DOMAIN js :
        /\ j \in DOMAIN js2 /\ js2[j].kind = js[j].kind /\ js2[j].document = js[j].document
        /\ js[j].status \notin Alive => js2[j].status = js[j].status

\* What was delivered for the document by jobs that succeeded is there.
DeliveredStays(d, js, ch, ch2) ==
    \A j \in DOMAIN js : js[j].kind = "ingest" /\ js[j].document = d /\ js[j].status = "succeeded"
                            => Of(ch2, j) = Of(ch, j)

\* Searchable versions stay.
ReadyStays(doc, new) ==
    /\ Len(doc.versions) <= Len(new.versions)
    /\ \A v \in 1..Len(doc.versions) : doc.versions[v].status = "ready" => new.versions[v].status = "ready"

LEMMA CompleteStays ==
    ASSUME NEW version, NEW d, NEW js, NEW ch, NEW js2, NEW ch2,
           JobsGrow(js, js2), DeliveredStays(d, js, ch, ch2), VersionFits(version, d, js), Complete(version, js, ch)
    PROVE  Complete(version, js2, ch2)
<1>1. js[version.job].status = "succeeded" /\ version.job \in DOMAIN js
  BY DEF Complete, VersionFits
<1>2. js2[version.job].status = "succeeded"
  BY <1>1 DEF JobsGrow, Alive
<1>3. Of(ch2, version.job) = Of(ch, version.job)
  BY <1>1 DEF DeliveredStays, VersionFits
<1> QED BY <1>2, <1>3 DEF Complete, Found

LEMMA VersionStays ==
    ASSUME NEW version, NEW d, NEW js, NEW js2, JobsGrow(js, js2), VersionFits(version, d, js)
    PROVE  VersionFits(version, d, js2)
  BY DEF VersionFits, JobsGrow, Alive

\* The document is left alone.
LEMMA DocumentRests ==
    ASSUME NEW doc \in DocumentRow, NEW d, NEW js, NEW ch, NEW js2, NEW ch2,
           Len(doc.versions) # 0,
           DocumentFits(doc, d, js, ch), JobsGrow(js, js2), DeliveredStays(d, js, ch, ch2),
           doc.status \in Busy => js2[doc.job].status \in Alive
    PROVE  DocumentFits(doc, d, js2, ch2)
<1>1. Len(doc.versions) \in Nat
  BY DEF DocumentRow
<1>2. \A v \in 1..Len(doc.versions) : VersionFits(doc.versions[v], d, js2)
  BY VersionStays DEF DocumentFits
<1>3. doc.status # "deleted" /\ doc.active # 0 => Complete(doc.versions[doc.active], js2, ch2)
  <2>1. doc.active # 0 => VersionFits(doc.versions[doc.active], d, js)
    BY <1>1 DEF DocumentFits
  <2> QED BY <2>1, CompleteStays DEF DocumentFits
<1> QED BY <1>2, <1>3 DEF DocumentFits

\* Its latest version moves, or gets a successor, and cannot be searched yet or any more.
Moved(doc, new, d, js2) ==
    LET n == Len(doc.versions)
        m == Len(new.versions) IN
      /\ m = n \/ m = n + 1
      /\ \A v \in 1..m : v # m => new.versions[v] = doc.versions[v] /\ doc.versions[v].job # new.job
      /\ m = n => doc.versions[n].status # "ready"
      /\ new.versions[m].job = new.job /\ new.versions[m].status # "ready"
      /\ new.job \in DOMAIN js2 /\ js2[new.job].kind = "ingest" /\ js2[new.job].document = d
      /\ new.versions[m].status = "failed" => js2[new.job].status = "failed"
      /\ new.status = "failed" => new.versions[m].status = "failed"
      /\ new.status \in Busy => js2[new.job].status \in Alive
      /\ new.active = doc.active /\ doc.status # "deleted"

LEMMA DocumentMoves ==
    ASSUME NEW doc \in DocumentRow, NEW new \in DocumentRow, NEW d, NEW js, NEW ch, NEW js2, NEW ch2,
           Len(doc.versions) # 0, DocumentFits(doc, d, js, ch), JobsGrow(js, js2),
           DeliveredStays(d, js, ch, ch2), Moved(doc, new, d, js2)
    PROVE  DocumentFits(new, d, js2, ch2) /\ ReadyStays(doc, new)
<1> DEFINE n == Len(doc.versions)
<1> DEFINE m == Len(new.versions)
<1> USE DEF Moved
<1>1. n \in Nat /\ m \in Nat /\ m # 0 /\ n <= m
  BY DEF DocumentRow
<1>2. ASSUME NEW v \in 1..m PROVE VersionFits(new.versions[v], d, js2)
  <2>1. CASE v = m
    BY <2>1 DEF VersionFits
  <2>2. CASE v # m
    BY <2>2, <1>1, VersionStays DEF DocumentFits
  <2> QED BY <2>1, <2>2
<1>3. \A v, w \in 1..m : new.versions[v].job = new.versions[w].job => v = w
  BY <1>1, SMTT(30) DEF DocumentFits
<1>4. doc.active # 0 => doc.active \in 1..n /\ doc.active # m /\ new.versions[doc.active] = doc.versions[doc.active]
  BY <1>1, SMTT(30) DEF DocumentFits, Complete
<1>5. new.status # "deleted" /\ new.active # 0 => Complete(new.versions[new.active], js2, ch2)
  <2>1. doc.active # 0 => VersionFits(doc.versions[doc.active], d, js)
    BY <1>4 DEF DocumentFits
  <2> QED BY <2>1, <1>4, CompleteStays DEF DocumentFits
<1>6. new.active \in 0..m
  BY <1>1 DEF DocumentFits
<1>7. ReadyStays(doc, new)
  BY <1>1 DEF ReadyStays
<1> QED BY <1>1, <1>2, <1>3, <1>5, <1>6, <1>7 DEF DocumentFits

\* Its latest version becomes the active one.
LEMMA DocumentIsReady ==
    ASSUME NEW doc \in DocumentRow, NEW new \in DocumentRow, NEW d, NEW js, NEW ch, NEW js2, NEW ch2, NEW n,
           n = Len(doc.versions), n = Len(new.versions), n # 0,
           DocumentFits(doc, d, js, ch), JobsGrow(js, js2),
           \A v \in 1..n : /\ new.versions[v].job = doc.versions[v].job
                           /\ v # n => new.versions[v] = doc.versions[v],
           new.job = doc.job, new.active = n, new.status = "ready",
           Complete(new.versions[n], js2, ch2)
    PROVE  DocumentFits(new, d, js2, ch2) /\ ReadyStays(doc, new)
<1>1. n \in Nat /\ n \in 1..n
  BY DEF DocumentRow
<1>2. ASSUME NEW v \in 1..n PROVE VersionFits(new.versions[v], d, js2)
  <2>1. VersionFits(doc.versions[v], d, js2)
    BY VersionStays DEF DocumentFits
  <2>2. CASE v = n
    <3>1. js2[new.versions[v].job].status = "succeeded" /\ new.versions[v].status = "ready"
      BY <2>2 DEF Complete
    <3>2. new.versions[v].job = doc.versions[v].job
      BY <1>1
    <3> QED BY <2>1, <3>1, <3>2 DEF VersionFits
  <2>3. CASE v # n
    BY <2>1, <2>3
  <2> QED BY <2>2, <2>3
<1>3. \A v, w \in 1..n : new.versions[v].job = new.versions[w].job => v = w
  BY DEF DocumentFits
<1>4. new.active \in 0..n
  BY <1>1
<1>5. new.job = new.versions[n].job
  <2>1. doc.job = doc.versions[n].job
    BY DEF DocumentFits
  <2> QED BY <1>1, <2>1
<1>6. ReadyStays(doc, new)
  <2>1. new.versions[n].status = "ready"
    BY DEF Complete
  <2> QED BY <1>1, <2>1 DEF ReadyStays
<1> QED BY <1>2, <1>3, <1>4, <1>5, <1>6 DEF DocumentFits, Busy

\* It is deleted: its versions are kept and are not looked at any more.
LEMMA DocumentIsDeleted ==
    ASSUME NEW doc \in DocumentRow, NEW new \in DocumentRow, NEW d, NEW js, NEW ch, NEW js2, NEW ch2,
           DocumentFits(doc, d, js, ch), JobsGrow(js, js2),
           new.versions = doc.versions, new.job = doc.job, new.active = 0, new.status = "deleted"
    PROVE  DocumentFits(new, d, js2, ch2) /\ ReadyStays(doc, new)
<1>1. Len(doc.versions) \in Nat
  BY DEF DocumentRow
<1>2. \A v \in 1..Len(new.versions) : VersionFits(new.versions[v], d, js2)
  BY VersionStays DEF DocumentFits
<1> QED BY <1>1, <1>2 DEF DocumentFits, ReadyStays, Busy

\* A new one waits for its only version.
LEMMA DocumentIsNew ==
    ASSUME NEW new \in DocumentRow, NEW d, NEW js, NEW ch,
           Len(new.versions) = 1, new.versions[1].job = new.job, new.versions[1].status = "queued",
           new.active = 0, new.status = "queued",
           new.job \in DOMAIN js, js[new.job].kind = "ingest", js[new.job].document = d,
           js[new.job].status \in Alive
    PROVE  DocumentFits(new, d, js, ch)
  BY DEF DocumentFits, VersionFits

----------------------------------------------------------------------------
(* A base, as a step leaves it. *)

LEMMA ShapeFacts ==
    ASSUME Shape
    PROVE  /\ documents \in Seq(DocumentRow) /\ Len(documents) \in Nat /\ DOMAIN documents = 1..Len(documents)
           /\ jobs \in Seq(JobRow) /\ Len(jobs) \in Nat /\ DOMAIN jobs = 1..Len(jobs)
           /\ \A d \in DOMAIN documents :
                /\ documents[d] \in DocumentRow
                /\ documents[d].versions \in Seq(VersionRow)
                /\ Len(documents[d].versions) \in 1..MaxVersions /\ Len(documents[d].versions) # 0
           /\ \A j \in DOMAIN jobs : jobs[j] \in JobRow
<1>1. documents \in Seq(DocumentRow) /\ jobs \in Seq(JobRow)
  BY DEF Shape, TypeOK
<1>2. \A d \in DOMAIN documents : documents[d] \in DocumentRow
  BY <1>1, Rows
<1>3. \A d \in DOMAIN documents : documents[d].versions \in Seq(VersionRow)
  BY <1>2 DEF DocumentRow
<1>4. \A d \in DOMAIN documents : Len(documents[d].versions) \in 1..MaxVersions /\ Len(documents[d].versions) # 0
  BY KnowledgeAssumption DEF Shape, TypeOK, Latest
<1> QED BY <1>1, <1>2, <1>3, <1>4, Rows

\* What LastGoodStays asks of a step.
Onwards ==
    \A d \in DOMAIN documents :
        documents[d].active # 0 => \/ documents'[d].status = "deleted"
                                  \/ documents'[d].active >= documents[d].active

\* Hits stay good as long as what is searchable stays.
HitsGrow ==
    \A j \in DOMAIN jobs' : \A h \in jobs'[j].hits :
        \/ j \in DOMAIN jobs /\ h \in jobs[j].hits
        \/ HitFits(h, documents')

LEMMA HitsStay ==
    ASSUME Fits, HitsGrow,
           \A d \in DOMAIN documents : d \in DOMAIN documents' /\ ReadyStays(documents[d], documents'[d]),
           \A d \in DOMAIN documents : Len(documents[d].versions) \in Nat /\ Len(documents'[d].versions) \in Nat
    PROVE  HitsFit'
<1> SUFFICES ASSUME NEW j \in DOMAIN jobs', NEW h \in jobs'[j].hits PROVE HitFits(h, documents')
  BY DEF HitsFit
<1>1. CASE j \in DOMAIN jobs /\ h \in jobs[j].hits
  <2>1. HitFits(h, documents)
    BY <1>1 DEF Fits, HitsFit
  <2> QED BY <2>1 DEF HitFits, ReadyStays
<1> QED BY <1>1 DEF HitsGrow

\* Only jobs, and of those only searches or what does not matter, move.
LEMMA DocumentsRest ==
    ASSUME Fits, Shape', UNCHANGED <<documents, chunks, dimension>>,
           JobsGrow(jobs, jobs'), HitsGrow,
           \A j \in DOMAIN jobs : jobs[j].kind = "ingest" => jobs'[j].status = jobs[j].status,
           \A j \in DOMAIN jobs' : jobs'[j].kind = "ingest" => j \in DOMAIN jobs
    PROVE  Fits' /\ Onwards
<1>1. \A d \in DOMAIN documents : documents[d] \in DocumentRow /\ Len(documents[d].versions) \in Nat
                                  /\ Len(documents[d].versions) # 0
  BY ShapeFacts DEF Fits
<1>2. ASSUME NEW d \in DOMAIN documents PROVE DocumentFits(documents[d], d, jobs', chunks)
  <2>1. DocumentFits(documents[d], d, jobs, chunks)
    BY DEF Fits, DocumentsFit
  <2>2. documents[d].job \in DOMAIN jobs /\ jobs[documents[d].job].kind = "ingest"
    BY <2>1, <1>1 DEF DocumentFits, VersionFits
  <2>3. DeliveredStays(d, jobs, chunks, chunks)
    BY DEF DeliveredStays
  <2>4. documents[d].status \in Busy => jobs'[documents[d].job].status \in Alive
    BY <2>1, <2>2 DEF DocumentFits
  <2> QED BY <1>1, <2>1, <2>3, <2>4, DocumentRests
<1>3. DocumentsFit'
  BY <1>2 DEF DocumentsFit
<1>4. JobsFit'
  BY DEF Fits, JobsFit, JobFits, JobsGrow
<1>5. ChunksFit'
  BY DEF Fits, ChunksFit, ChunkFits, JobsGrow
<1>6. HitsFit'
  <2>1. \A d \in DOMAIN documents : ReadyStays(documents[d], documents[d])
    BY <1>1 DEF ReadyStays
  <2> QED BY <2>1, <1>1, HitsStay
<1>7. Onwards
  BY <1>1 DEF Onwards, DocumentRow
<1> QED BY <1>3, <1>4, <1>5, <1>6, <1>7 DEF Fits, OneDimension, OneDocumentPerContent, LiveDocuments

\* One document moves, with its jobs and chunks.
LEMMA OneMoves ==
    ASSUME Fits, Shape', NEW d \in DOMAIN documents, NEW new \in DocumentRow,
           DOMAIN documents' = DOMAIN documents,
           \A e \in DOMAIN documents : documents'[e] = IF e = d THEN new ELSE documents[e],
           JobsGrow(jobs, jobs'), HitsGrow,
           \A j \in DOMAIN jobs : jobs[j].kind = "ingest" /\ jobs[j].document # d
                                     => jobs'[j].status = jobs[j].status /\ Of(chunks', j) = Of(chunks, j),
           \A j \in DOMAIN jobs' : jobs'[j].kind = "ingest" => j \in DOMAIN jobs \/ jobs'[j].document = d,
           DocumentFits(new, d, jobs', chunks'), ReadyStays(documents[d], new),
           \A j \in DOMAIN jobs' : jobs'[j].kind = "ingest" /\ jobs'[j].document = d /\ jobs'[j].status \in Alive
                => new.job = j /\ new.status = IF jobs'[j].status = "queued" THEN "queued" ELSE "processing",
           \A c \in chunks' : (c \in chunks /\ jobs[c.job].document # d) \/ ChunkFits(c, jobs', documents'),
           OneDimension', OneDocumentPerContent',
           new.status = "deleted" \/ new.active >= documents[d].active
    PROVE  Fits' /\ Onwards
<1>1. \A e \in DOMAIN documents : documents[e] \in DocumentRow /\ Len(documents[e].versions) \in Nat
                                  /\ Len(documents[e].versions) # 0
  BY ShapeFacts DEF Fits
<1>2. ASSUME NEW e \in DOMAIN documents, e # d PROVE DocumentFits(documents[e], e, jobs', chunks')
  <2>1. DocumentFits(documents[e], e, jobs, chunks)
    BY DEF Fits, DocumentsFit
  <2>2. /\ documents[e].job \in DOMAIN jobs /\ jobs[documents[e].job].kind = "ingest"
        /\ jobs[documents[e].job].document = e
    BY <2>1, <1>1 DEF DocumentFits, VersionFits
  <2>3. DeliveredStays(e, jobs, chunks, chunks')
    BY <1>2 DEF DeliveredStays
  <2>4. documents[e].status \in Busy => jobs'[documents[e].job].status \in Alive
    BY <1>2, <2>1, <2>2 DEF DocumentFits
  <2> QED BY <1>1, <2>1, <2>3, <2>4, DocumentRests
<1>3. DocumentsFit'
  <2> SUFFICES ASSUME NEW e \in DOMAIN documents PROVE DocumentFits(documents'[e], e, jobs', chunks')
    BY DEF DocumentsFit
  <2> QED BY <1>2
<1>4. JobsFit'
  <2> SUFFICES ASSUME NEW j \in DOMAIN jobs' PROVE JobFits(j, jobs', documents')
    BY DEF JobsFit
  <2>1. CASE jobs'[j].kind = "ingest" /\ jobs'[j].document = d
    BY <2>1 DEF JobFits
  <2>2. CASE jobs'[j].kind = "ingest" /\ jobs'[j].document # d
    <3>1. j \in DOMAIN jobs /\ JobFits(j, jobs, documents)
      BY <2>2 DEF Fits, JobsFit
    <3> QED BY <2>2, <3>1 DEF JobFits, JobsGrow
  <2> QED BY <2>1, <2>2 DEF JobFits
<1>5. ChunksFit'
  <2> SUFFICES ASSUME NEW c \in chunks' PROVE ChunkFits(c, jobs', documents')
    BY DEF ChunksFit
  <2>1. CASE c \in chunks /\ jobs[c.job].document # d
    <3>1. ChunkFits(c, jobs, documents)
      BY <2>1 DEF Fits, ChunksFit
    <3>2. c.job \in DOMAIN jobs /\ JobFits(c.job, jobs, documents)
      BY <3>1 DEF ChunkFits, Fits, JobsFit
    <3> QED BY <2>1, <3>1, <3>2 DEF ChunkFits, JobFits, JobsGrow
  <2> QED BY <2>1
<1>6. HitsFit'
  <2>1. \A e \in DOMAIN documents : ReadyStays(documents[e], documents'[e])
    BY <1>1 DEF ReadyStays
  <2>2. \A e \in DOMAIN documents : Len(documents'[e].versions) \in Nat
    BY <1>1 DEF DocumentRow
  <2> QED BY <2>1, <2>2, <1>1, HitsStay
<1>7. Onwards
  BY <1>1 DEF Onwards, DocumentRow
<1> QED BY <1>3, <1>4, <1>5, <1>6, <1>7 DEF Fits

----------------------------------------------------------------------------
(* What the steps may count on. *)

LEMMA DocumentFacts ==
    ASSUME Fits, NEW d \in DOMAIN documents
    PROVE  /\ documents[d] \in DocumentRow /\ DocumentFits(documents[d], d, jobs, chunks)
           /\ documents[d].versions \in Seq(VersionRow)
           /\ Len(documents[d].versions) \in 1..MaxVersions /\ Len(documents[d].versions) \in Nat
           /\ Len(documents[d].versions) # 0
           /\ DOMAIN documents[d].versions = 1..Len(documents[d].versions)
           /\ documents[d].job \in DOMAIN jobs
           /\ documents[d].job = documents[d].versions[Len(documents[d].versions)].job
           /\ jobs[documents[d].job].kind = "ingest" /\ jobs[documents[d].job].document = d
           /\ \A v \in 1..Len(documents[d].versions) : VersionFits(documents[d].versions[v], d, jobs)
<1>1. documents[d] \in DocumentRow /\ documents[d].versions \in Seq(VersionRow)
      /\ Len(documents[d].versions) \in 1..MaxVersions /\ Len(documents[d].versions) # 0
  BY ShapeFacts DEF Fits
<1>2. DocumentFits(documents[d], d, jobs, chunks)
  BY DEF Fits, DocumentsFit
<1>3. Len(documents[d].versions) \in Nat /\ DOMAIN documents[d].versions = 1..Len(documents[d].versions)
  BY <1>1, Rows
<1> QED BY <1>1, <1>2, <1>3 DEF DocumentFits, VersionFits

\* An indexing job that is alive is its document's, and of its latest version, which is not indexed.
LEMMA AliveFacts ==
    ASSUME Fits, NEW j \in DOMAIN jobs, jobs[j].kind = "ingest", jobs[j].status \in Alive
    PROVE  LET d == jobs[j].document
               n == Len(documents[d].versions) IN
             /\ d \in DOMAIN documents /\ documents[d].job = j
             /\ documents[d].status = IF jobs[j].status = "queued" THEN "queued" ELSE "processing"
             /\ documents[d].versions[n].job = j
             /\ documents[d].versions[n].status \notin {"ready", "failed"}
             /\ \A v \in 1..n : v # n => documents[d].versions[v].job # j
             /\ \A i \in DOMAIN jobs : jobs[i].kind = "ingest" /\ jobs[i].document = d /\ jobs[i].status \in Alive
                                          => i = j
<1> DEFINE d == jobs[j].document
<1> DEFINE n == Len(documents[d].versions)
<1>1. \A i \in DOMAIN jobs : JobFits(i, jobs, documents)
  BY DEF Fits, JobsFit
<1>2. d \in DOMAIN documents /\ documents[d].job = j
      /\ documents[d].status = IF jobs[j].status = "queued" THEN "queued" ELSE "processing"
  BY <1>1 DEF JobFits
<1>3. documents[d].versions[n].job = j /\ VersionFits(documents[d].versions[n], d, jobs)
      /\ n \in 1..n /\ DocumentFits(documents[d], d, jobs, chunks)
  BY <1>2, DocumentFacts
<1>4. documents[d].versions[n].status \notin {"ready", "failed"}
  BY <1>3 DEF VersionFits, Alive
<1>5. \A v \in 1..n : v # n => documents[d].versions[v].job # j
  BY <1>3 DEF DocumentFits
<1>6. \A i \in DOMAIN jobs : jobs[i].kind = "ingest" /\ jobs[i].document = d /\ jobs[i].status \in Alive => i = j
  BY <1>1, <1>2 DEF JobFits
<1> QED BY <1>2, <1>3, <1>4, <1>5, <1>6

\* A version's chunks stay where its document and its job stay.
LEMMA ChunkStays ==
    ASSUME NEW c, NEW js, NEW docs, NEW js2, NEW docs2, ChunkFits(c, js, docs), JobsGrow(js, js2),
           js2[c.job].status \in {"running", "succeeded"},
           docs2[js[c.job].document].status # "deleted",
           \E w \in 1..Len(docs2[js[c.job].document].versions) :
              docs2[js[c.job].document].versions[w].job = c.job
    PROVE  ChunkFits(c, js2, docs2)
  BY DEF ChunkFits, JobsGrow

LEMMA ContentStays ==
    ASSUME OneDocumentPerContent, DOMAIN documents' = DOMAIN documents,
           \A d \in DOMAIN documents : documents'[d].status # "deleted" =>
               documents[d].status # "deleted" /\ documents'[d].content = documents[d].content
    PROVE  OneDocumentPerContent'
  BY DEF OneDocumentPerContent, LiveDocuments

\* One job moves, and its document has no part in it.
LEMMA OneJobMoves ==
    ASSUME Fits, NEW j \in DOMAIN jobs, NEW new \in JobRow,
           jobs' = [jobs EXCEPT ![j] = new], UNCHANGED <<documents, chunks, dimension, previews>>,
           new.kind = jobs[j].kind, new.document = jobs[j].document,
           jobs[j].kind = "ingest" \/ jobs[j].status \notin Alive => new.status = jobs[j].status,
           \A h \in new.hits : h \in jobs[j].hits \/ HitFits(h, documents)
    PROVE  Fits' /\ Onwards
<1>1. jobs \in Seq(JobRow)
  BY ShapeFacts DEF Fits
<1>2. /\ jobs' \in Seq(JobRow) /\ Len(jobs') = Len(jobs) /\ DOMAIN jobs' = DOMAIN jobs
      /\ \A i \in DOMAIN jobs : jobs'[i] = IF i = j THEN new ELSE jobs[i]
  BY <1>1, Replaced
<1>3. Shape'
  BY <1>2 DEF Fits, Shape, TypeOK, Latest
<1>4. JobsGrow(jobs, jobs')
  BY <1>2 DEF JobsGrow
<1>5. HitsGrow
  BY <1>2 DEF HitsGrow
<1>6. \A i \in DOMAIN jobs : jobs[i].kind = "ingest" => jobs'[i].status = jobs[i].status
  BY <1>2
<1>7. \A i \in DOMAIN jobs' : jobs'[i].kind = "ingest" => i \in DOMAIN jobs
  BY <1>2
<1> QED BY <1>3, <1>4, <1>5, <1>6, <1>7, DocumentsRest

----------------------------------------------------------------------------
(* The steps that leave the documents alone. *)

LEMMA JobRows ==
    ASSUME Fits, NEW j \in DOMAIN jobs
    PROVE  /\ jobs[j] \in JobRow /\ Window \in Nat
           /\ [jobs[j] EXCEPT !.lease = Window] \in JobRow
           /\ [jobs[j] EXCEPT !.lease = 0] \in JobRow
           /\ [jobs[j] EXCEPT !.overdue = TRUE] \in JobRow
           /\ \A status \in Ended : EndedAs(jobs[j], status) \in JobRow
           /\ \A hits \in SUBSET Hit : [jobs[j] EXCEPT !.hits = hits] \in JobRow
<1>1. jobs[j] \in JobRow
  BY ShapeFacts DEF Fits
<1>2. Window \in Nat /\ 0 \in 0..Window /\ Window \in 0..Window
  BY KnowledgeAssumption
<1> QED BY <1>1, <1>2 DEF JobRow, EndedAs, Ended

LEMMA EndedJob ==
    ASSUME Fits, NEW j \in DOMAIN jobs, NEW status \in Ended
    PROVE  LET job == EndedAs(jobs[j], status) IN
             /\ job \in JobRow /\ job.status = status /\ job.kind = jobs[j].kind
             /\ job.document = jobs[j].document /\ job.hits = jobs[j].hits
<1>1. jobs[j] \in JobRow /\ EndedAs(jobs[j], status) \in JobRow
  BY JobRows
<1> QED BY <1>1 DEF JobRow, EndedAs

LEMMA PreviewSteps ==
    ASSUME Fits, UNCHANGED <<documents, jobs, chunks, dimension>>,
           previews' \in [Preview -> Staged \cup {None}]
    PROVE  Fits' /\ Onwards
<1>1. Shape'
  BY DEF Fits, Shape, TypeOK, Latest
<1>2. JobsGrow(jobs, jobs') /\ HitsGrow
  BY DEF JobsGrow, HitsGrow
<1> QED BY <1>1, <1>2, DocumentsRest

LEMMA LeaseSteps ==
    ASSUME Fits, NEW j \in DOMAIN jobs, Renew(j) \/ Age(j) \/ Expire(j)
    PROVE  Fits' /\ Onwards
<1>1. jobs[j] \in JobRow /\ Window \in Nat
  BY JobRows
<1>2. ASSUME NEW new \in JobRow, jobs' = [jobs EXCEPT ![j] = new],
             UNCHANGED <<documents, chunks, dimension, previews>>,
             new.kind = jobs[j].kind, new.document = jobs[j].document,
             new.status = jobs[j].status, new.hits = jobs[j].hits
      PROVE  Fits' /\ Onwards
  BY <1>2, OneJobMoves
<1>3. CASE Renew(j)
  <2> DEFINE new == [jobs[j] EXCEPT !.lease = Window]
  <2>1. new \in JobRow /\ new.kind = jobs[j].kind /\ new.document = jobs[j].document
        /\ new.status = jobs[j].status /\ new.hits = jobs[j].hits
    BY <1>1, JobRows DEF JobRow
  <2>2. jobs' = [jobs EXCEPT ![j] = new]
    BY <1>3 DEF Renew
  <2> QED BY <1>2, <1>3, <2>1, <2>2 DEF Renew
<1>4. CASE Age(j)
  <2> DEFINE new == [jobs[j] EXCEPT !.lease = @ - 1]
  <2>1. new \in JobRow /\ new.kind = jobs[j].kind /\ new.document = jobs[j].document
        /\ new.status = jobs[j].status /\ new.hits = jobs[j].hits
    BY <1>1, <1>4 DEF JobRow, Age
  <2>2. jobs' = [jobs EXCEPT ![j] = new]
    BY <1>4 DEF Age
  <2> QED BY <1>2, <1>4, <2>1, <2>2 DEF Age
<1>5. CASE Expire(j) /\ jobs[j].status = "queued"
  <2> DEFINE new == [jobs[j] EXCEPT !.overdue = TRUE]
  <2>1. new \in JobRow /\ new.kind = jobs[j].kind /\ new.document = jobs[j].document
        /\ new.status = jobs[j].status /\ new.hits = jobs[j].hits
    BY <1>1, JobRows DEF JobRow
  <2>2. jobs' = [jobs EXCEPT ![j] = new]
    BY <1>5 DEF Expire
  <2> QED BY <1>2, <1>5, <2>1, <2>2 DEF Expire
<1>6. CASE Expire(j) /\ jobs[j].status # "queued"
  <2> DEFINE new == [jobs[j] EXCEPT !.lease = 0]
  <2>1. new \in JobRow /\ new.kind = jobs[j].kind /\ new.document = jobs[j].document
        /\ new.status = jobs[j].status /\ new.hits = jobs[j].hits
    BY <1>1, JobRows DEF JobRow
  <2>2. jobs' = [jobs EXCEPT ![j] = new]
    BY <1>6 DEF Expire
  <2> QED BY <1>2, <1>6, <2>1, <2>2 DEF Expire
<1> QED BY <1>3, <1>4, <1>5, <1>6

\* A job is created.
LEMMA NewJobFacts ==
    ASSUME Fits, NEW kind \in {"ingest", "search"}, NEW d \in 0..MaxJobs, Enqueue(kind, d)
    PROVE  /\ jobs' \in Seq(JobRow) /\ Len(jobs') = NextJob /\ NextJob \in 1..MaxJobs
           /\ DOMAIN jobs' = 1..NextJob
           /\ \A j \in DOMAIN jobs : j \in DOMAIN jobs' /\ j # NextJob /\ jobs'[j] = jobs[j]
           /\ \A j \in DOMAIN jobs' : j \in DOMAIN jobs \/ j = NextJob
           /\ NextJob \in DOMAIN jobs' /\ jobs'[NextJob] = NewJob(kind, d)
           /\ JobsGrow(jobs, jobs') /\ HitsGrow
<1>1. jobs \in Seq(JobRow) /\ Len(jobs) \in Nat /\ DOMAIN jobs = 1..Len(jobs) /\ Len(jobs) < MaxJobs
      /\ MaxJobs \in Nat /\ Window \in Nat
  BY ShapeFacts, KnowledgeAssumption DEF Fits, Enqueue
<1>2. NewJob(kind, d) \in JobRow
  BY <1>1 DEF NewJob, JobRow, Alive
<1>3. jobs' = Append(jobs, NewJob(kind, d))
  BY DEF Enqueue
<1>4. /\ jobs' \in Seq(JobRow) /\ Len(jobs') = NextJob /\ DOMAIN jobs' = 1..NextJob
      /\ \A j \in 1..Len(jobs) : jobs'[j] = jobs[j]
      /\ jobs'[NextJob] = NewJob(kind, d)
  BY <1>1, <1>2, <1>3, Appended DEF NextJob
<1>5. NextJob \in 1..MaxJobs
  BY <1>1 DEF NextJob
<1>6. /\ \A j \in DOMAIN jobs : j \in DOMAIN jobs' /\ j # NextJob /\ jobs'[j] = jobs[j]
      /\ \A j \in DOMAIN jobs' : j \in DOMAIN jobs \/ j = NextJob
      /\ NextJob \in DOMAIN jobs'
  BY <1>1, <1>4 DEF NextJob
<1>7. JobsGrow(jobs, jobs')
  BY <1>6 DEF JobsGrow
<1>8. HitsGrow
  BY <1>4, <1>6 DEF HitsGrow, NewJob
<1> QED BY <1>4, <1>5, <1>6, <1>7, <1>8

\* A search is asked, takes its candidates, and is answered.
LEMMA SearchStep ==
    ASSUME Fits, Search
    PROVE  Fits' /\ Onwards
<1>1. 0 \in 0..MaxJobs
  BY KnowledgeAssumption
<1>2. /\ jobs' \in Seq(JobRow) /\ Len(jobs') = NextJob /\ NextJob \in 1..MaxJobs
      /\ \A j \in DOMAIN jobs : j \in DOMAIN jobs' /\ jobs'[j] = jobs[j]
      /\ \A j \in DOMAIN jobs' : j \in DOMAIN jobs \/ j = NextJob
      /\ jobs'[NextJob] = NewJob("search", 0) /\ JobsGrow(jobs, jobs') /\ HitsGrow
  BY <1>1, NewJobFacts DEF Search
<1>3. Shape'
  <2>1. Len(jobs) \in Nat /\ Len(documents) \in Nat
    BY ShapeFacts DEF Fits
  <2> QED BY <1>2, <2>1, KnowledgeAssumption DEF Fits, Shape, TypeOK, Latest, Search, NextJob
<1> QED BY <1>2, <1>3, DocumentsRest DEF Search, NewJob

LEMMA QueryStep ==
    ASSUME Fits, NEW j \in DOMAIN jobs, Query(j)
    PROVE  Fits' /\ Onwards
<1> DEFINE new == [jobs[j] EXCEPT !.hits = Visible]
<1>1. Visible \in SUBSET Hit
  BY DEF Visible
<1>2. new \in JobRow /\ new.kind = jobs[j].kind /\ new.document = jobs[j].document
      /\ new.status = jobs[j].status /\ new.hits = Visible
  BY <1>1, JobRows DEF JobRow
<1>3. ASSUME NEW h \in Visible PROVE HitFits(h, documents)
  <2>1. h[1] \in DOMAIN documents /\ documents[h[1]].status # "deleted" /\ documents[h[1]].active = h[2] /\ h[2] # 0
    BY <1>3, KnowledgeAssumption DEF Visible, LiveDocuments, Hit
  <2>2. DocumentFits(documents[h[1]], h[1], jobs, chunks) /\ Len(documents[h[1]].versions) \in Nat
    BY <2>1, DocumentFacts
  <2> QED BY <2>1, <2>2 DEF HitFits, DocumentFits, Complete
<1>4. jobs' = [jobs EXCEPT ![j] = new]
  BY DEF Query
<1> QED BY <1>2, <1>3, <1>4, OneJobMoves DEF Query

LEMMA AnswerStep ==
    ASSUME Fits, NEW j \in DOMAIN jobs, NEW results \in SUBSET jobs[j].hits, FinishSearch(j, results)
    PROVE  Fits' /\ Onwards
<1> DEFINE new == [EndedAs(jobs[j], "succeeded") EXCEPT !.hits = results]
<1>1. jobs[j] \in JobRow /\ EndedAs(jobs[j], "succeeded") \in JobRow
  BY JobRows DEF Ended
<1>2. new \in JobRow /\ new.kind = jobs[j].kind /\ new.document = jobs[j].document /\ new.hits = results
  BY <1>1 DEF JobRow, EndedAs
<1>3. jobs' = [jobs EXCEPT ![j] = new]
  BY DEF FinishSearch
<1>4. jobs[j].kind = "search" /\ jobs[j].status \in Alive
  BY DEF FinishSearch, Live, Alive
<1> QED BY <1>2, <1>3, <1>4, OneJobMoves DEF FinishSearch

LEMMA SearchMoves ==
    ASSUME Fits, NEW j \in DOMAIN jobs, jobs[j].kind = "search", Claim(j) \/ FinishFailed(j)
    PROVE  Fits' /\ Onwards
<1>1. jobs[j] \in JobRow
  BY JobRows
<1>4. Window \in 0..Window
  BY KnowledgeAssumption
<1>2. CASE Claim(j)
  <2> DEFINE new == [jobs[j] EXCEPT !.status = "running", !.lease = Window]
  <2>1. new \in JobRow /\ new.kind = jobs[j].kind /\ new.document = jobs[j].document /\ new.hits = jobs[j].hits
    BY <1>1, <1>4 DEF JobRow, Alive
  <2>2. jobs' = [jobs EXCEPT ![j] = new] /\ UNCHANGED documents
    BY <1>2 DEF Claim
  <2>3. jobs[j].status \in Alive
    BY <1>2 DEF Claim, Alive
  <2> QED BY <1>2, <2>1, <2>2, <2>3, OneJobMoves DEF Claim
<1>3. CASE FinishFailed(j)
  <2> DEFINE new == EndedAs(jobs[j], "failed")
  <2>1. new \in JobRow /\ new.kind = jobs[j].kind /\ new.document = jobs[j].document /\ new.hits = jobs[j].hits
    BY <1>1, JobRows DEF JobRow, EndedAs, Ended
  <2>2. jobs' = [jobs EXCEPT ![j] = new] /\ UNCHANGED <<documents, chunks>>
    BY <1>3 DEF FinishFailed
  <2>3. jobs[j].status \in Alive
    BY <1>3 DEF FinishFailed, Live, Alive
  <2> QED BY <1>3, <2>1, <2>2, <2>3, OneJobMoves DEF FinishFailed
<1> QED BY <1>2, <1>3
----------------------------------------------------------------------------
(* The steps that move one document. *)

\* The rows and the shape of a base with one document replaced.
LEMMA DocumentReplaced ==
    ASSUME Fits, NEW d \in DOMAIN documents, NEW new \in DocumentRow, Len(new.versions) \in 1..MaxVersions,
           documents' = [documents EXCEPT ![d] = new],
           jobs' \in Seq(JobRow), Len(jobs) <= Len(jobs'), Len(jobs') <= MaxJobs, chunks' \subseteq Chunk,
           dimension' \in Dimension \cup {None}, previews' \in [Preview -> Staged \cup {None}]
    PROVE  /\ Shape' /\ DOMAIN documents' = DOMAIN documents
           /\ \A e \in DOMAIN documents : documents'[e] = IF e = d THEN new ELSE documents[e]
<1>1. documents \in Seq(DocumentRow) /\ Len(documents) <= Len(jobs) /\ Len(documents) \in Nat /\ Len(jobs) \in Nat
      /\ \A e \in DOMAIN documents : Len(documents[e].versions) \in 1..MaxVersions
  BY ShapeFacts DEF Fits, Shape
<1>2. /\ documents' \in Seq(DocumentRow) /\ Len(documents') = Len(documents) /\ DOMAIN documents' = DOMAIN documents
      /\ \A e \in DOMAIN documents : documents'[e] = IF e = d THEN new ELSE documents[e]
  BY <1>1, Replaced
<1>3. Len(jobs') \in Nat
  BY LenProperties
<1>4. Len(documents') <= Len(jobs')
  BY <1>1, <1>2, <1>3
<1>5. \A e \in DOMAIN documents' : Len(documents'[e].versions) \in 1..MaxVersions
  BY <1>1, <1>2
<1> QED BY <1>2, <1>4, <1>5 DEF Shape, TypeOK, Latest

\* One job is replaced.
LEMMA JobReplaced ==
    ASSUME Fits, NEW j \in DOMAIN jobs, NEW new \in JobRow, jobs' = [jobs EXCEPT ![j] = new],
           new.kind = jobs[j].kind, new.document = jobs[j].document, new.hits = jobs[j].hits,
           jobs[j].status \in Alive
    PROVE  /\ jobs' \in Seq(JobRow) /\ Len(jobs') = Len(jobs) /\ Len(jobs) <= Len(jobs') /\ Len(jobs') <= MaxJobs
           /\ DOMAIN jobs' = DOMAIN jobs
           /\ \A i \in DOMAIN jobs : jobs'[i] = IF i = j THEN new ELSE jobs[i]
           /\ JobsGrow(jobs, jobs') /\ HitsGrow
<1>1. jobs \in Seq(JobRow) /\ Len(jobs) \in Nat /\ Len(jobs) <= MaxJobs
  BY ShapeFacts DEF Fits, Shape, TypeOK
<1>2. /\ jobs' \in Seq(JobRow) /\ Len(jobs') = Len(jobs) /\ DOMAIN jobs' = DOMAIN jobs
      /\ \A i \in DOMAIN jobs : jobs'[i] = IF i = j THEN new ELSE jobs[i]
  BY <1>1, Replaced
<1>3. JobsGrow(jobs, jobs')
  BY <1>2 DEF JobsGrow
<1>4. HitsGrow
  BY <1>2 DEF HitsGrow
<1> QED BY <1>1, <1>2, <1>3, <1>4

\* The last version of a document is replaced.
LEMMA LatestReplaced ==
    ASSUME NEW doc \in DocumentRow, NEW n, n = Len(doc.versions), n # 0, NEW version \in VersionRow
    PROVE  LET s == [doc.versions EXCEPT ![n] = version] IN
             /\ s \in Seq(VersionRow) /\ Len(s) = n /\ s[n] = version
             /\ \A v \in 1..n : v # n => s[v] = doc.versions[v]
<1>1. doc.versions \in Seq(VersionRow) /\ n \in Nat /\ DOMAIN doc.versions = 1..n /\ n \in 1..n
  BY Rows DEF DocumentRow
<1> QED BY <1>1, Replaced

\* A version is marked with the outcome of its job.
LEMMA Marked ==
    ASSUME NEW doc \in DocumentRow, NEW n, n = Len(doc.versions), NEW j, NEW status \in {"ready", "failed"}
    PROVE  LET new == MarkVersion(doc, j, status) IN
             /\ new \in DocumentRow /\ Len(new.versions) = n
             /\ new.job = doc.job /\ new.active = doc.active /\ new.status = doc.status /\ new.content = doc.content
             /\ \A v \in 1..n : /\ new.versions[v].job = doc.versions[v].job
                                /\ new.versions[v].plan = doc.versions[v].plan
                                /\ doc.versions[v].job = j => new.versions[v].status = status
                                /\ doc.versions[v].job # j => new.versions[v] = doc.versions[v]
<1> DEFINE s == [v \in 1..n |-> IF doc.versions[v].job = j THEN [doc.versions[v] EXCEPT !.status = status]
                                ELSE doc.versions[v]]
<1>1. doc.versions \in Seq(VersionRow) /\ n \in Nat /\ DOMAIN doc.versions = 1..n
      /\ \A v \in 1..n : doc.versions[v] \in VersionRow
  BY Rows DEF DocumentRow
<1>2. \A v \in 1..n : s[v] \in VersionRow
  BY <1>1 DEF VersionRow
<1>3. s \in Seq(VersionRow) /\ Len(s) = n
  <2>1. s = [v \in 1..n |-> s[v]]
    OBVIOUS
  <2> HIDE DEF s
  <2> QED BY <1>1, <1>2, <2>1, RowsOf
<1>4. MarkVersion(doc, j, status) = [doc EXCEPT !.versions = s]
  BY <1>1 DEF MarkVersion
<1>5. \A v \in 1..n : /\ s[v].job = doc.versions[v].job /\ s[v].plan = doc.versions[v].plan
                      /\ doc.versions[v].job = j => s[v].status = status
                      /\ doc.versions[v].job # j => s[v] = doc.versions[v]
  BY <1>1 DEF VersionRow
<1> HIDE DEF s
<1> QED BY <1>3, <1>4, <1>5 DEF DocumentRow

LEMMA DocumentBound ==
    ASSUME Fits, NEW d \in DOMAIN documents
    PROVE  d \in 0..MaxJobs
<1>1. Len(documents) \in Nat /\ Len(jobs) \in Nat /\ DOMAIN documents = 1..Len(documents)
      /\ Len(documents) <= Len(jobs) /\ Len(jobs) <= MaxJobs /\ MaxJobs \in Nat
  BY ShapeFacts, KnowledgeAssumption DEF Fits, Shape, TypeOK
<1> QED BY <1>1

\* A later version is put in the queue.
LEMMA UpdateStep ==
    ASSUME Fits, NEW d \in LiveDocuments, NEW c \in Content, CanUpdate(d, c), AddVersion(d, c), Enqueue("ingest", d),
           UNCHANGED <<chunks, dimension>>, previews' \in [Preview -> Staged \cup {None}]
    PROVE  Fits' /\ Onwards
<1> DEFINE doc == documents[d]
<1> DEFINE n == Len(documents[d].versions)
<1> DEFINE version == NewVersion(c, NextJob, Size[c])
<1> DEFINE new == Updated(doc, c)
<1>1. d \in DOMAIN documents /\ doc.status \notin Busy \cup {"deleted"} /\ n < MaxVersions /\ SameContent(c) = {}
  BY DEF LiveDocuments, CanUpdate, Latest
<1>2. doc \in DocumentRow /\ DocumentFits(doc, d, jobs, chunks) /\ doc.versions \in Seq(VersionRow)
      /\ n \in Nat /\ n # 0 /\ \A v \in 1..n : VersionFits(doc.versions[v], d, jobs)
  BY <1>1, DocumentFacts
<1>3. /\ jobs' \in Seq(JobRow) /\ Len(jobs') = NextJob /\ NextJob \in 1..MaxJobs
      /\ \A j \in DOMAIN jobs : j \in DOMAIN jobs' /\ j # NextJob /\ jobs'[j] = jobs[j]
      /\ \A j \in DOMAIN jobs' : j \in DOMAIN jobs \/ j = NextJob
      /\ NextJob \in DOMAIN jobs' /\ jobs'[NextJob] = NewJob("ingest", d)
      /\ JobsGrow(jobs, jobs') /\ HitsGrow
  BY <1>1, DocumentBound, NewJobFacts
<1>4. version \in VersionRow /\ version.job = NextJob /\ version.status = "queued"
  BY <1>3, KnowledgeAssumption DEF VersionRow, NewVersion, Busy
<1>5. /\ new.versions \in Seq(VersionRow) /\ Len(new.versions) = n + 1 /\ new.versions[n + 1] = version
      /\ \A v \in 1..n : new.versions[v] = doc.versions[v]
  <2>1. new.versions = Append(doc.versions, version)
    BY <1>2 DEF DocumentRow, Updated
  <2> HIDE DEF version, new
  <2> QED BY <1>2, <1>4, <2>1, Appended
<1>6. /\ new \in DocumentRow /\ new.status = "queued" /\ new.content = c /\ new.job = NextJob
      /\ new.active = doc.active /\ doc.active \in Nat
  <2>1. Append(doc.versions, version) \in Seq(VersionRow)
    BY <1>2, <1>4, Appended
  <2>2. doc.active \in 0..MaxVersions /\ doc.active \in Nat
    BY <1>2, KnowledgeAssumption DEF DocumentRow
  <2>3. new = [doc EXCEPT !.status = "queued", !.content = c, !.job = NextJob,
                          !.versions = Append(doc.versions, version)]
    BY DEF Updated
  <2> HIDE DEF version, new
  <2> QED BY <1>2, <1>3, <2>1, <2>2, <2>3 DEF DocumentRow, Busy
<1>7. documents' = [documents EXCEPT ![d] = new]
  BY DEF AddVersion
<1> HIDE DEF new, version
<1>8. /\ Shape' /\ DOMAIN documents' = DOMAIN documents
      /\ \A e \in DOMAIN documents : documents'[e] = IF e = d THEN new ELSE documents[e]
  <2>1. Len(new.versions) \in 1..MaxVersions
    BY <1>1, <1>2, <1>5, KnowledgeAssumption
  <2>2. Len(jobs) <= Len(jobs') /\ Len(jobs') <= MaxJobs
    BY <1>3, ShapeFacts DEF Fits, NextJob
  <2>3. chunks' \subseteq Chunk /\ dimension' \in Dimension \cup {None}
    BY DEF Fits, Shape, TypeOK
  <2> QED BY <1>1, <1>3, <1>6, <1>7, <2>1, <2>2, <2>3, DocumentReplaced
<1>9. \A v \in 1..n : doc.versions[v].job # NextJob
  BY <1>2, <1>3 DEF VersionFits
<1>10. DeliveredStays(d, jobs, chunks, chunks')
  BY DEF DeliveredStays
<1>11. DocumentFits(new, d, jobs', chunks') /\ ReadyStays(doc, new)
  <2> DEFINE m == Len(new.versions)
  <2>0. m = n + 1
    BY <1>5
  <2>1. \A v \in 1..m : v # m => new.versions[v] = doc.versions[v] /\ doc.versions[v].job # new.job
    BY <1>2, <1>5, <1>6, <1>9, <2>0
  <2>2. new.versions[m].job = new.job /\ new.versions[m].status = "queued"
    BY <1>4, <1>5, <1>6, <2>0
  <2>3. jobs'[new.job].kind = "ingest" /\ jobs'[new.job].document = d /\ jobs'[new.job].status \in Alive
          /\ new.job \in DOMAIN jobs'
    BY <1>3, <1>6 DEF NewJob, Alive
  <2>4. m # n
    BY <1>2, <2>0
  <2>5. new.status # "failed" /\ doc.status # "deleted"
    BY <1>1, <1>6
  <2>6. Moved(doc, new, d, jobs')
    BY <1>6, <2>0, <2>1, <2>2, <2>3, <2>4, <2>5 DEF Moved
  <2> QED BY <1>2, <1>3, <1>6, <1>10, <2>6, DocumentMoves
<1>12. ASSUME NEW j \in DOMAIN jobs', jobs'[j].kind = "ingest", jobs'[j].document = d, jobs'[j].status \in Alive
       PROVE  new.job = j /\ new.status = IF jobs'[j].status = "queued" THEN "queued" ELSE "processing"
  <2>1. CASE j \in DOMAIN jobs
    <3>1. doc.status \in Busy
      BY <1>3, <1>12, <2>1, AliveFacts DEF Busy
    <3> QED BY <1>1, <3>1
  <2>2. CASE j = NextJob
    BY <1>3, <1>6, <2>2 DEF NewJob
  <2> QED BY <1>3, <2>1, <2>2
<1>13. ASSUME NEW x \in chunks', jobs[x.job].document = d PROVE ChunkFits(x, jobs', documents')
  <2>1. ChunkFits(x, jobs, documents)
    BY DEF Fits, ChunksFit
  <2>2. jobs'[x.job].status \in {"running", "succeeded"} /\ jobs[x.job].document = d
    BY <1>3, <1>13, <2>1 DEF ChunkFits
  <2>3. documents'[d] = new /\ new.status # "deleted"
    BY <1>1, <1>6, <1>8
  <2>4. PICK v \in 1..n : doc.versions[v].job = x.job
    BY <1>13, <2>1 DEF ChunkFits
  <2>5. v \in 1..Len(new.versions) /\ new.versions[v].job = x.job
    BY <1>2, <1>5, <2>4
  <2> QED BY <1>3, <2>1, <2>2, <2>3, <2>5, ChunkStays
<1>14. OneDimension'
  BY DEF Fits, OneDimension
<1>15. OneDocumentPerContent'
  <2>1. \A e \in DOMAIN documents : documents[e].status # "deleted" => documents[e].content # c
    BY <1>1 DEF SameContent, LiveDocuments
  <2> QED BY <1>1, <1>6, <1>8, <2>1 DEF Fits, OneDocumentPerContent, LiveDocuments
<1>16. \A j \in DOMAIN jobs : jobs[j].kind = "ingest" /\ jobs[j].document # d
                                 => jobs'[j].status = jobs[j].status /\ Of(chunks', j) = Of(chunks, j)
  BY <1>3
<1>17. \A j \in DOMAIN jobs' : jobs'[j].kind = "ingest" => j \in DOMAIN jobs \/ jobs'[j].document = d
  BY <1>3 DEF NewJob
<1>18. \A x \in chunks' : (x \in chunks /\ jobs[x.job].document # d) \/ ChunkFits(x, jobs', documents')
  BY <1>13
<1>19. new.active >= doc.active
  BY <1>6
<1> QED BY <1>1, <1>3, <1>6, <1>8, <1>11, <1>12, <1>14, <1>15, <1>16, <1>17, <1>18, <1>19, OneMoves
\* The latest version is put in the queue again, under another job.
LEMMA RetryStep ==
    ASSUME Fits, NEW d \in DOMAIN documents, Retry(d)
    PROVE  Fits' /\ Onwards
<1> DEFINE doc == documents[d]
<1> DEFINE n == Len(documents[d].versions)
<1> DEFINE version == [doc.versions[n] EXCEPT !.job = NextJob, !.status = "queued"]
<1> DEFINE new == Requeued(doc)
<1>1. doc.status = "failed"
  BY DEF Retry
<1>2. doc \in DocumentRow /\ DocumentFits(doc, d, jobs, chunks) /\ doc.versions \in Seq(VersionRow)
      /\ n \in Nat /\ n # 0 /\ n \in 1..MaxVersions /\ DOMAIN doc.versions = 1..n
      /\ doc.job = doc.versions[n].job /\ doc.job \in DOMAIN jobs
      /\ \A v \in 1..n : VersionFits(doc.versions[v], d, jobs)
  BY DocumentFacts
<1>3. /\ jobs' \in Seq(JobRow) /\ Len(jobs') = NextJob /\ NextJob \in 1..MaxJobs
      /\ \A j \in DOMAIN jobs : j \in DOMAIN jobs' /\ j # NextJob /\ jobs'[j] = jobs[j]
      /\ \A j \in DOMAIN jobs' : j \in DOMAIN jobs \/ j = NextJob
      /\ NextJob \in DOMAIN jobs' /\ jobs'[NextJob] = NewJob("ingest", d)
      /\ JobsGrow(jobs, jobs') /\ HitsGrow
  BY DocumentBound, NewJobFacts DEF Retry
<1>4. version \in VersionRow /\ version.job = NextJob /\ version.status = "queued"
  <2>1. doc.versions[n] \in VersionRow
    BY <1>2, Rows
  <2> QED BY <1>3, <2>1 DEF VersionRow, Busy
<1>5. /\ new.versions \in Seq(VersionRow) /\ Len(new.versions) = n /\ new.versions[n] = version
      /\ \A v \in 1..n : v # n => new.versions[v] = doc.versions[v]
  <2>1. new.versions = [doc.versions EXCEPT ![n] = version]
    BY <1>2 DEF DocumentRow, Requeued, Latest
  <2> HIDE DEF version, new
  <2> QED BY <1>2, <1>4, <2>1, LatestReplaced
<1>6. /\ new \in DocumentRow /\ new.status = "queued" /\ new.content = doc.content /\ new.job = NextJob
      /\ new.active = doc.active /\ doc.active \in Nat
  <2>1. [doc.versions EXCEPT ![n] = version] \in Seq(VersionRow)
    <3> HIDE DEF version
    <3> QED BY <1>2, <1>4, LatestReplaced
  <2>2. doc.active \in 0..MaxVersions /\ doc.active \in Nat
    BY <1>2, KnowledgeAssumption DEF DocumentRow
  <2>3. new = [doc EXCEPT !.status = "queued", !.job = NextJob,
                          !.versions = [doc.versions EXCEPT ![n] = version]]
    BY DEF Requeued, Latest
  <2> HIDE DEF version, new
  <2> QED BY <1>2, <1>3, <2>1, <2>2, <2>3 DEF DocumentRow, Busy
<1>7. documents' = [documents EXCEPT ![d] = new]
  BY DEF Retry
<1> HIDE DEF new, version
<1>8. chunks' \subseteq chunks /\ UNCHANGED <<dimension, previews>>
  BY DEF Retry
<1>9. /\ Shape' /\ DOMAIN documents' = DOMAIN documents
      /\ \A e \in DOMAIN documents : documents'[e] = IF e = d THEN new ELSE documents[e]
  <2>1. Len(jobs) <= Len(jobs') /\ Len(jobs') <= MaxJobs
    BY <1>3, ShapeFacts DEF Fits, NextJob
  <2>2. chunks' \subseteq Chunk /\ dimension' \in Dimension \cup {None} /\ previews' \in [Preview -> Staged \cup {None}]
    BY <1>8 DEF Fits, Shape, TypeOK
  <2> QED BY <1>2, <1>3, <1>5, <1>6, <1>7, <2>1, <2>2, DocumentReplaced
\* The job that is given up has failed, so no chunks of a searchable version go.
<1>10. doc.versions[n].status = "failed" /\ jobs[doc.job].status = "failed"
  BY <1>1, <1>2 DEF DocumentFits, VersionFits
<1>11. chunks' = {x \in chunks : x.job # doc.job}
  BY DEF Retry, OfJob
<1>12. \A j \in DOMAIN jobs : j # doc.job => Of(chunks', j) = Of(chunks, j)
  BY <1>11 DEF Of
<1>13. DeliveredStays(d, jobs, chunks, chunks')
  BY <1>10, <1>12 DEF DeliveredStays
<1>14. DocumentFits(new, d, jobs', chunks') /\ ReadyStays(doc, new)
  <2>1. \A v \in 1..n : v # n => new.versions[v] = doc.versions[v] /\ doc.versions[v].job # new.job
    BY <1>2, <1>3, <1>5, <1>6 DEF VersionFits
  <2>2. new.versions[n].job = new.job /\ new.versions[n].status = "queued"
    BY <1>4, <1>5, <1>6
  <2>3. jobs'[new.job].kind = "ingest" /\ jobs'[new.job].document = d /\ jobs'[new.job].status \in Alive
        /\ new.job \in DOMAIN jobs'
    BY <1>3, <1>6 DEF NewJob, Alive
  <2>4. Moved(doc, new, d, jobs')
    BY <1>1, <1>5, <1>6, <1>10, <2>1, <2>2, <2>3 DEF Moved
  <2> QED BY <1>2, <1>3, <1>6, <1>13, <2>4, DocumentMoves
<1>15. ASSUME NEW j \in DOMAIN jobs', jobs'[j].kind = "ingest", jobs'[j].document = d, jobs'[j].status \in Alive
       PROVE  new.job = j /\ new.status = IF jobs'[j].status = "queued" THEN "queued" ELSE "processing"
  <2>1. CASE j \in DOMAIN jobs
    <3>1. doc.status \in Busy
      BY <1>3, <1>15, <2>1, AliveFacts DEF Busy
    <3> QED BY <1>1, <3>1 DEF Busy
  <2>2. CASE j = NextJob
    BY <1>3, <1>6, <2>2 DEF NewJob
  <2> QED BY <1>3, <2>1, <2>2
<1>16. ASSUME NEW x \in chunks', jobs[x.job].document = d PROVE ChunkFits(x, jobs', documents')
  <2>1. ChunkFits(x, jobs, documents)
    BY <1>8 DEF Fits, ChunksFit
  <2>2. jobs'[x.job].status \in {"running", "succeeded"} /\ jobs[x.job].document = d /\ x.job # doc.job
    BY <1>3, <1>11, <1>16, <2>1 DEF ChunkFits
  <2>3. documents'[d] = new /\ new.status # "deleted"
    BY <1>6, <1>9
  <2>4. PICK v \in 1..n : doc.versions[v].job = x.job
    BY <1>16, <2>1 DEF ChunkFits
  <2>5. v \in 1..Len(new.versions) /\ new.versions[v].job = x.job
    BY <1>2, <1>5, <2>2, <2>4
  <2> QED BY <1>3, <2>1, <2>2, <2>3, <2>5, ChunkStays
<1>17. OneDimension'
  BY <1>8 DEF Fits, OneDimension
<1>18. OneDocumentPerContent'
  BY <1>1, <1>6, <1>9, ContentStays DEF Fits
<1>19. \A j \in DOMAIN jobs : jobs[j].kind = "ingest" /\ jobs[j].document # d
                                 => jobs'[j].status = jobs[j].status /\ Of(chunks', j) = Of(chunks, j)
  <2>1. jobs[doc.job].document = d
    BY DocumentFacts
  <2> QED BY <1>3, <1>12, <2>1
<1>20. \A j \in DOMAIN jobs' : jobs'[j].kind = "ingest" => j \in DOMAIN jobs \/ jobs'[j].document = d
  BY <1>3 DEF NewJob
<1>21. \A x \in chunks' : (x \in chunks /\ jobs[x.job].document # d) \/ ChunkFits(x, jobs', documents')
  BY <1>8, <1>16
<1>22. new.active >= doc.active
  BY <1>6
<1> QED BY <1>3, <1>6, <1>9, <1>14, <1>15, <1>17, <1>18, <1>19, <1>20, <1>21, <1>22, OneMoves

\* A document is deleted with its chunks, and its jobs are cancelled.
LEMMA RemoveStep ==
    ASSUME Fits, NEW d \in DOMAIN documents, RemoveDocument(d)
    PROVE  Fits' /\ Onwards
<1> DEFINE doc == documents[d]
<1> DEFINE new == [doc EXCEPT !.status = "deleted", !.active = 0]
<1> DEFINE Gives(j) == jobs[j].document = d /\ jobs[j].status \in Alive
<1>1. doc \in DocumentRow /\ DocumentFits(doc, d, jobs, chunks) /\ Len(doc.versions) \in 1..MaxVersions
  BY DocumentFacts
<1>2. /\ new \in DocumentRow /\ new.versions = doc.versions /\ new.job = doc.job
      /\ new.active = 0 /\ new.status = "deleted"
  <2>1. 0 \in 0..MaxVersions
    BY KnowledgeAssumption
  <2> QED BY <1>1, <2>1 DEF DocumentRow
<1>3. jobs \in Seq(JobRow) /\ Len(jobs) \in Nat /\ DOMAIN jobs = 1..Len(jobs) /\ Len(jobs) <= MaxJobs
  BY ShapeFacts DEF Fits, Shape, TypeOK
<1>4. /\ jobs' = [j \in 1..Len(jobs) |-> jobs'[j]]
      /\ \A j \in DOMAIN jobs : jobs'[j] = IF Gives(j) THEN EndedAs(jobs[j], "cancelled") ELSE jobs[j]
  BY <1>3 DEF RemoveDocument
<1>5. \A j \in DOMAIN jobs : jobs[j] \in JobRow /\ EndedAs(jobs[j], "cancelled") \in JobRow
  BY JobRows DEF Ended
<1>6. jobs' \in Seq(JobRow) /\ Len(jobs') = Len(jobs) /\ DOMAIN jobs' = DOMAIN jobs
  <2>1. \A j \in 1..Len(jobs) : jobs'[j] \in JobRow
    BY <1>3, <1>4, <1>5
  <2> QED BY <1>3, <1>4, <2>1, RowsOf
<1>7. \A j \in DOMAIN jobs : /\ jobs'[j].kind = jobs[j].kind /\ jobs'[j].document = jobs[j].document
                             /\ jobs'[j].hits = jobs[j].hits
                             /\ jobs'[j].status = IF Gives(j) THEN "cancelled" ELSE jobs[j].status
  BY <1>4, <1>5 DEF EndedAs, JobRow
<1>8. JobsGrow(jobs, jobs') /\ HitsGrow
  BY <1>6, <1>7 DEF JobsGrow, HitsGrow
<1>9. documents' = [documents EXCEPT ![d] = new] /\ UNCHANGED dimension
      /\ chunks' = {x \in chunks : jobs[x.job].document # d}
      /\ previews' \in [Preview -> Staged \cup {None}]
  BY DEF RemoveDocument, Fits, Shape, TypeOK
<1> HIDE DEF new
<1>10. /\ Shape' /\ DOMAIN documents' = DOMAIN documents
       /\ \A e \in DOMAIN documents : documents'[e] = IF e = d THEN new ELSE documents[e]
  <2>1. chunks' \subseteq Chunk /\ dimension' \in Dimension \cup {None}
    BY <1>9 DEF Fits, Shape, TypeOK
  <2>2. Len(new.versions) \in 1..MaxVersions /\ Len(jobs) <= Len(jobs') /\ Len(jobs') <= MaxJobs
    BY <1>1, <1>2, <1>3, <1>6
  <2> QED BY <1>2, <1>6, <1>9, <2>1, <2>2, DocumentReplaced
<1>11. DocumentFits(new, d, jobs', chunks') /\ ReadyStays(doc, new)
  BY <1>1, <1>2, <1>8, DocumentIsDeleted
<1>12. \A j \in DOMAIN jobs : jobs[j].kind = "ingest" /\ jobs[j].document # d
                                 => jobs'[j].status = jobs[j].status /\ Of(chunks', j) = Of(chunks, j)
  BY <1>7, <1>9 DEF Of
<1>13. \A j \in DOMAIN jobs' : jobs'[j].document = d => jobs'[j].status \notin Alive
  BY <1>6, <1>7 DEF Alive
<1>14. OneDimension'
  BY <1>9 DEF Fits, OneDimension
<1>15. OneDocumentPerContent'
  BY <1>2, <1>10, ContentStays DEF Fits
<1>16. \A x \in chunks' : x \in chunks /\ jobs[x.job].document # d
  BY <1>9
<1> QED BY <1>2, <1>6, <1>8, <1>10, <1>11, <1>12, <1>13, <1>14, <1>15, <1>16, OneMoves
\* A job is claimed for the document that waits for it.
LEMMA ClaimStep ==
    ASSUME Fits, NEW j \in DOMAIN jobs, jobs[j].kind = "ingest", Claim(j)
    PROVE  Fits' /\ Onwards
<1> DEFINE d == jobs[j].document
<1> DEFINE doc == documents[d]
<1> DEFINE n == Len(documents[d].versions)
<1> DEFINE version == [doc.versions[n] EXCEPT !.status = "processing"]
<1> DEFINE new == Processing(doc)
<1> DEFINE job == [jobs[j] EXCEPT !.status = "running", !.lease = Window]
<1>1. jobs[j].status = "queued" /\ jobs[j].status \in Alive
  BY DEF Claim, Alive
<1>2. /\ d \in DOMAIN documents /\ doc.job = j /\ doc.status = "queued"
      /\ doc.versions[n].job = j /\ doc.versions[n].status \notin {"ready", "failed"}
      /\ \A v \in 1..n : v # n => doc.versions[v].job # j
      /\ \A i \in DOMAIN jobs : jobs[i].kind = "ingest" /\ jobs[i].document = d /\ jobs[i].status \in Alive => i = j
  BY <1>1, AliveFacts
<1>3. doc \in DocumentRow /\ DocumentFits(doc, d, jobs, chunks) /\ doc.versions \in Seq(VersionRow)
      /\ n \in Nat /\ n # 0 /\ n \in 1..MaxVersions /\ DOMAIN doc.versions = 1..n
  BY <1>2, DocumentFacts
<1>4. job \in JobRow /\ job.kind = "ingest" /\ job.document = d /\ job.hits = jobs[j].hits /\ job.status = "running"
  <2>1. jobs[j] \in JobRow
    BY JobRows
  <2>2. Window \in 0..Window
    BY KnowledgeAssumption
  <2> QED BY <2>1, <2>2 DEF JobRow, Alive
<1>5. jobs' = [jobs EXCEPT ![j] = job]
  BY DEF Claim
<1> HIDE DEF job
<1>6. /\ jobs' \in Seq(JobRow) /\ Len(jobs) <= Len(jobs') /\ Len(jobs') <= MaxJobs /\ DOMAIN jobs' = DOMAIN jobs
      /\ \A i \in DOMAIN jobs : jobs'[i] = IF i = j THEN job ELSE jobs[i]
      /\ JobsGrow(jobs, jobs') /\ HitsGrow
  BY <1>1, <1>4, <1>5, JobReplaced
<1>7. version \in VersionRow /\ version.job = j /\ version.status = "processing"
  <2>1. doc.versions[n] \in VersionRow
    BY <1>3, Rows
  <2> QED BY <1>2, <2>1 DEF VersionRow, Busy
<1>8. /\ [doc.versions EXCEPT ![n] = version] \in Seq(VersionRow)
      /\ new.versions \in Seq(VersionRow) /\ Len(new.versions) = n /\ new.versions[n] = version
      /\ \A v \in 1..n : v # n => new.versions[v] = doc.versions[v]
  <2>1. new.versions = [doc.versions EXCEPT ![n] = version]
    BY <1>3 DEF DocumentRow, Processing, Latest
  <2> HIDE DEF version, new
  <2> QED BY <1>3, <1>7, <2>1, LatestReplaced
<1>9. /\ new \in DocumentRow /\ new.status = "processing" /\ new.content = doc.content /\ new.job = j
      /\ new.active = doc.active /\ doc.active \in Nat
  <2>1. doc.active \in 0..MaxVersions /\ doc.active \in Nat
    BY <1>3, KnowledgeAssumption DEF DocumentRow
  <2>2. new = [doc EXCEPT !.status = "processing", !.versions = [doc.versions EXCEPT ![n] = version]]
    BY DEF Processing, Latest
  <2> HIDE DEF version, new
  <2> QED BY <1>2, <1>3, <1>8, <2>1, <2>2 DEF DocumentRow, Busy
<1>10. documents' = [documents EXCEPT ![d] = new] /\ UNCHANGED <<chunks, dimension, previews>>
  BY DEF Claim
<1> HIDE DEF new, version
<1>11. /\ Shape' /\ DOMAIN documents' = DOMAIN documents
       /\ \A e \in DOMAIN documents : documents'[e] = IF e = d THEN new ELSE documents[e]
  <2>1. chunks' \subseteq Chunk /\ dimension' \in Dimension \cup {None} /\ previews' \in [Preview -> Staged \cup {None}]
    BY <1>10 DEF Fits, Shape, TypeOK
  <2> QED BY <1>2, <1>3, <1>6, <1>8, <1>9, <1>10, <2>1, DocumentReplaced
<1>12. DocumentFits(new, d, jobs', chunks') /\ ReadyStays(doc, new)
  <2>1. \A v \in 1..n : v # n => new.versions[v] = doc.versions[v] /\ doc.versions[v].job # new.job
    BY <1>2, <1>8, <1>9
  <2>2. new.versions[n].job = new.job /\ new.versions[n].status = "processing"
    BY <1>7, <1>8, <1>9
  <2>3. jobs'[new.job].kind = "ingest" /\ jobs'[new.job].document = d /\ jobs'[new.job].status \in Alive
        /\ new.job \in DOMAIN jobs'
    BY <1>4, <1>6, <1>9 DEF Alive
  <2>4. Moved(doc, new, d, jobs')
    BY <1>2, <1>8, <1>9, <2>1, <2>2, <2>3 DEF Moved
  <2>5. DeliveredStays(d, jobs, chunks, chunks')
    BY <1>10 DEF DeliveredStays
  <2> QED BY <1>3, <1>6, <1>9, <2>4, <2>5, DocumentMoves
<1>13. ASSUME NEW i \in DOMAIN jobs', jobs'[i].kind = "ingest", jobs'[i].document = d, jobs'[i].status \in Alive
       PROVE  new.job = i /\ new.status = IF jobs'[i].status = "queued" THEN "queued" ELSE "processing"
  <2>1. i = j
    BY <1>2, <1>6, <1>13
  <2> QED BY <1>4, <1>6, <1>9, <2>1
<1>14. ASSUME NEW x \in chunks', jobs[x.job].document = d PROVE ChunkFits(x, jobs', documents')
  <2>1. ChunkFits(x, jobs, documents)
    BY <1>10 DEF Fits, ChunksFit
  <2>2. jobs'[x.job].status \in {"running", "succeeded"}
    BY <1>4, <1>6, <2>1 DEF ChunkFits
  <2>3. documents'[d] = new /\ new.status # "deleted"
    BY <1>2, <1>9, <1>11
  <2>4. PICK v \in 1..n : doc.versions[v].job = x.job
    BY <1>14, <2>1 DEF ChunkFits
  <2>5. v \in 1..Len(new.versions) /\ new.versions[v].job = x.job
    BY <1>2, <1>7, <1>8, <2>4
  <2> QED BY <1>6, <1>14, <2>1, <2>2, <2>3, <2>5, ChunkStays
<1>15. OneDimension'
  BY <1>10 DEF Fits, OneDimension
<1>16. OneDocumentPerContent'
  BY <1>2, <1>9, <1>11, ContentStays DEF Fits
<1>17. \A i \in DOMAIN jobs : jobs[i].kind = "ingest" /\ jobs[i].document # d
                                 => jobs'[i].status = jobs[i].status /\ Of(chunks', i) = Of(chunks, i)
  BY <1>6, <1>10
<1>18. \A x \in chunks' : (x \in chunks /\ jobs[x.job].document # d) \/ ChunkFits(x, jobs', documents')
  BY <1>10, <1>14
<1>19. new.active >= doc.active
  BY <1>9
<1> QED BY <1>2, <1>6, <1>9, <1>11, <1>12, <1>13, <1>15, <1>16, <1>17, <1>18, <1>19, OneMoves

\* Chunks are delivered for a document that waits for them.
LEMMA BatchStep ==
    ASSUME Fits, NEW j \in DOMAIN jobs, NEW ordinals \in SUBSET Ordinal, NEW dim \in Dimension, Batch(j, ordinals, dim)
    PROVE  Fits' /\ Onwards
<1> DEFINE d == jobs[j].document
<1> DEFINE doc == documents[d]
<1> DEFINE n == Len(documents[d].versions)
<1> DEFINE new == {[job |-> j, ordinal |-> o, dimension |-> dim] : o \in ordinals \ {c.ordinal : c \in OfJob(j)}}
<1>1. jobs[j].kind = "ingest" /\ jobs[j].status = "running" /\ jobs[j].status \in Alive
  BY DEF Batch, Live, Alive
<1>2. /\ d \in DOMAIN documents /\ doc.job = j /\ doc.status = "processing" /\ doc.versions[n].job = j
      /\ \A i \in DOMAIN jobs : jobs[i].kind = "ingest" /\ jobs[i].document = d /\ jobs[i].status \in Alive => i = j
  BY <1>1, AliveFacts
<1>3. doc \in DocumentRow /\ DocumentFits(doc, d, jobs, chunks) /\ n \in Nat /\ n # 0
      /\ j \in 1..MaxJobs
  <2>1. DOMAIN jobs = 1..Len(jobs) /\ Len(jobs) \in Nat /\ Len(jobs) <= MaxJobs /\ MaxJobs \in Nat
    BY ShapeFacts, KnowledgeAssumption DEF Fits, Shape, TypeOK
  <2> QED BY <1>2, <2>1, DocumentFacts
<1>4. /\ chunks' = chunks \cup new /\ dimension' = dim /\ dim = Adopted(dim)
      /\ UNCHANGED <<documents, jobs, previews>>
  BY DEF Batch
<1>5. \A x \in new : x \in Chunk /\ x.job = j /\ x.dimension = dim
  BY <1>3 DEF Chunk
<1> HIDE DEF new
<1>6. Shape'
  BY <1>4, <1>5 DEF Fits, Shape, TypeOK, Latest
<1>7. JobsGrow(jobs, jobs') /\ HitsGrow
  BY <1>4 DEF JobsGrow, HitsGrow
<1>8. \A i \in DOMAIN jobs : i # j => Of(chunks', i) = Of(chunks, i)
  BY <1>4, <1>5 DEF Of
<1>9. DeliveredStays(d, jobs, chunks, chunks')
  BY <1>1, <1>8 DEF DeliveredStays
<1>10. DocumentFits(doc, d, jobs', chunks')
  BY <1>1, <1>2, <1>3, <1>4, <1>7, <1>9, DocumentRests
<1>11. ReadyStays(doc, doc)
  BY <1>3 DEF ReadyStays
<1>12. \A x \in chunks' : x \in chunks \/ ChunkFits(x, jobs', documents')
  BY <1>1, <1>2, <1>3, <1>4, <1>5 DEF ChunkFits
<1>13. \A x \in chunks : ChunkFits(x, jobs', documents')
  BY <1>4 DEF Fits, ChunksFit
\* The first batch fixes the dimension, and until then there are no chunks.
<1>14. OneDimension'
  <2>1. CASE dimension = None
    <3>1. chunks = {}
      BY <2>1, KnowledgeAssumption DEF Fits, Shape, TypeOK, OneDimension, Chunk
    <3> QED BY <1>4, <1>5, <3>1 DEF OneDimension
  <2>2. CASE dimension # None
    BY <1>4, <1>5, <2>2 DEF Fits, OneDimension, Adopted
  <2> QED BY <2>1, <2>2
<1>15. OneDocumentPerContent'
  BY <1>4 DEF Fits, OneDocumentPerContent, LiveDocuments
<1>16. doc.active >= doc.active
  BY <1>3, KnowledgeAssumption DEF DocumentRow
<1>17. DOMAIN documents' = DOMAIN documents
       /\ \A e \in DOMAIN documents : documents'[e] = IF e = d THEN doc ELSE documents[e]
  BY <1>4
<1>18. \A i \in DOMAIN jobs : jobs[i].kind = "ingest" /\ jobs[i].document # d
                                 => jobs'[i].status = jobs[i].status /\ Of(chunks', i) = Of(chunks, i)
  BY <1>4, <1>8
<1>19. \A i \in DOMAIN jobs' : jobs'[i].kind = "ingest" => i \in DOMAIN jobs \/ jobs'[i].document = d
  BY <1>4
<1>20. ASSUME NEW i \in DOMAIN jobs', jobs'[i].kind = "ingest", jobs'[i].document = d, jobs'[i].status \in Alive
       PROVE  doc.job = i /\ doc.status = IF jobs'[i].status = "queued" THEN "queued" ELSE "processing"
  BY <1>1, <1>2, <1>4, <1>20
<1> QED BY <1>2, <1>3, <1>6, <1>7, <1>10, <1>11, <1>12, <1>13, <1>14, <1>15, <1>16, <1>17, <1>18, <1>19, <1>20, OneMoves
\* A version whose chunks are whole becomes the active one.
LEMMA FinishStep ==
    ASSUME Fits, NEW j \in DOMAIN jobs, NEW count \in 1..MaxChunks, FinishIngest(j, count)
    PROVE  Fits' /\ Onwards
<1> DEFINE d == jobs[j].document
<1> DEFINE doc == documents[d]
<1> DEFINE n == Len(documents[d].versions)
<1> DEFINE marked == MarkVersion(doc, j, "ready")
<1> DEFINE new == [marked EXCEPT !.status = "ready", !.active = Latest(marked)]
<1> DEFINE job == EndedAs(jobs[j], "succeeded")
<1>1. jobs[j].kind = "ingest" /\ jobs[j].status = "running" /\ jobs[j].status \in Alive
  BY DEF FinishIngest, Live, Alive
<1>2. /\ d \in DOMAIN documents /\ doc.job = j /\ doc.status = "processing"
      /\ doc.versions[n].job = j
      /\ \A v \in 1..n : v # n => doc.versions[v].job # j
      /\ \A i \in DOMAIN jobs : jobs[i].kind = "ingest" /\ jobs[i].document = d /\ jobs[i].status \in Alive => i = j
  BY <1>1, AliveFacts
<1>3. doc \in DocumentRow /\ DocumentFits(doc, d, jobs, chunks) /\ doc.versions \in Seq(VersionRow)
      /\ n \in Nat /\ n # 0 /\ n \in 1..MaxVersions /\ n \in 0..MaxVersions /\ DOMAIN doc.versions = 1..n
  BY <1>2, DocumentFacts
<1>4. job \in JobRow /\ job.kind = "ingest" /\ job.document = d /\ job.hits = jobs[j].hits /\ job.status = "succeeded"
  BY <1>1, EndedJob DEF Ended
<1>5. jobs' = [jobs EXCEPT ![j] = job] /\ UNCHANGED <<chunks, dimension, previews>>
  BY DEF FinishIngest
<1> HIDE DEF job
<1>6. /\ jobs' \in Seq(JobRow) /\ Len(jobs) <= Len(jobs') /\ Len(jobs') <= MaxJobs /\ DOMAIN jobs' = DOMAIN jobs
      /\ \A i \in DOMAIN jobs : jobs'[i] = IF i = j THEN job ELSE jobs[i]
      /\ JobsGrow(jobs, jobs') /\ HitsGrow
  BY <1>1, <1>4, <1>5, JobReplaced
<1>7. /\ marked \in DocumentRow /\ Len(marked.versions) = n
      /\ marked.job = doc.job /\ marked.active = doc.active /\ marked.content = doc.content
      /\ \A v \in 1..n : /\ marked.versions[v].job = doc.versions[v].job
                         /\ marked.versions[v].plan = doc.versions[v].plan
                         /\ doc.versions[v].job = j => marked.versions[v].status = "ready"
                         /\ doc.versions[v].job # j => marked.versions[v] = doc.versions[v]
  BY <1>3, Marked
<1>8. documents' = [documents EXCEPT ![d] = new]
  BY <1>2, <1>7 DEF FinishIngest
<1> HIDE DEF marked
<1>9. /\ new \in DocumentRow /\ new.status = "ready" /\ new.content = doc.content /\ new.job = j
      /\ new.active = n /\ new.versions = marked.versions
  BY <1>2, <1>3, <1>7 DEF DocumentRow, Latest
<1> HIDE DEF new
<1>10. /\ \A v \in 1..n : /\ new.versions[v].job = doc.versions[v].job
                          /\ v # n => new.versions[v] = doc.versions[v]
       /\ new.versions[n].status = "ready" /\ new.versions[n].plan = doc.versions[n].plan
       /\ Len(new.versions) = n
  BY <1>2, <1>3, <1>7, <1>9
<1>11. /\ Shape' /\ DOMAIN documents' = DOMAIN documents
       /\ \A e \in DOMAIN documents : documents'[e] = IF e = d THEN new ELSE documents[e]
  <2>1. chunks' \subseteq Chunk /\ dimension' \in Dimension \cup {None} /\ previews' \in [Preview -> Staged \cup {None}]
    BY <1>5 DEF Fits, Shape, TypeOK
  <2> QED BY <1>2, <1>3, <1>6, <1>8, <1>9, <1>10, <2>1, DocumentReplaced
\* The chunks are those of the plan, without gaps.
<1>12. Complete(new.versions[n], jobs', chunks')
  <2>1. n \in 1..n /\ new.versions[n].job = j
    BY <1>2, <1>3, <1>10
  <2>2. Found(chunks', j) = 0..(count - 1)
    BY <1>5 DEF FinishIngest, Whole, Found, Of, OfJob
  <2>3. Cardinality(0..(count - 1)) = count /\ 0 \in 0..(count - 1)
    <3>1. count \in Nat /\ count > 0 /\ count - 1 \in Int
      BY KnowledgeAssumption
    <3> QED BY <3>1, FS_Interval
  <2>4. doc.versions[n].plan \in Planned(j)
    <3>1. doc.versions[n] \in Range(documents[d].versions)
      BY <1>3 DEF Range
    <3> QED BY <1>2, <3>1 DEF Planned
  <2>5. new.versions[n].plan \in {0, count}
    BY <1>10, <2>4 DEF FinishIngest, Whole
  <2>6. jobs'[j].status = "succeeded"
    BY <1>4, <1>6
  <2> QED BY <1>10, <2>1, <2>2, <2>3, <2>5, <2>6 DEF Complete
<1>13. DocumentFits(new, d, jobs', chunks') /\ ReadyStays(doc, new)
  BY <1>2, <1>3, <1>6, <1>9, <1>10, <1>12, DocumentIsReady, ZenonT(40)
<1>14. ASSUME NEW i \in DOMAIN jobs', jobs'[i].kind = "ingest", jobs'[i].document = d, jobs'[i].status \in Alive
       PROVE  FALSE
  BY <1>2, <1>4, <1>6, <1>14 DEF Alive
<1>15. ASSUME NEW x \in chunks', jobs[x.job].document = d PROVE ChunkFits(x, jobs', documents')
  <2>1. ChunkFits(x, jobs, documents)
    BY <1>5 DEF Fits, ChunksFit
  <2>2. jobs'[x.job].status \in {"running", "succeeded"}
    BY <1>4, <1>6, <2>1 DEF ChunkFits
  <2>3. documents'[d] = new /\ new.status # "deleted"
    BY <1>2, <1>9, <1>11
  <2>4. PICK v \in 1..n : doc.versions[v].job = x.job
    BY <1>15, <2>1 DEF ChunkFits
  <2>5. v \in 1..Len(new.versions) /\ new.versions[v].job = x.job
    BY <1>10, <2>4
  <2> QED BY <1>6, <1>15, <2>1, <2>2, <2>3, <2>5, ChunkStays
<1>16. OneDimension'
  BY <1>5 DEF Fits, OneDimension
<1>17. OneDocumentPerContent'
  BY <1>2, <1>9, <1>11, ContentStays DEF Fits
<1>18. \A i \in DOMAIN jobs : jobs[i].kind = "ingest" /\ jobs[i].document # d
                                 => jobs'[i].status = jobs[i].status /\ Of(chunks', i) = Of(chunks, i)
  BY <1>5, <1>6
<1>19. \A x \in chunks' : (x \in chunks /\ jobs[x.job].document # d) \/ ChunkFits(x, jobs', documents')
  BY <1>5, <1>15
<1>20. new.active >= doc.active
  BY <1>3, <1>9 DEF DocumentFits
<1> QED BY <1>2, <1>6, <1>9, <1>11, <1>13, <1>14, <1>16, <1>17, <1>18, <1>19, <1>20, OneMoves

\* An attempt has failed, and what it delivered is taken back.
LEMMA FailStep ==
    ASSUME Fits, NEW j \in DOMAIN jobs, jobs[j].kind = "ingest", FinishFailed(j)
    PROVE  Fits' /\ Onwards
<1> DEFINE d == jobs[j].document
<1> DEFINE doc == documents[d]
<1> DEFINE n == Len(documents[d].versions)
<1> DEFINE marked == MarkVersion(doc, j, "failed")
<1> DEFINE new == [marked EXCEPT !.status = "failed"]
<1> DEFINE job == EndedAs(jobs[j], "failed")
<1>1. jobs[j].status = "running" /\ jobs[j].status \in Alive
  BY DEF FinishFailed, Live, Alive
<1>2. /\ d \in DOMAIN documents /\ doc.job = j /\ doc.status = "processing"
      /\ doc.versions[n].job = j /\ doc.versions[n].status # "ready"
      /\ \A v \in 1..n : v # n => doc.versions[v].job # j
      /\ \A i \in DOMAIN jobs : jobs[i].kind = "ingest" /\ jobs[i].document = d /\ jobs[i].status \in Alive => i = j
  BY <1>1, AliveFacts
<1>3. doc \in DocumentRow /\ DocumentFits(doc, d, jobs, chunks) /\ doc.versions \in Seq(VersionRow)
      /\ n \in Nat /\ n # 0 /\ n \in 1..MaxVersions /\ DOMAIN doc.versions = 1..n
  BY <1>2, DocumentFacts
<1>4. job \in JobRow /\ job.kind = "ingest" /\ job.document = d /\ job.hits = jobs[j].hits /\ job.status = "failed"
  BY <1>1, EndedJob DEF Ended
<1>5. jobs' = [jobs EXCEPT ![j] = job] /\ chunks' = {x \in chunks : x.job # j} /\ UNCHANGED <<dimension, previews>>
  BY DEF FinishFailed, OfJob
<1> HIDE DEF job
<1>6. /\ jobs' \in Seq(JobRow) /\ Len(jobs) <= Len(jobs') /\ Len(jobs') <= MaxJobs /\ DOMAIN jobs' = DOMAIN jobs
      /\ \A i \in DOMAIN jobs : jobs'[i] = IF i = j THEN job ELSE jobs[i]
      /\ JobsGrow(jobs, jobs') /\ HitsGrow
  BY <1>1, <1>4, <1>5, JobReplaced
<1>7. /\ marked \in DocumentRow /\ Len(marked.versions) = n
      /\ marked.job = doc.job /\ marked.active = doc.active /\ marked.content = doc.content
      /\ \A v \in 1..n : /\ marked.versions[v].job = doc.versions[v].job
                         /\ marked.versions[v].plan = doc.versions[v].plan
                         /\ doc.versions[v].job = j => marked.versions[v].status = "failed"
                         /\ doc.versions[v].job # j => marked.versions[v] = doc.versions[v]
  BY <1>3, Marked
<1>8. documents' = [documents EXCEPT ![d] = new]
  BY <1>2, <1>7 DEF FinishFailed
<1> HIDE DEF marked
<1>9. /\ new \in DocumentRow /\ new.status = "failed" /\ new.content = doc.content /\ new.job = j
      /\ new.active = doc.active /\ new.versions = marked.versions
  BY <1>2, <1>3, <1>7 DEF DocumentRow
<1> HIDE DEF new
<1>10. /\ \A v \in 1..n : /\ new.versions[v].job = doc.versions[v].job
                          /\ v # n => new.versions[v] = doc.versions[v]
       /\ new.versions[n].status = "failed" /\ Len(new.versions) = n
  BY <1>2, <1>3, <1>7, <1>9
<1>11. /\ Shape' /\ DOMAIN documents' = DOMAIN documents
       /\ \A e \in DOMAIN documents : documents'[e] = IF e = d THEN new ELSE documents[e]
  <2>1. chunks' \subseteq Chunk /\ dimension' \in Dimension \cup {None} /\ previews' \in [Preview -> Staged \cup {None}]
    BY <1>5 DEF Fits, Shape, TypeOK
  <2> QED BY <1>2, <1>3, <1>6, <1>8, <1>9, <1>10, <2>1, DocumentReplaced
<1>12. \A i \in DOMAIN jobs : i # j => Of(chunks', i) = Of(chunks, i)
  BY <1>5 DEF Of
<1>13. DocumentFits(new, d, jobs', chunks') /\ ReadyStays(doc, new)
  <2>1. \A v \in 1..n : v # n => new.versions[v] = doc.versions[v] /\ doc.versions[v].job # new.job
    BY <1>2, <1>9, <1>10
  <2>2. new.versions[n].job = new.job
    BY <1>2, <1>3, <1>9, <1>10
  <2>3. jobs'[new.job].kind = "ingest" /\ jobs'[new.job].document = d /\ jobs'[new.job].status = "failed"
        /\ new.job \in DOMAIN jobs'
    BY <1>4, <1>6, <1>9
  <2>4. Moved(doc, new, d, jobs')
    BY <1>2, <1>9, <1>10, <2>1, <2>2, <2>3 DEF Moved, Busy
  <2>5. DeliveredStays(d, jobs, chunks, chunks')
    BY <1>1, <1>12 DEF DeliveredStays
  <2> QED BY <1>3, <1>6, <1>9, <2>4, <2>5, DocumentMoves
<1>14. ASSUME NEW i \in DOMAIN jobs', jobs'[i].kind = "ingest", jobs'[i].document = d, jobs'[i].status \in Alive
       PROVE  FALSE
  BY <1>2, <1>4, <1>6, <1>14 DEF Alive
<1>15. ASSUME NEW x \in chunks', jobs[x.job].document = d PROVE ChunkFits(x, jobs', documents')
  <2>1. ChunkFits(x, jobs, documents) /\ x.job # j
    BY <1>5 DEF Fits, ChunksFit
  <2>2. jobs'[x.job].status \in {"running", "succeeded"}
    BY <1>6, <2>1 DEF ChunkFits
  <2>3. documents'[d] = new /\ new.status # "deleted"
    BY <1>2, <1>9, <1>11
  <2>4. PICK v \in 1..n : doc.versions[v].job = x.job
    BY <1>15, <2>1 DEF ChunkFits
  <2>5. v \in 1..Len(new.versions) /\ new.versions[v].job = x.job
    BY <1>10, <2>4
  <2> QED BY <1>6, <1>15, <2>1, <2>2, <2>3, <2>5, ChunkStays
<1>16. OneDimension'
  BY <1>5 DEF Fits, OneDimension
<1>17. OneDocumentPerContent'
  BY <1>2, <1>9, <1>11, ContentStays DEF Fits
<1>18. \A i \in DOMAIN jobs : jobs[i].kind = "ingest" /\ jobs[i].document # d
                                 => jobs'[i].status = jobs[i].status /\ Of(chunks', i) = Of(chunks, i)
  BY <1>6, <1>12
<1>19. \A x \in chunks' : (x \in chunks /\ jobs[x.job].document # d) \/ ChunkFits(x, jobs', documents')
  BY <1>5, <1>15
<1>20. new.active >= doc.active
  BY <1>3, <1>9 DEF DocumentFits
<1> QED BY <1>2, <1>6, <1>9, <1>11, <1>13, <1>14, <1>16, <1>17, <1>18, <1>19, <1>20, OneMoves
----------------------------------------------------------------------------
(* The steps that move more than one document. *)

\* A document is created with its job.
LEMMA CreateStep ==
    ASSUME Fits, NEW c \in Content, NEW plan \in 0..MaxChunks, SameContent(c) = {},
           Create(c, plan), Enqueue("ingest", NewDocument),
           UNCHANGED <<chunks, dimension>>, previews' \in [Preview -> Staged \cup {None}]
    PROVE  Fits' /\ Onwards
<1> DEFINE version == NewVersion(c, NextJob, plan)
<1> DEFINE new == [status |-> "queued", content |-> c, job |-> NextJob, active |-> 0, versions |-> <<version>>]
<1> DEFINE d == NewDocument
<1>1. /\ documents \in Seq(DocumentRow) /\ Len(documents) \in Nat /\ DOMAIN documents = 1..Len(documents)
      /\ Len(jobs) \in Nat /\ DOMAIN jobs = 1..Len(jobs) /\ Len(documents) <= Len(jobs) /\ Len(jobs) < MaxJobs
      /\ MaxJobs \in Nat /\ \A e \in DOMAIN documents : Len(documents[e].versions) \in 1..MaxVersions
  BY ShapeFacts, KnowledgeAssumption DEF Fits, Shape, Enqueue
<1>2. d \in 0..MaxJobs /\ d \notin DOMAIN documents /\ d = Len(documents) + 1
  BY <1>1 DEF NewDocument
<1>3. /\ jobs' \in Seq(JobRow) /\ Len(jobs') = NextJob /\ NextJob \in 1..MaxJobs
      /\ \A j \in DOMAIN jobs : j \in DOMAIN jobs' /\ j # NextJob /\ jobs'[j] = jobs[j]
      /\ \A j \in DOMAIN jobs' : j \in DOMAIN jobs \/ j = NextJob
      /\ NextJob \in DOMAIN jobs' /\ jobs'[NextJob] = NewJob("ingest", d)
      /\ JobsGrow(jobs, jobs') /\ HitsGrow
  BY <1>2, NewJobFacts
<1>4. version \in VersionRow /\ version.job = NextJob /\ version.status = "queued"
  BY <1>3 DEF VersionRow, NewVersion, Busy
<1> HIDE DEF version
<1>5. 0 \in 0..MaxVersions /\ 1 \in 1..MaxVersions
  BY KnowledgeAssumption
<1>6. /\ new \in DocumentRow /\ Len(new.versions) = 1 /\ new.versions[1] = version
      /\ new.status = "queued" /\ new.content = c /\ new.job = NextJob /\ new.active = 0
  BY <1>3, <1>4, <1>5 DEF DocumentRow, Busy
<1>7. documents' = Append(documents, new)
  BY DEF Create, version
<1> HIDE DEF new
<1>8. /\ documents' \in Seq(DocumentRow) /\ Len(documents') = d /\ DOMAIN documents' = 1..d
      /\ \A e \in DOMAIN documents : documents'[e] = documents[e]
      /\ documents'[d] = new
  BY <1>1, <1>2, <1>6, <1>7, Appended
<1> HIDE DEF d
<1>9. /\ \A e \in DOMAIN documents : e \in DOMAIN documents' /\ e # d /\ documents'[e] = documents[e]
      /\ \A e \in DOMAIN documents' : e \in DOMAIN documents \/ e = d
      /\ d \in DOMAIN documents' /\ documents'[d] = new
  BY <1>1, <1>2, <1>8
<1>10. Shape'
  <2>1. Len(documents') <= Len(jobs') /\ Len(jobs') <= MaxJobs
    BY <1>1, <1>2, <1>3, <1>8 DEF NextJob
  <2>2. \A e \in DOMAIN documents' : Len(documents'[e].versions) \in 1..MaxVersions
    BY <1>1, <1>5, <1>6, <1>9
  <2> QED BY <1>3, <1>8, <2>1, <2>2 DEF Fits, Shape, TypeOK, Latest
<1>11. ASSUME NEW e \in DOMAIN documents PROVE DocumentFits(documents[e], e, jobs', chunks')
  <2>1. /\ documents[e] \in DocumentRow /\ DocumentFits(documents[e], e, jobs, chunks)
        /\ Len(documents[e].versions) # 0 /\ documents[e].job \in DOMAIN jobs
    BY DocumentFacts
  <2>2. DeliveredStays(e, jobs, chunks, chunks')
    BY DEF DeliveredStays
  <2>3. documents[e].status \in Busy => jobs'[documents[e].job].status \in Alive
    BY <1>3, <2>1 DEF DocumentFits
  <2> QED BY <1>3, <2>1, <2>2, <2>3, DocumentRests
<1>12. DocumentFits(new, d, jobs', chunks')
  <2>1. jobs'[new.job].kind = "ingest" /\ jobs'[new.job].document = d /\ jobs'[new.job].status \in Alive
    BY <1>3, <1>6 DEF NewJob, Alive
  <2> QED BY <1>3, <1>4, <1>6, <2>1, DocumentIsNew
<1>13. DocumentsFit'
  BY <1>9, <1>11, <1>12 DEF DocumentsFit
<1>14. JobsFit'
  <2> SUFFICES ASSUME NEW j \in DOMAIN jobs' PROVE JobFits(j, jobs', documents')
    BY DEF JobsFit
  <2>1. CASE j \in DOMAIN jobs
    <3>1. JobFits(j, jobs, documents)
      BY <2>1 DEF Fits, JobsFit
    <3> QED BY <1>3, <1>9, <2>1, <3>1 DEF JobFits
  <2>2. CASE j = NextJob
    <3>1. jobs'[j].document = d /\ jobs'[j].status = "queued"
      BY <1>3, <2>2 DEF NewJob
    <3> QED BY <1>6, <1>9, <2>2, <3>1 DEF JobFits
  <2> QED BY <1>3, <2>1, <2>2
<1>15. ChunksFit'
  <2> SUFFICES ASSUME NEW x \in chunks PROVE ChunkFits(x, jobs', documents')
    BY DEF ChunksFit
  <2>1. ChunkFits(x, jobs, documents)
    BY DEF Fits, ChunksFit
  <2>2. x.job \in DOMAIN jobs /\ JobFits(x.job, jobs, documents)
    BY <2>1 DEF ChunkFits, Fits, JobsFit
  <2> QED BY <1>3, <1>9, <2>1, <2>2 DEF ChunkFits, JobFits
<1>16. HitsFit'
  <2>1. \A e \in DOMAIN documents : Len(documents[e].versions) \in Nat
    BY ShapeFacts DEF Fits
  <2>2. \A e \in DOMAIN documents : e \in DOMAIN documents' /\ ReadyStays(documents[e], documents'[e])
                                   /\ Len(documents'[e].versions) \in Nat
    BY <1>9, <2>1 DEF ReadyStays
  <2> QED BY <1>3, <2>1, <2>2, HitsStay
<1>17. OneDocumentPerContent'
  <2>1. \A e \in DOMAIN documents : documents[e].status # "deleted" => documents[e].content # c
    BY DEF SameContent, LiveDocuments
  <2> QED BY <1>6, <1>9, <2>1 DEF Fits, OneDocumentPerContent, LiveDocuments
<1>18. OneDimension'
  BY DEF Fits, OneDimension
<1>19. Onwards
  <2>1. \A e \in DOMAIN documents : documents[e].active >= documents[e].active
    BY ShapeFacts, KnowledgeAssumption DEF Fits, DocumentRow
  <2> QED BY <1>9, <2>1 DEF Onwards
<1> QED BY <1>10, <1>13, <1>14, <1>15, <1>16, <1>17, <1>18, <1>19 DEF Fits

\* A document, as the sweep leaves it.
LEMMA SweptDocument ==
    ASSUME Fits, NEW d \in DOMAIN documents, documents[d].job \notin LostJobs
    PROVE  FailLost(documents[d]) = documents[d]
<1> DEFINE doc == documents[d]
<1> DEFINE n == Len(documents[d].versions)
<1>1. doc \in DocumentRow /\ doc.versions \in Seq(VersionRow) /\ DOMAIN doc.versions = 1..n
      /\ \A v \in 1..n : VersionFits(doc.versions[v], d, jobs)
  BY DocumentFacts
<1>2. ASSUME NEW v \in 1..n PROVE doc.versions[v].job \notin LostJobs
  <2>1. doc.versions[v].job \in DOMAIN jobs /\ jobs[doc.versions[v].job].kind = "ingest"
        /\ jobs[doc.versions[v].job].document = d
    BY <1>1 DEF VersionFits
  <2>2. doc.versions[v].job \in LostJobs => jobs[doc.versions[v].job].status \in Alive
    BY DEF LostJobs, Lost, Alive
  <2>3. doc.versions[v].job \in LostJobs => doc.job = doc.versions[v].job
    BY <2>1, <2>2, AliveFacts
  <2> QED BY <2>3
<1>3. [v \in DOMAIN doc.versions |-> IF doc.versions[v].job \in LostJobs
                                     THEN [doc.versions[v] EXCEPT !.status = "failed"]
                                     ELSE doc.versions[v]] = doc.versions
  BY <1>1, <1>2
<1> QED BY <1>1, <1>3 DEF FailLost, DocumentRow
LEMMA LostDocument ==
    ASSUME Fits, NEW d \in DOMAIN documents, documents[d].job \in LostJobs
    PROVE  LET doc == documents[d]
               new == FailLost(documents[d])
               n == Len(documents[d].versions) IN
             /\ new \in DocumentRow /\ Len(new.versions) = n
             /\ doc.status \in Busy /\ doc.versions[n].status # "ready"
             /\ new.status = "failed" /\ new.content = doc.content /\ new.job = doc.job /\ new.active = doc.active
             /\ new.versions[n].status = "failed"
             /\ \A v \in 1..n : /\ new.versions[v].job = doc.versions[v].job
                                /\ v # n => new.versions[v] = doc.versions[v] /\ doc.versions[v].job # doc.job
<1> DEFINE doc == documents[d]
<1> DEFINE n == Len(documents[d].versions)
<1> DEFINE s == [v \in 1..n |-> IF doc.versions[v].job \in LostJobs THEN [doc.versions[v] EXCEPT !.status = "failed"]
                                ELSE doc.versions[v]]
<1>1. /\ doc \in DocumentRow /\ doc.versions \in Seq(VersionRow) /\ DOMAIN doc.versions = 1..n
      /\ n \in Nat /\ n # 0 /\ doc.job \in DOMAIN jobs
      /\ jobs[doc.job].kind = "ingest" /\ jobs[doc.job].document = d
      /\ \A v \in 1..n : doc.versions[v] \in VersionRow /\ VersionFits(doc.versions[v], d, jobs)
  BY DocumentFacts, Rows
<1>2. \A j \in LostJobs : j \in DOMAIN jobs /\ jobs[j].status \in Alive
  BY DEF LostJobs, Lost, Alive
<1>3. /\ doc.status \in Busy /\ doc.versions[n].job = doc.job /\ doc.versions[n].status # "ready"
      /\ \A v \in 1..n : v # n => doc.versions[v].job # doc.job
  BY <1>1, <1>2, AliveFacts DEF Busy
<1>4. ASSUME NEW v \in 1..n, v # n PROVE doc.versions[v].job \notin LostJobs
  <2>1. doc.versions[v].job \in DOMAIN jobs /\ jobs[doc.versions[v].job].kind = "ingest"
        /\ jobs[doc.versions[v].job].document = d
    BY <1>1 DEF VersionFits
  <2>2. doc.versions[v].job \in LostJobs => doc.job = doc.versions[v].job
    BY <1>2, <2>1, AliveFacts
  <2> QED BY <1>3, <1>4, <2>2
<1>5. s \in Seq(VersionRow) /\ Len(s) = n
  <2>1. \A v \in 1..n : s[v] \in VersionRow
    BY <1>1 DEF VersionRow
  <2>2. s = [v \in 1..n |-> s[v]]
    OBVIOUS
  <2> HIDE DEF s
  <2> QED BY <1>1, <2>1, <2>2, RowsOf
<1>6. /\ s[n].status = "failed"
      /\ \A v \in 1..n : s[v].job = doc.versions[v].job /\ (v # n => s[v] = doc.versions[v])
  BY <1>1, <1>3, <1>4 DEF VersionRow
<1>7. FailLost(doc) = [doc EXCEPT !.versions = s, !.status = "failed"]
  BY <1>1, <1>3 DEF FailLost
<1> HIDE DEF s
<1> QED BY <1>1, <1>3, <1>5, <1>6, <1>7 DEF DocumentRow

\* Jobs that are lost fail with the version that waits for them, all at once.
LEMMA ReapStep ==
    ASSUME Fits, Reap
    PROVE  Fits' /\ Onwards
<1>1. /\ documents \in Seq(DocumentRow) /\ Len(documents) \in Nat /\ DOMAIN documents = 1..Len(documents)
      /\ jobs \in Seq(JobRow) /\ Len(jobs) \in Nat /\ DOMAIN jobs = 1..Len(jobs)
      /\ \A d \in DOMAIN documents : Len(documents[d].versions) \in 1..MaxVersions
                                     /\ Len(documents[d].versions) \in Nat /\ documents[d] \in DocumentRow
  BY ShapeFacts, DocumentFacts DEF Fits
<1>2. /\ jobs' = [j \in 1..Len(jobs) |-> jobs'[j]] /\ DOMAIN jobs' = DOMAIN jobs
      /\ \A j \in DOMAIN jobs : jobs'[j] = IF j \in LostJobs THEN EndedAs(jobs[j], "failed") ELSE jobs[j]
  BY <1>1 DEF Reap, LostJobs
<1>3. /\ documents' = [d \in 1..Len(documents) |-> documents'[d]] /\ DOMAIN documents' = DOMAIN documents
      /\ \A d \in DOMAIN documents : documents'[d] = FailLost(documents[d])
      /\ chunks' = {c \in chunks : c.job \notin LostJobs} /\ UNCHANGED <<dimension, previews>>
  BY <1>1 DEF Reap
<1>4. \A j \in LostJobs : j \in DOMAIN jobs /\ jobs[j].status \in Alive
  BY DEF LostJobs, Lost, Alive
<1>5. \A j \in DOMAIN jobs : /\ jobs'[j] \in JobRow /\ jobs'[j].kind = jobs[j].kind
                             /\ jobs'[j].document = jobs[j].document /\ jobs'[j].hits = jobs[j].hits
                             /\ jobs'[j].status = IF j \in LostJobs THEN "failed" ELSE jobs[j].status
  BY <1>1, <1>2, EndedJob, JobRows DEF Ended
<1>6. JobsGrow(jobs, jobs') /\ HitsGrow
  BY <1>2, <1>4, <1>5 DEF JobsGrow, HitsGrow
<1>7. ASSUME NEW d \in DOMAIN documents
      PROVE  /\ documents'[d] \in DocumentRow /\ Len(documents'[d].versions) = Len(documents[d].versions)
             /\ documents'[d].content = documents[d].content /\ documents'[d].active = documents[d].active
             /\ documents[d].job \notin LostJobs => documents'[d] = documents[d]
             /\ documents[d].status # "deleted" <=> documents'[d].status # "deleted"
             /\ \A v \in 1..Len(documents[d].versions) :
                    documents'[d].versions[v].job = documents[d].versions[v].job
  <2>1. CASE documents[d].job \notin LostJobs
    BY <1>1, <1>3, <2>1, SweptDocument
  <2>2. CASE documents[d].job \in LostJobs
    BY <1>3, <2>2, LostDocument DEF Busy
  <2> QED BY <2>1, <2>2
<1>8. \A j \in DOMAIN jobs : j \notin LostJobs => Of(chunks', j) = Of(chunks, j)
  BY <1>3 DEF Of
<1>9. ASSUME NEW d \in DOMAIN documents
      PROVE  DocumentFits(documents'[d], d, jobs', chunks') /\ ReadyStays(documents[d], documents'[d])
  <2> DEFINE doc == documents[d]
  <2> DEFINE n == Len(documents[d].versions)
  <2>1. /\ doc \in DocumentRow /\ DocumentFits(doc, d, jobs, chunks) /\ n # 0 /\ n \in Nat
        /\ doc.job \in DOMAIN jobs /\ doc.job = doc.versions[n].job
        /\ jobs[doc.job].kind = "ingest" /\ jobs[doc.job].document = d
    BY DocumentFacts
  <2>2. DeliveredStays(d, jobs, chunks, chunks')
    BY <1>4, <1>8 DEF DeliveredStays, Alive
  <2>3. CASE doc.job \notin LostJobs
    <3>1. doc.status \in Busy => jobs'[doc.job].status \in Alive
      BY <1>5, <2>1, <2>3 DEF DocumentFits
    <3>2. documents'[d] = doc
      BY <1>7, <2>3
    <3>3. ReadyStays(doc, doc)
      BY <2>1 DEF ReadyStays
    <3>4. DocumentFits(doc, d, jobs', chunks')
      BY <1>6, <2>1, <2>2, <3>1, DocumentRests
    <3> QED BY <3>2, <3>3, <3>4
  <2>4. CASE doc.job \in LostJobs
    <3> DEFINE new == documents'[d]
    <3>1. new = FailLost(doc)
      BY <1>3
    <3>2. /\ new \in DocumentRow /\ Len(new.versions) = n
          /\ doc.status \in Busy /\ doc.versions[n].status # "ready"
          /\ new.status = "failed" /\ new.job = doc.job /\ new.active = doc.active
          /\ new.versions[n].status = "failed"
          /\ \A v \in 1..n : /\ new.versions[v].job = doc.versions[v].job
                             /\ v # n => new.versions[v] = doc.versions[v] /\ doc.versions[v].job # doc.job
      BY <2>4, <3>1, LostDocument
    <3> HIDE DEF new
    <3>3. /\ new.job \in DOMAIN jobs' /\ jobs'[new.job].kind = "ingest" /\ jobs'[new.job].document = d
          /\ jobs'[new.job].status = "failed"
      BY <1>2, <1>5, <2>1, <2>4, <3>2
    <3>4. new.versions[n].job = new.job
      BY <2>1, <3>2
    <3>5. Moved(doc, new, d, jobs')
      BY <3>2, <3>3, <3>4 DEF Moved, Busy
    <3> QED BY <1>6, <2>1, <2>2, <3>2, <3>5, DocumentMoves DEF new
  <2> QED BY <2>3, <2>4
<1>10. Shape'
  <2>1. documents' \in Seq(DocumentRow) /\ Len(documents') = Len(documents)
    BY <1>1, <1>3, <1>7, RowsOf
  <2>2. jobs' \in Seq(JobRow) /\ Len(jobs') = Len(jobs)
    BY <1>1, <1>2, <1>5, RowsOf
  <2>3. \A d \in DOMAIN documents' : Len(documents'[d].versions) \in 1..MaxVersions
    BY <1>1, <1>3, <1>7
  <2> QED BY <1>3, <2>1, <2>2, <2>3 DEF Fits, Shape, TypeOK, Latest
<1>11. DocumentsFit'
  BY <1>3, <1>9 DEF DocumentsFit
<1>12. JobsFit'
  <2> SUFFICES ASSUME NEW j \in DOMAIN jobs PROVE JobFits(j, jobs', documents')
    BY <1>2 DEF JobsFit
  <2>1. JobFits(j, jobs, documents)
    BY DEF Fits, JobsFit
  <2>2. CASE j \in LostJobs
    BY <1>3, <1>5, <2>1, <2>2 DEF JobFits, Alive
  <2>3. CASE j \notin LostJobs
    <3>1. jobs[j].kind = "ingest" /\ jobs[j].status \in Alive
             => documents'[jobs[j].document] = documents[jobs[j].document]
      BY <1>7, <2>1, <2>3 DEF JobFits
    <3> QED BY <1>2, <1>3, <2>1, <2>3, <3>1 DEF JobFits
  <2> QED BY <2>2, <2>3
<1>13. ChunksFit'
  <2> SUFFICES ASSUME NEW c \in chunks, c.job \notin LostJobs PROVE ChunkFits(c, jobs', documents')
    BY <1>3 DEF ChunksFit
  <2> DEFINE d == jobs[c.job].document
  <2>1. ChunkFits(c, jobs, documents)
    BY DEF Fits, ChunksFit
  <2>2. c.job \in DOMAIN jobs /\ d \in DOMAIN documents
    BY <2>1 DEF ChunkFits, Fits, JobsFit, JobFits
  <2>3. jobs'[c.job].status \in {"running", "succeeded"}
    BY <1>5, <2>1, <2>2 DEF ChunkFits
  <2>4. documents'[d].status # "deleted"
    BY <1>7, <2>1, <2>2 DEF ChunkFits
  <2>5. PICK v \in 1..Len(documents[d].versions) : documents[d].versions[v].job = c.job
    BY <2>1 DEF ChunkFits
  <2>6. v \in 1..Len(documents'[d].versions) /\ documents'[d].versions[v].job = c.job
    BY <1>7, <2>2, <2>5
  <2> QED BY <1>6, <2>1, <2>3, <2>4, <2>6, ChunkStays
<1>14. HitsFit'
  BY <1>1, <1>3, <1>6, <1>7, <1>9, HitsStay
<1>15. OneDimension'
  BY <1>3 DEF Fits, OneDimension
<1>16. OneDocumentPerContent'
  BY <1>3, <1>7, ContentStays DEF Fits
<1>17. Onwards
  BY <1>1, <1>7, KnowledgeAssumption DEF Onwards, DocumentRow
<1> QED BY <1>10, <1>11, <1>12, <1>13, <1>14, <1>15, <1>16, <1>17 DEF Fits

----------------------------------------------------------------------------
(* The base. *)

LEMMA FitsInit ==
    ASSUME Init
    PROVE  Fits
<1>1. documents = <<>> /\ jobs = <<>> /\ chunks = {} /\ DOMAIN documents = {} /\ DOMAIN jobs = {}
      /\ Len(documents) = 0 /\ Len(jobs) = 0 /\ documents \in Seq(DocumentRow) /\ jobs \in Seq(JobRow)
  BY DEF Init
<1>2. Shape
  BY <1>1, KnowledgeAssumption DEF Init, Shape, TypeOK
<1> QED BY <1>1, <1>2 DEF Fits, DocumentsFit, JobsFit, ChunksFit, HitsFit, OneDimension, OneDocumentPerContent,
                          LiveDocuments

LEMMA PreviewTypes ==
    ASSUME Fits, NEW p \in Preview
    PROVE  /\ previews \in [Preview -> Staged \cup {None}]
           /\ [previews EXCEPT ![p] = None] \in [Preview -> Staged \cup {None}]
           /\ previews[p] # None => previews[p] \in Staged
  BY DEF Fits, Shape, TypeOK

LEMMA ParseStep ==
    ASSUME Fits, NEW p \in Preview, NEW d \in 0..Len(documents), NEW c \in Content, ParsePreview(p, d, c)
    PROVE  Fits' /\ Onwards
<1> DEFINE base == IF d = 0 THEN 0 ELSE Latest(documents[d])
<1>1. base \in 0..MaxVersions
  <2>1. CASE d = 0
    BY <2>1, KnowledgeAssumption
  <2>2. CASE d # 0
    <3>1. d \in DOMAIN documents
      BY <2>2, ShapeFacts DEF Fits
    <3> QED BY <2>2, <3>1, DocumentFacts DEF Latest
  <2> QED BY <2>1, <2>2
<1>2. d \in 0..MaxJobs
  <2>1. CASE d = 0
    BY <2>1, KnowledgeAssumption
  <2>2. CASE d # 0
    <3>1. d \in DOMAIN documents
      BY <2>2, ShapeFacts DEF Fits
    <3> QED BY <3>1, DocumentBound
  <2> QED BY <2>1, <2>2
<1>3. [document |-> d, base |-> base, content |-> c, staged |-> FALSE] \in Staged
  BY <1>1, <1>2 DEF Staged
<1>4. previews' = [previews EXCEPT ![p] = [document |-> d, base |-> base, content |-> c, staged |-> FALSE]]
  BY DEF ParsePreview
<1> HIDE DEF base
<1>5. previews' \in [Preview -> Staged \cup {None}]
  BY <1>3, <1>4, PreviewTypes
<1> QED BY <1>5, PreviewSteps DEF ParsePreview

LEMMA StageStep ==
    ASSUME Fits, NEW p \in Preview, StagePreview(p) \/ DropPreview(p)
    PROVE  Fits' /\ Onwards
<1>1. CASE StagePreview(p)
  <2>1. [previews[p] EXCEPT !.staged = TRUE] \in Staged
    BY <1>1, PreviewTypes DEF StagePreview, Staged
  <2>2. previews' \in [Preview -> Staged \cup {None}]
    BY <1>1, <2>1, PreviewTypes DEF StagePreview
  <2> QED BY <1>1, <2>2, PreviewSteps DEF StagePreview
<1>2. CASE DropPreview(p)
  BY <1>2, PreviewTypes, PreviewSteps DEF DropPreview
<1> QED BY <1>1, <1>2

LEMMA ImportStep ==
    ASSUME Fits, NEW p \in Preview, Import(p)
    PROVE  Fits' /\ Onwards
<1> DEFINE d == previews[p].document
<1> DEFINE c == previews[p].content
<1>1. previews' \in [Preview -> Staged \cup {None}] /\ UNCHANGED <<chunks, dimension>> /\ c \in Content
      /\ Size[c] \in 0..MaxChunks
  BY PreviewTypes, KnowledgeAssumption DEF Import, Staged
<1>2. CASE UNCHANGED <<documents, jobs>>
  BY <1>1, <1>2, PreviewSteps
<1>3. CASE /\ d = 0 /\ SameContent(c) = {} /\ Create(c, Size[c]) /\ Enqueue("ingest", NewDocument)
  BY <1>1, <1>3, CreateStep
<1>4. CASE /\ d \in LiveDocuments /\ CanUpdate(d, c) /\ AddVersion(d, c) /\ Enqueue("ingest", d)
  BY <1>1, <1>4, UpdateStep
<1> QED BY <1>2, <1>3, <1>4 DEF Import, CurrentBase

LEMMA FitsNext ==
    ASSUME Fits, [Next]_vars
    PROVE  Fits' /\ Onwards
<1>1. ASSUME NEW p \in Preview, NEW d \in 0..Len(documents), NEW c \in Content, ParsePreview(p, d, c)
      PROVE  Fits' /\ Onwards
  BY <1>1, ParseStep
<1>2. ASSUME NEW p \in Preview, StagePreview(p) \/ DropPreview(p) PROVE Fits' /\ Onwards
  BY <1>2, StageStep
<1>3. ASSUME NEW p \in Preview, Import(p) PROVE Fits' /\ Onwards
  BY <1>3, ImportStep
<1>4. ASSUME NEW c \in Content, Upload(c) PROVE Fits' /\ Onwards
  <2>1. 0 \in 0..MaxChunks
    BY KnowledgeAssumption
  <2>2. previews' \in [Preview -> Staged \cup {None}]
    BY <1>4 DEF Upload, Fits, Shape, TypeOK
  <2> QED BY <1>4, <2>1, <2>2, CreateStep DEF Upload
<1>5. ASSUME NEW d \in DOMAIN documents, Retry(d) \/ RemoveDocument(d) PROVE Fits' /\ Onwards
  BY <1>5, RetryStep, RemoveStep
<1>6. CASE Search
  BY <1>6, SearchStep
<1>7. ASSUME NEW j \in DOMAIN jobs, Claim(j) \/ FinishFailed(j) PROVE Fits' /\ Onwards
  <2>1. jobs[j].kind \in {"ingest", "search"}
    BY ShapeFacts DEF Fits, JobRow
  <2> QED BY <1>7, <2>1, ClaimStep, FailStep, SearchMoves
<1>8. ASSUME NEW j \in DOMAIN jobs, Renew(j) \/ Age(j) \/ Expire(j) PROVE Fits' /\ Onwards
  BY <1>8, LeaseSteps
<1>9. ASSUME NEW j \in DOMAIN jobs, NEW ordinals \in SUBSET Ordinal, NEW dim \in Dimension, Batch(j, ordinals, dim)
      PROVE  Fits' /\ Onwards
  BY <1>9, BatchStep
<1>10. ASSUME NEW j \in DOMAIN jobs, Query(j) PROVE Fits' /\ Onwards
  BY <1>10, QueryStep
<1>11. ASSUME NEW j \in DOMAIN jobs, NEW count \in 1..MaxChunks, FinishIngest(j, count) PROVE Fits' /\ Onwards
  BY <1>11, FinishStep
<1>12. ASSUME NEW j \in DOMAIN jobs, NEW results \in SUBSET jobs[j].hits, FinishSearch(j, results)
       PROVE  Fits' /\ Onwards
  BY <1>12, AnswerStep
<1>13. CASE Reap
  BY <1>13, ReapStep
<1>14. CASE UNCHANGED vars
  <2>1. previews' \in [Preview -> Staged \cup {None}]
    BY <1>14 DEF vars, Fits, Shape, TypeOK
  <2> QED BY <1>14, <2>1, PreviewSteps DEF vars
<1> QED BY <1>1, <1>2, <1>3, <1>4, <1>5, <1>6, <1>7, <1>8, <1>9, <1>10, <1>11, <1>12, <1>13, <1>14
        DEF Next, UserRequest, RuntimeRequest, Clock

\* Documents, jobs and chunks fit one another at all times.
THEOREM BasesFit == Spec => []Fits
<1>1. Init => Fits
  BY FitsInit
<1>2. Fits /\ [Next]_vars => Fits'
  BY FitsNext
<1> QED BY <1>1, <1>2, PTL DEF Spec

\* The rows have the values their columns allow.
THEOREM TypeCorrectness == Spec => []TypeOK
<1>1. Fits => TypeOK
  BY DEF Fits, Shape
<1> QED BY <1>1, BasesFit, PTL

\* What can be searched is whole, its vectors can be compared, and nothing is left
\* of attempts that failed or documents that were deleted.
THEOREM SearchesSeeWholeVersions == Spec => []SearchableIsWhole
<1>1. Fits => SearchableIsWhole
  <2> SUFFICES ASSUME Fits PROVE SearchableIsWhole
    OBVIOUS
  <2>1. ActiveIsComplete
    <3> SUFFICES ASSUME NEW d \in LiveDocuments, documents[d].active # 0
                 PROVE  Complete(documents[d].versions[documents[d].active], jobs, chunks)
      BY DEF ActiveIsComplete, Complete, Found, Of, OfJob
    <3>1. d \in DOMAIN documents /\ documents[d].status # "deleted"
      BY DEF LiveDocuments
    <3>2. DocumentFits(documents[d], d, jobs, chunks)
      BY <3>1, DocumentFacts
    <3> QED BY <3>1, <3>2 DEF DocumentFits
  <2>2. NoOrphanChunks
    <3> SUFFICES ASSUME NEW c \in chunks
                 PROVE  /\ jobs[c.job].status \in {"running", "succeeded"}
                        /\ jobs[c.job].document \in LiveDocuments
                        /\ \E v \in DOMAIN documents[jobs[c.job].document].versions :
                              documents[jobs[c.job].document].versions[v].job = c.job
      BY DEF NoOrphanChunks
    <3>1. ChunkFits(c, jobs, documents)
      BY DEF Fits, ChunksFit
    <3>2. jobs[c.job].document \in DOMAIN documents
      BY <3>1 DEF ChunkFits, Fits, JobsFit, JobFits
    <3>3. DOMAIN documents[jobs[c.job].document].versions = 1..Len(documents[jobs[c.job].document].versions)
      BY <3>2, DocumentFacts
    <3> QED BY <3>1, <3>2, <3>3 DEF ChunkFits, LiveDocuments
  <2> QED BY <2>1, <2>2 DEF Fits, SearchableIsWhole
<1> QED BY <1>1, BasesFit, PTL

\* A document that waits has a job that is alive, a job that is alive has its
\* document, and the same content is one document.
THEOREM UploadsAreKept == Spec => []DocumentsAreKept
<1>1. Fits => DocumentsAreKept
  <2> SUFFICES ASSUME Fits PROVE DocumentsAreKept
    OBVIOUS
  <2>1. ASSUME NEW j \in DOMAIN jobs, jobs[j].kind = "ingest", jobs[j].status \in Alive
        PROVE  LET doc == documents[jobs[j].document] IN
                 /\ doc.job = j /\ Last(doc.versions).job = j
                 /\ doc.status = IF jobs[j].status = "queued" THEN "queued" ELSE "processing"
    BY <2>1, AliveFacts DEF Last
  <2>2. ASSUME NEW d \in LiveDocuments, documents[d].status \in Busy
        PROVE  jobs[documents[d].job].status \in Alive
    <3>1. DocumentFits(documents[d], d, jobs, chunks)
      BY DEF Fits, DocumentsFit, LiveDocuments
    <3> QED BY <2>2, <3>1 DEF DocumentFits
  <2> QED BY <2>1, <2>2 DEF Fits, DocumentsAreKept, DocumentFollowsJob
<1> QED BY <1>1, BasesFit, PTL

\* A search answers with versions that were fully indexed.
THEOREM AnswersAreIndexed == Spec => []HitsWereIndexed
<1>1. Fits => HitsWereIndexed
  BY DEF Fits, HitsFit, HitFits, HitsWereIndexed
<1> QED BY <1>1, BasesFit, PTL

\* Until it is deleted, a searchable document only moves on to a later version.
THEOREM LastGoodVersionStays == Spec => LastGoodStays
<1>1. Fits /\ [Next]_vars
        => [\A d \in DOMAIN documents :
              documents[d].active # 0 => \/ documents'[d].status = "deleted"
                                        \/ documents'[d].active >= documents[d].active]_vars
  BY FitsNext DEF Onwards
<1> QED BY <1>1, BasesFit, PTL DEF Spec, LastGoodStays
=============================================================================
