------------------------ MODULE WorkflowAssets_proofs ------------------------
(***************************************************************************)
(* Jobs: whatever the runtime asks for and in whatever order, a node has   *)
(* only been started on the path its execution took, and every row only    *)
(* moves on.  Both rest on IInv, which each step preserves; a step changes *)
(* the rows of one job, except the reaper's, which is treated job by job.  *)
(* A success is a whole path since what an execution has come to is one    *)
(* (Underway), though no single request looks at more than one edge of it. *)
(*                                                                         *)
(* Drafts and releases beside them: what they do is nothing WorkflowQueue  *)
(* does not do, so what is proved about the queue holds with them; and     *)
(* what somebody saved, had generated, accepted or published stands, for   *)
(* any number of people, workflows and jobs.                               *)
(***************************************************************************)
EXTENDS WorkflowAssets, FiniteSetTheorems, TLAPS

----------------------------------------------------------------------------

(* What one step may do to one job. *)

Keeps(j) == jobs'[j].status = jobs[j].status /\ nodes'[j] = nodes[j]
Queues(j) == jobs[j].status = "absent" /\ jobs'[j].status = "queued" /\ nodes'[j] = nodes[j]
Claims(j) == /\ jobs[j].status = "queued" /\ jobs'[j].status = "running"
             /\ nodes'[j] = IF j \in Generation THEN nodes[j] ELSE [n \in Node |-> "pending"]
Starts(j) == /\ jobs[j].status = "running" /\ jobs'[j].status = "running"
             /\ \E n \in Node : Startable(j, n) /\ nodes'[j] = [nodes[j] EXCEPT ![n] = "running"]
Settles(j) == /\ jobs[j].status = "running" /\ jobs'[j].status = "running"
              /\ \E n \in Node, status \in {"succeeded", "failed"} :
                    nodes[j][n] = "running" /\ nodes'[j] = [nodes[j] EXCEPT ![n] = status]
Ends(j) == /\ jobs[j].status \in {"queued", "running"} /\ jobs'[j].status \in Ended
           /\ \E status \in Ended : nodes'[j] = Closed(j, status)
\* The conditions that matched only grow, and only by the node that just ran.
Learns(j) == /\ matched[j] \subseteq matched'[j]
             /\ \A n \in matched'[j] \ matched[j] : nodes[j][n] = "running"
Moves(j) == (Keeps(j) \/ Queues(j) \/ Claims(j) \/ Starts(j) \/ Settles(j) \/ Ends(j)) /\ Learns(j)

----------------------------------------------------------------------------

(* Rows. *)

LEMMA FreshRow ==
    ASSUME NEW status \in JobStatus, NEW lease \in 0..Window
    PROVE  Fresh(status, lease) \in JobRow /\ Fresh(status, lease).status = status
  BY DEF Fresh, JobRow

LEMMA NewRows ==
    /\ NoJob \in JobRow /\ NoJob.status = "absent"
    /\ Queued \in JobRow /\ Queued.status = "queued"
    /\ Claimed \in JobRow /\ Claimed.status = "running"
    /\ \A status \in Ended : EndedAs(status) \in JobRow /\ EndedAs(status).status = status
<1>1. 0 \in 0..Window /\ Window \in 0..Window
  BY WorkflowAssumption DEF WorkflowAssumption
<1>2. Ended \cup {"absent", "queued", "running"} \subseteq JobStatus
  BY DEF JobStatus
<1> QED BY <1>1, <1>2, FreshRow DEF NoJob, Queued, Claimed, EndedAs

LEMMA RenewedRow ==
    ASSUME NEW job \in JobRow
    PROVE  Renewed(job) \in JobRow /\ Renewed(job).status = job.status
<1>1. Window \in 0..Window
  BY WorkflowAssumption DEF WorkflowAssumption
<1> QED BY <1>1 DEF JobRow, Renewed

LEMMA PastDeadlineRow ==
    ASSUME NEW job \in JobRow
    PROVE  PastDeadline(job) \in JobRow /\ PastDeadline(job).status = job.status
  BY DEF JobRow, PastDeadline

LEMMA AgedRow ==
    ASSUME NEW job \in JobRow, job.lease > 0
    PROVE  Aged(job) \in JobRow /\ Aged(job).status = job.status
<1>1. job.lease - 1 \in 0..Window
  BY WorkflowAssumption DEF WorkflowAssumption, JobRow
<1> QED BY <1>1 DEF JobRow, Aged

LEMMA ClosedType ==
    ASSUME TypeOK, NEW j \in Job, NEW status \in Ended
    PROVE  Closed(j, status) \in [Node -> NodeStatus]
  BY DEF TypeOK, Closed, NodeStatus, Ended

----------------------------------------------------------------------------

(* Every step keeps the types. *)

LEMMA RecordsType ==
    ASSUME TypeOK, NEW j \in Job
    PROVE  /\ [n \in Node |-> "pending"] \in [Node -> NodeStatus]
           /\ \A n \in Node : [nodes[j] EXCEPT ![n] = "running"] \in [Node -> NodeStatus]
           /\ \A n \in Node, status \in {"succeeded", "failed"} :
                 [nodes[j] EXCEPT ![n] = status] \in [Node -> NodeStatus]
  BY DEF TypeOK, NodeStatus, Ended

\* The steps of one job.
JobStep(j) == UserRequest(j) \/ RuntimeRequest(j) \/ Clock(j)

LEMMA TypeStep ==
    ASSUME TypeOK, [Next]_vars
    PROVE  TypeOK'
<1> USE WorkflowAssumption DEF WorkflowAssumption
<1>1. ASSUME NEW j \in Job, JobStep(j) PROVE TypeOK'
  <2>1. CASE Count(j)
    BY <2>1 DEF Count, TypeOK
  <2>2. CASE Insert(j)
    BY <2>2, NewRows DEF Insert, TypeOK
  <2>3. CASE Cancel(j)
    BY <2>3, NewRows, ClosedType DEF Cancel, End, TypeOK, Ended
  <2>4. CASE Claim(j)
    BY <2>4, NewRows, RecordsType DEF Claim, TypeOK
  <2>5. CASE Renew(j)
    BY <2>5, RenewedRow DEF Renew, TypeOK
  <2>6. ASSUME NEW n \in Node, StartNode(j, n) PROVE TypeOK'
    BY <2>6, RecordsType DEF StartNode, TypeOK
  <2>7. ASSUME NEW n \in Node, NEW status \in {"succeeded", "failed"}, NEW match \in BOOLEAN,
               FinishNode(j, n, status, match)
        PROVE  TypeOK'
    BY <2>7, RecordsType DEF FinishNode, TypeOK
  <2>8. ASSUME NEW status \in Ended, NEW valid \in BOOLEAN, Finish(j, status, valid) PROVE TypeOK'
    <3>1. PICK outcome \in Ended : End(j, outcome)
      BY <2>8 DEF Finish, Ended
    <3> QED BY <2>8, <3>1, NewRows, ClosedType DEF Finish, End, TypeOK
  <2>9. CASE Age(j)
    BY <2>9, AgedRow DEF Age, TypeOK
  <2>10. CASE Expire(j)
    BY <2>10, PastDeadlineRow DEF Expire, TypeOK
  <2> QED BY <1>1, <2>1, <2>2, <2>3, <2>4, <2>5, <2>6, <2>7, <2>8, <2>9, <2>10
          DEF JobStep, UserRequest, RuntimeRequest, Clock
<1>2. CASE Reap
  <2>1. "failed" \in Ended
    BY DEF Ended
  <2>2. jobs' \in [Job -> JobRow]
    BY <1>2, <2>1, NewRows DEF Reap, TypeOK
  <2>3. nodes' \in [Job -> [Node -> NodeStatus]]
    BY <1>2, <2>1, ClosedType DEF Reap, TypeOK
  <2> QED BY <1>2, <2>2, <2>3 DEF Reap, TypeOK
<1>3. CASE Revoke \/ UNCHANGED vars
  BY <1>3 DEF Revoke, vars, TypeOK
<1> QED BY <1>1, <1>2, <1>3 DEF Next, JobStep

----------------------------------------------------------------------------

(* Every step is one of the moves, for every job. *)

LEMMA CountedStep ==
    ASSUME TypeOK, CountedAreAbsent, [Next]_vars
    PROVE  CountedAreAbsent'
<1> USE WorkflowAssumption DEF WorkflowAssumption
<1>1. ASSUME NEW j \in Job, JobStep(j) PROVE CountedAreAbsent'
  <2>1. CASE Count(j)
    BY <2>1 DEF Count, TypeOK, CountedAreAbsent
  <2>2. CASE Insert(j)
    <3> SUFFICES ASSUME NEW w \in Workflow, NEW i \in counted'[w]
                 PROVE  WorkflowOf[i] = w /\ jobs'[i].status = "absent"
      BY DEF CountedAreAbsent
    <3>1. i \in Job /\ i \in counted[w] /\ i # j
      BY <2>2 DEF Insert, TypeOK, CountedAreAbsent
    <3> QED BY <2>2, <3>1 DEF Insert, TypeOK, CountedAreAbsent
  <2>3. CASE Cancel(j) \/ RuntimeRequest(j) \/ Clock(j)
    <3>1. counted' = counted /\ jobs[j].status # "absent"
      BY <2>3 DEF Cancel, RuntimeRequest, Clock, Claim, Renew, Age, Expire, StartNode, FinishNode, Finish, Live
    <3>2. \A i \in Job : i # j => jobs'[i] = jobs[i]
      BY <2>3 DEF Cancel, RuntimeRequest, Clock, Claim, Renew, Age, Expire, StartNode, FinishNode, Finish,
                  End, TypeOK
    <3>3. ASSUME NEW w \in Workflow, NEW i \in counted[w]
          PROVE  WorkflowOf[i] = w /\ jobs'[i].status = "absent"
      <4>1. i \in Job /\ WorkflowOf[i] = w /\ jobs[i].status = "absent"
        BY DEF TypeOK, CountedAreAbsent
      <4> QED BY <3>1, <3>2, <4>1
    <3>4. \A w \in Workflow : counted'[w] = counted[w]
      BY <3>1
    <3> QED BY <3>3, <3>4 DEF CountedAreAbsent
  <2> QED BY <1>1, <2>1, <2>2, <2>3 DEF JobStep, UserRequest
<1>2. CASE Reap
  <2>1. \A j \in Job : jobs[j].status = "absent" => jobs'[j] = jobs[j]
    BY <1>2 DEF Reap, Lost
  <2> QED BY <1>2, <2>1 DEF Reap, TypeOK, CountedAreAbsent
<1>3. CASE Revoke \/ UNCHANGED vars
  BY <1>3 DEF Revoke, vars, CountedAreAbsent
<1> QED BY <1>1, <1>2, <1>3 DEF Next, JobStep

\* A step of another job.
LEMMA OthersKeep ==
    ASSUME TypeOK, NEW i \in Job, NEW j \in Job, i # j, JobStep(i)
    PROVE  Moves(j)
<1>1. jobs'[j] = jobs[j] /\ nodes'[j] = nodes[j] /\ matched'[j] = matched[j]
  BY DEF JobStep, UserRequest, RuntimeRequest, Clock, Count, Insert, Cancel, Claim, Renew, Age, Expire,
         StartNode, FinishNode, Finish, End, TypeOK
<1> QED BY <1>1 DEF Moves, Keeps, Learns

LEMMA JobMoves ==
    ASSUME TypeOK, CountedAreAbsent, NEW j \in Job, JobStep(j)
    PROVE  Moves(j)
<1> USE WorkflowAssumption DEF WorkflowAssumption
<1> USE DEF TypeOK
<1>1. CASE Count(j)
  BY <1>1 DEF Count, Moves, Keeps, Learns
<1>2. CASE Insert(j)
  <2>1. jobs[j].status = "absent"
    BY <1>2 DEF Insert, CountedAreAbsent
  <2> QED BY <1>2, <2>1, NewRows DEF Insert, Moves, Queues, Learns
<1>3. CASE Cancel(j)
  <2>1. "cancelled" \in Ended
    BY DEF Ended
  <2> QED BY <1>3, <2>1, NewRows DEF Cancel, End, Moves, Ends, Learns
<1>4. CASE Claim(j)
  BY <1>4, NewRows DEF Claim, Moves, Claims, Learns
<1>5. CASE Renew(j)
  BY <1>5, RenewedRow DEF Renew, Moves, Keeps, Learns
<1>6. ASSUME NEW n \in Node, StartNode(j, n) PROVE Moves(j)
  BY <1>6 DEF StartNode, Live, Moves, Starts, Learns
<1>7. ASSUME NEW n \in Node, NEW status \in {"succeeded", "failed"}, NEW match \in BOOLEAN,
             FinishNode(j, n, status, match)
      PROVE  Moves(j)
  <2>1. Settles(j)
    BY <1>7 DEF FinishNode, Live, Settles
  <2>2. Learns(j)
    BY <1>7 DEF FinishNode, Learns
  <2> QED BY <2>1, <2>2 DEF Moves
<1>8. ASSUME NEW status \in Ended, NEW valid \in BOOLEAN, Finish(j, status, valid) PROVE Moves(j)
  <2>1. PICK outcome \in Ended : End(j, outcome)
    BY <1>8 DEF Finish, Ended
  <2> QED BY <1>8, <2>1, NewRows DEF Finish, Live, End, Moves, Ends, Learns
<1>9. CASE Age(j)
  BY <1>9, AgedRow DEF Age, Moves, Keeps, Learns
<1>10. CASE Expire(j)
  BY <1>10, PastDeadlineRow DEF Expire, Moves, Keeps, Learns
<1> QED BY <1>1, <1>2, <1>3, <1>4, <1>5, <1>6, <1>7, <1>8, <1>9, <1>10
        DEF JobStep, UserRequest, RuntimeRequest, Clock

LEMMA StepMoves ==
    ASSUME TypeOK, CountedAreAbsent, [Next]_vars, NEW j \in Job
    PROVE  Moves(j)
<1>1. CASE \E i \in Job : JobStep(i)
  BY <1>1, OthersKeep, JobMoves
<1>2. CASE Reap
  <2>1. CASE Lost(j)
    <3>1. "failed" \in Ended
      BY DEF Ended
    <3> QED BY <1>2, <2>1, <3>1, NewRows DEF Reap, Lost, TypeOK, Moves, Ends, Learns
  <2>2. CASE ~Lost(j)
    BY <1>2, <2>2 DEF Reap, TypeOK, Moves, Keeps, Learns
  <2> QED BY <2>1, <2>2
<1>3. CASE Revoke \/ UNCHANGED vars
  BY <1>3 DEF Revoke, vars, Moves, Keeps, Learns
<1> QED BY <1>1, <1>2, <1>3 DEF Next, JobStep

----------------------------------------------------------------------------

(* The records of a job's nodes. *)

LEMMA RecordsStep ==
    ASSUME TypeOK, RecordsFollowJob, NEW j \in Job, Moves(j)
    PROVE  \A n \in Node :
               IF j \in Generation \/ jobs'[j].status \in {"absent", "queued"} THEN nodes'[j][n] = "none"
               ELSE IF jobs'[j].status = "running" THEN nodes'[j][n] \in {"pending", "running", "succeeded", "failed"}
               ELSE nodes'[j][n] \notin {"pending", "running"}
<1> USE DEF TypeOK, RecordsFollowJob
<1>1. CASE Keeps(j)
  BY <1>1 DEF Keeps
<1>2. CASE Queues(j)
  BY <1>2 DEF Queues
<1>3. CASE Claims(j)
  BY <1>3 DEF Claims
<1>4. CASE Starts(j)
  BY <1>4 DEF Starts, Startable
<1>5. CASE Settles(j)
  BY <1>5 DEF Settles
<1>6. CASE Ends(j)
  BY <1>6 DEF Ends, Closed, Ended
<1> QED BY <1>1, <1>2, <1>3, <1>4, <1>5, <1>6 DEF Moves

\* A node that is entered, has been entered along an edge that was taken.
Entered(j, n) == nodes[j][n] \in {"running", "succeeded", "failed", "cancelled"}
Follows(j, n, records, holds) ==
    \/ Kind[n] = "start"
    \/ \E e \in Edge : /\ e.target = n /\ records[e.source] = "succeeded"
                      /\ (e.port = "true" => e.source \in holds)
                      /\ (e.port = "false" => e.source \notin holds)

\* What a node followed, it goes on following: the source of the edge has
\* succeeded, so its record is not written again and its output is known.
LEMMA FollowsStays ==
    ASSUME TypeOK, RecordsFollowJob, NEW j \in Job, Moves(j), NEW n \in Node, Follows(j, n, nodes[j], matched[j])
    PROVE  Follows(j, n, nodes'[j], matched'[j])
<1>1. CASE Kind[n] = "start"
  BY <1>1 DEF Follows
<1>2. ASSUME NEW e \in Edge, e.target = n, nodes[j][e.source] = "succeeded",
             e.port = "true" => e.source \in matched[j], e.port = "false" => e.source \notin matched[j]
      PROVE  Follows(j, n, nodes'[j], matched'[j])
  <2>1. e.source \in Node
    BY WorkflowAssumption DEF WorkflowAssumption, ValidDefinition
  <2>2. nodes'[j][e.source] = "succeeded"
    <3> USE DEF TypeOK, RecordsFollowJob
    <3>1. CASE Keeps(j) \/ Queues(j)
      BY <1>2, <3>1 DEF Keeps, Queues
    <3>2. CASE Claims(j)
      BY <1>2, <2>1, <3>2 DEF Claims
    <3>3. CASE Starts(j)
      BY <1>2, <2>1, <3>3 DEF Starts, Startable
    <3>4. CASE Settles(j)
      BY <1>2, <2>1, <3>4 DEF Settles
    <3>5. CASE Ends(j)
      BY <1>2, <2>1, <3>5 DEF Ends, Closed
    <3> QED BY <3>1, <3>2, <3>3, <3>4, <3>5 DEF Moves
  <2>3. e.source \in matched'[j] <=> e.source \in matched[j]
    BY <1>2, <2>1 DEF Moves, Learns
  <2> QED BY <1>2, <2>2, <2>3 DEF Follows
<1> QED BY <1>1, <1>2 DEF Follows

LEMMA PathStep ==
    ASSUME TypeOK, RecordsFollowJob, NEW j \in Job, Moves(j), NEW n \in Node,
           Entered(j, n) => Follows(j, n, nodes[j], matched[j]),
           nodes'[j][n] \in {"running", "succeeded", "failed", "cancelled"}
    PROVE  Follows(j, n, nodes'[j], matched'[j])
<1> SUFFICES Follows(j, n, nodes[j], matched[j])
  BY FollowsStays
<1> USE DEF TypeOK, Entered
<1>1. CASE Keeps(j) \/ Queues(j)
  BY <1>1 DEF Keeps, Queues
<1>2. CASE Claims(j)
  BY <1>2 DEF Claims
<1>3. CASE Starts(j)
  <2>1. PICK m \in Node : Startable(j, m) /\ nodes'[j] = [nodes[j] EXCEPT ![m] = "running"]
    BY <1>3 DEF Starts
  <2>2. CASE n # m
    BY <2>1, <2>2
  <2>3. CASE n = m
    <3>1. OnPath(j, n)
      BY <2>1, <2>3 DEF Startable
    <3> QED BY <3>1 DEF OnPath, Taken, Follows
  <2> QED BY <2>2, <2>3
<1>4. CASE Settles(j)
  BY <1>4 DEF Settles
<1>5. CASE Ends(j)
  BY <1>5 DEF Ends, Closed
<1> QED BY <1>1, <1>2, <1>3, <1>4, <1>5 DEF Moves

----------------------------------------------------------------------------

LEMMA InitInv ==
    ASSUME Init
    PROVE  IInv
<1>1. TypeOK
  BY NewRows DEF Init, TypeOK, NodeStatus
<1> QED BY <1>1, NewRows DEF Init, IInv, CountedAreAbsent, RecordsFollowJob, NodesFollowPath

LEMMA NextInv ==
    ASSUME IInv, [Next]_vars
    PROVE  IInv'
<1> USE DEF IInv
<1>1. TypeOK'
  BY TypeStep
<1>2. CountedAreAbsent'
  BY CountedStep
<1>3. \A j \in Job : Moves(j)
  BY StepMoves
<1>4. RecordsFollowJob'
  BY <1>3, RecordsStep DEF RecordsFollowJob
<1>5. NodesFollowPath'
  <2> SUFFICES ASSUME NEW j \in Job, NEW n \in Node,
                      nodes'[j][n] \in {"running", "succeeded", "failed", "cancelled"}
               PROVE  Follows(j, n, nodes'[j], matched'[j])
    BY DEF NodesFollowPath, Follows
  <2>1. Entered(j, n) => Follows(j, n, nodes[j], matched[j])
    BY DEF NodesFollowPath, Entered, Follows
  <2> QED BY <1>3, <2>1, PathStep
<1> QED BY <1>1, <1>2, <1>4, <1>5

\* The rows keep their types, a transaction that has counted is about to insert
\* a job that is not there, records are opened by the claim and closed by the
\* end, and nodes follow the path: all of it for any number of jobs, workflows
\* and nodes, and any requests of the runtime in any order.
THEOREM Invariant == Spec => []IInv
<1>1. Init => IInv
  BY InitInv
<1>2. IInv /\ [Next]_vars => IInv'
  BY NextInv
<1> QED BY <1>1, <1>2, PTL DEF Spec

\* closeNodes leaves no open record behind, whichever way a job ends
\* (finish, cancel, reaper), and nothing opens one later.
THEOREM Records == Spec => []RecordsFollowJob
<1>1. IInv => RecordsFollowJob
  BY DEF IInv
<1> QED BY <1>1, Invariant, PTL

\* startNode's NODE_PATH check holds for good: no node has been entered off the
\* path that the outputs of the conditions before it have chosen.
THEOREM Path == Spec => []NodesFollowPath
<1>1. IInv => NodesFollowPath
  BY DEF IInv
<1> QED BY <1>1, Invariant, PTL

\* A job is handed out once and stays as it ended; a node runs once.
THEOREM Forward == Spec => OnlyForward
<1>1. ASSUME IInv, [Next]_vars, NEW j \in Job
      PROVE  jobs[j].status # jobs'[j].status => JobRank(jobs[j].status) < JobRank(jobs'[j].status)
  <2>1. Moves(j)
    BY <1>1, StepMoves DEF IInv
  <2> QED BY <2>1 DEF Moves, Keeps, Queues, Claims, Starts, Settles, Ends, Ended, JobRank
<1>2. ASSUME IInv, [Next]_vars, NEW j \in Job, NEW n \in Node
      PROVE  nodes[j][n] # nodes'[j][n] => NodeRank(nodes[j][n]) < NodeRank(nodes'[j][n])
  <2> USE DEF IInv, TypeOK, NodeRank
  <2>1. Moves(j)
    BY <1>2, StepMoves
  <2>2. CASE Keeps(j) \/ Queues(j)
    BY <2>2 DEF Keeps, Queues
  <2>3. CASE Claims(j)
    <3>1. nodes[j][n] = "none"
      BY <1>2, <2>3 DEF Claims, RecordsFollowJob
    <3>2. nodes'[j][n] \in {"none", "pending"}
      BY <2>3, <3>1 DEF Claims
    <3> QED BY <3>1, <3>2
  <2>4. CASE Starts(j)
    BY <2>4 DEF Starts, Startable
  <2>5. CASE Settles(j)
    BY <2>5 DEF Settles
  <2>6. CASE Ends(j)
    <3>1. nodes'[j][n] = nodes[j][n] \/ nodes[j][n] \in {"pending", "running"}
      BY <2>6 DEF Ends, Closed
    <3>2. nodes[j][n] \in {"pending", "running"} => nodes'[j][n] \in {"skipped", "cancelled", "failed"}
      BY <2>6 DEF Ends, Closed
    <3> QED BY <3>1, <3>2
  <2> QED BY <2>1, <2>2, <2>3, <2>4, <2>5, <2>6 DEF Moves
<1>3. IInv /\ [Next]_vars =>
        [\A j \in Job :
            /\ jobs[j].status # jobs'[j].status => JobRank(jobs[j].status) < JobRank(jobs'[j].status)
            /\ \A n \in Node : nodes[j][n] # nodes'[j][n] => NodeRank(nodes[j][n]) < NodeRank(nodes'[j][n])]_vars
  BY <1>1, <1>2
<1> QED BY <1>3, Invariant, PTL DEF Spec, OnlyForward

----------------------------------------------------------------------------

(* The limit on active jobs.  A transaction that has counted and not yet inserted is one of its *)
(* workflow; all of them may have counted the same jobs.                                        *)

Holding == {w \in Workflow : counted[w] # {}}
OneAtATime == \A w \in Workflow : \A i, j \in counted[w] : i = j
Room == Cardinality(Active) + Cardinality(Holding) < Limit + Cardinality(Workflow)

\* Only an insertion adds an active job.
LEMMA OthersAddNone ==
    ASSUME IInv, [Next]_vars, ~\E j \in Job : Count(j) \/ Insert(j)
    PROVE  Active' \subseteq Active /\ counted' = counted
<1> USE DEF IInv, TypeOK, Active
<1>1. ASSUME NEW j \in Job, JobStep(j) PROVE Active' \subseteq Active /\ counted' = counted
  <2>1. CASE Cancel(j)
    BY <2>1 DEF Cancel, End
  <2>2. CASE RuntimeRequest(j)
    <3>1. \A i \in Job : jobs'[i] = jobs[i] \/ jobs[i].status \in {"queued", "running"}
      BY <2>2 DEF RuntimeRequest, Claim, Renew, StartNode, FinishNode, Finish, End, Live
    <3>2. counted' = counted
      BY <2>2 DEF RuntimeRequest, Claim, Renew, StartNode, FinishNode, Finish
    <3> QED BY <3>1, <3>2
  <2>3. CASE Clock(j)
    BY <2>3 DEF Clock, Age, Expire
  <2> QED BY <1>1, <2>1, <2>2, <2>3 DEF JobStep, UserRequest
<1>2. CASE Reap
  BY <1>2 DEF Reap, Lost
<1>3. CASE Revoke \/ UNCHANGED vars
  BY <1>3 DEF Revoke, vars
<1> QED BY <1>1, <1>2, <1>3 DEF Next, JobStep

LEMMA RoomStep ==
    ASSUME IsFiniteSet(Job), IsFiniteSet(Workflow), IInv, OneAtATime, Room, [Next]_vars
    PROVE  OneAtATime' /\ Room'
<1> USE WorkflowAssumption DEF WorkflowAssumption
<1>1. /\ IsFiniteSet(Active) /\ IsFiniteSet(Active') /\ IsFiniteSet(Holding) /\ IsFiniteSet(Holding')
      /\ Cardinality(Holding') <= Cardinality(Workflow)
  BY FS_Subset DEF Active, Holding
<1>2. /\ Cardinality(Active) \in Nat /\ Cardinality(Active') \in Nat /\ Cardinality(Holding) \in Nat
      /\ Cardinality(Holding') \in Nat /\ Cardinality(Workflow) \in Nat
  BY <1>1, FS_CardinalityType
<1>3. ASSUME NEW j \in Job, Count(j) PROVE OneAtATime' /\ Room'
  <2>1. Active' = Active /\ Cardinality(Active) < Limit
    BY <1>3 DEF Count, CanCount, Active
  <2>2. OneAtATime'
    BY <1>3 DEF Count, CanCount, IInv, TypeOK, OneAtATime
  <2>3. Room'
    BY <1>1, <1>2, <2>1 DEF Room
  <2> QED BY <2>2, <2>3
<1>4. ASSUME NEW j \in Job, Insert(j) PROVE OneAtATime' /\ Room'
  <2> DEFINE w == WorkflowOf[j]
  <2>1. w \in Workflow /\ counted[w] = {j} /\ counted'[w] = {}
        /\ \A v \in Workflow : v # w => counted'[v] = counted[v]
    BY <1>4 DEF Insert, IInv, TypeOK, OneAtATime
  <2>2. OneAtATime'
    BY <2>1 DEF OneAtATime
  <2>3. Holding' = Holding \ {w} /\ w \in Holding
    BY <2>1 DEF Holding
  <2>4. Cardinality(Holding') = Cardinality(Holding) - 1
    BY <1>1, <2>3, FS_RemoveElement
  <2>5. Active' \subseteq Active \cup {j}
    BY <1>4 DEF Insert, IInv, TypeOK, Active
  <2>6. IsFiniteSet(Active \cup {j}) /\ Cardinality(Active \cup {j}) \in {Cardinality(Active), Cardinality(Active) + 1}
    BY <1>1, FS_AddElement
  <2>7. Cardinality(Active') <= Cardinality(Active \cup {j})
    BY <2>5, <2>6, FS_Subset
  <2>8. Cardinality(Active') <= Cardinality(Active) + 1
    BY <1>2, <2>6, <2>7
  <2> QED BY <1>2, <2>2, <2>4, <2>8 DEF Room
<1>5. CASE ~\E j \in Job : Count(j) \/ Insert(j)
  <2>1. Active' \subseteq Active /\ counted' = counted
    BY <1>5, OthersAddNone
  <2>2. OneAtATime' /\ Holding' = Holding
    BY <2>1 DEF OneAtATime, Holding
  <2>3. Cardinality(Active') <= Cardinality(Active)
    BY <1>1, <2>1, FS_Subset
  <2> QED BY <1>2, <2>2, <2>3 DEF Room
<1> QED BY <1>3, <1>4, <1>5

\* The project's limit on active jobs is counted under the lock of one workflow (workflows.ts,
\* enqueue): however many jobs and workflows there are, it is passed by less than one job per workflow.
THEOREM LimitIsBounded ==
    ASSUME IsFiniteSet(Job), IsFiniteSet(Workflow)
    PROVE  Spec => []ActiveJobsBounded
<1>1. Init => IInv /\ OneAtATime /\ Room
  <2> SUFFICES ASSUME Init PROVE OneAtATime /\ Room
    BY InitInv
  <2>1. Active = {} /\ Holding = {}
    BY NewRows DEF Init, Active, Holding
  <2>2. Cardinality(Active) = 0 /\ Cardinality(Holding) = 0 /\ Cardinality(Workflow) \in Nat
    BY <2>1, FS_EmptySet, FS_CardinalityType
  <2>3. OneAtATime
    BY DEF Init, OneAtATime
  <2> QED BY <2>2, <2>3, WorkflowAssumption DEF Room, WorkflowAssumption
<1>2. IInv /\ OneAtATime /\ Room /\ [Next]_vars => (IInv /\ OneAtATime /\ Room)'
  BY NextInv, RoomStep
<1>3. IInv /\ Room => ActiveJobsBounded
  <2> SUFFICES ASSUME Room PROVE ActiveJobsBounded
    OBVIOUS
  <2>1. IsFiniteSet(Active) /\ IsFiniteSet(Holding)
    BY FS_Subset DEF Active, Holding
  <2>2. Cardinality(Active) \in Nat /\ Cardinality(Holding) \in Nat /\ Cardinality(Workflow) \in Nat
    BY <2>1, FS_CardinalityType
  <2> QED BY <2>2, WorkflowAssumption DEF Room, ActiveJobsBounded, WorkflowAssumption
<1> QED BY <1>1, <1>2, <1>3, PTL DEF Spec

\* Both together: for any finite number of jobs and workflows a job's rows tell one story and the queue is bounded.
THEOREM JobsStand ==
    ASSUME IsFiniteSet(Job), IsFiniteSet(Workflow)
    PROVE  Spec => []JobsAreKept
<1>1. Spec => []IInv
  BY Invariant
<1>2. Spec => []ActiveJobsBounded
  BY LimitIsBounded
<1>3. IInv /\ ActiveJobsBounded => JobsAreKept
  BY DEF JobsAreKept
<1> QED BY <1>1, <1>2, <1>3, PTL

----------------------------------------------------------------------------

(* A success is a whole path.  The definition first: one start, one way into every other node, one *)
(* edge for every port.                                                                            *)

LEMMA OneStart ==
    ASSUME IsFiniteSet(Node)
    PROVE  \E s \in Node : StartNodes = {s}
<1>1. IsFiniteSet(StartNodes) /\ Cardinality(StartNodes) = 1
  BY FS_Subset, WorkflowAssumption DEF WorkflowAssumption, ValidDefinition, StartNodes
<1>2. PICK s : StartNodes = {s}
  BY <1>1, FS_Singleton
<1>3. s \in Node
  BY <1>2 DEF StartNodes
<1> QED BY <1>2, <1>3

LEMMA EdgesJoinNodes ==
    ASSUME NEW e \in Edge
    PROVE  e.source \in Node /\ e.target \in Node /\ e.source # e.target /\ e \in Edges(e.source)
<1>1. e.source \in Node /\ e.target \in Node
  BY WorkflowAssumption DEF WorkflowAssumption, ValidDefinition
<1>2. PICK depth \in [Node -> 0..24] : \A f \in Edge : depth[f.target] = depth[f.source] + 1
  BY WorkflowAssumption DEF WorkflowAssumption, ValidDefinition
<1>3. depth[e.source] \in 0..24
  BY <1>1
<1>4. e.source # e.target
  BY <1>2, <1>3
<1> QED BY <1>1, <1>4 DEF Edges

LEMMA OneWayIn ==
    ASSUME IsFiniteSet(Edge), NEW e \in Edge, NEW f \in Edge, e.target = f.target
    PROVE  e = f /\ Kind[e.target] # "start"
<1> DEFINE In == {g \in Edge : g.target = e.target}
<1>1. e.target \in Node
  BY EdgesJoinNodes
<1>2. IsFiniteSet(In) /\ e \in In /\ f \in In
  BY FS_Subset
<1>3. Cardinality(In) = IF Kind[e.target] = "start" THEN 0 ELSE 1
  BY <1>1, WorkflowAssumption DEF WorkflowAssumption, ValidDefinition
<1>4. Kind[e.target] # "start"
  BY <1>2, <1>3, FS_EmptySet
<1>5. \E x : In = {x}
  BY <1>2, <1>3, <1>4, FS_Singleton
<1> QED BY <1>2, <1>4, <1>5

LEMMA OneEdgePerPort ==
    ASSUME IsFiniteSet(Edge), NEW e \in Edge, NEW f \in Edge, e.source = f.source, e.port = f.port
    PROVE  e = f
<1> DEFINE n == e.source
<1>1. n \in Node /\ IsFiniteSet(Edges(n)) /\ e \in Edges(n) /\ f \in Edges(n)
  BY EdgesJoinNodes, FS_Subset DEF Edges
<1>2. {g.port : g \in Edges(n)} = Ports(Kind[n]) /\ Cardinality(Edges(n)) = Cardinality(Ports(Kind[n]))
  BY <1>1, WorkflowAssumption DEF WorkflowAssumption, ValidDefinition
<1> HIDE DEF n
<1>3. CASE Kind[n] = "end"
  BY <1>1, <1>2, <1>3 DEF Ports
<1>4. CASE Kind[n] = "condition"
  <2>1. Ports(Kind[n]) = {"true", "false"}
    BY <1>4 DEF Ports
  <2>2. Cardinality(Edges(n)) = 2
    <3>1. {"true", "false"} = {"true"} \cup {"false"}
      OBVIOUS
    <3>2. IsFiniteSet({"true"}) /\ Cardinality({"true"}) = 1 /\ "false" \notin {"true"}
      BY FS_Singleton
    <3>3. Cardinality({"true"} \cup {"false"}) = Cardinality({"true"}) + 1
      BY <3>2, FS_AddElement, Zenon
    <3>4. Cardinality({"true"} \cup {"false"}) = 2
      BY <3>2, <3>3
    <3> QED BY <1>2, <2>1, <3>1, <3>4
  <2>3. PICK g \in Edges(n) : g.port # e.port
    BY <1>2, <2>1
  <2>4. IsFiniteSet(Edges(n) \ {g}) /\ Cardinality(Edges(n) \ {g}) = 1
    BY <1>1, <2>2, FS_RemoveElement
  <2>5. \E x : Edges(n) \ {g} = {x}
    BY <2>4, FS_Singleton
  <2>6. e \in Edges(n) \ {g} /\ f \in Edges(n) \ {g}
    BY <1>1, <2>3
  <2> QED BY <2>5, <2>6
<1>5. CASE Kind[n] \notin {"end", "condition"}
  <2>1. Cardinality(Edges(n)) = 1
    BY <1>2, <1>5, FS_Singleton DEF Ports
  <2>2. \E x : Edges(n) = {x}
    BY <1>1, <2>1, FS_Singleton
  <2> QED BY <1>1, <2>2
<1> QED BY <1>3, <1>4, <1>5

LEMMA EndsLeadNowhere ==
    ASSUME NEW n \in Node, Kind[n] = "end"
    PROVE  Edges(n) = {}
<1>1. {e.port : e \in Edges(n)} = {}
  BY WorkflowAssumption DEF WorkflowAssumption, ValidDefinition, Ports
<1> QED BY <1>1

\* Of the edges that leave a node, one at most is taken: its port asks for what the node has put out.
LEMMA OneWayOut ==
    ASSUME IsFiniteSet(Edge), NEW j \in Job, NEW e \in Edge, NEW f \in Edge, e.source = f.source,
           Taken(j, e), Taken(j, f)
    PROVE  e = f
<1>1. e.port \in Ports(Kind[e.source]) /\ f.port \in Ports(Kind[e.source])
  <2>1. e.source \in Node /\ e \in Edges(e.source) /\ f \in Edges(e.source)
    BY EdgesJoinNodes
  <2> QED BY <2>1, WorkflowAssumption DEF WorkflowAssumption, ValidDefinition
<1>2. e.port = f.port
  <2>1. CASE Kind[e.source] = "condition"
    BY <1>1, <2>1 DEF Ports, Taken
  <2>2. CASE Kind[e.source] # "condition"
    BY <1>1, <2>2 DEF Ports
  <2> QED BY <2>1, <2>2
<1> QED BY <1>2, OneEdgePerPort

----------------------------------------------------------------------------

(* The nodes an execution has come to are one path, which ends in the node it is at: every other one *)
(* has succeeded and was left along one edge.                                                        *)

Reached(j) == {n \in Node : nodes[j][n] \in {"running", "succeeded", "failed"}}
LeftAlong(j, n, e) == e.target \in Reached(j) /\ \A f \in Edges(n) : f.target \in Reached(j) => f = e
IsAt(j, last) ==
    /\ StartNodes \subseteq Reached(j)
    /\ \A n \in Reached(j) \ {last} : nodes[j][n] = "succeeded" /\ \E e \in Edges(n) : LeftAlong(j, n, e)
    /\ \A e \in Edges(last) : e.target \notin Reached(j)
OnePath(j) == Reached(j) = {} \/ \E last \in Reached(j) : IsAt(j, last)
Underway == \A j \in Job : jobs[j].status = "running" => OnePath(j)

\* A node is started at the end of the path: what it follows has been taken, and of a node that was left before, the edge
\* it was left along would be another one that is taken.
LEMMA StartGoesOn ==
    ASSUME IsFiniteSet(Node), IsFiniteSet(Edge), IInv, NEW j \in Job, OnePath(j),
           NEW n \in Node, Startable(j, n), nodes'[j] = [nodes[j] EXCEPT ![n] = "running"]
    PROVE  OnePath(j)'
<1> USE DEF IInv, TypeOK
<1>1. nodes[j][n] = "pending" /\ n \notin Reached(j)
  BY DEF Startable, Reached
<1>2. Reached(j)' = Reached(j) \cup {n}
  BY <1>1 DEF Reached
<1>3. \A m \in Reached(j) : nodes[j][m] = "succeeded" /\ nodes'[j][m] = "succeeded"
  BY <1>1 DEF Startable, Reached
<1>4. \A e \in Edges(n) : e.target \notin Reached(j)'
  <2> SUFFICES ASSUME NEW e \in Edges(n), e.target \in Reached(j) PROVE FALSE
    BY <1>2, EdgesJoinNodes DEF Edges
  <2>1. e \in Edge /\ e.source = n
    BY DEF Edges
  <2>2. Kind[e.target] # "start"
    BY <2>1, OneWayIn
  <2>3. PICK f \in Edge : f.target = e.target /\ nodes[j][f.source] = "succeeded"
    BY <2>1, <2>2, EdgesJoinNodes DEF NodesFollowPath, Reached
  <2>4. f = e
    BY <2>1, <2>3, OneWayIn
  <2> QED BY <1>1, <2>1, <2>3, <2>4
<1>5. CASE Kind[n] = "start"
  <2>1. StartNodes = {n}
    BY <1>5, OneStart DEF StartNodes
  <2>2. Reached(j) = {}
    BY <1>1, <2>1 DEF OnePath, IsAt
  <2>3. IsAt(j, n)'
    BY <1>2, <1>4, <2>1, <2>2 DEF IsAt
  <2> QED BY <1>2, <2>3 DEF OnePath
<1>6. CASE Kind[n] # "start"
  <2>1. PICK e \in Edge : e.target = n /\ Taken(j, e)
    BY <1>6 DEF Startable, OnPath
  <2>2. e.source \in Reached(j) /\ e \in Edges(e.source)
    BY <2>1, EdgesJoinNodes DEF Taken, Reached
  <2>3. PICK last \in Reached(j) : IsAt(j, last)
    BY <2>2 DEF OnePath
  <2>4. e.source = last
    <3> SUFFICES ASSUME e.source # last PROVE FALSE
      OBVIOUS
    <3>1. PICK f \in Edges(e.source) : LeftAlong(j, e.source, f)
      BY <2>2, <2>3 DEF IsAt
    <3>2. f \in Edge /\ f.source = e.source /\ f.target \in Reached(j) /\ f.target \in Node
      BY <3>1 DEF Edges, LeftAlong, Reached
    <3>3. Kind[f.target] # "start"
      BY <3>2, OneWayIn
    <3>4. PICK g \in Edge : /\ g.target = f.target /\ nodes[j][g.source] = "succeeded"
                            /\ (g.port = "true" => g.source \in matched[j])
                            /\ (g.port = "false" => g.source \notin matched[j])
      BY <3>2, <3>3 DEF NodesFollowPath, Reached
    <3>5. g = f
      BY <3>2, <3>4, OneWayIn
    <3>6. f.port \in Port
      BY <3>2, WorkflowAssumption DEF WorkflowAssumption, ValidDefinition
    <3>7. Taken(j, f)
      BY <3>4, <3>5, <3>6 DEF Taken, Port
    <3>8. f = e
      BY <2>1, <3>2, <3>7, OneWayOut
    <3> QED BY <1>1, <2>1, <3>2, <3>8
  <2>5. \A m \in Reached(j) : \A f \in Edges(m) : f.target = n => m = last /\ f = e
    <3> SUFFICES ASSUME NEW m \in Reached(j), NEW f \in Edges(m), f.target = n PROVE m = last /\ f = e
      OBVIOUS
    <3>1. f \in Edge /\ f.source = m
      BY DEF Edges
    <3>2. f = e
      BY <2>1, <3>1, OneWayIn
    <3> QED BY <2>4, <3>1, <3>2
  <2>6. \A m \in Reached(j)' \ {n} : nodes'[j][m] = "succeeded" /\ \E f \in Edges(m) : LeftAlong(j, m, f)'
    <3> SUFFICES ASSUME NEW m \in Reached(j) PROVE \E f \in Edges(m) : LeftAlong(j, m, f)'
      BY <1>2, <1>3
    <3>1. CASE m = last
      <4>1. \A f \in Edges(m) : f.target \in Reached(j)' => f.target = n
        BY <1>2, <2>3, <3>1 DEF IsAt
      <4>2. LeftAlong(j, m, e)'
        BY <1>2, <2>1, <2>5, <4>1 DEF LeftAlong
      <4> QED BY <2>2, <2>4, <3>1, <4>2
    <3>2. CASE m # last
      <4>1. PICK f \in Edges(m) : LeftAlong(j, m, f)
        BY <2>3, <3>2 DEF IsAt
      <4>2. LeftAlong(j, m, f)'
        BY <1>2, <2>5, <3>2, <4>1 DEF LeftAlong
      <4> QED BY <4>1, <4>2
    <3> QED BY <3>1, <3>2
  <2>7. IsAt(j, n)'
    BY <1>2, <1>4, <2>3, <2>6 DEF IsAt
  <2> QED BY <1>2, <2>7 DEF OnePath
<1> QED BY <1>5, <1>6

\* A node that ends is the last one: all others have ended already.
LEMMA EndStays ==
    ASSUME IInv, NEW j \in Job, OnePath(j), NEW n \in Node, NEW status \in {"succeeded", "failed"},
           nodes[j][n] = "running", nodes'[j] = [nodes[j] EXCEPT ![n] = status]
    PROVE  OnePath(j)'
<1>1. Reached(j)' = Reached(j) /\ n \in Reached(j) /\ \A m \in Reached(j) \ {n} : nodes'[j][m] = nodes[j][m]
  BY DEF Reached, IInv, TypeOK
<1>2. IsAt(j, n)
  BY <1>1 DEF OnePath, IsAt
<1>3. IsAt(j, n)'
  BY <1>1, <1>2 DEF IsAt, LeftAlong
<1> QED BY <1>1, <1>3 DEF OnePath

LEMMA UnderwayStep ==
    ASSUME IsFiniteSet(Node), IsFiniteSet(Edge), IInv, Underway, [Next]_vars
    PROVE  Underway'
<1> SUFFICES ASSUME NEW j \in Job, jobs'[j].status = "running" PROVE OnePath(j)'
  BY DEF Underway
<1>1. Moves(j)
  BY StepMoves DEF IInv
<1>2. CASE Keeps(j)
  BY <1>2 DEF Keeps, Underway, OnePath, IsAt, LeftAlong, Reached
<1>3. CASE Claims(j)
  <2>1. Reached(j)' = {}
    BY <1>3 DEF Claims, Reached, IInv, RecordsFollowJob
  <2> QED BY <2>1 DEF OnePath
<1>4. CASE Starts(j)
  BY <1>4, StartGoesOn DEF Starts, Underway
<1>5. CASE Settles(j)
  BY <1>5, EndStays DEF Settles, Underway
<1>6. CASE Queues(j) \/ Ends(j)
  BY <1>6 DEF Queues, Ends, Ended
<1> QED BY <1>1, <1>2, <1>3, <1>4, <1>5, <1>6 DEF Moves

\* An execution becomes a success only behind finish's own look at its records.
LEMMA SuccessIsChecked ==
    ASSUME IInv, [Next]_vars, NEW j \in Job \ Generation,
           jobs'[j].status = "succeeded", jobs[j].status # "succeeded"
    PROVE  jobs[j].status = "running" /\ Complete(j) /\ nodes'[j] = Closed(j, "succeeded")
<1> USE DEF IInv, TypeOK
<1>1. ASSUME NEW i \in Job, JobStep(i)
      PROVE  \E status \in Ended, valid \in BOOLEAN : Finish(j, status, valid) /\ status = "succeeded"
  <2>1. i = j
    BY <1>1, OthersKeep DEF JobStep, UserRequest, RuntimeRequest, Clock, Count, Insert, Cancel, Claim, Renew, Age,
       Expire, StartNode, FinishNode, Finish, End
  <2>2. CASE UserRequest(j)
    BY <2>2, NewRows DEF UserRequest, Count, Insert, Cancel, End, Ended
  <2>3. CASE Clock(j)
    BY <2>3, AgedRow, PastDeadlineRow DEF Clock, Age, Expire
  <2>4. CASE RuntimeRequest(j)
    <3>1. CASE Claim(j) \/ Renew(j)
      BY <3>1, NewRows, RenewedRow DEF Claim, Renew
    <3>2. ASSUME NEW status \in Ended, NEW valid \in BOOLEAN, Finish(j, status, valid) PROVE status = "succeeded"
      BY <3>2, NewRows DEF Finish, End
    <3> QED BY <2>4, <3>1, <3>2 DEF RuntimeRequest, StartNode, FinishNode
  <2> QED BY <1>1, <2>1, <2>2, <2>3, <2>4 DEF JobStep
<1>2. ~Reap
  BY NewRows DEF Reap, Ended
<1>3. \E status \in Ended, valid \in BOOLEAN : Finish(j, status, valid) /\ status = "succeeded"
  BY <1>1, <1>2 DEF Next, JobStep, Revoke, vars
<1> QED BY <1>3 DEF Finish, End, Live

\* What finish has looked at is a whole path: the one end that succeeded is where it is at.
LEMMA CompleteIsWhole ==
    ASSUME IsFiniteSet(Node), IsFiniteSet(Edge), IInv, NEW j \in Job \ Generation, jobs[j].status = "running",
           OnePath(j), Complete(j), nodes'[j] = Closed(j, "succeeded")
    PROVE  /\ \A n \in Node : nodes'[j][n] \in {"succeeded", "skipped"}
           /\ \A n \in StartNodes : nodes'[j][n] = "succeeded"
           /\ \A n \in Node : nodes'[j][n] = "succeeded" /\ Kind[n] # "end" =>
                  Cardinality({e \in Edges(n) : nodes'[j][e.target] = "succeeded"}) = 1
<1>1. \A n \in Node : /\ nodes[j][n] \in {"pending", "succeeded"}
                      /\ nodes'[j][n] = IF nodes[j][n] = "pending" THEN "skipped" ELSE "succeeded"
  <2> SUFFICES ASSUME NEW n \in Node
               PROVE  /\ nodes[j][n] \in {"pending", "succeeded"}
                      /\ nodes'[j][n] = IF nodes[j][n] = "pending" THEN "skipped" ELSE "succeeded"
    OBVIOUS
  <2>1. nodes[j][n] \in {"pending", "succeeded"}
    BY DEF Complete, IInv, RecordsFollowJob
  <2> QED BY <2>1 DEF Closed
<1>2. Reached(j) = {n \in Node : nodes'[j][n] = "succeeded"}
  BY <1>1 DEF Reached
<1>3. PICK end \in Node : Kind[end] = "end" /\ nodes[j][end] = "succeeded"
  <2> DEFINE Last == {n \in Node : Kind[n] = "end" /\ nodes[j][n] = "succeeded"}
  <2>1. Cardinality(Last) = 1
    BY DEF Complete
  <2>2. Last # {}
    BY <2>1, FS_EmptySet
  <2> QED BY <2>2
<1>4. end \in Reached(j)
  BY <1>3 DEF Reached
<1>5. PICK last \in Reached(j) : IsAt(j, last)
  BY <1>4 DEF OnePath
<1>6. last = end
  BY <1>3, <1>4, <1>5, EndsLeadNowhere DEF IsAt
<1>7. ASSUME NEW n \in Reached(j), Kind[n] # "end"
      PROVE  Cardinality({e \in Edges(n) : nodes'[j][e.target] = "succeeded"}) = 1
  <2>1. PICK e \in Edges(n) : LeftAlong(j, n, e)
    BY <1>3, <1>5, <1>6, <1>7 DEF IsAt
  <2>2. {f \in Edges(n) : nodes'[j][f.target] = "succeeded"} = {e}
    <3>1. \A f \in Edges(n) : f.target \in Node
      BY EdgesJoinNodes DEF Edges
    <3> QED BY <1>2, <2>1, <3>1 DEF LeftAlong
  <2> QED BY <2>2, FS_Singleton
<1>8. StartNodes \subseteq Reached(j)
  BY <1>5 DEF IsAt
<1> QED BY <1>1, <1>2, <1>7, <1>8

LEMMA SuccessStep ==
    ASSUME IsFiniteSet(Node), IsFiniteSet(Edge), IInv, Underway, SuccessIsComplete, [Next]_vars
    PROVE  SuccessIsComplete'
<1> SUFFICES ASSUME NEW j \in Job \ Generation, jobs'[j].status = "succeeded"
             PROVE  /\ \A n \in Node : nodes'[j][n] \in {"succeeded", "skipped"}
                    /\ \A n \in StartNodes : nodes'[j][n] = "succeeded"
                    /\ \A n \in Node : nodes'[j][n] = "succeeded" /\ Kind[n] # "end" =>
                           Cardinality({e \in Edges(n) : nodes'[j][e.target] = "succeeded"}) = 1
  BY DEF SuccessIsComplete
<1>1. CASE jobs[j].status = "succeeded"
  <2>1. nodes'[j] = nodes[j]
    BY <1>1, StepMoves DEF IInv, Moves, Keeps, Queues, Claims, Starts, Settles, Ends
  <2> QED BY <1>1, <2>1 DEF SuccessIsComplete
<1>2. CASE jobs[j].status # "succeeded"
  <2>1. jobs[j].status = "running" /\ Complete(j) /\ nodes'[j] = Closed(j, "succeeded")
    BY <1>2, SuccessIsChecked
  <2>2. OnePath(j)
    BY <2>1 DEF Underway
  <2> QED BY <2>1, <2>2, CompleteIsWhole
<1> QED BY <1>1, <1>2

\* An execution that is reported as succeeded went from the start along one branch of every condition to
\* one end: finish only counts what ended, startNode only looks at one edge, and together they suffice
\* (queue.ts), for any finite definition and any requests of the runtime.
THEOREM SuccessesAreWhole ==
    ASSUME IsFiniteSet(Node), IsFiniteSet(Edge)
    PROVE  Spec => []SuccessIsComplete
<1>1. Init => IInv /\ Underway /\ SuccessIsComplete
  BY InitInv, NewRows DEF Init, Underway, SuccessIsComplete
<1>2. IInv /\ Underway /\ SuccessIsComplete /\ [Next]_vars => (IInv /\ Underway /\ SuccessIsComplete)'
  BY NextInv, UnderwayStep, SuccessStep
<1> QED BY <1>1, <1>2, PTL DEF Spec

----------------------------------------------------------------------------

(* The queue is the queue. *)

LEMMA StepIsQueueStep == ASSUME [AssetNext]_assetVars PROVE [Next]_vars
<1> USE DEF JobStep, UserRequest, RuntimeRequest
<1>1. ASSUME NEW p \in Person, Author(p) PROVE UNCHANGED vars
  BY <1>1 DEF Author, Open, Publish, Save
<1>2. ASSUME NEW p \in Person, NEW j \in Generation, Accept(p, j) PROVE UNCHANGED vars
  BY <1>2 DEF Accept
<1>3. ASSUME NEW p \in Person, NEW j \in Generation, Generate(p, j) PROVE Count(j) /\ j \in Job
  BY <1>3, WorkflowAssumption DEF Generate, WorkflowAssumption
<1>4. ASSUME NEW j \in Job, Execute(j) PROVE Count(j)
  BY <1>4 DEF Execute
<1>5. ASSUME NEW j \in Generation, NEW status \in Ended, NEW valid \in BOOLEAN, NEW d \in Definition,
             Deliver(j, status, valid, d)
      PROVE  Finish(j, status, valid) /\ j \in Job
  BY <1>5, WorkflowAssumption DEF Deliver, WorkflowAssumption
<1>6. ASSUME NEW j \in Job, QueueRequest(j) PROVE JobStep(j)
  BY <1>6 DEF QueueRequest
<1>7. (\E j \in Job : JobStep(j)) \/ Reap \/ Revoke => Next
  BY DEF Next
<1>8. CASE AssetStep
  BY <1>1, <1>2, <1>3, <1>4, <1>5, <1>7, <1>8 DEF AssetStep
<1>9. CASE QueueStep
  BY <1>6, <1>7, <1>9 DEF QueueStep
<1>10. CASE UNCHANGED assetVars
  BY <1>10 DEF assetVars
<1> QED BY <1>8, <1>9, <1>10 DEF AssetNext

\* Whatever is saved, published, generated or accepted, the jobs behave as WorkflowQueue says
\* (workflows.ts and queue.ts share their tables, and only the queue's transactions write its rows).
THEOREM AssetsAreAQueue == AssetSpec => Spec
<1>1. AssetInit => Init
  BY DEF AssetInit
<1>2. [AssetNext]_assetVars => [Next]_vars
  BY StepIsQueueStep
<1> QED BY <1>1, <1>2, PTL DEF AssetSpec, Spec

\* The records of jobs follow their job and their path, with drafts and releases beside them.
THEOREM AssetInvariant == AssetSpec => []IInv
  BY AssetsAreAQueue, Invariant, PTL

\* A job is handed out once and stays as it ended, and a node runs once, with drafts and releases
\* beside them.
THEOREM AssetForward == AssetSpec => OnlyForward
  BY AssetsAreAQueue, Forward, PTL

----------------------------------------------------------------------------

(* What is saved stands.  The invariant says besides that a candidate is one, that a version's
   revision exists, and that an execution's version was there before it was counted. *)

RevisionRows == [definition : Definition, from : SUBSET Generation, over : Nat]
VersionRows == [definition : Definition, revision : Nat]

AssetTypes ==
    /\ drafts \in [Workflow -> Seq(RevisionRows)]
    /\ \A w \in Workflow : Revision(w) > 0
    /\ releases \in [Workflow -> Seq(VersionRows)]
    /\ requests \in [Job -> Nat]
    /\ candidates \in [Generation -> SUBSET Definition]
    /\ accepted \in [Generation -> Nat]
    /\ seen \in [Person -> Nat]

InFullView == \A w \in Workflow : \A i \in 2..Revision(w) : drafts[w][i].over = i - 1
AcceptedOnce ==
    \A w \in Workflow, j \in Generation :
        {i \in 1..Revision(w) : j \in drafts[w][i].from} = (IF WorkflowOf[j] = w THEN {accepted[j]} ELSE {}) \ {0}
AcceptedAsDelivered ==
    \A j \in Generation : accepted[j] # 0 => /\ jobs[j].status = "succeeded"
                                             /\ candidates[j] = {drafts[WorkflowOf[j]][accepted[j]].definition}
OneCandidate == \A j \in Generation : \A d, e \in candidates[j] : d = e
VersionsStand ==
    \A w \in Workflow : \A v \in 1..Version(w) :
        /\ releases[w][v].revision \in 1..Revision(w)
        /\ releases[w][v].definition = drafts[w][releases[w][v].revision].definition
        /\ releases[w][v].definition \in Valid
        /\ v > 1 => /\ releases[w][v].definition # releases[w][v - 1].definition
                    /\ releases[w][v].revision > releases[w][v - 1].revision
RunsHaveVersions ==
    \A j \in Job \ Generation :
        jobs[j].status # "absent" \/ j \in counted[WorkflowOf[j]] => requests[j] \in 1..Version(WorkflowOf[j])

AssetInv == /\ IInv /\ AssetTypes /\ InFullView /\ AcceptedOnce /\ AcceptedAsDelivered
            /\ OneCandidate /\ VersionsStand /\ RunsHaveVersions

LEMMA InitAssetInv == AssetInit => AssetInv
<1> SUFFICES ASSUME AssetInit PROVE AssetInv
  OBVIOUS
<1> USE AssetsAssumption, WorkflowAssumption DEF AssetsAssumption, WorkflowAssumption, AssetInit
<1>1. IInv
  BY InitInv
<1>2. RevisionRow(First, {}, 0) \in RevisionRows /\ RevisionRow(First, {}, 0).from = {}
  BY DEF RevisionRow, RevisionRows
<1>3. \A w \in Workflow : drafts[w] \in Seq(RevisionRows) /\ Revision(w) = 1 /\ drafts[w][1] = RevisionRow(First, {}, 0)
  BY <1>2 DEF Revision
<1>4. AssetTypes
  <2>1. drafts \in [Workflow -> Seq(RevisionRows)]
    BY <1>2
  <2>2. releases \in [Workflow -> Seq(VersionRows)]
    OBVIOUS
  <2> QED BY <1>3, <2>1, <2>2 DEF AssetTypes
<1>5. AcceptedOnce
  BY <1>2, <1>3 DEF AcceptedOnce
<1>6. InFullView
  BY <1>3 DEF InFullView
<1>7. AcceptedAsDelivered /\ OneCandidate
  BY DEF AcceptedAsDelivered, OneCandidate
<1>8. VersionsStand
  BY DEF VersionsStand, Version
<1>9. RunsHaveVersions
  BY NewRows DEF RunsHaveVersions, Init
<1> QED BY <1>1, <1>4, <1>5, <1>6, <1>7, <1>8, <1>9 DEF AssetInv

\* A sequence and what is appended to it.
LEMMA Appended ==
    ASSUME NEW S, NEW s \in Seq(S), NEW x \in S
    PROVE  /\ Append(s, x) \in Seq(S) /\ Len(Append(s, x)) = Len(s) + 1
           /\ \A i \in 1..Len(s) : Append(s, x)[i] = s[i] /\ Append(s, x)[i] \in S
           /\ Append(s, x)[Len(s) + 1] = x
  OBVIOUS

\* What a revision leaves of the drafts.
LEMMA Revised ==
    ASSUME AssetTypes, NEW w \in Workflow, NEW row \in RevisionRows, Revise(w, row)
    PROVE  /\ drafts' \in [Workflow -> Seq(RevisionRows)]
           /\ \A v \in Workflow : v # w => drafts'[v] = drafts[v]
           /\ Len(drafts'[w]) = Revision(w) + 1
           /\ \A i \in 1..Revision(w) : drafts'[w][i] = drafts[w][i]
           /\ drafts'[w][Revision(w) + 1] = row
  BY Appended DEF AssetTypes, Revise, Revision

----------------------------------------------------------------------------

(* One step. *)

\* A revision more, over the one before it.
LEMMA RevisionKeepsView ==
    ASSUME AssetTypes, InFullView, NEW w \in Workflow, NEW row \in RevisionRows, Revise(w, row),
           row.over = Revision(w)
    PROVE  InFullView' /\ \A v \in Workflow : Revision(v)' > 0
<1> USE Revised DEF Revision, AssetTypes
<1>1. \A v \in Workflow : Len(drafts[v]) \in Nat /\ Len(drafts'[v]) \in Nat
  BY Appended
<1>2. ASSUME NEW v \in Workflow, NEW i \in 2..Len(drafts'[v])
      PROVE  drafts'[v][i].over = i - 1
  <2>1. CASE v # w
    BY <1>2, <2>1 DEF InFullView
  <2>2. CASE v = w /\ i \in 1..Len(drafts[w])
    BY <1>1, <1>2, <2>2, SMTT(30) DEF InFullView
  <2>3. CASE v = w /\ i = Len(drafts[w]) + 1
    BY <2>3
  <2> QED BY <1>1, <1>2, <2>1, <2>2, <2>3
<1>3. ASSUME NEW v \in Workflow PROVE Len(drafts'[v]) > 0
  <2>1. CASE v # w
    BY <2>1
  <2>2. CASE v = w
    BY <1>1, <2>2
  <2> QED BY <2>1, <2>2
<1> QED BY <1>2, <1>3 DEF InFullView

\* Versions rest on revisions that are there, which no later revision changes.
LEMMA RevisionKeepsVersions ==
    ASSUME AssetTypes, VersionsStand, NEW w \in Workflow, NEW row \in RevisionRows, Revise(w, row),
           releases' = releases
    PROVE  VersionsStand'
<1> USE Revised DEF Revision, Version, AssetTypes
<1>1. \A v \in Workflow : Len(drafts[v]) \in Nat /\ Len(drafts'[v]) \in Nat
  BY Appended
<1>2. ASSUME NEW v \in Workflow, NEW i \in 1..Len(drafts[v])
      PROVE  i \in 1..Len(drafts'[v]) /\ drafts'[v][i] = drafts[v][i]
  <2>1. CASE v # w
    BY <2>1
  <2>2. CASE v = w
    BY <1>1, <2>2
  <2> QED BY <2>1, <2>2
<1>3. ASSUME NEW u \in Workflow, NEW x \in 1..Len(releases[u])
      PROVE  /\ releases[u][x].revision \in 1..Len(drafts'[u])
             /\ releases[u][x].definition = drafts'[u][releases[u][x].revision].definition
             /\ releases[u][x].definition \in Valid
             /\ x > 1 => /\ releases[u][x].definition # releases[u][x - 1].definition
                         /\ releases[u][x].revision > releases[u][x - 1].revision
  <2>1. /\ releases[u][x].revision \in 1..Len(drafts[u])
        /\ releases[u][x].definition = drafts[u][releases[u][x].revision].definition
        /\ releases[u][x].definition \in Valid
        /\ x > 1 => /\ releases[u][x].definition # releases[u][x - 1].definition
                    /\ releases[u][x].revision > releases[u][x - 1].revision
    BY DEF VersionsStand
  <2>2. /\ releases[u][x].revision \in 1..Len(drafts'[u])
        /\ drafts'[u][releases[u][x].revision] = drafts[u][releases[u][x].revision]
    BY <1>2, <2>1
  <2> HIDE DEF Revised, Revision, Version, AssetTypes
  <2> QED BY <2>1, <2>2
<1> HIDE DEF Revised, AssetTypes
<1> QED BY <1>3 DEF VersionsStand, Revision, Version

\* The revisions that came from a candidate.
From(w, j) == {i \in 1..Revision(w) : j \in drafts[w][i].from}

LEMMA RevisionFrom ==
    ASSUME AssetTypes, NEW w \in Workflow, NEW row \in RevisionRows, Revise(w, row), NEW j \in Generation
    PROVE  /\ \A v \in Workflow : v # w => From(v, j)' = From(v, j)
           /\ j \notin row.from => From(w, j)' = From(w, j)
           /\ j \in row.from => From(w, j)' = From(w, j) \cup {Revision(w) + 1}
<1> USE Revised DEF Revision, AssetTypes
<1>1. \A v \in Workflow : Len(drafts[v]) \in Nat
  OBVIOUS
<1>2. 1..(Len(drafts[w]) + 1) = 1..Len(drafts[w]) \cup {Len(drafts[w]) + 1}
  BY <1>1
<1>3. ASSUME NEW v \in Workflow, v # w PROVE From(v, j)' = From(v, j)
  BY <1>3 DEF From
<1>4. ASSUME j \notin row.from PROVE From(w, j)' = From(w, j)
  BY <1>1, <1>2, <1>4 DEF From
<1>5. ASSUME j \in row.from PROVE From(w, j)' = From(w, j) \cup {Revision(w) + 1}
  BY <1>1, <1>2, <1>5 DEF From
<1> QED BY <1>3, <1>4, <1>5

LEMMA SaveStands ==
    ASSUME AssetInv, NEW p \in Person, NEW d \in Definition, Save(p, d), IInv'
    PROVE  AssetInv'
<1> DEFINE w == Edits[p]
<1> DEFINE row == RevisionRow(d, {}, seen[p])
<1>1. w \in Workflow
  BY AssetsAssumption DEF AssetsAssumption
<1>2. row \in RevisionRows /\ row.from = {} /\ row.over = Revision(w)
  BY DEF RevisionRow, RevisionRows, Save, Current, AssetInv, AssetTypes
<1>3. Revise(w, row) /\ releases' = releases /\ requests' = requests /\ candidates' = candidates
      /\ accepted' = accepted /\ jobs' = jobs /\ counted' = counted
  BY DEF Save, vars
<1> HIDE DEF row, w
<1>4. seen' \in [Person -> Nat]
  <2>1. seen' \in {seen, [seen EXCEPT ![p] = Revision(w) + 1]}
    BY DEF Save, w
  <2>2. Revision(w) + 1 \in Nat
    BY <1>1 DEF AssetInv, AssetTypes, Revision
  <2> QED BY <2>1, <2>2 DEF AssetInv, AssetTypes
<1>5. AssetTypes'
  BY <1>1, <1>2, <1>3, <1>4, Revised, RevisionKeepsView DEF AssetInv, AssetTypes
<1>6. InFullView' /\ VersionsStand'
  BY <1>1, <1>2, <1>3, RevisionKeepsView, RevisionKeepsVersions DEF AssetInv
<1>7. AcceptedOnce'
  BY <1>1, <1>2, <1>3, RevisionFrom DEF AssetInv, AcceptedOnce, From
<1>8. AcceptedAsDelivered'
  <2> SUFFICES ASSUME NEW j \in Generation, accepted[j] # 0
               PROVE  drafts'[WorkflowOf[j]][accepted[j]] = drafts[WorkflowOf[j]][accepted[j]]
    BY <1>3 DEF AcceptedAsDelivered, AssetInv
  <2>1. WorkflowOf[j] \in Workflow
    BY WorkflowAssumption DEF WorkflowAssumption
  <2>2. accepted[j] \in 1..Revision(WorkflowOf[j])
    BY <2>1 DEF AssetInv, AcceptedOnce
  <2> QED BY <1>1, <1>2, <1>3, <2>1, <2>2, Revised DEF AssetInv
<1>9. OneCandidate' /\ RunsHaveVersions'
  BY <1>3 DEF AssetInv, OneCandidate, RunsHaveVersions, Version
<1> QED BY <1>5, <1>6, <1>7, <1>8, <1>9 DEF AssetInv

LEMMA AcceptStands ==
    ASSUME AssetInv, NEW p \in Person, NEW j \in Generation, Accept(p, j), IInv'
    PROVE  AssetInv'
<1> DEFINE w == WorkflowOf[j]
<1>1. w \in Workflow /\ Generation \subseteq Job
  BY WorkflowAssumption DEF WorkflowAssumption
<1>2. PICK d \in candidates[j] : Revise(w, RevisionRow(d, {j}, requests[j]))
  BY DEF Accept
<1> DEFINE row == RevisionRow(d, {j}, requests[j])
<1>3. row \in RevisionRows /\ row.from = {j} /\ row.definition = d
  BY <1>1 DEF RevisionRow, RevisionRows, AssetInv, AssetTypes
<1>4. row.over = Revision(w) /\ jobs[j].status = "succeeded" /\ accepted[j] = 0 /\ Revision(w) \in Nat
  BY <1>1 DEF RevisionRow, Accept, Acceptable, Current, AssetInv, AssetTypes, Revision
<1>5. Revise(w, row) /\ releases' = releases /\ requests' = requests /\ candidates' = candidates
      /\ jobs' = jobs /\ counted' = counted
  BY <1>2 DEF Accept, vars
<1>6. accepted' = [accepted EXCEPT ![j] = Revision(w) + 1]
  BY DEF Accept
<1>7. seen' \in {seen, [seen EXCEPT ![p] = Revision(w) + 1]}
  BY DEF Accept
<1> HIDE DEF row, w
<1>8. AssetTypes'
  <2>1. seen' \in [Person -> Nat] /\ accepted' \in [Generation -> Nat]
    BY <1>4, <1>6, <1>7 DEF AssetInv, AssetTypes
  <2> QED BY <1>1, <1>3, <1>4, <1>5, <2>1, Revised, RevisionKeepsView DEF AssetInv, AssetTypes
<1>9. InFullView' /\ VersionsStand'
  BY <1>1, <1>3, <1>4, <1>5, RevisionKeepsView, RevisionKeepsVersions DEF AssetInv
<1>10. AcceptedOnce'
  <2> SUFFICES ASSUME NEW v \in Workflow, NEW k \in Generation
               PROVE  From(v, k)' = (IF WorkflowOf[k] = v THEN {accepted'[k]} ELSE {}) \ {0}
    BY DEF AcceptedOnce, From
  <2>1. From(v, k) = (IF WorkflowOf[k] = v THEN {accepted[k]} ELSE {}) \ {0}
    BY DEF AssetInv, AcceptedOnce, From
  <2>2. CASE k # j
    <3>1. accepted'[k] = accepted[k]
      BY <1>6, <2>2 DEF AssetInv, AssetTypes
    <3>2. From(v, k)' = From(v, k)
      BY <1>1, <1>3, <1>5, <2>2, RevisionFrom DEF AssetInv
    <3> QED BY <2>1, <3>1, <3>2
  <2>3. CASE k = j /\ v # w
    <3>1. From(v, k)' = From(v, k)
      BY <1>1, <1>3, <1>5, <2>3, RevisionFrom DEF AssetInv
    <3> QED BY <2>1, <2>3, <3>1 DEF w
  <2>4. CASE k = j /\ v = w
    <3>1. From(v, k)' = From(v, k) \cup {Revision(w) + 1}
      BY <1>1, <1>3, <1>5, <2>4, RevisionFrom DEF AssetInv
    <3>2. From(v, k) = {}
      BY <1>4, <2>1, <2>4
    <3>3. accepted'[k] = Revision(w) + 1 /\ Revision(w) + 1 # 0
      BY <1>4, <1>6, <2>4 DEF AssetInv, AssetTypes
    <3> QED BY <2>4, <3>1, <3>2, <3>3 DEF w
  <2> QED BY <2>2, <2>3, <2>4
<1>11. AcceptedAsDelivered'
  <2> SUFFICES ASSUME NEW k \in Generation, accepted'[k] # 0
               PROVE  /\ jobs[k].status = "succeeded"
                      /\ candidates[k] = {drafts'[WorkflowOf[k]][accepted'[k]].definition}
    BY <1>5 DEF AcceptedAsDelivered
  <2>1. CASE k = j
    <3>1. accepted'[k] = Revision(w) + 1
      BY <1>6, <2>1 DEF AssetInv, AssetTypes
    <3>2. drafts'[w][Revision(w) + 1] = row
      BY <1>1, <1>3, <1>5, Revised DEF AssetInv
    <3>3. candidates[j] = {d}
      BY <1>2 DEF AssetInv, OneCandidate
    <3> QED BY <1>3, <1>4, <2>1, <3>1, <3>2, <3>3 DEF w
  <2>2. CASE k # j
    <3>1. accepted'[k] = accepted[k]
      BY <1>6, <2>2 DEF AssetInv, AssetTypes
    <3>2. WorkflowOf[k] \in Workflow
      BY WorkflowAssumption DEF WorkflowAssumption
    <3>3. accepted[k] \in 1..Revision(WorkflowOf[k])
      BY <3>1, <3>2 DEF AssetInv, AcceptedOnce
    <3>4. drafts'[WorkflowOf[k]][accepted[k]] = drafts[WorkflowOf[k]][accepted[k]]
      BY <1>1, <1>3, <1>5, <3>2, <3>3, Revised DEF AssetInv
    <3> QED BY <3>1, <3>4 DEF AssetInv, AcceptedAsDelivered
  <2> QED BY <2>1, <2>2
<1>12. OneCandidate' /\ RunsHaveVersions'
  BY <1>5 DEF AssetInv, OneCandidate, RunsHaveVersions, Version
<1> QED BY <1>8, <1>9, <1>10, <1>11, <1>12 DEF AssetInv

LEMMA PublishStands ==
    ASSUME AssetInv, NEW p \in Person, Publish(p), IInv'
    PROVE  AssetInv'
<1> DEFINE w == Edits[p]
<1> DEFINE row == [definition |-> Draft(w), revision |-> Revision(w)]
<1>1. w \in Workflow
  BY AssetsAssumption DEF AssetsAssumption
<1>2. drafts' = drafts /\ requests' = requests /\ candidates' = candidates /\ accepted' = accepted
      /\ seen' = seen /\ jobs' = jobs /\ counted' = counted
  BY DEF Publish, vars
<1>3. Draft(w) \in Valid /\ ~Published(w) /\ releases' = [releases EXCEPT ![w] = Append(@, row)]
  BY DEF Publish
<1>4. Revision(w) \in Nat /\ Revision(w) \in 1..Revision(w) /\ Draft(w) = drafts[w][Revision(w)].definition
  BY <1>1 DEF AssetInv, AssetTypes, Revision, Draft
<1>5. row \in VersionRows /\ row.definition = Draft(w) /\ row.revision = Revision(w)
  BY <1>3, <1>4, AssetsAssumption DEF VersionRows, AssetsAssumption
<1> HIDE DEF row, w
<1>6. /\ releases' \in [Workflow -> Seq(VersionRows)]
      /\ \A v \in Workflow : v # w => releases'[v] = releases[v]
      /\ Len(releases'[w]) = Version(w) + 1 /\ Version(w) \in Nat
      /\ \A i \in 1..Version(w) : releases'[w][i] = releases[w][i]
      /\ releases'[w][Version(w) + 1] = row
  BY <1>1, <1>3, <1>5, Appended DEF AssetInv, AssetTypes, Version
<1>7. AssetTypes'
  BY <1>2, <1>6 DEF AssetInv, AssetTypes, Revision
<1>8. InFullView' /\ AcceptedOnce' /\ AcceptedAsDelivered' /\ OneCandidate'
  BY <1>2 DEF AssetInv, InFullView, AcceptedOnce, AcceptedAsDelivered, OneCandidate, Revision
<1>9. VersionsStand'
  <2> SUFFICES ASSUME NEW v \in Workflow, NEW i \in 1..Len(releases'[v])
               PROVE  /\ releases'[v][i].revision \in 1..Revision(v)
                      /\ releases'[v][i].definition = drafts[v][releases'[v][i].revision].definition
                      /\ releases'[v][i].definition \in Valid
                      /\ i > 1 => /\ releases'[v][i].definition # releases'[v][i - 1].definition
                                  /\ releases'[v][i].revision > releases'[v][i - 1].revision
    BY <1>2 DEF VersionsStand, Version, Revision
  <2>1. CASE v # w
    BY <1>6, <2>1 DEF AssetInv, VersionsStand, Version
  <2>2. CASE v = w /\ i \in 1..Version(w)
    <3>1. releases'[w][i] = releases[w][i] /\ (i > 1 => releases'[w][i - 1] = releases[w][i - 1])
      BY <1>6, <2>2
    <3> QED BY <2>2, <3>1 DEF AssetInv, VersionsStand
  <2>3. CASE v = w /\ i = Version(w) + 1
    <3>1. releases'[v][i] = row
      BY <1>6, <2>3
    <3>2. ASSUME i > 1
          PROVE  /\ Draft(w) # releases'[v][i - 1].definition
                 /\ Revision(w) > releases'[v][i - 1].revision
      <4>1. i - 1 = Version(w) /\ Version(w) > 0 /\ Version(w) \in 1..Version(w)
        BY <1>6, <2>3, <3>2
      <4>2. releases'[v][i - 1] = releases[w][Version(w)]
        BY <1>6, <2>3, <4>1
      <4>3. releases[w][Version(w)].definition # Draft(w)
        BY <1>3, <4>1 DEF Published
      <4>4. /\ releases[w][Version(w)].revision \in 1..Revision(w)
            /\ releases[w][Version(w)].definition = drafts[w][releases[w][Version(w)].revision].definition
        BY <1>1, <4>1 DEF AssetInv, VersionsStand
      <4>5. releases[w][Version(w)].revision # Revision(w)
        BY <1>4, <4>3, <4>4
      <4> QED BY <1>4, <4>2, <4>3, <4>4, <4>5
    <3> QED BY <1>3, <1>4, <1>5, <2>3, <3>1, <3>2
  <2>4. i \in 1..Version(w) \/ i = Version(w) + 1 \/ v # w
    BY <1>6
  <2> QED BY <2>1, <2>2, <2>3, <2>4
<1>10. RunsHaveVersions'
  <2>1. ASSUME NEW v \in Workflow, NEW n \in 1..Version(v) PROVE n \in 1..Len(releases'[v])
    <3>1. CASE v = w
      BY <1>6, <2>1, <3>1
    <3>2. CASE v # w
      BY <1>6, <2>1, <3>2 DEF Version
    <3> QED BY <3>1, <3>2
  <2>2. \A j \in Job : WorkflowOf[j] \in Workflow
    BY WorkflowAssumption DEF WorkflowAssumption
  <2> QED BY <1>2, <2>1, <2>2 DEF AssetInv, RunsHaveVersions, Version
<1> QED BY <1>7, <1>8, <1>9, <1>10 DEF AssetInv

\* A job leaves "absent" only out of a transaction that has counted.
LEMMA NewJobs ==
    ASSUME TypeOK, [Next]_vars, ~\E j \in Job : Count(j), NEW j \in Job
    PROVE  /\ jobs[j].status = "absent" /\ jobs'[j].status # "absent" => j \in counted[WorkflowOf[j]]
           /\ counted'[WorkflowOf[j]] \subseteq counted[WorkflowOf[j]]
<1> USE WorkflowAssumption DEF WorkflowAssumption, TypeOK
<1>1. ASSUME NEW i \in Job, JobStep(i)
      PROVE  /\ jobs[j].status = "absent" /\ jobs'[j].status # "absent" => j \in counted[WorkflowOf[j]]
             /\ counted'[WorkflowOf[j]] \subseteq counted[WorkflowOf[j]]
  <2>1. CASE Insert(i)
    BY <2>1 DEF Insert
  <2>2. CASE Cancel(i)
    BY <2>2 DEF Cancel, End
  <2>3. CASE RuntimeRequest(i)
    BY <2>3 DEF RuntimeRequest, Claim, Renew, StartNode, FinishNode, Finish, End, Live
  <2>4. CASE Clock(i)
    BY <2>4 DEF Clock, Age, Expire
  <2> QED BY <1>1, <2>1, <2>2, <2>3, <2>4 DEF JobStep, UserRequest
<1>2. CASE Reap
  BY <1>2 DEF Reap, Lost
<1>3. CASE Revoke \/ UNCHANGED vars
  BY <1>3 DEF Revoke, vars
<1> QED BY <1>1, <1>2, <1>3 DEF Next, JobStep

LEMMA SuccessStays ==
    ASSUME IInv, [Next]_vars, NEW j \in Job, jobs[j].status = "succeeded"
    PROVE  jobs'[j].status = "succeeded"
<1>1. Moves(j)
  BY StepMoves DEF IInv
<1> QED BY <1>1 DEF Moves, Keeps, Queues, Claims, Starts, Settles, Ends

\* A step of the queue, which may deliver a candidate nobody can have accepted yet.
LEMMA QueueStands ==
    ASSUME AssetInv, [Next]_vars, IInv', ~\E i \in Job : Count(i),
           UNCHANGED <<drafts, releases, requests, accepted, seen>>,
           \/ candidates' = candidates
           \/ \E k \in Generation, d \in Definition :
                 jobs[k].status = "running" /\ candidates' = [candidates EXCEPT ![k] = {d}]
    PROVE  AssetInv'
<1> USE DEF AssetInv
<1>1. Generation \subseteq Job
  BY WorkflowAssumption DEF WorkflowAssumption
<1>2. InFullView' /\ AcceptedOnce' /\ VersionsStand'
  BY DEF InFullView, AcceptedOnce, VersionsStand, Revision, Version
<1>3. AssetTypes'
  <2>1. candidates' \in [Generation -> SUBSET Definition]
    BY DEF AssetTypes
  <2> QED BY <2>1 DEF AssetTypes, Revision
<1>4. OneCandidate'
  <2> SUFFICES ASSUME NEW j \in Generation PROVE \A d, e \in candidates'[j] : d = e
    BY DEF OneCandidate
  <2>1. candidates'[j] = candidates[j] \/ \E d : candidates'[j] = {d}
    BY DEF AssetTypes
  <2> QED BY <2>1 DEF OneCandidate
<1>5. AcceptedAsDelivered'
  <2> SUFFICES ASSUME NEW j \in Generation, accepted[j] # 0
               PROVE  /\ jobs'[j].status = "succeeded"
                      /\ candidates'[j] = {drafts[WorkflowOf[j]][accepted[j]].definition}
    BY DEF AcceptedAsDelivered
  <2>1. jobs[j].status = "succeeded" /\ candidates[j] = {drafts[WorkflowOf[j]][accepted[j]].definition}
    BY DEF AcceptedAsDelivered
  <2>2. jobs'[j].status = "succeeded"
    BY <1>1, <2>1, SuccessStays
  <2>3. candidates'[j] = candidates[j]
    BY <2>1 DEF AssetTypes
  <2> QED BY <2>1, <2>2, <2>3
<1>6. RunsHaveVersions'
  <2> SUFFICES ASSUME NEW j \in Job \ Generation, jobs'[j].status # "absent" \/ j \in counted'[WorkflowOf[j]]
               PROVE  requests[j] \in 1..Version(WorkflowOf[j])
    BY DEF RunsHaveVersions, Version
  <2>1. jobs[j].status # "absent" \/ j \in counted[WorkflowOf[j]]
    BY NewJobs DEF IInv
  <2> QED BY <2>1 DEF RunsHaveVersions
<1> QED BY <1>2, <1>3, <1>4, <1>5, <1>6

\* A transaction that creates a job and has counted: an execution's version is there.
LEMMA CountStands ==
    ASSUME AssetInv, IInv', NEW j \in Job, Count(j), NEW n \in Nat, requests' = [requests EXCEPT ![j] = n],
           j \notin Generation => n \in 1..Version(WorkflowOf[j]),
           UNCHANGED <<drafts, releases, candidates, accepted, seen>>
    PROVE  AssetInv'
<1> USE DEF AssetInv
<1>1. AssetTypes' /\ InFullView' /\ AcceptedOnce' /\ VersionsStand' /\ OneCandidate'
  BY DEF AssetTypes, InFullView, AcceptedOnce, VersionsStand, OneCandidate, Revision, Version
<1>2. AcceptedAsDelivered'
  BY DEF AcceptedAsDelivered, Count
<1>3. RunsHaveVersions'
  <2> SUFFICES ASSUME NEW i \in Job \ Generation, jobs'[i].status # "absent" \/ i \in counted'[WorkflowOf[i]]
               PROVE  requests'[i] \in 1..Version(WorkflowOf[i])
    BY DEF RunsHaveVersions, Version
  <2>1. CASE i = j
    BY <2>1 DEF AssetTypes
  <2>2. CASE i # j
    <3>1. jobs[i].status # "absent" \/ i \in counted[WorkflowOf[i]]
      BY <2>2, WorkflowAssumption DEF Count, IInv, TypeOK, WorkflowAssumption
    <3>2. requests'[i] = requests[i]
      BY <2>2 DEF AssetTypes
    <3> QED BY <3>1, <3>2 DEF RunsHaveVersions
  <2> QED BY <2>1, <2>2
<1> QED BY <1>1, <1>2, <1>3

LEMMA NextAssetInv == ASSUME AssetInv, [AssetNext]_assetVars PROVE AssetInv'
<1>1. [Next]_vars
  BY StepIsQueueStep
<1>2. IInv'
  BY <1>1, NextInv DEF AssetInv
<1>3. Generation \subseteq Job
  BY WorkflowAssumption DEF WorkflowAssumption
<1>4. ASSUME NEW p \in Person, Open(p) PROVE AssetInv'
  <2>1. Edits[p] \in Workflow
    BY AssetsAssumption DEF AssetsAssumption
  <2>2. seen' \in [Person -> Nat]
    BY <1>4, <2>1 DEF Open, AssetInv, AssetTypes, Revision
  <2>3. AssetTypes'
    BY <1>4, <2>2 DEF Open, AssetInv, AssetTypes, Revision
  <2> QED BY <1>2, <1>4, <2>3 DEF Open, vars, AssetInv, InFullView, AcceptedOnce, AcceptedAsDelivered, OneCandidate,
              VersionsStand, RunsHaveVersions, Revision, Version
<1>5. ASSUME NEW p \in Person, Author(p) PROVE AssetInv'
  BY <1>2, <1>4, <1>5, PublishStands, SaveStands DEF Author
<1>6. ASSUME NEW p \in Person, NEW j \in Generation, Accept(p, j) PROVE AssetInv'
  BY <1>2, <1>6, AcceptStands
<1>7. ASSUME NEW p \in Person, NEW j \in Generation, Generate(p, j) PROVE AssetInv'
  <2>1. Count(j) /\ requests' = [requests EXCEPT ![j] = seen[p]]
        /\ UNCHANGED <<drafts, releases, candidates, accepted, seen>>
    BY <1>7 DEF Generate
  <2>2. j \in Job /\ seen[p] \in Nat
    BY <1>3 DEF AssetInv, AssetTypes
  <2> QED BY <1>2, <2>1, <2>2, CountStands
<1>8. ASSUME NEW j \in Job, Execute(j) PROVE AssetInv'
  <2>1. Count(j) /\ UNCHANGED <<drafts, releases, candidates, accepted, seen>>
    BY <1>8 DEF Execute
  <2>2. PICK v \in DOMAIN releases[WorkflowOf[j]] : requests' = [requests EXCEPT ![j] = v]
    BY <1>8 DEF Execute
  <2>3. WorkflowOf[j] \in Workflow
    BY WorkflowAssumption DEF WorkflowAssumption
  <2>4. v \in Nat /\ v \in 1..Version(WorkflowOf[j])
    BY <2>3 DEF AssetInv, AssetTypes, Version
  <2> QED BY <1>2, <2>1, <2>2, <2>4, CountStands
<1>9. ASSUME NEW j \in Generation, NEW status \in Ended, NEW valid \in BOOLEAN, NEW d \in Definition,
             Deliver(j, status, valid, d)
      PROVE  AssetInv'
  <2>1. Finish(j, status, valid) /\ UNCHANGED <<drafts, releases, requests, accepted, seen>>
        /\ candidates' \in {candidates, [candidates EXCEPT ![j] = {d}]}
    BY <1>9 DEF Deliver
  <2>2. jobs[j].status = "running" /\ UNCHANGED counted
    BY <2>1 DEF Finish, Live
  <2>3. ~\E i \in Job : Count(i)
    BY <2>1, <2>2, WorkflowAssumption DEF Count, CanCount, AssetInv, IInv, TypeOK, WorkflowAssumption
  <2> QED BY <1>1, <1>2, <2>1, <2>2, <2>3, QueueStands
<1>10. CASE QueueStep
  <2>1. UNCHANGED assets
    BY <1>10 DEF QueueStep
  <2>2. ~\E i \in Job : Count(i)
    <3> SUFFICES ASSUME NEW i \in Job, Count(i) PROVE FALSE
      OBVIOUS
    <3>1. jobs' = jobs /\ nodes' = nodes /\ i \in counted'[WorkflowOf[i]] /\ i \notin counted[WorkflowOf[i]]
      BY WorkflowAssumption DEF Count, CanCount, AssetInv, IInv, TypeOK, WorkflowAssumption
    <3>2. ASSUME NEW j \in Job, QueueRequest(j) PROVE counted' = counted \/ Insert(j)
      BY <3>2 DEF QueueRequest, Cancel, Claim, Renew, StartNode, FinishNode, Finish, Clock, Age, Expire
    <3>3. ASSUME NEW j \in Job, Insert(j) PROVE FALSE
      BY <3>1, <3>3, NewRows DEF Insert, AssetInv, IInv, TypeOK, CountedAreAbsent
    <3> QED BY <1>10, <3>1, <3>2, <3>3 DEF QueueStep, Reap, Revoke
  <2> QED BY <1>1, <1>2, <2>1, <2>2, QueueStands DEF assets
<1>11. CASE UNCHANGED assetVars
  BY <1>2, <1>11 DEF assetVars, assets, vars, AssetInv, AssetTypes, InFullView, AcceptedOnce, AcceptedAsDelivered,
     OneCandidate, VersionsStand, RunsHaveVersions, Revision, Version
<1> QED BY <1>5, <1>6, <1>7, <1>8, <1>9, <1>10, <1>11 DEF AssetNext, AssetStep

\* However many people edit, generate, accept and publish at once: no revision was written over one
\* its author had not before them, a candidate became one revision, and versions and the executions
\* that run them rest on valid drafts (workflows.ts: update, accept, publish, createRun).
THEOREM WorkStands == AssetSpec => []SavedWorkStands
<1>1. AssetInit => AssetInv
  BY InitAssetInv
<1>2. AssetInv /\ [AssetNext]_assetVars => AssetInv'
  BY NextAssetInv
<1>3. AssetInv => SavedWorkStands
  BY DEF AssetInv, SavedWorkStands, NoWorkIsLost, VersionsAreDrafts, InFullView, AcceptedOnce, AcceptedAsDelivered,
     VersionsStand, RunsHaveVersions
<1> QED BY <1>1, <1>2, <1>3, PTL DEF AssetSpec

=============================================================================
