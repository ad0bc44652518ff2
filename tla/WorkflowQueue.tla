--------------------------- MODULE WorkflowQueue ---------------------------
(***************************************************************************)
(* Workflow jobs in the control plane: executions of a release, with one   *)
(* record per node, and generations of a candidate.  Each action is one    *)
(* transaction; only the enqueueing transaction is two steps, because it   *)
(* counts the project's jobs under a lock on its own workflow alone.       *)
(*                                                                         *)
(* A job is claimed once, so its lease token only tells a claimed job from *)
(* one that is not.  Requests of the runtime are taken as they come: any   *)
(* node, any order, any time; what a worker really sends is WorkflowRun's. *)
(* Every execution here runs the same definition.                          *)
(***************************************************************************)
EXTENDS Integers, FiniteSets

CONSTANTS Job,            \* a job stands for the request that creates it
          Workflow,
          WorkflowOf,     \* job -> its workflow; all belong to one project
          Generation,     \* the jobs that generate a candidate; the others execute
          AppJob,         \* the jobs entered by the business application
          Limit,          \* active jobs a project may have
          Window,         \* bound: ticks of a lease
          Node, Kind, Edge

Port == {"out", "true", "false"}
Ports(kind) == CASE kind = "end" -> {} [] kind = "condition" -> {"true", "false"} [] OTHER -> {"out"}
Edges(e) == {f \in Edge : f.source = e}
StartNodes == {n \in Node : Kind[n] = "start"}

\* What validateWorkflow demands of a definition before it is published: one
\* start, one predecessor for every other node, the ports each kind must have,
\* and every node reached from the start.
ValidDefinition ==
    /\ Edge \subseteq [source : Node, target : Node, port : Port]
    /\ Kind \in [Node -> {"start", "work", "map", "condition", "end"}]
    /\ Cardinality(StartNodes) = 1
    /\ \A n \in Node : /\ Cardinality({e \in Edge : e.target = n}) = IF Kind[n] = "start" THEN 0 ELSE 1
                       /\ {e.port : e \in Edges(n)} = Ports(Kind[n])
                       /\ Cardinality(Edges(n)) = Cardinality(Ports(Kind[n]))
    /\ \E depth \in [Node -> 0..24] : \A e \in Edge : depth[e.target] = depth[e.source] + 1

ASSUME WorkflowAssumption ==
    /\ ValidDefinition
    /\ WorkflowOf \in [Job -> Workflow] /\ Generation \subseteq Job /\ AppJob \subseteq Job
    /\ Limit \in Nat \ {0} /\ Window \in Nat \ {0}

VARIABLES jobs,       \* job -> its row; "absent" before it is created
          nodes,      \* job -> node -> status of the node's record
          matched,    \* job -> the conditions whose output is matched = true
          counted,    \* workflow -> the jobs whose enqueueing transactions have counted
          appActive   \* the business application is active

vars == <<jobs, nodes, matched, counted, appActive>>

Ended == {"succeeded", "failed", "cancelled"}
JobStatus == {"absent", "queued", "running"} \cup Ended
NodeStatus == {"none", "pending", "running", "skipped"} \cup Ended

JobRow == [status : JobStatus, lease : 0..Window, overdue : BOOLEAN]
Fresh(status, lease) == [status |-> status, lease |-> lease, overdue |-> FALSE]
NoJob == Fresh("absent", 0)
Queued == Fresh("queued", 0)
Claimed == Fresh("running", Window)
Renewed(job) == [job EXCEPT !.lease = Window]
Aged(job) == [job EXCEPT !.lease = @ - 1]
PastDeadline(job) == [job EXCEPT !.overdue = TRUE]
\* Of a job that has ended only the status is read again.
EndedAs(status) == Fresh(status, 0)

Active == {j \in Job : jobs[j].status \in {"queued", "running"}}
Entitled(j) == j \in AppJob => appActive
Live(j, access) == /\ jobs[j].status = "running"
                   /\ jobs[j].lease > 0 /\ ~jobs[j].overdue
                   /\ access => Entitled(j)

----------------------------------------------------------------------------

CanCount(j) == /\ counted[WorkflowOf[j]] = {}
               /\ Cardinality(Active) < Limit
Count(j) == /\ jobs[j].status = "absent" /\ Entitled(j) /\ CanCount(j)
            /\ counted' = [counted EXCEPT ![WorkflowOf[j]] = @ \cup {j}]
            /\ UNCHANGED <<jobs, nodes, matched, appActive>>

Insert(j) == /\ j \in counted[WorkflowOf[j]]
             /\ counted' = [counted EXCEPT ![WorkflowOf[j]] = @ \ {j}]
             /\ jobs' = [jobs EXCEPT ![j] = Queued]
             /\ UNCHANGED <<nodes, matched, appActive>>

Claim(j) == /\ jobs[j].status = "queued" /\ ~jobs[j].overdue
            /\ jobs' = [jobs EXCEPT ![j] = Claimed]
            /\ nodes' = IF j \in Generation THEN nodes
                        ELSE [nodes EXCEPT ![j] = [n \in Node |-> "pending"]]
            /\ UNCHANGED <<matched, counted, appActive>>

\* Mutant: the lease is extended from its old end.
RenewStacked(j) == /\ Live(j, TRUE)
                   /\ jobs' = [jobs EXCEPT ![j].lease = @ + Window]
                   /\ UNCHANGED <<nodes, matched, counted, appActive>>
Renew(j) == /\ Live(j, TRUE)
            /\ jobs' = [jobs EXCEPT ![j] = Renewed(@)]
            /\ UNCHANGED <<nodes, matched, counted, appActive>>

\* The edge is taken if its source has succeeded with the output its port asks for.
Taken(j, e) == /\ nodes[j][e.source] = "succeeded"
               /\ e.port # "out" => (e.port = "true") = (e.source \in matched[j])
OnPath(j, n) == IF \E e \in Edge : e.target = n
                THEN \E e \in Edge : e.target = n /\ Taken(j, e)
                ELSE Kind[n] = "start"
Startable(j, n) == /\ nodes[j][n] = "pending"
                   /\ \A o \in Node : nodes[j][o] \notin {"running", "failed"}
                   /\ OnPath(j, n)
StartNode(j, n) == /\ Live(j, TRUE) /\ Startable(j, n)
                   /\ nodes' = [nodes EXCEPT ![j] = [@ EXCEPT ![n] = "running"]]
                   /\ UNCHANGED <<jobs, matched, counted, appActive>>

\* The control plane evaluates a condition itself and refuses another output.
FinishNode(j, n, status, match) ==
    /\ Live(j, status = "succeeded") /\ nodes[j][n] = "running"
    /\ status = "failed" \/ Kind[n] # "condition" => ~match
    /\ nodes' = [nodes EXCEPT ![j] = [@ EXCEPT ![n] = status]]
    /\ matched' = IF status = "succeeded" /\ match THEN [matched EXCEPT ![j] = @ \cup {n}] ELSE matched
    /\ UNCHANGED <<jobs, counted, appActive>>

\* A job that ends closes the records of its nodes.
Closed(j, status) ==
    [n \in Node |-> CASE nodes[j][n] = "pending" -> "skipped"
                      [] nodes[j][n] = "running" -> IF status = "cancelled" THEN "cancelled" ELSE "failed"
                      [] OTHER -> nodes[j][n]]
End(j, status) == /\ jobs' = [jobs EXCEPT ![j] = EndedAs(status)]
                  /\ nodes' = [nodes EXCEPT ![j] = Closed(j, status)]

\* Mutant: a success is believed while nothing runs and nothing failed.
CompleteWithoutEnd(j) == \A n \in Node : nodes[j][n] \notin {"running", "failed", "cancelled"}
Complete(j) == /\ Cardinality({n \in Node : Kind[n] = "end" /\ nodes[j][n] = "succeeded"}) = 1
               /\ \A n \in Node : nodes[j][n] \notin {"running", "failed", "cancelled"}
\* valid says whether a generated candidate passes validateWorkflowProposal.
Finish(j, status, valid) ==
    /\ Live(j, status = "succeeded")
    /\ status = "succeeded" /\ j \notin Generation => Complete(j)
    /\ End(j, IF status = "succeeded" /\ j \in Generation /\ ~valid THEN "failed" ELSE status)
    /\ UNCHANGED <<matched, counted, appActive>>

\* Mutant: the status is not looked at again under the lock.
CancelAnyway(j) == /\ jobs[j].status # "absent"
                   /\ End(j, "cancelled")
                   /\ UNCHANGED <<matched, counted, appActive>>
Cancel(j) == /\ jobs[j].status \in {"queued", "running"}
             /\ End(j, "cancelled")
             /\ UNCHANGED <<matched, counted, appActive>>

\* Mutant: only claimed jobs are reaped.
LostRunning(j) == jobs[j].status = "running" /\ (jobs[j].overdue \/ jobs[j].lease = 0 \/ ~Entitled(j))
Lost(j) == /\ jobs[j].status \in {"queued", "running"}
           /\ \/ jobs[j].overdue
              \/ jobs[j].status = "running" /\ jobs[j].lease = 0
              \/ ~Entitled(j)
Reap == /\ jobs' = [j \in Job |-> IF Lost(j) THEN EndedAs("failed") ELSE jobs[j]]
        /\ nodes' = [j \in Job |-> IF Lost(j) THEN Closed(j, "failed") ELSE nodes[j]]
        /\ UNCHANGED <<matched, counted, appActive>>

\* Time: a lease runs down, a deadline passes.
Age(j) == /\ jobs[j].status = "running" /\ jobs[j].lease > 0
          /\ jobs' = [jobs EXCEPT ![j] = Aged(@)]
          /\ UNCHANGED <<nodes, matched, counted, appActive>>
Expire(j) == /\ jobs[j].status \in {"queued", "running"} /\ ~jobs[j].overdue
             /\ jobs' = [jobs EXCEPT ![j] = PastDeadline(@)]
             /\ UNCHANGED <<nodes, matched, counted, appActive>>
Revoke == /\ appActive /\ appActive' = FALSE
          /\ UNCHANGED <<jobs, nodes, matched, counted>>

----------------------------------------------------------------------------

Init == /\ jobs = [j \in Job |-> NoJob]
        /\ nodes = [j \in Job |-> [n \in Node |-> "none"]]
        /\ matched = [j \in Job |-> {}]
        /\ counted = [w \in Workflow |-> {}]
        /\ appActive = TRUE

UserRequest(j) == Count(j) \/ Insert(j) \/ Cancel(j)
RuntimeRequest(j) ==
    \/ Claim(j) \/ Renew(j)
    \/ \E n \in Node : StartNode(j, n)
    \/ \E n \in Node, status \in {"succeeded", "failed"}, match \in BOOLEAN : FinishNode(j, n, status, match)
    \/ \E status \in Ended, valid \in BOOLEAN : Finish(j, status, valid)
Clock(j) == Age(j) \/ Expire(j)

Next == \/ \E j \in Job : UserRequest(j) \/ RuntimeRequest(j) \/ Clock(j)
        \/ Reap \/ Revoke

Spec == Init /\ [][Next]_vars

\* The reaper is a timer of the control plane; deadlines pass.
FairSpec == Spec /\ WF_vars(Reap) /\ \A j \in Job : WF_vars(Expire(j))

----------------------------------------------------------------------------

\* The rows have the values their columns allow.
TypeOK == /\ jobs \in [Job -> JobRow]
          /\ nodes \in [Job -> [Node -> NodeStatus]]
          /\ matched \in [Job -> SUBSET Node]
          /\ counted \in [Workflow -> SUBSET Job]
          /\ appActive \in BOOLEAN

\* A transaction that has counted holds the lock of its own workflow, and the
\* job it is about to insert is not there yet.
CountedAreAbsent ==
    \A w \in Workflow : \A j \in counted[w] : WorkflowOf[j] = w /\ jobs[j].status = "absent"

\* Records exist from the claim of an execution on, and none is open once it has
\* ended: closeNodes is part of every transaction that ends a job.
RecordsFollowJob ==
    \A j \in Job, n \in Node :
        IF j \in Generation \/ jobs[j].status \in {"absent", "queued"} THEN nodes[j][n] = "none"
        ELSE IF jobs[j].status = "running" THEN nodes[j][n] \in {"pending", "running", "succeeded", "failed"}
        ELSE nodes[j][n] \notin {"pending", "running"}

\* Whatever the runtime asks for and in whatever order, a node has only been
\* started if its predecessor succeeded and sent the execution its way
\* (startNode's NODE_PATH).
NodesFollowPath ==
    \A j \in Job, n \in Node :
        nodes[j][n] \in {"running", "succeeded", "failed", "cancelled"} =>
            \/ Kind[n] = "start"
            \/ \E e \in Edge : /\ e.target = n /\ nodes[j][e.source] = "succeeded"
                              /\ (e.port = "true" => e.source \in matched[j])
                              /\ (e.port = "false" => e.source \notin matched[j])

\* The part of the above that every step preserves (proved in WorkflowAssets_proofs).
IInv == TypeOK /\ CountedAreAbsent /\ RecordsFollowJob /\ NodesFollowPath

\* A job reported as succeeded has gone all the way: from the start along one
\* branch of every condition to one end, and nowhere else.
SuccessIsComplete ==
    \A j \in Job \ Generation : jobs[j].status = "succeeded" =>
        /\ \A n \in Node : nodes[j][n] \in {"succeeded", "skipped"}
        /\ \A n \in StartNodes : nodes[j][n] = "succeeded"
        /\ \A n \in Node : nodes[j][n] = "succeeded" /\ Kind[n] # "end" =>
               Cardinality({e \in Edges(n) : nodes[j][e.target] = "succeeded"}) = 1

\* The count and the insert are not one step for the project, only for each
\* workflow: the limit may be passed, but by less than one job per workflow.
ActiveJobsBounded == Cardinality(Active) < Limit + Cardinality(Workflow)

\* Whatever arrives late, twice or never: the rows of a job tell one story, and the project's queue stays bounded.
JobsAreKept == IInv /\ ActiveJobsBounded

\* A row only moves on: a job is handed out once, what has ended stays as it
\* ended, and a node never runs again, whatever arrives late.
JobRank(status) == CASE status = "absent" -> 0 [] status = "queued" -> 1 [] status = "running" -> 2 [] OTHER -> 3
NodeRank(status) == CASE status = "none" -> 0 [] status = "pending" -> 1 [] status = "running" -> 2 [] OTHER -> 3
OnlyForward ==
    [][\A j \in Job :
          /\ jobs[j].status # jobs'[j].status => JobRank(jobs[j].status) < JobRank(jobs'[j].status)
          /\ \A n \in Node : nodes[j][n] # nodes'[j][n] => NodeRank(nodes[j][n]) < NodeRank(nodes'[j][n])]_vars

\* Every job that was created ends, though its worker never comes back.
EveryJobEnds == \A j \in Job : jobs[j].status \in {"queued", "running"} ~> jobs[j].status \in Ended

=============================================================================
