-------------------------- MODULE MCWorkflowAssets --------------------------
(***************************************************************************)
(* A definition with one condition and an end on either branch; a run and  *)
(* a generation of one workflow; and two people who have its draft open.   *)
(***************************************************************************)
EXTENDS WorkflowAssets

MCKind == [start |-> "start", check |-> "condition", yes |-> "end", no |-> "end"]
MCNode == DOMAIN MCKind
MCEdge == {[source |-> "start", target |-> "check", port |-> "out"],
           [source |-> "check", target |-> "yes", port |-> "true"],
           [source |-> "check", target |-> "no", port |-> "false"]}
MCWorkflowOf == [execution |-> "w1", generation |-> "w1"]
MCJob == DOMAIN MCWorkflowOf
MCWorkflow == {"w1"}
MCEdits == [x |-> "w1", y |-> "w1"]
MCPerson == DOMAIN MCEdits
=============================================================================
