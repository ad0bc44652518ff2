---------------------------- MODULE MCAgentRun -----------------------------
(* Instances of AgentRun for TLC: one run that is worked on, lost, put back *)
(* in the queue and worked on again.                                        *)
EXTENDS AgentRun

\* The last worker delivers an event, if it may only read; MCStopping has one
\* that delivers with consent to write.
MCChunks == [t \in Lease, mode \in Mode |-> IF t = MaxRecovery + 1 /\ mode = "readonly" THEN 1 ELSE 0]
=============================================================================
