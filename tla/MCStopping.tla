------------------------------ MODULE MCStopping ------------------------------
(* What brings a run to its end whatever its worker does: the deadline and    *)
(* the reaper (RunQueue), a cancel, which the worker hears of with a          *)
(* heartbeat (AgentRun), and the switching off of a package it is pinned to,  *)
(* which it hears of with a request or with the next check (Releases).        *)
(*                                                                            *)
(* The parts share no variable and every property is about one of them, so    *)
(* each behaviour moves one and leaves the others where they begin.  The run  *)
(* that is cancelled calls no tools, and the package has no imports: neither  *)
(* has a say in whether the run stops.                                        *)
EXTENDS RunQueue

CONSTANTS WorkerRun, Mode,                           \* of the run that is cancelled
          User, Owner, Digest, Script, ScriptCall    \* of the run with a package

VARIABLES part,
          \* AgentRun, with a queue of its own
          jobs, log, saved, noReceipts, noGates, noWindows, talk, summary, sweep,
          policy, workers, effects,
          \* Releases
          role, versions, imports, asked, drafts, edits, holder, releases, scriptRun, scriptCalls

workerVars == <<jobs, log, saved, noReceipts, noGates, noWindows, talk, summary, sweep, policy, workers, effects>>
packageVars == <<role, versions, imports, asked, drafts, edits, holder, releases, scriptRun, scriptCalls>>

Worker == INSTANCE AgentRun
    WITH Run <- WorkerRun, Assistant <- Conversation, Call <- {}, Writes <- {},
         MaxRecovery <- 0, MaxSeq <- 0, Budget <- 1, Chunks <- [t \in {1}, m \in Mode |-> 1], Window <- 1,
         runs <- jobs, events <- log, snapshots <- saved, receipts <- noReceipts, gates <- noGates,
         gateLeft <- noWindows, messages <- talk, through <- summary, reaper <- sweep
Package == INSTANCE Releases
    WITH ImportId <- {}, MaxRequests <- 1, MaxReleases <- 1, Call <- ScriptCall,
         run <- scriptRun, calls <- scriptCalls

MCInit ==
    /\ Init /\ Worker!AgentInit /\ Package!Init
    /\ part \in {"queue", "cancel", "package"}
    /\ part # "package" => versions = <<>> /\ \A u \in User : role[u] = "admin"
MCNext ==
    \/ part = "queue" /\ Next /\ UNCHANGED <<part, workerVars, packageVars>>
    \/ part = "cancel" /\ Worker!AgentNext /\ UNCHANGED <<part, vars, packageVars>>
    \/ part = "package" /\ Package!Next /\ UNCHANGED <<part, vars, workerVars>>

\* The fairness of each part; the reaper of the queue is not asked to act where the queue rests.
QueueFairness == WF_vars(part = "queue" /\ Reap) /\ \A r \in Run : WF_vars(part = "queue" /\ Tick(r))
MCFairSpec == /\ MCInit /\ [][MCNext]_<<part, vars, workerVars, packageVars>>
              /\ QueueFairness /\ Worker!HeartbeatFairness /\ Package!TimerFairness

\* AgentRun: a cancel reaches the worker.
CancelReachesWorker == Worker!CancelReachesWorker

\* Releases: a version that stays switched off stops the runs that are pinned to it.
RevocationReachesRuns == Package!RevocationReachesRuns
=============================================================================
