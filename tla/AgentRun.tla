------------------------------ MODULE AgentRun ------------------------------
(***************************************************************************)
(* The runtime's workers and the run queue together: what a worker does    *)
(* with a run it claimed -- heartbeats, tool calls behind their approval   *)
(* gates and receipts, event delivery, the final report -- over a network  *)
(* that loses requests and answers, and with workers that crash or go on   *)
(* working after their run was taken from them.                            *)
(*                                                                         *)
(* There is one worker per lease.  Each step of a worker that needs the    *)
(* control plane is one request: it is served and answered, served with    *)
(* the answer lost, or not served.  A request that was sent may be served  *)
(* after the worker that sent it was stopped or crashed.                   *)
(***************************************************************************)
EXTENDS RunQueue

CONSTANTS Writes,         \* the calls of registered tools that write business data
          Mode,           \* the write-tool modes users set
          Chunks          \* bound: lease, write mode -> a worker emits while fewer events than this are logged

Lease == 1..(MaxRecovery + 1)

ASSUME AgentAssumption ==
    /\ Writes \subseteq Call /\ Mode \subseteq {"readonly", "ask", "auto"}
    /\ Chunks \in [Lease \X Mode -> Nat]

VARIABLES policy,     \* conversation -> its write-tool mode
          workers,    \* run -> lease -> the worker that was given the lease
          effects     \* history: run -> call -> the times its tool's body had its effect

agentVars == <<vars, policy, workers, effects>>

----------------------------------------------------------------------------

\* Where a tool call stands in its wrapped body.  In "asking", "starting",
\* "returned" and "threw" a request is on its way to the control plane.
Pending == {"asking", "waiting", "starting", "claimed", "returned", "threw"}
Settled == {"idle", "over"}
CallStage == Pending \cup Settled \cup {"uncertain"}

Worker == [stage : {"none", "executing", "finishing", "reporting", "gone"},
           mode : Mode \cup {"ask"},
           timeLeft : Nat,          \* ticks to the deadline it was told with its claim
           stopped : BOOLEAN,       \* its execution signal is aborted
           cancelled : BOOLEAN,     \* it has learned of the cancel
           uncertain : BOOLEAN,     \* a tool call's outcome is unknown to it
           muted : BOOLEAN,         \* its delivery chain has been rejected
           why : {"none", "model", "observation", "other"},   \* what its failure came from
           calls : [Call -> CallStage]]

Nobody == [stage |-> "none", mode |-> "ask", timeLeft |-> 0, stopped |-> FALSE, cancelled |-> FALSE,
           uncertain |-> FALSE, muted |-> FALSE, why |-> "none", calls |-> [k \in Call |-> "idle"]]
Fresh(mode, ticks) == [Nobody EXCEPT !.stage = "executing", !.mode = mode, !.timeLeft = ticks]

\* Of a worker that is gone only its mode and what it sent matter.
Gone(w) == [Nobody EXCEPT !.stage = "gone", !.mode = w.mode, !.calls = w.calls]
Stop(w) == [w EXCEPT !.stopped = TRUE]
Cancelled(w) == [w EXCEPT !.cancelled = TRUE, !.stopped = TRUE]
CallAt(w, k, stage) == [w EXCEPT !.calls[k] = stage]
Uncertain(w, k) == [w EXCEPT !.calls[k] = "uncertain", !.uncertain = TRUE]
\* A worker that reports neither delivers nor answers any more.
Reporting(w, why) == [w EXCEPT !.stage = "reporting", !.stopped = TRUE, !.why = why,
                               !.muted = FALSE, !.uncertain = FALSE]

Alive(r, t) == workers[r][t].stage \in {"executing", "finishing", "reporting"}
Stage(r, t, k) == workers[r][t].calls[k]

\* A request made with the execution signal can still be answered.
Listening(r, t) == Alive(r, t) /\ ~workers[r][t].stopped

Becomes(r, t, w) == workers' = [workers EXCEPT ![r][t] = w]

\* A task request that fails tells the worker of a cancel when that is why.
FailedCall(r, t, k) ==
    LET w == CallAt(workers[r][t], k, "over") IN
    \/ Becomes(r, t, w)
    \/ Listening(r, t) /\ Holds(r, t) /\ runs[r].cancelRequested /\ Becomes(r, t, Cancelled(w))

AgentInit ==
    /\ Init
    /\ policy \in [Conversation -> Mode]
    /\ workers = [r \in Run |-> [t \in Lease |-> Nobody]]
    /\ effects = [r \in Run |-> [k \in Call |-> <<>>]]

----------------------------------------------------------------------------
(* The life of a worker. *)

\* The claim's answer may be lost: claims are never retried, and then nobody works.
TakeJob(r) ==
    LET t == runs[r].claims + 1
        w == Fresh(policy[runs[r].conversation], runs[r].deadline) IN
    /\ Claim(r)
    /\ Becomes(r, t, w) \/ Becomes(r, t, Gone(w))
    /\ UNCHANGED <<policy, effects>>

\* What the answer to a heartbeat does to the worker.
ToldNothing(w, cancelRequested) == w
Told(w, cancelRequested) == IF cancelRequested THEN Cancelled(w) ELSE w

\* Every four seconds.  A refusal stops the worker, and so does an answer that
\* does not come.
HeartbeatAnswered(r, t) ==
    LET w == workers[r][t] IN
    /\ Listening(r, t)
    /\ \/ Renew(r, t) /\ Becomes(r, t, Told(w, runs[r].cancelRequested))
       \/ ~Holds(r, t) /\ UNCHANGED vars /\ Becomes(r, t, Stop(w))
    /\ UNCHANGED <<policy, effects>>

HeartbeatLost(r, t) ==
    /\ Listening(r, t)
    /\ Renew(r, t) \/ UNCHANGED vars
    /\ Becomes(r, t, Stop(workers[r][t]))
    /\ UNCHANGED <<policy, effects>>

\* The durable loop saves its snapshot.  A compaction has none.
Save(r, t) ==
    /\ Listening(r, t) /\ workers[r][t].stage = "executing" /\ ~runs[r].compact
    /\ \E exists \in BOOLEAN : SaveSnapshot(r, t, exists)
    /\ UNCHANGED <<policy, workers, effects>>

\* An event is delivered, or its delivery fails for good: that ends the run, except
\* for an observation, whose failure its caller swallows.  The chain of
\* deliveries stays rejected, and the next chunk of the stream finds it so.
Emit(r, t) ==
    LET w == workers[r][t] IN
    /\ w.stage = "executing" /\ (w.muted \/ Len(events[r]) < Chunks[t, w.mode])
    /\ \/ ~w.muted /\ AppendEvent(r, t, Len(events[r])) /\ UNCHANGED workers
       \/ ~w.muted /\ (AppendEvent(r, t, Len(events[r])) \/ UNCHANGED vars)
          /\ \/ Becomes(r, t, [w EXCEPT !.muted = TRUE])
             \/ Becomes(r, t, Reporting(w, "other"))
       \/ w.muted /\ UNCHANGED vars /\ Becomes(r, t, Reporting(w, "observation"))
    /\ UNCHANGED <<policy, effects>>

\* The model has answered, no call is open and none is uncertain.
Answer(r, t) ==
    LET w == workers[r][t] IN
    /\ w.stage = "executing" /\ ~w.stopped /\ ~w.uncertain
    /\ \A k \in Call : w.calls[k] \in Settled
    /\ Becomes(r, t, [w EXCEPT !.stage = "finishing"])
    /\ UNCHANGED <<vars, policy, effects>>

\* The execution ends without an answer; whatever goes on is aborted.
Fail(r, t) ==
    LET w == workers[r][t] IN
    /\ w.stage = "executing"
    /\ \/ (w.stopped \/ w.uncertain) /\ Becomes(r, t, Reporting(w, "other"))
       \/ Becomes(r, t, Reporting(w, "model"))
    /\ UNCHANGED <<vars, policy, effects>>

\* The answer is sent in; a refusal, or no answer, is reported like a failure.
Finish(r, t) ==
    LET w == workers[r][t] IN
    /\ w.stage = "finishing"
    /\ \/ /\ FinishSucceeded(r, t) \/ FinishUnanswered(r, t, "succeeded")
          /\ Becomes(r, t, Gone(w)) \/ Becomes(r, t, Reporting(w, "other"))
       \/ UNCHANGED vars /\ Becomes(r, t, Reporting(w, "other"))
    /\ UNCHANGED <<policy, effects>>

\* A failure is reported, within eight seconds or not at all.
Report(r, t) ==
    LET w == workers[r][t] IN
    /\ w.stage = "reporting"
    /\ \/ FinishUnanswered(r, t, IF w.cancelled THEN "cancelled" ELSE "failed")
       \/ /\ ~w.cancelled /\ w.why = "model"
          /\ \E s \in Run, ticks \in Budget..(Budget + Window) : FinishOverflow(r, t, s, ticks)
       \/ UNCHANGED vars
    /\ Becomes(r, t, Gone(w))
    /\ UNCHANGED <<policy, effects>>

Crash(r, t) ==
    /\ Alive(r, t)
    /\ Becomes(r, t, Gone(workers[r][t]))
    /\ UNCHANGED <<vars, policy, effects>>

----------------------------------------------------------------------------
(* One tool call, in its wrapped body. *)

\* Does a verdict let the call run?
LetsExpiredRun(verdict) == verdict \in {"approved", "expired"}
LetsRun(verdict) == verdict = "approved"

\* The model asks for a tool; its write mode decides whether a person is asked.
Begin(r, t, k) ==
    LET w == workers[r][t] IN
    /\ w.stage = "executing" /\ ~w.stopped /\ ~runs[r].compact
    /\ w.calls[k] = "idle"
    /\ Becomes(r, t, CallAt(w, k, IF k \notin Writes \/ w.mode = "auto" THEN "starting"
                                  ELSE IF w.mode = "ask" THEN "asking" ELSE "over"))
    /\ UNCHANGED <<vars, policy, effects>>

\* What the answer to approval-request or approval-poll does to the call.
Heard(r, t, k, status) ==
    Becomes(r, t, CallAt(workers[r][t], k, IF status = "pending" THEN "waiting"
                                           ELSE IF LetsRun(status) THEN "starting" ELSE "over"))

\* The gate has a state no reader has to change.
GateStands(r, k) == gates[r][k] # "none" /\ ~(gates[r][k] = "pending" /\ gateLeft[r][k] = 0)

\* approval-request: served and answered, served only, or failed.
Ask(r, t, k) ==
    /\ Stage(r, t, k) = "asking"
    /\ \/ /\ Listening(r, t)
          /\ \/ ApprovalRequest(r, t, k)
             \/ MayTask(r, t) /\ GateStands(r, k) /\ UNCHANGED vars
          /\ Heard(r, t, k, gates'[r][k])
       \/ ApprovalRequest(r, t, k) /\ UNCHANGED workers
       \/ Alive(r, t) /\ UNCHANGED vars /\ FailedCall(r, t, k)
    /\ UNCHANGED <<policy, effects>>

\* approval-poll, until the gate is decided or the worker's own wait, begun after
\* the gate's window, is over.
Poll(r, t, k) ==
    /\ Stage(r, t, k) = "waiting"
    /\ \/ /\ Listening(r, t)
          /\ \/ ApprovalPoll(r, t, k)
             \/ MayTask(r, t) /\ GateStands(r, k) /\ UNCHANGED vars
          /\ Heard(r, t, k, gates'[r][k])
       \/ /\ Listening(r, t) /\ (gates[r][k] # "pending" \/ gateLeft[r][k] = 0)
          /\ UNCHANGED vars
          /\ Becomes(r, t, CallAt(workers[r][t], k, "over"))
       \/ Alive(r, t) /\ UNCHANGED vars /\ FailedCall(r, t, k)
    /\ UNCHANGED <<policy, effects>>

\* A settled receipt answers for the call.
ReplayNothing(status) == FALSE
Cached(status) == status \in {"succeeded", "failed"}

\* tool-start.  A receipt that is there already is an earlier attempt's: settled,
\* it answers the call; running, the call's outcome is unknown, though the earlier
\* attempt may have been this very request.
Start(r, t, k) ==
    LET w == workers[r][t] IN
    /\ Stage(r, t, k) = "starting"
    /\ \/ Listening(r, t) /\ ToolStart(r, t, k) /\ Becomes(r, t, CallAt(w, k, "claimed"))
       \/ ToolStart(r, t, k) /\ UNCHANGED workers
       \/ /\ Listening(r, t) /\ MayTask(r, t) /\ receipts[r][k] # "none"
          /\ UNCHANGED vars
          /\ Becomes(r, t, IF receipts[r][k] = "running" THEN Uncertain(w, k)
                           ELSE CallAt(w, k, IF Cached(receipts[r][k]) THEN "over" ELSE "claimed"))
       \/ Alive(r, t) /\ UNCHANGED vars /\ FailedCall(r, t, k)
    /\ UNCHANGED <<policy, effects>>

\* The tool's own body, which no signal keeps from starting once the receipt is
\* claimed: it has its effect and returns, or throws before or after it.
Execute(r, t, k) ==
    LET w == workers[r][t] IN
    /\ Alive(r, t) /\ w.calls[k] = "claimed"
    /\ \/ \E threw \in BOOLEAN :
             /\ effects' = [effects EXCEPT ![r][k] = Append(@, [lease |-> t, threw |-> threw])]
             /\ Becomes(r, t, CallAt(w, k, IF threw THEN "threw" ELSE "returned"))
       \/ UNCHANGED effects /\ Becomes(r, t, CallAt(w, k, "threw"))
    /\ UNCHANGED <<vars, policy>>

\* An effect whose receipt cannot be settled is uncertain; a throw is a failure either way.
LoseQuietly(w, k) == CallAt(w, k, "over")
Lose(w, k) == IF w.calls[k] = "returned" THEN Uncertain(w, k) ELSE CallAt(w, k, "over")

\* tool-finish.  Served again, it writes nothing.
Record(r, t, k) ==
    LET w == workers[r][t]
        outcome == IF w.calls[k] = "returned" THEN "succeeded" ELSE "failed"
        Served == \/ ToolFinish(r, t, k, outcome)
                  \/ MayTask(r, t) /\ receipts[r][k] # "running" /\ UNCHANGED vars IN
    /\ Stage(r, t, k) \in {"returned", "threw"}
    /\ \/ Listening(r, t) /\ Served /\ Becomes(r, t, CallAt(w, k, "over"))
       \/ ToolFinish(r, t, k, outcome) /\ UNCHANGED workers
       \/ Alive(r, t) /\ UNCHANGED vars /\ Becomes(r, t, Lose(w, k))
    /\ UNCHANGED <<policy, effects>>

----------------------------------------------------------------------------
(* Time, users and the reaper. *)

\* The worker's timer runs to the deadline of its claim, whatever becomes of the run's.
Aged(w) == LET left == Less(w.timeLeft) IN
           [w EXCEPT !.timeLeft = left, !.stopped = @ \/ left = 0]

Clock(r) ==
    /\ Tick(r)
    /\ workers' = [workers EXCEPT ![r] = [t \in Lease |-> IF Alive(r, t) THEN Aged(@[t]) ELSE @[t]]]
    /\ UNCHANGED <<policy, effects>>

\* Conversations.update of the write-tool mode, at any time.
SetPolicy(c, mode) ==
    /\ policy[c] # mode
    /\ policy' = [policy EXCEPT ![c] = mode]
    /\ UNCHANGED <<vars, workers, effects>>

ToolCall(r, t, k) ==
    Begin(r, t, k) \/ Ask(r, t, k) \/ Poll(r, t, k) \/ Start(r, t, k) \/ Execute(r, t, k) \/ Record(r, t, k)

WorkerStep(r, t) ==
    \/ HeartbeatAnswered(r, t) \/ HeartbeatLost(r, t) \/ Save(r, t) \/ Emit(r, t) \/ Answer(r, t) \/ Fail(r, t)
    \/ Finish(r, t) \/ Report(r, t) \/ Crash(r, t)
    \/ \E k \in Call : ToolCall(r, t, k)

Elsewhere ==
    /\ \/ \E r \in Run : UserRequest(r) \/ ClaimForbidden(r) \/ LeaseLapse(r)
       \/ Reap
    /\ UNCHANGED <<policy, workers, effects>>

AgentNext ==
    \/ \E r \in Run : \/ TakeJob(r) \/ Clock(r)
                      \/ \E t \in Lease : WorkerStep(r, t)
    \/ \E c \in Conversation, mode \in Mode : SetPolicy(c, mode)
    \/ Elsewhere

AgentSpec == AgentInit /\ [][AgentNext]_agentVars

\* A worker's interval timer keeps firing, and a heartbeat is answered at last.
HeartbeatFairness == \A r \in Run, t \in Lease : WF_agentVars(HeartbeatAnswered(r, t))
AgentFairSpec == AgentSpec /\ HeartbeatFairness

----------------------------------------------------------------------------
(* What the workers and the queue promise together. *)

Effect == [lease : Lease, threw : BOOLEAN]

\* The type invariant: every worker and every history of effects has its shape.
AgentTypeOK ==
    /\ policy \in [Conversation -> Mode]
    /\ workers \in [Run -> [Lease -> Worker]]
    /\ effects \in [Run -> [Call -> Seq(Effect)]]

\* A tool's body has its effect at most once per call id, however often its run
\* is recovered, its requests repeated or their answers lost.
EffectAtMostOnce == \A r \in Run, k \in Call : Len(effects[r][k]) <= 1

\* A tool that writes business data had its effect only by the word of a person,
\* or because the conversation's mode, when the run was claimed, asked for none.
WritesNeedConsent ==
    \A r \in Run, k \in Writes : \A i \in 1..Len(effects[r][k]) :
        LET mode == workers[r][effects[r][k][i].lease].mode IN
        mode = "auto" \/ (mode = "ask" /\ gates[r][k] = "approved")

\* An answer that reached the user rests on no effect the platform has no receipt
\* for: in a run that succeeded every effect that returned is recorded.
AnswerRestsOnReceipts ==
    \A r \in Run, k \in Call : \A i \in 1..Len(effects[r][k]) :
        runs[r].status = "succeeded" /\ ~effects[r][k][i].threw => receipts[r][k] = "succeeded"

\* A worker whose run was handed to a successor, or ended by the reaper and
\* never again handed out, has no effect behind its successor's back.
NoEffectBehindSuccessor ==
    [][\A r \in Run, k \in Call : effects'[r][k] # effects[r][k] =>
         effects'[r][k][Len(effects'[r][k])].lease = runs[r].claims]_agentVars

\* A cancel reaches the worker: by its heartbeat, or by a task call that is refused.
CancelReachesWorker ==
    \A r \in Run, t \in Lease :
        runs[r].cancelRequested /\ Listening(r, t) ~> ~Listening(r, t)

----------------------------------------------------------------------------
(* What the repository says of the workers and their code does not do. *)

\* The comment in the approval-request operation: the wait for a person is not
\* reported as a timeout.
WaitIsNoTimeout ==
    \A r \in Run, t \in Lease, k \in Call :
        /\ MayTask(r, t) /\ Alive(r, t) /\ Stage(r, t, k) = "waiting"
        /\ gates[r][k] = "pending" /\ gateLeft[r][k] > 0
        => workers[r][t].timeLeft > 0

\* The comments on observations: one that cannot be recorded does not replace the
\* result of the model or of a tool.
ObservationEndsNoRun == \A r \in Run, t \in Lease : workers[r][t].why # "observation"

\* The comment on the write-tool mode: a run in progress keeps the one it started with.
KeepsItsMode ==
    \A r \in Run, t, u \in Lease :
        workers[r][t].stage # "none" /\ workers[r][u].stage # "none"
            => workers[r][t].mode = workers[r][u].mode

=============================================================================
