------------------------------ MODULE RunQueue ------------------------------
(***************************************************************************)
(* The control plane's agent-run queue: the PostgreSQL rows of a run, its  *)
(* event log, durable snapshot, tool receipts and approval gates, together *)
(* with the messages and summary boundary of its conversation, and every   *)
(* operation that changes them.                                            *)
(*                                                                         *)
(* Each action is one committed statement or transaction.  Requests of the *)
(* runtime carry a lease token, and any token ever issued for the run may  *)
(* arrive at any time: a late retry, a duplicate, or a runtime that has    *)
(* been given up for lost.  The reaper is three separate statements, so it *)
(* has a program counter.                                                  *)
(*                                                                         *)
(* Time is kept as what is left of it: a run's deadline and its gates'     *)
(* windows count down together, and a lease may lapse at any moment.       *)
(***************************************************************************)
EXTENDS Integers, Sequences, FiniteSets

CONSTANTS
    Run,            \* ids the runs table may ever hold
    Conversation,
    Assistant,      \* the conversations that belong to a platform assistant
    Request,        \* request ids chosen by clients
    Call,           \* tool-call ids of one run
    None,
    MaxRecovery,    \* times a lost run is put back in the queue (2 in the code)
    MaxSeq,         \* highest event sequence number (100000 in the code)
    Budget,         \* ticks a new run is given
    Window          \* ticks a gate waits for a person (10 minutes in the code)

ASSUME ConstantsAssumption ==
    /\ Assistant \subseteq Conversation
    /\ Run \cap Request = {}
    /\ None \notin Run \cup Request \cup Conversation
    /\ MaxRecovery \in Nat
    /\ MaxSeq \in Nat
    /\ Budget \in Nat \ {0}
    /\ Window \in Nat \ {0}

VARIABLES
    runs,       \* run -> its row
    events,     \* run -> the leases under which its events 0, 1, ... were written
    snapshots,  \* run -> does a durable-agentic-loop snapshot exist
    receipts,   \* run -> call -> the receipt's status
    gates,      \* run -> call -> the approval gate's status
    gateLeft,   \* run -> call -> ticks left of the gate's window
    messages,   \* conversation -> its messages in order of position
    through,    \* conversation -> through_position of its summary, 0 without one
    reaper      \* the statement the reaper executes next

vars == <<runs, events, snapshots, receipts, gates, gateLeft, messages, through, reaper>>

----------------------------------------------------------------------------
(* The rows. *)

Ended == {"succeeded", "failed", "cancelled"}
Status == {"absent", "queued", "running"} \cup Ended
ReceiptStatus == {"none", "running", "succeeded", "failed"}
Verdict == {"approved", "denied"}
GateStatus == {"none", "pending", "expired"} \cup Verdict
Reaper == {"requeue", "fail", "gates"}

Row == [status : Status, conversation : Conversation \cup {None},
        origin : Request \cup Run \cup {None},     \* request id, or the run that overflowed
        compact : BOOLEAN,                         \* context_action = 'compact'
        cancelRequested : BOOLEAN,
        recoveryCount : Nat,
        lease : Nat,                               \* number of the lease, 0 is NULL
        leaseLive : BOOLEAN,                       \* lease_until has not passed
        deadline : Nat,                            \* ticks left, 0 when it has passed
        claims : Nat]                              \* history: leases issued so far

NoRow == [status |-> "absent", conversation |-> None, origin |-> None, compact |-> FALSE,
          cancelRequested |-> FALSE, recoveryCount |-> 0, lease |-> 0,
          leaseLive |-> FALSE, deadline |-> 0, claims |-> 0]

\* A freshly inserted row.
Queued(c, origin, compact, ticks) ==
    [NoRow EXCEPT !.status = "queued", !.conversation = c, !.origin = origin,
                  !.compact = compact, !.deadline = ticks]

\* The columns each statement assigns.
Stopped(row) == [row EXCEPT !.cancelRequested = TRUE,
                            !.status = IF @ = "queued" THEN "cancelled" ELSE @]
Leased(row) == [row EXCEPT !.status = "running", !.lease = row.claims + 1,
                           !.leaseLive = TRUE, !.claims = @ + 1]
Refused(row) == [row EXCEPT !.status = "failed", !.lease = 0, !.leaseLive = FALSE]
Renewed(row) == [row EXCEPT !.leaseLive = TRUE]
Lapsed(row) == [row EXCEPT !.leaseLive = FALSE]
Until(row, ticks) == [row EXCEPT !.deadline = ticks]
EndedAs(row, status) == [row EXCEPT !.status = IF row.cancelRequested THEN "cancelled" ELSE status]
Requeued(row) == [row EXCEPT !.status = "queued", !.lease = 0, !.leaseLive = FALSE,
                             !.recoveryCount = @ + 1]

Message == [role : {"user", "assistant"}, run : Run]

Active(r) == runs[r].status \in {"queued", "running"}
BusyRunning(c) == \E r \in Run : runs[r].status = "running" /\ runs[r].conversation = c
Busy(c) == \E r \in Run : Active(r) /\ runs[r].conversation = c
RunningReceipt(r) == \E k \in Call : receipts[r][k] = "running"

HoldsAnyStatus(r, t) == runs[r].lease = t /\ runs[r].leaseLive /\ runs[r].deadline > 0

\* Queue.active: the request's token is the run's current, unexpired lease.
Holds(r, t) ==
    /\ runs[r].status = "running"
    /\ runs[r].lease = t
    /\ runs[r].leaseLive
    /\ runs[r].deadline > 0

\* Queue.task: as above, and no task operation is served once a cancel is requested.
MayTask(r, t) == Holds(r, t) /\ ~runs[r].cancelRequested

Init ==
    /\ runs = [r \in Run |-> NoRow]
    /\ events = [r \in Run |-> <<>>]
    /\ snapshots = [r \in Run |-> FALSE]
    /\ receipts = [r \in Run |-> [k \in Call |-> "none"]]
    /\ gates = [r \in Run |-> [k \in Call |-> "none"]]
    /\ gateLeft = [r \in Run |-> [k \in Call |-> 0]]
    /\ messages = [c \in Conversation |-> <<>>]
    /\ through = [c \in Conversation |-> 0]
    /\ reaper = "requeue"

----------------------------------------------------------------------------
(* What users do. *)

\* UNIQUE(conversation_id, request_id), looked up first.
RepeatedWhileActive(c, q) ==
    \E s \in Run : Active(s) /\ runs[s].conversation = c /\ runs[s].origin = q
Repeated(c, q) == \E s \in Run : runs[s].conversation = c /\ runs[s].origin = q

\* Conversations.enqueue.  A repeated request id returns the earlier run and
\* changes nothing.  A run may compact, on command or automatically: when it does
\* is up to the history, which may be inherited (see Conversations).
Enqueue(c, q, r, compact) ==
    /\ runs[r].status = "absent"
    /\ ~Repeated(c, q)
    /\ ~Busy(c)
    /\ runs' = [runs EXCEPT ![r] = Queued(c, q, compact, Budget)]
    /\ messages' = [messages EXCEPT ![c] = Append(@, [role |-> "user", run |-> r])]
    /\ UNCHANGED <<events, snapshots, receipts, gates, gateLeft, through, reaper>>

\* Conversations.cancel: a queued run ends at once, a running one is asked to stop.
Cancel(r) ==
    /\ Active(r)
    /\ runs' = [runs EXCEPT ![r] = Stopped(@)]
    /\ UNCHANGED <<events, snapshots, receipts, gates, gateLeft, messages, through, reaper>>

\* readApproval: whoever reads a pending gate past its window retires it.
ReadApproval(r, k) ==
    /\ gates[r][k] = "pending" /\ gateLeft[r][k] = 0
    /\ gates' = [gates EXCEPT ![r][k] = "expired"]

\* Conversations.workspace reads every gate of a run whatever the run's status.
Workspace(r, k) ==
    /\ ReadApproval(r, k)
    /\ UNCHANGED <<runs, events, snapshots, receipts, gateLeft, messages, through, reaper>>

\* Conversations.decideApproval.  Past the window, and on a decided gate, the
\* transaction is rolled back or writes nothing.
DecideApproval(r, k, verdict) ==
    /\ gates[r][k] = "pending" /\ gateLeft[r][k] > 0
    /\ gates' = [gates EXCEPT ![r][k] = verdict]
    /\ UNCHANGED <<runs, events, snapshots, receipts, gateLeft, messages, through, reaper>>

----------------------------------------------------------------------------
(* What the runtime asks for. *)

\* Queue.claim: SKIP LOCKED lets any queued run be the one picked.
Claim(r) ==
    /\ runs[r].status = "queued" /\ runs[r].deadline > 0
    /\ runs' = [runs EXCEPT ![r] = Leased(@)]
    /\ UNCHANGED <<events, snapshots, receipts, gates, gateLeft, messages, through, reaper>>

\* Queue.claim of an assistant's run whose user has lost access to the project.
ClaimForbidden(r) ==
    /\ runs[r].status = "queued" /\ runs[r].deadline > 0
    /\ runs[r].conversation \in Assistant
    /\ runs' = [runs EXCEPT ![r] = Refused(@)]
    /\ UNCHANGED <<events, snapshots, receipts, gates, gateLeft, messages, through, reaper>>

\* Queue.renew
Renew(r, t) ==
    /\ Holds(r, t)
    /\ runs' = [runs EXCEPT ![r] = Renewed(@)]
    /\ UNCHANGED <<events, snapshots, receipts, gates, gateLeft, messages, through, reaper>>

\* Queue.append: only the next number is written; an earlier one is compared
\* with what was written, never replaced.
AppendEvent(r, t, seq) ==
    /\ Holds(r, t)
    /\ seq = Len(events[r]) /\ seq <= MaxSeq
    /\ events' = [events EXCEPT ![r] = Append(@, t)]
    /\ UNCHANGED <<runs, snapshots, receipts, gates, gateLeft, messages, through, reaper>>

\* Task operations save and delete.
SaveSnapshot(r, t, exists) ==
    /\ MayTask(r, t)
    /\ snapshots' = [snapshots EXCEPT ![r] = exists]
    /\ UNCHANGED <<runs, events, receipts, gates, gateLeft, messages, through, reaper>>

\* Task operation tool-start.  A settled receipt is answered from the cache, a
\* running one with TOOL_OUTCOME_UNKNOWN; neither writes.
ToolStart(r, t, k) ==
    /\ MayTask(r, t)
    /\ receipts[r][k] = "none"
    /\ receipts' = [receipts EXCEPT ![r][k] = "running"]
    /\ UNCHANGED <<runs, events, snapshots, gates, gateLeft, messages, through, reaper>>

\* Task operation tool-finish.
ToolFinish(r, t, k, outcome) ==
    /\ MayTask(r, t)
    /\ receipts[r][k] = "running"
    /\ receipts' = [receipts EXCEPT ![r][k] = outcome]
    /\ UNCHANGED <<runs, events, snapshots, gates, gateLeft, messages, through, reaper>>

\* A human wait is not execution time: the deadline is at least the gate's window away.
StretchNothing(ticks) == ticks
Stretch(ticks) == IF ticks < Window THEN Window ELSE ticks

\* Task operation approval-request: opens the gate and stretches the deadline to
\* cover its window, or reads the gate that is there.
ApprovalRequest(r, t, k) ==
    /\ MayTask(r, t)
    /\ \/ /\ gates[r][k] = "none"
          /\ gates' = [gates EXCEPT ![r][k] = "pending"]
          /\ gateLeft' = [gateLeft EXCEPT ![r][k] = Window]
          /\ runs' = [runs EXCEPT ![r] = Until(@, Stretch(@.deadline))]
       \/ ReadApproval(r, k) /\ UNCHANGED <<runs, gateLeft>>
    /\ UNCHANGED <<events, snapshots, receipts, messages, through, reaper>>

\* Task operation approval-poll.
ApprovalPoll(r, t, k) ==
    /\ MayTask(r, t)
    /\ ReadApproval(r, k)
    /\ UNCHANGED <<runs, events, snapshots, receipts, gateLeft, messages, through, reaper>>

\* Every way Queue.finish retires the run's own gates.
CloseGates(r) ==
    gates' = [gates EXCEPT ![r] = [k \in Call |-> IF @[k] = "pending" THEN "expired" ELSE @[k]]]

\* A compaction covers everything up to and including its own reply.
BoundaryShort(c, r) == IF runs[r].compact THEN Len(messages[c]) ELSE through[c]
Boundary(c, r) == IF runs[r].compact THEN Len(messages[c]) + 1 ELSE through[c]

\* Queue.finish of a run reported succeeded that nobody cancelled: its reply is
\* saved, and a compaction moves the summary's boundary to that reply.
FinishSucceeded(r, t) ==
    LET c == runs[r].conversation IN
    /\ Holds(r, t) /\ ~runs[r].cancelRequested
    /\ runs' = [runs EXCEPT ![r] = EndedAs(@, "succeeded")]
    /\ messages' = [messages EXCEPT ![c] = Append(@, [role |-> "assistant", run |-> r])]
    /\ through' = [through EXCEPT ![c] = Boundary(c, r)]
    /\ CloseGates(r)
    /\ UNCHANGED <<events, snapshots, receipts, gateLeft, reaper>>

\* Queue.finish of a run reported failed or cancelled, or cancelled meanwhile
\* whatever the report says.
FinishUnanswered(r, t, reported) ==
    /\ Holds(r, t)
    /\ runs[r].cancelRequested \/ reported # "succeeded"
    /\ runs' = [runs EXCEPT ![r] = EndedAs(@, reported)]
    /\ CloseGates(r)
    /\ UNCHANGED <<events, snapshots, receipts, gateLeft, messages, through, reaper>>

\* Queue.finish of a run whose provider confirmed a context overflow: the run
\* fails and, the conversation being free, a compaction run s is queued with the
\* time its parent was given, gate windows included.
FinishOverflow(r, t, s, ticks) ==
    LET c == runs[r].conversation IN
    /\ Holds(r, t) /\ ~runs[r].cancelRequested
    /\ runs[s].status = "absent"
    /\ \A o \in Run \ {r} : ~(Active(o) /\ runs[o].conversation = c)
    /\ runs' = [runs EXCEPT ![r] = EndedAs(@, "failed"), ![s] = Queued(c, r, TRUE, ticks)]
    /\ CloseGates(r)
    /\ UNCHANGED <<events, snapshots, receipts, gateLeft, messages, through, reaper>>

----------------------------------------------------------------------------
(* The reaper, every five seconds and never overlapping itself. *)

Lost(r) == runs[r].status = "running" /\ ~runs[r].leaseLive

RecoverableMidTool(r) ==
    /\ Lost(r) /\ runs[r].deadline > 0 /\ ~runs[r].cancelRequested
    /\ runs[r].recoveryCount < MaxRecovery /\ snapshots[r]
RecoverableCancelled(r) ==
    /\ Lost(r) /\ runs[r].deadline > 0 /\ runs[r].recoveryCount < MaxRecovery
    /\ snapshots[r] /\ ~RunningReceipt(r)

\* The first statement's WHERE clause.
Recoverable(r) ==
    /\ Lost(r) /\ runs[r].deadline > 0
    /\ ~runs[r].cancelRequested
    /\ runs[r].recoveryCount < MaxRecovery
    /\ snapshots[r]
    /\ ~RunningReceipt(r)

OverdueRunning(r) == runs[r].status = "running" /\ (runs[r].deadline = 0 \/ Lost(r))

\* The second statement's.
Overdue(r) == (Active(r) /\ runs[r].deadline = 0) \/ Lost(r)

\* The third statement's.
OrphanedByFailure(r) == runs[r].status = "failed"
Orphaned(r) == ~Active(r)

ReapRequeue ==
    /\ reaper = "requeue" /\ reaper' = "fail"
    /\ runs' = [r \in Run |-> IF Recoverable(r) THEN Requeued(runs[r]) ELSE runs[r]]
    /\ UNCHANGED <<events, snapshots, receipts, gates, gateLeft, messages, through>>

ReapFail ==
    /\ reaper = "fail" /\ reaper' = "gates"
    /\ runs' = [r \in Run |-> IF Overdue(r) THEN EndedAs(runs[r], "failed") ELSE runs[r]]
    /\ UNCHANGED <<events, snapshots, receipts, gates, gateLeft, messages, through>>

ReapGates ==
    /\ reaper = "gates" /\ reaper' = "requeue"
    /\ gates' = [r \in Run |-> [k \in Call |->
                   IF gates[r][k] = "pending" /\ Orphaned(r) THEN "expired" ELSE gates[r][k]]]
    /\ UNCHANGED <<runs, events, snapshots, receipts, gateLeft, messages, through>>

Reap == ReapRequeue \/ ReapFail \/ ReapGates

----------------------------------------------------------------------------
(* Time. *)

Less(n) == IF n = 0 THEN 0 ELSE n - 1

\* A tick of the clock for one run: its deadline and its gates' windows shrink
\* together.  The clock of a settled run without a pending gate stands still.
Tick(r) ==
    /\ \/ Active(r) /\ runs[r].deadline > 0
       \/ \E k \in Call : gates[r][k] = "pending" /\ gateLeft[r][k] > 0
    /\ runs' = [runs EXCEPT ![r] = IF Active(r) THEN Until(@, Less(@.deadline)) ELSE @]
    /\ gateLeft' = [gateLeft EXCEPT ![r] = [k \in Call |->
                        IF gates[r][k] = "pending" THEN Less(@[k]) ELSE @[k]]]
    /\ UNCHANGED <<events, snapshots, receipts, gates, messages, through, reaper>>

\* Twenty seconds without a renewal.
LeaseLapse(r) ==
    /\ runs[r].status = "running" /\ runs[r].leaseLive
    /\ runs' = [runs EXCEPT ![r] = Lapsed(@)]
    /\ UNCHANGED <<events, snapshots, receipts, gates, gateLeft, messages, through, reaper>>

----------------------------------------------------------------------------

\* A request of the runtime for run r under token t.
RuntimeRequest(r, t) ==
    \/ Renew(r, t)
    \/ \E seq \in 0..MaxSeq : AppendEvent(r, t, seq)
    \/ \E exists \in BOOLEAN : SaveSnapshot(r, t, exists)
    \/ \E k \in Call : \/ ToolStart(r, t, k)
                       \/ \E outcome \in {"succeeded", "failed"} : ToolFinish(r, t, k, outcome)
                       \/ ApprovalRequest(r, t, k)
                       \/ ApprovalPoll(r, t, k)
    \/ FinishSucceeded(r, t)
    \/ \E reported \in Ended : FinishUnanswered(r, t, reported)
    \/ \E s \in Run, ticks \in Budget..(Budget + Window) : FinishOverflow(r, t, s, ticks)

UserRequest(r) ==
    \/ \E c \in Conversation, q \in Request, compact \in BOOLEAN : Enqueue(c, q, r, compact)
    \/ Cancel(r)
    \/ \E k \in Call : Workspace(r, k) \/ \E verdict \in Verdict : DecideApproval(r, k, verdict)

Next ==
    \/ \E r \in Run :
         \/ UserRequest(r)
         \/ Claim(r) \/ ClaimForbidden(r)
         \/ \E t \in 1..runs[r].claims : RuntimeRequest(r, t)
         \/ Tick(r) \/ LeaseLapse(r)
    \/ Reap

Spec == Init /\ [][Next]_vars

\* Time passes and the reaper's timer keeps firing; nothing obliges a runtime to
\* answer, to claim or to renew, nor a person to decide.
Fairness == WF_vars(Reap) /\ \A r \in Run : WF_vars(Tick(r))

FairSpec == Spec /\ Fairness

----------------------------------------------------------------------------
(* What the queue promises. *)

\* The type invariant: every row, log, receipt, gate and boundary has its shape.
TypeOK ==
    /\ runs \in [Run -> Row]
    /\ events \in [Run -> Seq(Nat)]
    /\ snapshots \in [Run -> BOOLEAN]
    /\ receipts \in [Run -> [Call -> ReceiptStatus]]
    /\ gates \in [Run -> [Call -> GateStatus]]
    /\ gateLeft \in [Run -> [Call -> Nat]]
    /\ messages \in [Conversation -> Seq(Message)]
    /\ through \in [Conversation -> Nat]
    /\ reaper \in Reaper

\* A conversation never has two runs in progress, whichever of a user's turn and
\* an overflow's compaction run comes first.
OneActiveRun ==
    \A r, s \in Run : Active(r) /\ Active(s) /\ runs[r].conversation = runs[s].conversation
                      => r = s

\* A request id starts one run however often it is sent, and an overflow queues
\* one compaction run.
OneRunPerRequest ==
    \A r, s \in Run :
        /\ runs[r].status # "absent" /\ runs[s].status # "absent"
        /\ runs[r].conversation = runs[s].conversation /\ runs[r].origin = runs[s].origin
        => r = s

\* A conversation's runs take turns, and a request makes one of them however often it is sent.
RunsTakeTurns == OneActiveRun /\ OneRunPerRequest

\* A reply stands directly behind the question it answers; only the reply of an
\* overflow's compaction run, which has no question, may stand elsewhere.
RepliesFollowQuestions ==
    \A c \in Conversation : \A i \in 1..Len(messages[c]) :
        LET m == messages[c][i] IN
        m.role = "assistant" /\ runs[m.run].origin \in Request
            => i > 1 /\ messages[c][i - 1] = [role |-> "user", run |-> m.run]

\* A run has a saved reply exactly when it succeeded, and then only one: no late or
\* repeated finish adds another.
RepliedIffSucceeded ==
    \A c \in Conversation, r \in Run :
        LET replies == {i \in 1..Len(messages[c]) :
                            messages[c][i] = [role |-> "assistant", run |-> r]} IN
        IF runs[r].conversation = c /\ runs[r].status = "succeeded"
        THEN \E i \in replies : replies = {i}
        ELSE replies = {}

\* The event log of a run is one lease after another: what a runtime that lost its
\* lease still sends never lands behind the events of its successor.
EventsFenced ==
    \A r \in Run : \A i, j \in 1..Len(events[r]) : i <= j => events[r][i] <= events[r][j]

\* A run waiting to be claimed, again or for the first time, has no tool call
\* whose outcome is unknown.
QueuedHasNoOpenTool == \A r \in Run : runs[r].status = "queued" => ~RunningReceipt(r)

\* A run somebody asked to cancel is never queued again, never succeeds and never
\* fails: it is still running or it ended cancelled.
CancelHonoured ==
    \A r \in Run : runs[r].cancelRequested => runs[r].status \in {"running", "cancelled"}

\* While a run waits for a person it is not overtaken by its own deadline.
GateWithinDeadline ==
    \A r \in Run, k \in Call :
        gates[r][k] = "pending" /\ Active(r) => gateLeft[r][k] <= runs[r].deadline

\* A run is handed out at most MaxRecovery times more than once.
ClaimsBounded == \A r \in Run : runs[r].claims <= MaxRecovery + 1

\* The summary's boundary is the latest reply of a compaction.
BoundaryIsLatestSummary ==
    \A c \in Conversation :
        LET summaries == {i \in 1..Len(messages[c]) :
                            messages[c][i].role = "assistant" /\ runs[messages[c][i].run].compact} IN
        /\ \A i \in summaries : i <= through[c]
        /\ through[c] > 0 => through[c] \in summaries

\* What a lost worker leaves behind: neither an event behind those of its successor,
\* nor a run that is claimed again over a call whose outcome is unknown.
FencedByLease == EventsFenced /\ QueuedHasNoOpenTool

\* A conversation reads as a transcript: every answer under its question, one answer
\* for each run that succeeded and none for the others, and the summary's boundary
\* at the last summary.
Transcript == RepliesFollowQuestions /\ RepliedIffSucceeded /\ BoundaryIsLatestSummary

\* Nothing a runtime, the reaper or a user does later changes an ended run, its
\* log, its snapshot or its receipts.
EndedIsFinal ==
    [][\A r \in Run : runs[r].status \in Ended =>
         /\ runs'[r] = runs[r] /\ events'[r] = events[r]
         /\ snapshots'[r] = snapshots[r] /\ receipts'[r] = receipts[r]]_vars

\* What was decided, or expired, at a gate stays so: a runtime never reads a verdict
\* that flips.
VerdictIsFinal ==
    [][\A r \in Run, k \in Call : gates[r][k] \in Verdict \cup {"expired"}
                                    => gates'[r][k] = gates[r][k]]_vars

\* What is over stays as it ended, the run and the question alike.
NothingIsTakenBack == EndedIsFinal /\ VerdictIsFinal

\* Every run ends: by its runtime, by a cancel, or by the reaper once its lease or
\* its deadline has passed.
EveryRunEnds == \A r \in Run : Active(r) ~> runs[r].status \in Ended

\* No question outlives its run for good.
GatesSettle ==
    \A r \in Run, k \in Call : gates[r][k] = "pending" /\ runs[r].status \in Ended
                                    ~> gates[r][k] # "pending"

\* The queue implements the life cycle of RunLifecycle: leases, deadlines, the
\* reaper's three statements and late requests add nothing to what a conversation
\* can observe.
Lifecycle == INSTANCE RunLifecycle WITH
    Attempts <- MaxRecovery + 1,
    phase <- [r \in Run |-> runs[r].status],
    home <- [r \in Run |-> runs[r].conversation],
    stopping <- {r \in Run : runs[r].cancelRequested},
    attempts <- [r \in Run |-> runs[r].claims],
    transcript <- messages

ImplementsLifecycle == Lifecycle!Spec

----------------------------------------------------------------------------
(* What is needed besides, for the promises to be inductive. *)

\* What is always true of a row.  The number of leases issued follows the number
\* of recoveries; that is what bounds it.
RowInv(row) ==
    /\ row.status = "absent" => row.conversation = None /\ row.origin = None /\ row.claims = 0
    /\ row.status # "absent" => row.conversation \in Conversation /\ row.origin \in Request \cup Run
    /\ row.cancelRequested => row.status \in {"running", "cancelled"}
    /\ row.recoveryCount <= MaxRecovery
    /\ row.status \in {"absent", "queued"} => row.claims <= row.recoveryCount
    /\ row.claims <= row.recoveryCount + 1
    /\ row.status = "running" => row.lease = row.claims

Rows == \A r \in Run : RowInv(runs[r])

\* No event was written under a lease that has not been issued yet.
LogInv == \A r \in Run : \A i \in 1..Len(events[r]) : events[r][i] <= runs[r].claims

\* A run that does not exist has no tool call and no gate.
BlankInv ==
    \A r \in Run : runs[r].status = "absent" =>
        \A k \in Call : receipts[r][k] = "none" /\ gates[r][k] = "none"

\* Messages belong to runs of their conversation, and while a user's turn is in
\* progress its question is the last message.
TurnInv ==
    \A c \in Conversation :
        /\ \A i \in 1..Len(messages[c]) : runs[messages[c][i].run].conversation = c
        /\ \A r \in Run :
             Active(r) /\ runs[r].conversation = c /\ runs[r].origin \in Request =>
                /\ messages[c] # <<>>
                /\ messages[c][Len(messages[c])] = [role |-> "user", run |-> r]

IInv ==
    /\ TypeOK /\ Rows /\ LogInv /\ BlankInv /\ TurnInv
    /\ OneActiveRun /\ EventsFenced /\ QueuedHasNoOpenTool /\ GateWithinDeadline
    /\ RepliesFollowQuestions /\ BoundaryIsLatestSummary

----------------------------------------------------------------------------
(* What the repository says of the queue and its code does not do. *)

\* The comment in Queue.finish: on a finished run, the decision nobody made can
\* never be made.
NoVerdictAfterEnd ==
    [][\A r \in Run, k \in Call : gates[r][k] = "pending" /\ gates'[r][k] \in Verdict
                                    => Active(r)]_vars
=============================================================================
