------------------------------ MODULE RunBudget ------------------------------
(***************************************************************************)
(* What the model calls of one agent run may spend, and the subagents that *)
(* spend it together with the root agent.                                  *)
(*                                                                         *)
(* The control plane keeps one row per model request, across recoveries.   *)
(* Every worker keeps a budget of its own in memory, which starts empty    *)
(* when the run is recovered; a worker that lost its lease may go on with  *)
(* what it started.  A request reserves an estimate before the provider is *)
(* called and settles what the provider reported afterwards; both are      *)
(* repeated until they are answered or given up.                           *)
(*                                                                         *)
(* The scheduler of subagents lives in the memory of the worker that holds *)
(* the lease: an abandoned worker's scheduler shares nothing with anybody. *)
(***************************************************************************)
EXTENDS Integers, Sequences, FiniteSets, FiniteSetsExt, SequencesExt

CONSTANTS
    Request,        \* ids of model requests
    Child,          \* calls of delegate_task
    Attempt,        \* bound: the workers the run may be handed to, 1..n
    Estimate,       \* bound: what a request may be estimated at
    Usage,          \* bound: what a provider may report
    MaxModelCalls,  \* executionLimits
    MaxTokens,
    MaxCalls,       \* delegation: subagents of one run
    MaxParallel     \* ... and how many work at a time

ASSUME BudgetAssumption ==
    /\ Attempt \subseteq Nat \ {0} /\ 1 \in Attempt
    /\ Estimate \subseteq Nat \ {0} /\ Usage \subseteq Nat
    /\ {MaxModelCalls, MaxTokens, MaxCalls, MaxParallel} \subseteq Nat \ {0}

VARIABLES
    attempt,    \* the worker that holds the lease
    rows,       \* request -> its row in run_model_reservations
    budgets,    \* attempt -> its worker's budget
    requests,   \* request -> where it stands in budget.fetch
    called,     \* history: the requests the provider was called with
    child,      \* subagent -> where it stands in perform
    accepted, active, waiters, aborted      \* the scheduler's

store == <<attempt, rows>>
memory == <<budgets, requests, called>>
scheduler == <<child, accepted, active, waiters, aborted>>
vars == <<store, memory, scheduler>>

----------------------------------------------------------------------------

Unknown == -1       \* actual_tokens IS NULL
NoRow == [estimated |-> 0, actual |-> Unknown]
NoRequest == [stage |-> "none", by |-> 0, estimate |-> 0, actual |-> Unknown, dropped |-> FALSE]
NewBudget == [calls |-> 0, reserved |-> 0, failed |-> FALSE, open |-> TRUE]

Reserved(q) == rows[q].estimated > 0
Counted(q) == IF rows[q].actual = Unknown THEN rows[q].estimated ELSE rows[q].actual
Spent == MapThenSumSet(Counted, {q \in Request : Reserved(q)})
CallsReserved == Cardinality({q \in Request : Reserved(q)})

Init ==
    /\ attempt = 1
    /\ rows = [q \in Request |-> NoRow]
    /\ budgets = [a \in Attempt |-> NewBudget]
    /\ requests = [q \in Request |-> NoRequest]
    /\ called = {}
    /\ child = [c \in Child |-> "idle"]
    /\ accepted = 0 /\ active = 0 /\ waiters = <<>> /\ aborted = FALSE

\* The run is put back in the queue and handed to a worker with an empty memory.
Recover ==
    /\ budgets[attempt].open /\ attempt + 1 \in Attempt
    /\ attempt' = attempt + 1
    /\ child' = [c \in Child |-> "idle"]
    /\ accepted' = 0 /\ active' = 0 /\ waiters' = <<>> /\ aborted' = FALSE
    /\ UNCHANGED <<rows, memory>>

----------------------------------------------------------------------------
(* budget.fetch *)

At(q, stage) == requests[q].stage = stage
Goes(q, stage) == requests' = [requests EXCEPT ![q].stage = stage]
Fails(q) ==
    /\ Goes(q, "over")
    /\ budgets' = [budgets EXCEPT ![requests[q].by].failed = TRUE]

\* What the budget of the worker allows, the request included.
Within(b) == b.calls <= MaxModelCalls /\ b.reserved <= MaxTokens

\* A request begins: the worker counts it, and over the limits the budget has failed.
Begin(q, a, estimate) ==
    LET b == [budgets[a] EXCEPT !.calls = @ + 1, !.reserved = @ + estimate] IN
    /\ At(q, "none") /\ a <= attempt /\ budgets[a].open /\ ~budgets[a].failed
    /\ requests' = [requests EXCEPT ![q] = [stage |-> IF Within(b) THEN "reserving" ELSE "over",
                                            by |-> a, estimate |-> estimate, actual |-> Unknown,
                                            dropped |-> FALSE]]
    /\ budgets' = [budgets EXCEPT ![a] = [b EXCEPT !.failed = ~Within(b)]]
    /\ UNCHANGED <<store, called, scheduler>>

\* Only the worker that holds the lease is served.
Fenced(q) == requests[q].by = attempt /\ budgets[attempt].open

HasRoomForLast(estimate) == CallsReserved <= MaxModelCalls /\ Spent + estimate <= MaxTokens
HasRoom(estimate) == CallsReserved < MaxModelCalls /\ Spent + estimate <= MaxTokens

\* Task operation reserve writes the row; repeated, it finds it.
Reserve(q) ==
    /\ At(q, "reserving") /\ Fenced(q)
    /\ ~Reserved(q) /\ HasRoom(requests[q].estimate)
    /\ rows' = [rows EXCEPT ![q] = [estimated |-> requests[q].estimate, actual |-> Unknown]]
    /\ UNCHANGED <<attempt, memory, scheduler>>

\* The answer arrives: the provider may be called.
Granted(q) ==
    /\ At(q, "reserving") /\ Reserved(q)
    /\ Goes(q, "granted")
    /\ UNCHANGED <<store, budgets, called, scheduler>>

\* The reservation is refused, or no answer to it arrives in time.
Refused(q) ==
    /\ At(q, "reserving")
    /\ Fails(q)
    /\ UNCHANGED <<store, called, scheduler>>

Call(q) ==
    /\ At(q, "granted")
    /\ called' = called \cup {q}
    /\ Goes(q, "called")
    /\ UNCHANGED <<store, budgets, scheduler>>

\* The provider's answer ends, or whoever reads it drops it, with its usage known.
Metered(q, actual) ==
    /\ At(q, "called")
    /\ requests' = [requests EXCEPT ![q].stage = "settling", ![q].actual = actual]
    /\ UNCHANGED <<store, budgets, called, scheduler>>

\* It ends without one: the estimate stands.
Unmetered(q) ==
    /\ At(q, "called")
    /\ Goes(q, "over")
    /\ UNCHANGED <<store, budgets, called, scheduler>>

\* The provider does not answer, or its answer breaks off.
BreaksOff(q) ==
    /\ At(q, "called")
    /\ Fails(q)
    /\ UNCHANGED <<store, called, scheduler>>

\* Task operation settle; repeated, it writes the same again.
Settle(q) ==
    /\ At(q, "settling") /\ Fenced(q)
    /\ Reserved(q) /\ rows[q].actual \in {Unknown, requests[q].actual}
    /\ rows' = [rows EXCEPT ![q].actual = requests[q].actual]
    /\ UNCHANGED <<attempt, memory, scheduler>>

\* The worker exchanges its estimate for what was used.
Exchanged(reserved, r) == Max({0, reserved - r.estimate + r.actual})

Settled(q) ==
    /\ At(q, "settling") /\ rows[q].actual = requests[q].actual
    /\ Goes(q, "over")
    /\ budgets' = [budgets EXCEPT ![requests[q].by].reserved = Exchanged(@, requests[q])]
    /\ UNCHANGED <<store, called, scheduler>>

\* The settlement is refused or not answered.  That fails the budget, but not behind
\* an answer that was dropped: cancel() tells whoever dropped it and nobody else.
Unsettled(q) ==
    /\ At(q, "settling")
    /\ \/ Fails(q)
       \/ /\ requests' = [requests EXCEPT ![q].stage = "over", ![q].dropped = TRUE]
          /\ UNCHANGED budgets
    /\ UNCHANGED <<store, called, scheduler>>

----------------------------------------------------------------------------
(* createDelegation: a scheduler of one run's subagents. *)

Over == {"succeeded", "failed", "cancelled", "rejected"}
Working == {"entered", "running"}
Moves(c, stage) == child' = [child EXCEPT ![c] = stage]

\* delegate_task: within the run's number of subagents one is accepted.
Delegate(c) ==
    /\ budgets[attempt].open /\ child[c] = "idle"
    /\ IF accepted < MaxCalls
       THEN Moves(c, "accepted") /\ accepted' = accepted + 1
       ELSE Moves(c, "rejected") /\ UNCHANGED accepted
    /\ UNCHANGED <<store, memory, active, waiters, aborted>>

\* Its first report cannot be delivered: it has no slot to give back.
ReportFails(c) ==
    /\ child[c] = "accepted"
    /\ Moves(c, IF aborted THEN "cancelled" ELSE "failed")
    /\ UNCHANGED <<store, memory, accepted, active, waiters, aborted>>

\* acquire: a slot that is free, or a place in the line.
Acquire(c) ==
    /\ child[c] = "accepted"
    /\ \/ aborted /\ Moves(c, "cancelled") /\ UNCHANGED <<active, waiters>>
       \/ /\ ~aborted /\ active < MaxParallel
          /\ Moves(c, "entered") /\ active' = active + 1 /\ UNCHANGED waiters
       \/ /\ ~aborted /\ active >= MaxParallel
          /\ Moves(c, "waiting") /\ waiters' = Append(waiters, c) /\ UNCHANGED active
    /\ UNCHANGED <<store, memory, accepted, aborted>>

\* release: the slot goes to the first in line, unless everything is aborted.
ReleaseToNobody(c, stage) ==
    Moves(c, stage) /\ active' = active - 1 /\ UNCHANGED waiters
Release(c, stage) ==
    IF aborted \/ waiters = <<>>
    THEN Moves(c, stage) /\ active' = active - 1 /\ UNCHANGED waiters
    ELSE /\ child' = [child EXCEPT ![c] = stage, ![Head(waiters)] = "entered"]
         /\ waiters' = Tail(waiters) /\ UNCHANGED active

\* The subagent has its slot: it reports so and starts, unless it was aborted meanwhile.
Enter(c) ==
    /\ child[c] = "entered"
    /\ \/ ~aborted /\ Moves(c, "running") /\ UNCHANGED <<active, waiters>>
       \/ Release(c, IF aborted THEN "cancelled" ELSE "failed")
    /\ UNCHANGED <<store, memory, accepted, aborted>>

\* Its execution is over.
Return(c) ==
    /\ child[c] = "running"
    /\ \E status \in IF aborted THEN {"cancelled"} ELSE {"succeeded", "failed"} : Release(c, status)
    /\ UNCHANGED <<store, memory, accepted, aborted>>

\* The run's signal aborts, or the root agent is done and closes the scheduler:
\* whoever stands in line leaves it.
LeaveLine ==
    /\ child' = [c \in Child |-> IF child[c] = "waiting" THEN "cancelled" ELSE child[c]]
    /\ waiters' = <<>>

Abort ==
    /\ budgets[attempt].open /\ ~aborted
    /\ aborted' = TRUE
    /\ LeaveLine
    /\ UNCHANGED <<store, memory, accepted, active>>

\* The root agent returns its answer or its failure when no subagent is left.
Close ==
    /\ budgets[attempt].open /\ aborted
    /\ \A c \in Child : child[c] \in Over \cup {"idle"}
    /\ budgets' = [budgets EXCEPT ![attempt].open = FALSE]
    /\ UNCHANGED <<store, requests, called, scheduler>>

----------------------------------------------------------------------------

Fetch(q) ==
    \/ \E a \in Attempt, estimate \in Estimate : Begin(q, a, estimate)
    \/ Reserve(q) \/ Granted(q) \/ Refused(q) \/ Call(q)
    \/ \E actual \in Usage : Metered(q, actual)
    \/ Unmetered(q) \/ BreaksOff(q) \/ Settle(q) \/ Settled(q) \/ Unsettled(q)

Subagent(c) == Delegate(c) \/ ReportFails(c) \/ Acquire(c) \/ Enter(c) \/ Return(c)

Next ==
    \/ \E q \in Request : Fetch(q)
    \/ \E c \in Child : Subagent(c)
    \/ Abort \/ Close \/ Recover

Spec == Init /\ [][Next]_vars

----------------------------------------------------------------------------
(* What the limits promise. *)

Excess(q) == Max({0, Counted(q) - rows[q].estimated})

\* However often the run is recovered and whoever goes on working, the provider is
\* called at most MaxModelCalls times, always behind a reservation; and the tokens
\* on record pass the budget only by what providers reported above the estimates.
SpendingIsBounded ==
    /\ \A q \in called : Reserved(q)
    /\ Cardinality(called) <= MaxModelCalls
    /\ Spent <= MaxTokens + MapThenSumSet(Excess, {q \in Request : Reserved(q)})

\* The requests of a worker that have a row, and what its guard counts at least for
\* each.  A settlement that is under way, and one that failed behind an answer
\* nobody read, count as estimated.
Mine(a) == {q \in Request : requests[q].by = a /\ Reserved(q)}
Least(q) ==
    IF At(q, "settling") THEN requests[q].estimate
    ELSE IF requests[q].dropped THEN Min({Counted(q), requests[q].estimate})
    ELSE Counted(q)

\* Until it has failed, the worker's own guard never counts less than the platform does
\* for the requests it made.
GuardCoversRecord ==
    \A a \in Attempt : ~budgets[a].failed => MapThenSumSet(Least, Mine(a)) <= budgets[a].reserved

\* The platform's book is kept within its limits and the worker's own never falls behind it.
BooksAreKept == SpendingIsBounded /\ GuardCoversRecord

\* No slot is lost and none is given twice, whatever is aborted or fails; and while
\* anybody stands in line every slot is taken, so the line moves as long as
\* subagents return.
SlotsAreKept ==
    /\ active = Cardinality({c \in Child : child[c] \in Working})
    /\ active <= MaxParallel
    /\ waiters # <<>> => active = MaxParallel
    /\ ToSet(waiters) = {c \in Child : child[c] = "waiting"}

=============================================================================
