---------------------------- MODULE Runs_proofs ----------------------------
(* What is proved of runs, in two parts.  The queue by itself: its leases,    *)
(* logs, gates, turns and transcripts, and the life cycle it implements.      *)
(* Then what surrounds it: the conversations and the workers do nothing to    *)
(* its rows that the queue's specification does not allow, so what is proved  *)
(* of the queue holds with branches, resets, deletions and compactions around *)
(* it, and with workers that repeat, lose and delay requests or crash.  From  *)
(* that and from what is kept of the threads follow that no summary hides a   *)
(* message, that whoever opens a conversation reads all of it, and that a     *)
(* branch begins with its parent's messages; from it and from what is kept of *)
(* the workers follow what tools have done, when, and with whose consent.     *)
EXTENDS Conversations, AgentRun, WellFoundedInduction, FiniteSetTheorems, TLAPS

\* Induction over the naturals for a property given as a set: the prover cannot
\* instantiate the library's theorem, whose property is an operator.
LEMMA SetInduction ==
    ASSUME NEW S, 0 \in S, \A n \in Nat : n \in S => n + 1 \in S
    PROVE  \A n \in Nat : n \in S
<1> SUFFICES ASSUME Nat \ S # {} PROVE FALSE
  OBVIOUS
<1> DEFINE R == OpToRel(<, Nat)
<1>1. PICK n \in Nat \ S : \A m \in Nat \ S : ~(<<m, n>> \in R)
  <2>1. IsWellFoundedOn(R, Nat)
    BY NatLessThanWellFounded
  <2> HIDE DEF R
  <2> QED BY <2>1, WFMin
<1>2. n # 0 /\ n - 1 \in Nat /\ n - 1 < n
  OBVIOUS
<1>3. <<n - 1, n>> \in R
  BY <1>2 DEF OpToRel
<1>4. n - 1 \in S
  BY <1>1, <1>2, <1>3
<1> QED BY <1>2, <1>4

----------------------------------------------------------------------------
(* What each statement assigns, column by column: facts about single rows, so *)
(* that no later proof has to look inside a row again.                        *)

\* Two rows that differ at most in the columns the queue's statements assign to
\* together with their status.
SameTurn(old, new) ==
    /\ new.conversation = old.conversation
    /\ new.origin = old.origin
    /\ new.compact = old.compact

LEMMA QueuedRow ==
    ASSUME NEW c \in Conversation, NEW o \in Request \cup Run, NEW b \in BOOLEAN, NEW n \in Nat
    PROVE  Queued(c, o, b, n) \in Row
BY DEF Queued, NoRow, Row, Status, Ended

LEMMA QueuedRowTurn ==
    ASSUME NEW c, NEW o, NEW b, NEW n
    PROVE  /\ Queued(c, o, b, n).status = "queued"
           /\ Queued(c, o, b, n).conversation = c
           /\ Queued(c, o, b, n).origin = o
           /\ Queued(c, o, b, n).compact = b
BY DEF Queued, NoRow

LEMMA QueuedRowCounters ==
    ASSUME NEW c, NEW o, NEW b, NEW n
    PROVE  /\ ~Queued(c, o, b, n).cancelRequested
           /\ Queued(c, o, b, n).recoveryCount = 0
           /\ Queued(c, o, b, n).claims = 0
           /\ Queued(c, o, b, n).deadline = n
BY DEF Queued, NoRow

LEMMA StoppedRow ==
    ASSUME NEW row \in Row, row.status \in {"queued", "running"}
    PROVE  /\ Stopped(row) \in Row
           /\ SameTurn(row, Stopped(row))
           /\ Stopped(row).status = IF row.status = "queued" THEN "cancelled" ELSE "running"
           /\ Stopped(row).cancelRequested = TRUE
           /\ Stopped(row).recoveryCount = row.recoveryCount
           /\ Stopped(row).lease = row.lease
           /\ Stopped(row).deadline = row.deadline
           /\ Stopped(row).claims = row.claims
BY DEF Stopped, Row, Status, Ended, SameTurn

LEMMA LeasedRow ==
    ASSUME NEW row \in Row
    PROVE  /\ Leased(row) \in Row
           /\ SameTurn(row, Leased(row))
           /\ Leased(row).status = "running"
           /\ Leased(row).cancelRequested = row.cancelRequested
           /\ Leased(row).recoveryCount = row.recoveryCount
           /\ Leased(row).lease = row.claims + 1
           /\ Leased(row).deadline = row.deadline
           /\ Leased(row).claims = row.claims + 1
<1>1. row.claims + 1 \in Nat
  BY DEF Row
<1> QED BY <1>1 DEF Leased, Row, Status, Ended, SameTurn

LEMMA RefusedRow ==
    ASSUME NEW row \in Row
    PROVE  /\ Refused(row) \in Row
           /\ SameTurn(row, Refused(row))
           /\ Refused(row).status = "failed"
           /\ Refused(row).cancelRequested = row.cancelRequested
           /\ Refused(row).recoveryCount = row.recoveryCount
           /\ Refused(row).lease = 0
           /\ Refused(row).deadline = row.deadline
           /\ Refused(row).claims = row.claims
BY DEF Refused, Row, Status, Ended, SameTurn

LEMMA LapsedRow ==
    ASSUME NEW row \in Row, NEW new \in {Renewed(row), Lapsed(row)}
    PROVE  /\ new \in Row
           /\ SameTurn(row, new)
           /\ new.status = row.status
           /\ new.cancelRequested = row.cancelRequested
           /\ new.recoveryCount = row.recoveryCount
           /\ new.lease = row.lease
           /\ new.deadline = row.deadline
           /\ new.claims = row.claims
BY DEF Renewed, Lapsed, Row, SameTurn

LEMMA UntilRow ==
    ASSUME NEW row \in Row, NEW n \in Nat
    PROVE  /\ Until(row, n) \in Row
           /\ SameTurn(row, Until(row, n))
           /\ Until(row, n).status = row.status
           /\ Until(row, n).cancelRequested = row.cancelRequested
           /\ Until(row, n).recoveryCount = row.recoveryCount
           /\ Until(row, n).lease = row.lease
           /\ Until(row, n).deadline = n
           /\ Until(row, n).claims = row.claims
BY DEF Until, Row, SameTurn

\* Only Until moves a deadline.
LEMMA Deadlines ==
    ASSUME NEW row \in Row
    PROVE  /\ \A n : Until(row, n).deadline = n
           /\ \A new \in {Stopped(row), Leased(row), Refused(row), Renewed(row), Lapsed(row),
                           Requeued(row)} : new.deadline = row.deadline
           /\ \A status : EndedAs(row, status).deadline = row.deadline
BY DEF Row, Until, Stopped, Leased, Refused, Renewed, Lapsed, Requeued, EndedAs

LEMMA EndedAsRow ==
    ASSUME NEW row \in Row, NEW status \in Ended
    PROVE  /\ EndedAs(row, status) \in Row
           /\ SameTurn(row, EndedAs(row, status))
           /\ EndedAs(row, status).status = IF row.cancelRequested THEN "cancelled" ELSE status
           /\ EndedAs(row, status).cancelRequested = row.cancelRequested
           /\ EndedAs(row, status).recoveryCount = row.recoveryCount
           /\ EndedAs(row, status).lease = row.lease
           /\ EndedAs(row, status).deadline = row.deadline
           /\ EndedAs(row, status).claims = row.claims
BY DEF EndedAs, Row, Status, Ended, SameTurn

LEMMA RequeuedRow ==
    ASSUME NEW row \in Row
    PROVE  /\ Requeued(row) \in Row
           /\ SameTurn(row, Requeued(row))
           /\ Requeued(row).status = "queued"
           /\ Requeued(row).cancelRequested = row.cancelRequested
           /\ Requeued(row).recoveryCount = row.recoveryCount + 1
           /\ Requeued(row).lease = 0
           /\ Requeued(row).deadline = row.deadline
           /\ Requeued(row).claims = row.claims
<1>1. row.recoveryCount + 1 \in Nat
  BY DEF Row
<1> QED BY <1>1 DEF Requeued, Row, Status, Ended, SameTurn

----------------------------------------------------------------------------
(* One step of the queue, seen from one run. *)

\* What happens around a run only in the reaper's first statement.
TakenBack(x) == Recoverable(x) /\ receipts' = receipts /\ gates' = gates

RowStep(old, new, takenBack) ==
    \/ new = old
    \/ /\ old.status = "absent"
       /\ \E c \in Conversation, o \in Request \cup Run, b \in BOOLEAN, n \in Nat :
             new = Queued(c, o, b, n)
    \/ old.status \in {"queued", "running"} /\ new = Stopped(old)
    \/ old.status = "queued" /\ new = Leased(old)
    \/ old.status = "queued" /\ new = Refused(old)
    \/ old.status = "running" /\ new \in {Renewed(old), Lapsed(old)}
    \/ old.status \in {"queued", "running"} /\ \E n \in Nat : new = Until(old, n)
    \/ old.status \in {"queued", "running"} /\ \E status \in Ended : new = EndedAs(old, status)
    \/ /\ takenBack
       /\ old.status = "running" /\ ~old.cancelRequested /\ old.recoveryCount < MaxRecovery
       /\ new = Requeued(old)

LEMMA RowStepKeepsRow ==
    ASSUME NEW old \in Row, NEW new, NEW takenBack, RowInv(old), RowStep(old, new, takenBack)
    PROVE  new \in Row /\ RowInv(new)
<1> USE ConstantsAssumption DEF RowInv, SameTurn
<1>1. /\ old.recoveryCount \in Nat /\ old.claims \in Nat
      /\ old.cancelRequested \in BOOLEAN
  BY DEF Row
<1>2. CASE new = old
  BY <1>2
<1>3. ASSUME old.status = "absent",
             NEW c \in Conversation, NEW o \in Request \cup Run, NEW b \in BOOLEAN, NEW n \in Nat,
             new = Queued(c, o, b, n)
      PROVE  new \in Row /\ RowInv(new)
  <2>1. new = Queued(c, o, b, n)
    BY <1>3
  <2>2. new \in Row /\ new.status = "queued" /\ new.conversation = c /\ new.origin = o
    BY <2>1, QueuedRow, QueuedRowTurn
  <2>3. ~new.cancelRequested /\ new.recoveryCount = 0 /\ new.claims = 0
    BY <2>1, QueuedRowCounters
  <2> QED BY <2>2, <2>3
<1>4. CASE old.status \in {"queued", "running"} /\ new = Stopped(old)
  BY <1>1, <1>4, StoppedRow
<1>5. CASE old.status = "queued" /\ new = Leased(old)
  BY <1>1, <1>5, LeasedRow
<1>6. CASE old.status = "queued" /\ new = Refused(old)
  BY <1>1, <1>6, RefusedRow
<1>7. CASE old.status = "running" /\ new \in {Renewed(old), Lapsed(old)}
  BY <1>1, <1>7, LapsedRow
<1>8. ASSUME old.status \in {"queued", "running"}, NEW n \in Nat, new = Until(old, n)
      PROVE  new \in Row /\ RowInv(new)
  BY <1>1, <1>8, UntilRow, ZenonT(40)
<1>9. ASSUME old.status \in {"queued", "running"}, NEW status \in Ended, new = EndedAs(old, status)
      PROVE  new \in Row /\ RowInv(new)
  BY <1>1, <1>9, EndedAsRow DEF Ended
<1>10. CASE /\ old.status = "running" /\ ~old.cancelRequested /\ old.recoveryCount < MaxRecovery
            /\ new = Requeued(old)
  BY <1>1, <1>10, RequeuedRow
<1> QED BY <1>2, <1>3, <1>4, <1>5, <1>6, <1>7, <1>8, <1>9, <1>10 DEF RowStep

\* What a step may never do to a row that exists: move it to another turn, take
\* back a lease number, revive or alter it once it has ended.
LEMMA RowStepFacts ==
    ASSUME NEW old \in Row, NEW new, NEW takenBack, RowInv(old), RowStep(old, new, takenBack)
    PROVE  /\ old.claims <= new.claims
           /\ old.status # "absent" => SameTurn(old, new) /\ new.status # "absent"
           /\ old.status \in Ended => new = old
           /\ new.status = "queued" /\ old.status \notin {"absent", "queued"} => takenBack
<1> USE ConstantsAssumption DEF RowInv, SameTurn
<1>1. /\ old.recoveryCount \in Nat /\ old.claims \in Nat
      /\ old.cancelRequested \in BOOLEAN
  BY DEF Row
<1>2. CASE new = old
  BY <1>1, <1>2
<1>3. ASSUME old.status = "absent",
             NEW c \in Conversation, NEW o \in Request \cup Run, NEW b \in BOOLEAN, NEW n \in Nat,
             new = Queued(c, o, b, n)
      PROVE  old.claims <= new.claims /\ old.status \notin Ended
  BY <1>1, <1>3, QueuedRowCounters DEF Ended
<1>4. CASE old.status \in {"queued", "running"} /\ new = Stopped(old)
  <2>1. new.claims = old.claims /\ SameTurn(old, new) /\ new.status \in {"cancelled", "running"}
    BY <1>4, StoppedRow
  <2> QED BY <1>1, <1>4, <2>1 DEF Ended
<1>5. CASE old.status = "queued" /\ new = Leased(old)
  BY <1>1, <1>5, LeasedRow DEF Ended
<1>6. CASE old.status = "queued" /\ new = Refused(old)
  BY <1>1, <1>6, RefusedRow DEF Ended
<1>7. CASE old.status = "running" /\ new \in {Renewed(old), Lapsed(old)}
  BY <1>1, <1>7, LapsedRow DEF Ended
<1>8. ASSUME old.status \in {"queued", "running"}, NEW n \in Nat, new = Until(old, n)
      PROVE  old.claims <= new.claims /\ SameTurn(old, new) /\ new.status = old.status
  <2>1. new.claims = old.claims
    BY <1>8, UntilRow
  <2>2. SameTurn(old, new)
    BY <1>8, UntilRow
  <2>3. new.status = old.status
    BY <1>8, UntilRow
  <2> QED BY <1>1, <2>1, <2>2, <2>3
<1>9. ASSUME old.status \in {"queued", "running"}, NEW status \in Ended, new = EndedAs(old, status)
      PROVE  /\ old.claims <= new.claims /\ SameTurn(old, new)
             /\ new.status \notin {"absent", "queued"}
  BY <1>1, <1>9, EndedAsRow DEF Ended
<1>10. CASE takenBack /\ old.status = "running" /\ new = Requeued(old)
  BY <1>1, <1>10, RequeuedRow DEF Ended
<1> QED BY <1>2, <1>3, <1>4, <1>5, <1>6, <1>7, <1>8, <1>9, <1>10 DEF RowStep, Ended

\* Every step of the queue is a RowStep for every run.
LEMMA NextIsRowStep ==
    ASSUME TypeOK, Rows, [Next]_vars, NEW x \in Run
    PROVE  RowStep(runs[x], runs'[x], TakenBack(x))
<1> USE DEF RowStep
<1>1. CASE UNCHANGED vars
  BY <1>1 DEF vars
<1>2. ASSUME NEW r \in Run, UserRequest(r)
      PROVE  RowStep(runs[x], runs'[x], TakenBack(x))
  <2>1. ASSUME NEW c \in Conversation, NEW q \in Request, NEW compact \in BOOLEAN,
               Enqueue(c, q, r, compact)
        PROVE  RowStep(runs[x], runs'[x], TakenBack(x))
    BY <2>1, ConstantsAssumption DEF Enqueue, TypeOK
  <2>2. CASE Cancel(r)
    BY <2>2 DEF Cancel, Active, TypeOK
  <2>3. CASE UNCHANGED runs
    BY <2>3
  <2> QED BY <1>2, <2>1, <2>2, <2>3 DEF UserRequest, Workspace, DecideApproval
<1>3. ASSUME NEW r \in Run, Claim(r) \/ ClaimForbidden(r) \/ LeaseLapse(r)
      PROVE  RowStep(runs[x], runs'[x], TakenBack(x))
  BY <1>3 DEF Claim, ClaimForbidden, LeaseLapse, TypeOK
<1>4. ASSUME NEW r \in Run, Tick(r)
      PROVE  RowStep(runs[x], runs'[x], TakenBack(x))
  <2>1. Less(runs[x].deadline) \in Nat
    BY DEF Less, TypeOK, Row
  <2> QED BY <1>4, <2>1 DEF Tick, Active, TypeOK
<1>5. ASSUME NEW r \in Run, NEW t \in 1..runs[r].claims, RuntimeRequest(r, t)
      PROVE  RowStep(runs[x], runs'[x], TakenBack(x))
  <2>1. CASE Renew(r, t)
    BY <2>1 DEF Renew, Holds, TypeOK
  <2>2. ASSUME NEW k \in Call, ApprovalRequest(r, t, k)
        PROVE  RowStep(runs[x], runs'[x], TakenBack(x))
    <3>1. Stretch(runs[r].deadline) \in Nat
      BY ConstantsAssumption DEF Stretch, TypeOK, Row
    <3> QED BY <2>2, <3>1 DEF ApprovalRequest, MayTask, Holds, TypeOK
  <2>3. CASE FinishSucceeded(r, t)
    BY <2>3 DEF FinishSucceeded, Holds, TypeOK, Ended
  <2>4. ASSUME NEW reported \in Ended, FinishUnanswered(r, t, reported)
        PROVE  RowStep(runs[x], runs'[x], TakenBack(x))
    BY <2>4 DEF FinishUnanswered, Holds, TypeOK
  <2>5. ASSUME NEW s \in Run, NEW ticks \in Budget..(Budget + Window),
               FinishOverflow(r, t, s, ticks)
        PROVE  RowStep(runs[x], runs'[x], TakenBack(x))
    <3> DEFINE c == runs[r].conversation
    <3>1. runs[r].status = "running" /\ runs[s].status = "absent"
      BY <2>5 DEF FinishOverflow, Holds
    <3>2. ticks \in Nat
      BY ConstantsAssumption
    <3>3. runs' = [runs EXCEPT ![r] = EndedAs(@, "failed"), ![s] = Queued(c, r, TRUE, ticks)]
      BY <2>5 DEF FinishOverflow
    <3>4. CASE x = s
      <4>1. runs'[x] = Queued(c, r, TRUE, ticks)
        BY <3>3, <3>4 DEF TypeOK
      <4>2. c \in Conversation
        BY <3>1 DEF Rows, RowInv
      <4> QED BY <3>1, <3>2, <3>4, <4>1, <4>2
    <3>5. CASE x = r
      BY <3>1, <3>3, <3>5 DEF TypeOK, Ended
    <3>6. CASE x # r /\ x # s
      BY <3>3, <3>6 DEF TypeOK
    <3> QED BY <3>4, <3>5, <3>6
  <2>6. CASE UNCHANGED runs
    BY <2>6
  <2> QED BY <1>5, <2>1, <2>2, <2>3, <2>4, <2>5, <2>6
          DEF RuntimeRequest, AppendEvent, SaveSnapshot, ToolStart, ToolFinish, ApprovalPoll
<1>6. CASE Reap
  BY <1>6 DEF TakenBack, Reap, ReapRequeue, ReapFail, ReapGates, Recoverable, Overdue, Lost, Active, TypeOK,
              Ended
<1> QED BY <1>1, <1>2, <1>3, <1>4, <1>5, <1>6 DEF Next

----------------------------------------------------------------------------
(* Type correctness, and what holds of every row. *)

LEMMA InitTypes == Init => TypeOK /\ Rows
<1> SUFFICES ASSUME Init
             PROVE  TypeOK /\ Rows
  OBVIOUS
<1>1. NoRow \in Row
  BY DEF NoRow, Row, Status
<1>2. TypeOK
  BY <1>1 DEF Init, TypeOK, ReceiptStatus, GateStatus, Reaper
<1>3. Rows
  BY ConstantsAssumption DEF Init, Rows, RowInv, NoRow
<1> QED BY <1>2, <1>3

LEMMA NextKeepsRows ==
    ASSUME TypeOK, Rows, [Next]_vars
    PROVE  runs' \in [Run -> Row] /\ Rows'
<1>1. \A x \in Run : runs'[x] \in Row /\ RowInv(runs'[x])
  BY NextIsRowStep, RowStepKeepsRow DEF TypeOK, Rows
<1>2. runs' = [x \in Run |-> runs'[x]]
  <2> USE DEF TypeOK
  <2>1. CASE UNCHANGED vars
    BY <2>1 DEF vars
  <2>2. ASSUME NEW r \in Run, UserRequest(r)
        PROVE  runs' = [x \in Run |-> runs'[x]]
    BY <2>2 DEF UserRequest, Enqueue, Cancel, Workspace, DecideApproval
  <2>3. ASSUME NEW r \in Run, Claim(r) \/ ClaimForbidden(r) \/ Tick(r) \/ LeaseLapse(r)
        PROVE  runs' = [x \in Run |-> runs'[x]]
    BY <2>3 DEF Claim, ClaimForbidden, Tick, LeaseLapse
  <2>4. ASSUME NEW r \in Run, NEW t \in 1..runs[r].claims, RuntimeRequest(r, t)
        PROVE  runs' = [x \in Run |-> runs'[x]]
    BY <2>4 DEF RuntimeRequest, Renew, AppendEvent, SaveSnapshot, ToolStart, ToolFinish,
                ApprovalRequest, ApprovalPoll, FinishSucceeded, FinishUnanswered, FinishOverflow
  <2>5. CASE Reap
    BY <2>5 DEF Reap, ReapRequeue, ReapFail, ReapGates
  <2> QED BY <2>1, <2>2, <2>3, <2>4, <2>5 DEF Next
<1> QED BY <1>1, <1>2 DEF Rows

\* A table of a value per run and tool call keeps its type when one entry changes.
LEMMA EntryUpdate ==
    ASSUME NEW S, NEW f \in [Run -> [Call -> S]], NEW r \in Run, NEW k \in Call, NEW v \in S
    PROVE  [f EXCEPT ![r][k] = v] \in [Run -> [Call -> S]]
OBVIOUS

\* The tables a runtime's requests write.
LEMMA RuntimeKeepsTypes ==
    ASSUME TypeOK, Rows, runs' \in [Run -> Row], NEW r \in Run, NEW t \in 1..runs[r].claims,
           RuntimeRequest(r, t)
    PROVE  TypeOK'
<1> USE DEF TypeOK
<1>1. CASE Renew(r, t)
  BY <1>1 DEF Renew
<1>2. ASSUME NEW seq \in 0..MaxSeq, AppendEvent(r, t, seq)
      PROVE  TypeOK'
  <2>1. t \in Nat
    BY DEF Row
  <2>2. events' \in [Run -> Seq(Nat)]
    BY <1>2, <2>1 DEF AppendEvent
  <2> QED BY <1>2, <2>2 DEF AppendEvent
<1>3. ASSUME NEW exists \in BOOLEAN, SaveSnapshot(r, t, exists)
      PROVE  TypeOK'
  BY <1>3 DEF SaveSnapshot
<1>4. ASSUME NEW k \in Call,
             \/ ToolStart(r, t, k)
             \/ \E outcome \in {"succeeded", "failed"} : ToolFinish(r, t, k, outcome)
      PROVE  TypeOK'
  <2>1. PICK v \in ReceiptStatus : receipts' = [receipts EXCEPT ![r][k] = v]
    BY <1>4 DEF ToolStart, ToolFinish, ReceiptStatus
  <2>2. receipts' \in [Run -> [Call -> ReceiptStatus]]
    BY <2>1, EntryUpdate
  <2> QED BY <1>4, <2>2 DEF ToolStart, ToolFinish
<1>5. ASSUME NEW k \in Call, ApprovalRequest(r, t, k) \/ ApprovalPoll(r, t, k)
      PROVE  TypeOK'
  <2>1. PICK v \in GateStatus : gates' = [gates EXCEPT ![r][k] = v]
    BY <1>5 DEF ApprovalRequest, ApprovalPoll, ReadApproval, GateStatus
  <2>2. gates' \in [Run -> [Call -> GateStatus]]
    BY <2>1, EntryUpdate
  <2>3. gateLeft' \in [Run -> [Call -> Nat]]
    <3>1. CASE gateLeft' = gateLeft
      BY <3>1
    <3>2. CASE gateLeft' = [gateLeft EXCEPT ![r][k] = Window]
      <4>1. Window \in Nat
        BY ConstantsAssumption
      <4> QED BY <3>2, <4>1, EntryUpdate
    <3> QED BY <1>5, <3>1, <3>2 DEF ApprovalRequest, ApprovalPoll
  <2> QED BY <1>5, <2>2, <2>3 DEF ApprovalRequest, ApprovalPoll
<1>6. ASSUME CloseGates(r)
      PROVE  gates' \in [Run -> [Call -> GateStatus]]
  BY <1>6 DEF CloseGates, GateStatus
<1>7. CASE FinishSucceeded(r, t)
  <2> DEFINE c == runs[r].conversation
  <2>1. c \in Conversation
    BY <1>7 DEF FinishSucceeded, Holds, Rows, RowInv
  <2>2. messages' \in [Conversation -> Seq(Message)]
    BY <1>7, <2>1 DEF FinishSucceeded, Message
  <2>3. Boundary(c, r) \in Nat
    BY <2>1 DEF Boundary
  <2>4. through' \in [Conversation -> Nat]
    BY <1>7, <2>3 DEF FinishSucceeded
  <2> QED BY <1>6, <1>7, <2>2, <2>4 DEF FinishSucceeded
<1>8. ASSUME NEW reported \in Ended, FinishUnanswered(r, t, reported)
      PROVE  TypeOK'
  BY <1>6, <1>8 DEF FinishUnanswered
<1>9. ASSUME NEW s \in Run, NEW ticks \in Budget..(Budget + Window), FinishOverflow(r, t, s, ticks)
      PROVE  TypeOK'
  BY <1>6, <1>9 DEF FinishOverflow
<1> QED BY <1>1, <1>2, <1>3, <1>4, <1>5, <1>7, <1>8, <1>9 DEF RuntimeRequest

LEMMA NextKeepsTypes ==
    ASSUME TypeOK, Rows, [Next]_vars
    PROVE  TypeOK' /\ Rows'
<1>1. runs' \in [Run -> Row] /\ Rows'
  BY NextKeepsRows
<1>2. CASE UNCHANGED vars
  BY <1>2, <1>1 DEF vars, TypeOK
<1>3. ASSUME NEW r \in Run, UserRequest(r)
      PROVE  TypeOK'
  <2> USE DEF TypeOK
  <2>1. ASSUME NEW c \in Conversation, NEW q \in Request, NEW compact \in BOOLEAN,
               Enqueue(c, q, r, compact)
        PROVE  TypeOK'
    <3>1. messages' \in [Conversation -> Seq(Message)]
      BY <2>1 DEF Enqueue, Message
    <3> QED BY <1>1, <2>1, <3>1 DEF Enqueue
  <2>2. CASE Cancel(r)
    BY <1>1, <2>2 DEF Cancel
  <2>3. ASSUME NEW k \in Call, Workspace(r, k) \/ \E verdict \in Verdict : DecideApproval(r, k, verdict)
        PROVE  TypeOK'
    <3>1. PICK v \in GateStatus : gates' = [gates EXCEPT ![r][k] = v]
      BY <2>3 DEF Workspace, ReadApproval, DecideApproval, GateStatus
    <3>2. gates' \in [Run -> [Call -> GateStatus]]
      BY <3>1, EntryUpdate
    <3> QED BY <2>3, <3>2 DEF Workspace, DecideApproval
  <2> QED BY <1>3, <2>1, <2>2, <2>3 DEF UserRequest
<1>4. ASSUME NEW r \in Run, Claim(r) \/ ClaimForbidden(r) \/ LeaseLapse(r)
      PROVE  TypeOK'
  BY <1>1, <1>4 DEF Claim, ClaimForbidden, LeaseLapse, TypeOK
<1>5. ASSUME NEW r \in Run, Tick(r)
      PROVE  TypeOK'
  BY <1>1, <1>5 DEF Tick, TypeOK, Less
<1>6. ASSUME NEW r \in Run, NEW t \in 1..runs[r].claims, RuntimeRequest(r, t)
      PROVE  TypeOK'
  BY <1>1, <1>6, RuntimeKeepsTypes
<1>7. CASE Reap
  BY <1>1, <1>7 DEF Reap, ReapRequeue, ReapFail, ReapGates, TypeOK, Reaper, GateStatus
<1> QED BY <1>1, <1>2, <1>3, <1>4, <1>5, <1>6, <1>7 DEF Next

\* Every row, log, receipt, gate and boundary keeps its shape.
THEOREM TypeCorrectness == Spec => []TypeOK
<1>1. TypeOK /\ Rows /\ [Next]_vars => (TypeOK /\ Rows)'
  BY NextKeepsTypes
<1> QED BY InitTypes, <1>1, PTL DEF Spec

----------------------------------------------------------------------------
(* Rows: cancels and recoveries. *)

\* A cancelled run never comes back, and a lost run is handed out MaxRecovery
\* times more at most.
THEOREM CancelsAndClaims == Spec => [](CancelHonoured /\ ClaimsBounded)
<1>1. TypeOK /\ Rows /\ [Next]_vars => (TypeOK /\ Rows)'
  BY NextKeepsTypes
<1>2. TypeOK /\ Rows => CancelHonoured /\ ClaimsBounded
  <2> SUFFICES ASSUME TypeOK, Rows, NEW r \in Run
               PROVE  /\ runs[r].cancelRequested => runs[r].status \in {"running", "cancelled"}
                      /\ runs[r].claims <= MaxRecovery + 1
    BY DEF CancelHonoured, ClaimsBounded
  <2>1. runs[r].claims \in Nat /\ runs[r].recoveryCount \in Nat
    BY DEF TypeOK, Row
  <2> QED BY <2>1, ConstantsAssumption DEF Rows, RowInv
<1> QED BY InitTypes, <1>1, <1>2, PTL DEF Spec

----------------------------------------------------------------------------
(* The event log. *)

\* An event is written under the run's lease, and nothing else changes then.
LEMMA EventStep ==
    ASSUME TypeOK, [Next]_vars, NEW x \in Run
    PROVE  \/ events'[x] = events[x]
           \/ /\ runs[x].status = "running" /\ runs' = runs
              /\ events'[x] = Append(events[x], runs[x].lease)
<1>1. CASE events' = events
  BY <1>1
<1>2. ASSUME NEW r \in Run, NEW t \in 1..runs[r].claims, NEW seq \in 0..MaxSeq,
             AppendEvent(r, t, seq)
      PROVE  \/ events'[x] = events[x]
             \/ /\ runs[x].status = "running" /\ runs' = runs
                /\ events'[x] = Append(events[x], runs[x].lease)
  BY <1>2 DEF AppendEvent, Holds, TypeOK
<1>3. ASSUME NEW r \in Run, NEW t \in 1..runs[r].claims, RuntimeRequest(r, t)
      PROVE  \/ events' = events
             \/ \E seq \in 0..MaxSeq : AppendEvent(r, t, seq)
  BY <1>3 DEF RuntimeRequest, Renew, SaveSnapshot, ToolStart, ToolFinish, ApprovalRequest,
              ApprovalPoll, FinishSucceeded, FinishUnanswered, FinishOverflow
<1>4. ASSUME NEW r \in Run,
             UserRequest(r) \/ Claim(r) \/ ClaimForbidden(r) \/ Tick(r) \/ LeaseLapse(r)
      PROVE  events' = events
  BY <1>4 DEF UserRequest, Enqueue, Cancel, Workspace, DecideApproval, Claim, ClaimForbidden, Tick,
              LeaseLapse
<1>5. CASE Reap \/ UNCHANGED vars
  BY <1>5 DEF Reap, ReapRequeue, ReapFail, ReapGates, vars
<1> QED BY <1>1, <1>2, <1>3, <1>4, <1>5 DEF Next

\* A log is never behind the leases: no event carries a lease not yet issued, and
\* the leases along it never decrease.
LEMMA NextKeepsLog ==
    ASSUME TypeOK, Rows, LogInv, EventsFenced, [Next]_vars
    PROVE  LogInv' /\ EventsFenced'
<1> SUFFICES ASSUME NEW x \in Run
             PROVE  /\ \A i \in 1..Len(events'[x]) : events'[x][i] <= runs'[x].claims
                    /\ \A i, j \in 1..Len(events'[x]) : i <= j => events'[x][i] <= events'[x][j]
  BY DEF LogInv, EventsFenced
<1>1. /\ runs[x] \in Row /\ RowInv(runs[x]) /\ events[x] \in Seq(Nat)
  BY DEF TypeOK, Rows
<1>2. runs[x].claims \in Nat /\ runs'[x].claims \in Nat
  BY <1>1, NextIsRowStep, RowStepKeepsRow DEF Row
<1>3. runs[x].claims <= runs'[x].claims
  BY <1>1, NextIsRowStep, RowStepFacts
<1>4. \A i \in 1..Len(events[x]) : events[x][i] \in Nat /\ events[x][i] <= runs[x].claims
  BY <1>1 DEF LogInv
<1>5. \A i, j \in 1..Len(events[x]) : i <= j => events[x][i] <= events[x][j]
  BY DEF EventsFenced
<1>6. CASE events'[x] = events[x]
  BY <1>2, <1>3, <1>4, <1>5, <1>6
<1>7. CASE /\ runs[x].status = "running" /\ runs' = runs
           /\ events'[x] = Append(events[x], runs[x].lease)
  <2>1. runs[x].lease = runs[x].claims
    BY <1>1, <1>7 DEF RowInv
  <2>2. /\ Len(events'[x]) = Len(events[x]) + 1
        /\ \A i \in 1..Len(events[x]) : events'[x][i] = events[x][i]
        /\ events'[x][Len(events[x]) + 1] = runs[x].claims
    BY <1>1, <1>2, <1>7, <2>1
  <2>3. Len(events[x]) \in Nat
    BY <1>1
  <2> QED BY <1>2, <1>4, <1>5, <1>7, <2>2, <2>3
<1> QED BY <1>6, <1>7, EventStep

\* What a runtime that has lost its lease still sends never lands behind the events
\* of its successor.
THEOREM LogIsFenced == Spec => []EventsFenced
<1>1. Init => LogInv /\ EventsFenced
  BY DEF Init, LogInv, EventsFenced
<1>2. /\ TypeOK /\ Rows /\ LogInv /\ EventsFenced /\ [Next]_vars
      => (TypeOK /\ Rows /\ LogInv /\ EventsFenced)'
  BY NextKeepsTypes, NextKeepsLog
<1> QED BY InitTypes, <1>1, <1>2, PTL DEF Spec

----------------------------------------------------------------------------
(* What becomes of an ended run. *)

\* Snapshots and receipts are written for a running run, and the rows stay then.
LEMMA TaskStep ==
    ASSUME TypeOK, [Next]_vars, NEW x \in Run
    PROVE  \/ snapshots'[x] = snapshots[x] /\ receipts'[x] = receipts[x]
           \/ runs[x].status = "running" /\ runs' = runs
<1>1. CASE UNCHANGED <<snapshots, receipts>>
  BY <1>1
<1>2. ASSUME NEW r \in Run, NEW t \in 1..runs[r].claims, MayTask(r, t), runs' = runs,
             \/ \E b \in BOOLEAN : SaveSnapshot(r, t, b)
             \/ \E k \in Call : ToolStart(r, t, k)
             \/ \E k \in Call, o \in {"succeeded", "failed"} : ToolFinish(r, t, k, o)
      PROVE  \/ snapshots'[x] = snapshots[x] /\ receipts'[x] = receipts[x]
             \/ runs[x].status = "running" /\ runs' = runs
  BY <1>2 DEF SaveSnapshot, ToolStart, ToolFinish, MayTask, Holds, TypeOK
<1>3. ASSUME NEW r \in Run, NEW t \in 1..runs[r].claims, RuntimeRequest(r, t)
      PROVE  \/ UNCHANGED <<snapshots, receipts>>
             \/ /\ MayTask(r, t) /\ runs' = runs
                /\ \/ \E b \in BOOLEAN : SaveSnapshot(r, t, b)
                   \/ \E k \in Call : ToolStart(r, t, k)
                   \/ \E k \in Call, o \in {"succeeded", "failed"} : ToolFinish(r, t, k, o)
  BY <1>3 DEF RuntimeRequest, Renew, AppendEvent, SaveSnapshot, ToolStart, ToolFinish,
              ApprovalRequest, ApprovalPoll, FinishSucceeded, FinishUnanswered, FinishOverflow
<1>4. ASSUME NEW r \in Run,
             UserRequest(r) \/ Claim(r) \/ ClaimForbidden(r) \/ Tick(r) \/ LeaseLapse(r)
      PROVE  UNCHANGED <<snapshots, receipts>>
  BY <1>4 DEF UserRequest, Enqueue, Cancel, Workspace, DecideApproval, Claim, ClaimForbidden, Tick,
              LeaseLapse
<1>5. CASE Reap \/ UNCHANGED vars
  BY <1>5 DEF Reap, ReapRequeue, ReapFail, ReapGates, vars
<1> QED BY <1>1, <1>2, <1>3, <1>4, <1>5 DEF Next

\* Nothing a runtime, the reaper or a user does later changes an ended run, its log,
\* its snapshot or its receipts.
THEOREM EndedStaysEnded == Spec => EndedIsFinal
<1>1. ASSUME TypeOK, Rows, [Next]_vars, NEW r \in Run, runs[r].status \in Ended
      PROVE  /\ runs'[r] = runs[r] /\ events'[r] = events[r]
             /\ snapshots'[r] = snapshots[r] /\ receipts'[r] = receipts[r]
  <2>1. runs'[r] = runs[r]
    BY <1>1, NextIsRowStep, RowStepFacts DEF TypeOK, Rows
  <2>2. runs[r].status # "running"
    BY <1>1 DEF Ended
  <2> QED BY <1>1, <2>1, <2>2, EventStep, TaskStep
<1>2. TypeOK /\ Rows /\ [Next]_vars => (TypeOK /\ Rows)'
  BY NextKeepsTypes
<1>3. TypeOK /\ Rows /\ [Next]_vars
      => [\A r \in Run : runs[r].status \in Ended =>
            /\ runs'[r] = runs[r] /\ events'[r] = events[r]
            /\ snapshots'[r] = snapshots[r] /\ receipts'[r] = receipts[r]]_vars
  BY <1>1
<1> QED BY InitTypes, <1>2, <1>3, PTL DEF Spec, EndedIsFinal

----------------------------------------------------------------------------
(* New runs: where they come from, and that they come one at a time. *)

\* Of the runtime's requests only the report of an overflow adds a run.
LEMMA OverflowAppears ==
    ASSUME TypeOK, NEW x \in Run, runs[x].status = "absent", runs'[x].status # "absent",
           NEW r \in Run, NEW t \in 1..runs[r].claims, RuntimeRequest(r, t)
    PROVE  \E n \in Nat : FinishOverflow(r, t, x, n)
<1> USE DEF TypeOK
<1>1. ~Renew(r, t) /\ (\A k \in Call : ~ApprovalRequest(r, t, k)) /\ ~FinishSucceeded(r, t)
  BY DEF Renew, ApprovalRequest, FinishSucceeded, MayTask, Holds
<1>2. \A reported \in Ended : ~FinishUnanswered(r, t, reported)
  BY DEF FinishUnanswered, Holds
<1>3. ASSUME NEW s \in Run, NEW n \in Budget..(Budget + Window), FinishOverflow(r, t, s, n)
      PROVE  s = x /\ n \in Nat
  <2>1. n \in Nat
    BY ConstantsAssumption
  <2>2. runs[r].status = "running"
    BY <1>3 DEF FinishOverflow, Holds
  <2>3. x # r /\ (x # s => runs'[x] = runs[x])
    BY <1>3, <2>2 DEF FinishOverflow
  <2> QED BY <2>1, <2>3
<1> QED BY <1>1, <1>2, <1>3
        DEF RuntimeRequest, AppendEvent, SaveSnapshot, ToolStart, ToolFinish, ApprovalPoll

\* A run appears because a user sent a request or because another run overflowed.
LEMMA RunAppears ==
    ASSUME TypeOK, [Next]_vars, NEW x \in Run,
           runs[x].status = "absent", runs'[x].status # "absent"
    PROVE  \/ \E c \in Conversation, q \in Request, compact \in BOOLEAN : Enqueue(c, q, x, compact)
           \/ \E r \in Run, t \in Nat, ticks \in Nat : FinishOverflow(r, t, x, ticks)
<1> USE DEF TypeOK
<1>1. ~UNCHANGED vars
  BY DEF vars
<1>2. ASSUME NEW r \in Run, UserRequest(r)
      PROVE  \E c \in Conversation, q \in Request, compact \in BOOLEAN : Enqueue(c, q, x, compact)
  <2>1. ASSUME NEW c \in Conversation, NEW q \in Request, NEW compact \in BOOLEAN,
               Enqueue(c, q, r, compact)
        PROVE  r = x
    BY <2>1 DEF Enqueue
  <2>2. ~Cancel(r)
    BY DEF Cancel, Active
  <2> QED BY <1>2, <2>1, <2>2 DEF UserRequest, Workspace, DecideApproval
<1>3. ASSUME NEW r \in Run
      PROVE  ~(Claim(r) \/ ClaimForbidden(r) \/ LeaseLapse(r) \/ Tick(r))
  BY <1>3 DEF Claim, ClaimForbidden, LeaseLapse, Tick, Active
<1>4. ASSUME NEW r \in Run, NEW t \in 1..runs[r].claims, RuntimeRequest(r, t)
      PROVE  \E n \in Nat : FinishOverflow(r, t, x, n)
  BY <1>4, OverflowAppears
<1>5. ~Reap
  BY DEF Reap, ReapRequeue, ReapFail, ReapGates, Recoverable, Lost, Overdue, Active
<1>6. \A r \in Run : \A t \in 1..runs[r].claims : t \in Nat
  BY DEF Row
<1> QED BY <1>1, <1>2, <1>3, <1>4, <1>5, <1>6 DEF Next

\* A run in progress was in progress before, in the same conversation, or is new.
LEMMA ActiveStep ==
    ASSUME TypeOK, Rows, [Next]_vars, NEW x \in Run, Active(x)'
    PROVE  \/ Active(x) /\ SameTurn(runs[x], runs'[x])
           \/ runs[x].status = "absent"
<1>1. runs[x] \in Row /\ RowInv(runs[x]) /\ RowStep(runs[x], runs'[x], TakenBack(x))
  BY NextIsRowStep DEF TypeOK, Rows
<1>2. runs'[x].status \in {"queued", "running"}
  BY DEF Active
<1>3. CASE runs[x].status \in Ended
  BY <1>1, <1>2, <1>3, RowStepFacts DEF Ended
<1>4. CASE runs[x].status \in {"queued", "running"}
  BY <1>1, <1>4, RowStepFacts DEF Active
<1> QED BY <1>1, <1>3, <1>4 DEF Row, Status

\* A new run finds its conversation free.
LEMMA NewRunIsAlone ==
    ASSUME TypeOK, Rows, OneActiveRun, [Next]_vars, NEW x \in Run, NEW y \in Run, x # y,
           runs[x].status = "absent", Active(x)', Active(y)',
           runs'[x].conversation = runs'[y].conversation
    PROVE  FALSE
<1> USE DEF TypeOK
<1>1. runs'[x].status # "absent"
  BY DEF Active
<1>2. ASSUME NEW c \in Conversation, NEW q \in Request, NEW compact \in BOOLEAN,
             Enqueue(c, q, x, compact)
      PROVE  FALSE
  <2>1. runs'[x] = Queued(c, q, compact, Budget) /\ runs'[y] = runs[y]
    BY <1>2 DEF Enqueue
  <2>2. runs'[x].conversation = c
    BY <2>1, QueuedRowTurn
  <2> QED BY <1>2, <2>1, <2>2 DEF Enqueue, Busy, Active
<1>3. ASSUME NEW r \in Run, NEW t \in Nat, NEW ticks \in Nat, FinishOverflow(r, t, x, ticks)
      PROVE  FALSE
  <2> DEFINE c == runs[r].conversation
  <2>1. runs[r].status = "running" /\ runs[r] \in Row /\ c \in Conversation
    BY <1>3 DEF FinishOverflow, Holds, Rows, RowInv
  <2>2. runs'[x] = Queued(c, r, TRUE, ticks)
    BY <1>3 DEF FinishOverflow
  <2>3. runs'[x].conversation = c
    BY <2>2 DEF Queued, NoRow
  <2>4. CASE y = r
    <3>1. runs'[y] = EndedAs(runs[r], "failed")
      BY <1>3, <2>1, <2>4 DEF FinishOverflow
    <3>2. runs'[y].status \in Ended
      BY <2>1, <3>1, EndedAsRow DEF Ended
    <3> QED BY <3>2 DEF Active, Ended
  <2>5. CASE y # r
    <3>1. runs'[y] = runs[y]
      BY <1>3, <2>5 DEF FinishOverflow
    <3> QED BY <1>3, <2>3, <2>5, <3>1 DEF FinishOverflow, Active
  <2> QED BY <2>4, <2>5
<1> QED BY <1>1, <1>2, <1>3, RunAppears

LEMMA NextKeepsOneActiveRun ==
    ASSUME TypeOK, Rows, OneActiveRun, [Next]_vars
    PROVE  OneActiveRun'
<1> SUFFICES ASSUME NEW r \in Run, NEW s \in Run, r # s, Active(r)', Active(s)',
                    runs'[r].conversation = runs'[s].conversation
             PROVE  FALSE
  BY DEF OneActiveRun, Active
<1>1. runs[r].status # "absent" /\ runs[s].status # "absent"
  BY NewRunIsAlone
<1> QED BY <1>1, ActiveStep DEF OneActiveRun, SameTurn

\* A run that overflowed is over when its compaction run is queued.
OverflowsAreOver ==
    \A s \in Run : runs[s].status # "absent" /\ runs[s].origin \in Run
                    => runs[runs[s].origin].status \in Ended

\* A run that exists keeps its turn, and an ended one its row.
LEMMA RunsRemain ==
    ASSUME TypeOK, Rows, [Next]_vars, NEW x \in Run, runs[x].status # "absent"
    PROVE  SameTurn(runs[x], runs'[x]) /\ (runs[x].status \in Ended => runs'[x] = runs[x])
<1>1. runs[x] \in Row /\ RowInv(runs[x]) /\ RowStep(runs[x], runs'[x], TakenBack(x))
  BY NextIsRowStep DEF TypeOK, Rows
<1> QED BY <1>1, RowStepFacts

\* What an overflow writes.
LEMMA OverflowRows ==
    ASSUME TypeOK, NEW r \in Run, NEW t \in Nat, NEW x \in Run, NEW ticks \in Nat, FinishOverflow(r, t, x, ticks)
    PROVE  /\ runs[r].status = "running" /\ x # r
           /\ runs'[x].origin = r
           /\ runs'[r].status \in Ended /\ runs'[r].origin = runs[r].origin
           /\ \A y \in Run \ {r, x} : runs'[y] = runs[y]
<1> USE DEF TypeOK
<1>1. runs[r].status = "running" /\ runs[x].status = "absent"
  BY DEF FinishOverflow, Holds
<1>2. runs' = [runs EXCEPT ![r] = EndedAs(@, "failed"), ![x] = Queued(runs[r].conversation, r, TRUE, ticks)]
  BY DEF FinishOverflow
<1>3. runs'[x] = Queued(runs[r].conversation, r, TRUE, ticks) /\ runs'[r] = EndedAs(runs[r], "failed")
  BY <1>1, <1>2
<1>4. runs'[x].origin = r
  BY <1>3 DEF Queued, NoRow
<1>5. runs'[r].status \in Ended
  BY <1>1, <1>3, EndedAsRow DEF Ended
<1>6. runs'[r].origin = runs[r].origin
  BY <1>3 DEF EndedAs, Row
<1> QED BY <1>1, <1>2, <1>4, <1>5, <1>6

LEMMA NextKeepsOverflows ==
    ASSUME TypeOK, Rows, OverflowsAreOver, [Next]_vars
    PROVE  OverflowsAreOver'
<1> SUFFICES ASSUME NEW x \in Run, runs'[x].status # "absent", runs'[x].origin \in Run
             PROVE  runs'[runs'[x].origin].status \in Ended
  BY DEF OverflowsAreOver
<1>1. CASE runs[x].status # "absent"
  <2>1. runs'[x].origin = runs[x].origin
    BY <1>1, RunsRemain DEF SameTurn
  <2>2. runs[runs[x].origin].status \in Ended
    BY <1>1, <2>1 DEF OverflowsAreOver
  <2>3. runs'[runs[x].origin] = runs[runs[x].origin]
    BY <2>1, <2>2, RunsRemain DEF Ended
  <2> QED BY <2>1, <2>2, <2>3
<1>2. ASSUME NEW c \in Conversation, NEW q \in Request, NEW compact \in BOOLEAN, Enqueue(c, q, x, compact)
      PROVE  FALSE
  <2>1. runs'[x] = Queued(c, q, compact, Budget)
    BY <1>2 DEF Enqueue, TypeOK
  <2>2. runs'[x].origin = q
    BY <2>1, QueuedRowTurn
  <2> QED BY <2>2, ConstantsAssumption
<1>3. ASSUME NEW r \in Run, NEW t \in Nat, NEW ticks \in Nat, FinishOverflow(r, t, x, ticks)
      PROVE  runs'[runs'[x].origin].status \in Ended
  BY <1>3, OverflowRows
<1> QED BY <1>1, <1>2, <1>3, RunAppears

\* No run appears beside one of its turn.
LEMMA NewRunIsFirst ==
    ASSUME TypeOK, Rows, OverflowsAreOver, [Next]_vars, NEW x \in Run, NEW y \in Run, x # y,
           runs[x].status = "absent", runs'[x].status # "absent", runs'[y].status # "absent",
           runs'[x].conversation = runs'[y].conversation, runs'[x].origin = runs'[y].origin
    PROVE  FALSE
<1>1. ASSUME NEW c \in Conversation, NEW q \in Request, NEW compact \in BOOLEAN, Enqueue(c, q, x, compact)
      PROVE  FALSE
  <2>1. runs'[x] = Queued(c, q, compact, Budget) /\ runs'[y] = runs[y]
    BY <1>1 DEF Enqueue, TypeOK
  <2>2. runs'[x].conversation = c /\ runs'[x].origin = q
    BY <2>1, QueuedRowTurn
  <2> QED BY <1>1, <2>1, <2>2 DEF Enqueue, Repeated
<1>2. ASSUME NEW r \in Run, NEW t \in Nat, NEW ticks \in Nat, FinishOverflow(r, t, x, ticks)
      PROVE  FALSE
  <2>1. runs[r].status = "running" /\ runs'[x].origin = r /\ runs'[r].origin = runs[r].origin
    BY <1>2, OverflowRows
  <2>2. CASE y = r
    BY <2>1, <2>2 DEF OverflowsAreOver, Ended
  <2>3. CASE y # r
    <3>1. runs'[y] = runs[y]
      BY <1>2, <2>3, OverflowRows
    <3> QED BY <2>1, <3>1 DEF OverflowsAreOver, Ended
  <2> QED BY <2>2, <2>3
<1> QED BY <1>1, <1>2, RunAppears

LEMMA NextKeepsOneRunPerRequest ==
    ASSUME TypeOK, Rows, OverflowsAreOver, OneRunPerRequest, [Next]_vars
    PROVE  OneRunPerRequest'
<1> SUFFICES ASSUME NEW r \in Run, NEW s \in Run, r # s,
                    runs'[r].status # "absent", runs'[s].status # "absent",
                    runs'[r].conversation = runs'[s].conversation, runs'[r].origin = runs'[s].origin
             PROVE  FALSE
  BY DEF OneRunPerRequest
<1>1. runs[r].status # "absent" /\ runs[s].status # "absent"
  BY NewRunIsFirst
<1> QED BY <1>1, RunsRemain DEF OneRunPerRequest, SameTurn

\* Whoever starts a turn, a user's request or an overflow, a conversation never has
\* two runs in progress, and neither a request nor an overflow makes two of them.
THEOREM ConversationsTakeTurns == Spec => []RunsTakeTurns
<1>1. Init => OneActiveRun /\ OverflowsAreOver /\ OneRunPerRequest
  BY DEF Init, OneActiveRun, OverflowsAreOver, OneRunPerRequest, Active, NoRow
<1>2. TypeOK /\ Rows /\ OneActiveRun /\ [Next]_vars => (TypeOK /\ Rows /\ OneActiveRun)'
  BY NextKeepsTypes, NextKeepsOneActiveRun
<1>3. /\ TypeOK /\ Rows /\ OverflowsAreOver /\ OneRunPerRequest /\ [Next]_vars
      => (OverflowsAreOver /\ OneRunPerRequest)'
  BY NextKeepsOverflows, NextKeepsOneRunPerRequest
<1>4. OneActiveRun /\ OneRunPerRequest => RunsTakeTurns
  BY DEF RunsTakeTurns
<1> QED BY InitTypes, <1>1, <1>2, <1>3, <1>4, PTL DEF Spec

----------------------------------------------------------------------------
(* Tool receipts across a recovery. *)

\* No step takes a run to the queue with a tool call in progress.
LEMMA NextKeepsQueuedTools ==
    ASSUME TypeOK, Rows, BlankInv, QueuedHasNoOpenTool, [Next]_vars
    PROVE  QueuedHasNoOpenTool'
<1> SUFFICES ASSUME NEW x \in Run, runs'[x].status = "queued"
             PROVE  \A k \in Call : receipts'[x][k] # "running"
  BY DEF QueuedHasNoOpenTool, RunningReceipt
<1>1. runs[x] \in Row /\ RowInv(runs[x]) /\ RowStep(runs[x], runs'[x], TakenBack(x))
  BY NextIsRowStep DEF TypeOK, Rows
<1>2. CASE runs[x].status \notin {"absent", "queued"}
  BY <1>1, <1>2, RowStepFacts DEF TakenBack, Recoverable, RunningReceipt
<1>3. CASE runs[x].status \in {"absent", "queued"}
  <2>1. receipts'[x] = receipts[x]
    BY <1>3, TaskStep
  <2> QED BY <1>3, <2>1 DEF BlankInv, QueuedHasNoOpenTool, RunningReceipt
<1> QED BY <1>2, <1>3

----------------------------------------------------------------------------
(* Approval gates. *)

\* A gate is opened by a running run, settles once, and is otherwise left alone.
LEMMA GateStep ==
    ASSUME TypeOK, [Next]_vars, NEW x \in Run, NEW k \in Call
    PROVE  \/ gates'[x][k] = gates[x][k]
           \/ /\ gates[x][k] = "none" /\ gates'[x][k] = "pending"
              /\ runs[x].status = "running"
           \/ gates[x][k] = "pending" /\ gates'[x][k] \in Verdict \cup {"expired"}
<1> DEFINE Good == \/ gates'[x][k] = gates[x][k]
                   \/ /\ gates[x][k] = "none" /\ gates'[x][k] = "pending"
                      /\ runs[x].status = "running"
                   \/ gates[x][k] = "pending" /\ gates'[x][k] \in Verdict \cup {"expired"}
<1> USE DEF TypeOK
<1>1. CASE gates' = gates
  BY <1>1
<1>2. ASSUME NEW r \in Run, NEW j \in Call,
             ReadApproval(r, j) \/ \E verdict \in Verdict : DecideApproval(r, j, verdict)
      PROVE  Good
  <2>1. PICK v \in Verdict \cup {"expired"} :
            gates[r][j] = "pending" /\ gates' = [gates EXCEPT ![r][j] = v]
    BY <1>2 DEF ReadApproval, DecideApproval
  <2>2. CASE x = r /\ k = j
    <3>1. gates'[x][k] = v
      BY <2>1, <2>2
    <3> QED BY <2>1, <2>2, <3>1
  <2>3. CASE ~(x = r /\ k = j)
    <3>1. gates'[x][k] = gates[x][k]
      BY <2>1, <2>3
    <3> QED BY <3>1
  <2> QED BY <2>2, <2>3
<1>3. ASSUME NEW r \in Run, NEW t \in 1..runs[r].claims, NEW j \in Call, ApprovalRequest(r, t, j)
      PROVE  Good
  <2>1. CASE ReadApproval(r, j)
    BY <1>2, <2>1
  <2>2. CASE gates[r][j] = "none" /\ gates' = [gates EXCEPT ![r][j] = "pending"]
    <3>1. runs[r].status = "running"
      BY <1>3 DEF ApprovalRequest, MayTask, Holds
    <3>2. CASE x = r /\ k = j
      BY <2>2, <3>1, <3>2
    <3>3. CASE ~(x = r /\ k = j)
      BY <2>2, <3>3
    <3> QED BY <3>2, <3>3
  <2> QED BY <1>3, <2>1, <2>2 DEF ApprovalRequest
<1>4. ASSUME NEW r \in Run, CloseGates(r)
      PROVE  Good
  BY <1>4 DEF CloseGates
<1>5. CASE ReapGates
  BY <1>5 DEF ReapGates
<1>6. ASSUME NEW r \in Run, UserRequest(r)
      PROVE  Good
  BY <1>1, <1>2, <1>6 DEF UserRequest, Enqueue, Cancel, Workspace
<1>7. ASSUME NEW r \in Run, Claim(r) \/ ClaimForbidden(r) \/ LeaseLapse(r) \/ Tick(r)
      PROVE  Good
  BY <1>1, <1>7 DEF Claim, ClaimForbidden, LeaseLapse, Tick
<1>8. ASSUME NEW r \in Run, NEW t \in 1..runs[r].claims, RuntimeRequest(r, t)
      PROVE  \/ gates' = gates \/ CloseGates(r)
             \/ \E j \in Call : ReadApproval(r, j) \/ ApprovalRequest(r, t, j)
  BY <1>8 DEF RuntimeRequest, Renew, AppendEvent, SaveSnapshot, ToolStart, ToolFinish, ApprovalPoll,
              FinishSucceeded, FinishUnanswered, FinishOverflow
<1>9. CASE ReapRequeue \/ ReapFail \/ UNCHANGED vars
  BY <1>1, <1>9 DEF ReapRequeue, ReapFail, vars
<1> QED BY <1>2, <1>1, <1>3, <1>4, <1>5, <1>6, <1>7, <1>8, <1>9 DEF Next, Reap

LEMMA NextKeepsBlank ==
    ASSUME TypeOK, Rows, BlankInv, [Next]_vars
    PROVE  BlankInv'
<1> SUFFICES ASSUME NEW x \in Run, runs'[x].status = "absent", NEW k \in Call
             PROVE  receipts'[x][k] = "none" /\ gates'[x][k] = "none"
  BY DEF BlankInv
<1>1. runs[x].status = "absent"
  BY NextIsRowStep, RowStepFacts DEF TypeOK, Rows
<1> QED BY <1>1, TaskStep, GateStep DEF BlankInv

\* A verdict, and an expiry, is never taken back: the runtime cannot read two
\* different answers from one gate.
THEOREM VerdictsStand == Spec => VerdictIsFinal
<1>1. TypeOK /\ Rows /\ [Next]_vars => (TypeOK /\ Rows)'
  BY NextKeepsTypes
<1>2. TypeOK /\ [Next]_vars
      => [\A r \in Run, k \in Call : gates[r][k] \in Verdict \cup {"expired"}
                                    => gates'[r][k] = gates[r][k]]_vars
  BY GateStep DEF Verdict
<1> QED BY InitTypes, <1>1, <1>2, PTL DEF Spec, VerdictIsFinal

\* However a run came to wait for a runtime, none of its tool calls has an outcome
\* nobody knows.
THEOREM RequeueIsClean == Spec => []QueuedHasNoOpenTool
<1>1. Init => BlankInv /\ QueuedHasNoOpenTool
  BY DEF Init, BlankInv, QueuedHasNoOpenTool, NoRow
<1>2. /\ TypeOK /\ Rows /\ BlankInv /\ QueuedHasNoOpenTool /\ [Next]_vars
      => (TypeOK /\ Rows /\ BlankInv /\ QueuedHasNoOpenTool)'
  BY NextKeepsTypes, NextKeepsBlank, NextKeepsQueuedTools
<1> QED BY InitTypes, <1>1, <1>2, PTL DEF Spec

\* While a gate is pending its window moves with the clock, which moves the run's
\* deadline too; the deadline of a run in progress moves otherwise only up.
LEMMA ClockStep ==
    ASSUME TypeOK, [Next]_vars, NEW x \in Run, NEW k \in Call, Active(x),
           gates[x][k] = "pending", gates'[x][k] = "pending"
    PROVE  \/ /\ gateLeft'[x][k] = gateLeft[x][k]
              /\ runs'[x].deadline \in {runs[x].deadline, Stretch(runs[x].deadline)}
           \/ /\ gateLeft'[x][k] = Less(gateLeft[x][k])
              /\ runs'[x].deadline = Less(runs[x].deadline)
<1> DEFINE Same == gateLeft'[x][k] = gateLeft[x][k]
           Still == Same /\ runs'[x].deadline = runs[x].deadline
           Stretched == Same /\ runs'[x].deadline = Stretch(runs[x].deadline)
           Ticks == /\ gateLeft'[x][k] = Less(gateLeft[x][k])
                    /\ runs'[x].deadline = Less(runs[x].deadline)
<1> USE DEF TypeOK
<1>0. runs[x].status \in {"queued", "running"} /\ runs[x] \in Row
  BY DEF Active
<1>1. CASE UNCHANGED vars
  BY <1>1 DEF vars
<1>2. ASSUME NEW r \in Run, UserRequest(r)
      PROVE  Still
  <2>1. ASSUME NEW c \in Conversation, NEW q \in Request, NEW compact \in BOOLEAN,
               Enqueue(c, q, r, compact)
        PROVE  Still
    BY <1>0, <2>1 DEF Enqueue
  <2>2. CASE Cancel(r)
    <3>1. runs'[x] \in {runs[x], Stopped(runs[x])}
      BY <2>2 DEF Cancel
    <3> QED BY <1>0, <2>2, <3>1, Deadlines DEF Cancel
  <2> QED BY <1>2, <2>1, <2>2 DEF UserRequest, Workspace, DecideApproval
<1>3. ASSUME NEW r \in Run, Claim(r) \/ ClaimForbidden(r) \/ LeaseLapse(r)
      PROVE  Still
  <2>1. runs'[x] \in {runs[x], Leased(runs[x]), Refused(runs[x]), Lapsed(runs[x])}
    BY <1>3 DEF Claim, ClaimForbidden, LeaseLapse
  <2> QED BY <1>0, <1>3, <2>1, Deadlines DEF Claim, ClaimForbidden, LeaseLapse
<1>4. ASSUME NEW r \in Run, Tick(r)
      PROVE  Still \/ Ticks
  <2>1. CASE r # x
    BY <1>4, <2>1 DEF Tick
  <2>2. CASE r = x
    <3>1. runs'[x] = Until(runs[x], Less(runs[x].deadline))
      BY <1>4, <2>2 DEF Tick
    <3> QED BY <1>0, <1>4, <2>2, <3>1, Deadlines DEF Tick
  <2> QED BY <2>1, <2>2
<1>5. ASSUME NEW r \in Run, NEW t \in 1..runs[r].claims, RuntimeRequest(r, t)
      PROVE  Still \/ Stretched
  <2>1. CASE Renew(r, t)
    <3>1. runs'[x] \in {runs[x], Renewed(runs[x])}
      BY <2>1 DEF Renew
    <3> QED BY <1>0, <2>1, <3>1, Deadlines DEF Renew
  <2>2. ASSUME NEW j \in Call, ApprovalRequest(r, t, j)
        PROVE  Still \/ Stretched
    <3>1. runs'[x] \in {runs[x], Until(runs[x], Stretch(runs[x].deadline))}
      BY <2>2 DEF ApprovalRequest
    <3>2. CASE gateLeft' = gateLeft
      BY <1>0, <3>1, <3>2, Deadlines
    <3>3. CASE gates[r][j] = "none" /\ gateLeft' = [gateLeft EXCEPT ![r][j] = Window]
      <4>1. r # x \/ j # k
        BY <3>3
      <4>2. Same
        <5>1. CASE r # x
          BY <3>3, <5>1
        <5>2. CASE r = x /\ j # k
          BY <3>3, <5>2
        <5> QED BY <4>1, <5>1, <5>2
      <4> QED BY <1>0, <3>1, <4>2, Deadlines
    <3> QED BY <2>2, <3>2, <3>3 DEF ApprovalRequest
  <2>3. ASSUME NEW status, runs' = [runs EXCEPT ![r] = EndedAs(@, status)], gateLeft' = gateLeft
        PROVE  Still
    <3>1. runs'[x] \in {runs[x], EndedAs(runs[x], status)}
      BY <2>3
    <3> QED BY <1>0, <2>3, <3>1, Deadlines
  <2>4. ASSUME NEW s \in Run, NEW ticks \in Budget..(Budget + Window),
               FinishOverflow(r, t, s, ticks)
        PROVE  Still
    <3>1. x # s
      BY <1>0, <2>4 DEF FinishOverflow
    <3>2. runs'[x] \in {runs[x], EndedAs(runs[x], "failed")}
      BY <2>4, <3>1 DEF FinishOverflow
    <3>3. Same
      BY <2>4 DEF FinishOverflow
    <3>4. runs'[x].deadline = runs[x].deadline
      BY <1>0, <3>2, Deadlines
    <3> QED BY <3>3, <3>4
  <2>5. CASE FinishSucceeded(r, t)
    BY <2>3, <2>5 DEF FinishSucceeded
  <2>6. ASSUME NEW reported \in Ended, FinishUnanswered(r, t, reported)
        PROVE  Still
    BY <2>3, <2>6 DEF FinishUnanswered
  <2> QED BY <1>5, <2>1, <2>2, <2>4, <2>5, <2>6
          DEF RuntimeRequest, AppendEvent, SaveSnapshot, ToolStart, ToolFinish, ApprovalPoll
<1>6. CASE Reap
  <2>1. runs'[x] \in {runs[x], Requeued(runs[x]), EndedAs(runs[x], "failed")}
    BY <1>6 DEF Reap, ReapRequeue, ReapFail, ReapGates
  <2> QED BY <1>0, <1>6, <2>1, Deadlines DEF Reap, ReapRequeue, ReapFail, ReapGates
<1> QED BY <1>1, <1>2, <1>3, <1>4, <1>5, <1>6 DEF Next

\* A gate is opened with a whole window, and the deadline is moved behind it.
LEMMA GateOpens ==
    ASSUME TypeOK, [Next]_vars, NEW x \in Run, NEW k \in Call,
           gates[x][k] = "none", gates'[x][k] = "pending"
    PROVE  gateLeft'[x][k] = Window /\ runs'[x].deadline = Stretch(runs[x].deadline)
<1> USE DEF TypeOK
<1>1. ~UNCHANGED gates
  OBVIOUS
<1>2. ASSUME NEW r \in Run, NEW j \in Call, NEW v \in Verdict \cup {"expired"}
      PROVE  gates' # [gates EXCEPT ![r][j] = v]
  <2> SUFFICES ASSUME gates' = [gates EXCEPT ![r][j] = v]
               PROVE  FALSE
    OBVIOUS
  <2>1. CASE r = x /\ j = k
    BY <2>1 DEF Verdict
  <2>2. CASE r # x
    BY <2>2
  <2>3. CASE r = x /\ j # k
    BY <2>3
  <2> QED BY <2>1, <2>2, <2>3
<1>3. ASSUME NEW r \in Run
      PROVE  ~CloseGates(r)
  <2> SUFFICES ASSUME CloseGates(r)
               PROVE  FALSE
    OBVIOUS
  <2>1. CASE r = x
    <3>1. gates'[x] = [j \in Call |-> IF gates[x][j] = "pending" THEN "expired" ELSE gates[x][j]]
      BY <2>1 DEF CloseGates
    <3> QED BY <3>1
  <2>2. CASE r # x
    BY <2>2 DEF CloseGates
  <2> QED BY <2>1, <2>2
<1>4. ASSUME NEW r \in Run, NEW t \in 1..runs[r].claims, RuntimeRequest(r, t)
      PROVE  \E j \in Call : /\ gates' = [gates EXCEPT ![r][j] = "pending"]
                            /\ gateLeft' = [gateLeft EXCEPT ![r][j] = Window]
                            /\ runs' = [runs EXCEPT ![r] = Until(@, Stretch(@.deadline))]
  BY <1>1, <1>2, <1>3, <1>4
     DEF RuntimeRequest, Renew, AppendEvent, SaveSnapshot, ToolStart, ToolFinish, ApprovalRequest,
         ApprovalPoll, ReadApproval, FinishSucceeded, FinishUnanswered, FinishOverflow
<1>5. ASSUME NEW r \in Run
      PROVE  ~(UserRequest(r) \/ Claim(r) \/ ClaimForbidden(r) \/ LeaseLapse(r) \/ Tick(r))
  BY <1>1, <1>2 DEF UserRequest, Enqueue, Cancel, Workspace, ReadApproval, DecideApproval, Claim,
                    ClaimForbidden, LeaseLapse, Tick
<1>6. ~Reap /\ ~UNCHANGED vars
  BY <1>1 DEF Reap, ReapRequeue, ReapFail, ReapGates, vars
<1>7. PICK r \in Run, j \in Call : /\ gates' = [gates EXCEPT ![r][j] = "pending"]
                                  /\ gateLeft' = [gateLeft EXCEPT ![r][j] = Window]
                                  /\ runs' = [runs EXCEPT ![r] = Until(@, Stretch(@.deadline))]
  BY <1>4, <1>5, <1>6 DEF Next
<1>8. x = r /\ k = j
  BY <1>7
<1>9. runs'[x] = Until(runs[x], Stretch(runs[x].deadline)) /\ runs[x] \in Row
  BY <1>7, <1>8
<1> QED BY <1>7, <1>8, <1>9, Deadlines

LEMMA NextKeepsGateWithinDeadline ==
    ASSUME TypeOK, Rows, BlankInv, GateWithinDeadline, [Next]_vars
    PROVE  GateWithinDeadline'
<1> SUFFICES ASSUME NEW x \in Run, NEW k \in Call, gates'[x][k] = "pending", Active(x)'
             PROVE  gateLeft'[x][k] <= runs'[x].deadline
  BY DEF GateWithinDeadline, Active
<1>1. Active(x)
  <2>1. CASE runs[x].status = "absent"
    BY <2>1, GateStep DEF BlankInv
  <2> QED BY <2>1, ActiveStep
<1>2. /\ runs[x].deadline \in Nat /\ gateLeft[x][k] \in Nat
      /\ gates[x][k] = "pending" => gateLeft[x][k] <= runs[x].deadline
  BY <1>1 DEF TypeOK, Row, GateWithinDeadline
<1>3. Window \in Nat
  BY ConstantsAssumption
<1>4. CASE gates[x][k] = "pending"
  BY <1>1, <1>2, <1>3, <1>4, ClockStep DEF Less, Stretch
<1>5. CASE gates[x][k] # "pending"
  <2>1. gates[x][k] = "none"
    BY <1>5, GateStep
  <2> QED BY <1>2, <1>3, <2>1, GateOpens DEF Stretch
<1> QED BY <1>4, <1>5

\* A run that waits for a person is never overtaken by its own deadline.
THEOREM WaitingIsNotExecuting == Spec => []GateWithinDeadline
<1>1. Init => BlankInv /\ GateWithinDeadline
  BY DEF Init, BlankInv, GateWithinDeadline
<1>2. /\ TypeOK /\ Rows /\ BlankInv /\ GateWithinDeadline /\ [Next]_vars
      => (TypeOK /\ Rows /\ BlankInv /\ GateWithinDeadline)'
  BY NextKeepsTypes, NextKeepsBlank, NextKeepsGateWithinDeadline
<1> QED BY InitTypes, <1>1, <1>2, PTL DEF Spec

-----------------------------------------------------------------------------
(* What the runs check together. *)

\* Neither the log nor the receipts of a run mix two leases.
THEOREM RecoveryIsClean == Spec => []FencedByLease
BY LogIsFenced, RequeueIsClean, PTL DEF FencedByLease

\* No step takes back how a run ended or what was decided at its gates.
THEOREM WhatIsOverStays == Spec => NothingIsTakenBack
BY EndedStaysEnded, VerdictsStand DEF NothingIsTakenBack

----------------------------------------------------------------------------
(* The queue implements the life cycle of its runs. *)

\* What RunLifecycle is told of the rows.
Phase == [r \in Run |-> runs[r].status]
Home == [r \in Run |-> runs[r].conversation]
Stopping == {r \in Run : runs[r].cancelRequested}
Attempts == [r \in Run |-> runs[r].claims]

View == <<Phase, Home, Stopping, Attempts, messages>>

\* A statement that replaces one row changes what is told of that row alone.
LEMMA RowView ==
    ASSUME TypeOK, NEW r \in Run, NEW new \in Row, runs' = [runs EXCEPT ![r] = new],
           new.conversation = runs[r].conversation
    PROVE  /\ Phase' = [Phase EXCEPT ![r] = new.status]
           /\ Home' = Home
           /\ Stopping' = IF new.cancelRequested THEN Stopping \cup {r} ELSE Stopping \ {r}
           /\ Attempts' = [Attempts EXCEPT ![r] = new.claims]
<1>1. \A x \in Run : runs'[x] = IF x = r THEN new ELSE runs[x]
  BY DEF TypeOK
<1>2. Phase' = [Phase EXCEPT ![r] = new.status]
  <2>1. \A x \in Run : Phase'[x] = IF x = r THEN new.status ELSE Phase[x]
    <3> SUFFICES ASSUME NEW x \in Run PROVE Phase'[x] = IF x = r THEN new.status ELSE Phase[x]
      OBVIOUS
    <3>1. Phase'[x] = runs'[x].status /\ Phase[x] = runs[x].status
      BY DEF Phase
    <3>2. x = r => runs'[x].status = new.status
      BY <1>1
    <3>3. x # r => runs'[x].status = runs[x].status
      BY <1>1
    <3> QED BY <3>1, <3>2, <3>3
  <2>2. Phase' = [x \in Run |-> Phase'[x]] /\ Phase = [x \in Run |-> Phase[x]]
    BY DEF Phase
  <2> QED BY <2>1, <2>2, Zenon
<1>3. Home' = Home
  BY <1>1 DEF Home
<1>4. Stopping' = IF new.cancelRequested THEN Stopping \cup {r} ELSE Stopping \ {r}
  BY <1>1 DEF Stopping
<1>5. Attempts' = [Attempts EXCEPT ![r] = new.claims]
  <2>1. \A x \in Run : Attempts'[x] = IF x = r THEN new.claims ELSE Attempts[x]
    <3> SUFFICES ASSUME NEW x \in Run PROVE Attempts'[x] = IF x = r THEN new.claims ELSE Attempts[x]
      OBVIOUS
    <3>1. Attempts'[x] = runs'[x].claims /\ Attempts[x] = runs[x].claims
      BY DEF Attempts
    <3>2. x = r => runs'[x].claims = new.claims
      BY <1>1
    <3>3. x # r => runs'[x].claims = runs[x].claims
      BY <1>1
    <3> QED BY <3>1, <3>2, <3>3
  <2>2. Attempts' = [x \in Run |-> Attempts'[x]] /\ Attempts = [x \in Run |-> Attempts[x]]
    BY DEF Attempts
  <2> QED BY <2>1, <2>2, Zenon
<1> QED BY <1>2, <1>3, <1>4, <1>5

\* ... and nothing at all when it leaves status, cancel and claims alone.
LEMMA SameView ==
    ASSUME TypeOK, NEW r \in Run, NEW new \in Row, runs' = [runs EXCEPT ![r] = new],
           new.conversation = runs[r].conversation, new.status = runs[r].status,
           new.cancelRequested = runs[r].cancelRequested, new.claims = runs[r].claims,
           messages' = messages
    PROVE  UNCHANGED View
<1>1. \A x \in Run : runs'[x] = IF x = r THEN new ELSE runs[x]
  BY DEF TypeOK
<1>2. Phase' = Phase
  BY <1>1 DEF Phase
<1>3. Home' = Home
  BY <1>1 DEF Home
<1>4. Stopping' = Stopping
  BY <1>1 DEF Stopping
<1>5. Attempts' = Attempts
  BY <1>1 DEF Attempts
<1> QED BY <1>2, <1>3, <1>4, <1>5 DEF View

LEMMA ViewStutters ==
    UNCHANGED View => UNCHANGED Lifecycle!lifecycleVars
BY DEF View, Phase, Home, Stopping, Attempts, Lifecycle!lifecycleVars

LEMMA InitView == Init => Lifecycle!Init
<1> SUFFICES ASSUME Init PROVE Lifecycle!Init
  OBVIOUS
<1>1. \A r \in Run : runs[r] = NoRow
  BY DEF Init
<1>2. /\ NoRow.status = "absent" /\ NoRow.conversation = None
      /\ NoRow.cancelRequested = FALSE /\ NoRow.claims = 0
  BY DEF NoRow
<1>3. messages = [c \in Conversation |-> <<>>]
  BY DEF Init
<1> QED BY <1>1, <1>2, <1>3 DEF Lifecycle!Init

\* A user's turn is a question asked in an idle conversation.
LEMMA EnqueueAsks ==
    ASSUME TypeOK, Rows, NEW c \in Conversation, NEW q \in Request, NEW r \in Run,
           NEW compact \in BOOLEAN, Enqueue(c, q, r, compact)
    PROVE  Lifecycle!Ask(r, c)
<1> DEFINE new == Queued(c, q, compact, Budget)
<1>1. new \in Row
  BY QueuedRow, ConstantsAssumption
<1>2. new.status = "queued" /\ new.conversation = c /\ ~new.cancelRequested /\ new.claims = 0
  BY QueuedRowTurn, QueuedRowCounters
<1>3. /\ runs[r].status = "absent" /\ runs' = [runs EXCEPT ![r] = new]
      /\ messages' = [messages EXCEPT ![c] = Append(@, [role |-> "user", run |-> r])]
      /\ \A x \in Run : Active(x) => runs[x].conversation # c
  BY DEF Enqueue, Busy
<1>4. ~runs[r].cancelRequested /\ runs[r].claims = 0
  BY <1>3 DEF Rows, RowInv
<1> HIDE DEF new
<1>5. \A x \in Run : runs'[x] = IF x = r THEN new ELSE runs[x]
  BY <1>3 DEF TypeOK
<1>6. Phase' = [Phase EXCEPT ![r] = "queued"]
  BY <1>2, <1>5 DEF Phase
<1>7. Home' = [Home EXCEPT ![r] = c]
  BY <1>2, <1>5 DEF Home
<1>8. Stopping' = Stopping
  BY <1>2, <1>4, <1>5 DEF Stopping
<1>9. Attempts' = Attempts
  BY <1>2, <1>4, <1>5 DEF Attempts
<1>10. Lifecycle!Idle(c)
  BY <1>3 DEF Lifecycle!Idle, Lifecycle!Open, Active
<1>11. [x \in Run |-> runs[x].status][r] = "absent"
  BY <1>3
<1> QED BY <1>3, <1>6, <1>7, <1>8, <1>9, <1>10, <1>11 DEF Lifecycle!Ask, Phase, Home, Stopping, Attempts

LEMMA CancelAsksToStop ==
    ASSUME TypeOK, Rows, NEW r \in Run, Cancel(r)
    PROVE  Lifecycle!AskToStop(r)
<1> DEFINE new == Stopped(runs[r])
<1>1. runs[r] \in Row /\ runs[r].status \in {"queued", "running"} /\ runs' = [runs EXCEPT ![r] = new]
      /\ messages' = messages
  BY DEF TypeOK, Cancel, Active
<1>2. /\ new \in Row /\ new.conversation = runs[r].conversation /\ new.cancelRequested = TRUE
      /\ new.claims = runs[r].claims
      /\ new.status = IF runs[r].status = "queued" THEN "cancelled" ELSE "running"
  BY <1>1, StoppedRow DEF SameTurn
<1> HIDE DEF new
<1>3. /\ Phase' = [Phase EXCEPT ![r] = new.status] /\ Home' = Home
      /\ Stopping' = Stopping \cup {r} /\ Attempts' = [Attempts EXCEPT ![r] = new.claims]
  BY <1>1, <1>2, RowView
<1>4. Phase[r] = runs[r].status /\ Attempts[r] = runs[r].claims
  BY DEF Phase, Attempts
<1>5. Phase[r] \in {"queued", "running"} /\ new.status = IF Phase[r] = "queued" THEN "cancelled" ELSE Phase[r]
  BY <1>1, <1>2, <1>4
<1>6. Phase' = [Phase EXCEPT ![r] = IF Phase[r] = "queued" THEN "cancelled" ELSE Phase[r]]
  BY <1>3, <1>5, Zenon
<1>7. Attempts' = Attempts
  <2>1. new.claims = Attempts[r]
    BY <1>2, <1>4
  <2>2. Attempts = [x \in Run |-> Attempts[x]]
    BY DEF Attempts
  <2> QED BY <1>3, <2>1, <2>2
<1> QED BY <1>1, <1>3, <1>5, <1>6, <1>7 DEF Lifecycle!AskToStop, Lifecycle!Open, Phase, Home, Stopping, Attempts

LEMMA ClaimHandsOut ==
    ASSUME TypeOK, Rows, NEW r \in Run, Claim(r)
    PROVE  Lifecycle!HandOut(r)
<1> DEFINE new == Leased(runs[r])
<1>1. /\ runs[r] \in Row /\ RowInv(runs[r]) /\ runs[r].status = "queued"
      /\ runs' = [runs EXCEPT ![r] = new] /\ messages' = messages
  BY DEF TypeOK, Rows, Claim
<1>2. /\ new \in Row /\ new.conversation = runs[r].conversation
      /\ new.cancelRequested = runs[r].cancelRequested
      /\ new.claims = runs[r].claims + 1 /\ new.status = "running"
  BY <1>1, LeasedRow DEF SameTurn
<1> HIDE DEF new
<1>3. runs[r].claims < MaxRecovery + 1 /\ ~runs[r].cancelRequested
  <2>1. runs[r].claims \in Nat /\ runs[r].recoveryCount \in Nat
    BY <1>1 DEF Row
  <2> QED BY <1>1, <2>1, ConstantsAssumption DEF RowInv
<1>4. /\ Phase' = [Phase EXCEPT ![r] = new.status] /\ Home' = Home
      /\ Stopping' = Stopping \ {r} /\ Attempts' = [Attempts EXCEPT ![r] = new.claims]
  BY <1>1, <1>2, <1>3, RowView
<1>5. Phase[r] = "queued" /\ Attempts[r] = runs[r].claims /\ r \notin Stopping
  BY <1>1, <1>3 DEF Phase, Attempts, Stopping
<1>6. Phase' = [Phase EXCEPT ![r] = "running"] /\ Stopping' = Stopping
  BY <1>2, <1>4, <1>5
<1>7. Attempts' = [Attempts EXCEPT ![r] = Attempts[r] + 1]
  BY <1>2, <1>4, <1>5
<1>8. Attempts[r] < MaxRecovery + 1
  BY <1>3, <1>5
<1> QED BY <1>1, <1>4, <1>5, <1>6, <1>7, <1>8 DEF Lifecycle!HandOut, Phase, Home, Stopping, Attempts

\* One turn ends without an answer.
LEMMA EndsUnanswered ==
    ASSUME TypeOK, NEW r \in Run, NEW new \in Row, runs' = [runs EXCEPT ![r] = new], messages' = messages,
           new.conversation = runs[r].conversation, new.cancelRequested = runs[r].cancelRequested,
           new.claims = runs[r].claims, runs[r].status \in {"queued", "running"},
           new.status \in {"failed", "cancelled"},
           runs[r].cancelRequested => new.status = "cancelled"
    PROVE  \E S \in SUBSET Run : \E outcome \in [S -> {"failed", "cancelled"}] : Lifecycle!GiveUp(S, outcome)
<1> DEFINE S == {r}
           outcome == [x \in {r} |-> new.status]
<1>1. \A x \in Run : runs'[x] = IF x = r THEN new ELSE runs[x]
  BY DEF TypeOK
<1>2. S \in SUBSET Run /\ outcome \in [S -> {"failed", "cancelled"}]
  OBVIOUS
<1>3. \A x \in S : /\ runs[x].status \in {"queued", "running"}
                   /\ runs[x].cancelRequested => outcome[x] = "cancelled"
  OBVIOUS
<1>4. Phase' = [x \in Run |-> IF x \in S THEN outcome[x] ELSE Phase[x]]
  BY <1>1 DEF Phase
<1>5. Home' = Home
  BY <1>1 DEF Home
<1>6. Stopping' = Stopping
  BY <1>1 DEF Stopping
<1>7. Attempts' = Attempts
  BY <1>1 DEF Attempts
<1>8. \A x \in S : /\ Phase[x] \in {"queued", "running"}
                   /\ x \in Stopping => outcome[x] = "cancelled"
  BY <1>2, <1>3 DEF Phase, Stopping
<1> HIDE DEF S, outcome
<1>9. Lifecycle!GiveUp(S, outcome)
  BY <1>4, <1>5, <1>6, <1>7, <1>8 DEF Lifecycle!GiveUp, Lifecycle!Open, Phase, Home, Stopping, Attempts
<1> QED BY <1>2, <1>9

LEMMA SuccessAnswers ==
    ASSUME TypeOK, Rows, NEW r \in Run, NEW t, FinishSucceeded(r, t)
    PROVE  Lifecycle!Answer(r)
<1> DEFINE new == EndedAs(runs[r], "succeeded")
           c == runs[r].conversation
<1>1. /\ runs[r] \in Row /\ runs[r].status = "running" /\ ~runs[r].cancelRequested
      /\ runs' = [runs EXCEPT ![r] = new]
      /\ messages' = [messages EXCEPT ![c] = Append(@, [role |-> "assistant", run |-> r])]
  BY DEF TypeOK, FinishSucceeded, Holds
<1>2. /\ new \in Row /\ new.conversation = c
      /\ ~new.cancelRequested /\ new.claims = runs[r].claims /\ new.status = "succeeded"
  BY <1>1, EndedAsRow DEF SameTurn, Ended
<1> HIDE DEF new
<1>3. \A x \in Run : runs'[x] = IF x = r THEN new ELSE runs[x]
  BY <1>1 DEF TypeOK
<1>4. Phase' = [Phase EXCEPT ![r] = "succeeded"]
  BY <1>2, <1>3 DEF Phase
<1>5. Home' = Home
  BY <1>2, <1>3 DEF Home
<1>6. Stopping' = Stopping
  BY <1>1, <1>2, <1>3 DEF Stopping
<1>7. Attempts' = Attempts
  BY <1>2, <1>3 DEF Attempts
<1>8. Phase[r] = "running" /\ r \notin Stopping /\ Home[r] = c
  BY <1>1 DEF Phase, Stopping, Home
<1> HIDE DEF c
<1>9. messages' = [messages EXCEPT ![Home[r]] = Append(@, [role |-> "assistant", run |-> r])]
  BY <1>1, <1>8 DEF c
<1> QED BY <1>4, <1>5, <1>6, <1>7, <1>8, <1>9 DEF Lifecycle!Answer, Phase, Home, Stopping, Attempts

LEMMA OverflowFollowsUp ==
    ASSUME TypeOK, Rows, NEW r \in Run, NEW t, NEW s \in Run, NEW ticks \in Nat, FinishOverflow(r, t, s, ticks)
    PROVE  Lifecycle!FollowUp(r, s)
<1> DEFINE new == EndedAs(runs[r], "failed")
           c == runs[r].conversation
           first == Queued(c, r, TRUE, ticks)
<1>1. /\ runs[r] \in Row /\ runs[r].status = "running" /\ ~runs[r].cancelRequested
      /\ runs[s].status = "absent" /\ r # s
      /\ runs' = [runs EXCEPT ![r] = new, ![s] = first] /\ messages' = messages
  BY DEF TypeOK, FinishOverflow, Holds
<1>2. /\ new.conversation = c
      /\ ~new.cancelRequested /\ new.claims = runs[r].claims /\ new.status = "failed"
  BY <1>1, EndedAsRow DEF SameTurn, Ended
<1>3. first.status = "queued" /\ first.conversation = c /\ ~first.cancelRequested /\ first.claims = 0
  BY DEF Queued, NoRow
<1>4. ~runs[s].cancelRequested /\ runs[s].claims = 0
  BY <1>1 DEF Rows, RowInv
<1> HIDE DEF new, first
<1>5. /\ runs'[s] = first /\ runs'[r] = new
      /\ \A x \in Run \ {r, s} : runs'[x] = runs[x]
  BY <1>1 DEF TypeOK
<1>6. Phase' = [Phase EXCEPT ![r] = "failed", ![s] = "queued"]
  <2>1. Phase'[s] = "queued" /\ Phase'[r] = "failed"
    BY <1>2, <1>3, <1>5 DEF Phase
  <2>2. \A x \in Run \ {r, s} : Phase'[x] = Phase[x]
    BY <1>5 DEF Phase
  <2>3. Phase = [x \in Run |-> Phase[x]] /\ Phase' = [x \in Run |-> Phase'[x]]
    BY DEF Phase
  <2> QED BY <1>1, <2>1, <2>2, <2>3
<1>7. Home' = [Home EXCEPT ![s] = Home[r]]
  <2>1. Home'[s] = Home[r] /\ Home'[r] = Home[r]
    BY <1>2, <1>3, <1>5 DEF Home
  <2>2. \A x \in Run \ {r, s} : Home'[x] = Home[x]
    BY <1>5 DEF Home
  <2>3. Home = [x \in Run |-> Home[x]] /\ Home' = [x \in Run |-> Home'[x]]
    BY DEF Home
  <2> QED BY <1>1, <2>1, <2>2, <2>3
<1>8. Stopping' = Stopping
  BY <1>1, <1>2, <1>3, <1>4, <1>5 DEF Stopping
<1>9. Attempts' = Attempts
  <2>1. Attempts'[s] = Attempts[s] /\ Attempts'[r] = Attempts[r]
    BY <1>2, <1>3, <1>4, <1>5 DEF Attempts
  <2>2. \A x \in Run \ {r, s} : Attempts'[x] = Attempts[x]
    BY <1>5 DEF Attempts
  <2>3. Attempts = [x \in Run |-> Attempts[x]] /\ Attempts' = [x \in Run |-> Attempts'[x]]
    BY DEF Attempts
  <2> QED BY <2>1, <2>2, <2>3
<1>10. Phase[r] = "running" /\ r \notin Stopping /\ Phase[s] = "absent"
  BY <1>1 DEF Phase, Stopping
<1> QED BY <1>1, <1>6, <1>7, <1>8, <1>9, <1>10 DEF Lifecycle!FollowUp, Phase, Home, Stopping, Attempts

\* The reaper's first statement takes turns back, ...
LEMMA RequeueTakesBack ==
    ASSUME TypeOK, Rows, ReapRequeue
    PROVE  \E S \in SUBSET Run : Lifecycle!TakeBack(S)
<1>0. PICK S \in SUBSET Run : S = {r \in Run : Recoverable(r)}
  OBVIOUS
<1>1. /\ \A r \in Run : runs'[r] = IF r \in S THEN Requeued(runs[r]) ELSE runs[r]
      /\ messages' = messages
  BY <1>0 DEF ReapRequeue
<1>2. \A r \in Run : runs[r] \in Row /\ RowInv(runs[r])
  BY DEF TypeOK, Rows
<1>3. \A r \in S : runs[r].status = "running" /\ ~runs[r].cancelRequested /\ runs[r].recoveryCount < MaxRecovery
  BY <1>0 DEF Recoverable, Lost
<1>4. \A r \in S : runs[r].claims < MaxRecovery + 1
  <2> SUFFICES ASSUME NEW r \in S PROVE runs[r].claims < MaxRecovery + 1
    OBVIOUS
  <2>1. runs[r].claims \in Nat /\ runs[r].recoveryCount \in Nat
    BY <1>2 DEF Row
  <2>2. runs[r].claims <= runs[r].recoveryCount + 1
    BY <1>2 DEF RowInv
  <2> QED BY <1>3, <2>1, <2>2, ConstantsAssumption
<1>5. \A r \in S : /\ Requeued(runs[r]).status = "queued"
                   /\ Requeued(runs[r]).conversation = runs[r].conversation
                   /\ Requeued(runs[r]).cancelRequested = runs[r].cancelRequested
                   /\ Requeued(runs[r]).claims = runs[r].claims
  BY <1>2, RequeuedRow DEF SameTurn
<1>6. S \in SUBSET Run
  OBVIOUS
<1>7. Phase' = [r \in Run |-> IF r \in S THEN "queued" ELSE Phase[r]]
  BY <1>1, <1>5 DEF Phase
<1>8. Home' = Home
  BY <1>1, <1>5 DEF Home
<1>9. Stopping' = Stopping
  BY <1>1, <1>5 DEF Stopping
<1>10. Attempts' = Attempts
  BY <1>1, <1>5 DEF Attempts
<1>11. \A r \in S : Phase[r] = "running" /\ r \notin Stopping /\ Attempts[r] < MaxRecovery + 1
  BY <1>3, <1>4, <1>6 DEF Phase, Stopping, Attempts
<1>12. Lifecycle!TakeBack(S)
  BY <1>1, <1>7, <1>8, <1>9, <1>10, <1>11 DEF Lifecycle!TakeBack, Phase, Home, Stopping, Attempts
<1> QED BY <1>6, <1>12

\* ... its second gives turns up.
LEMMA FailGivesUp ==
    ASSUME TypeOK, Rows, ReapFail
    PROVE  \E S \in SUBSET Run : \E outcome \in [S -> {"failed", "cancelled"}] : Lifecycle!GiveUp(S, outcome)
<1>0. PICK S \in SUBSET Run : S = {r \in Run : Overdue(r)}
  OBVIOUS
<1>a. PICK outcome \in [S -> {"failed", "cancelled"}] :
            outcome = [r \in S |-> IF runs[r].cancelRequested THEN "cancelled" ELSE "failed"]
  OBVIOUS
<1>1. /\ \A r \in Run : runs'[r] = IF r \in S THEN EndedAs(runs[r], "failed") ELSE runs[r]
      /\ messages' = messages
  BY <1>0 DEF ReapFail
<1>2. \A r \in Run : runs[r] \in Row
  BY DEF TypeOK
<1>3. \A r \in S : runs[r].status \in {"queued", "running"}
  BY <1>0 DEF Overdue, Active, Lost
<1>4. S \in SUBSET Run /\ outcome \in [S -> {"failed", "cancelled"}]
  OBVIOUS
<1>5. \A r \in S : /\ EndedAs(runs[r], "failed").status = outcome[r]
                   /\ EndedAs(runs[r], "failed").conversation = runs[r].conversation
                   /\ EndedAs(runs[r], "failed").cancelRequested = runs[r].cancelRequested
                   /\ EndedAs(runs[r], "failed").claims = runs[r].claims
  <2> SUFFICES ASSUME NEW r \in S
               PROVE  /\ EndedAs(runs[r], "failed").status = outcome[r]
                      /\ EndedAs(runs[r], "failed").conversation = runs[r].conversation
                      /\ EndedAs(runs[r], "failed").cancelRequested = runs[r].cancelRequested
                      /\ EndedAs(runs[r], "failed").claims = runs[r].claims
    OBVIOUS
  <2>1. runs[r] \in Row /\ "failed" \in Ended
    BY <1>2 DEF Ended
  <2> QED BY <1>a, <2>1, EndedAsRow DEF SameTurn
<1>6. \A r \in S : runs[r].cancelRequested => outcome[r] = "cancelled"
  BY <1>a
<1>7. Phase' = [r \in Run |-> IF r \in S THEN outcome[r] ELSE Phase[r]]
  BY <1>1, <1>5 DEF Phase
<1>8. Home' = Home
  BY <1>1, <1>5 DEF Home
<1>9. Stopping' = Stopping
  BY <1>1, <1>5 DEF Stopping
<1>10. Attempts' = Attempts
  BY <1>1, <1>5 DEF Attempts
<1>11. \A r \in S : Phase[r] \in {"queued", "running"} /\ (r \in Stopping => outcome[r] = "cancelled")
  BY <1>3, <1>4, <1>6 DEF Phase, Stopping
<1>12. Lifecycle!GiveUp(S, outcome)
  BY <1>1, <1>7, <1>8, <1>9, <1>10, <1>11 DEF Lifecycle!GiveUp, Lifecycle!Open, Phase, Home, Stopping, Attempts
<1> QED BY <1>4, <1>12

\* Statements that leave a row's status, cancel and claims alone cannot be observed.
LEMMA ClocksAreUnseen ==
    ASSUME TypeOK, NEW r \in Run, Tick(r) \/ LeaseLapse(r) \/ \E t \in 1..runs[r].claims : Renew(r, t)
    PROVE  UNCHANGED View
<1>1. PICK new \in Row : /\ runs' = [runs EXCEPT ![r] = new]
                         /\ SameTurn(runs[r], new) /\ new.status = runs[r].status
                         /\ new.cancelRequested = runs[r].cancelRequested /\ new.claims = runs[r].claims
  <2>1. runs[r] \in Row /\ Less(runs[r].deadline) \in Nat
    BY DEF TypeOK, Row, Less
  <2>2. CASE LeaseLapse(r)
    BY <2>1, <2>2, LapsedRow DEF LeaseLapse
  <2>3. CASE \E t \in 1..runs[r].claims : Renew(r, t)
    BY <2>1, <2>3, LapsedRow DEF Renew
  <2>4. CASE Tick(r) /\ Active(r)
    BY <2>1, <2>4, UntilRow DEF Tick
  <2>5. CASE Tick(r) /\ ~Active(r)
    BY <2>1, <2>5 DEF Tick, SameTurn
  <2> QED BY <2>2, <2>3, <2>4, <2>5
<1>2. messages' = messages
  BY DEF Tick, LeaseLapse, Renew
<1> QED BY <1>1, <1>2, SameView DEF SameTurn

LEMMA GatesAreUnseen ==
    ASSUME TypeOK, NEW r \in Run, NEW t, NEW k \in Call, ApprovalRequest(r, t, k)
    PROVE  UNCHANGED View
<1>1. runs[r] \in Row /\ Stretch(runs[r].deadline) \in Nat
  BY ConstantsAssumption DEF TypeOK, Row, Stretch
<1>2. CASE runs' = [runs EXCEPT ![r] = Until(@, Stretch(@.deadline))]
  <2> DEFINE new == Until(runs[r], Stretch(runs[r].deadline))
  <2>1. /\ new \in Row /\ new.conversation = runs[r].conversation /\ new.status = runs[r].status
        /\ new.cancelRequested = runs[r].cancelRequested /\ new.claims = runs[r].claims
    BY <1>1, UntilRow DEF SameTurn
  <2>2. runs' = [runs EXCEPT ![r] = new] /\ messages' = messages
    BY <1>2 DEF ApprovalRequest
  <2> HIDE DEF new
  <2> QED BY <2>1, <2>2, SameView
<1>3. CASE runs' = runs
  BY <1>3 DEF ApprovalRequest, View, Phase, Home, Stopping, Attempts
<1> QED BY <1>2, <1>3 DEF ApprovalRequest

LEMMA StepIsObserved ==
    ASSUME TypeOK, Rows, [Next]_vars
    PROVE  Lifecycle!Next \/ UNCHANGED View
<1>1. CASE UNCHANGED <<runs, messages>>
  BY <1>1 DEF View, Phase, Home, Stopping, Attempts
<1>2. ASSUME NEW r \in Run, UserRequest(r)
      PROVE  Lifecycle!Next \/ UNCHANGED <<runs, messages>>
  <2>1. ASSUME NEW c \in Conversation, NEW q \in Request, NEW compact \in BOOLEAN, Enqueue(c, q, r, compact)
        PROVE  Lifecycle!Next
    BY <2>1, EnqueueAsks DEF Lifecycle!Next
  <2>2. CASE Cancel(r)
    BY <2>2, CancelAsksToStop DEF Lifecycle!Next
  <2> QED BY <1>2, <2>1, <2>2 DEF UserRequest, Workspace, DecideApproval
<1>3. ASSUME NEW r \in Run, Claim(r)
      PROVE  Lifecycle!Next
  BY <1>3, ClaimHandsOut DEF Lifecycle!Next
<1>4. ASSUME NEW r \in Run, ClaimForbidden(r)
      PROVE  Lifecycle!Next
  <2>1. /\ runs[r] \in Row /\ RowInv(runs[r]) /\ runs[r].status = "queued"
        /\ runs' = [runs EXCEPT ![r] = Refused(runs[r])] /\ messages' = messages
    BY <1>4 DEF ClaimForbidden, TypeOK, Rows
  <2>2. ~runs[r].cancelRequested
    BY <2>1 DEF RowInv
  <2> QED BY <2>1, <2>2, RefusedRow, EndsUnanswered DEF Lifecycle!Next, SameTurn
<1>5. ASSUME NEW r \in Run, NEW t \in 1..runs[r].claims, RuntimeRequest(r, t)
      PROVE  Lifecycle!Next \/ UNCHANGED View
  <2>1. CASE Renew(r, t)
    BY <2>1, ClocksAreUnseen
  <2>2. ASSUME NEW k \in Call, ApprovalRequest(r, t, k)
        PROVE  UNCHANGED View
    BY <2>2, GatesAreUnseen
  <2>3. CASE FinishSucceeded(r, t)
    BY <2>3, SuccessAnswers DEF Lifecycle!Next
  <2>4. ASSUME NEW reported \in Ended, FinishUnanswered(r, t, reported)
        PROVE  Lifecycle!Next
    <3> DEFINE new == EndedAs(runs[r], reported)
    <3>1. /\ runs[r] \in Row /\ runs[r].status = "running" /\ runs' = [runs EXCEPT ![r] = new]
          /\ messages' = messages /\ (runs[r].cancelRequested \/ reported # "succeeded")
      BY <2>4 DEF FinishUnanswered, Holds, TypeOK
    <3>2. /\ new \in Row /\ new.conversation = runs[r].conversation
          /\ new.cancelRequested = runs[r].cancelRequested /\ new.claims = runs[r].claims
          /\ new.status = IF runs[r].cancelRequested THEN "cancelled" ELSE reported
      BY <3>1, EndedAsRow DEF SameTurn
    <3> HIDE DEF new
    <3>3. new.status \in {"failed", "cancelled"} /\ (runs[r].cancelRequested => new.status = "cancelled")
      BY <3>1, <3>2 DEF Ended
    <3> QED BY <3>1, <3>2, <3>3, EndsUnanswered DEF Lifecycle!Next
  <2>5. ASSUME NEW s \in Run, NEW ticks \in Budget..(Budget + Window), FinishOverflow(r, t, s, ticks)
        PROVE  Lifecycle!Next
    <3>1. ticks \in Nat
      BY ConstantsAssumption
    <3> QED BY <2>5, <3>1, OverflowFollowsUp DEF Lifecycle!Next
  <2>6. CASE UNCHANGED <<runs, messages>>
    BY <1>1, <2>6
  <2> QED BY <1>5, <2>1, <2>2, <2>3, <2>4, <2>5, <2>6
          DEF RuntimeRequest, AppendEvent, SaveSnapshot, ToolStart, ToolFinish, ApprovalPoll
<1>6. ASSUME NEW r \in Run, Tick(r) \/ LeaseLapse(r)
      PROVE  UNCHANGED View
  BY <1>6, ClocksAreUnseen
<1>7. CASE Reap
  <2>1. ReapGates => UNCHANGED <<runs, messages>>
    BY DEF ReapGates
  <2> QED BY <1>1, <1>7, <2>1, RequeueTakesBack, FailGivesUp DEF Reap, Lifecycle!Next
<1>8. CASE UNCHANGED vars
  BY <1>1, <1>8 DEF vars
<1> QED BY <1>1, <1>2, <1>3, <1>4, <1>5, <1>6, <1>7, <1>8 DEF Next

\* Leases, deadlines, recoveries, the reaper's statements and late requests add nothing
\* to what a conversation can observe: every step of the queue is one of the life
\* cycle's, or none, for any number of runs, conversations and recoveries.
THEOREM QueueImplementsLifecycle == Spec => ImplementsLifecycle
<1>1. TypeOK /\ Rows /\ [Next]_vars => [Lifecycle!Next]_Lifecycle!lifecycleVars
  BY StepIsObserved, ViewStutters
<1>2. TypeOK /\ Rows /\ [Next]_vars => (TypeOK /\ Rows)'
  BY NextKeepsTypes, NextKeepsRows
<1> QED BY InitTypes, InitView, <1>1, <1>2, PTL DEF Spec, ImplementsLifecycle, Lifecycle!Spec

----------------------------------------------------------------------------
(* The transcript of a conversation. *)

\* Messages are written by a user's turn and by a finish that succeeds, and by nothing else.
LEMMA MessageStep ==
    ASSUME TypeOK, [Next]_vars
    PROVE  \/ UNCHANGED <<messages, through>>
           \/ \E c \in Conversation, q \in Request, r \in Run, compact \in BOOLEAN : Enqueue(c, q, r, compact)
           \/ \E r \in Run, t \in Nat : FinishSucceeded(r, t)
<1>1. CASE UNCHANGED vars
  BY <1>1 DEF vars
<1>2. ASSUME NEW r \in Run, UserRequest(r)
      PROVE  \/ UNCHANGED <<messages, through>>
             \/ \E c \in Conversation, q \in Request, compact \in BOOLEAN : Enqueue(c, q, r, compact)
  BY <1>2 DEF UserRequest, Cancel, Workspace, DecideApproval
<1>3. ASSUME NEW r \in Run, NEW t \in 1..runs[r].claims, RuntimeRequest(r, t)
      PROVE  UNCHANGED <<messages, through>> \/ FinishSucceeded(r, t)
  BY <1>3 DEF RuntimeRequest, Renew, AppendEvent, SaveSnapshot, ToolStart, ToolFinish, ApprovalRequest,
              ApprovalPoll, FinishUnanswered, FinishOverflow
<1>4. \A r \in Run : \A t \in 1..runs[r].claims : t \in Nat
  BY DEF TypeOK, Row
<1>5. ASSUME NEW r \in Run, Claim(r) \/ ClaimForbidden(r) \/ Tick(r) \/ LeaseLapse(r)
      PROVE  UNCHANGED <<messages, through>>
  BY <1>5 DEF Claim, ClaimForbidden, Tick, LeaseLapse
<1>6. CASE Reap
  BY <1>6 DEF Reap, ReapRequeue, ReapFail, ReapGates
<1> QED BY <1>1, <1>2, <1>3, <1>4, <1>5, <1>6 DEF Next

\* Only a finish makes a run succeed.
LEMMA RunSucceeds ==
    ASSUME TypeOK, Rows, [Next]_vars, NEW x \in Run,
           runs[x].status # "succeeded", runs'[x].status = "succeeded"
    PROVE  \E t \in Nat : FinishSucceeded(x, t)
<1> USE DEF TypeOK
<1>1. ~UNCHANGED runs
  OBVIOUS
<1>2. ASSUME NEW r \in Run
      PROVE  ~UserRequest(r)
  <2>1. ASSUME NEW c \in Conversation, NEW q \in Request, NEW compact \in BOOLEAN, Enqueue(c, q, r, compact)
        PROVE  FALSE
    <3>1. Queued(c, q, compact, Budget).status = "queued"
      BY DEF Queued, NoRow
    <3> QED BY <2>1, <3>1 DEF Enqueue
  <2>2. ~Cancel(r)
    <3> SUFFICES ASSUME Cancel(r) PROVE FALSE
      OBVIOUS
    <3>1. Stopped(runs[r]).status # "succeeded"
      BY StoppedRow DEF Cancel, Active
    <3> QED BY <3>1 DEF Cancel
  <2> QED BY <1>1, <2>1, <2>2 DEF UserRequest, Workspace, DecideApproval
<1>3. ASSUME NEW r \in Run
      PROVE  ~(Claim(r) \/ ClaimForbidden(r) \/ LeaseLapse(r) \/ Tick(r))
  <2>1. /\ Leased(runs[r]).status = "running" /\ Refused(runs[r]).status = "failed"
        /\ Lapsed(runs[r]).status = runs[r].status
    BY LeasedRow, RefusedRow, LapsedRow
  <2>2. Until(runs[r], Less(runs[r].deadline)).status = runs[r].status
    BY DEF Until, Row
  <2> QED BY <2>1, <2>2 DEF Claim, ClaimForbidden, LeaseLapse, Tick
<1>4. ASSUME NEW r \in Run, NEW t \in 1..runs[r].claims, RuntimeRequest(r, t)
      PROVE  FinishSucceeded(x, t)
  <2>1. ~Renew(r, t)
    <3>1. Renewed(runs[r]).status = runs[r].status
      BY LapsedRow
    <3> QED BY <3>1 DEF Renew
  <2>2. \A k \in Call : ~ApprovalRequest(r, t, k)
    <3>1. Until(runs[r], Stretch(runs[r].deadline)).status = runs[r].status
      BY DEF Until, Row
    <3> QED BY <1>1, <3>1 DEF ApprovalRequest
  <2>3. ASSUME NEW reported \in Ended PROVE ~FinishUnanswered(r, t, reported)
    <3>1. runs[r].cancelRequested \/ reported # "succeeded" => EndedAs(runs[r], reported).status # "succeeded"
      BY EndedAsRow
    <3> QED BY <3>1 DEF FinishUnanswered
  <2>4. ASSUME NEW s \in Run, NEW n, FinishOverflow(r, t, s, n)
        PROVE  FALSE
    <3>1. EndedAs(runs[r], "failed").status # "succeeded"
      BY EndedAsRow DEF Ended
    <3>2. Queued(runs[r].conversation, r, TRUE, n).status = "queued"
      BY DEF Queued, NoRow
    <3> QED BY <2>4, <3>1, <3>2 DEF FinishOverflow
  <2>5. FinishSucceeded(r, t) => x = r
    BY DEF FinishSucceeded
  <2> QED BY <1>1, <1>4, <2>1, <2>2, <2>3, <2>4, <2>5
          DEF RuntimeRequest, AppendEvent, SaveSnapshot, ToolStart, ToolFinish, ApprovalPoll
<1>5. ~Reap
  <2>1. Requeued(runs[x]).status = "queued"
    BY RequeuedRow
  <2>2. EndedAs(runs[x], "failed").status # "succeeded"
    BY EndedAsRow DEF Ended
  <2> QED BY <1>1, <2>1, <2>2 DEF Reap, ReapRequeue, ReapFail, ReapGates
<1>6. \A r \in Run : \A t \in 1..runs[r].claims : t \in Nat
  BY DEF Row
<1> QED BY <1>1, <1>2, <1>3, <1>4, <1>5, <1>6 DEF Next, vars

LEMMA Appended ==
    ASSUME NEW s \in Seq(Message), NEW m \in Message
    PROVE  /\ Append(s, m) \in Seq(Message)
           /\ Len(s) \in Nat
           /\ Len(Append(s, m)) = Len(s) + 1
           /\ Append(s, m)[Len(s) + 1] = m
           /\ \A i \in 1..Len(s) : Append(s, m)[i] = s[i] /\ s[i] \in Message
OBVIOUS

\* What TurnInv says of the messages, and of the runs in progress.
MessagesBelong ==
    \A c \in Conversation : \A i \in 1..Len(messages[c]) : runs[messages[c][i].run].conversation = c
QuestionsAreLast ==
    \A c \in Conversation, r \in Run :
        Active(r) /\ runs[r].conversation = c /\ runs[r].origin \in Request =>
            /\ messages[c] # <<>>
            /\ messages[c][Len(messages[c])] = [role |-> "user", run |-> r]

\* The run of a message keeps its turn.
LEMMA MessageRuns ==
    ASSUME TypeOK, Rows, MessagesBelong, [Next]_vars, NEW c \in Conversation, NEW i \in 1..Len(messages[c])
    PROVE  /\ messages[c][i] \in Message /\ messages[c][i].run \in Run
           /\ runs[messages[c][i].run].status # "absent"
           /\ SameTurn(runs[messages[c][i].run], runs'[messages[c][i].run])
<1>1. messages[c][i] \in Message /\ messages[c][i].run \in Run
  <2>1. messages[c] \in Seq(Message)
    BY DEF TypeOK
  <2>2. messages[c][i] \in Message
    BY <2>1
  <2> QED BY <2>2 DEF Message
<1>2. PICK r \in Run : r = messages[c][i].run
  BY <1>1
<1>3. runs[r].conversation = c
  BY <1>2 DEF MessagesBelong
<1>4. runs[r] \in Row /\ RowInv(runs[r]) /\ RowStep(runs[r], runs'[r], TakenBack(r))
  BY NextIsRowStep DEF TypeOK, Rows
<1>5. runs[r].status # "absent"
  BY <1>3, <1>4, ConstantsAssumption DEF RowInv
<1>6. SameTurn(runs[r], runs'[r])
  BY <1>4, <1>5, RowStepFacts
<1> QED BY <1>1, <1>2, <1>5, <1>6

\* What is written: a user's question, or the reply of a run in progress.
Questioned(c, r) ==
    /\ runs[r].status = "absent" /\ ~Busy(c)
    /\ runs'[r].conversation = c /\ runs'[r].status = "queued" /\ runs'[r].origin \in Request
    /\ \A x \in Run \ {r} : runs'[x] = runs[x]
    /\ messages' = [messages EXCEPT ![c] = Append(@, [role |-> "user", run |-> r])]
    /\ through' = through
Replied(c, r) ==
    /\ runs[r].status = "running" /\ Active(r) /\ runs[r].conversation = c
    /\ SameTurn(runs[r], runs'[r]) /\ runs'[r].status = "succeeded"
    /\ \A x \in Run \ {r} : runs'[x] = runs[x]
    /\ messages' = [messages EXCEPT ![c] = Append(@, [role |-> "assistant", run |-> r])]
    /\ through' = [through EXCEPT ![c] = Boundary(c, r)]

LEMMA SuccessReplies ==
    ASSUME TypeOK, Rows, NEW r \in Run, NEW t \in Nat, FinishSucceeded(r, t)
    PROVE  \E c \in Conversation : Replied(c, r)
<1>1. runs[r] \in Row /\ RowInv(runs[r]) /\ runs[r].status = "running" /\ ~runs[r].cancelRequested
  BY DEF FinishSucceeded, Holds, TypeOK, Rows
<1>2. PICK c \in Conversation : runs[r].conversation = c
  BY <1>1 DEF RowInv
<1>3. runs'[r] = EndedAs(runs[r], "succeeded") /\ \A x \in Run \ {r} : runs'[x] = runs[x]
  BY DEF FinishSucceeded, TypeOK
<1>4. SameTurn(runs[r], runs'[r]) /\ runs'[r].status = "succeeded"
  BY <1>1, <1>3, EndedAsRow DEF Ended
<1>5. /\ messages' = [messages EXCEPT ![c] = Append(@, [role |-> "assistant", run |-> r])]
      /\ through' = [through EXCEPT ![c] = Boundary(c, r)]
  BY <1>2 DEF FinishSucceeded
<1> QED BY <1>1, <1>2, <1>3, <1>4, <1>5 DEF Active, Replied

LEMMA WritesOnce ==
    ASSUME TypeOK, Rows, [Next]_vars
    PROVE  \/ UNCHANGED <<messages, through>>
           \/ \E c \in Conversation, r \in Run : Questioned(c, r) \/ Replied(c, r)
<1>1. ASSUME NEW c \in Conversation, NEW q \in Request, NEW r \in Run, NEW compact \in BOOLEAN,
             Enqueue(c, q, r, compact)
      PROVE  Questioned(c, r)
  <2>1. runs'[r] = Queued(c, q, compact, Budget) /\ \A x \in Run \ {r} : runs'[x] = runs[x]
    BY <1>1 DEF Enqueue, TypeOK
  <2>2. runs'[r].status = "queued" /\ runs'[r].conversation = c /\ runs'[r].origin = q
    BY <2>1, QueuedRowTurn
  <2> QED BY <1>1, <2>1, <2>2 DEF Enqueue, Questioned
<1> QED BY <1>1, MessageStep, SuccessReplies

\* After a write the conversation has its n messages and one more, the others have theirs.
Longer(c, r, n) ==
    /\ Len(messages[c]) = n /\ Len(messages'[c]) = n + 1
    /\ messages'[c][n + 1].run = r
    /\ \A i \in 1..n : messages'[c][i] = messages[c][i]
    /\ \A d \in Conversation \ {c} : messages'[d] = messages[d]
    /\ Questioned(c, r) => messages'[c][n + 1] = [role |-> "user", run |-> r]
    /\ Replied(c, r) => messages'[c][n + 1] = [role |-> "assistant", run |-> r]

LEMMA Written ==
    ASSUME TypeOK, NEW c \in Conversation, NEW r \in Run, Questioned(c, r) \/ Replied(c, r)
    PROVE  \E n \in Nat : Longer(c, r, n)
<1>1. PICK m \in {[role |-> role, run |-> r] : role \in {"user", "assistant"}} :
           /\ messages' = [messages EXCEPT ![c] = Append(@, m)]
           /\ Questioned(c, r) => m = [role |-> "user", run |-> r]
           /\ Replied(c, r) => m = [role |-> "assistant", run |-> r]
  <2>1. CASE Questioned(c, r)
    <3>1. ~Replied(c, r)
      BY <2>1 DEF Questioned, Replied, Active
    <3> QED BY <2>1, <3>1 DEF Questioned
  <2>2. CASE Replied(c, r)
    <3>1. ~Questioned(c, r)
      BY <2>2 DEF Questioned, Replied, Active
    <3> QED BY <2>2, <3>1 DEF Replied
  <2> QED BY <2>1, <2>2
<1>2. m \in Message /\ m.run = r
  BY DEF Message
<1>3. messages[c] \in Seq(Message)
  BY DEF TypeOK
<1>4. messages'[c] = Append(messages[c], m) /\ \A d \in Conversation \ {c} : messages'[d] = messages[d]
  BY <1>1 DEF TypeOK
<1> HIDE DEF Message
<1>5. PICK n \in Nat : n = Len(messages[c])
  BY <1>3
<1>6. /\ Len(messages'[c]) = n + 1 /\ messages'[c][n + 1] = m
      /\ \A i \in 1..n : messages'[c][i] = messages[c][i]
  BY <1>2, <1>3, <1>4, <1>5, Appended
<1> QED BY <1>1, <1>2, <1>4, <1>5, <1>6 DEF Longer

LEMMA KeepsBelonging ==
    ASSUME TypeOK, Rows, MessagesBelong, [Next]_vars
    PROVE  MessagesBelong'
<1> SUFFICES ASSUME NEW d \in Conversation, NEW i \in 1..Len(messages'[d])
             PROVE  runs'[messages'[d][i].run].conversation = d
  BY DEF MessagesBelong
<1>1. ASSUME i \in 1..Len(messages[d]), messages'[d][i] = messages[d][i]
      PROVE  runs'[messages'[d][i].run].conversation = d
  BY <1>1, MessageRuns DEF SameTurn, MessagesBelong
<1>2. CASE UNCHANGED <<messages, through>>
  BY <1>1, <1>2
<1>3. ASSUME NEW c \in Conversation, NEW r \in Run, Questioned(c, r) \/ Replied(c, r)
      PROVE  runs'[messages'[d][i].run].conversation = d
  <2>1. runs'[r].conversation = c
    BY <1>3 DEF Questioned, Replied, SameTurn
  <2>2. PICK n \in Nat : Longer(c, r, n)
    BY <1>3, Written
  <2>3. CASE d = c /\ i = n + 1
    BY <2>1, <2>2, <2>3 DEF Longer
  <2>4. CASE d = c /\ i # n + 1
    <3>1. i \in 1..n
      BY <2>2, <2>4 DEF Longer
    <3> QED BY <1>1, <2>2, <2>4, <3>1 DEF Longer
  <2>5. CASE d # c
    BY <1>1, <2>2, <2>5 DEF Longer
  <2> QED BY <2>3, <2>4, <2>5
<1> QED BY <1>2, <1>3, WritesOnce

LEMMA KeepsQuestions ==
    ASSUME TypeOK, Rows, OneActiveRun, QuestionsAreLast, [Next]_vars
    PROVE  QuestionsAreLast'
<1> SUFFICES ASSUME NEW d \in Conversation, NEW x \in Run, Active(x)', runs'[x].conversation = d,
                    runs'[x].origin \in Request
             PROVE  messages'[d] # <<>> /\ messages'[d][Len(messages'[d])] = [role |-> "user", run |-> x]
  BY DEF QuestionsAreLast
<1>1. ASSUME messages'[d] = messages[d], Active(x), SameTurn(runs[x], runs'[x])
      PROVE  messages'[d] # <<>> /\ messages'[d][Len(messages'[d])] = [role |-> "user", run |-> x]
  BY <1>1 DEF QuestionsAreLast, SameTurn
<1>2. CASE Active(x) /\ SameTurn(runs[x], runs'[x])
  <2>1. ASSUME NEW c \in Conversation, NEW r \in Run, Questioned(c, r) \/ Replied(c, r)
        PROVE  c # d
    <3>1. ~Questioned(d, r)
      BY <1>2 DEF Questioned, Busy, SameTurn
    <3>2. ~Replied(d, r)
      <4> SUFFICES ASSUME Replied(d, r) PROVE FALSE
        OBVIOUS
      <4>1. r = x
        BY <1>2 DEF Replied, OneActiveRun, SameTurn
      <4> QED BY <4>1 DEF Replied, Active
    <3> QED BY <2>1, <3>1, <3>2
  <2>2. messages'[d] = messages[d]
    <3>1. ASSUME NEW c \in Conversation, NEW r \in Run, Questioned(c, r) \/ Replied(c, r)
          PROVE  messages'[d] = messages[d]
      <4>1. PICK n \in Nat : Longer(c, r, n)
        BY <3>1, Written
      <4> QED BY <2>1, <3>1, <4>1 DEF Longer
    <3> QED BY <3>1, WritesOnce
  <2> QED BY <1>1, <1>2, <2>2
<1>3. CASE runs[x].status = "absent"
  <2>1. runs'[x].status # "absent"
    BY DEF Active
  <2>2. ASSUME NEW c \in Conversation, NEW q \in Request, NEW compact \in BOOLEAN, Enqueue(c, q, x, compact)
        PROVE  messages'[d] # <<>> /\ messages'[d][Len(messages'[d])] = [role |-> "user", run |-> x]
    <3>1. runs'[x].conversation = c
      BY <2>2, QueuedRowTurn DEF Enqueue, TypeOK
    <3>2. messages'[c] = Append(messages[c], [role |-> "user", run |-> x]) /\ messages[c] \in Seq(Message)
      BY <2>2 DEF Enqueue, TypeOK
    <3>3. [role |-> "user", run |-> x] \in Message
      BY DEF Message
    <3> QED BY <3>1, <3>2, <3>3, Appended
  <2>3. ASSUME NEW r \in Run, NEW t \in Nat, NEW ticks \in Nat, FinishOverflow(r, t, x, ticks)
        PROVE  FALSE
    <3>1. runs'[x] = Queued(runs[r].conversation, r, TRUE, ticks)
      BY <2>3 DEF FinishOverflow, TypeOK
    <3>2. runs'[x].origin = r
      BY <3>1 DEF Queued, NoRow
    <3> QED BY <3>2, ConstantsAssumption
  <2> QED BY <1>3, <2>1, <2>2, <2>3, RunAppears
<1> QED BY <1>2, <1>3, ActiveStep

LEMMA KeepsReplies ==
    ASSUME TypeOK, Rows, MessagesBelong, QuestionsAreLast, RepliesFollowQuestions, [Next]_vars
    PROVE  RepliesFollowQuestions'
<1> SUFFICES ASSUME NEW d \in Conversation, NEW i \in 1..Len(messages'[d]),
                    messages'[d][i].role = "assistant", runs'[messages'[d][i].run].origin \in Request
             PROVE  i > 1 /\ messages'[d][i - 1] = [role |-> "user", run |-> messages'[d][i].run]
  BY DEF RepliesFollowQuestions
<1>1. ASSUME i \in 1..Len(messages[d]), messages'[d][i] = messages[d][i],
             i > 1 => messages'[d][i - 1] = messages[d][i - 1]
      PROVE  i > 1 /\ messages'[d][i - 1] = [role |-> "user", run |-> messages'[d][i].run]
  <2>1. runs[messages[d][i].run].origin \in Request
    BY <1>1, MessageRuns DEF SameTurn
  <2> QED BY <1>1, <2>1 DEF RepliesFollowQuestions
<1>2. CASE UNCHANGED <<messages, through>>
  BY <1>1, <1>2
<1>3. ASSUME NEW c \in Conversation, NEW r \in Run, Questioned(c, r) \/ Replied(c, r)
      PROVE  i > 1 /\ messages'[d][i - 1] = [role |-> "user", run |-> messages'[d][i].run]
  <2>0. PICK n \in Nat : Longer(c, r, n)
    BY <1>3, Written
  <2>1. CASE d # c
    BY <1>1, <2>0, <2>1 DEF Longer
  <2>2. CASE d = c /\ i # n + 1
    <3>1. i \in 1..n /\ (i > 1 => i - 1 \in 1..n)
      BY <2>0, <2>2 DEF Longer
    <3> QED BY <1>1, <2>0, <2>2, <3>1 DEF Longer
  <2>3. CASE d = c /\ i = n + 1
    <3>1. ~Questioned(c, r)
      BY <2>0, <2>3 DEF Longer
    <3>2. Replied(c, r) /\ messages'[d][i].run = r
      BY <1>3, <2>0, <2>3, <3>1 DEF Longer
    <3>3. Active(r) /\ runs[r].conversation = c /\ runs[r].origin \in Request
      BY <3>2 DEF Replied, SameTurn
    <3>4. messages[c] # <<>> /\ messages[c][Len(messages[c])] = [role |-> "user", run |-> r]
      BY <3>3 DEF QuestionsAreLast
    <3>5. messages[c] \in Seq(Message) /\ n = Len(messages[c])
      BY <2>0 DEF Longer, TypeOK
    <3>6. n \in 1..n
      BY <3>4, <3>5
    <3>7. messages'[c][n] = [role |-> "user", run |-> r]
      BY <2>0, <3>4, <3>5, <3>6 DEF Longer
    <3> QED BY <2>3, <3>2, <3>6, <3>7
  <2> QED BY <2>1, <2>2, <2>3
<1> QED BY <1>2, <1>3, WritesOnce

LEMMA KeepsBoundary ==
    ASSUME TypeOK, Rows, MessagesBelong, BoundaryIsLatestSummary, [Next]_vars
    PROVE  BoundaryIsLatestSummary'
<1> DEFINE Summary(d, i) == messages[d][i].role = "assistant" /\ runs[messages[d][i].run].compact
           NewSummary(d, i) == messages'[d][i].role = "assistant" /\ runs'[messages'[d][i].run].compact
<1>1. \A d \in Conversation : through[d] \in Nat /\ Len(messages[d]) \in Nat
  BY DEF TypeOK
<1>2. \A d \in Conversation : \A i \in 1..Len(messages[d]) : Summary(d, i) => i <= through[d]
  BY DEF BoundaryIsLatestSummary
<1>3. \A d \in Conversation : through[d] > 0 => through[d] \in 1..Len(messages[d]) /\ Summary(d, through[d])
  BY DEF BoundaryIsLatestSummary
<1>4. ASSUME NEW d \in Conversation, NEW i \in 1..Len(messages[d]), messages'[d][i] = messages[d][i]
      PROVE  NewSummary(d, i) <=> Summary(d, i)
  BY <1>4, MessageRuns DEF SameTurn
<1> SUFFICES ASSUME NEW d \in Conversation
             PROVE  /\ \A i \in 1..Len(messages'[d]) : NewSummary(d, i) => i <= through'[d]
                    /\ through'[d] > 0 => through'[d] \in 1..Len(messages'[d]) /\ NewSummary(d, through'[d])
  BY DEF BoundaryIsLatestSummary
<1>5. ASSUME messages'[d] = messages[d], through'[d] = through[d]
      PROVE  /\ \A i \in 1..Len(messages'[d]) : NewSummary(d, i) => i <= through'[d]
             /\ through'[d] > 0 => through'[d] \in 1..Len(messages'[d]) /\ NewSummary(d, through'[d])
  BY <1>2, <1>3, <1>4, <1>5
<1>6. CASE UNCHANGED <<messages, through>>
  BY <1>5, <1>6
<1>7. ASSUME NEW c \in Conversation, NEW r \in Run, Questioned(c, r) \/ Replied(c, r)
      PROVE  /\ \A i \in 1..Len(messages'[d]) : NewSummary(d, i) => i <= through'[d]
             /\ through'[d] > 0 => through'[d] \in 1..Len(messages'[d]) /\ NewSummary(d, through'[d])
  <2>1. CASE d # c
    <3>1. through'[d] = through[d]
      BY <1>7, <2>1 DEF Questioned, Replied, TypeOK
    <3>2. PICK n \in Nat : Longer(c, r, n)
      BY <1>7, Written
    <3>3. messages'[d] = messages[d]
      BY <2>1, <3>2 DEF Longer
    <3> QED BY <1>5, <3>1, <3>3
  <2>2. CASE d = c
    <3>0. PICK n \in Nat : Longer(c, r, n)
      BY <1>7, Written
    <3>1. n = Len(messages[c]) /\ Len(messages'[c]) = n + 1 /\ \A i \in 1..n : messages'[c][i] = messages[c][i]
      BY <3>0 DEF Longer
    <3>2. \A i \in 1..n : NewSummary(c, i) <=> Summary(c, i)
      BY <1>4, <3>1
    <3>3. NewSummary(c, n + 1) <=> Replied(c, r) /\ runs[r].compact
      <4>1. CASE Questioned(c, r)
        <5>1. messages'[c][n + 1] = [role |-> "user", run |-> r] /\ ~Replied(c, r)
          BY <3>0, <4>1 DEF Longer, Questioned, Replied, Active
        <5> QED BY <5>1
      <4>2. CASE Replied(c, r)
        <5>1. messages'[c][n + 1] = [role |-> "assistant", run |-> r] /\ runs'[r].compact = runs[r].compact
          BY <3>0, <4>2 DEF Longer, Replied, SameTurn
        <5> QED BY <4>2, <5>1
      <4> QED BY <1>7, <4>1, <4>2
    <3>4. through'[c] = IF Replied(c, r) /\ runs[r].compact THEN n + 1 ELSE through[c]
      BY <1>7, <3>1 DEF Questioned, Replied, Boundary, Active, TypeOK
    <3>5. through[c] \in Nat /\ through[c] <= n
      BY <1>1, <1>3, <3>1
    <3>6. /\ \A i \in 1..n : Summary(c, i) => i <= through[c]
          /\ through[c] > 0 => through[c] \in 1..n /\ Summary(c, through[c])
      BY <1>2, <1>3, <3>1
    <3>7. ASSUME NEW i \in 1..(n + 1), NewSummary(c, i) PROVE i <= through'[c]
      BY <3>1, <3>2, <3>3, <3>4, <3>5, <3>6, <3>7
    <3>8. ASSUME through'[c] > 0 PROVE through'[c] \in 1..(n + 1) /\ NewSummary(c, through'[c])
      <4>1. CASE Replied(c, r) /\ runs[r].compact
        BY <3>1, <3>3, <3>4, <4>1
      <4>2. CASE ~(Replied(c, r) /\ runs[r].compact)
        <5>1. through'[c] = through[c] /\ through[c] \in 1..n /\ Summary(c, through[c])
          BY <3>4, <3>6, <3>8, <4>2
        <5> QED BY <3>1, <3>2, <5>1
      <4> QED BY <4>1, <4>2
    <3> QED BY <2>2, <3>1, <3>7, <3>8
  <2> QED BY <2>1, <2>2
<1> QED BY <1>6, <1>7, WritesOnce

LEMMA KeepsAnswers ==
    ASSUME TypeOK, Rows, RepliedIffSucceeded, [Next]_vars
    PROVE  RepliedIffSucceeded'
<1> DEFINE Finale(r) == [role |-> "assistant", run |-> r]
           Answers(d, r) == {i \in 1..Len(messages[d]) : messages[d][i] = Finale(r)}
           NewAnswers(d, r) == {i \in 1..Len(messages'[d]) : messages'[d][i] = Finale(r)}
<1> SUFFICES ASSUME NEW d \in Conversation, NEW x \in Run
             PROVE  IF runs'[x].conversation = d /\ runs'[x].status = "succeeded"
                    THEN \E i \in NewAnswers(d, x) : NewAnswers(d, x) = {i}
                    ELSE NewAnswers(d, x) = {}
  BY DEF RepliedIffSucceeded
<1>1. IF runs[x].conversation = d /\ runs[x].status = "succeeded"
      THEN \E i \in Answers(d, x) : Answers(d, x) = {i}
      ELSE Answers(d, x) = {}
  BY DEF RepliedIffSucceeded
<1>2. runs[x] \in Row /\ RowInv(runs[x]) /\ RowStep(runs[x], runs'[x], TakenBack(x))
  BY NextIsRowStep DEF TypeOK, Rows
<1>3. CASE \E t \in Nat : FinishSucceeded(x, t)
  <2>1. PICK c \in Conversation : Replied(c, x)
    BY <1>3, SuccessReplies
  <2>2. PICK n \in Nat : Longer(c, x, n)
    BY <2>1, Written
  <2>3. runs'[x].conversation = c /\ runs'[x].status = "succeeded" /\ runs[x].status # "succeeded"
    BY <2>1 DEF Replied, SameTurn, Active
  <2>4. Answers(d, x) = {}
    BY <1>1, <2>3
  <2>5. CASE d # c
    <3>1. messages'[d] = messages[d]
      BY <2>2, <2>5 DEF Longer
    <3> QED BY <2>3, <2>4, <2>5, <3>1
  <2>6. CASE d = c
    <3>1. /\ Len(messages[d]) = n /\ Len(messages'[d]) = n + 1 /\ messages'[d][n + 1] = Finale(x)
          /\ \A i \in 1..n : messages'[d][i] = messages[d][i]
      BY <2>1, <2>2, <2>6 DEF Longer
    <3>2. \A i \in 1..n : messages'[d][i] # Finale(x)
      BY <2>4, <3>1
    <3> HIDE DEF Finale
    <3>3. NewAnswers(d, x) = {n + 1}
      BY <3>1, <3>2
    <3> QED BY <2>3, <2>6, <3>3
  <2> QED BY <2>5, <2>6
<1>4. CASE ~\E t \in Nat : FinishSucceeded(x, t)
  <2>1. runs'[x].status = "succeeded" <=> runs[x].status = "succeeded"
    <3>1. runs'[x].status = "succeeded" => runs[x].status = "succeeded"
      BY <1>4, RunSucceeds
    <3>2. runs[x].status = "succeeded" => runs'[x] = runs[x]
      BY <1>2, RowStepFacts DEF Ended
    <3> QED BY <3>1, <3>2
  <2>2. runs[x].status = "succeeded" => runs'[x].conversation = runs[x].conversation
    BY <1>2, RowStepFacts DEF Ended
  <2>3. NewAnswers(d, x) = Answers(d, x)
    <3>1. CASE UNCHANGED <<messages, through>>
      BY <3>1
    <3>2. ASSUME NEW c \in Conversation, NEW r \in Run, Questioned(c, r) \/ Replied(c, r)
          PROVE  NewAnswers(d, x) = Answers(d, x)
      <4>1. PICK n \in Nat : Longer(c, r, n)
        BY <3>2, Written
      <4>2. CASE d # c
        BY <4>1, <4>2 DEF Longer
      <4>3. CASE d = c
        <5>1. /\ Len(messages[d]) = n /\ Len(messages'[d]) = n + 1
              /\ \A i \in 1..n : messages'[d][i] = messages[d][i]
          BY <4>1, <4>3 DEF Longer
        <5>2. messages'[d][n + 1] # Finale(x)
          <6>1. CASE Questioned(c, r)
            BY <4>1, <4>3, <6>1 DEF Longer
          <6>2. CASE Replied(c, r)
            <7>1. r # x
              BY <2>1, <6>2 DEF Replied, Active
            <7>2. messages'[d][n + 1].run = r
              BY <4>1, <4>3 DEF Longer
            <7> QED BY <7>1, <7>2
          <6> QED BY <3>2, <6>1, <6>2
        <5> HIDE DEF Answer
        <5> QED BY <5>1, <5>2
      <4> QED BY <4>2, <4>3
    <3> QED BY <3>1, <3>2, WritesOnce
  <2> QED BY <1>1, <2>1, <2>2, <2>3
<1> QED BY <1>3, <1>4

\* What is told of the runs, and all of it together with what the queue's other theorems rest on.
Transcribed ==
    /\ MessagesBelong /\ QuestionsAreLast /\ RepliesFollowQuestions
    /\ BoundaryIsLatestSummary /\ RepliedIffSucceeded

LEMMA QueueTells == Spec => [](TypeOK /\ Rows /\ OneActiveRun /\ Transcribed)
<1>1. Init => OneActiveRun /\ Transcribed
  <2> SUFFICES ASSUME Init PROVE OneActiveRun /\ Transcribed
    OBVIOUS
  <2>1. /\ \A r \in Run : runs[r].status = "absent"
        /\ \A c \in Conversation : messages[c] = <<>> /\ through[c] = 0
    BY DEF Init, NoRow
  <2>2. \A c \in Conversation : Len(messages[c]) = 0
    BY <2>1
  <2>3. OneActiveRun /\ QuestionsAreLast
    BY <2>1 DEF OneActiveRun, QuestionsAreLast, Active
  <2>4. MessagesBelong /\ RepliesFollowQuestions
    BY <2>2 DEF MessagesBelong, RepliesFollowQuestions
  <2>5. BoundaryIsLatestSummary /\ RepliedIffSucceeded
    BY <2>1, <2>2 DEF BoundaryIsLatestSummary, RepliedIffSucceeded
  <2> QED BY <2>3, <2>4, <2>5 DEF Transcribed
<1>2. TypeOK /\ Rows /\ OneActiveRun /\ [Next]_vars => (TypeOK /\ Rows /\ OneActiveRun)'
  BY NextKeepsTypes, NextKeepsRows, NextKeepsOneActiveRun
<1>3. TypeOK /\ Rows /\ OneActiveRun /\ Transcribed /\ [Next]_vars => Transcribed'
  BY KeepsBelonging, KeepsQuestions, KeepsReplies, KeepsBoundary, KeepsAnswers DEF Transcribed
<1> QED BY InitTypes, <1>1, <1>2, <1>3, PTL DEF Spec

\* Every answer stands under its question, a run that succeeded has one and no other
\* has any, and the summary's boundary is at the last summary: for any number of turns,
\* recoveries and late or repeated finishes.
THEOREM TranscriptsAreTrue == Spec => []Transcript
<1>1. Transcribed => Transcript
  BY DEF Transcribed, Transcript
<1> QED BY QueueTells, <1>1, PTL

----------------------------------------------------------------------------
(* Conversations: they do nothing to the rows that the queue does not allow. *)

LEMMA ThreadStepIsQueues == ConversationsNext => [Next]_vars
<1> SUFFICES ASSUME ConversationsNext PROVE [Next]_vars
  OBVIOUS
<1>1. ASSUME NEW c \in Conversation, NEW q \in Request, NEW r \in Run, NEW compact \in BOOLEAN,
             Enqueue(c, q, r, compact)
      PROVE  Next
  BY <1>1 DEF Next, UserRequest
<1>2. ASSUME NEW d \in Conversation, Create(d) \/ Delete(d)
      PROVE  UNCHANGED vars
  BY <1>2 DEF Create, Delete
<1>3. ASSUME NEW d \in Conversation, NEW c \in Conversation, NEW q \in Request,
             \/ Reset(c, q, d)
             \/ \E i \in 1..Len(History(c)) : Derive(c, i, q, d)
      PROVE  UNCHANGED vars
  BY <1>3 DEF Reset, Derive
<1>4. ASSUME NEW d \in Conversation, NEW c \in Conversation, NEW q \in Request, NEW r \in Run,
             NEW command \in BOOLEAN, NEW i \in 1..Len(History(c)), Edit(c, i, q, d, r, command)
      PROVE  Next
  <2>1. Enqueue(d, q, r, command)
    BY <1>4 DEF Edit, Turn
  <2> QED BY <1>1, <2>1
<1>5. ASSUME NEW c \in Conversation, NEW q \in Request, NEW r \in Run, NEW command \in BOOLEAN,
             Talk(c, q, r, command)
      PROVE  Next
  <2>1. PICK compact \in BOOLEAN : Enqueue(c, q, r, compact)
    BY <1>5 DEF Talk, Turn
  <2> QED BY <1>1, <2>1
<1>6. ASSUME NEW r \in Run, ClaimJob(r)
      PROVE  Next
  BY <1>6 DEF ClaimJob, Next
<1>7. ASSUME NEW r \in Run, NEW t \in 1..runs[r].claims, Work(r, t)
      PROVE  Next
  BY <1>7 DEF Work, Next
<1>8. CASE RestOfQueue
  BY <1>8 DEF RestOfQueue, Next, UserRequest
<1> QED BY <1>2, <1>3, <1>4, <1>5, <1>6, <1>7, <1>8 DEF ConversationsNext

\* Branching, resetting, deleting and compacting implement the queue's specification.
THEOREM ConversationsAreAQueue == ConversationsSpec => Spec
<1>1. ConversationsInit => Init
  BY DEF ConversationsInit
<1>2. [ConversationsNext]_conversationVars => [Next]_vars
  BY ThreadStepIsQueues DEF conversationVars
<1> QED BY <1>1, <1>2, PTL DEF ConversationsSpec, Spec

\* Runs take turns in every conversation, branches included, ...
THEOREM BranchesTakeTurns == ConversationsSpec => []RunsTakeTurns
BY ConversationsAreAQueue, ConversationsTakeTurns, PTL

\* ... their transcripts are true, ...
THEOREM BranchesAreTrue == ConversationsSpec => []Transcript
BY ConversationsAreAQueue, TranscriptsAreTrue, PTL

\* ... and every behaviour is one of the life cycle's.
THEOREM ConversationsImplementLifecycle == ConversationsSpec => ImplementsLifecycle
BY ConversationsAreAQueue, QueueImplementsLifecycle, PTL

----------------------------------------------------------------------------
(* Messages put in their places: a sequence of parts, joined. *)

\* The first k of n parts, joined one after another.
Joins(f, parts, k) ==
    f = [i \in 1..k |-> IF i = 1 THEN parts[i] ELSE f[i - 1] \o parts[i]]

LEMMA Joinable ==
    ASSUME NEW n \in Nat, NEW parts \in [1..n -> Seq(Entry)]
    PROVE  \E f \in [1..n -> Seq(Entry)] : Joins(f, parts, n)
<1> DEFINE S == {k \in Nat : k <= n => \E f \in [1..k -> Seq(Entry)] : Joins(f, parts, k)}
<1>1. 0 \in S
  <2>1. [i \in 1..0 |-> <<>>] \in [1..0 -> Seq(Entry)] /\ Joins([i \in 1..0 |-> <<>>], parts, 0)
    BY DEF Joins
  <2> QED BY <2>1
<1>2. ASSUME NEW k \in Nat, k \in S
      PROVE  k + 1 \in S
  <2> SUFFICES ASSUME k + 1 <= n
               PROVE  \E f \in [1..k + 1 -> Seq(Entry)] : Joins(f, parts, k + 1)
    OBVIOUS
  <2>1. PICK f \in [1..k -> Seq(Entry)] : Joins(f, parts, k)
    BY <1>2
  <2> DEFINE next == IF k = 0 THEN parts[1] ELSE f[k] \o parts[k + 1]
             g == [i \in 1..k + 1 |-> IF i = k + 1 THEN next ELSE f[i]]
  <2>2. next \in Seq(Entry)
    <3>1. parts[k + 1] \in Seq(Entry)
      OBVIOUS
    <3>2. CASE k = 0
      BY <3>1, <3>2
    <3>3. CASE k # 0
      BY <3>1, <3>3
    <3> QED BY <3>2, <3>3
  <2>3. g \in [1..k + 1 -> Seq(Entry)]
    BY <2>2
  <2>4. \A i \in 1..k : f[i] = IF i = 1 THEN parts[i] ELSE f[i - 1] \o parts[i]
    BY <2>1 DEF Joins
  <2>5. ASSUME NEW i \in 1..k + 1
        PROVE  g[i] = IF i = 1 THEN parts[i] ELSE g[i - 1] \o parts[i]
    <3>1. CASE i = k + 1
      <4>1. k # 0 => k \in 1..k + 1 /\ k # k + 1 /\ i - 1 = k /\ i # 1
        BY <3>1
      <4>2. k = 0 => i = 1
        BY <3>1
      <4> QED BY <3>1, <4>1, <4>2
    <3>2. CASE i # k + 1
      <4>1. i \in 1..k /\ (i # 1 => i - 1 \in 1..k)
        BY <3>2
      <4>2. g[i] = f[i]
        BY <3>2
      <4>3. i # 1 => g[i - 1] = f[i - 1]
        BY <4>1
      <4>4. f[i] = IF i = 1 THEN parts[i] ELSE f[i - 1] \o parts[i]
        BY <4>1, <2>4
      <4> HIDE DEF g
      <4> QED BY <4>2, <4>3, <4>4
    <3> QED BY <3>1, <3>2
  <2>6. Joins(g, parts, k + 1)
    <3> HIDE DEF next
    <3> QED BY <2>5 DEF Joins
  <2> QED BY <2>3, <2>6
<1> HIDE DEF S
<1>3. n \in S
  BY <1>1, <1>2, SetInduction
<1> QED BY <1>3 DEF S

\* What FlattenSeq makes of a sequence of sequences: the last of a chain of joins.
LEMMA Flattened ==
    ASSUME NEW n \in Nat \ {0}, NEW parts \in [1..n -> Seq(Entry)]
    PROVE  \E f : /\ f[1] = parts[1]
                  /\ \A i \in 1..n : f[i] \in Seq(Entry)
                  /\ \A i \in 2..n : f[i] = f[i - 1] \o parts[i]
                  /\ FlattenSeq(parts) = f[n]
<1> DEFINE f == CHOOSE g : Joins(g, parts, n)
<1>1. Joins(f, parts, n)
  BY Joinable
<1>2. FlattenSeq(parts) = f[n]
  <2>1. Len(parts) = n
    OBVIOUS
  <2> QED BY <2>1 DEF FlattenSeq, Joins
<1> HIDE DEF f
<1>3. f[1] = parts[1] /\ \A i \in 2..n : f[i] = f[i - 1] \o parts[i]
  <2>1. \A i \in 1..n : f[i] = IF i = 1 THEN parts[i] ELSE f[i - 1] \o parts[i]
    BY <1>1 DEF Joins
  <2>2. 1 \in 1..n /\ \A i \in 2..n : i \in 1..n /\ i # 1
    OBVIOUS
  <2>3. f[1] = parts[1]
    BY <2>1, <2>2
  <2>4. \A i \in 2..n : f[i] = f[i - 1] \o parts[i]
    BY <2>1, <2>2
  <2> QED BY <2>3, <2>4
<1> DEFINE S == {i \in Nat : i + 1 \in 1..n => f[i + 1] \in Seq(Entry)}
<1>4. 0 \in S
  BY <1>3
<1>5. ASSUME NEW i \in Nat, i \in S
      PROVE  i + 1 \in S
  <2> SUFFICES ASSUME i + 2 \in 1..n
               PROVE  f[i + 2] \in Seq(Entry)
    BY (i + 1) + 1 = i + 2
  <2>1. i + 1 \in 1..n /\ i + 2 \in 2..n /\ (i + 2) - 1 = i + 1
    OBVIOUS
  <2>2. f[i + 1] \in Seq(Entry) /\ parts[i + 2] \in Seq(Entry) /\ f[i + 2] = f[i + 1] \o parts[i + 2]
    BY <1>5, <1>3, <2>1 DEF S
  <2> QED BY <2>2
<1> HIDE DEF S
<1>6. \A i \in Nat : i \in S
  BY <1>4, <1>5, SetInduction
<1>7. ASSUME NEW i \in 1..n
      PROVE  f[i] \in Seq(Entry)
  <2>1. i - 1 \in Nat /\ (i - 1) + 1 = i
    OBVIOUS
  <2> QED BY <1>6, <2>1 DEF S
<1> QED BY <1>2, <1>3, <1>7

LEMMA Joined ==
    ASSUME NEW s \in Seq(Entry), NEW t \in Seq(Entry)
    PROVE  /\ s \o t \in Seq(Entry) /\ Len(s \o t) = Len(s) + Len(t)
           /\ Len(s) \in Nat /\ Len(t) \in Nat
           /\ \A i \in 1..Len(s) : (s \o t)[i] = s[i]
           /\ \A j \in 1..Len(t) : (s \o t)[Len(s) + j] = t[j]
           /\ \A p \in 1..Len(s \o t) :
                p \in 1..Len(s) \/ \E j \in 1..Len(t) : p = Len(s) + j
<1>1. ASSUME NEW p \in 1..Len(s \o t), p \notin 1..Len(s)
      PROVE  \E j \in 1..Len(t) : p = Len(s) + j
  <2>1. p - Len(s) \in 1..Len(t) /\ p = Len(s) + (p - Len(s))
    BY <1>1
  <2> QED BY <2>1
<1> QED BY <1>1

\* The parts stand one behind the other: part k behind the first at[k] elements, and
\* every element is one of a part.
Placed(s, parts, at, n) ==
    /\ \A k \in 1..n : \A j \in 1..Len(parts[k]) :
         at[k] + j \in 1..Len(s) /\ s[at[k] + j] = parts[k][j]
    /\ \A p \in 1..Len(s) : \E k \in 1..n : \E j \in 1..Len(parts[k]) : p = at[k] + j

LEMMA Places ==
    ASSUME NEW n \in Nat \ {0}, NEW parts \in [1..n -> Seq(Entry)]
    PROVE  /\ FlattenSeq(parts) \in Seq(Entry)
           /\ \E at \in [1..n -> Nat] :
                /\ \A k \in 1..n - 1 : at[k + 1] = at[k] + Len(parts[k])
                /\ \A k, m \in 1..n : k < m => at[k] + Len(parts[k]) <= at[m]
                /\ Placed(FlattenSeq(parts), parts, at, n)
<1>1. PICK f : /\ f[1] = parts[1]
               /\ \A i \in 1..n : f[i] \in Seq(Entry)
               /\ \A i \in 2..n : f[i] = f[i - 1] \o parts[i]
               /\ FlattenSeq(parts) = f[n]
  BY Flattened
<1> DEFINE at == [k \in 1..n |-> IF k = 1 THEN 0 ELSE Len(f[k - 1])]
<1>2. \A k \in 1..n : parts[k] \in Seq(Entry) /\ f[k] \in Seq(Entry) /\ Len(f[k]) \in Nat /\ Len(parts[k]) \in Nat
  BY <1>1
<1>3. at \in [1..n -> Nat]
  <2>1. \A k \in 1..n : k # 1 => k - 1 \in 1..n
    OBVIOUS
  <2> QED BY <1>2, <2>1
<1>4. at[1] = 0 /\ \A k \in 2..n : at[k] = Len(f[k - 1])
  OBVIOUS
<1> HIDE DEF at
<1>5. ASSUME NEW k \in 2..n
      PROVE  /\ k \in 1..n /\ k - 1 \in 1..n /\ f[k] = f[k - 1] \o parts[k]
             /\ f[k - 1] \in Seq(Entry) /\ parts[k] \in Seq(Entry)
  <2>1. k \in 1..n /\ k - 1 \in 1..n
    OBVIOUS
  <2> QED BY <2>1, <1>1, <1>2
<1>6. ASSUME NEW k \in 1..n - 1
      PROVE  at[k + 1] = at[k] + Len(parts[k])
  <2>1. k \in 1..n /\ k + 1 \in 2..n /\ (k + 1) - 1 = k
    OBVIOUS
  <2>2. at[k + 1] = Len(f[k])
    BY <2>1, <1>4
  <2>3. CASE k = 1
    BY <2>2, <2>3, <1>1, <1>4, <1>2, <2>1, SMTT(20)
  <2>4. CASE k # 1
    <3>1. k \in 2..n
      BY <2>4
    <3>2. Len(f[k]) = Len(f[k - 1]) + Len(parts[k])
      BY <3>1, <1>5, Joined, ZenonT(40)
    <3> QED BY <2>2, <3>1, <3>2, <1>4
  <2> QED BY <2>3, <2>4
<1> DEFINE S == {i \in Nat : i + 1 \in 1..n => Placed(f[i + 1], parts, at, i + 1)}
<1>7. 0 \in S
  <2>1. 1 \in 1..n
    OBVIOUS
  <2>2. Len(parts[1]) \in Nat /\ f[1] = parts[1] /\ at[1] = 0
    BY <2>1, <1>1, <1>2, <1>4
  <2>3. Placed(f[1], parts, at, 1)
    BY <2>2 DEF Placed
  <2> QED BY <2>3
<1>8. ASSUME NEW i \in Nat, i \in S
      PROVE  i + 1 \in S
  <2> SUFFICES ASSUME NEW m \in 2..n, m = i + 2
               PROVE  Placed(f[m], parts, at, m)
    OBVIOUS
  <2>1. /\ m \in 1..n /\ m - 1 \in 1..n /\ f[m] = f[m - 1] \o parts[m]
        /\ f[m - 1] \in Seq(Entry) /\ parts[m] \in Seq(Entry)
    BY <1>5
  <2>2. at[m] = Len(f[m - 1])
    BY <1>4
  <2>3. Placed(f[m - 1], parts, at, m - 1)
    BY <1>8, <2>1
  <2>9. PICK s \in Seq(Entry), t \in Seq(Entry) : s = f[m - 1] /\ t = parts[m]
    BY <2>1
  <2>10. f[m] = s \o t
    BY <2>1, <2>9
  <2>4. /\ Len(f[m]) = Len(s) + Len(t) /\ Len(s) \in Nat /\ Len(t) \in Nat
        /\ \A p \in 1..Len(s) : f[m][p] = s[p]
        /\ \A j \in 1..Len(t) : f[m][Len(s) + j] = t[j]
        /\ \A p \in 1..Len(f[m]) : p \in 1..Len(s) \/ \E j \in 1..Len(t) : p = Len(s) + j
    BY <2>10, Joined
  <2>5. ASSUME NEW k \in 1..m, NEW j \in 1..Len(parts[k])
        PROVE  at[k] + j \in 1..Len(f[m]) /\ f[m][at[k] + j] = parts[k][j]
    <3>1. CASE k = m
      <4>1. j \in 1..Len(t)
        BY <3>1, <2>9
      <4>2. Len(s) + j \in 1..Len(f[m])
        BY <4>1, <2>4
      <4> QED BY <3>1, <4>1, <4>2, <2>2, <2>4, <2>9
    <3>2. CASE k # m
      <4>1. k \in 1..m - 1
        BY <3>2
      <4>2. at[k] + j \in 1..Len(s) /\ s[at[k] + j] = parts[k][j]
        BY <4>1, <2>3, <2>9 DEF Placed
      <4>3. at[k] + j \in 1..Len(f[m])
        BY <4>2, <2>4
      <4> QED BY <4>2, <4>3, <2>4
    <3> QED BY <3>1, <3>2
  <2>6. ASSUME NEW p \in 1..Len(f[m])
        PROVE  \E k \in 1..m : \E j \in 1..Len(parts[k]) : p = at[k] + j
    <3>1. CASE p \in 1..Len(s)
      <4>1. \E k \in 1..m - 1 : \E j \in 1..Len(parts[k]) : p = at[k] + j
        BY <3>1, <2>3, <2>9 DEF Placed
      <4> QED BY <4>1
    <3>2. CASE \E j \in 1..Len(t) : p = Len(s) + j
      BY <3>2, <2>2, <2>9
    <3> QED BY <3>1, <3>2, <2>4
  <2> QED BY <2>5, <2>6 DEF Placed
<1> HIDE DEF S
<1>9. n - 1 \in S
  <2>1. n - 1 \in Nat
    OBVIOUS
  <2> QED BY <1>7, <1>8, <2>1, SetInduction
<1>10. Placed(f[n], parts, at, n)
  <2>1. (n - 1) + 1 = n /\ n \in 1..n
    OBVIOUS
  <2> QED BY <1>9, <2>1 DEF S
<1>11. FlattenSeq(parts) \in Seq(Entry)
  <2>1. n \in 1..n
    OBVIOUS
  <2> QED BY <1>1, <2>1
<1>12. ASSUME NEW k \in 1..n, NEW m \in 1..n, k < m
       PROVE  at[k] + Len(parts[k]) <= at[m]
  <2> DEFINE U == {i \in Nat : k + 1 + i \in 1..n => at[k] + Len(parts[k]) <= at[k + 1 + i]}
  <2>1. 0 \in U
    <3>1. k \in 1..n - 1
      BY <1>12
    <3>2. at[k + 1] = at[k] + Len(parts[k]) /\ at[k] \in Nat /\ Len(parts[k]) \in Nat
      BY <1>2, <1>3, <1>6, <3>1
    <3> QED BY <3>2
  <2>2. ASSUME NEW i \in Nat, i \in U
        PROVE  i + 1 \in U
    <3> SUFFICES ASSUME k + 1 + (i + 1) \in 1..n
                 PROVE  at[k] + Len(parts[k]) <= at[k + 1 + (i + 1)]
      OBVIOUS
    <3>1. k + 1 + i \in 1..n - 1 /\ k + 1 + i \in 1..n /\ (k + 1 + i) + 1 = k + 1 + (i + 1)
      OBVIOUS
    <3>2. at[k + 1 + (i + 1)] = at[k + 1 + i] + Len(parts[k + 1 + i])
      BY <1>6, <3>1
    <3>3. at[k] + Len(parts[k]) <= at[k + 1 + i]
      BY <2>2, <3>1
    <3>4. at[k] \in Nat /\ at[k + 1 + i] \in Nat /\ Len(parts[k]) \in Nat /\ Len(parts[k + 1 + i]) \in Nat
      BY <1>2, <1>3, <3>1
    <3> QED BY <3>2, <3>3, <3>4
  <2>3. m - (k + 1) \in Nat /\ k + 1 + (m - (k + 1)) = m
    BY <1>12
  <2> HIDE DEF U
  <2>4. m - (k + 1) \in U
    BY <2>1, <2>2, <2>3, SetInduction
  <2> QED BY <2>3, <2>4 DEF U
<1> QED BY <1>1, <1>3, <1>6, <1>10, <1>11, <1>12

\* Where the messages of h stand in what a page, or an edited branch, makes of them: the
\* k-th behind the first at[k], and directly behind it the reply of an interrupted run.
Reads(s, c, h, at) ==
    /\ \A k \in 1..Len(h) :
         /\ at[k] + 1 \in 1..Len(s) /\ s[at[k] + 1] = h[k]
         /\ Interrupted(c, h, h[k]) => at[k] + 2 \in 1..Len(s) /\ s[at[k] + 2] = Partial(h[k].run)
         /\ ~Interrupted(c, h, h[k]) /\ k + 1 \in 1..Len(h) => at[k + 1] = at[k] + 1
    /\ \A k, m \in 1..Len(h) : k < m => at[k] < at[m]
    /\ \A p \in 1..Len(s) : \E k \in 1..Len(h) :
         p = at[k] + 1 \/ (Interrupted(c, h, h[k]) /\ p = at[k] + 2)

LEMMA Entries ==
    /\ \A r \in Run : Said(r) \in Entry /\ Partial(r) \in Entry
    /\ \A m \in Entry : m.run \in Run /\ m.role \in {"user", "assistant"} /\ m.partial \in BOOLEAN
    /\ \A m \in Message : Saved(m) \in Entry /\ Saved(m).run = m.run /\ Saved(m).role = m.role
BY DEF Entry, Said, Partial, Saved, Message

LEMMA RestoredReads ==
    ASSUME NEW c, NEW h \in Seq(Entry)
    PROVE  /\ Restored(c, h) \in Seq(Entry)
           /\ \E at \in [1..Len(h) -> Nat] : Reads(Restored(c, h), c, h, at)
<1> DEFINE n == Len(h)
           part(i) == IF Interrupted(c, h, h[i]) THEN <<h[i], Partial(h[i].run)>> ELSE <<h[i]>>
           parts == [i \in 1..n |-> part(i)]
<1>1. Restored(c, h) = FlattenSeq(parts)
  BY DEF Restored
<1>2. n \in Nat /\ \A k \in 1..n : h[k] \in Entry
  OBVIOUS
<1>3. CASE n = 0
  <2>1. Len(parts) = 0 /\ parts \in Seq(Entry)
    BY <1>3
  <2>2. FlattenSeq(parts) = parts
    BY <2>1 DEF FlattenSeq
  <2> HIDE DEF parts
  <2>3. Reads(parts, c, h, [k \in 1..n |-> 0])
    BY <1>3, <2>1 DEF Reads
  <2>4. [k \in 1..n |-> 0] \in [1..n -> Nat]
    OBVIOUS
  <2> QED BY <1>1, <2>1, <2>2, <2>3, <2>4
<1>4. CASE n # 0
  <2>1. ASSUME NEW i \in 1..n
        PROVE  /\ part(i) \in Seq(Entry) /\ part(i)[1] = h[i]
               /\ IF Interrupted(c, h, h[i])
                  THEN Len(part(i)) = 2 /\ part(i)[2] = Partial(h[i].run)
                  ELSE Len(part(i)) = 1
    <3>1. h[i] \in Entry /\ Partial(h[i].run) \in Entry
      BY <1>2, Entries
    <3> QED BY <3>1
  <2> HIDE DEF part
  <2>2. parts \in [1..n -> Seq(Entry)] /\ \A i \in 1..n : parts[i] = part(i)
    BY <2>1
  <2> HIDE DEF parts
  <2>3. n \in Nat \ {0}
    BY <1>2, <1>4
  <2>4. FlattenSeq(parts) \in Seq(Entry)
    BY <2>2, <2>3, Places
  <2>5. PICK at \in [1..n -> Nat] :
           /\ \A k \in 1..n - 1 : at[k + 1] = at[k] + Len(parts[k])
           /\ \A k, m \in 1..n : k < m => at[k] + Len(parts[k]) <= at[m]
           /\ Placed(FlattenSeq(parts), parts, at, n)
    BY <2>2, <2>3, Places
  <2> DEFINE s == FlattenSeq(parts)
  <2> HIDE DEF s
  <2>6. Placed(s, parts, at, n)
    BY <2>5 DEF s
  <2>7. ASSUME NEW k \in 1..n
        PROVE  /\ at[k] + 1 \in 1..Len(s) /\ s[at[k] + 1] = h[k]
               /\ Interrupted(c, h, h[k]) => at[k] + 2 \in 1..Len(s) /\ s[at[k] + 2] = Partial(h[k].run)
               /\ ~Interrupted(c, h, h[k]) /\ k + 1 \in 1..Len(h) => at[k + 1] = at[k] + 1
    <3>1. \A j \in 1..Len(parts[k]) : at[k] + j \in 1..Len(s) /\ s[at[k] + j] = parts[k][j]
      BY <2>6 DEF Placed
    <3>2. /\ parts[k][1] = h[k]
          /\ IF Interrupted(c, h, h[k])
             THEN Len(parts[k]) = 2 /\ parts[k][2] = Partial(h[k].run)
             ELSE Len(parts[k]) = 1
      BY <2>1, <2>2
    <3>3. 1 \in 1..Len(parts[k]) /\ (Interrupted(c, h, h[k]) => 2 \in 1..Len(parts[k]))
      BY <3>2
    <3>4. k + 1 \in 1..Len(h) => at[k + 1] = at[k] + Len(parts[k])
      BY <2>5, <2>3
    <3> QED BY <3>1, <3>2, <3>3, <3>4
  <2>8. ASSUME NEW p \in 1..Len(s)
        PROVE  \E k \in 1..n : p = at[k] + 1 \/ (Interrupted(c, h, h[k]) /\ p = at[k] + 2)
    <3>1. PICK k \in 1..n : \E j \in 1..Len(parts[k]) : p = at[k] + j
      BY <2>6 DEF Placed
    <3>2. IF Interrupted(c, h, h[k]) THEN Len(parts[k]) = 2 ELSE Len(parts[k]) = 1
      BY <2>1, <2>2
    <3>3. PICK j \in 1..Len(parts[k]) : p = at[k] + j
      BY <3>1
    <3>4. j = 1 \/ (Interrupted(c, h, h[k]) /\ j = 2)
      <4>1. CASE Interrupted(c, h, h[k])
        <5>1. Len(parts[k]) = 2
          BY <3>2, <4>1
        <5> QED BY <4>1, <5>1
      <4>2. CASE ~Interrupted(c, h, h[k])
        <5>1. Len(parts[k]) = 1
          BY <3>2, <4>2
        <5> QED BY <5>1
      <4> QED BY <4>1, <4>2
    <3> QED BY <3>3, <3>4
  <2>10. ASSUME NEW k \in 1..n, NEW m \in 1..n, k < m
         PROVE  at[k] < at[m]
    <3>1. Len(parts[k]) = 1 \/ Len(parts[k]) = 2
      <4>1. IF Interrupted(c, h, h[k]) THEN Len(parts[k]) = 2 ELSE Len(parts[k]) = 1
        BY <2>1, <2>2
      <4> QED BY <4>1
    <3>2. PICK w \in Nat \ {0} : w = Len(parts[k])
      <4>1. 1 \in Nat \ {0} /\ 2 \in Nat \ {0}
        OBVIOUS
      <4> QED BY <3>1, <4>1, Zenon
    <3>3. at[k] + Len(parts[k]) <= at[m]
      BY <2>5, <2>10, Zenon
    <3>4. at[k] + w <= at[m]
      BY <3>2, <3>3, Zenon
    <3>5. PICK x \in Nat, y \in Nat : x = at[k] /\ y = at[m]
      OBVIOUS
    <3> QED BY <3>4, <3>5
  <2>9. Reads(s, c, h, at)
    BY <2>7, <2>8, <2>10 DEF Reads
  <2> QED BY <1>1, <2>4, <2>9 DEF s
<1> QED BY <1>3, <1>4

----------------------------------------------------------------------------
(* What a step does to a conversation that is there before and after it. *)

\* What a conversation holds whose copies are s and whose own messages are ms.
Whole(s, ms) == s \o [i \in 1..Len(ms) |-> Saved(ms[i])]

LEMMA WholeFacts ==
    ASSUME NEW s \in Seq(Entry), NEW ms \in Seq(Message)
    PROVE  /\ Whole(s, ms) \in Seq(Entry) /\ Len(Whole(s, ms)) = Len(s) + Len(ms)
           /\ Len(s) \in Nat /\ Len(ms) \in Nat
           /\ \A i \in 1..Len(s) : Whole(s, ms)[i] = s[i]
           /\ \A j \in 1..Len(ms) : Whole(s, ms)[Len(s) + j] = Saved(ms[j]) /\ ms[j] \in Message
           /\ \A p \in 1..Len(Whole(s, ms)) :
                p \in 1..Len(s) \/ \E j \in 1..Len(ms) : p = Len(s) + j
<1> DEFINE own == [i \in 1..Len(ms) |-> Saved(ms[i])]
<1>1. Len(ms) \in Nat /\ \A j \in 1..Len(ms) : ms[j] \in Message /\ Saved(ms[j]) \in Entry
  BY Entries
<1>2. own \in Seq(Entry) /\ Len(own) = Len(ms) /\ \A j \in 1..Len(ms) : own[j] = Saved(ms[j])
  BY <1>1
<1> HIDE DEF own
<1>3. PICK o \in Seq(Entry) : o = own
  BY <1>2
<1>4. Whole(s, ms) = s \o o
  BY <1>3 DEF Whole, own
<1>5. /\ s \o o \in Seq(Entry) /\ Len(s \o o) = Len(s) + Len(o)
      /\ Len(s) \in Nat /\ Len(o) \in Nat
      /\ \A i \in 1..Len(s) : (s \o o)[i] = s[i]
      /\ \A j \in 1..Len(o) : (s \o o)[Len(s) + j] = o[j]
      /\ \A p \in 1..Len(s \o o) :
           p \in 1..Len(s) \/ \E j \in 1..Len(o) : p = Len(s) + j
  BY Joined
<1>6. Len(o) = Len(ms) /\ \A j \in 1..Len(ms) : o[j] = Saved(ms[j])
  BY <1>2, <1>3
<1> HIDE DEF Whole
<1> QED BY <1>1, <1>4, <1>5, <1>6

LEMMA HistoryIsWhole ==
    /\ \A c \in Conversation : History(c) = Whole(copied[c], messages[c])
    /\ \A c \in Conversation : History(c)' = Whole(copied'[c], messages'[c])
BY DEF History, Own, Whole

\* A conversation that is not there yet has no runs.
ThreadsFit ==
    \A c \in Conversation : threads[c].status = "absent" =>
        \A r \in Run : runs[r].conversation # c

\* What a conversation was created with belongs to runs of others.
CopiesFit ==
    \A c \in Conversation : \A i \in 1..Len(copied[c]) :
        runs[copied[c][i].run].status # "absent" /\ runs[copied[c][i].run].conversation # c

Queue == TypeOK /\ Rows /\ OneActiveRun /\ Transcribed

ThreadTypes ==
    /\ threads \in [Conversation -> [status : {"absent", "live", "deleted"}, parent : Conversation \cup {None},
                                     request : Request \cup {None}, edited : BOOLEAN]]
    /\ copied \in [Conversation -> Seq(Entry)]
    /\ latest \in [Conversation -> Run \cup {None}]
    /\ shown \in [Run -> SUBSET Entry]

LEMMA AbsentThread ==
    ASSUME Queue, ThreadsFit, NEW c \in Conversation, threads[c].status = "absent"
    PROVE  messages[c] = <<>> /\ through[c] = 0
<1>1. messages[c] \in Seq(Message) /\ through[c] \in Nat
  BY DEF Queue, TypeOK
<1>2. Len(messages[c]) = 0
  <2> SUFFICES ASSUME 1 \in 1..Len(messages[c]) PROVE FALSE
    BY <1>1
  <2>1. messages[c][1] \in Message
    BY <1>1
  <2>2. messages[c][1].run \in Run
    BY <2>1 DEF Message
  <2> QED BY <2>2 DEF Queue, Transcribed, MessagesBelong, ThreadsFit
<1>3. through[c] = 0
  BY <1>1, <1>2 DEF Queue, Transcribed, BoundaryIsLatestSummary
<1> QED BY <1>1, <1>2, <1>3

\* A conversation that is there after a step was there before, with the same copies, or is new.
LEMMA ThreadStep ==
    ASSUME ThreadTypes, [ConversationsNext]_conversationVars, NEW c \in Conversation, Live(c)'
    PROVE  \/ Live(c) /\ threads'[c] = threads[c] /\ copied'[c] = copied[c]
           \/ threads[c].status = "absent"
<1> USE DEF Live, ThreadTypes
<1>1. CASE UNCHANGED conversationVars
  BY <1>1 DEF conversationVars, threadVars
<1>2. ASSUME NEW d \in Conversation, Create(d) \/ Delete(d)
      PROVE  \/ Live(c) /\ threads'[c] = threads[c] /\ copied'[c] = copied[c]
             \/ threads[c].status = "absent"
  BY <1>2 DEF Create, Delete, Thread
<1>3. ASSUME NEW d \in Conversation, NEW b \in Conversation, NEW q \in Request,
             \/ Reset(b, q, d)
             \/ \E i \in 1..Len(History(b)) : Derive(b, i, q, d)
             \/ \E i \in 1..Len(History(b)), r \in Run, command \in BOOLEAN : Edit(b, i, q, d, r, command)
      PROVE  \/ Live(c) /\ threads'[c] = threads[c] /\ copied'[c] = copied[c]
             \/ threads[c].status = "absent"
  <2>1. CASE d = c
    BY <1>3, <2>1 DEF Reset, Derive, Edit
  <2>2. CASE d # c
    <3>1. threads'[c] = threads[c] /\ copied'[c] = copied[c]
      BY <1>3, <2>2 DEF Reset, Derive, Edit
    <3> QED BY <3>1
  <2> QED BY <2>1, <2>2
<1>4. ASSUME NEW b \in Conversation, NEW q \in Request, NEW r \in Run, NEW command \in BOOLEAN,
             Talk(b, q, r, command)
      PROVE  threads'[c] = threads[c] /\ copied'[c] = copied[c]
  BY <1>4 DEF Talk
<1>5. ASSUME NEW r \in Run, ClaimJob(r) \/ \E t \in 1..runs[r].claims : Work(r, t)
      PROVE  threads'[c] = threads[c] /\ copied'[c] = copied[c]
  BY <1>5 DEF ClaimJob, Work
<1>6. CASE RestOfQueue
  BY <1>6 DEF RestOfQueue, threadVars
<1> QED BY <1>1, <1>2, <1>3, <1>4, <1>5, <1>6 DEF ConversationsNext

\* What a model was shown of a run is written when it is claimed.
LEMMA ShownStep ==
    ASSUME [ConversationsNext]_conversationVars
    PROVE  shown' = shown \/ \E r \in Run : ClaimJob(r)
<1>1. CASE UNCHANGED conversationVars
  BY <1>1 DEF conversationVars, threadVars
<1>2. \A d \in Conversation : Create(d) \/ Delete(d) => shown' = shown
  BY DEF Create, Delete
<1>3. \A d, b \in Conversation, q \in Request :
        \/ Reset(b, q, d)
        \/ \E i \in 1..Len(History(b)) : Derive(b, i, q, d)
        \/ \E i \in 1..Len(History(b)), r \in Run, command \in BOOLEAN : Edit(b, i, q, d, r, command)
        => shown' = shown
  <2>1. \A d, b \in Conversation, q \in Request : Reset(b, q, d) => shown' = shown
    BY DEF Reset
  <2>2. \A d, b, i, q : Derive(b, i, q, d) => shown' = shown
    BY DEF Derive
  <2>3. \A d, b, i, q, r, command : Edit(b, i, q, d, r, command) => shown' = shown
    BY DEF Edit
  <2> QED BY <2>1, <2>2, <2>3
<1>4. \A b \in Conversation, q \in Request, r \in Run, command \in BOOLEAN :
        Talk(b, q, r, command) => shown' = shown
  BY DEF Talk
<1>5. \A r \in Run : \A t \in 1..runs[r].claims : Work(r, t) => shown' = shown
  BY DEF Work
<1>6. CASE RestOfQueue
  BY <1>6 DEF RestOfQueue, threadVars
<1> QED BY <1>1, <1>2, <1>3, <1>4, <1>5, <1>6 DEF ConversationsNext

LEMMA Slice ==
    ASSUME NEW s \in Seq(Entry), NEW a \in Nat \ {0}, NEW b \in Nat, b <= Len(s)
    PROVE  /\ SubSeq(s, a, b) \in Seq(Entry)
           /\ Len(SubSeq(s, a, b)) = IF a <= b THEN b - a + 1 ELSE 0
           /\ \A i \in 1..Len(SubSeq(s, a, b)) : SubSeq(s, a, b)[i] = s[a + i - 1] /\ a + i - 1 \in a..b
           /\ \A p \in a..b : p - a + 1 \in 1..Len(SubSeq(s, a, b)) /\ SubSeq(s, a, b)[p - a + 1] = s[p]
OBVIOUS

LEMMA SliceAsSet ==
    ASSUME NEW s \in Seq(Entry), NEW a \in Nat \ {0}, NEW b \in Nat, b <= Len(s)
    PROVE  ToSet(SubSeq(s, a, b)) = {s[p] : p \in a..b}
<1> DEFINE u == SubSeq(s, a, b)
<1>1. ToSet(u) = {u[i] : i \in 1..Len(u)}
  <2>1. u \in Seq(Entry)
    BY Slice
  <2> HIDE DEF u
  <2> QED BY <2>1 DEF ToSet
<1>2. ASSUME NEW i \in 1..Len(u)
      PROVE  u[i] \in {s[p] : p \in a..b}
  BY Slice
<1>3. ASSUME NEW p \in a..b
      PROVE  s[p] \in {u[i] : i \in 1..Len(u)}
  <2>1. p - a + 1 \in 1..Len(u) /\ u[p - a + 1] = s[p]
    BY Slice
  <2> QED BY <2>1
<1> QED BY <1>1, <1>2, <1>3

LEMMA Histories ==
    ASSUME Queue, ThreadTypes, NEW c \in Conversation
    PROVE  /\ History(c) \in Seq(Entry) /\ Len(History(c)) = Len(copied[c]) + Len(messages[c])
           /\ copied[c] \in Seq(Entry) /\ messages[c] \in Seq(Message)
           /\ Len(copied[c]) \in Nat /\ Len(messages[c]) \in Nat /\ through[c] \in 0..Len(messages[c])
           /\ Len(History(c)) \in Nat /\ Covered(c) \in Nat /\ Covered(c) <= Len(History(c))
<1>1. copied[c] \in Seq(Entry) /\ messages[c] \in Seq(Message) /\ through[c] \in Nat
  BY DEF Queue, TypeOK, ThreadTypes
<1>2. /\ Whole(copied[c], messages[c]) \in Seq(Entry)
      /\ Len(Whole(copied[c], messages[c])) = Len(copied[c]) + Len(messages[c])
      /\ Len(copied[c]) \in Nat /\ Len(messages[c]) \in Nat
  BY <1>1, WholeFacts
<1>3. History(c) = Whole(copied[c], messages[c])
  BY HistoryIsWhole
<1>4. through[c] \in 0..Len(messages[c])
  BY <1>1, <1>2 DEF Queue, Transcribed, BoundaryIsLatestSummary
<1>5. Len(History(c)) \in Nat /\ Covered(c) \in Nat /\ Covered(c) <= Len(History(c))
  <2>1. Len(History(c)) = Len(copied[c]) + Len(messages[c])
    BY <1>2, <1>3
  <2>2. Covered(c) = IF through[c] = 0 THEN 0 ELSE Len(copied[c]) + through[c]
    BY DEF Covered
  <2>3. PICK a \in Nat, b \in Nat, t \in Nat : a = Len(copied[c]) /\ b = Len(messages[c]) /\ t = through[c] /\ t <= b
    BY <1>1, <1>2, <1>4
  <2>4. Len(History(c)) = a + b /\ Covered(c) = IF t = 0 THEN 0 ELSE a + t
    BY <2>1, <2>2, <2>3
  <2>5. CASE t = 0
    <3>1. Len(History(c)) = a + b /\ Covered(c) = 0
      BY <2>4, <2>5
    <3> QED BY <3>1
  <2>6. CASE t # 0
    <3>1. Len(History(c)) = a + b /\ Covered(c) = a + t
      BY <2>4, <2>6
    <3>2. t <= b
      BY <2>3
    <3>3. a + t \in Nat /\ a + b \in Nat /\ a + t <= a + b
      BY <3>2
    <3> QED BY <3>1, <3>3
  <2> QED BY <2>5, <2>6
<1> QED BY <1>1, <1>2, <1>3, <1>4, <1>5

\* The run that made the summary in place succeeded, and belongs to the conversation.
LEMMA SummaryAuthor ==
    ASSUME Queue, NEW c \in Conversation, through[c] # 0
    PROVE  /\ through[c] \in 1..Len(messages[c])
           /\ messages[c][through[c]].run \in Run
           /\ runs[messages[c][through[c]].run].status = "succeeded"
           /\ runs[messages[c][through[c]].run].conversation = c
<1>1. through[c] \in Nat /\ messages[c] \in Seq(Message)
  BY DEF Queue, TypeOK
<1>2. through[c] \in 1..Len(messages[c]) /\ messages[c][through[c]].role = "assistant"
  BY <1>1 DEF Queue, Transcribed, BoundaryIsLatestSummary
<1>3. messages[c][through[c]] \in Message
  BY <1>1, <1>2
<1>4. PICK r \in Run : messages[c][through[c]] = [role |-> "assistant", run |-> r]
  BY <1>2, <1>3 DEF Message
<1>5. runs[r].status = "succeeded" /\ runs[r].conversation = c
  BY <1>2, <1>4 DEF Queue, Transcribed, RepliedIffSucceeded
<1> QED BY <1>2, <1>4, <1>5

LEMMA Jobs ==
    ASSUME Queue, ThreadTypes, NEW c \in Conversation
    PROVE  ModelHistory(c) \subseteq Entry
<1>1. /\ History(c) \in Seq(Entry) /\ Len(History(c)) \in Nat
      /\ Covered(c) \in Nat /\ Covered(c) <= Len(History(c))
  BY Histories
<1>2. Uncovered(c) \subseteq Entry
  <2>1. Uncovered(c) = {History(c)[p] : p \in (Covered(c) + 1)..Len(History(c))}
    BY <1>1, SliceAsSet DEF Uncovered
  <2> HIDE DEF Uncovered
  <2> QED BY <1>1, <2>1
<1>3. Summarized(c) \subseteq Entry
  BY SummaryAuthor DEF Summarized, ThreadTypes
<1>4. FirstQuestion(SubSeq(History(c), 1, Covered(c))) \subseteq Entry
  <2>1. SubSeq(History(c), 1, Covered(c)) \in Seq(Entry)
    BY <1>1, Slice
  <2> QED BY <2>1 DEF FirstQuestion
<1> QED BY <1>2, <1>3, <1>4 DEF ModelHistory

\* What a branch is created with.
LEMMA Copies ==
    ASSUME Queue, ThreadTypes, NEW c \in Conversation, NEW i \in 1..Len(History(c))
    PROVE  /\ SubSeq(History(c), 1, i) \in Seq(Entry)
           /\ SubSeq(History(c), 1, i - 1) \in Seq(Entry)
           /\ Restored(c, SubSeq(History(c), 1, i - 1)) \in Seq(Entry)
<1>1. /\ History(c) \in Seq(Entry) /\ i \in Nat /\ i <= Len(History(c))
      /\ i - 1 \in Nat /\ i - 1 <= Len(History(c))
  <2>1. History(c) \in Seq(Entry) /\ Len(History(c)) \in Nat
    BY Histories
  <2> QED BY <2>1
<1>2. SubSeq(History(c), 1, i) \in Seq(Entry) /\ SubSeq(History(c), 1, i - 1) \in Seq(Entry)
  BY <1>1, Slice
<1> QED BY <1>2, RestoredReads

----------------------------------------------------------------------------
(* Steps keep the tables, and where runs and copies belong. *)

\* The latest run is written with the row it names, and a row appears no other way.
LEMMA LatestStep ==
    ASSUME TypeOK, ThreadTypes, [ConversationsNext]_conversationVars
    PROVE  \/ /\ latest' = latest
              /\ \A x \in Run : runs[x].status = "absent" => runs'[x].status = "absent"
           \/ \E c \in Conversation, q \in Request, r \in Run, compact \in BOOLEAN :
                /\ Enqueue(c, q, r, compact) /\ Live(c)' /\ latest' = [latest EXCEPT ![c] = r]
           \/ \E r, s \in Run : \E t \in 1..runs[r].claims : \E n \in Nat :
                /\ FinishOverflow(r, t, s, n) /\ latest' = [latest EXCEPT ![runs[r].conversation] = s]
<1> DEFINE Stays == /\ latest' = latest
                    /\ \A x \in Run : runs[x].status = "absent" => runs'[x].status = "absent"
           Turns == \E c \in Conversation, q \in Request, r \in Run, compact \in BOOLEAN :
                      /\ Enqueue(c, q, r, compact) /\ Live(c)' /\ latest' = [latest EXCEPT ![c] = r]
           Overflows == \E r, s \in Run : \E t \in 1..runs[r].claims : \E n \in Nat :
                          /\ FinishOverflow(r, t, s, n)
                          /\ latest' = [latest EXCEPT ![runs[r].conversation] = s]
<1>1. ASSUME UNCHANGED <<runs, latest>>
      PROVE  Stays
  BY <1>1
<1>2. ASSUME UNCHANGED conversationVars
      PROVE  Stays
  BY <1>1, <1>2 DEF conversationVars, vars, threadVars
<1>3. ASSUME NEW d \in Conversation, Create(d) \/ Delete(d)
      PROVE  Stays
  BY <1>1, <1>3 DEF Create, Delete, vars
<1>4. ASSUME NEW d \in Conversation, NEW b \in Conversation, NEW q \in Request, NEW i \in 1..Len(History(b)),
             Derive(b, i, q, d)
      PROVE  Stays
  <2>1. UNCHANGED <<runs, latest>>
    BY <1>4 DEF Derive, vars
  <2> QED BY <1>1, <2>1
<1>5. ASSUME NEW d \in Conversation, NEW b \in Conversation, NEW q \in Request, Reset(b, q, d)
      PROVE  Stays
  <2>1. UNCHANGED <<runs, latest>>
    BY <1>5 DEF Reset, vars
  <2> QED BY <1>1, <2>1
<1>6. ASSUME NEW d \in Conversation, NEW b \in Conversation, NEW q \in Request, NEW i \in 1..Len(History(b)),
             NEW r \in Run, NEW command \in BOOLEAN, Edit(b, i, q, d, r, command)
      PROVE  Turns
  <2>1. Enqueue(d, q, r, command) /\ latest' = [latest EXCEPT ![d] = r]
    BY <1>6 DEF Edit, Turn
  <2>2. threads' = [threads EXCEPT ![d] = Thread(b, q, TRUE)]
    BY <1>6 DEF Edit
  <2>3. Live(d)'
    BY <2>2 DEF Live, Thread, ThreadTypes
  <2> QED BY <2>1, <2>3
<1>7. ASSUME NEW b \in Conversation, NEW q \in Request, NEW r \in Run, NEW command \in BOOLEAN,
             Talk(b, q, r, command)
      PROVE  Turns
  <2>1. PICK compact \in BOOLEAN : Enqueue(b, q, r, compact) /\ latest' = [latest EXCEPT ![b] = r]
    BY <1>7 DEF Talk, Turn
  <2>2. Live(b) /\ threads' = threads
    BY <1>7 DEF Talk
  <2>3. Live(b)'
    BY <2>2 DEF Live
  <2> QED BY <2>1, <2>3
<1>8. ASSUME NEW r \in Run, ClaimJob(r)
      PROVE  Stays
  <2>1. latest' = latest /\ runs[r].status = "queued" /\ runs' = [runs EXCEPT ![r] = Leased(@)]
    BY <1>8 DEF ClaimJob, Claim
  <2>2. \A x \in Run : runs[x].status = "absent" => runs'[x].status = "absent"
    BY <2>1 DEF TypeOK
  <2> QED BY <2>1, <2>2
<1>9. ASSUME NEW r \in Run, NEW t \in 1..runs[r].claims, Work(r, t)
      PROVE  Stays \/ Overflows
  <2>1. RuntimeRequest(r, t)
    BY <1>9 DEF Work
  <2>2. CASE Inserted = {} /\ UNCHANGED latest
    BY <2>2 DEF Inserted
  <2>3. ASSUME NEW s \in Inserted, latest' = [latest EXCEPT ![runs[r].conversation] = s]
        PROVE  Overflows
    <3>1. s \in Run /\ runs[s].status = "absent" /\ runs'[s].status # "absent"
      BY DEF Inserted
    <3>2. \E n \in Nat : FinishOverflow(r, t, s, n)
      BY <2>1, <3>1, OverflowAppears
    <3> QED BY <2>3, <3>1, <3>2
  <2>4. \/ Inserted = {} /\ UNCHANGED latest
        \/ \E s \in Inserted : latest' = [latest EXCEPT ![runs[r].conversation] = s]
    BY <1>9 DEF Work
  <2> HIDE DEF Stays, Overflows
  <2> QED BY <2>2, <2>3, <2>4
<1>10. ASSUME RestOfQueue
       PROVE  Stays
  <2>1. latest' = latest
    BY <1>10 DEF RestOfQueue, threadVars
  <2>2. ASSUME NEW r \in Run, Cancel(r) \/ ClaimForbidden(r) \/ Tick(r) \/ LeaseLapse(r),
               NEW x \in Run, runs[x].status = "absent"
        PROVE  runs'[x].status = "absent"
    BY <2>2 DEF Cancel, ClaimForbidden, LeaseLapse, Tick, Active, TypeOK
  <2>3. ASSUME Reap, NEW x \in Run, runs[x].status = "absent"
        PROVE  runs'[x].status = "absent"
    BY <2>3 DEF Reap, ReapRequeue, ReapFail, ReapGates, Recoverable, Lost, Overdue, Active, TypeOK
  <2> QED BY <1>10, <2>1, <2>2, <2>3 DEF RestOfQueue
<1> HIDE DEF Stays, Turns, Overflows
<1> DEFINE Goal == Stays \/ Turns \/ Overflows
<1>11. (Stays => Goal) /\ (Turns => Goal) /\ (Stays \/ Overflows => Goal)
  OBVIOUS
<1> HIDE DEF Goal
<1>12. \A d \in Conversation : Create(d) \/ Delete(d) => Goal
  BY <1>3, <1>11
<1>13. ASSUME NEW d \in Conversation, NEW c \in Conversation, NEW q \in Request,
              \/ Reset(c, q, d)
              \/ \E i \in 1..Len(History(c)) :
                   \/ Derive(c, i, q, d)
                   \/ \E r \in Run, command \in BOOLEAN : Edit(c, i, q, d, r, command)
       PROVE  Goal
  BY <1>13, <1>4, <1>5, <1>6, <1>11
<1>14. \A c \in Conversation, q \in Request, r \in Run, command \in BOOLEAN : Talk(c, q, r, command) => Goal
  BY <1>7, <1>11
<1>15. \A r \in Run : ClaimJob(r) \/ (\E t \in 1..runs[r].claims : Work(r, t)) => Goal
  BY <1>8, <1>9, <1>11
<1>16. Goal
  BY <1>2, <1>10, <1>11, <1>12, <1>13, <1>14, <1>15 DEF ConversationsNext
<1> QED BY <1>16 DEF Goal, Stays, Turns, Overflows

\* A run is where it was, or is new.
LEMMA RunsStay ==
    ASSUME Queue, [ConversationsNext]_conversationVars, NEW x \in Run, runs[x].status # "absent"
    PROVE  runs'[x].status # "absent" /\ SameTurn(runs[x], runs'[x])
<1>1. [Next]_vars
  BY ThreadStepIsQueues DEF conversationVars
<1>2. runs[x] \in Row /\ RowInv(runs[x]) /\ RowStep(runs[x], runs'[x], TakenBack(x))
  BY <1>1, NextIsRowStep DEF Queue, TypeOK, Rows
<1> QED BY <1>2, RowStepFacts

\* A run that was not there is queued by a user's turn, in a conversation that lives then,
\* or by an overflow, in the conversation of the run that overflowed.
LEMMA NewRun ==
    ASSUME Queue, Queue', ThreadTypes, [ConversationsNext]_conversationVars,
           NEW x \in Run, runs[x].status = "absent"
    PROVE  \/ runs'[x].status = "absent" /\ runs'[x].conversation = None
           \/ \E c \in Conversation, q \in Request, compact \in BOOLEAN :
                /\ Enqueue(c, q, x, compact) /\ runs'[x].conversation = c /\ Live(c)'
                /\ latest' = [latest EXCEPT ![c] = x]
           \/ \E r \in Run : /\ runs[r].status = "running" /\ runs'[r].status \in Ended /\ x # r
                             /\ runs'[x].conversation = runs[r].conversation
                             /\ latest' = [latest EXCEPT ![runs[r].conversation] = x]
<1> USE DEF Queue
<1>1. runs'[x].status = "absent" => runs'[x].conversation = None
  BY DEF Rows, RowInv
<1>2. ASSUME NEW c \in Conversation, NEW q \in Request, NEW r \in Run, NEW compact \in BOOLEAN,
             Enqueue(c, q, r, compact), Live(c)', latest' = [latest EXCEPT ![c] = r]
      PROVE  \/ runs'[x].status = "absent"
             \/ /\ Enqueue(c, q, x, compact) /\ runs'[x].conversation = c /\ Live(c)'
                /\ latest' = [latest EXCEPT ![c] = x]
  <2>1. runs'[r] = Queued(c, q, compact, Budget) /\ \A y \in Run \ {r} : runs'[y] = runs[y]
    BY <1>2 DEF Enqueue, TypeOK
  <2>2. runs'[r].conversation = c
    BY <2>1, QueuedRowTurn
  <2>3. CASE x = r
    BY <1>2, <2>2, <2>3
  <2>4. CASE x # r
    BY <2>1, <2>4
  <2> QED BY <2>3, <2>4
<1>3. ASSUME NEW r \in Run, NEW s \in Run, NEW t \in 1..runs[r].claims, NEW n \in Nat,
             FinishOverflow(r, t, s, n), latest' = [latest EXCEPT ![runs[r].conversation] = s]
      PROVE  \/ runs'[x].status = "absent"
             \/ /\ runs[r].status = "running" /\ runs'[r].status \in Ended /\ x # r
                /\ runs'[x].conversation = runs[r].conversation
                /\ latest' = [latest EXCEPT ![runs[r].conversation] = x]
  <2>1. runs[r] \in Row /\ t \in Nat
    BY DEF TypeOK, Row
  <2>2. /\ runs[r].status = "running" /\ s # r /\ runs'[r].status \in Ended
        /\ \A y \in Run \ {r, s} : runs'[y] = runs[y]
    BY <1>3, <2>1, OverflowRows
  <2>3. runs'[s] = Queued(runs[r].conversation, r, TRUE, n)
    BY <1>3, <2>2 DEF FinishOverflow, TypeOK
  <2>4. runs'[s].conversation = runs[r].conversation
    BY <2>3 DEF Queued, NoRow
  <2> QED BY <1>3, <2>2, <2>4
<1> QED BY <1>1, <1>2, <1>3, LatestStep

LEMMA KeepsThreadsFit ==
    ASSUME Queue, Queue', ThreadTypes, ThreadsFit, [ConversationsNext]_conversationVars, ThreadTypes'
    PROVE  ThreadsFit'
<1> SUFFICES ASSUME NEW c \in Conversation, threads'[c].status = "absent", NEW x \in Run,
                    runs'[x].conversation = c
             PROVE  FALSE
  BY DEF ThreadsFit
<1>1. threads[c].status = "absent"
  <2>1. \A d \in Conversation : Create(d) => threads[c].status = "absent"
    BY DEF Create, Thread, ThreadTypes
  <2>2. \A d \in Conversation : Delete(d) => threads[c].status = "absent"
    BY DEF Delete, ThreadTypes
  <2>3. \A d, b, q : Reset(b, q, d) /\ d \in Conversation => threads[c].status = "absent"
    BY DEF Reset, Thread, ThreadTypes
  <2>4. \A d, b, q, i : Derive(b, i, q, d) /\ d \in Conversation => threads[c].status = "absent"
    BY DEF Derive, Thread, ThreadTypes
  <2>5. \A d, b, q, i, r, command : Edit(b, i, q, d, r, command) /\ d \in Conversation => threads[c].status = "absent"
    BY DEF Edit, Thread, ThreadTypes
  <2>6. \A b, q, r, command : Talk(b, q, r, command) => threads[c].status = "absent"
    BY DEF Talk
  <2>7. \A r : ClaimJob(r) \/ (\E t \in 1..runs[r].claims : Work(r, t)) => threads[c].status = "absent"
    BY DEF ClaimJob, Work
  <2>8. RestOfQueue \/ UNCHANGED conversationVars => threads[c].status = "absent"
    BY DEF RestOfQueue, conversationVars, threadVars
  <2> QED BY <2>1, <2>2, <2>3, <2>4, <2>5, <2>6, <2>7, <2>8 DEF ConversationsNext
<1>2. c # None
  BY ConstantsAssumption
<1>3. CASE runs[x].status # "absent"
  BY <1>1, <1>3, RunsStay DEF ThreadsFit, SameTurn
<1>4. CASE runs[x].status = "absent"
  <2>1. ~Live(c)'
    BY DEF Live
  <2> QED BY <1>1, <1>2, <1>4, <2>1, NewRun DEF ThreadsFit
<1> QED BY <1>3, <1>4

\* The copies of a conversation stay, go with it, or were taken from another when it began.
LEMMA CopiedStep ==
    ASSUME ThreadTypes, [ConversationsNext]_conversationVars, NEW c \in Conversation
    PROVE  \/ copied'[c] = copied[c]
           \/ copied'[c] = <<>>
           \/ /\ threads[c].status = "absent"
              /\ \E b \in Conversation : \E i \in 1..Len(History(b)) :
                   copied'[c] \in {SubSeq(History(b), 1, i), Restored(b, SubSeq(History(b), 1, i - 1))}
<1> DEFINE Taken == /\ threads[c].status = "absent"
                    /\ \E b \in Conversation : \E i \in 1..Len(History(b)) :
                         copied'[c] \in {SubSeq(History(b), 1, i), Restored(b, SubSeq(History(b), 1, i - 1))}
           Goal == copied'[c] = copied[c] \/ copied'[c] = <<>> \/ Taken
<1>1. ASSUME UNCHANGED copied
      PROVE  Goal
  BY <1>1
<1>2. ASSUME NEW b \in Conversation, NEW i \in 1..Len(History(b)), NEW d \in Conversation,
             threads[d].status = "absent",
             NEW s \in {SubSeq(History(b), 1, i), Restored(b, SubSeq(History(b), 1, i - 1))},
             copied' = [copied EXCEPT ![d] = s]
      PROVE  Goal
  <2>1. CASE d = c
    <3>1. copied'[c] = s
      BY <1>2, <2>1 DEF ThreadTypes
    <3> QED BY <1>2, <2>1, <3>1
  <2>2. CASE d # c
    BY <1>2, <2>2 DEF ThreadTypes
  <2> QED BY <2>1, <2>2
<1>3. ASSUME NEW d \in Conversation, Delete(d)
      PROVE  Goal
  BY <1>3 DEF Delete, ThreadTypes
<1> HIDE DEF Goal
<1>4. \A d \in Conversation : Create(d) \/ Delete(d) => Goal
  <2>1. \A d \in Conversation : Create(d) => UNCHANGED copied
    BY DEF Create
  <2> QED BY <1>1, <1>3, <2>1
<1>5. ASSUME NEW d \in Conversation, NEW b \in Conversation, NEW q \in Request,
             \/ Reset(b, q, d)
             \/ \E i \in 1..Len(History(b)) :
                  \/ Derive(b, i, q, d)
                  \/ \E r \in Run, command \in BOOLEAN : Edit(b, i, q, d, r, command)
      PROVE  Goal
  <2>1. Reset(b, q, d) => Goal
    BY <1>1 DEF Reset
  <2>2. ASSUME NEW i \in 1..Len(History(b)), Derive(b, i, q, d)
        PROVE  Goal
    <3>1. threads[d].status = "absent" /\ copied' = [copied EXCEPT ![d] = SubSeq(History(b), 1, i)]
      BY <2>2 DEF Derive
    <3> QED BY <1>2, <3>1
  <2>3. ASSUME NEW i \in 1..Len(History(b)), NEW r \in Run, NEW command \in BOOLEAN,
               Edit(b, i, q, d, r, command)
        PROVE  Goal
    <3>1. /\ threads[d].status = "absent"
          /\ copied' = [copied EXCEPT ![d] = Restored(b, SubSeq(History(b), 1, i - 1))]
      BY <2>3 DEF Edit
    <3> QED BY <1>2, <3>1
  <2> QED BY <1>5, <2>1, <2>2, <2>3
<1>6. \A b, q, r, command : Talk(b, q, r, command) => UNCHANGED copied
  BY DEF Talk
<1>7. \A r : ClaimJob(r) \/ (\E t \in 1..runs[r].claims : Work(r, t)) => UNCHANGED copied
  BY DEF ClaimJob, Work
<1>8. RestOfQueue \/ UNCHANGED conversationVars => UNCHANGED copied
  BY DEF RestOfQueue, conversationVars, threadVars
<1>9. Goal
  BY <1>1, <1>4, <1>5, <1>6, <1>7, <1>8 DEF ConversationsNext
<1> QED BY <1>9 DEF Goal

\* What is read of a conversation: its copies, then its own messages.
LEMMA HistoryParts ==
    ASSUME Queue, ThreadTypes, NEW c \in Conversation
    PROVE  /\ \A i \in 1..Len(copied[c]) : History(c)[i] = copied[c][i]
           /\ \A j \in 1..Len(messages[c]) :
                History(c)[Len(copied[c]) + j] = Saved(messages[c][j]) /\ messages[c][j] \in Message
           /\ \A p \in 1..Len(History(c)) :
                p \in 1..Len(copied[c]) \/ \E j \in 1..Len(messages[c]) : p = Len(copied[c]) + j
<1>1. PICK s \in Seq(Entry), ms \in Seq(Message) : s = copied[c] /\ ms = messages[c]
  BY Histories
<1>2. History(c) = Whole(s, ms)
  BY <1>1, HistoryIsWhole
<1>3. /\ \A i \in 1..Len(s) : Whole(s, ms)[i] = s[i]
      /\ \A j \in 1..Len(ms) : Whole(s, ms)[Len(s) + j] = Saved(ms[j]) /\ ms[j] \in Message
      /\ \A p \in 1..Len(Whole(s, ms)) :
           p \in 1..Len(s) \/ \E j \in 1..Len(ms) : p = Len(s) + j
  BY WholeFacts
<1> QED BY <1>1, <1>2, <1>3

\* The messages that a conversation is read with are of runs that exist: its own, or,
\* among its copies, others'.
LEMMA HistoryRuns ==
    ASSUME Queue, ThreadTypes, CopiesFit, NEW c \in Conversation, NEW p \in 1..Len(History(c))
    PROVE  /\ History(c)[p] \in Entry /\ History(c)[p].run \in Run
           /\ runs[History(c)[p].run].status # "absent"
           /\ \/ p \in 1..Len(copied[c]) /\ runs[History(c)[p].run].conversation # c
              \/ \E j \in 1..Len(messages[c]) :
                   /\ p = Len(copied[c]) + j /\ History(c)[p] = Saved(messages[c][j])
                   /\ messages[c][j] \in Message /\ runs[messages[c][j].run].conversation = c
<1>1. copied[c] \in Seq(Entry) /\ messages[c] \in Seq(Message) /\ History(c) \in Seq(Entry)
  BY Histories
<1>2. History(c)[p] \in Entry /\ History(c)[p].run \in Run
  <2>1. History(c)[p] \in Entry
    BY <1>1
  <2> QED BY <2>1, Entries
<1>3. CASE p \in 1..Len(copied[c])
  <2>1. History(c)[p] = copied[c][p]
    BY <1>3, HistoryParts
  <2> QED BY <1>2, <1>3, <2>1 DEF CopiesFit
<1>4. ASSUME NEW j \in 1..Len(messages[c]), p = Len(copied[c]) + j
      PROVE  /\ History(c)[p] = Saved(messages[c][j]) /\ messages[c][j] \in Message
             /\ runs[messages[c][j].run].conversation = c
             /\ runs[History(c)[p].run].status # "absent"
  <2>1. History(c)[p] = Saved(messages[c][j]) /\ messages[c][j] \in Message
    BY <1>4, HistoryParts
  <2>2. runs[messages[c][j].run].conversation = c
    BY DEF Queue, Transcribed, MessagesBelong
  <2>3. History(c)[p].run = messages[c][j].run /\ c # None
    BY <2>1, Entries, ConstantsAssumption
  <2>4. runs[History(c)[p].run].status # "absent"
    BY <1>2, <2>2, <2>3 DEF Queue, Rows, RowInv
  <2> QED BY <2>1, <2>2, <2>4
<1>5. p \in 1..Len(copied[c]) \/ \E j \in 1..Len(messages[c]) : p = Len(copied[c]) + j
  BY HistoryParts
<1> QED BY <1>2, <1>3, <1>4, <1>5

LEMMA CopiesOfRuns ==
    ASSUME Queue, ThreadTypes, CopiesFit, NEW b \in Conversation, NEW i \in 1..Len(History(b)),
           NEW s \in {SubSeq(History(b), 1, i), Restored(b, SubSeq(History(b), 1, i - 1))},
           NEW p \in 1..Len(s)
    PROVE  s[p].run \in Run /\ runs[s[p].run].status # "absent"
<1>1. /\ History(b) \in Seq(Entry) /\ i \in Nat /\ i <= Len(History(b))
      /\ i - 1 \in Nat /\ i - 1 <= Len(History(b))
  <2>1. History(b) \in Seq(Entry) /\ Len(History(b)) \in Nat
    BY Histories
  <2> QED BY <2>1
<1>2. \A n \in Nat : n <= Len(History(b)) =>
        /\ SubSeq(History(b), 1, n) \in Seq(Entry)
        /\ \A k \in 1..Len(SubSeq(History(b), 1, n)) :
             \E j \in 1..Len(History(b)) : SubSeq(History(b), 1, n)[k] = History(b)[j]
  BY <1>1
<1>3. CASE s = SubSeq(History(b), 1, i)
  <2>1. PICK j \in 1..Len(History(b)) : s[p] = History(b)[j]
    BY <1>1, <1>2, <1>3
  <2> QED BY <2>1, HistoryRuns
<1>4. CASE s = Restored(b, SubSeq(History(b), 1, i - 1))
  <2> DEFINE h == SubSeq(History(b), 1, i - 1)
  <2>1. h \in Seq(Entry) /\ \A k \in 1..Len(h) : \E j \in 1..Len(History(b)) : h[k] = History(b)[j]
    BY <1>1, <1>2
  <2> HIDE DEF h
  <2>2. s = Restored(b, h)
    BY <1>4 DEF h
  <2>3. PICK at \in [1..Len(h) -> Nat] : Reads(s, b, h, at)
    BY <2>1, <2>2, RestoredReads
  <2>4. PICK k \in 1..Len(h) : p = at[k] + 1 \/ (Interrupted(b, h, h[k]) /\ p = at[k] + 2)
    BY <2>3 DEF Reads
  <2>5. s[p] = h[k] \/ s[p] = Partial(h[k].run)
    BY <2>3, <2>4 DEF Reads
  <2>6. s[p].run = h[k].run
    BY <2>5 DEF Partial
  <2>7. PICK j \in 1..Len(History(b)) : h[k] = History(b)[j]
    BY <2>1
  <2> QED BY <2>6, <2>7, HistoryRuns
<1> QED BY <1>3, <1>4

LEMMA KeepsCopiesFit ==
    ASSUME Queue, ThreadTypes, ThreadsFit, CopiesFit, [ConversationsNext]_conversationVars
    PROVE  CopiesFit'
<1> SUFFICES ASSUME NEW c \in Conversation, NEW p \in 1..Len(copied'[c])
             PROVE  /\ runs'[copied'[c][p].run].status # "absent"
                    /\ runs'[copied'[c][p].run].conversation # c
  BY DEF CopiesFit
<1>1. ASSUME NEW r \in Run, runs[r].status # "absent", runs[r].conversation # c
      PROVE  runs'[r].status # "absent" /\ runs'[r].conversation # c
  BY <1>1, RunsStay DEF SameTurn
<1>2. CASE copied'[c] = copied[c]
  <2>1. copied[c] \in Seq(Entry) /\ p \in 1..Len(copied[c])
    BY <1>2 DEF ThreadTypes
  <2>2. copied[c][p] \in Entry
    BY <2>1
  <2>3. copied[c][p].run \in Run
    BY <2>2, Entries
  <2>4. runs[copied[c][p].run].status # "absent" /\ runs[copied[c][p].run].conversation # c
    BY <2>1 DEF CopiesFit
  <2> QED BY <1>1, <1>2, <2>3, <2>4
<1>3. CASE copied'[c] = <<>>
  BY <1>3
<1>4. ASSUME NEW b \in Conversation, NEW i \in 1..Len(History(b)), threads[c].status = "absent",
             copied'[c] \in {SubSeq(History(b), 1, i), Restored(b, SubSeq(History(b), 1, i - 1))}
      PROVE  /\ runs'[copied'[c][p].run].status # "absent"
             /\ runs'[copied'[c][p].run].conversation # c
  <2>1. copied'[c][p].run \in Run /\ runs[copied'[c][p].run].status # "absent"
    BY <1>4, CopiesOfRuns
  <2>2. runs[copied'[c][p].run].conversation # c
    BY <1>4, <2>1 DEF ThreadsFit
  <2> QED BY <1>1, <2>1, <2>2
<1> QED BY <1>2, <1>3, <1>4, CopiedStep

LEMMA KeepsThreadTypes ==
    ASSUME Queue, Queue', ThreadTypes, [ConversationsNext]_conversationVars
    PROVE  ThreadTypes'
<1> DEFINE T == [Conversation -> [status : {"absent", "live", "deleted"}, parent : Conversation \cup {None},
                                  request : Request \cup {None}, edited : BOOLEAN]]
           C == [Conversation -> Seq(Entry)]
           Goal == threads' \in T /\ copied' \in C
<1>1. threads \in T /\ copied \in C
  BY DEF ThreadTypes
<1>2. ASSUME UNCHANGED <<threads, copied>>
      PROVE  Goal
  BY <1>1, <1>2
<1>3. ASSUME NEW d \in Conversation, NEW parent \in Conversation \cup {None}, NEW request \in Request \cup {None},
             NEW edited \in BOOLEAN, threads' = [threads EXCEPT ![d] = Thread(parent, request, edited)]
      PROVE  threads' \in T
  BY <1>1, <1>3 DEF Thread
<1>4. ASSUME NEW d \in Conversation, Create(d)
      PROVE  Goal
  <2>1. threads' = [threads EXCEPT ![d] = Thread(None, None, FALSE)] /\ copied' = copied
    BY <1>4 DEF Create
  <2> QED BY <1>1, <1>3, <2>1
<1>5. ASSUME NEW d \in Conversation, Delete(d)
      PROVE  Goal
  <2>1. threads' = [threads EXCEPT ![d].status = "deleted"] /\ copied' = [copied EXCEPT ![d] = <<>>]
    BY <1>5 DEF Delete
  <2>2. threads' \in T
    BY <1>1, <2>1
  <2>3. <<>> \in Seq(Entry)
    OBVIOUS
  <2> HIDE DEF Goal
  <2>4. copied' \in C
    BY <1>1, <2>1, <2>3
  <2> QED BY <2>2, <2>4 DEF Goal
<1>6. ASSUME NEW d \in Conversation, NEW b \in Conversation, NEW q \in Request,
             \/ Reset(b, q, d)
             \/ \E i \in 1..Len(History(b)) :
                  \/ Derive(b, i, q, d)
                  \/ \E r \in Run, command \in BOOLEAN : Edit(b, i, q, d, r, command)
      PROVE  Goal
  <2>1. CASE Reset(b, q, d)
    <3>1. threads' = [threads EXCEPT ![d] = Thread(None, None, FALSE)] /\ copied' = copied
      BY <2>1 DEF Reset
    <3> QED BY <1>1, <1>3, <3>1
  <2>2. ASSUME NEW i \in 1..Len(History(b)), Derive(b, i, q, d)
        PROVE  Goal
    <3>1. /\ threads' = [threads EXCEPT ![d] = Thread(b, q, FALSE)]
          /\ copied' = [copied EXCEPT ![d] = SubSeq(History(b), 1, i)]
      BY <2>2 DEF Derive
    <3>2. SubSeq(History(b), 1, i) \in Seq(Entry)
      BY Copies
    <3>3. copied' \in C
      BY <1>1, <3>1, <3>2
    <3> QED BY <1>3, <3>1, <3>3
  <2>3. ASSUME NEW i \in 1..Len(History(b)), NEW r \in Run, NEW command \in BOOLEAN,
               Edit(b, i, q, d, r, command)
        PROVE  Goal
    <3>1. /\ threads' = [threads EXCEPT ![d] = Thread(b, q, TRUE)]
          /\ copied' = [copied EXCEPT ![d] = Restored(b, SubSeq(History(b), 1, i - 1))]
      BY <2>3 DEF Edit
    <3>2. Restored(b, SubSeq(History(b), 1, i - 1)) \in Seq(Entry)
      BY Copies
    <3>3. copied' \in C
      BY <1>1, <3>1, <3>2
    <3> QED BY <1>3, <3>1, <3>3
  <2> QED BY <1>6, <2>1, <2>2, <2>3
<1>7. \A b, q, r, command : Talk(b, q, r, command) => UNCHANGED <<threads, copied>>
  BY DEF Talk
<1>8. \A r : ClaimJob(r) \/ (\E t \in 1..runs[r].claims : Work(r, t)) => UNCHANGED <<threads, copied>>
  BY DEF ClaimJob, Work
<1>9. RestOfQueue \/ UNCHANGED conversationVars => UNCHANGED <<threads, copied>>
  BY DEF RestOfQueue, conversationVars, threadVars
<1> HIDE DEF Goal
<1>10. Goal
  BY <1>2, <1>4, <1>5, <1>6, <1>7, <1>8, <1>9 DEF ConversationsNext
<1>11. latest' \in [Conversation -> Run \cup {None}]
  BY LatestStep DEF ThreadTypes, Queue
<1>12. shown' \in [Run -> SUBSET Entry]
  <2>1. ASSUME NEW r \in Run, ClaimJob(r)
        PROVE  shown' \in [Run -> SUBSET Entry]
    <3>1. runs[r].status = "queued" /\ shown' = [shown EXCEPT ![r] = Job(r)]
      BY <2>1 DEF ClaimJob, Claim
    <3>2. runs[r].conversation \in Conversation
      BY <3>1 DEF Queue, Rows, RowInv
    <3>3. Job(r) \subseteq Entry
      BY <3>2, Jobs DEF Job
    <3> QED BY <3>1, <3>3 DEF ThreadTypes
  <2> QED BY <2>1, ShownStep DEF ThreadTypes
<1> QED BY <1>10, <1>11, <1>12 DEF Goal, ThreadTypes

\* A run in progress is the one created last.
LatestIsActive == \A r \in Run : Active(r) => latest[runs[r].conversation] = r

LEMMA KeepsLatest ==
    ASSUME Queue, Queue', ThreadTypes, LatestIsActive, [ConversationsNext]_conversationVars
    PROVE  LatestIsActive'
<1> SUFFICES ASSUME NEW x \in Run, Active(x)'
             PROVE  latest'[runs'[x].conversation] = x
  BY DEF LatestIsActive
<1>1. [Next]_vars
  BY ThreadStepIsQueues DEF conversationVars
<1>2. CASE runs[x].status = "absent"
  <2>1. runs'[x].status # "absent"
    BY DEF Active
  <2>2. CASE \E c \in Conversation, q \in Request, compact \in BOOLEAN :
                /\ Enqueue(c, q, x, compact) /\ runs'[x].conversation = c /\ Live(c)'
                /\ latest' = [latest EXCEPT ![c] = x]
    BY <2>2 DEF ThreadTypes
  <2>3. ASSUME NEW r \in Run, runs[r].status = "running",
               runs'[x].conversation = runs[r].conversation,
               latest' = [latest EXCEPT ![runs[r].conversation] = x]
        PROVE  latest'[runs'[x].conversation] = x
    <3>1. runs[r].conversation \in Conversation
      BY <2>3 DEF Queue, Rows, RowInv
    <3> QED BY <2>3, <3>1 DEF ThreadTypes
  <2> QED BY <1>2, <2>1, <2>2, <2>3, NewRun
<1>3. CASE runs[x].status # "absent"
  <2>1. Active(x) /\ SameTurn(runs[x], runs'[x])
    BY <1>1, <1>3, ActiveStep DEF Queue
  <2>2. runs'[x].conversation = runs[x].conversation /\ latest[runs[x].conversation] = x
    BY <2>1 DEF LatestIsActive, SameTurn
  <2>3. ASSUME NEW c \in Conversation, NEW q \in Request, NEW r \in Run, NEW compact \in BOOLEAN,
               Enqueue(c, q, r, compact), latest' = [latest EXCEPT ![c] = r]
        PROVE  latest'[runs'[x].conversation] = x
    <3>1. runs[x].conversation # c
      BY <2>1, <2>3 DEF Enqueue, Busy
    <3> QED BY <2>2, <2>3, <3>1 DEF ThreadTypes
  <2>4. ASSUME NEW r \in Run, NEW s \in Run, NEW t \in 1..runs[r].claims, NEW n \in Nat,
               FinishOverflow(r, t, s, n), latest' = [latest EXCEPT ![runs[r].conversation] = s]
        PROVE  latest'[runs'[x].conversation] = x
    <3>1. runs[r] \in Row /\ t \in Nat
      BY DEF Queue, TypeOK, Row
    <3>2. runs'[r].status \in Ended
      BY <2>4, <3>1, OverflowRows DEF Queue
    <3>3. x # r
      BY <3>2 DEF Active, Ended
    <3>4. runs[x].conversation # runs[r].conversation
      BY <2>1, <2>4, <3>3 DEF FinishOverflow
    <3> QED BY <2>2, <2>4, <3>4 DEF ThreadTypes
  <2> QED BY <2>2, <2>3, <2>4, LatestStep DEF Queue
<1> QED BY <1>2, <1>3

----------------------------------------------------------------------------
(* A summary hides nothing. *)

\* Only a claim sets a run to work, and hands out its job with it.
LEMMA RunStarts ==
    ASSUME TypeOK, [ConversationsNext]_conversationVars, NEW x \in Run,
           runs[x].status # "running", runs'[x].status = "running"
    PROVE  ClaimJob(x)
<1> USE DEF TypeOK
<1>1. ~UNCHANGED runs
  OBVIOUS
<1>2. ASSUME NEW c, NEW q, NEW r, NEW compact, Enqueue(c, q, r, compact)
      PROVE  FALSE
  <2>1. Queued(c, q, compact, Budget).status = "queued"
    BY DEF Queued, NoRow
  <2> QED BY <1>2, <2>1 DEF Enqueue
<1>3. ASSUME NEW r \in Run, NEW t \in 1..runs[r].claims, RuntimeRequest(r, t)
      PROVE  FALSE
  <2>1. ~Renew(r, t)
    <3>1. Renewed(runs[r]).status = runs[r].status
      BY LapsedRow
    <3> QED BY <3>1 DEF Renew
  <2>2. \A k \in Call : ~ApprovalRequest(r, t, k)
    <3>1. Until(runs[r], Stretch(runs[r].deadline)).status = runs[r].status
      BY DEF Until, Row
    <3> QED BY <1>1, <3>1 DEF ApprovalRequest
  <2>3. ~FinishSucceeded(r, t) /\ \A reported \in Ended : ~FinishUnanswered(r, t, reported)
    <3>1. ASSUME NEW reported \in Ended
          PROVE  runs' # [runs EXCEPT ![r] = EndedAs(@, reported)]
      <4>1. EndedAs(runs[r], reported).status # "running"
        BY EndedAsRow DEF Ended
      <4> QED BY <4>1
    <3>2. "succeeded" \in Ended
      BY DEF Ended
    <3> QED BY <3>1, <3>2 DEF FinishSucceeded, FinishUnanswered
  <2>4. ASSUME NEW s \in Run, NEW n, FinishOverflow(r, t, s, n)
        PROVE  FALSE
    <3>1. EndedAs(runs[r], "failed").status # "running"
      BY EndedAsRow DEF Ended
    <3>2. Queued(runs[r].conversation, r, TRUE, n).status = "queued"
      BY DEF Queued, NoRow
    <3> QED BY <2>4, <3>1, <3>2 DEF FinishOverflow
  <2> QED BY <1>1, <1>3, <2>1, <2>2, <2>3, <2>4
          DEF RuntimeRequest, AppendEvent, SaveSnapshot, ToolStart, ToolFinish, ApprovalPoll
<1>4. ASSUME NEW r \in Run, Cancel(r) \/ ClaimForbidden(r) \/ Tick(r) \/ LeaseLapse(r)
      PROVE  FALSE
  <2>1. Refused(runs[r]).status = "failed" /\ Lapsed(runs[r]).status = runs[r].status
    BY RefusedRow, LapsedRow
  <2>2. Until(runs[r], Less(runs[r].deadline)).status = runs[r].status
    BY DEF Until, Row
  <2>3. Active(r) => Stopped(runs[r]).status # "running" \/ runs[r].status = "running"
    BY StoppedRow DEF Active
  <2> QED BY <1>4, <2>1, <2>2, <2>3 DEF Cancel, ClaimForbidden, LeaseLapse, Tick
<1>5. ~Reap
  <2>1. Requeued(runs[x]).status = "queued"
    BY RequeuedRow
  <2>2. EndedAs(runs[x], "failed").status # "running"
    BY EndedAsRow DEF Ended
  <2> QED BY <1>1, <2>1, <2>2 DEF Reap, ReapRequeue, ReapFail, ReapGates
<1>6. ASSUME NEW r \in Run, ClaimJob(r)
      PROVE  ClaimJob(x)
  <2>1. r = x
    BY <1>6 DEF ClaimJob, Claim
  <2> QED BY <1>6, <2>1
<1>7. ~UNCHANGED conversationVars /\ ~RestOfQueue
  BY <1>1, <1>4, <1>5 DEF conversationVars, vars, RestOfQueue
<1>8. \A d \in Conversation : ~Create(d) /\ ~Delete(d)
  BY <1>1 DEF Create, Delete, vars
<1>9. \A d, c, q : ~Reset(c, q, d)
  BY <1>1 DEF Reset, vars
<1>10. \A d, c, q, i : ~Derive(c, i, q, d)
  BY <1>1, ZenonT(40) DEF Derive, vars
<1>11. \A d, c, q, i, r, command : ~Edit(c, i, q, d, r, command)
  BY <1>2, ZenonT(40) DEF Edit, Turn
<1>12. \A c, q, r, command : ~Talk(c, q, r, command)
  BY <1>2 DEF Talk, Turn
<1>13. \A r \in Run : \A t \in 1..runs[r].claims : ~Work(r, t)
  BY <1>3 DEF Work
<1> QED BY <1>6, <1>7, <1>8, <1>9, <1>10, <1>11, <1>12, <1>13 DEF ConversationsNext

\* What was shown to a run that is not waiting stays.
LEMMA ShownStays ==
    ASSUME ThreadTypes, [ConversationsNext]_conversationVars, NEW x \in Run, runs[x].status # "queued"
    PROVE  shown'[x] = shown[x]
<1>1. ASSUME NEW r \in Run, ClaimJob(r)
      PROVE  shown'[x] = shown[x]
  <2>1. runs[r].status = "queued" /\ shown' = [shown EXCEPT ![r] = Job(r)]
    BY <1>1 DEF ClaimJob, Claim
  <2> QED BY <2>1 DEF ThreadTypes
<1> QED BY <1>1, ShownStep

\* Nothing is written in a conversation while its own messages stay.
LEMMA SameHistory ==
    ASSUME Queue, ThreadTypes, [ConversationsNext]_conversationVars, NEW c \in Conversation,
           copied'[c] = copied[c], messages'[c] = messages[c], through'[c] = through[c]
    PROVE  /\ History(c)' = History(c) /\ Covered(c)' = Covered(c)
           /\ Summarized(c)' = Summarized(c) /\ ModelHistory(c)' = ModelHistory(c)
<1>1. History(c)' = History(c) /\ Covered(c)' = Covered(c)
  BY HistoryIsWhole DEF Covered
<1>2. Summarized(c)' = Summarized(c)
  <2>1. CASE through[c] = 0
    BY <2>1 DEF Summarized
  <2>2. CASE through[c] # 0
    <3>1. PICK r \in Run : r = messages[c][through[c]].run /\ runs[r].status = "succeeded"
      BY <2>2, SummaryAuthor
    <3>2. shown'[r] = shown[r]
      BY <3>1, ShownStays
    <3> QED BY <3>1, <3>2 DEF Summarized
  <2> QED BY <2>1, <2>2
<1>3. ModelHistory(c)' = Uncovered(c)' \cup Summarized(c)' \cup FirstQuestion(SubSeq(History(c)', 1, Covered(c)'))
  BY DEF ModelHistory, FirstQuestion, IsQuestion
<1>4. Uncovered(c)' = Uncovered(c)
  BY <1>1 DEF Uncovered
<1> QED BY <1>1, <1>2, <1>3, <1>4 DEF ModelHistory

\* A run at work was told what its conversation still says.
JobsAreShown ==
    \A r \in Run : runs[r].status = "running" /\ Live(runs[r].conversation) => shown[r] = Job(r)

\* While a run is in progress nothing but its own reply is written in its conversation.
LEMMA RunsAreAlone ==
    ASSUME Queue, [ConversationsNext]_conversationVars, NEW c \in Conversation,
           NEW x \in Run, Active(x), runs[x].conversation = c, runs'[x].status # "succeeded"
    PROVE  messages'[c] = messages[c] /\ through'[c] = through[c]
<1>1. [Next]_vars
  BY ThreadStepIsQueues DEF conversationVars
<1>2. ASSUME NEW d \in Conversation, NEW r \in Run, Questioned(d, r) \/ Replied(d, r)
      PROVE  messages'[c] = messages[c] /\ through'[c] = through[c]
  <2>1. d # c
    <3>1. CASE Questioned(d, r)
      BY <3>1 DEF Questioned, Busy
    <3>2. CASE Replied(d, r)
      <4>1. d = c => r = x
        BY <3>2 DEF Replied, Queue, OneActiveRun
      <4> QED BY <3>2, <4>1 DEF Replied
    <3> QED BY <1>2, <3>1, <3>2
  <2>2. messages'[c] = messages[c]
    <3>1. PICK n \in Nat : Longer(d, r, n)
      BY <1>2, Written DEF Queue
    <3> QED BY <2>1, <3>1 DEF Longer
  <2>3. through'[c] = through[c]
    BY <1>2, <2>1 DEF Questioned, Replied, Queue, TypeOK
  <2> QED BY <2>2, <2>3
<1> QED BY <1>1, <1>2, WritesOnce DEF Queue

LEMMA KeepsJobsShown ==
    ASSUME Queue, Queue', ThreadTypes, ThreadsFit, JobsAreShown, [ConversationsNext]_conversationVars
    PROVE  JobsAreShown'
<1> SUFFICES ASSUME NEW x \in Run, NEW c \in Conversation,
                    runs'[x].status = "running", runs'[x].conversation = c, Live(c)'
             PROVE  shown'[x] = Job(x)'
  <2>1. \A x \in Run : runs'[x].status = "running" => runs'[x].conversation \in Conversation
    BY DEF Queue, Rows, RowInv
  <2> QED BY <2>1 DEF JobsAreShown, Live
<1>1. runs[x].status # "absent"
  <2>1. CASE runs[x].status = "running"
    BY <2>1
  <2>2. CASE runs[x].status # "running"
    <3>1. ClaimJob(x)
      BY <2>2, RunStarts DEF Queue
    <3> QED BY <3>1 DEF ClaimJob, Claim
  <2> QED BY <2>1, <2>2
<1>2. SameTurn(runs[x], runs'[x])
  BY <1>1, RunsStay
<1>3. runs[x].conversation = c /\ runs'[x].compact = runs[x].compact
  BY <1>2 DEF SameTurn
<1>4. Live(c) /\ copied'[c] = copied[c]
  BY <1>3, ThreadStep DEF ThreadsFit
<1>5. ASSUME messages'[c] = messages[c], through'[c] = through[c]
      PROVE  Job(x)' = Job(x)
  <2>1. ModelHistory(c)' = ModelHistory(c)
    BY <1>4, <1>5, SameHistory
  <2>2. Job(x)' = IF runs'[x].compact THEN {m \in ModelHistory(c)' : m.run # x} ELSE ModelHistory(c)'
    BY DEF Job, ModelHistory, Uncovered, History, Own, Covered, Summarized
  <2> QED BY <1>3, <2>1, <2>2 DEF Job
<1>6. CASE runs[x].status = "running"
  <2>1. messages'[c] = messages[c] /\ through'[c] = through[c]
    BY <1>3, <1>6, RunsAreAlone DEF Active
  <2>2. shown'[x] = shown[x]
    BY <1>6, ShownStays
  <2>3. shown[x] = Job(x)
    BY <1>3, <1>4, <1>6 DEF JobsAreShown
  <2> QED BY <1>5, <2>1, <2>2, <2>3
<1>7. CASE runs[x].status # "running"
  <2>1. ClaimJob(x)
    BY <1>7, RunStarts DEF Queue
  <2>2. messages' = messages /\ through' = through /\ shown'[x] = Job(x)
    BY <2>1 DEF ClaimJob, Claim, ThreadTypes
  <2> QED BY <1>5, <2>2
<1> QED BY <1>6, <1>7

\* What the summary in place of c does not hide of the first k messages.
Tells(c, k) ==
    \A i \in 1..k :
        History(c)[i] \in Summarized(c)
            \/ (runs[History(c)[i].run].conversation = c /\ runs[History(c)[i].run].compact)

LEMMA SummariesTell == SummariesHideNothing <=> \A c \in Conversation : Live(c) => Tells(c, Covered(c))
BY DEF SummariesHideNothing, Tells

\* A summary that stays goes on telling what it told.
LEMMA KeepsTelling ==
    ASSUME Queue, ThreadTypes, CopiesFit, [ConversationsNext]_conversationVars, NEW c \in Conversation,
           Tells(c, Covered(c)), copied'[c] = copied[c], through'[c] = through[c],
           NEW n \in Nat, n = Len(messages[c]), \A j \in 1..n : messages'[c][j] = messages[c][j],
           messages'[c] \in Seq(Message), Len(messages'[c]) >= n
    PROVE  Tells(c, Covered(c))'
<1>1. /\ copied[c] \in Seq(Entry) /\ messages[c] \in Seq(Message) /\ through[c] \in 0..n
      /\ Len(History(c)) = Len(copied[c]) + n /\ Covered(c) \in Nat /\ Covered(c) <= Len(History(c))
  BY Histories
<1>2. Covered(c)' = Covered(c)
  BY DEF Covered
<1>3. Summarized(c)' = Summarized(c)
  <2>1. CASE through[c] = 0
    BY <2>1 DEF Summarized
  <2>2. CASE through[c] # 0
    <3>1. PICK r \in Run : r = messages[c][through[c]].run /\ runs[r].status = "succeeded"
      BY <2>2, SummaryAuthor
    <3>2. shown'[r] = shown[r]
      BY <3>1, ShownStays
    <3>3. messages'[c][through[c]] = messages[c][through[c]]
      BY <1>1, <2>2
    <3> QED BY <2>2, <3>1, <3>2, <3>3 DEF Summarized
  <2> QED BY <2>1, <2>2
<1>4. ASSUME NEW i \in 1..Covered(c)
      PROVE  History(c)'[i] = History(c)[i] /\ i \in 1..Len(History(c))
  <2>1. i \in 1..Len(History(c))
    <3>1. PICK a \in Nat, b \in Nat : a = Covered(c) /\ b = Len(History(c)) /\ a <= b
      BY Histories
    <3>2. i \in 1..a
      BY <3>1
    <3>3. i \in 1..b
      BY <3>1, <3>2
    <3> QED BY <3>1, <3>3
  <2>2. CASE i \in 1..Len(copied[c])
    <3>1. Whole(copied[c], messages'[c])[i] = copied[c][i] /\ Whole(copied[c], messages[c])[i] = copied[c][i]
      BY <1>1, <2>2, WholeFacts
    <3> QED BY <2>1, <3>1, HistoryIsWhole
  <2>3. ASSUME NEW j \in 1..Len(messages[c]), i = Len(copied[c]) + j
        PROVE  History(c)'[i] = History(c)[i]
    <3>1. j \in 1..n /\ j \in 1..Len(messages'[c])
      <4>1. Len(messages'[c]) \in Nat
        OBVIOUS
      <4> QED BY <4>1
    <3>2. /\ Whole(copied[c], messages'[c])[i] = Saved(messages'[c][j])
          /\ Whole(copied[c], messages[c])[i] = Saved(messages[c][j])
      BY <1>1, <2>3, <3>1, WholeFacts
    <3> QED BY <3>1, <3>2, HistoryIsWhole
  <2> QED BY <2>1, <2>2, <2>3, HistoryParts
<1>5. ASSUME NEW i \in 1..Covered(c)'
      PROVE  \/ History(c)'[i] \in Summarized(c)'
             \/ /\ runs'[History(c)'[i].run].conversation = c /\ runs'[History(c)'[i].run].compact
  <2>1. PICK m \in Entry : m = History(c)[i] /\ m = History(c)'[i] /\ m.run \in Run /\ runs[m.run].status # "absent"
    BY <1>2, <1>4, HistoryRuns
  <2>2. SameTurn(runs[m.run], runs'[m.run])
    BY <2>1, RunsStay
  <2>3. m \in Summarized(c) \/ (runs[m.run].conversation = c /\ runs[m.run].compact)
    BY <1>2, <2>1 DEF Tells
  <2> QED BY <1>3, <2>1, <2>2, <2>3 DEF SameTurn
<1> QED BY <1>5 DEF Tells

\* A new summary tells all there is, but for the turn it was made in.
LEMMA CompactionTells ==
    ASSUME Queue, ThreadTypes, ThreadTypes', Queue', CopiesFit, [ConversationsNext]_conversationVars,
           NEW c \in Conversation, NEW r \in Run, Tells(c, Covered(c)), copied'[c] = copied[c],
           Replied(c, r), runs[r].compact, shown[r] = Job(r)
    PROVE  Tells(c, Covered(c))'
<1>1. PICK n \in Nat : Longer(c, r, n)
  BY Written DEF Queue
<1>2. /\ Len(messages[c]) = n /\ Len(messages'[c]) = n + 1
      /\ messages'[c][n + 1] = [role |-> "assistant", run |-> r]
      /\ \A j \in 1..n : messages'[c][j] = messages[c][j]
  BY <1>1 DEF Longer
<1>3. PICK k \in Nat : k = Len(copied[c])
  BY Histories
<1>4. /\ copied[c] \in Seq(Entry) /\ messages[c] \in Seq(Message) /\ messages'[c] \in Seq(Message)
      /\ History(c) \in Seq(Entry) /\ Len(History(c)) = k + n
      /\ Covered(c) \in Nat /\ Covered(c) <= k + n
  BY <1>2, <1>3, Histories DEF Queue, TypeOK
<1>5. through'[c] = n + 1 /\ Covered(c)' = k + n + 1
  <2>1. through'[c] = n + 1
    BY <1>2 DEF Replied, Boundary, Queue, TypeOK
  <2> QED BY <1>3, <2>1 DEF Covered
<1>6. Summarized(c)' = Job(r)
  <2>1. shown'[r] = shown[r]
    BY ShownStays DEF Replied
  <2> QED BY <1>2, <1>5, <2>1 DEF Summarized
<1>7. Job(r) = {m \in ModelHistory(c) : m.run # r}
  BY DEF Job, Replied
<1>8. runs'[r].conversation = c /\ runs'[r].compact
  BY DEF Replied, SameTurn
<1>9. ASSUME NEW i \in 1..k + n
      PROVE  History(c)'[i] = History(c)[i] /\ i \in 1..Len(History(c))
  <2>1. i \in 1..Len(History(c))
    BY <1>4
  <2>2. CASE i \in 1..Len(copied[c])
    <3>1. Whole(copied[c], messages'[c])[i] = copied[c][i] /\ Whole(copied[c], messages[c])[i] = copied[c][i]
      BY <1>4, <2>2, WholeFacts
    <3> QED BY <2>1, <3>1, HistoryIsWhole
  <2>3. ASSUME NEW j \in 1..Len(messages[c]), i = Len(copied[c]) + j
        PROVE  History(c)'[i] = History(c)[i]
    <3>1. j \in 1..n /\ j \in 1..Len(messages'[c])
      BY <1>2
    <3>2. /\ Whole(copied[c], messages'[c])[i] = Saved(messages'[c][j])
          /\ Whole(copied[c], messages[c])[i] = Saved(messages[c][j])
      BY <1>4, <2>3, <3>1, WholeFacts
    <3> QED BY <1>2, <3>1, <3>2, HistoryIsWhole
  <2> QED BY <2>1, <2>2, <2>3, HistoryParts
<1>10. ASSUME NEW i \in 1..k + n
       PROVE  \/ History(c)'[i] \in Summarized(c)'
              \/ /\ runs'[History(c)'[i].run].conversation = c /\ runs'[History(c)'[i].run].compact
  <2>1. PICK m \in Entry : m = History(c)[i] /\ m = History(c)'[i] /\ m.run \in Run /\ runs[m.run].status # "absent"
    BY <1>9, HistoryRuns
  <2>2. SameTurn(runs[m.run], runs'[m.run])
    BY <2>1, RunsStay
  <2>3. CASE i \in 1..Covered(c)
    <3>1. m \in Summarized(c) \/ (runs[m.run].conversation = c /\ runs[m.run].compact)
      BY <2>1, <2>3 DEF Tells
    <3>2. m \in Summarized(c) => m \in ModelHistory(c)
      BY DEF ModelHistory
    <3> QED BY <1>6, <1>7, <1>8, <2>1, <2>2, <3>1, <3>2 DEF SameTurn
  <2>4. CASE i \notin 1..Covered(c)
    <3>1. i \in (Covered(c) + 1)..Len(History(c))
      BY <1>4, <2>4
    <3>2. Uncovered(c) = {History(c)[p] : p \in (Covered(c) + 1)..Len(History(c))}
      <4>1. Covered(c) + 1 \in Nat \ {0} /\ Len(History(c)) \in Nat /\ Len(History(c)) <= Len(History(c))
        BY <1>4
      <4> QED BY <1>4, <4>1, SliceAsSet DEF Uncovered
    <3>3. m \in Uncovered(c)
      BY <2>1, <3>1, <3>2
    <3> QED BY <1>6, <1>7, <1>8, <2>1, <3>3 DEF ModelHistory
  <2> QED BY <2>3, <2>4
<1>11. History(c)'[k + n + 1].run = r
  <2>1. n + 1 \in 1..Len(messages'[c])
    BY <1>2
  <2>2. Whole(copied[c], messages'[c])[k + (n + 1)] = Saved(messages'[c][n + 1])
    BY <1>3, <1>4, <2>1, WholeFacts
  <2>3. Saved(messages'[c][n + 1]).run = r
    BY <1>2 DEF Saved
  <2>4. k + (n + 1) = k + n + 1
    OBVIOUS
  <2>5. Whole(copied[c], messages'[c])[k + n + 1].run = r
    BY <2>2, <2>3, <2>4
  <2> QED BY <2>5, HistoryIsWhole
<1>12. ASSUME NEW i \in 1..Covered(c)'
       PROVE  \/ History(c)'[i] \in Summarized(c)'
              \/ /\ runs'[History(c)'[i].run].conversation = c /\ runs'[History(c)'[i].run].compact
  <2>1. i \in 1..k + n \/ i = k + n + 1
    BY <1>5
  <2> QED BY <1>8, <1>10, <1>11, <2>1
<1> QED BY <1>12 DEF Tells

LEMMA KeepsSummaries ==
    ASSUME Queue, Queue', ThreadTypes, ThreadTypes', ThreadsFit, CopiesFit, JobsAreShown, SummariesHideNothing,
           [ConversationsNext]_conversationVars
    PROVE  SummariesHideNothing'
<1> SUFFICES ASSUME NEW c \in Conversation, Live(c)'
             PROVE  Tells(c, Covered(c))'
  BY SummariesTell DEF SummariesHideNothing, Tells
<1>1. [Next]_vars
  BY ThreadStepIsQueues DEF conversationVars
<1>2. messages[c] \in Seq(Message) /\ messages'[c] \in Seq(Message)
  BY DEF Queue, TypeOK
<1>3. PICK n \in Nat : n = Len(messages[c])
  BY <1>2
<1>4. CASE threads[c].status = "absent"
  <2>1. through[c] = 0
    BY <1>4, AbsentThread
  <2>2. \A r \in Run : runs[r].conversation # c
    BY <1>4 DEF ThreadsFit
  <2>3. ASSUME NEW d \in Conversation, NEW r \in Run, Questioned(d, r) \/ Replied(d, r)
        PROVE  through'[c] = 0
    BY <2>1, <2>2, <2>3 DEF Questioned, Replied, Queue, TypeOK
  <2>4. through'[c] = 0
    BY <1>1, <2>1, <2>3, WritesOnce DEF Queue
  <2>5. Covered(c)' = 0
    BY <2>4 DEF Covered
  <2> QED BY <2>5 DEF Tells
<1>5. CASE Live(c) /\ threads'[c] = threads[c] /\ copied'[c] = copied[c]
  <2>1. Tells(c, Covered(c))
    BY <1>5, SummariesTell
  <2>2. ASSUME messages'[c] = messages[c], through'[c] = through[c]
        PROVE  Tells(c, Covered(c))'
    BY <1>2, <1>3, <1>5, <2>1, <2>2, KeepsTelling
  <2>3. ASSUME NEW r \in Run, Questioned(c, r) \/ Replied(c, r), through'[c] = through[c]
        PROVE  Tells(c, Covered(c))'
    <3>1. Longer(c, r, n)
      <4>1. PICK k \in Nat : Longer(c, r, k)
        BY <2>3, Written DEF Queue
      <4>2. k = n
        BY <1>3, <4>1 DEF Longer
      <4> QED BY <4>1, <4>2
    <3>2. Len(messages'[c]) >= n /\ \A j \in 1..n : messages'[c][j] = messages[c][j]
      BY <3>1 DEF Longer
    <3> QED BY <1>2, <1>3, <1>5, <2>1, <2>3, <3>2, KeepsTelling
  <2>4. ASSUME NEW r \in Run, Replied(c, r), runs[r].compact
        PROVE  Tells(c, Covered(c))'
    <3>1. shown[r] = Job(r)
      BY <1>5, <2>4 DEF JobsAreShown, Replied
    <3> QED BY <1>5, <2>1, <2>4, <3>1, CompactionTells
  <2>5. ASSUME NEW d \in Conversation, NEW r \in Run, Questioned(d, r) \/ Replied(d, r)
        PROVE  Tells(c, Covered(c))'
    <3>1. CASE d # c
      <4>1. messages'[c] = messages[c]
        <5>1. PICK k \in Nat : Longer(d, r, k)
          BY <2>5, Written DEF Queue
        <5> QED BY <3>1, <5>1 DEF Longer
      <4>2. through'[c] = through[c]
        BY <2>5, <3>1 DEF Questioned, Replied, Queue, TypeOK
      <4> QED BY <2>2, <4>1, <4>2
    <3>2. CASE d = c /\ Replied(c, r) /\ runs[r].compact
      BY <2>4, <3>2
    <3>3. CASE d = c /\ ~(Replied(c, r) /\ runs[r].compact)
      <4>1. through'[c] = through[c]
        BY <2>5, <3>3 DEF Questioned, Replied, Boundary, Queue, TypeOK
      <4> QED BY <2>3, <2>5, <3>3, <4>1
    <3> QED BY <3>1, <3>2, <3>3
  <2> QED BY <1>1, <2>2, <2>5, WritesOnce DEF Queue
<1> QED BY <1>4, <1>5, ThreadStep

\* What holds of the threads beside what the queue tells.
Threads == ThreadTypes /\ ThreadsFit /\ CopiesFit /\ JobsAreShown /\ LatestIsActive

LEMMA ThreadsStand == ConversationsSpec => [](Queue /\ Threads)
<1>1. ConversationsInit => Threads
  <2> SUFFICES ASSUME ConversationsInit PROVE Threads
    OBVIOUS
  <2>1. \A r \in Run : runs[r].status = "absent" /\ runs[r].conversation = None
    BY DEF ConversationsInit, Init, NoRow
  <2>2. ThreadTypes
    BY DEF ConversationsInit, ThreadTypes, NoThread
  <2>3. CopiesFit
    <3>1. \A c \in Conversation : Len(copied[c]) = 0
      BY DEF ConversationsInit
    <3> QED BY <3>1 DEF CopiesFit
  <2>4. ThreadsFit /\ JobsAreShown /\ LatestIsActive
    BY <2>1, ConstantsAssumption DEF ThreadsFit, JobsAreShown, LatestIsActive, Active
  <2> QED BY <2>2, <2>3, <2>4 DEF Threads
<1>2. Queue /\ Queue' /\ Threads /\ [ConversationsNext]_conversationVars => Threads'
  <2> SUFFICES ASSUME Queue, Queue', Threads, [ConversationsNext]_conversationVars PROVE Threads'
    OBVIOUS
  <2> USE DEF Threads
  <2>1. ThreadTypes'
    BY KeepsThreadTypes
  <2>2. ThreadsFit' /\ CopiesFit'
    BY <2>1, KeepsThreadsFit, KeepsCopiesFit
  <2>3. JobsAreShown' /\ LatestIsActive'
    BY KeepsJobsShown, KeepsLatest
  <2> QED BY <2>1, <2>2, <2>3
<1>3. ConversationsSpec => []Queue
  BY ConversationsAreAQueue, QueueTells, PTL DEF Queue
<1> QED BY <1>1, <1>2, <1>3, PTL DEF ConversationsSpec

\* Whatever is summarized, branched off or answered: what a summary covers was told to the
\* run that wrote it, by the messages or by the summary before, but for turns that only compact.
THEOREM SummariesTellAll == ConversationsSpec => []SummariesHideNothing
<1>1. ConversationsInit => SummariesHideNothing
  BY DEF ConversationsInit, Init, SummariesHideNothing, Covered
<1>2. Queue /\ Queue' /\ Threads /\ Threads' /\ SummariesHideNothing /\ [ConversationsNext]_conversationVars
        => SummariesHideNothing'
  BY KeepsSummaries DEF Threads
<1> QED BY <1>1, <1>2, ThreadsStand, PTL DEF ConversationsSpec

----------------------------------------------------------------------------
(* A session is whole. *)

\* A run has one question at most, and has it for a user's request.
AskedOnce ==
    /\ \A c \in Conversation : \A i, j \in 1..Len(messages[c]) :
         messages[c][i].role = "user" /\ messages[c][j] = messages[c][i] => i = j
    /\ \A c \in Conversation : \A i \in 1..Len(messages[c]) :
         messages[c][i].role = "user" => runs[messages[c][i].run].origin \in Request

LEMMA KeepsAsks ==
    ASSUME Queue, AskedOnce, [Next]_vars
    PROVE  AskedOnce'
<1> USE DEF Queue
<1>1. ASSUME NEW d \in Conversation, messages'[d] = messages[d], NEW i \in 1..Len(messages'[d]),
             messages'[d][i].role = "user"
      PROVE  /\ runs'[messages'[d][i].run].origin \in Request
             /\ \A j \in 1..Len(messages'[d]) : messages'[d][j] = messages'[d][i] => j = i
  <2>1. SameTurn(runs[messages[d][i].run], runs'[messages[d][i].run])
    BY <1>1, MessageRuns DEF Transcribed
  <2> QED BY <1>1, <2>1 DEF AskedOnce, SameTurn
<1>2. CASE UNCHANGED <<messages, through>>
  BY <1>1, <1>2 DEF AskedOnce
<1>3. ASSUME NEW c \in Conversation, NEW r \in Run, Questioned(c, r) \/ Replied(c, r)
      PROVE  AskedOnce'
  <2>1. PICK n \in Nat : Longer(c, r, n)
    BY <1>3, Written
  <2>2. \A d \in Conversation \ {c} : messages'[d] = messages[d]
    BY <2>1 DEF Longer
  <2>3. ASSUME NEW i \in 1..n
        PROVE  /\ i \in 1..Len(messages[c]) /\ messages'[c][i] = messages[c][i]
               /\ runs[messages[c][i].run].status # "absent"
               /\ messages[c][i].role = "user" => runs'[messages[c][i].run].origin \in Request
    <3>1. i \in 1..Len(messages[c]) /\ messages'[c][i] = messages[c][i]
      BY <2>1 DEF Longer
    <3>2. /\ runs[messages[c][i].run].status # "absent"
          /\ SameTurn(runs[messages[c][i].run], runs'[messages[c][i].run])
      BY <3>1, MessageRuns DEF Transcribed
    <3>3. messages[c][i].role = "user" => runs[messages[c][i].run].origin \in Request
      BY <3>1 DEF AskedOnce
    <3> QED BY <3>1, <3>2, <3>3 DEF SameTurn
  <2>4. \A i \in 1..Len(messages'[c]) : i \in 1..n \/ i = n + 1
    BY <2>1 DEF Longer
  <2>5. CASE Questioned(c, r)
    <3>1. messages'[c][n + 1] = [role |-> "user", run |-> r]
      BY <2>1, <2>5 DEF Longer
    <3>2. runs[r].status = "absent" /\ runs'[r].origin \in Request
      BY <2>5 DEF Questioned
    <3>3. \A i \in 1..n : messages'[c][i] # messages'[c][n + 1]
      BY <2>3, <3>1, <3>2
    <3>4. ASSUME NEW i \in 1..Len(messages'[c]), messages'[c][i].role = "user"
          PROVE  /\ runs'[messages'[c][i].run].origin \in Request
                 /\ \A j \in 1..Len(messages'[c]) : messages'[c][j] = messages'[c][i] => j = i
      <4>1. CASE i = n + 1
        BY <2>4, <3>1, <3>2, <3>3, <4>1
      <4>2. CASE i \in 1..n
        <5>1. runs'[messages'[c][i].run].origin \in Request
          BY <2>3, <3>4, <4>2
        <5>2. \A j \in 1..n : messages'[c][j] = messages'[c][i] => j = i
          BY <2>3, <3>4, <4>2 DEF AskedOnce
        <5> QED BY <2>4, <3>3, <4>2, <5>1, <5>2
      <4> QED BY <2>4, <4>1, <4>2
    <3> QED BY <1>1, <2>2, <3>4 DEF AskedOnce
  <2>6. CASE Replied(c, r)
    <3>1. messages'[c][n + 1].role = "assistant"
      BY <2>1, <2>6 DEF Longer
    <3>2. ASSUME NEW i \in 1..Len(messages'[c]), messages'[c][i].role = "user"
          PROVE  /\ runs'[messages'[c][i].run].origin \in Request
                 /\ \A j \in 1..Len(messages'[c]) : messages'[c][j] = messages'[c][i] => j = i
      <4>1. i \in 1..n
        BY <2>4, <3>1, <3>2
      <4>2. runs'[messages'[c][i].run].origin \in Request
        BY <2>3, <3>2, <4>1
      <4>3. \A j \in 1..n : messages'[c][j] = messages'[c][i] => j = i
        BY <2>3, <3>2, <4>1 DEF AskedOnce
      <4>4. messages'[c][n + 1] # messages'[c][i]
        BY <3>1, <3>2
      <4> QED BY <2>4, <4>2, <4>3, <4>4
    <3> QED BY <1>1, <2>2, <3>2 DEF AskedOnce
  <2> QED BY <1>3, <2>5, <2>6
<1> QED BY <1>2, <1>3, WritesOnce

LEMMA QueueAsks == Spec => [](Queue /\ AskedOnce)
<1>1. Init => AskedOnce
  BY DEF Init, AskedOnce
<1>2. Queue /\ AskedOnce /\ [Next]_vars => AskedOnce'
  BY KeepsAsks
<1>3. Spec => []Queue
  BY QueueTells DEF Queue
<1> QED BY <1>1, <1>2, <1>3, PTL DEF Spec

\* Where a run's own messages stand in its conversation.
LEMMA OwnMessage ==
    ASSUME Queue, AskedOnce, ThreadTypes, CopiesFit, NEW c \in Conversation, NEW r \in Run,
           runs[r].conversation = c, NEW q \in 1..Len(History(c)), History(c)[q].run = r
    PROVE  \E j \in 1..Len(messages[c]) :
              /\ q = Len(copied[c]) + j /\ History(c)[q] = Saved(messages[c][j])
              /\ messages[c][j] = [role |-> History(c)[q].role, run |-> r]
<1>1. PICK j \in 1..Len(messages[c]) :
         /\ q = Len(copied[c]) + j /\ History(c)[q] = Saved(messages[c][j]) /\ messages[c][j] \in Message
  <2>1. runs[History(c)[q].run].conversation = c
    OBVIOUS
  <2>2. \E j \in 1..Len(messages[c]) :
           /\ q = Len(copied[c]) + j /\ History(c)[q] = Saved(messages[c][j])
           /\ messages[c][j] \in Message /\ runs[messages[c][j].run].conversation = c
    BY <2>1, HistoryRuns, Zenon
  <2> QED BY <2>2
<1>2. messages[c][j].run = r /\ messages[c][j].role = History(c)[q].role
  BY <1>1, Entries
<1>3. messages[c][j] = [role |-> History(c)[q].role, run |-> r]
  <2>1. PICK m \in Message : m = messages[c][j]
    BY <1>1
  <2>2. m = [role |-> m.role, run |-> m.run]
    BY DEF Message
  <2>3. m.run = r /\ m.role = History(c)[q].role
    BY <1>2, <2>1
  <2> QED BY <2>1, <2>2, <2>3
<1> QED BY <1>1, <1>3

LEMMA OwnTurns ==
    ASSUME Queue, AskedOnce, ThreadTypes, CopiesFit, NEW c \in Conversation, NEW r \in Run,
           runs[r].conversation = c
    PROVE  \A p, q \in 1..Len(History(c)) : History(c)[p].run = r =>
              /\ IsQuestion(History(c)[p]) => History(c)[p] = Said(r)
              /\ History(c)[p].role = "assistant" => runs[r].status = "succeeded"
              /\ History(c)[q].run = r /\ History(c)[q].role = History(c)[p].role => q = p
<1> SUFFICES ASSUME NEW p \in 1..Len(History(c)), History(c)[p].run = r
             PROVE  /\ IsQuestion(History(c)[p]) => History(c)[p] = Said(r)
                    /\ History(c)[p].role = "assistant" => runs[r].status = "succeeded"
                    /\ \A q \in 1..Len(History(c)) :
                         History(c)[q].run = r /\ History(c)[q].role = History(c)[p].role => q = p
  OBVIOUS
<1>2. PICK j \in 1..Len(messages[c]) :
           /\ p = Len(copied[c]) + j /\ History(c)[p] = Saved(messages[c][j])
           /\ messages[c][j] = [role |-> History(c)[p].role, run |-> r]
  BY OwnMessage
<1>3. IsQuestion(History(c)[p]) => History(c)[p] = Said(r)
  <2>1. ASSUME History(c)[p].role = "user"
        PROVE  History(c)[p] = Said(r)
    <3>1. messages[c][j] = [role |-> "user", run |-> r]
      BY <1>2, <2>1
    <3>2. Saved(messages[c][j]) = Said(r)
      BY <3>1 DEF Saved, Said
    <3> QED BY <1>2, <3>2
  <2> QED BY <2>1 DEF IsQuestion
<1>4. ASSUME History(c)[p].role = "assistant"
      PROVE  /\ runs[r].status = "succeeded"
             /\ \A i \in 1..Len(messages[c]) : messages[c][i] = messages[c][j] => i = j
  <2>1. messages[c][j] = [role |-> "assistant", run |-> r]
    BY <1>2, <1>4
  <2> QED BY <2>1 DEF Queue, Transcribed, RepliedIffSucceeded
<1>5. ASSUME History(c)[p].role = "user"
      PROVE  \A i \in 1..Len(messages[c]) : messages[c][i] = messages[c][j] => i = j
  <2>1. messages[c][j] = [role |-> "user", run |-> r]
    BY <1>2, <1>5
  <2>2. messages[c][j].role = "user"
    BY <2>1
  <2> QED BY <2>2 DEF AskedOnce
<1>6. History(c)[p].role \in {"user", "assistant"}
  BY HistoryRuns, Entries
<1>7. ASSUME NEW q \in 1..Len(History(c)), History(c)[q].run = r, History(c)[q].role = History(c)[p].role
      PROVE  q = p
  <2>1. PICK i \in 1..Len(messages[c]) :
           /\ q = Len(copied[c]) + i /\ messages[c][i] = [role |-> History(c)[q].role, run |-> r]
    BY <1>7, OwnMessage
  <2>2. i = j
    BY <1>2, <1>4, <1>5, <1>6, <1>7, <2>1
  <2> QED BY <1>2, <2>1, <2>2
<1> QED BY <1>3, <1>4, <1>7

\* A run that succeeded has its reply, behind its question if it was asked one.
LEMMA OwnReply ==
    ASSUME Queue, AskedOnce, ThreadTypes, CopiesFit, NEW c \in Conversation, NEW r \in Run,
           runs[r].conversation = c, runs[r].status = "succeeded"
    PROVE  \E p \in 1..Len(History(c)) :
              /\ History(c)[p].role = "assistant" /\ History(c)[p].run = r
              /\ \A q \in 1..Len(History(c)) : History(c)[q] = Said(r) => p = q + 1
<1>1. PICK j \in 1..Len(messages[c]) : messages[c][j] = [role |-> "assistant", run |-> r]
  BY DEF Queue, Transcribed, RepliedIffSucceeded
<1>2. PICK k \in Nat, n \in Nat : k = Len(copied[c]) /\ n = Len(messages[c]) /\ Len(History(c)) = k + n
  BY Histories
<1>3. k + j \in 1..Len(History(c)) /\ History(c)[k + j] = Saved(messages[c][j])
  <2>1. j \in 1..n /\ Len(History(c)) = k + n
    BY <1>2
  <2>2. k + j \in 1..k + n
    BY <2>1
  <2> QED BY <1>2, <2>1, <2>2, HistoryParts
<1>4. History(c)[k + j].role = "assistant" /\ History(c)[k + j].run = r
  BY <1>1, <1>3 DEF Saved
<1>5. ASSUME NEW q \in 1..Len(History(c)), History(c)[q] = Said(r)
      PROVE  k + j = q + 1
  <2>1. History(c)[q].run = r /\ History(c)[q].role = "user"
    BY <1>5 DEF Said
  <2>2. PICK i \in 1..Len(messages[c]) : q = Len(copied[c]) + i /\ messages[c][i] = [role |-> "user", run |-> r]
    <3>1. PICK i \in 1..Len(messages[c]) :
             q = Len(copied[c]) + i /\ messages[c][i] = [role |-> History(c)[q].role, run |-> r]
      BY <2>1, OwnMessage
    <3> QED BY <2>1, <3>1
  <2>3. runs[r].origin \in Request
    <3>1. messages[c][i].role = "user" /\ messages[c][i].run = r
      BY <2>2
    <3> QED BY <3>1 DEF AskedOnce
  <2>4. j > 1 /\ messages[c][j - 1] = [role |-> "user", run |-> r]
    BY <1>1, <2>3 DEF Queue, Transcribed, RepliesFollowQuestions
  <2>5. j - 1 \in 1..Len(messages[c])
    BY <1>2, <2>4
  <2>6. j - 1 = i
    <3>1. messages[c][i].role = "user" /\ messages[c][j - 1] = messages[c][i]
      BY <2>2, <2>4
    <3> QED BY <2>5, <3>1 DEF AskedOnce
  <2> QED BY <1>2, <2>2, <2>6
<1> QED BY <1>3, <1>4, <1>5

RepliesIn(view, r) == {j \in 1..Len(view) : view[j].role = "assistant" /\ view[j].run = r}

\* The messages of r in h: one of each role, and a reply if r succeeded.
TurnsOf(h, r) ==
    \A p, q \in 1..Len(h) : h[p].run = r =>
        /\ IsQuestion(h[p]) => h[p] = Said(r)
        /\ h[p].role = "assistant" => runs[r].status = "succeeded"
        /\ h[q].run = r /\ h[q].role = h[p].role => q = p

\* A question of r is answered right behind it if r succeeded.
AnswersOf(h, r) ==
    runs[r].status = "succeeded" =>
        \A q \in 1..Len(h) : h[q] = Said(r) => q + 1 \in 1..Len(h) /\ h[q + 1].role = "assistant" /\ h[q + 1].run = r

\* A reply that is read is a saved one, or that of an interrupted run.
LEMMA RepliesRead ==
    ASSUME NEW c, NEW r \in Run, NEW h \in Seq(Entry), TurnsOf(h, r), NEW view,
           NEW at \in [1..Len(h) -> Nat], Reads(view, c, h, at), NEW p \in RepliesIn(view, r)
    PROVE  \E k \in 1..Len(h) :
              \/ /\ p = at[k] + 1 /\ h[k].role = "assistant" /\ h[k].run = r
                 /\ runs[r].status = "succeeded"
              \/ /\ p = at[k] + 2 /\ h[k] = Said(r) /\ Interrupted(c, h, h[k])
                 /\ runs[r].status \in {"failed", "cancelled"}
<1>0. \A i, j \in 1..Len(h) : h[i].run = r =>
         /\ IsQuestion(h[i]) => h[i] = Said(r)
         /\ h[i].role = "assistant" => runs[r].status = "succeeded"
         /\ h[j].run = r /\ h[j].role = h[i].role => j = i
  BY DEF TurnsOf
<1>1. view[p].role = "assistant" /\ view[p].run = r /\ p \in 1..Len(view)
  BY DEF RepliesIn
<1>2. PICK k \in 1..Len(h) : p = at[k] + 1 \/ (Interrupted(c, h, h[k]) /\ p = at[k] + 2)
  BY <1>1 DEF Reads
<1>3. CASE p = at[k] + 1
  <2>1. view[p] = h[k]
    BY <1>2, <1>3 DEF Reads
  <2>2. h[k].role = "assistant" /\ h[k].run = r
    BY <1>1, <2>1
  <2>3. runs[r].status = "succeeded"
    BY <2>2, <1>0
  <2> QED BY <1>3, <2>2, <2>3
<1>4. CASE Interrupted(c, h, h[k]) /\ p = at[k] + 2
  <2>1. view[p] = Partial(h[k].run)
    BY <1>2, <1>4 DEF Reads
  <2>2. h[k].run = r
    BY <1>1, <2>1 DEF Partial
  <2>3. IsQuestion(h[k]) /\ runs[r].status \in {"failed", "cancelled"}
    BY <1>4, <2>2 DEF Interrupted
  <2>4. h[k] = Said(r)
    BY <2>2, <2>3, <1>0
  <2> QED BY <1>4, <2>3, <2>4
<1> QED BY <1>2, <1>3, <1>4

\* A question is read once for every time it is in h.
LEMMA QuestionsRead ==
    ASSUME NEW c, NEW r \in Run, NEW h \in Seq(Entry), NEW view,
           NEW at \in [1..Len(h) -> Nat], Reads(view, c, h, at), NEW i \in 1..Len(view), view[i] = Said(r)
    PROVE  \E k \in 1..Len(h) : i = at[k] + 1 /\ h[k] = Said(r)
<1>1. PICK k \in 1..Len(h) : i = at[k] + 1 \/ (Interrupted(c, h, h[k]) /\ i = at[k] + 2)
  BY DEF Reads
<1>2. CASE i = at[k] + 1
  <2>1. view[i] = h[k]
    BY <1>2 DEF Reads
  <2> QED BY <1>2, <2>1
<1>3. CASE Interrupted(c, h, h[k]) /\ i = at[k] + 2
  <2>1. view[i] = Partial(h[k].run)
    BY <1>3 DEF Reads
  <2> QED BY <2>1 DEF Partial, Said
<1> QED BY <1>1, <1>2, <1>3

\* A turn that is over is read with its reply behind its question.
LEMMA EndedTurnIsRead ==
    ASSUME NEW c, NEW r \in Run, runs[r].conversation = c, runs[r].status \in Ended,
           NEW h \in Seq(Entry), TurnsOf(h, r), AnswersOf(h, r),
           NEW view, NEW at \in [1..Len(h) -> Nat], Reads(view, c, h, at),
           NEW i \in 1..Len(view), view[i] = Said(r)
    PROVE  RepliesIn(view, r) = {i + 1}
<1> DEFINE replies == RepliesIn(view, r)
<1>0. \A p, q \in 1..Len(h) : h[p].run = r =>
         /\ IsQuestion(h[p]) => h[p] = Said(r)
         /\ h[p].role = "assistant" => runs[r].status = "succeeded"
         /\ h[q].run = r /\ h[q].role = h[p].role => q = p
  BY DEF TurnsOf
<1>1. \A k \in 1..Len(h) :
        /\ at[k] + 1 \in 1..Len(view) /\ view[at[k] + 1] = h[k]
        /\ Interrupted(c, h, h[k]) => at[k] + 2 \in 1..Len(view) /\ view[at[k] + 2] = Partial(h[k].run)
        /\ ~Interrupted(c, h, h[k]) /\ k + 1 \in 1..Len(h) => at[k + 1] = at[k] + 1
  BY DEF Reads
<1>2. \A p \in replies : \E k \in 1..Len(h) :
         \/ /\ p = at[k] + 1 /\ h[k].role = "assistant" /\ h[k].run = r
            /\ runs[r].status = "succeeded"
         \/ /\ p = at[k] + 2 /\ h[k] = Said(r) /\ Interrupted(c, h, h[k])
            /\ runs[r].status \in {"failed", "cancelled"}
  BY RepliesRead
<1>3. PICK k \in 1..Len(h) : i = at[k] + 1 /\ h[k] = Said(r)
  BY QuestionsRead
<1>4. h[k].run = r /\ h[k].role = "user" /\ IsQuestion(h[k])
  BY <1>3 DEF Said, IsQuestion
<1> HIDE DEF replies
<1>5. CASE runs[r].status = "succeeded"
  <2>1. k + 1 \in 1..Len(h) /\ h[k + 1].role = "assistant" /\ h[k + 1].run = r
    BY <1>3, <1>5 DEF AnswersOf
  <2>2. at[k + 1] = at[k] + 1
    <3>1. ~Interrupted(c, h, h[k])
      BY <1>4, <1>5 DEF Interrupted
    <3> QED BY <1>1, <2>1, <3>1
  <2>3. at[k + 1] + 1 \in replies
    BY <1>1, <2>1 DEF RepliesIn, replies
  <2>4. ASSUME NEW p \in replies
        PROVE  p = at[k + 1] + 1
    <3>1. PICK j \in 1..Len(h) : p = at[j] + 1 /\ h[j].role = "assistant" /\ h[j].run = r
      BY <1>2, <1>5
    <3>2. j = k + 1
      BY <1>0, <2>1, <3>1
    <3> QED BY <3>1, <3>2
  <2>5. replies = {at[k + 1] + 1}
    BY <2>3, <2>4
  <2> QED BY <1>3, <2>2, <2>5 DEF replies
<1>6. CASE runs[r].status \in {"failed", "cancelled"}
  <2>1. Interrupted(c, h, h[k])
    <3>1. ASSUME NEW n \in ToSet(h), n.role = "assistant", n.run = r
          PROVE  FALSE
      <4>1. PICK p \in 1..Len(h) : n = h[p]
        BY DEF ToSet
      <4>2. runs[r].status = "succeeded"
        BY <3>1, <4>1, <1>0
      <4> QED BY <1>6, <4>2
    <3> QED BY <1>4, <1>6, <3>1 DEF Interrupted
  <2>2. at[k] + 2 \in 1..Len(view) /\ view[at[k] + 2] = Partial(r)
    BY <1>1, <1>4, <2>1
  <2>3. at[k] + 2 \in replies
    BY <2>2 DEF RepliesIn, Partial, replies
  <2>4. ASSUME NEW p \in replies
        PROVE  p = at[k] + 2
    <3>1. PICK q \in 1..Len(h) : p = at[q] + 2 /\ h[q] = Said(r)
      BY <1>2, <1>6
    <3>2. q = k
      <4>1. h[q].run = r /\ h[q].role = h[k].role
        BY <1>4, <3>1 DEF Said
      <4> QED BY <1>4, <4>1, <1>0
    <3> QED BY <3>1, <3>2
  <2>5. replies = {at[k] + 2} /\ i + 1 = at[k] + 2
    BY <1>3, <2>3, <2>4
  <2> QED BY <2>5 DEF replies
<1> QED BY <1>5, <1>6 DEF Ended

\* One turn of a conversation as it is read.
LEMMA TurnIsRead ==
    ASSUME Queue, AskedOnce, ThreadTypes, CopiesFit, NEW c \in Conversation, NEW r \in Run,
           runs[r].conversation = c
    PROVE  /\ Active(r) => RepliesIn(Session(c), r) = {}
           /\ \A i \in 1..Len(Session(c)) : Session(c)[i] = Said(r) =>
                IF Active(r) THEN RepliesIn(Session(c), r) = {} ELSE RepliesIn(Session(c), r) = {i + 1}
           /\ runs[r].status = "succeeded" => \E p : RepliesIn(Session(c), r) = {p}
<1> DEFINE h == History(c)
           view == Session(c)
           replies == RepliesIn(view, r)
<1>0. TurnsOf(h, r)
  BY OwnTurns DEF TurnsOf
<1>1. h \in Seq(Entry)
  BY Histories
<1>2. PICK at \in [1..Len(h) -> Nat] : Reads(view, c, h, at)
  BY <1>1, RestoredReads DEF Session
<1>3. \A p \in replies : \E k \in 1..Len(h) :
         \/ /\ p = at[k] + 1 /\ h[k].role = "assistant" /\ h[k].run = r
            /\ runs[r].status = "succeeded"
         \/ /\ p = at[k] + 2 /\ h[k] = Said(r) /\ Interrupted(c, h, h[k])
            /\ runs[r].status \in {"failed", "cancelled"}
  BY <1>0, <1>1, <1>2, RepliesRead
<1>4. ASSUME Active(r)
      PROVE  replies = {}
  BY <1>3, <1>4 DEF Active
<1>5. ASSUME runs[r].status = "succeeded"
      PROVE  \E p : replies = {p}
  <2>1. PICK k \in 1..Len(h) : h[k].role = "assistant" /\ h[k].run = r
    BY <1>5, OwnReply
  <2>2. at[k] + 1 \in replies
    BY <1>2, <2>1 DEF Reads, RepliesIn
  <2>3. ASSUME NEW p \in replies
        PROVE  p = at[k] + 1
    <3>1. PICK i \in 1..Len(h) : p = at[i] + 1 /\ h[i].role = "assistant" /\ h[i].run = r
      BY <1>3, <1>5
    <3>2. i = k
      BY <1>0, <2>1, <3>1 DEF TurnsOf
    <3> QED BY <3>1, <3>2
  <2>4. replies = {at[k] + 1}
    BY <2>2, <2>3
  <2> QED BY <2>4
<1>6. ASSUME NEW i \in 1..Len(view), view[i] = Said(r), ~Active(r)
      PROVE  replies = {i + 1}
  <2>1. runs[r].status \in Ended
    <3>1. runs[r].status # "absent"
      BY ConstantsAssumption DEF Queue, Rows, RowInv
    <3> QED BY <1>6, <3>1 DEF Active, Queue, TypeOK, Row, Status
  <2>2. AnswersOf(h, r)
    BY OwnReply DEF AnswersOf
  <2> QED BY <1>0, <1>1, <1>2, <1>6, <2>1, <2>2, EndedTurnIsRead
<1> QED BY <1>4, <1>5, <1>6

LEMMA SessionHolds ==
    ASSUME Queue, AskedOnce, Threads
    PROVE  SessionIsWhole
<1> SUFFICES ASSUME NEW c \in Conversation, NEW r \in Run, Live(c), runs[r].conversation = c
             PROVE  /\ Active(r) => ResumeRun(c) = r /\ RepliesIn(Session(c), r) = {}
                    /\ \A i \in 1..Len(Session(c)) : Session(c)[i] = Said(r) =>
                         IF Active(r) THEN RepliesIn(Session(c), r) = {} ELSE RepliesIn(Session(c), r) = {i + 1}
                    /\ runs[r].status = "succeeded" => Cardinality(RepliesIn(Session(c), r)) = 1
  BY DEF SessionIsWhole, RepliesIn
<1>1. /\ Active(r) => RepliesIn(Session(c), r) = {}
      /\ \A i \in 1..Len(Session(c)) : Session(c)[i] = Said(r) =>
           IF Active(r) THEN RepliesIn(Session(c), r) = {} ELSE RepliesIn(Session(c), r) = {i + 1}
      /\ runs[r].status = "succeeded" => \E p : RepliesIn(Session(c), r) = {p}
  BY TurnIsRead DEF Threads
<1>2. ASSUME Active(r)
      PROVE  ResumeRun(c) = r
  <2>1. latest[c] = r
    BY <1>2 DEF Threads, LatestIsActive
  <2>2. Session(c) \in Seq(Entry)
    <3>1. History(c) \in Seq(Entry)
      BY Histories DEF Threads
    <3> QED BY <3>1, RestoredReads DEF Session
  <2>3. ASSUME NEW m \in ToSet(Session(c)), m.role = "assistant", m.run = r
        PROVE  FALSE
    <3>1. PICK i \in 1..Len(Session(c)) : m = Session(c)[i]
      BY <2>2 DEF ToSet
    <3> QED BY <1>1, <1>2, <2>3, <3>1 DEF RepliesIn
  <2> QED BY <2>1, <2>3 DEF ResumeRun
<1>3. runs[r].status = "succeeded" => Cardinality(RepliesIn(Session(c), r)) = 1
  BY <1>1, FS_Singleton
<1> QED BY <1>1, <1>2, <1>3

\* Whoever opens a conversation reads every turn of it once, its reply behind its question,
\* or follows the run that is still at it: for any number of turns, branches and failures.
THEOREM SessionsAreWhole == ConversationsSpec => []SessionIsWhole
<1>1. ConversationsSpec => []AskedOnce
  BY ConversationsAreAQueue, QueueAsks, PTL
<1> QED BY <1>1, SessionHolds, ThreadsStand, PTL

----------------------------------------------------------------------------
(* Branches are faithful. *)

\* Where the first n messages h of c stand among the copies s of a branch: in their order,
\* and with nothing beside them but replies of interrupted runs.
Aligned(s, c, h, n, at) ==
    /\ \A k \in 1..n : at[k] \in 1..Len(s) /\ s[at[k]] = h[k] /\ ~PutIn(c, h[k])
    /\ \A k, m \in 1..n : k < m => at[k] < at[m]
    /\ \A p \in 1..Len(s) : ~PutIn(c, s[p]) => \E k \in 1..n : p = at[k]

Fits(c, s, edited) ==
    \E n \in 0..Len(History(c)) : \E at \in [1..n -> Nat] :
        /\ Aligned(s, c, History(c), n, at)
        /\ edited => n < Len(History(c)) /\ IsQuestion(History(c)[n + 1])

TurnsFit(c, s) ==
    \A i \in 1..Len(s) : runs[s[i].run].conversation = c /\ IsQuestion(s[i])
                            => RepliesIn(s, s[i].run) = {i + 1}

\* Every branch fits its parent, which was there before it; a request makes one branch.
BranchesFit ==
    \A b, c \in Conversation, s \in Seq(Entry), edited \in BOOLEAN :
        Live(b) /\ threads[b].parent = c /\ copied[b] = s /\ threads[b].edited = edited =>
            /\ threads[c].status # "absent"
            /\ Live(c) => Fits(c, s, edited)
            /\ edited => TurnsFit(c, s)
RequestsBranchOnce ==
    \A b, d \in Conversation :
        /\ Live(b) /\ Live(d) /\ threads[b].parent # None
        /\ threads[b].parent = threads[d].parent /\ threads[b].request = threads[d].request
        => b = d

\* How many there are of the positions of k messages.
LEMMA Counting ==
    ASSUME NEW k \in Nat, NEW at, \A i, j \in 1..k : i # j => at[i] # at[j],
           NEW T, \A t \in T : \E i \in 1..k : at[i] = t, \A i \in 1..k : at[i] \in T
    PROVE  Cardinality(T) = k
<1> DEFINE f == [i \in 1..k |-> at[i]]
<1>1. f \in [1..k -> T] /\ \A t \in T : \E i \in 1..k : f[i] = t
  OBVIOUS
<1>2. \A i, j \in 1..k : f[i] = f[j] => i = j
  OBVIOUS
<1> HIDE DEF f
<1>3. f \in Surjection(1..k, T) /\ f \in Injection(1..k, T)
  BY <1>1, <1>2 DEF Surjection, Injection, IsInjective
<1>4. IsFiniteSet(1..k) /\ Cardinality(1..k) = k
  BY FS_Interval
<1>5. Cardinality(T) = Cardinality(1..k)
  BY <1>3, <1>4, FS_Surjection
<1> QED BY <1>4, <1>5

Held(c, s, i) == {j \in 1..i : ~PutIn(c, s[j])}

\* Up to the k-th of its parent's messages a branch holds k of them.
LEMMA CountedUpTo ==
    ASSUME NEW c, NEW s \in Seq(Entry), NEW h, NEW n \in Nat, NEW at \in [1..n -> Nat],
           Aligned(s, c, h, n, at), NEW k \in 0..n, NEW i \in 0..Len(s),
           \A m \in 1..n : at[m] <= i <=> m <= k
    PROVE  Cardinality(Held(c, s, i)) = k
<1>1. Len(s) \in Nat
  OBVIOUS
<1>2. /\ \A m \in 1..n : at[m] \in 1..Len(s) /\ s[at[m]] = h[m] /\ ~PutIn(c, h[m])
      /\ \A l, m \in 1..n : l < m => at[l] < at[m]
      /\ \A p \in 1..Len(s) : ~PutIn(c, s[p]) => \E m \in 1..n : p = at[m]
  BY DEF Aligned
<1>3. ASSUME NEW m \in 1..k
      PROVE  at[m] \in 1..i /\ ~PutIn(c, s[at[m]])
  <2>1. m \in 1..n /\ m <= k
    OBVIOUS
  <2>2. at[m] \in 1..Len(s) /\ ~PutIn(c, s[at[m]]) /\ at[m] <= i
    BY <1>2, <2>1
  <2> QED BY <2>2
<1>4. ASSUME NEW j \in 1..i, ~PutIn(c, s[j])
      PROVE  \E m \in 1..k : j = at[m]
  <2>1. j \in 1..Len(s)
    BY <1>1
  <2>2. PICK m \in 1..n : j = at[m]
    BY <1>2, <1>4, <2>1
  <2>3. m <= k
    BY <2>2
  <2> QED BY <2>2, <2>3
<1>5. /\ \A t \in Held(c, s, i) : \E m \in 1..k : at[m] = t
      /\ \A m \in 1..k : at[m] \in Held(c, s, i)
  BY <1>3, <1>4 DEF Held
<1>6. \A l, m \in 1..k : l # m => at[l] # at[m]
  <2> SUFFICES ASSUME NEW l \in 1..k, NEW m \in 1..k, l # m
               PROVE  at[l] # at[m]
    OBVIOUS
  <2>1. l \in 1..n /\ m \in 1..n /\ at[l] \in Nat /\ at[m] \in Nat
    OBVIOUS
  <2>2. l < m \/ m < l
    BY <2>1
  <2> QED BY <1>2, <2>1, <2>2
<1>7. k \in Nat
  OBVIOUS
<1> QED BY <1>5, <1>6, <1>7, Counting

\* A branch that fits its parent is faithful to it.
LEMMA BranchesHold ==
    ASSUME Queue, ThreadTypes, BranchesFit, RequestsBranchOnce
    PROVE  BranchesAreFaithful
<1> SUFFICES ASSUME NEW b \in Conversation, threads[b].parent # None, Live(b), Live(threads[b].parent)
             PROVE  LET c == threads[b].parent
                        s == copied[b]
                        h == History(c)
                        n == Inherited(b, Len(s)) IN
                    /\ n <= Len(h)
                    /\ \A i \in 1..Len(s) : ~PutIn(c, s[i]) => s[i] = h[Inherited(b, i)]
                    /\ threads[b].edited =>
                         /\ n < Len(h) /\ IsQuestion(h[n + 1])
                         /\ \A i \in 1..Len(s) :
                              LET replies == {j \in 1..Len(s) : s[j].role = "assistant" /\ s[j].run = s[i].run} IN
                              runs[s[i].run].conversation = c /\ IsQuestion(s[i]) => replies = {i + 1}
                    /\ \A d \in Conversation : Live(d) /\ threads[d].parent = c /\ threads[d].request = threads[b].request
                                                 => d = b
  BY Zenon DEF BranchesAreFaithful
<1> DEFINE c == threads[b].parent
           s == copied[b]
           Turned == \A i \in 1..Len(s) :
                       LET replies == {j \in 1..Len(s) : s[j].role = "assistant" /\ s[j].run = s[i].run} IN
                       runs[s[i].run].conversation = c /\ IsQuestion(s[i]) => replies = {i + 1}
<1>12. TurnsFit(c, s) <=> Turned
  BY Zenon DEF TurnsFit, RepliesIn
<1> HIDE DEF Turned
<1>0. c \in Conversation /\ s \in Seq(Entry) /\ c # None /\ Live(b) /\ Live(c)
  BY DEF ThreadTypes
<1>13. Fits(c, s, threads[b].edited) /\ (threads[b].edited => TurnsFit(c, s))
  <2>1. threads[b].edited \in BOOLEAN
    BY DEF ThreadTypes
  <2> QED BY <1>0, <2>1 DEF BranchesFit
<1>14. \A i : Inherited(b, i) = Cardinality(Held(c, s, i))
  BY DEF Inherited, Held
<1>10. \A d \in Conversation :
          Live(d) /\ threads[d].parent = c /\ threads[d].request = threads[b].request => d = b
  BY DEF RequestsBranchOnce
<1> HIDE DEF c, s
<1>2. PICK h \in Seq(Entry) : h = History(c)
  BY <1>0, Histories
<1>11. PICK n \in 0..Len(h) : \E at \in [1..n -> Nat] :
         /\ Aligned(s, c, h, n, at)
         /\ threads[b].edited => n < Len(h) /\ IsQuestion(h[n + 1])
  BY <1>13, <1>2 DEF Fits
<1>3. PICK at \in [1..n -> Nat] :
         /\ Aligned(s, c, h, n, at)
         /\ threads[b].edited => n < Len(h) /\ IsQuestion(h[n + 1])
  BY <1>11
<1>4. n \in Nat /\ Len(h) \in Nat /\ Len(s) \in Nat
  BY <1>0, <1>2
<1>5. /\ \A m \in 1..n : at[m] \in 1..Len(s) /\ s[at[m]] = h[m]
      /\ \A l, m \in 1..n : l < m => at[l] < at[m]
      /\ \A p \in 1..Len(s) : ~PutIn(c, s[p]) => \E m \in 1..n : p = at[m]
  BY <1>3 DEF Aligned
<1>6. s \in Seq(Entry) /\ Aligned(s, c, h, n, at)
  BY <1>0, <1>3
<1>7. Inherited(b, Len(s)) = n
  <2>1. PICK l \in 0..Len(s) : l = Len(s)
    BY <1>4
  <2>2. n \in 0..n /\ \A m \in 1..n : at[m] <= l <=> m <= n
    BY <1>4, <1>5, <2>1
  <2>3. Cardinality(Held(c, s, l)) = n
    BY <1>4, <1>6, <2>2, CountedUpTo, SMTT(20)
  <2> QED BY <1>14, <2>1, <2>3, Zenon
<1>8. ASSUME NEW i \in 1..Len(s), ~PutIn(c, s[i])
      PROVE  s[i] = h[Inherited(b, i)]
  <2>1. PICK k \in 1..n : i = at[k]
    BY <1>5, <1>8
  <2>2. k \in 0..n /\ i \in 0..Len(s)
    BY <1>4, <2>1
  <2>3. ASSUME NEW m \in 1..n
        PROVE  at[m] <= i <=> m <= k
    <3>1. at[m] \in Nat /\ at[k] \in Nat
      OBVIOUS
    <3>2. (m < k => at[m] < at[k]) /\ (k < m => at[k] < at[m])
      BY <1>5
    <3> QED BY <2>1, <3>1, <3>2
  <2>4. PICK l \in 0..Len(s) : l = i
    BY <2>2
  <2>5. k \in 0..n /\ \A m \in 1..n : at[m] <= l <=> m <= k
    BY <2>2, <2>3, <2>4
  <2>6. Cardinality(Held(c, s, l)) = k
    BY <1>4, <1>6, <2>5, CountedUpTo, SMTT(20)
  <2>7. Inherited(b, i) = k
    BY <1>14, <2>4, <2>6, Zenon
  <2> QED BY <1>5, <2>1, <2>7
<1>9. n <= Len(h) /\ (threads[b].edited => n < Len(h) /\ IsQuestion(h[n + 1]))
  BY <1>3, <1>4
<1>15. threads[b].edited => Turned
  BY <1>12, <1>13
<1> QED BY <1>2, <1>7, <1>8, <1>9, <1>10, <1>15, Zenon DEF c, s, Turned

\* No message that a conversation is read with was put into it as a reply of its own runs.
LEMMA HistoryIsNotPutIn ==
    ASSUME Queue, ThreadTypes, CopiesFit, NEW c \in Conversation, NEW p \in 1..Len(History(c))
    PROVE  ~PutIn(c, History(c)[p])
<1>1. CASE runs[History(c)[p].run].conversation # c
  BY <1>1 DEF PutIn
<1>2. CASE \E j \in 1..Len(messages[c]) : History(c)[p] = Saved(messages[c][j])
  <2>1. ~History(c)[p].partial
    BY <1>2 DEF Saved
  <2> QED BY <2>1 DEF PutIn
<1> QED BY <1>1, <1>2, HistoryRuns

\* A derived branch fits, ...
LEMMA DerivedFits ==
    ASSUME Queue, ThreadTypes, CopiesFit, NEW c \in Conversation, NEW i \in 1..Len(History(c))
    PROVE  Fits(c, SubSeq(History(c), 1, i), FALSE)
<1>1. PICK h \in Seq(Entry) : h = History(c)
  BY Histories
<1>2. Len(h) \in Nat /\ i \in 1..Len(h) /\ i \in Nat
  BY <1>1
<1> DEFINE s == SubSeq(h, 1, i)
           at == [k \in 1..i |-> k]
<1>3. Len(s) = i /\ \A k \in 1..i : s[k] = h[k]
  BY <1>2, Slice
<1>4. at \in [1..i -> Nat] /\ \A k \in 1..i : at[k] = k
  BY <1>2
<1> HIDE DEF s, at
<1>5. \A k \in 1..i : ~PutIn(c, h[k])
  BY <1>1, <1>2, HistoryIsNotPutIn
<1>6. Aligned(s, c, h, i, at)
  BY <1>2, <1>3, <1>4, <1>5 DEF Aligned
<1>7. i \in 0..Len(h)
  BY <1>2
<1> QED BY <1>1, <1>4, <1>6, <1>7 DEF Fits, s

\* ... and so does an edited one, ...
LEMMA EditedFits ==
    ASSUME Queue, ThreadTypes, CopiesFit, NEW c \in Conversation, NEW i \in 1..Len(History(c)),
           IsQuestion(History(c)[i])
    PROVE  Fits(c, Restored(c, SubSeq(History(c), 1, i - 1)), TRUE)
<1>1. PICK h \in Seq(Entry) : h = History(c)
  BY Histories
<1>2. PICK n \in Nat : n = i - 1 /\ n \in 0..Len(h) /\ n < Len(h) /\ i = n + 1
  BY <1>1
<1>3. PICK g \in Seq(Entry) : g = SubSeq(h, 1, n)
  <2>1. SubSeq(h, 1, n) \in Seq(Entry)
    BY <1>2, Slice
  <2> QED BY <2>1
<1>4. Len(g) = n /\ \A k \in 1..n : g[k] = h[k] /\ k \in 1..Len(h)
  BY <1>2, <1>3, Slice
<1>5. PICK to \in [1..n -> Nat] : Reads(Restored(c, g), c, g, to)
  BY <1>4, RestoredReads
<1> DEFINE s == Restored(c, g)
           at == [k \in 1..n |-> to[k] + 1]
<1>6. at \in [1..n -> Nat] /\ \A k \in 1..n : at[k] = to[k] + 1 /\ to[k] \in Nat
  OBVIOUS
<1> HIDE DEF s, at
<1>7. /\ \A k \in 1..n :
           /\ to[k] + 1 \in 1..Len(s) /\ s[to[k] + 1] = h[k]
           /\ Interrupted(c, g, h[k]) => s[to[k] + 2] = Partial(h[k].run)
      /\ \A k, m \in 1..n : k < m => to[k] < to[m]
      /\ \A p \in 1..Len(s) : \E k \in 1..n : p = to[k] + 1 \/ (Interrupted(c, g, h[k]) /\ p = to[k] + 2)
  BY <1>4, <1>5 DEF Reads, s
<1>8. \A k \in 1..n : ~PutIn(c, h[k])
  BY <1>1, <1>4, HistoryIsNotPutIn
<1>9. ASSUME NEW p \in 1..Len(s), ~PutIn(c, s[p])
      PROVE  \E k \in 1..n : p = at[k]
  <2>1. PICK k \in 1..n : p = to[k] + 1 \/ (Interrupted(c, g, h[k]) /\ p = to[k] + 2)
    BY <1>7
  <2>2. CASE Interrupted(c, g, h[k]) /\ p = to[k] + 2
    <3>1. s[p] = Partial(h[k].run) /\ runs[h[k].run].conversation = c
      BY <1>7, <2>2 DEF Interrupted
    <3>2. PutIn(c, s[p])
      BY <3>1 DEF PutIn, Partial
    <3> QED BY <1>9, <3>2
  <2> QED BY <1>6, <2>1, <2>2
<1>10. ASSUME NEW k \in 1..n
       PROVE  at[k] \in 1..Len(s) /\ s[at[k]] = h[k]
  BY <1>6, <1>7
<1>12. ASSUME NEW k \in 1..n, NEW m \in 1..n, k < m
       PROVE  at[k] < at[m]
  <2>1. to[k] < to[m]
    BY <1>7, <1>12
  <2>2. at[k] = to[k] + 1 /\ at[m] = to[m] + 1 /\ to[k] \in Nat /\ to[m] \in Nat
    BY <1>6
  <2> QED BY <2>1, <2>2
<1>11. Aligned(s, c, h, n, at)
  BY <1>8, <1>9, <1>10, <1>12 DEF Aligned
<1> QED BY <1>1, <1>2, <1>3, <1>6, <1>11 DEF Fits, s

\* ... with one reply behind each question.
LEMMA EditedTurnsFit ==
    ASSUME Queue, AskedOnce, ThreadTypes, CopiesFit, NEW c \in Conversation, ~Busy(c),
           NEW i \in 1..Len(History(c)), IsQuestion(History(c)[i])
    PROVE  TurnsFit(c, Restored(c, SubSeq(History(c), 1, i - 1)))
<1>1. PICK h \in Seq(Entry) : h = History(c)
  BY Histories
<1>2. PICK n \in Nat : n = i - 1 /\ n \in 0..Len(h) /\ n < Len(h) /\ i = n + 1
  BY <1>1
<1>3. PICK g \in Seq(Entry) : g = SubSeq(h, 1, n)
  <2>1. SubSeq(h, 1, n) \in Seq(Entry)
    BY <1>2, Slice
  <2> QED BY <2>1
<1>4. Len(g) = n /\ \A k \in 1..n : g[k] = h[k] /\ k \in 1..Len(h) /\ g[k] \in Entry
  BY <1>2, <1>3, Slice
<1>5. PICK to \in [1..n -> Nat] : Reads(Restored(c, g), c, g, to)
  BY <1>4, RestoredReads
<1>6. PICK s \in Seq(Entry) : s = Restored(c, g)
  BY RestoredReads
<1>7. Reads(s, c, g, to)
  BY <1>5, <1>6
<1> SUFFICES ASSUME NEW j \in 1..Len(s), runs[s[j].run].conversation = c, IsQuestion(s[j])
             PROVE  RepliesIn(s, s[j].run) = {j + 1}
  BY <1>1, <1>2, <1>3, <1>6 DEF TurnsFit
<1>8. PICK r \in Run : r = s[j].run
  <2>1. s[j] \in Entry
    OBVIOUS
  <2> QED BY <2>1, Entries
<1>9. TurnsOf(g, r)
  <2>1. runs[r].conversation = c
    BY <1>8
  <2>2. TurnsOf(History(c), r)
    BY <2>1, OwnTurns DEF TurnsOf
  <2>3. TurnsOf(h, r)
    BY <1>1, <2>2
  <2> QED BY <1>4, <2>3 DEF TurnsOf
<1>10. s[j] = Said(r)
  <2>1. PICK k \in 1..n : j = to[k] + 1 \/ (Interrupted(c, g, g[k]) /\ j = to[k] + 2)
    BY <1>4, <1>7 DEF Reads
  <2>2. CASE j = to[k] + 1
    <3>1. s[j] = g[k]
      BY <1>4, <1>7, <2>2 DEF Reads
    <3> QED BY <1>4, <1>8, <1>9, <3>1 DEF TurnsOf
  <2>3. CASE Interrupted(c, g, g[k]) /\ j = to[k] + 2
    <3>1. s[j] = Partial(g[k].run)
      BY <1>4, <1>7, <2>3 DEF Reads
    <3> QED BY <3>1 DEF Partial, IsQuestion
  <2> QED BY <2>1, <2>2, <2>3
<1>11. runs[r].status \in Ended
  <2>1. runs[r].status # "absent" /\ ~Active(r)
    BY <1>8, ConstantsAssumption DEF Queue, Rows, RowInv, Busy
  <2> QED BY <2>1 DEF Active, Queue, TypeOK, Row, Status
<1>12. ASSUME NEW q \in 1..n, g[q] = Said(r), runs[r].status = "succeeded"
       PROVE  q + 1 \in 1..n /\ g[q + 1].role = "assistant" /\ g[q + 1].run = r
  <2>1. h[q] = Said(r) /\ q \in 1..Len(h)
    BY <1>4, <1>12
  <2>2. q + 1 \in 1..Len(h) /\ h[q + 1].role = "assistant" /\ h[q + 1].run = r
    BY <1>1, <1>8, <1>12, <2>1, OwnReply
  <2>3. h[n + 1].role = "user"
    BY <1>1, <1>2 DEF IsQuestion
  <2>4. q # n
    BY <2>2, <2>3
  <2>5. q + 1 \in 1..n
    BY <2>4
  <2> QED BY <1>4, <2>2, <2>5
<1>13. to \in [1..Len(g) -> Nat] /\ runs[r].conversation = c
  BY <1>4, <1>8
<1>14. AnswersOf(g, r)
  BY <1>4, <1>12 DEF AnswersOf
<1>15. RepliesIn(s, r) = {j + 1}
  BY <1>7, <1>9, <1>10, <1>11, <1>13, <1>14, EndedTurnIsRead
<1> QED BY <1>8, <1>15

\* While a conversation lives its messages stay, and more may follow.
LEMMA HistoryGrows ==
    ASSUME Queue, Queue', ThreadTypes, [ConversationsNext]_conversationVars,
           NEW c \in Conversation, copied'[c] = copied[c]
    PROVE  /\ Len(History(c)) \in Nat /\ Len(History(c)') \in Nat /\ Len(History(c)) <= Len(History(c)')
           /\ \A k \in 1..Len(History(c)) : History(c)'[k] = History(c)[k]
<1>1. PICK s \in Seq(Entry), ms \in Seq(Message) : s = copied[c] /\ ms = messages[c]
  BY Histories
<1>2. PICK ns \in Seq(Message) : ns = messages'[c]
  BY DEF Queue, TypeOK
<1>3. Len(ms) <= Len(ns) /\ \A j \in 1..Len(ms) : ns[j] = ms[j]
  <2>1. [Next]_vars
    BY ThreadStepIsQueues DEF conversationVars
  <2>2. CASE UNCHANGED <<messages, through>>
    BY <1>1, <1>2, <2>2
  <2>3. ASSUME NEW d \in Conversation, NEW r \in Run, Questioned(d, r) \/ Replied(d, r)
        PROVE  Len(ms) <= Len(ns) /\ \A j \in 1..Len(ms) : ns[j] = ms[j]
    <3>1. PICK n \in Nat : Longer(d, r, n)
      BY <2>3, Written DEF Queue
    <3>2. CASE d = c
      BY <1>1, <1>2, <3>1, <3>2 DEF Longer
    <3>3. CASE d # c
      <4>1. ns = ms
        BY <1>1, <1>2, <3>1, <3>3 DEF Longer
      <4> QED BY <4>1
    <3> QED BY <3>2, <3>3
  <2> QED BY <2>1, <2>2, <2>3, WritesOnce DEF Queue
<1>4. History(c) = Whole(s, ms) /\ History(c)' = Whole(s, ns)
  BY <1>1, <1>2, HistoryIsWhole
<1>5. /\ Len(Whole(s, ms)) = Len(s) + Len(ms) /\ Len(Whole(s, ns)) = Len(s) + Len(ns)
      /\ Len(s) \in Nat /\ Len(ms) \in Nat /\ Len(ns) \in Nat
      /\ \A i \in 1..Len(s) : Whole(s, ms)[i] = s[i] /\ Whole(s, ns)[i] = s[i]
      /\ \A j \in 1..Len(ms) : Whole(s, ms)[Len(s) + j] = Saved(ms[j])
      /\ \A j \in 1..Len(ns) : Whole(s, ns)[Len(s) + j] = Saved(ns[j])
      /\ \A p \in 1..Len(Whole(s, ms)) :
           p \in 1..Len(s) \/ \E j \in 1..Len(ms) : p = Len(s) + j
  BY WholeFacts
<1>6. ASSUME NEW k \in 1..Len(Whole(s, ms))
      PROVE  Whole(s, ns)[k] = Whole(s, ms)[k]
  <2>1. CASE k \in 1..Len(s)
    BY <1>5, <2>1
  <2>2. ASSUME NEW j \in 1..Len(ms), k = Len(s) + j
        PROVE  Whole(s, ns)[k] = Whole(s, ms)[k]
    <3>1. j \in 1..Len(ns) /\ ns[j] = ms[j]
      BY <1>3, <1>5
    <3> QED BY <1>5, <2>2, <3>1
  <2> QED BY <1>5, <2>1, <2>2
<1>7. Len(Whole(s, ms)) \in Nat /\ Len(Whole(s, ns)) \in Nat /\ Len(Whole(s, ms)) <= Len(Whole(s, ns))
  BY <1>3, <1>5
<1> QED BY <1>4, <1>6, <1>7, Zenon

\* Whether a message was put in stays as it is.
LEMMA PutInStays ==
    ASSUME Queue, [ConversationsNext]_conversationVars, NEW c, NEW m, m.run \in Run, runs[m.run].status # "absent"
    PROVE  PutIn(c, m)' <=> PutIn(c, m)
<1>1. runs'[m.run].conversation = runs[m.run].conversation
  BY RunsStay DEF SameTurn
<1> QED BY <1>1 DEF PutIn

\* A branch goes on fitting a parent that lives, ...
LEMMA FitsStays ==
    ASSUME Queue, Queue', ThreadTypes, CopiesFit, [ConversationsNext]_conversationVars,
           NEW c \in Conversation, copied'[c] = copied[c],
           NEW s \in Seq(Entry), \A p \in 1..Len(s) : runs[s[p].run].status # "absent",
           NEW edited, Fits(c, s, edited)
    PROVE  Fits(c, s, edited)'
<1>1. PICK h \in Seq(Entry) : h = History(c)
  BY Histories
<1>2. PICK n \in 0..Len(h) : \E at \in [1..n -> Nat] :
         /\ Aligned(s, c, h, n, at)
         /\ edited => n < Len(h) /\ IsQuestion(h[n + 1])
  BY <1>1 DEF Fits
<1>3. PICK at \in [1..n -> Nat] :
         /\ Aligned(s, c, h, n, at)
         /\ edited => n < Len(h) /\ IsQuestion(h[n + 1])
  BY <1>2
<1>4. PICK new : new = History(c)'
  OBVIOUS
<1>5. Len(h) \in Nat /\ Len(new) \in Nat /\ Len(h) <= Len(new) /\ \A k \in 1..Len(h) : new[k] = h[k]
  BY <1>1, <1>4, HistoryGrows
<1>6. \A k \in 1..n : k \in 1..Len(h)
  BY <1>5
<1>7. ASSUME NEW k \in 1..n
      PROVE  at[k] \in 1..Len(s) /\ s[at[k]] = new[k] /\ ~PutIn(c, new[k])'
  <2>1. at[k] \in 1..Len(s) /\ s[at[k]] = h[k] /\ ~PutIn(c, h[k])
    BY <1>3 DEF Aligned
  <2>2. h[k].run \in Run /\ runs[h[k].run].status # "absent"
    BY <1>1, <1>6, HistoryRuns
  <2>3. PICK m : m = h[k]
    OBVIOUS
  <2>4. ~PutIn(c, m)'
    BY <2>1, <2>2, <2>3, PutInStays
  <2>5. new[k] = m
    BY <1>5, <1>6, <2>3
  <2> QED BY <2>1, <2>3, <2>4, <2>5
<1>8. ASSUME NEW p \in 1..Len(s), ~PutIn(c, s[p])'
      PROVE  \E k \in 1..n : p = at[k]
  <2>1. s[p] \in Entry
    OBVIOUS
  <2>2. s[p].run \in Run /\ runs[s[p].run].status # "absent"
    BY <2>1, Entries
  <2>3. ~PutIn(c, s[p])
    BY <1>8, <2>2, PutInStays
  <2> QED BY <1>3, <2>3 DEF Aligned
<1>9. \A k, m \in 1..n : k < m => at[k] < at[m]
  BY <1>3 DEF Aligned
<1>10. Aligned(s, c, new, n, at)'
  BY <1>7, <1>8, <1>9 DEF Aligned
<1>11. n \in 0..Len(new) /\ (edited => n < Len(new) /\ IsQuestion(new[n + 1]))
  <2>1. n \in 0..Len(new) /\ (n < Len(h) => n < Len(new) /\ n + 1 \in 1..Len(h))
    BY <1>5
  <2> QED BY <1>3, <1>5, <2>1
<1> QED BY <1>4, <1>10, <1>11 DEF Fits, IsQuestion

\* ... and its turns remain what they were.
LEMMA TurnsFitStays ==
    ASSUME Queue, [ConversationsNext]_conversationVars, NEW c \in Conversation,
           NEW s \in Seq(Entry), \A p \in 1..Len(s) : runs[s[p].run].status # "absent", TurnsFit(c, s)
    PROVE  TurnsFit(c, s)'
<1> SUFFICES ASSUME NEW i \in 1..Len(s), runs'[s[i].run].conversation = c, IsQuestion(s[i])
             PROVE  RepliesIn(s, s[i].run) = {i + 1}
  BY DEF TurnsFit, RepliesIn, IsQuestion
<1>1. s[i] \in Entry
  OBVIOUS
<1>2. s[i].run \in Run
  BY <1>1, Entries
<1>3. runs[s[i].run].conversation = c
  BY <1>2, RunsStay DEF SameTurn
<1> QED BY <1>3 DEF TurnsFit

\* What a branch begins as: taken from a conversation that lives, for a request of its own.
Begins(b, c, q, i) ==
    /\ Live(c) /\ threads[b].status = "absent" /\ ~Branched(c, q)
    /\ threads'[b].parent = c /\ threads'[b].request = q
    /\ \A d \in Conversation \ {b} : threads'[d] = threads[d] /\ copied'[d] = copied[d]
    /\ \/ threads'[b].edited = FALSE /\ copied'[b] = SubSeq(History(c), 1, i)
       \/ /\ threads'[b].edited = TRUE /\ copied'[b] = Restored(c, SubSeq(History(c), 1, i - 1))
          /\ ~Busy(c) /\ IsQuestion(History(c)[i])

LEMMA NewBranch ==
    ASSUME ThreadTypes, [ConversationsNext]_conversationVars, NEW b \in Conversation,
           threads[b].status = "absent", Live(b)', threads'[b].parent # None
    PROVE  \E c \in Conversation, q \in Request : \E i \in 1..Len(History(c)) : Begins(b, c, q, i)
<1> DEFINE Goal == \E c \in Conversation, q \in Request : \E i \in 1..Len(History(c)) : Begins(b, c, q, i)
<1>1. threads'[b] # threads[b] /\ threads'[b].parent # None
  BY DEF Live
<1>2. \A d \in Conversation : ~Create(d)
  BY <1>1 DEF Create, Thread, ThreadTypes
<1>3. \A d \in Conversation : ~Delete(d)
  <2> SUFFICES ASSUME NEW d \in Conversation, Delete(d) PROVE FALSE
    OBVIOUS
  <2>1. CASE d = b
    BY <2>1 DEF Delete, Live
  <2>2. CASE d # b
    BY <1>1, <2>2 DEF Delete, ThreadTypes
  <2> QED BY <2>1, <2>2
<1>4. \A d, c \in Conversation, q \in Request : ~Reset(c, q, d)
  BY <1>1 DEF Reset, Thread, ThreadTypes
<1>5. ASSUME NEW d \in Conversation, NEW c \in Conversation, NEW q \in Request, NEW i \in 1..Len(History(c)),
             Derive(c, i, q, d)
      PROVE  Goal
  <2>1. d = b
    BY <1>1, <1>5 DEF Derive, ThreadTypes
  <2>2. Begins(b, c, q, i)
    BY <1>5, <2>1 DEF Derive, Begins, Thread, ThreadTypes
  <2> QED BY <2>2
<1>6. ASSUME NEW d \in Conversation, NEW c \in Conversation, NEW q \in Request, NEW i \in 1..Len(History(c)),
             NEW r \in Run, NEW command \in BOOLEAN, Edit(c, i, q, d, r, command)
      PROVE  Goal
  <2>1. d = b
    BY <1>1, <1>6 DEF Edit, ThreadTypes
  <2>2. Begins(b, c, q, i)
    BY <1>6, <2>1 DEF Edit, Begins, Thread, ThreadTypes
  <2> QED BY <2>2
<1>7. \A c, q, r, command : ~Talk(c, q, r, command)
  BY <1>1 DEF Talk
<1>8. \A r : ~(ClaimJob(r) \/ \E t \in 1..runs[r].claims : Work(r, t))
  BY <1>1 DEF ClaimJob, Work
<1>9. ~RestOfQueue /\ ~UNCHANGED conversationVars
  BY <1>1 DEF RestOfQueue, conversationVars, threadVars
<1> HIDE DEF Goal
<1>10. Goal
  BY <1>2, <1>3, <1>4, <1>5, <1>6, <1>7, <1>8, <1>9 DEF ConversationsNext
<1> QED BY <1>10 DEF Goal

\* What has begun stays in the table.
LEMMA ThreadsStay ==
    ASSUME ThreadTypes, [ConversationsNext]_conversationVars, NEW c \in Conversation, threads[c].status # "absent"
    PROVE  threads'[c].status # "absent"
<1>1. \A d \in Conversation : Create(d) \/ Delete(d) => threads'[c].status # "absent"
  BY DEF Create, Delete, Thread, ThreadTypes
<1>2. \A d, b, q : Reset(b, q, d) => threads'[c].status # "absent"
  BY DEF Reset, Thread, ThreadTypes
<1>3. \A d, b, q, i : Derive(b, i, q, d) => threads'[c].status # "absent"
  BY DEF Derive, Thread, ThreadTypes
<1>4. \A d, b, q, i, r, command : Edit(b, i, q, d, r, command) => threads'[c].status # "absent"
  BY DEF Edit, Thread, ThreadTypes
<1>5. \A b, q, r, command : Talk(b, q, r, command) => threads'[c].status # "absent"
  BY DEF Talk
<1>6. \A r : ClaimJob(r) \/ (\E t \in 1..runs[r].claims : Work(r, t)) => threads'[c].status # "absent"
  BY DEF ClaimJob, Work
<1>7. RestOfQueue \/ UNCHANGED conversationVars => threads'[c].status # "absent"
  BY DEF RestOfQueue, conversationVars, threadVars
<1> QED BY <1>1, <1>2, <1>3, <1>4, <1>5, <1>6, <1>7 DEF ConversationsNext

\* A step keeps the branches fitting their parents: one that is new fits, and what fits
\* goes on doing so.
LEMMA KeepsBranchesFit ==
    ASSUME Queue, Queue', AskedOnce, ThreadTypes, ThreadTypes', CopiesFit, BranchesFit,
           [ConversationsNext]_conversationVars
    PROVE  BranchesFit'
<1> SUFFICES ASSUME NEW b \in Conversation, NEW c \in Conversation, NEW s \in Seq(Entry), NEW edited \in BOOLEAN,
                    Live(b)', threads'[b].parent = c, copied'[b] = s, threads'[b].edited = edited
             PROVE  /\ threads'[c].status # "absent"
                    /\ Live(c)' => Fits(c, s, edited)'
                    /\ edited => TurnsFit(c, s)'
  BY DEF BranchesFit
<1>0. c # None
  BY ConstantsAssumption
<1>2. CASE threads[b].status # "absent"
  <2>1. Live(b) /\ c = threads[b].parent /\ s = copied[b] /\ edited = threads[b].edited
    BY <1>2, ThreadStep
  <2>2. threads[c].status # "absent" /\ (Live(c) => Fits(c, s, edited)) /\ (edited => TurnsFit(c, s))
    BY <1>0, <2>1 DEF BranchesFit
  <2>3. \A p \in 1..Len(s) : runs[s[p].run].status # "absent"
    BY <2>1 DEF CopiesFit
  <2>4. threads'[c].status # "absent"
    BY <2>2, ThreadsStay
  <2>5. ASSUME Live(c)'
        PROVE  Fits(c, s, edited)'
    <3>1. Live(c) /\ copied'[c] = copied[c]
      BY <2>2, <2>5, ThreadStep
    <3> QED BY <2>2, <2>3, <3>1, FitsStays
  <2>6. edited => TurnsFit(c, s)'
    BY <2>2, <2>3, TurnsFitStays
  <2> QED BY <2>4, <2>5, <2>6
<1>3. CASE threads[b].status = "absent"
  <2>1. PICK d \in Conversation, q \in Request : \E i \in 1..Len(History(d)) : Begins(b, d, q, i)
    BY <1>0, <1>3, NewBranch
  <2>2. PICK i \in 1..Len(History(c)) : Begins(b, c, q, i)
    BY <2>1 DEF Begins
  <2>3. Live(c) /\ c # b /\ threads'[c] = threads[c] /\ copied'[c] = copied[c]
    BY <2>2 DEF Begins, Live
  <2>4. threads'[c].status # "absent"
    BY <2>3 DEF Live
  <2>5. \A p \in 1..Len(s) : runs[s[p].run].status # "absent"
    BY <2>2, CopiesOfRuns DEF Begins
  <2>6. Fits(c, s, edited) /\ (edited => TurnsFit(c, s))
    BY <2>2, DerivedFits, EditedFits, EditedTurnsFit DEF Begins
  <2>7. Fits(c, s, edited)'
    BY <2>3, <2>5, <2>6, FitsStays
  <2>8. edited => TurnsFit(c, s)'
    BY <2>5, <2>6, TurnsFitStays
  <2> QED BY <2>4, <2>7, <2>8
<1> QED BY <1>2, <1>3

\* No step makes a second branch for one request of its parent.
LEMMA KeepsRequestsBranchOnce ==
    ASSUME ThreadTypes, RequestsBranchOnce, [ConversationsNext]_conversationVars
    PROVE  RequestsBranchOnce'
<1> SUFFICES ASSUME NEW b \in Conversation, NEW d \in Conversation, Live(b)', Live(d)', threads'[b].parent # None,
                    threads'[b].parent = threads'[d].parent, threads'[b].request = threads'[d].request, b # d
             PROVE  FALSE
  BY DEF RequestsBranchOnce, Live
<1>1. ASSUME NEW x \in Conversation, NEW y \in Conversation, {x, y} = {b, d}, threads[x].status = "absent"
      PROVE  FALSE
  <2>0. Live(x)' /\ threads'[x].parent # None /\ y \in Conversation \ {x}
    BY <1>1
  <2>1. PICK c \in Conversation, q \in Request : \E i \in 1..Len(History(c)) : Begins(x, c, q, i)
    BY <1>1, <2>0, NewBranch
  <2>2. PICK i \in 1..Len(History(c)) : Begins(x, c, q, i)
    BY <2>1
  <2>4. ~Branched(c, q) /\ threads'[x].parent = c /\ threads'[x].request = q /\ threads'[y] = threads[y]
    BY <2>0, <2>2 DEF Begins
  <2>3. Live(y) /\ threads[y].parent = c /\ threads[y].request = q
    BY <1>1, <2>4 DEF Live
  <2> QED BY <2>3, <2>4 DEF Branched
<1>2. CASE threads[b].status # "absent" /\ threads[d].status # "absent"
  <2>1. Live(b) /\ Live(d) /\ threads'[b] = threads[b] /\ threads'[d] = threads[d]
    BY <1>2, ThreadStep
  <2> QED BY <2>1 DEF RequestsBranchOnce
<1> QED BY <1>1, <1>2

\* A branch begins with its parent's messages, none missing and none changed, and an edited one
\* with one reply behind each question: whatever the two have gone through since.
THEOREM BranchesStandByTheirParents == ConversationsSpec => []BranchesAreFaithful
<1>1. ConversationsInit => BranchesFit /\ RequestsBranchOnce
  BY DEF ConversationsInit, BranchesFit, RequestsBranchOnce, Live, NoThread
<1>2. /\ Queue /\ Queue' /\ AskedOnce /\ Threads /\ Threads' /\ BranchesFit /\ RequestsBranchOnce
      /\ [ConversationsNext]_conversationVars
      => (BranchesFit /\ RequestsBranchOnce)'
  BY KeepsBranchesFit, KeepsRequestsBranchOnce DEF Threads
<1>3. ConversationsSpec => []AskedOnce
  BY ConversationsAreAQueue, QueueAsks, PTL
<1>4. Queue /\ Threads /\ BranchesFit /\ RequestsBranchOnce => BranchesAreFaithful
  BY BranchesHold DEF Threads
<1> QED BY <1>1, <1>2, <1>3, <1>4, ThreadsStand, PTL DEF ConversationsSpec

----------------------------------------------------------------------------
(* Workers: they do nothing to the rows that the queue does not allow. *)

\* A request under a lease that is held is one of the requests the queue takes.
LEMMA HeldIsIssued ==
    ASSUME TypeOK, Rows, NEW r \in Run, NEW t \in Lease, Holds(r, t)
    PROVE  t \in 1..runs[r].claims
<1>1. runs[r].claims = t /\ runs[r].claims \in Nat
  BY DEF Holds, TypeOK, Row, Rows, RowInv
<1> QED BY <1>1 DEF Lease

LEMMA Served ==
    ASSUME TypeOK, Rows, NEW r \in Run, NEW t \in Lease, RuntimeRequest(r, t), Holds(r, t)
    PROVE  Next
BY HeldIsIssued DEF Next

\* Every step of the workers is a step of the queue or leaves its rows alone.
LEMMA WorkerStepIsQueues ==
    ASSUME TypeOK, Rows, [AgentNext]_agentVars
    PROVE  [Next]_vars
<1>1. CASE UNCHANGED agentVars
  BY <1>1 DEF agentVars
<1>2. ASSUME NEW r \in Run, TakeJob(r) \/ Clock(r)
      PROVE  Next
  BY <1>2 DEF TakeJob, Clock, Next
<1>3. ASSUME NEW r \in Run, NEW t \in Lease, WorkerStep(r, t)
      PROVE  [Next]_vars
  <2> DEFINE Good == [Next]_vars
  <2>1. CASE HeartbeatAnswered(r, t) \/ HeartbeatLost(r, t)
    <3>1. Renew(r, t) \/ UNCHANGED vars
      BY <2>1 DEF HeartbeatAnswered, HeartbeatLost
    <3> QED BY <3>1, Served DEF RuntimeRequest, Renew
  <2>2. CASE Save(r, t)
    BY <2>2, Served DEF Save, SaveSnapshot, MayTask, RuntimeRequest
  <2>3. CASE Emit(r, t)
    <3>1. AppendEvent(r, t, Len(events[r])) \/ UNCHANGED vars
      BY <2>3 DEF Emit
    <3>2. ASSUME AppendEvent(r, t, Len(events[r])) PROVE Next
      <4>1. Len(events[r]) \in 0..MaxSeq
        BY <3>2, ConstantsAssumption DEF AppendEvent, TypeOK
      <4> QED BY <3>2, <4>1, Served DEF AppendEvent, RuntimeRequest
    <3> QED BY <3>1, <3>2
  <2>4. CASE Answer(r, t) \/ Fail(r, t) \/ Crash(r, t)
    BY <2>4 DEF Answer, Fail, Crash
  <2>5. CASE Finish(r, t)
    <3>1. FinishSucceeded(r, t) \/ FinishUnanswered(r, t, "succeeded") \/ UNCHANGED vars
      BY <2>5 DEF Finish
    <3> QED BY <3>1, Served DEF RuntimeRequest, FinishSucceeded, FinishUnanswered, Ended
  <2>6. CASE Report(r, t)
    <3>1. \/ FinishUnanswered(r, t, "cancelled") \/ FinishUnanswered(r, t, "failed")
          \/ \E s \in Run, ticks \in Budget..(Budget + Window) : FinishOverflow(r, t, s, ticks)
          \/ UNCHANGED vars
      BY <2>6 DEF Report
    <3> QED BY <3>1, Served DEF RuntimeRequest, FinishOverflow, FinishUnanswered, Ended
  <2>7. ASSUME NEW k \in Call, ToolCall(r, t, k)
        PROVE  Good
    <3>1. \/ ApprovalRequest(r, t, k) \/ ApprovalPoll(r, t, k) \/ ToolStart(r, t, k)
          \/ \E outcome \in {"succeeded", "failed"} : ToolFinish(r, t, k, outcome)
          \/ UNCHANGED vars
      BY <2>7 DEF ToolCall, Begin, Ask, Poll, Start, Execute, Record
    <3> QED BY <3>1, Served DEF RuntimeRequest, ApprovalRequest, ApprovalPoll, ToolStart, ToolFinish, MayTask
  <2> QED BY <1>3, <2>1, <2>2, <2>3, <2>4, <2>5, <2>6, <2>7 DEF WorkerStep
<1>4. ASSUME NEW c \in Conversation, NEW mode \in Mode, SetPolicy(c, mode)
      PROVE  UNCHANGED vars
  BY <1>4 DEF SetPolicy
<1>5. CASE Elsewhere
  BY <1>5 DEF Elsewhere, Next
<1> QED BY <1>1, <1>2, <1>3, <1>4, <1>5 DEF AgentNext

\* Whatever workers and the network do, the rows go through a behaviour of the queue.
THEOREM WorkersObeyTheQueue == AgentSpec => Spec
<1>1. AgentInit => Init /\ TypeOK /\ Rows
  BY InitTypes DEF AgentInit
<1>2. TypeOK /\ Rows /\ [AgentNext]_agentVars => (TypeOK /\ Rows)' /\ [Next]_vars
  BY WorkerStepIsQueues, NextKeepsTypes
<1> QED BY <1>1, <1>2, PTL DEF AgentSpec, Spec

\* So nothing a former worker wrote stands behind its successor's events, ...
THEOREM WorkersAreFenced == AgentSpec => []FencedByLease
BY WorkersObeyTheQueue, RecoveryIsClean, PTL

\* ... and what a conversation observes of its runs, workers and network included,
\* is their life cycle.
THEOREM WorkersImplementLifecycle == AgentSpec => ImplementsLifecycle
BY WorkersObeyTheQueue, QueueImplementsLifecycle, PTL

----------------------------------------------------------------------------
(* Single workers: what each answer, abort or report leaves of one. *)

LEMMA NobodyWorks == Nobody \in Worker
BY DEF Nobody, Worker, CallStage, Settled

LEMMA FreshWorker ==
    ASSUME NEW mode \in Mode, NEW ticks \in Nat
    PROVE  /\ Fresh(mode, ticks) \in Worker
           /\ Fresh(mode, ticks).mode = mode
           /\ Fresh(mode, ticks).stage = "executing"
           /\ Fresh(mode, ticks).calls = [k \in Call |-> "idle"]
BY DEF Fresh, Nobody, Worker, CallStage, Settled

\* Two workers in the same place of every call, under the same mode.
SameCalls(w, new) == new.calls = w.calls /\ new.mode = w.mode

LEMMA StoppedWorker ==
    ASSUME NEW w \in Worker, NEW new \in {Gone(w), Stop(w), Cancelled(w), [w EXCEPT !.muted = TRUE],
                                          [w EXCEPT !.stage = "finishing"]}
    PROVE  new \in Worker /\ SameCalls(w, new)
<1>1. CASE new = Gone(w)
  BY <1>1 DEF Gone, Nobody, Worker, SameCalls
<1>2. CASE new \in {Stop(w), Cancelled(w), [w EXCEPT !.muted = TRUE], [w EXCEPT !.stage = "finishing"]}
  BY <1>2 DEF Stop, Cancelled, Worker, SameCalls
<1> QED BY <1>1, <1>2

LEMMA ReportingWorker ==
    ASSUME NEW w \in Worker, NEW why \in {"model", "observation", "other"}
    PROVE  Reporting(w, why) \in Worker /\ SameCalls(w, Reporting(w, why)) /\ Reporting(w, why).stage = "reporting"
BY DEF Reporting, Worker, SameCalls

LEMMA AgedWorker ==
    ASSUME NEW w \in Worker
    PROVE  Aged(w) \in Worker /\ SameCalls(w, Aged(w)) /\ Aged(w).stage = w.stage
<1>1. Less(w.timeLeft) \in Nat
  BY DEF Less, Worker
<1>2. w.stopped \in BOOLEAN
  BY DEF Worker
<1> QED BY <1>1, <1>2 DEF Aged, Worker, SameCalls

LEMMA StoppedStage ==
    ASSUME NEW w \in Worker
    PROVE  /\ \A new \in {Stop(w), Cancelled(w), [w EXCEPT !.muted = TRUE]} :
                  new.stage = w.stage
           /\ Gone(w).stage = "gone"
           /\ [w EXCEPT !.stage = "finishing"].stage = "finishing"
BY DEF Stop, Cancelled, Gone, Nobody, Worker

\* A call moves alone.
LEMMA CallAtWorker ==
    ASSUME NEW w \in Worker, NEW k \in Call, NEW s \in CallStage
    PROVE  /\ CallAt(w, k, s) \in Worker
           /\ CallAt(w, k, s).mode = w.mode
           /\ CallAt(w, k, s).stage = w.stage
           /\ CallAt(w, k, s).calls[k] = s
           /\ \A j \in Call \ {k} : CallAt(w, k, s).calls[j] = w.calls[j]
BY DEF CallAt, Worker

LEMMA UncertainWorker ==
    ASSUME NEW w \in Worker, NEW k \in Call
    PROVE  /\ Uncertain(w, k) \in Worker
           /\ Uncertain(w, k).mode = w.mode
           /\ Uncertain(w, k).stage = w.stage
           /\ Uncertain(w, k).calls[k] = "uncertain"
           /\ \A j \in Call \ {k} : Uncertain(w, k).calls[j] = w.calls[j]
BY DEF Uncertain, Worker, CallStage

\* A call that failed is over, whether or not the worker learned of a cancel.
LEMMA FailedWorker ==
    ASSUME NEW w \in Worker, NEW k \in Call,
           NEW new \in {CallAt(w, k, "over"), Cancelled(CallAt(w, k, "over"))}
    PROVE  /\ new \in Worker
           /\ new.mode = w.mode
           /\ new.stage = w.stage
           /\ new.calls[k] = "over"
           /\ \A j \in Call \ {k} : new.calls[j] = w.calls[j]
<1> DEFINE over == CallAt(w, k, "over")
<1>1. /\ over \in Worker /\ over.mode = w.mode /\ over.stage = w.stage
      /\ over.calls[k] = "over" /\ \A j \in Call \ {k} : over.calls[j] = w.calls[j]
  BY CallAtWorker DEF CallStage, Settled
<1> HIDE DEF over
<1>2. /\ Cancelled(over) \in Worker /\ SameCalls(over, Cancelled(over))
      /\ Cancelled(over).stage = over.stage
  BY <1>1, StoppedWorker, StoppedStage
<1> QED BY <1>1, <1>2 DEF SameCalls, over

----------------------------------------------------------------------------
(* What a step does to the calls of all workers. *)

\* A worker that sends in nothing but its report, or nothing any more.
Done == {"reporting", "gone"}

\* A worker that a step gives or takes nothing of its calls.
Still(r, t) ==
    /\ workers'[r][t] \in Worker
    /\ SameCalls(workers[r][t], workers'[r][t])
    /\ workers'[r][t].stage = "finishing" =>
         workers[r][t].stage = "finishing" \/ \A k \in Call : Stage(r, t, k) \in Settled
    /\ workers[r][t].stage \in Done => workers'[r][t].stage \in Done

\* A lease handed out: its worker starts, or its answer was lost.
Handed(r, t) ==
    /\ runs[r].status = "queued" /\ t = runs[r].claims + 1
    /\ workers'[r][t] \in Worker
    /\ workers'[r][t].stage # "finishing"
    /\ \A k \in Call : workers'[r][t].calls[k] = "idle"

\* Where a call goes, and what becomes of its receipt and its effects.
To(r, t, k) == workers'[r][t].calls[k]
SameReceipt(r, k) == receipts'[r][k] = receipts[r][k]
SameEffects(r, k) == effects'[r][k] = effects[r][k]

Asks(r, t, k) ==
    /\ Stage(r, t, k) \in {"idle", "asking", "waiting"}
    /\ SameReceipt(r, k) /\ SameEffects(r, k)
    /\ To(r, t, k) \in {"asking", "waiting", "starting", "over"}
    /\ Stage(r, t, k) = "idle" => /\ workers[r][t].stage = "executing"
                                  /\ To(r, t, k) = "asking" => workers[r][t].mode = "ask"
                                  /\ To(r, t, k) # "waiting"
    /\ To(r, t, k) = "starting" =>
         \/ Stage(r, t, k) = "idle" /\ (k \notin Writes \/ workers[r][t].mode = "auto")
         \/ Stage(r, t, k) # "idle" /\ gates'[r][k] = "approved"

Starts(r, t, k) ==
    /\ Stage(r, t, k) = "starting" /\ SameEffects(r, k)
    /\ \/ SameReceipt(r, k) /\ To(r, t, k) \in {"over", "uncertain"}
       \/ /\ Holds(r, t) /\ receipts[r][k] = "none" /\ receipts'[r][k] = "running"
          /\ To(r, t, k) \in {"starting", "claimed"}

Executes(r, t, k) ==
    /\ Stage(r, t, k) = "claimed" /\ Alive(r, t) /\ SameReceipt(r, k)
    /\ \/ \E threw \in BOOLEAN :
             /\ effects'[r][k] = Append(effects[r][k], [lease |-> t, threw |-> threw])
             /\ To(r, t, k) = IF threw THEN "threw" ELSE "returned"
       \/ SameEffects(r, k) /\ To(r, t, k) = "threw"

Records(r, t, k) ==
    /\ Stage(r, t, k) \in {"returned", "threw"} /\ SameEffects(r, k)
    /\ \/ SameReceipt(r, k) /\ To(r, t, k) = "over" /\ (Stage(r, t, k) = "threw" \/ receipts[r][k] # "running")
       \/ SameReceipt(r, k) /\ To(r, t, k) = "uncertain" /\ Stage(r, t, k) = "returned"
       \/ /\ receipts[r][k] = "running"
          /\ receipts'[r][k] = IF Stage(r, t, k) = "returned" THEN "succeeded" ELSE "failed"
          /\ To(r, t, k) \in {Stage(r, t, k), "over"}

Advances(r, t, k) == Asks(r, t, k) \/ Starts(r, t, k) \/ Executes(r, t, k) \/ Records(r, t, k)

\* Everything else stands.
MovesAlone(r, t, k) ==
    /\ workers'[r][t] \in Worker
    /\ workers'[r][t].mode = workers[r][t].mode
    /\ workers'[r][t].stage = workers[r][t].stage
    /\ \A j \in Call \ {k} : workers'[r][t].calls[j] = workers[r][t].calls[j]

TouchesOne(r, k) ==
    \A x \in Run, j \in Call : ~(x = r /\ j = k) => SameReceipt(x, j) /\ SameEffects(x, j)

OthersStand(r, t) == \A x \in Run, u \in Lease : ~(x = r /\ u = t) => workers'[x][u] = workers[x][u]

WorkersType == workers \in [Run -> [Lease -> Worker]]
EffectsType == effects \in [Run -> [Call -> Seq(Effect)]]

LEMMA BecomesAlone ==
    ASSUME WorkersType, NEW r \in Run, NEW t \in Lease, NEW w, Becomes(r, t, w)
    PROVE  workers'[r][t] = w /\ OthersStand(r, t)
BY DEF WorkersType, Becomes, OthersStand

\* What the answers to a call make of its worker.
LEMMA CallMovesAlone ==
    ASSUME WorkersType, NEW r \in Run, NEW t \in Lease, NEW k \in Call, NEW s \in CallStage,
           Becomes(r, t, CallAt(workers[r][t], k, s))
    PROVE  MovesAlone(r, t, k) /\ OthersStand(r, t) /\ To(r, t, k) = s
<1>1. workers[r][t] \in Worker
  BY DEF WorkersType
<1>2. workers'[r][t] = CallAt(workers[r][t], k, s) /\ OthersStand(r, t)
  BY BecomesAlone
<1> QED BY <1>1, <1>2, CallAtWorker DEF MovesAlone, To

LEMMA UncertainMovesAlone ==
    ASSUME WorkersType, NEW r \in Run, NEW t \in Lease, NEW k \in Call,
           Becomes(r, t, Uncertain(workers[r][t], k))
    PROVE  MovesAlone(r, t, k) /\ OthersStand(r, t) /\ To(r, t, k) = "uncertain"
<1>1. workers[r][t] \in Worker
  BY DEF WorkersType
<1>2. workers'[r][t] = Uncertain(workers[r][t], k) /\ OthersStand(r, t)
  BY BecomesAlone
<1> QED BY <1>1, <1>2, UncertainWorker DEF MovesAlone, To

LEMMA FailedMovesAlone ==
    ASSUME WorkersType, NEW r \in Run, NEW t \in Lease, NEW k \in Call, FailedCall(r, t, k)
    PROVE  MovesAlone(r, t, k) /\ OthersStand(r, t) /\ To(r, t, k) = "over"
<1> DEFINE w == workers[r][t]
<1>1. w \in Worker
  BY DEF WorkersType
<1>2. PICK new \in {CallAt(w, k, "over"), Cancelled(CallAt(w, k, "over"))} : Becomes(r, t, new)
  BY DEF FailedCall
<1>3. workers'[r][t] = new /\ OthersStand(r, t)
  BY <1>2, BecomesAlone
<1> QED BY <1>1, <1>3, FailedWorker DEF MovesAlone, To

LEMMA SameMovesAlone ==
    ASSUME WorkersType, NEW r \in Run, NEW t \in Lease, NEW k \in Call, UNCHANGED workers
    PROVE  MovesAlone(r, t, k) /\ OthersStand(r, t) /\ To(r, t, k) = Stage(r, t, k)
BY DEF WorkersType, MovesAlone, OthersStand, To, Stage

LEMMA UntouchedCalls ==
    ASSUME UNCHANGED <<receipts, effects>>, NEW r \in Run, NEW k \in Call
    PROVE  TouchesOne(r, k) /\ SameReceipt(r, k) /\ SameEffects(r, k)
BY DEF TouchesOne, SameReceipt, SameEffects

CallMoves(r, t, k) ==
    MovesAlone(r, t, k) /\ OthersStand(r, t) /\ TouchesOne(r, k) /\ Advances(r, t, k)

LEMMA BeginMoves ==
    ASSUME WorkersType, NEW r \in Run, NEW t \in Lease, NEW k \in Call, Begin(r, t, k)
    PROVE  CallMoves(r, t, k)
<1> DEFINE w == workers[r][t]
           s == IF k \notin Writes \/ w.mode = "auto" THEN "starting"
                ELSE IF w.mode = "ask" THEN "asking" ELSE "over"
<1>1. s \in CallStage /\ Becomes(r, t, CallAt(w, k, s)) /\ UNCHANGED <<receipts, effects>>
  BY DEF Begin, CallStage, Pending, Settled, vars
<1>2. MovesAlone(r, t, k) /\ OthersStand(r, t) /\ To(r, t, k) = s
  BY <1>1, CallMovesAlone
<1>3. TouchesOne(r, k) /\ SameReceipt(r, k) /\ SameEffects(r, k)
  BY <1>1, UntouchedCalls
<1>4. Stage(r, t, k) = "idle" /\ w.stage = "executing"
  BY DEF Begin, Stage
<1>5. Asks(r, t, k)
  BY <1>2, <1>3, <1>4 DEF Asks
<1> QED BY <1>2, <1>3, <1>5 DEF CallMoves, Advances

\* The answers to approval-request and to approval-poll.
LEMMA HeardMoves ==
    ASSUME WorkersType, NEW r \in Run, NEW t \in Lease, NEW k \in Call,
           Stage(r, t, k) \in {"asking", "waiting"}, UNCHANGED <<receipts, effects>>,
           \/ Heard(r, t, k, gates'[r][k]) \/ FailedCall(r, t, k) \/ UNCHANGED workers
           \/ Becomes(r, t, CallAt(workers[r][t], k, "over"))
    PROVE  CallMoves(r, t, k)
<1>1. TouchesOne(r, k) /\ SameReceipt(r, k) /\ SameEffects(r, k)
  BY UntouchedCalls
<1>2. CASE Heard(r, t, k, gates'[r][k])
  <2> DEFINE status == gates'[r][k]
             s == IF status = "pending" THEN "waiting" ELSE IF LetsRun(status) THEN "starting" ELSE "over"
  <2>1. s \in CallStage /\ Becomes(r, t, CallAt(workers[r][t], k, s))
    BY <1>2 DEF Heard, CallStage, Pending, Settled
  <2>2. MovesAlone(r, t, k) /\ OthersStand(r, t) /\ To(r, t, k) = s
    BY <2>1, CallMovesAlone
  <2>3. s = "starting" => status = "approved"
    BY DEF LetsRun
  <2>4. Asks(r, t, k)
    BY <1>1, <2>2, <2>3 DEF Asks
  <2> QED BY <1>1, <2>2, <2>4 DEF CallMoves, Advances
<1>3. CASE FailedCall(r, t, k) \/ Becomes(r, t, CallAt(workers[r][t], k, "over"))
  <2>1. MovesAlone(r, t, k) /\ OthersStand(r, t) /\ To(r, t, k) = "over"
    BY <1>3, FailedMovesAlone, CallMovesAlone DEF CallStage, Settled
  <2> QED BY <1>1, <2>1 DEF CallMoves, Advances, Asks
<1>4. CASE UNCHANGED workers
  <2>1. MovesAlone(r, t, k) /\ OthersStand(r, t) /\ To(r, t, k) = Stage(r, t, k)
    BY <1>4, SameMovesAlone
  <2> QED BY <1>1, <2>1 DEF CallMoves, Advances, Asks
<1> QED BY <1>2, <1>3, <1>4

LEMMA GateMoves ==
    ASSUME WorkersType, NEW r \in Run, NEW t \in Lease, NEW k \in Call, Ask(r, t, k) \/ Poll(r, t, k)
    PROVE  CallMoves(r, t, k)
<1>1. Stage(r, t, k) \in {"asking", "waiting"}
  BY DEF Ask, Poll
<1>2. UNCHANGED <<receipts, effects>>
  BY DEF Ask, Poll, ApprovalRequest, ApprovalPoll, vars
<1>3. \/ Heard(r, t, k, gates'[r][k]) \/ FailedCall(r, t, k) \/ UNCHANGED workers
      \/ Becomes(r, t, CallAt(workers[r][t], k, "over"))
  BY DEF Ask, Poll
<1> QED BY <1>1, <1>2, <1>3, HeardMoves

LEMMA StartMoves ==
    ASSUME TypeOK, WorkersType, NEW r \in Run, NEW t \in Lease, NEW k \in Call, Start(r, t, k)
    PROVE  CallMoves(r, t, k)
<1> DEFINE w == workers[r][t]
<1>0. Stage(r, t, k) = "starting" /\ UNCHANGED effects /\ SameEffects(r, k)
  BY DEF Start, SameEffects
<1>1. CASE ToolStart(r, t, k) /\ (UNCHANGED workers \/ Becomes(r, t, CallAt(w, k, "claimed")))
  <2>1. Holds(r, t) /\ receipts[r][k] = "none" /\ receipts'[r][k] = "running"
    BY <1>1 DEF ToolStart, MayTask, TypeOK
  <2>2. TouchesOne(r, k)
    BY <1>0, <1>1 DEF ToolStart, TypeOK, TouchesOne, SameReceipt, SameEffects
  <2>3. MovesAlone(r, t, k) /\ OthersStand(r, t) /\ To(r, t, k) \in {"starting", "claimed"}
    BY <1>0, <1>1, SameMovesAlone, CallMovesAlone DEF CallStage, Pending
  <2> QED BY <1>0, <2>1, <2>2, <2>3 DEF CallMoves, Advances, Starts
<1>2. CASE UNCHANGED vars /\ (\/ Becomes(r, t, Uncertain(w, k)) \/ Becomes(r, t, CallAt(w, k, "over"))
                              \/ FailedCall(r, t, k))
  <2>1. TouchesOne(r, k) /\ SameReceipt(r, k)
    BY <1>0, <1>2, UntouchedCalls DEF vars
  <2>2. MovesAlone(r, t, k) /\ OthersStand(r, t) /\ To(r, t, k) \in {"over", "uncertain"}
    BY <1>2, UncertainMovesAlone, CallMovesAlone, FailedMovesAlone DEF CallStage, Settled
  <2> QED BY <1>0, <2>1, <2>2 DEF CallMoves, Advances, Starts
<1>3. ASSUME receipts[r][k] # "none"
      PROVE  receipts[r][k] = "running" \/ Cached(receipts[r][k])
  BY <1>3 DEF TypeOK, ReceiptStatus, Cached
<1> QED BY <1>1, <1>2, <1>3 DEF Start

LEMMA ExecuteMoves ==
    ASSUME WorkersType, EffectsType, NEW r \in Run, NEW t \in Lease, NEW k \in Call, Execute(r, t, k)
    PROVE  CallMoves(r, t, k)
<1> DEFINE w == workers[r][t]
<1>0. Stage(r, t, k) = "claimed" /\ Alive(r, t) /\ UNCHANGED receipts /\ SameReceipt(r, k)
  BY DEF Execute, Stage, SameReceipt, vars
<1>1. CASE UNCHANGED effects /\ Becomes(r, t, CallAt(w, k, "threw"))
  <2>1. MovesAlone(r, t, k) /\ OthersStand(r, t) /\ To(r, t, k) = "threw"
    BY <1>1, CallMovesAlone DEF CallStage, Pending
  <2>2. TouchesOne(r, k) /\ SameEffects(r, k)
    BY <1>0, <1>1, UntouchedCalls
  <2> QED BY <1>0, <2>1, <2>2 DEF CallMoves, Advances, Executes
<1>2. ASSUME NEW threw \in BOOLEAN,
             effects' = [effects EXCEPT ![r][k] = Append(effects[r][k], [lease |-> t, threw |-> threw])],
             Becomes(r, t, CallAt(w, k, IF threw THEN "threw" ELSE "returned"))
      PROVE  CallMoves(r, t, k)
  <2> DEFINE s == IF threw THEN "threw" ELSE "returned"
  <2>1. s \in CallStage
    BY DEF CallStage, Pending
  <2>2. MovesAlone(r, t, k) /\ OthersStand(r, t) /\ To(r, t, k) = s
    BY <1>2, <2>1, CallMovesAlone
  <2>3. effects'[r][k] = Append(effects[r][k], [lease |-> t, threw |-> threw])
    BY <1>2 DEF EffectsType
  <2>4. TouchesOne(r, k)
    BY <1>0, <1>2 DEF TouchesOne, SameReceipt, SameEffects, EffectsType
  <2> QED BY <1>0, <2>2, <2>3, <2>4 DEF CallMoves, Advances, Executes
<1> QED BY <1>1, <1>2 DEF Execute

LEMMA RecordMoves ==
    ASSUME TypeOK, WorkersType, NEW r \in Run, NEW t \in Lease, NEW k \in Call, Record(r, t, k)
    PROVE  CallMoves(r, t, k)
<1> DEFINE w == workers[r][t]
           outcome == IF w.calls[k] = "returned" THEN "succeeded" ELSE "failed"
<1>0. Stage(r, t, k) \in {"returned", "threw"} /\ UNCHANGED effects /\ SameEffects(r, k)
  BY DEF Record, SameEffects
<1>1. CASE ToolFinish(r, t, k, outcome) /\ (UNCHANGED workers \/ Becomes(r, t, CallAt(w, k, "over")))
  <2>1. receipts[r][k] = "running" /\ receipts'[r][k] = outcome
    BY <1>1 DEF ToolFinish, TypeOK
  <2>2. TouchesOne(r, k)
    BY <1>0, <1>1 DEF ToolFinish, TypeOK, TouchesOne, SameReceipt, SameEffects
  <2>3. MovesAlone(r, t, k) /\ OthersStand(r, t) /\ To(r, t, k) \in {Stage(r, t, k), "over"}
    BY <1>1, SameMovesAlone, CallMovesAlone DEF CallStage, Settled
  <2> QED BY <1>0, <2>1, <2>2, <2>3 DEF CallMoves, Advances, Records, Stage
<1>2. CASE receipts[r][k] # "running" /\ UNCHANGED vars /\ Becomes(r, t, CallAt(w, k, "over"))
  <2>1. TouchesOne(r, k) /\ SameReceipt(r, k)
    BY <1>0, <1>2, UntouchedCalls DEF vars
  <2>2. MovesAlone(r, t, k) /\ OthersStand(r, t) /\ To(r, t, k) = "over"
    BY <1>2, CallMovesAlone DEF CallStage, Settled
  <2> QED BY <1>0, <1>2, <2>1, <2>2 DEF CallMoves, Advances, Records
<1>3. CASE UNCHANGED vars /\ Becomes(r, t, Lose(w, k))
  <2>1. TouchesOne(r, k) /\ SameReceipt(r, k)
    BY <1>0, <1>3, UntouchedCalls DEF vars
  <2>2. \/ Stage(r, t, k) = "returned" /\ Becomes(r, t, Uncertain(w, k))
        \/ Stage(r, t, k) = "threw" /\ Becomes(r, t, CallAt(w, k, "over"))
    BY <1>0, <1>3 DEF Lose, Stage
  <2>3. /\ MovesAlone(r, t, k) /\ OthersStand(r, t)
        /\ \/ Stage(r, t, k) = "returned" /\ To(r, t, k) = "uncertain"
           \/ Stage(r, t, k) = "threw" /\ To(r, t, k) = "over"
    BY <2>2, UncertainMovesAlone, CallMovesAlone DEF CallStage, Settled
  <2> QED BY <1>0, <2>1, <2>3 DEF CallMoves, Advances, Records
<1> QED BY <1>1, <1>2, <1>3 DEF Record

LEMMA ToolCallMoves ==
    ASSUME TypeOK, WorkersType, EffectsType, NEW r \in Run, NEW t \in Lease, NEW k \in Call, ToolCall(r, t, k)
    PROVE  CallMoves(r, t, k)
BY BeginMoves, GateMoves, StartMoves, ExecuteMoves, RecordMoves DEF ToolCall

AgentTypes == policy \in [Conversation -> Mode] /\ WorkersType /\ EffectsType

\* A step without a call and without a new lease.
AllStill ==
    /\ UNCHANGED <<receipts, effects>>
    /\ \A r \in Run, t \in Lease : Still(r, t)

\* A step that hands out a lease, if there is a worker left to take it.
HandsOut(r) ==
    /\ UNCHANGED <<receipts, effects>>
    /\ \A x \in Run, u \in Lease : Still(x, u) \/ (x = r /\ Handed(x, u))

LEMMA SameStill ==
    ASSUME WorkersType, NEW r \in Run, NEW t \in Lease, workers'[r][t] = workers[r][t]
    PROVE  Still(r, t)
BY DEF WorkersType, Still, SameCalls

\* A worker that is told something, stopped or gone keeps its calls where they are.
LEMMA BecomesStill ==
    ASSUME WorkersType, NEW r \in Run, NEW t \in Lease, UNCHANGED <<receipts, effects>>,
           NEW new \in Worker, Becomes(r, t, new), SameCalls(workers[r][t], new),
           new.stage = "finishing" => \/ workers[r][t].stage = "finishing"
                                      \/ \A k \in Call : Stage(r, t, k) \in Settled,
           workers[r][t].stage \in Done => new.stage \in Done
    PROVE  AllStill
<1>1. workers'[r][t] = new /\ OthersStand(r, t)
  BY BecomesAlone
<1>2. Still(r, t)
  BY <1>1 DEF Still
<1> QED BY <1>1, <1>2, SameStill DEF AllStill, OthersStand

LEMMA WorkerStays ==
    ASSUME TypeOK, WorkersType, NEW r \in Run, NEW t \in Lease,
           \/ HeartbeatAnswered(r, t) \/ HeartbeatLost(r, t) \/ Save(r, t) \/ Emit(r, t) \/ Answer(r, t)
           \/ Fail(r, t) \/ Finish(r, t) \/ Report(r, t) \/ Crash(r, t)
    PROVE  AllStill
<1> DEFINE w == workers[r][t]
<1>1. w \in Worker
  BY DEF WorkersType
<1>2. UNCHANGED <<receipts, effects>>
  BY DEF HeartbeatAnswered, HeartbeatLost, Save, Emit, Answer, Fail, Finish, Report, Crash, vars, Renew,
         SaveSnapshot, AppendEvent, FinishSucceeded, FinishUnanswered, FinishOverflow
<1>3. \/ UNCHANGED workers
      \/ \E new \in {w, Gone(w), Stop(w), Cancelled(w), [w EXCEPT !.muted = TRUE]} : Becomes(r, t, new)
      \/ \E why \in {"model", "observation", "other"} :
            Becomes(r, t, Reporting(w, why))
      \/ /\ w.stage = "executing" /\ \A k \in Call : w.calls[k] \in Settled
         /\ Becomes(r, t, [w EXCEPT !.stage = "finishing"])
  BY DEF HeartbeatAnswered, HeartbeatLost, Save, Emit, Answer, Fail, Finish, Report, Crash, Told
<1>4. CASE UNCHANGED workers
  BY <1>2, <1>4, SameStill DEF AllStill
<1>5. ASSUME NEW new \in {w, Gone(w), Stop(w), Cancelled(w), [w EXCEPT !.muted = TRUE]}, Becomes(r, t, new)
      PROVE  AllStill
  <2>1. new \in Worker /\ SameCalls(w, new)
    BY <1>1, <1>5, StoppedWorker, ZenonT(40) DEF SameCalls
  <2>2. new.stage \in {w.stage, "gone"}
    BY <1>1, <1>5, StoppedStage
  <2> QED BY <1>2, <1>5, <2>1, <2>2, BecomesStill DEF Done
<1>6. ASSUME NEW why \in {"model", "observation", "other"},
             Becomes(r, t, Reporting(w, why))
      PROVE  AllStill
  BY <1>1, <1>2, <1>6, ReportingWorker, BecomesStill DEF Done
<1>7. CASE /\ w.stage = "executing" /\ \A k \in Call : w.calls[k] \in Settled
           /\ Becomes(r, t, [w EXCEPT !.stage = "finishing"])
  <2> DEFINE new == [w EXCEPT !.stage = "finishing"]
  <2>1. new \in Worker /\ SameCalls(w, new)
    BY <1>1, StoppedWorker
  <2>2. \A k \in Call : Stage(r, t, k) \in Settled
    BY <1>7 DEF Stage
  <2> QED BY <1>2, <1>7, <2>1, <2>2, BecomesStill DEF Done
<1> QED BY <1>3, <1>4, <1>5, <1>6, <1>7

LEMMA ClockIsStill ==
    ASSUME WorkersType, NEW r \in Run, Clock(r)
    PROVE  AllStill
<1>1. UNCHANGED <<receipts, effects>>
  BY DEF Clock, Tick
<1>2. ASSUME NEW x \in Run, NEW u \in Lease
      PROVE  Still(x, u)
  <2>1. workers'[x][u] \in {workers[x][u], Aged(workers[x][u])}
    BY DEF Clock, WorkersType
  <2>2. workers[x][u] \in Worker
    BY DEF WorkersType
  <2> QED BY <2>1, <2>2, SameStill, AgedWorker DEF Still
<1> QED BY <1>1, <1>2 DEF AllStill

LEMMA TakeJobHandsOut ==
    ASSUME TypeOK, Rows, AgentTypes, NEW r \in Run, TakeJob(r)
    PROVE  HandsOut(r)
<1> DEFINE t == runs[r].claims + 1
           w == Fresh(policy[runs[r].conversation], runs[r].deadline)
<1>1. UNCHANGED <<receipts, effects>> /\ runs[r].status = "queued"
  BY DEF TakeJob, Claim
<1>2. runs[r].conversation \in Conversation /\ runs[r].deadline \in Nat
  BY <1>1 DEF TypeOK, Row, Rows, RowInv
<1>3. policy[runs[r].conversation] \in Mode
  BY <1>2 DEF AgentTypes
<1>4. w \in Worker /\ w.stage = "executing" /\ w.calls = [k \in Call |-> "idle"]
  BY <1>2, <1>3, FreshWorker
<1>5. PICK new \in {w, Gone(w)} : workers' = [workers EXCEPT ![r][t] = new]
  BY DEF TakeJob, Becomes
<1>6. new \in Worker /\ new.calls = [k \in Call |-> "idle"] /\ new.stage # "finishing"
  <2> HIDE DEF w
  <2>1. CASE new = w
    BY <1>4, <2>1
  <2>2. CASE new = Gone(w)
    <3>1. Gone(w) \in Worker /\ SameCalls(w, Gone(w)) /\ Gone(w).stage = "gone"
      BY <1>4, StoppedWorker, StoppedStage
    <3> QED BY <1>4, <2>2, <3>1 DEF SameCalls
  <2> QED BY <1>5, <2>1, <2>2
<1>7. ASSUME NEW x \in Run, NEW u \in Lease
      PROVE  Still(x, u) \/ (x = r /\ Handed(x, u))
  <2>1. CASE x = r /\ u = t
    <3>1. workers'[x][u] = new
      BY <1>5, <2>1 DEF AgentTypes, WorkersType
    <3> QED BY <1>1, <1>6, <2>1, <3>1 DEF Handed
  <2>2. CASE ~(x = r /\ u = t)
    <3>1. workers'[x][u] = workers[x][u]
      BY <1>5, <2>2 DEF AgentTypes, WorkersType
    <3> QED BY <3>1, SameStill DEF AgentTypes
  <2> QED BY <2>1, <2>2
<1> QED BY <1>1, <1>7 DEF HandsOut

\* Every step is one of these.
LEMMA StepMovesWorkers ==
    ASSUME TypeOK, Rows, AgentTypes, [AgentNext]_agentVars
    PROVE  \/ AllStill
           \/ \E r \in Run : HandsOut(r)
           \/ \E r \in Run, t \in Lease, k \in Call : CallMoves(r, t, k)
<1> USE DEF AgentTypes
<1>1. ASSUME UNCHANGED <<receipts, workers, effects>>
      PROVE  AllStill
  BY <1>1, SameStill DEF AllStill
<1>2. CASE UNCHANGED agentVars
  BY <1>1, <1>2 DEF agentVars, vars
<1>3. ASSUME NEW c \in Conversation, NEW mode \in Mode, SetPolicy(c, mode)
      PROVE  AllStill
  BY <1>1, <1>3 DEF SetPolicy, vars
<1>4. CASE Elsewhere
  BY <1>1, <1>4 DEF Elsewhere, UserRequest, Enqueue, Cancel, Workspace, DecideApproval, ClaimForbidden,
                    LeaseLapse, Reap, ReapRequeue, ReapFail, ReapGates
<1> QED BY <1>2, <1>3, <1>4, TakeJobHandsOut, ClockIsStill, WorkerStays, ToolCallMoves DEF AgentNext, WorkerStep

\* Tables keep their shape.
LEMMA KeepsShape ==
    ASSUME WorkersType, [AgentNext]_agentVars
    PROVE  workers' = [x \in Run |-> [u \in Lease |-> workers'[x][u]]]
<1> DEFINE Shaped == workers' = [x \in Run |-> [u \in Lease |-> workers'[x][u]]]
<1>1. CASE UNCHANGED workers
  BY <1>1 DEF WorkersType
<1>2. ASSUME NEW r, NEW t, NEW new, Becomes(r, t, new)
      PROVE  Shaped
  BY <1>2 DEF Becomes, WorkersType
<1>3. ASSUME NEW r \in Run, Clock(r)
      PROVE  Shaped
  BY <1>3 DEF Clock, WorkersType
<1>4. ASSUME NEW r \in Run, TakeJob(r)
      PROVE  Shaped
  BY <1>2, <1>4 DEF TakeJob
<1>5. ASSUME NEW r \in Run, NEW t \in Lease, WorkerStep(r, t)
      PROVE  UNCHANGED workers \/ \E new : Becomes(r, t, new)
  <2>1. CASE \E k \in Call : ToolCall(r, t, k)
    BY <2>1 DEF ToolCall, Begin, Ask, Poll, Start, Execute, Record, Heard, FailedCall
  <2>2. CASE ~\E k \in Call : ToolCall(r, t, k)
    BY <1>5, <2>2 DEF WorkerStep, HeartbeatAnswered, HeartbeatLost, Save, Emit, Answer, Fail, Finish, Report, Crash
  <2> QED BY <2>1, <2>2
<1>6. CASE UNCHANGED agentVars \/ Elsewhere \/ \E c \in Conversation, mode \in Mode : SetPolicy(c, mode)
  BY <1>1, <1>6 DEF agentVars, Elsewhere, SetPolicy
<1> QED BY <1>1, <1>2, <1>3, <1>4, <1>5, <1>6 DEF AgentNext

LEMMA KeepsEffectsType ==
    ASSUME EffectsType, [AgentNext]_agentVars
    PROVE  EffectsType'
<1>1. CASE UNCHANGED effects
  BY <1>1 DEF EffectsType
<1>2. ASSUME NEW r \in Run, NEW t \in Lease, NEW k \in Call, Execute(r, t, k)
      PROVE  EffectsType'
  <2>1. CASE UNCHANGED effects
    BY <1>1, <2>1
  <2>2. ASSUME NEW threw \in BOOLEAN,
               effects' = [effects EXCEPT ![r][k] = Append(effects[r][k], [lease |-> t, threw |-> threw])]
        PROVE  EffectsType'
    <3>1. [lease |-> t, threw |-> threw] \in Effect
      BY DEF Effect
    <3>2. effects[r][k] \in Seq(Effect)
      BY DEF EffectsType
    <3>3. Append(effects[r][k], [lease |-> t, threw |-> threw]) \in Seq(Effect)
      BY <3>1, <3>2
    <3> QED BY <2>2, <3>3 DEF EffectsType
  <2> QED BY <1>2, <2>1, <2>2 DEF Execute
<1>3. ASSUME NEW r \in Run, NEW t \in Lease, WorkerStep(r, t)
      PROVE  UNCHANGED effects \/ \E k \in Call : Execute(r, t, k)
  BY <1>3 DEF WorkerStep, ToolCall, Begin, Ask, Poll, Start, Record, HeartbeatAnswered, HeartbeatLost, Save,
              Emit, Answer, Fail, Finish, Report, Crash
<1> QED BY <1>1, <1>2, <1>3 DEF AgentNext, agentVars, TakeJob, Clock, Elsewhere, SetPolicy

LEMMA KeepsAgentTypes ==
    ASSUME TypeOK, Rows, AgentTypes, [AgentNext]_agentVars
    PROVE  AgentTypes'
<1>1. policy' \in [Conversation -> Mode]
  <2>1. ASSUME NEW r \in Run, NEW t \in Lease, WorkerStep(r, t)
        PROVE  UNCHANGED policy
    BY <2>1 DEF WorkerStep, ToolCall, Begin, Ask, Poll, Start, Execute, Record, HeartbeatAnswered, HeartbeatLost,
                Save, Emit, Answer, Fail, Finish, Report, Crash
  <2>2. ASSUME NEW c \in Conversation, NEW mode \in Mode, SetPolicy(c, mode)
        PROVE  policy' \in [Conversation -> Mode]
    BY <2>2 DEF SetPolicy, AgentTypes
  <2>3. ASSUME NEW r \in Run, TakeJob(r) \/ Clock(r)
        PROVE  UNCHANGED policy
    BY <2>3 DEF TakeJob, Clock
  <2>4. ASSUME Elsewhere \/ UNCHANGED agentVars
        PROVE  UNCHANGED policy
    BY <2>4 DEF Elsewhere, agentVars
  <2> QED BY <2>1, <2>2, <2>3, <2>4 DEF AgentTypes, AgentNext
<1>2. ASSUME NEW x \in Run, NEW u \in Lease
      PROVE  workers'[x][u] \in Worker
  <2>1. workers[x][u] \in Worker
    BY DEF AgentTypes, WorkersType
  <2>2. ASSUME NEW r \in Run, NEW t \in Lease, NEW k \in Call, CallMoves(r, t, k)
        PROVE  workers'[x][u] \in Worker
    BY <2>1, <2>2 DEF CallMoves, MovesAlone, OthersStand
  <2> QED BY <2>2, StepMovesWorkers DEF AllStill, HandsOut, Still, Handed
<1>3. WorkersType'
  BY <1>2, KeepsShape DEF AgentTypes, WorkersType
<1> QED BY <1>1, <1>3, KeepsEffectsType DEF AgentTypes

LEMMA InitAgentTypes == AgentInit => AgentTypes
BY NobodyWorks DEF AgentInit, AgentTypes, WorkersType, EffectsType

----------------------------------------------------------------------------
(* The strengthening: what is true of every call of a run. *)

Current(r) == runs[r].claims
InBody == {"claimed", "returned", "threw"}

\* Without a receipt no body was entered, and one worker at most is in it.
OneBody ==
    \A r \in Run, k \in Call :
        /\ receipts[r][k] = "none" =>
             effects[r][k] = <<>> /\ \A t \in Lease : Stage(r, t, k) \notin InBody
        /\ \A t, u \in Lease : Stage(r, t, k) \in InBody /\ Stage(r, u, k) \in InBody => t = u

\* A worker about to have an effect holds the latest lease and the call's receipt.
ClaimedFirst ==
    \A r \in Run, t \in Lease, k \in Call : Stage(r, t, k) = "claimed" =>
        effects[r][k] = <<>> /\ receipts[r][k] = "running" /\ t = Current(r)

HasReturned(r, k) == \E i \in 1..Len(effects[r][k]) : ~effects[r][k][i].threw

\* An effect that returned is recorded as succeeded or not at all, ...
ReceiptsFit ==
    \A r \in Run, k \in Call :
        /\ HasReturned(r, k) => receipts[r][k] \in {"running", "succeeded"}
        /\ \A t \in Lease : Stage(r, t, k) = "threw" => ~HasReturned(r, k)

\* ... and while it is not, the latest worker knows that it is unsettled.
OpenIsKnown ==
    \A r \in Run, k \in Call : HasReturned(r, k) /\ receipts[r][k] = "running" =>
        \E t \in Lease : t = Current(r) /\ Stage(r, t, k) \in {"returned", "uncertain"}

\* An answer is sent in when every call is settled, and the worker of a run that
\* succeeded begins no other.
AllSettled(r, t) == \A k \in Call : Stage(r, t, k) \in Settled
FinishesSettled ==
    /\ \A r \in Run, t \in Lease : workers[r][t].stage = "finishing" => AllSettled(r, t)
    /\ \A r \in Run, t \in Lease : runs[r].status = "succeeded" /\ t = Current(r) =>
           workers[r][t].stage \in Done /\ AllSettled(r, t)

CallInv == OneBody /\ ClaimedFirst /\ EffectAtMostOnce /\ ReceiptsFit /\ OpenIsKnown /\ FinishesSettled
QueueInv == TypeOK /\ Rows /\ BlankInv /\ QueuedHasNoOpenTool

\* Leases are issued to runs that wait, one at a time.
LEMMA LeasesAreIssued ==
    ASSUME TypeOK, Rows, [Next]_vars, NEW x \in Run
    PROVE  runs'[x].claims = runs[x].claims \/ runs[x].status = "queued"
<1>1. runs[x] \in Row /\ RowInv(runs[x]) /\ RowStep(runs[x], runs'[x], TakenBack(x))
  BY NextIsRowStep DEF TypeOK, Rows
<1>2. CASE runs[x].status = "absent"
  <2>1. ASSUME NEW c \in Conversation, NEW o \in Request \cup Run, NEW b \in BOOLEAN, NEW n \in Nat,
               runs'[x] = Queued(c, o, b, n)
        PROVE  runs'[x].claims = 0
    BY <2>1, QueuedRowCounters
  <2> QED BY <1>1, <1>2, <2>1 DEF RowStep, RowInv
<1>3. CASE runs[x].status = "running"
  <2>1. /\ Stopped(runs[x]).claims = runs[x].claims /\ Requeued(runs[x]).claims = runs[x].claims
        /\ Renewed(runs[x]).claims = runs[x].claims /\ Lapsed(runs[x]).claims = runs[x].claims
    BY <1>1, <1>3, StoppedRow, LapsedRow, RequeuedRow
  <2>2. \A n \in Nat : Until(runs[x], n).claims = runs[x].claims
    BY <1>1, UntilRow
  <2>3. \A status \in Ended : EndedAs(runs[x], status).claims = runs[x].claims
    BY <1>1, EndedAsRow
  <2> QED BY <1>1, <1>3, <2>1, <2>2, <2>3 DEF RowStep
<1>4. CASE runs[x].status \in Ended
  BY <1>1, <1>4, RowStepFacts
<1> QED BY <1>1, <1>2, <1>3, <1>4 DEF Row, Status

\* A run with an open receipt keeps the worker it has.
LEMMA OpenKeepsLease ==
    ASSUME QueueInv, [Next]_vars, NEW x \in Run, NEW k \in Call, receipts[x][k] = "running"
    PROVE  runs[x].status # "queued" /\ runs'[x].claims = runs[x].claims
BY LeasesAreIssued DEF QueueInv, QueuedHasNoOpenTool, RunningReceipt

\* What is said below of one call, by what a step does to the workers.
LEMMA OneCallMoves ==
    ASSUME NEW r \in Run, NEW t \in Lease, NEW k \in Call, CallMoves(r, t, k), NEW x \in Run, NEW j \in Call,
           ~(x = r /\ j = k)
    PROVE  /\ SameReceipt(x, j) /\ SameEffects(x, j)
           /\ \A u \in Lease : To(x, u, j) = Stage(x, u, j)
BY DEF CallMoves, TouchesOne, OthersStand, MovesAlone, To, Stage

\* Of a step without calls every call can say the same.
CallStands(x, j) ==
    /\ SameReceipt(x, j) /\ SameEffects(x, j)
    /\ \A u \in Lease : \/ To(x, u, j) = Stage(x, u, j)
                        \/ To(x, u, j) = "idle" /\ runs[x].status = "queued"

LEMMA StepOfOneCall ==
    ASSUME TypeOK, Rows, AgentTypes, [AgentNext]_agentVars, NEW x \in Run, NEW j \in Call
    PROVE  CallStands(x, j) \/ \E t \in Lease : CallMoves(x, t, j)
<1>1. CASE AllStill
  BY <1>1 DEF AllStill, Still, SameCalls, CallStands, SameReceipt, SameEffects, To, Stage
<1>2. ASSUME NEW r \in Run, HandsOut(r)
      PROVE  CallStands(x, j)
  BY <1>2 DEF HandsOut, Handed, Still, SameCalls, CallStands, SameReceipt, SameEffects, To, Stage
<1>3. ASSUME NEW r \in Run, NEW t \in Lease, NEW k \in Call, CallMoves(r, t, k)
      PROVE  CallStands(x, j) \/ \E u \in Lease : CallMoves(x, u, j)
  BY <1>3, OneCallMoves DEF CallStands
<1> QED BY <1>1, <1>2, <1>3, StepMovesWorkers

LEMMA MoverMovesAlone ==
    ASSUME NEW r \in Run, NEW t \in Lease, NEW k \in Call, CallMoves(r, t, k)
    PROVE  \A u \in Lease \ {t} : To(r, u, k) = Stage(r, u, k)
BY DEF CallMoves, OthersStand, To, Stage

LEMMA KeepsOneBody ==
    ASSUME QueueInv, AgentTypes, CallInv, [AgentNext]_agentVars
    PROVE  OneBody'
<1> SUFFICES ASSUME NEW x \in Run, NEW j \in Call
             PROVE  /\ receipts'[x][j] = "none" =>
                         effects'[x][j] = <<>> /\ \A t \in Lease : To(x, t, j) \notin InBody
                    /\ \A t, u \in Lease : To(x, t, j) \in InBody /\ To(x, u, j) \in InBody => t = u
  BY DEF OneBody, Stage, To
<1> USE DEF InBody
<1>1. /\ receipts[x][j] = "none" => effects[x][j] = <<>> /\ \A t \in Lease : Stage(x, t, j) \notin InBody
      /\ \A t, u \in Lease : Stage(x, t, j) \in InBody /\ Stage(x, u, j) \in InBody => t = u
      /\ \A t \in Lease : Stage(x, t, j) = "claimed" => receipts[x][j] = "running"
  BY DEF CallInv, OneBody, ClaimedFirst
<1>2. CASE CallStands(x, j)
  BY <1>1, <1>2 DEF CallStands, SameReceipt, SameEffects
<1>3. ASSUME NEW t \in Lease, CallMoves(x, t, j)
      PROVE  /\ receipts'[x][j] = "none" =>
                  effects'[x][j] = <<>> /\ \A u \in Lease : To(x, u, j) \notin InBody
             /\ \A u, v \in Lease : To(x, u, j) \in InBody /\ To(x, v, j) \in InBody => u = v
  <2>1. \A u \in Lease \ {t} : To(x, u, j) = Stage(x, u, j)
    BY <1>3, MoverMovesAlone
  <2>2. CASE Asks(x, t, j)
    BY <1>1, <2>1, <2>2 DEF Asks, SameReceipt, SameEffects
  <2>3. CASE Starts(x, t, j)
    BY <1>1, <2>1, <2>3 DEF Starts, SameReceipt, SameEffects
  <2>4. CASE Executes(x, t, j)
    BY <1>1, <2>1, <2>4 DEF Executes, SameReceipt
  <2>5. CASE Records(x, t, j)
    BY <1>1, <2>1, <2>5 DEF Records, SameReceipt, SameEffects
  <2> QED BY <1>3, <2>2, <2>3, <2>4, <2>5 DEF CallMoves, Advances
<1> QED BY <1>2, <1>3, StepOfOneCall DEF QueueInv

LEMMA KeepsClaimedFirst ==
    ASSUME QueueInv, AgentTypes, CallInv, [AgentNext]_agentVars
    PROVE  ClaimedFirst'
<1> SUFFICES ASSUME NEW x \in Run, NEW t \in Lease, NEW j \in Call, To(x, t, j) = "claimed"
             PROVE  effects'[x][j] = <<>> /\ receipts'[x][j] = "running" /\ t = runs'[x].claims
  BY DEF ClaimedFirst, Stage, To, Current
<1> USE DEF InBody
<1>0. [Next]_vars
  BY WorkerStepIsQueues DEF QueueInv
<1>1. Stage(x, t, j) = "claimed" =>
        effects[x][j] = <<>> /\ receipts[x][j] = "running" /\ t = runs[x].claims
  BY DEF CallInv, ClaimedFirst, Current
<1>2. Stage(x, t, j) = "claimed" => t = runs'[x].claims
  BY <1>0, <1>1, OpenKeepsLease
<1>3. CASE CallStands(x, j)
  BY <1>1, <1>2, <1>3 DEF CallStands, SameReceipt, SameEffects
<1>4. ASSUME NEW u \in Lease, CallMoves(x, u, j)
      PROVE  effects'[x][j] = <<>> /\ receipts'[x][j] = "running" /\ t = runs'[x].claims
  <2>1. \A v \in Lease \ {u} : To(x, v, j) = Stage(x, v, j)
    BY <1>4, MoverMovesAlone
  <2>2. CASE u = t
    <3>1. Starts(x, t, j)
      BY <1>4, <2>2 DEF CallMoves, Advances, Asks, Executes, Records
    <3>2. /\ Holds(x, t) /\ receipts[x][j] = "none" /\ receipts'[x][j] = "running"
          /\ SameEffects(x, j)
      BY <3>1 DEF Starts
    <3>3. effects'[x][j] = <<>>
      BY <3>2 DEF CallInv, OneBody, SameEffects
    <3>4. runs[x].status # "queued" /\ t = runs[x].claims
      BY <3>2 DEF Holds, QueueInv, Rows, RowInv
    <3>5. runs'[x].claims = runs[x].claims
      BY <1>0, <3>4, LeasesAreIssued DEF QueueInv
    <3> QED BY <3>2, <3>3, <3>4, <3>5
  <2>3. CASE u # t
    <3>1. Stage(x, t, j) = "claimed"
      BY <2>1, <2>3
    <3>2. Stage(x, u, j) \notin InBody
      BY <2>3, <3>1 DEF CallInv, OneBody
    <3>3. Asks(x, u, j) \/ Starts(x, u, j)
      BY <1>4, <3>2 DEF CallMoves, Advances, Executes, Records
    <3>4. SameReceipt(x, j) /\ SameEffects(x, j)
      BY <1>1, <3>1, <3>3 DEF Asks, Starts
    <3> QED BY <1>1, <1>2, <3>1, <3>4 DEF SameReceipt, SameEffects
  <2> QED BY <2>2, <2>3
<1> QED BY <1>3, <1>4, StepOfOneCall DEF QueueInv

\* The one effect a call may have.
LEMMA FirstEffect ==
    ASSUME NEW x \in Run, NEW t \in Lease, NEW j \in Call, Executes(x, t, j), CallInv, EffectsType
    PROVE  /\ \/ effects'[x][j] = <<>> /\ To(x, t, j) = "threw"
              \/ /\ effects'[x][j] = <<[lease |-> t, threw |-> TRUE]>> /\ To(x, t, j) = "threw"
              \/ /\ effects'[x][j] = <<[lease |-> t, threw |-> FALSE]>> /\ To(x, t, j) = "returned"
           /\ receipts'[x][j] = "running" /\ t = runs[x].claims
<1>1. effects[x][j] = <<>> /\ receipts[x][j] = "running" /\ t = runs[x].claims
  BY DEF Executes, CallInv, ClaimedFirst, Current
<1>2. \A e \in Effect : Append(<<>>, e) = <<e>>
  OBVIOUS
<1>3. \A threw \in BOOLEAN : [lease |-> t, threw |-> threw] \in Effect
  BY DEF Effect
<1>4. receipts'[x][j] = "running"
  BY <1>1 DEF Executes, SameReceipt
<1>5. CASE SameEffects(x, j) /\ To(x, t, j) = "threw"
  BY <1>1, <1>4, <1>5 DEF SameEffects
<1>6. ASSUME NEW threw \in BOOLEAN,
             effects'[x][j] = Append(effects[x][j], [lease |-> t, threw |-> threw]),
             To(x, t, j) = IF threw THEN "threw" ELSE "returned"
      PROVE  \/ effects'[x][j] = <<[lease |-> t, threw |-> TRUE]>> /\ To(x, t, j) = "threw"
             \/ effects'[x][j] = <<[lease |-> t, threw |-> FALSE]>> /\ To(x, t, j) = "returned"
  <2>1. effects'[x][j] = <<[lease |-> t, threw |-> threw]>>
    BY <1>1, <1>2, <1>3, <1>6
  <2>2. CASE threw = TRUE
    BY <1>6, <2>1, <2>2
  <2>3. CASE threw = FALSE
    BY <1>6, <2>1, <2>3
  <2> QED BY <2>2, <2>3
<1> QED BY <1>1, <1>4, <1>5, <1>6 DEF Executes

LEMMA KeepsEffectAtMostOnce ==
    ASSUME QueueInv, AgentTypes, CallInv, [AgentNext]_agentVars
    PROVE  EffectAtMostOnce'
<1> SUFFICES ASSUME NEW x \in Run, NEW j \in Call
             PROVE  Len(effects'[x][j]) <= 1
  BY DEF EffectAtMostOnce
<1>1. CASE SameEffects(x, j)
  BY <1>1 DEF SameEffects, CallInv, EffectAtMostOnce
<1>2. ASSUME NEW t \in Lease, Executes(x, t, j)
      PROVE  Len(effects'[x][j]) <= 1
  <2>1. PICK e : effects'[x][j] = <<>> \/ effects'[x][j] = <<e>>
    BY <1>2, FirstEffect DEF AgentTypes
  <2>2. Len(<<>>) = 0 /\ Len(<<e>>) = 1
    OBVIOUS
  <2>3. CASE effects'[x][j] = <<>>
    BY <2>2, <2>3
  <2>4. CASE effects'[x][j] = <<e>>
    BY <2>2, <2>4
  <2> QED BY <2>1, <2>3, <2>4
<1> QED BY <1>1, <1>2, StepOfOneCall DEF QueueInv, CallStands, CallMoves, Advances, Asks, Starts, Records

LEMMA SameReturns ==
    ASSUME NEW x \in Run, NEW j \in Call, SameEffects(x, j)
    PROVE  HasReturned(x, j)' <=> HasReturned(x, j)
BY DEF HasReturned, SameEffects

LEMMA FirstReturns ==
    ASSUME NEW x \in Run, NEW t \in Lease, NEW j \in Call, Executes(x, t, j), CallInv, EffectsType
    PROVE  HasReturned(x, j)' => To(x, t, j) = "returned"
<1>1. \A e : Len(<<>>) = 0 /\ Len(<<e>>) = 1 /\ <<e>>[1] = e
  OBVIOUS
<1>2. CASE effects'[x][j] = <<>>
  BY <1>1, <1>2 DEF HasReturned
<1>3. CASE effects'[x][j] = <<[lease |-> t, threw |-> TRUE]>>
  <2>1. Len(effects'[x][j]) = 1 /\ effects'[x][j][1].threw = TRUE
    BY <1>1, <1>3
  <2> QED BY <2>1 DEF HasReturned
<1> QED BY <1>2, <1>3, FirstEffect

LEMMA KeepsReceiptsFit ==
    ASSUME QueueInv, AgentTypes, CallInv, [AgentNext]_agentVars
    PROVE  ReceiptsFit'
<1> SUFFICES ASSUME NEW x \in Run, NEW j \in Call, HasReturned(x, j)'
             PROVE  /\ receipts'[x][j] \in {"running", "succeeded"}
                    /\ \A t \in Lease : To(x, t, j) # "threw"
  BY DEF ReceiptsFit, Stage, To
<1> USE DEF InBody
<1>1. HasReturned(x, j) => /\ receipts[x][j] \in {"running", "succeeded"}
                           /\ \A t \in Lease : Stage(x, t, j) # "threw"
  BY DEF CallInv, ReceiptsFit
<1>2. CASE CallStands(x, j)
  BY <1>1, <1>2, SameReturns DEF CallStands, SameReceipt
<1>3. ASSUME NEW t \in Lease, CallMoves(x, t, j)
      PROVE  /\ receipts'[x][j] \in {"running", "succeeded"}
             /\ \A u \in Lease : To(x, u, j) # "threw"
  <2>1. \A u \in Lease \ {t} : To(x, u, j) = Stage(x, u, j)
    BY <1>3, MoverMovesAlone
  <2>2. CASE Asks(x, t, j)
    BY <1>1, <2>1, <2>2, SameReturns DEF Asks, SameReceipt
  <2>3. CASE Starts(x, t, j)
    BY <1>1, <2>1, <2>3, SameReturns DEF Starts, SameReceipt
  <2>4. CASE Executes(x, t, j)
    <3>1. To(x, t, j) = "returned" /\ receipts'[x][j] = "running"
      BY <2>4, FirstReturns, FirstEffect DEF AgentTypes
    <3>2. \A u \in Lease \ {t} : Stage(x, u, j) \notin InBody
      BY <2>4 DEF CallInv, OneBody, Executes
    <3> QED BY <2>1, <3>1, <3>2
  <2>5. CASE Records(x, t, j)
    <3>1. HasReturned(x, j)
      BY <2>5, SameReturns DEF Records
    <3>2. Stage(x, t, j) = "returned"
      BY <1>1, <2>5, <3>1 DEF Records
    <3> QED BY <1>1, <2>1, <2>5, <3>1, <3>2 DEF Records, SameReceipt
  <2> QED BY <1>3, <2>2, <2>3, <2>4, <2>5 DEF CallMoves, Advances
<1> QED BY <1>2, <1>3, StepOfOneCall DEF QueueInv

LEMMA KeepsOpenIsKnown ==
    ASSUME QueueInv, AgentTypes, CallInv, [AgentNext]_agentVars
    PROVE  OpenIsKnown'
<1> SUFFICES ASSUME NEW x \in Run, NEW j \in Call, HasReturned(x, j)', receipts'[x][j] = "running"
             PROVE  \E t \in Lease : t = runs'[x].claims /\ To(x, t, j) \in {"returned", "uncertain"}
  BY DEF OpenIsKnown, Stage, To, Current
<1> DEFINE Known == \E t \in Lease : t = runs'[x].claims /\ To(x, t, j) \in {"returned", "uncertain"}
<1>0. [Next]_vars
  BY WorkerStepIsQueues DEF QueueInv
<1>1. ASSUME receipts[x][j] = "running"
      PROVE  runs[x].status # "queued" /\ runs'[x].claims = runs[x].claims
  BY <1>0, <1>1, OpenKeepsLease
<1>2. ASSUME HasReturned(x, j), receipts[x][j] = "running"
      PROVE  \E t \in Lease : t = runs'[x].claims /\ Stage(x, t, j) \in {"returned", "uncertain"}
  BY <1>1, <1>2 DEF CallInv, OpenIsKnown, Current
<1>3. CASE CallStands(x, j)
  <2>1. HasReturned(x, j) /\ receipts[x][j] = "running"
    BY <1>3, SameReturns DEF CallStands, SameReceipt
  <2> QED BY <1>1, <1>2, <1>3, <2>1 DEF CallStands
<1>4. ASSUME NEW t \in Lease, CallMoves(x, t, j)
      PROVE  Known
  <2>1. \A u \in Lease \ {t} : To(x, u, j) = Stage(x, u, j)
    BY <1>4, MoverMovesAlone
  <2>2. CASE Executes(x, t, j)
    <3>1. To(x, t, j) = "returned" /\ t = runs[x].claims
      BY <2>2, FirstReturns, FirstEffect DEF AgentTypes
    <3>2. receipts[x][j] = "running"
      BY <2>2 DEF Executes, SameReceipt
    <3> QED BY <1>1, <3>1, <3>2
  <2>3. CASE ~Executes(x, t, j)
    <3>1. Asks(x, t, j) \/ Starts(x, t, j) \/ Records(x, t, j)
      BY <1>4, <2>3 DEF CallMoves, Advances
    <3>2. HasReturned(x, j)
      BY <3>1, SameReturns DEF Asks, Starts, Records
    <3>3. receipts[x][j] \in {"running", "succeeded"} /\ Stage(x, t, j) # "threw"
      BY <3>2 DEF CallInv, ReceiptsFit
    <3>4. receipts[x][j] = "running"
      BY <3>1, <3>3 DEF Asks, Starts, Records, SameReceipt
    <3>5. PICK u \in Lease : u = runs'[x].claims /\ Stage(x, u, j) \in {"returned", "uncertain"}
      BY <1>2, <3>2, <3>4
    <3>6. CASE u # t
      BY <2>1, <3>5, <3>6
    <3>7. CASE u = t
      <4>1. Records(x, t, j)
        BY <3>1, <3>5, <3>7 DEF Asks, Starts
      <4>2. To(x, t, j) = "uncertain"
        BY <3>3, <3>4, <4>1 DEF Records
      <4> QED BY <3>5, <3>7, <4>2
    <3> QED BY <3>6, <3>7
  <2> QED BY <2>2, <2>3
<1> QED BY <1>3, <1>4, StepOfOneCall DEF QueueInv

\* A run succeeds by the report of the worker that has settled every call.
LEMMA SucceedsByFinish ==
    ASSUME QueueInv, AgentTypes, [AgentNext]_agentVars, NEW x \in Run,
           runs[x].status # "succeeded", runs'[x].status = "succeeded"
    PROVE  \E t \in Lease : /\ workers[x][t].stage = "finishing" /\ workers'[x][t].stage \in Done
                            /\ workers'[x][t].calls = workers[x][t].calls /\ t = runs[x].claims
<1> USE DEF QueueInv, TypeOK
<1>0. [Next]_vars
  BY WorkerStepIsQueues
<1>1. PICK n \in Nat : FinishSucceeded(x, n)
  BY <1>0, RunSucceeds
<1> DEFINE c == runs[x].conversation
<1>2. runs[x].status = "running" /\ c \in Conversation
  BY <1>1 DEF FinishSucceeded, Holds, Rows, RowInv
<1>3. messages' = [messages EXCEPT ![c] = Append(messages[c], [role |-> "assistant", run |-> x])]
  BY <1>1 DEF FinishSucceeded
<1>4. ~UNCHANGED messages
  <2>1. [role |-> "assistant", run |-> x] \in Message
    BY DEF Message
  <2>2. Len(Append(messages[c], [role |-> "assistant", run |-> x])) = Len(messages[c]) + 1
    BY <1>2, <2>1, Appended
  <2>3. Len(messages[c]) \in Nat
    BY <1>2
  <2> QED BY <1>2, <1>3, <2>2, <2>3
<1>5. ASSUME NEW r \in Run, UserRequest(r) PROVE FALSE
  <2>1. ASSUME NEW d \in Conversation, NEW q \in Request, NEW compact \in BOOLEAN, Enqueue(d, q, r, compact)
        PROVE  FALSE
    <3>1. Queued(d, q, compact, Budget).status = "queued"
      BY DEF Queued, NoRow
    <3> QED BY <2>1, <3>1 DEF Enqueue
  <2> QED BY <1>4, <1>5, <2>1 DEF UserRequest, Cancel, Workspace, DecideApproval
<1>6. ~Elsewhere
  BY <1>4, <1>5 DEF Elsewhere, ClaimForbidden, LeaseLapse, Reap, ReapRequeue, ReapFail, ReapGates
<1>7. ASSUME NEW r \in Run, TakeJob(r) \/ Clock(r) PROVE FALSE
  BY <1>4, <1>7 DEF TakeJob, Claim, Clock, Tick
<1>8. ASSUME NEW r \in Run, NEW t \in Lease, WorkerStep(r, t)
      PROVE  /\ Finish(r, t) /\ FinishSucceeded(r, t)
  BY <1>4, <1>8
     DEF WorkerStep, ToolCall, Begin, Ask, Poll, Start, Execute, Record, HeartbeatAnswered, HeartbeatLost, Save,
         Emit, Answer, Fail, Finish, Report, Crash, vars, Renew, AppendEvent, SaveSnapshot, ToolStart, ToolFinish,
         ApprovalRequest, ApprovalPoll, FinishUnanswered, FinishOverflow
<1>9. ASSUME NEW d \in Conversation, NEW mode \in Mode, SetPolicy(d, mode) PROVE FALSE
  BY <1>4, <1>9 DEF SetPolicy, vars
<1>10. PICK r \in Run, t \in Lease : Finish(r, t) /\ FinishSucceeded(r, t)
  BY <1>4, <1>6, <1>7, <1>8, <1>9 DEF AgentNext, agentVars, vars
<1>11. r = x
  BY <1>10 DEF FinishSucceeded
<1>12. workers[x][t].stage = "finishing" /\ workers[x][t] \in Worker
  BY <1>10, <1>11 DEF Finish, AgentTypes, WorkersType
<1>13. PICK new \in {Gone(workers[x][t]), Reporting(workers[x][t], "other")} : Becomes(x, t, new)
  BY <1>10, <1>11 DEF Finish
<1>14. new.stage \in Done /\ new.calls = workers[x][t].calls
  <2> DEFINE w == workers[x][t]
  <2>1. w \in Worker
    BY <1>12
  <2> HIDE DEF w
  <2>2. Gone(w).stage = "gone" /\ Gone(w).calls = w.calls
    BY <2>1, StoppedWorker, StoppedStage DEF SameCalls
  <2>3. Reporting(w, "other").stage = "reporting" /\ Reporting(w, "other").calls = w.calls
    BY <2>1, ReportingWorker DEF SameCalls
  <2> QED BY <1>13, <2>2, <2>3 DEF Done, w
<1>15. workers'[x][t] = new
  BY <1>13, BecomesAlone DEF AgentTypes
<1>16. t = runs[x].claims
  BY <1>10, <1>11 DEF FinishSucceeded, Holds, Rows, RowInv
<1> QED BY <1>12, <1>14, <1>15, <1>16

\* Calls that are settled move again only while their worker executes.
LEMMA SettledStays ==
    ASSUME TypeOK, Rows, AgentTypes, [AgentNext]_agentVars, NEW x \in Run, NEW t \in Lease,
           AllSettled(x, t), workers[x][t].stage # "executing", NEW j \in Call
    PROVE  To(x, t, j) \in Settled
<1>1. Stage(x, t, j) \in Settled
  BY DEF AllSettled
<1>2. CASE CallStands(x, j)
  BY <1>1, <1>2 DEF CallStands, Settled
<1>3. ASSUME NEW u \in Lease, CallMoves(x, u, j)
      PROVE  To(x, t, j) \in Settled
  <2>1. CASE u = t
    BY <1>1, <1>3, <2>1 DEF CallMoves, Advances, Asks, Starts, Executes, Records, Settled
  <2>2. CASE u # t
    BY <1>1, <1>3, <2>2, MoverMovesAlone
  <2> QED BY <2>1, <2>2
<1> QED BY <1>2, <1>3, StepOfOneCall

\* How a worker's stage moves, in the three kinds of steps.
LEMMA StageStep ==
    ASSUME TypeOK, Rows, AgentTypes, [AgentNext]_agentVars, NEW x \in Run, NEW t \in Lease
    PROVE  \/ /\ workers'[x][t].stage = "finishing" => workers[x][t].stage = "finishing" \/ AllSettled(x, t)
              /\ workers[x][t].stage \in Done => workers'[x][t].stage \in Done
           \/ workers'[x][t].stage # "finishing" /\ runs[x].status = "queued"
<1>1. ASSUME Still(x, t) \/ Handed(x, t) \/ workers'[x][t].stage = workers[x][t].stage
      PROVE  \/ /\ workers'[x][t].stage = "finishing" => workers[x][t].stage = "finishing" \/ AllSettled(x, t)
                /\ workers[x][t].stage \in Done => workers'[x][t].stage \in Done
             \/ workers'[x][t].stage # "finishing" /\ runs[x].status = "queued"
  BY <1>1 DEF Still, Handed, AllSettled
<1>2. ASSUME NEW r \in Run, NEW u \in Lease, NEW k \in Call, CallMoves(r, u, k)
      PROVE  workers'[x][t].stage = workers[x][t].stage
  BY <1>2 DEF CallMoves, OthersStand, MovesAlone
<1> QED BY <1>1, <1>2, StepMovesWorkers DEF AllStill, HandsOut

\* A worker that comes to send in its answer has settled its calls by then, and
\* they stay as they are.
LEMMA KeepsFinishesSettled ==
    ASSUME QueueInv, AgentTypes, CallInv, [AgentNext]_agentVars
    PROVE  FinishesSettled'
<1> USE DEF QueueInv
<1>0. [Next]_vars
  BY WorkerStepIsQueues
<1>1. ASSUME NEW x \in Run, NEW t \in Lease, workers'[x][t].stage = "finishing"
      PROVE  \A j \in Call : To(x, t, j) \in Settled
  <2>1. CASE workers[x][t].stage = "finishing"
    <3>1. AllSettled(x, t)
      BY <2>1 DEF CallInv, FinishesSettled
    <3> QED BY <2>1, <3>1, SettledStays
  <2>2. CASE workers[x][t].stage # "finishing"
    <3>1. AllSettled(x, t)
      BY <1>1, <2>2, StageStep
    <3>2. ASSUME NEW j \in Call, NEW u \in Lease, CallMoves(x, u, j)
          PROVE  workers'[x][t].stage = workers[x][t].stage
      BY <3>2 DEF CallMoves, OthersStand, MovesAlone
    <3>3. \A j \in Call : CallStands(x, j)
      BY <1>1, <2>2, <3>2, StepOfOneCall
    <3> QED BY <3>1, <3>3 DEF AllSettled, CallStands, Settled
  <2> QED BY <2>1, <2>2
<1>2. ASSUME NEW x \in Run, NEW t \in Lease, runs'[x].status = "succeeded", t = runs'[x].claims
      PROVE  workers'[x][t].stage \in Done /\ \A j \in Call : To(x, t, j) \in Settled
  <2>1. CASE runs[x].status = "succeeded"
    <3>1. runs'[x].claims = runs[x].claims
      BY <1>0, <2>1, LeasesAreIssued
    <3>2. workers[x][t].stage \in Done /\ AllSettled(x, t)
      BY <1>2, <2>1, <3>1 DEF CallInv, FinishesSettled, Current
    <3>3. workers'[x][t].stage \in Done
      BY <2>1, <3>2, StageStep
    <3>4. workers[x][t].stage # "executing"
      BY <3>2 DEF Done
    <3> QED BY <3>2, <3>3, <3>4, SettledStays
  <2>2. CASE runs[x].status # "succeeded"
    <3>1. PICK u \in Lease : /\ workers[x][u].stage = "finishing" /\ workers'[x][u].stage \in Done
                             /\ workers'[x][u].calls = workers[x][u].calls /\ u = runs[x].claims
      BY <1>2, <2>2, SucceedsByFinish
    <3>2. runs[x].status # "queued"
      <4>1. PICK n \in Nat : FinishSucceeded(x, n)
        BY <1>0, <1>2, <2>2, RunSucceeds
      <4> QED BY <4>1 DEF FinishSucceeded, Holds
    <3>3. u = t
      BY <1>0, <1>2, <3>1, <3>2, LeasesAreIssued
    <3>4. AllSettled(x, t)
      BY <3>1, <3>3 DEF CallInv, FinishesSettled
    <3> QED BY <3>1, <3>3, <3>4 DEF AllSettled, To, Stage
  <2> QED BY <2>1, <2>2
<1> QED BY <1>1, <1>2 DEF FinishesSettled, AllSettled, Stage, To, Current

LEMMA KeepsCallInv ==
    ASSUME QueueInv, AgentTypes, CallInv, [AgentNext]_agentVars
    PROVE  CallInv'
BY KeepsOneBody, KeepsClaimedFirst, KeepsEffectAtMostOnce, KeepsReceiptsFit, KeepsOpenIsKnown, KeepsFinishesSettled
   DEF CallInv

LEMMA KeepsQueueInv ==
    ASSUME QueueInv, [Next]_vars
    PROVE  QueueInv'
BY NextKeepsTypes, NextKeepsBlank, NextKeepsQueuedTools DEF QueueInv

LEMMA InitCallInv == AgentInit => QueueInv /\ AgentTypes /\ CallInv
<1> SUFFICES ASSUME AgentInit PROVE QueueInv /\ AgentTypes /\ CallInv
  OBVIOUS
<1>1. QueueInv
  BY InitTypes DEF AgentInit, Init, QueueInv, BlankInv, QueuedHasNoOpenTool, NoRow
<1>2. \A r \in Run, t \in Lease : workers[r][t].stage = "none" /\ \A k \in Call : Stage(r, t, k) = "idle"
  BY DEF AgentInit, Nobody, Stage
<1>3. \A r \in Run, k \in Call : effects[r][k] = <<>> /\ Len(<<>>) = 0 /\ ~HasReturned(r, k)
  BY DEF AgentInit, HasReturned
<1>4. \A r \in Run : runs[r].status = "absent"
  BY DEF AgentInit, Init, NoRow
<1>5. OneBody /\ ClaimedFirst /\ EffectAtMostOnce
  BY <1>2, <1>3 DEF OneBody, ClaimedFirst, EffectAtMostOnce, InBody
<1>6. ReceiptsFit /\ OpenIsKnown /\ FinishesSettled
  BY <1>2, <1>3, <1>4 DEF ReceiptsFit, OpenIsKnown, FinishesSettled, InBody
<1> QED BY <1>1, <1>5, <1>6, InitAgentTypes DEF CallInv

AgentInv == QueueInv /\ AgentTypes /\ CallInv

LEMMA AgentStepKeepsInv == AgentInv /\ [AgentNext]_agentVars => AgentInv'
BY WorkerStepIsQueues, KeepsQueueInv, KeepsAgentTypes, KeepsCallInv DEF AgentInv, QueueInv

\* However often a run is recovered, its requests repeated and their answers lost,
\* a call's body has its effect at most once.
THEOREM EffectsHappenOnce == AgentSpec => []EffectAtMostOnce
<1>1. AgentInv => EffectAtMostOnce
  BY DEF AgentInv, CallInv
<1> QED BY <1>1, InitCallInv, AgentStepKeepsInv, PTL DEF AgentSpec, AgentInv

\* An answer that reached the user rests on no effect without a receipt.
THEOREM AnswersRestOnReceipts == AgentSpec => []AnswerRestsOnReceipts
<1>1. AgentInv => AnswerRestsOnReceipts
  <2> SUFFICES ASSUME AgentInv, NEW r \in Run, NEW k \in Call, NEW i \in 1..Len(effects[r][k]),
                      runs[r].status = "succeeded", ~effects[r][k][i].threw
               PROVE  receipts[r][k] = "succeeded"
    BY DEF AnswerRestsOnReceipts
  <2>1. HasReturned(r, k)
    BY DEF HasReturned
  <2>2. receipts[r][k] \in {"running", "succeeded"}
    BY <2>1 DEF AgentInv, CallInv, ReceiptsFit
  <2>3. receipts[r][k] # "running"
    BY <2>1 DEF AgentInv, CallInv, OpenIsKnown, FinishesSettled, AllSettled, Settled
  <2> QED BY <2>2, <2>3
<1> QED BY <1>1, InitCallInv, AgentStepKeepsInv, PTL DEF AgentSpec, AgentInv

\* Nobody has an effect behind the back of a successor.
THEOREM EffectsAreCurrent == AgentSpec => NoEffectBehindSuccessor
<1>1. AgentInv /\ [AgentNext]_agentVars
      => [\A r \in Run, k \in Call : effects'[r][k] # effects[r][k] =>
            effects'[r][k][Len(effects'[r][k])].lease = runs[r].claims]_agentVars
  <2> SUFFICES ASSUME AgentInv, [AgentNext]_agentVars, NEW x \in Run, NEW j \in Call,
                      effects'[x][j] # effects[x][j]
               PROVE  effects'[x][j][Len(effects'[x][j])].lease = runs[x].claims
    OBVIOUS
  <2> USE DEF AgentInv, QueueInv, AgentTypes
  <2>1. PICK t \in Lease : Executes(x, t, j)
    BY StepOfOneCall DEF CallStands, SameEffects, CallMoves, Advances, Asks, Starts, Records
  <2>2. effects[x][j] = <<>> /\ t = runs[x].claims
    BY <2>1, FirstEffect DEF CallInv, ClaimedFirst, Executes
  <2>3. PICK threw \in BOOLEAN : effects'[x][j] = <<[lease |-> t, threw |-> threw]>>
    BY <2>1, <2>2, FirstEffect
  <2>4. \A e : Len(<<e>>) = 1 /\ <<e>>[1] = e
    OBVIOUS
  <2> QED BY <2>2, <2>3, <2>4
<1> QED BY <1>1, InitCallInv, AgentStepKeepsInv, PTL DEF AgentSpec, AgentInv, NoEffectBehindSuccessor

----------------------------------------------------------------------------
(* Consent to writes. *)

\* The mode the worker works under asks for nobody, or a person has approved.
Consented(r, t, k) ==
    LET mode == workers[r][t].mode IN mode = "auto" \/ (mode = "ask" /\ gates[r][k] = "approved")

\* Whoever waits for a person works under a mode that asks one, and who is past
\* the gate was let through.
ConsentFirst ==
    \A r \in Run, t \in Lease, k \in Writes :
        /\ Stage(r, t, k) \in {"asking", "waiting"} => workers[r][t].mode = "ask"
        /\ Stage(r, t, k) \in {"starting"} \cup InBody => Consented(r, t, k)

\* Effects are of leases that were issued.
EffectsOfIssued ==
    \A r \in Run, k \in Call : \A i \in 1..Len(effects[r][k]) :
        effects[r][k][i].lease <= runs[r].claims

LEMMA EffectTyped ==
    ASSUME EffectsType, NEW x \in Run, NEW j \in Call, NEW i \in 1..Len(effects[x][j])
    PROVE  effects[x][j][i].lease \in Lease
<1>1. effects[x][j] \in Seq(Effect)
  BY DEF EffectsType
<1>2. effects[x][j][i] \in Effect
  BY <1>1
<1> QED BY <1>2 DEF Effect

LEMMA ModeStep ==
    ASSUME TypeOK, Rows, AgentTypes, [AgentNext]_agentVars, NEW x \in Run, NEW t \in Lease
    PROVE  \/ workers'[x][t].mode = workers[x][t].mode
           \/ /\ t = runs[x].claims + 1
              /\ \A k \in Call : To(x, t, k) = "idle"
<1>1. ASSUME Still(x, t) \/ Handed(x, t)
      PROVE  \/ workers'[x][t].mode = workers[x][t].mode
             \/ t = runs[x].claims + 1 /\ \A k \in Call : To(x, t, k) = "idle"
  BY <1>1 DEF Still, SameCalls, Handed, To
<1>2. ASSUME NEW r \in Run, NEW u \in Lease, NEW k \in Call, CallMoves(r, u, k)
      PROVE  workers'[x][t].mode = workers[x][t].mode
  BY <1>2 DEF CallMoves, OthersStand, MovesAlone
<1> QED BY <1>1, <1>2, StepMovesWorkers DEF AllStill, HandsOut

\* An approval stands.
LEMMA ApprovalStands ==
    ASSUME TypeOK, [Next]_vars, NEW x \in Run, NEW k \in Call, gates[x][k] = "approved"
    PROVE  gates'[x][k] = "approved"
BY GateStep DEF Verdict

LEMMA KeepsConsentFirst ==
    ASSUME AgentInv, ConsentFirst, [AgentNext]_agentVars
    PROVE  ConsentFirst'
<1> USE AgentAssumption DEF AgentInv, QueueInv
<1> SUFFICES ASSUME NEW x \in Run, NEW t \in Lease, NEW j \in Writes
             PROVE  /\ To(x, t, j) \in {"asking", "waiting"} => workers'[x][t].mode = "ask"
                    /\ To(x, t, j) \in {"starting"} \cup InBody =>
                         \/ workers'[x][t].mode = "auto"
                         \/ workers'[x][t].mode = "ask" /\ gates'[x][j] = "approved"
  BY DEF ConsentFirst, Consented, Stage, To
<1> USE DEF InBody
<1>0. j \in Call /\ [Next]_vars
  BY WorkerStepIsQueues
<1>1. /\ Stage(x, t, j) \in {"asking", "waiting"} => workers[x][t].mode = "ask"
      /\ Stage(x, t, j) \in {"starting"} \cup InBody =>
           \/ workers[x][t].mode = "auto"
           \/ workers[x][t].mode = "ask" /\ gates'[x][j] = "approved"
  BY <1>0, ApprovalStands DEF ConsentFirst, Consented
<1>2. CASE To(x, t, j) = "idle"
  BY <1>2
<1>3. CASE To(x, t, j) # "idle"
  <2>1. workers'[x][t].mode = workers[x][t].mode
    BY <1>0, <1>3, ModeStep
  <2>2. CASE To(x, t, j) = Stage(x, t, j)
    BY <1>1, <2>1, <2>2
  <2>3. CASE To(x, t, j) # Stage(x, t, j)
    <3>1. PICK u \in Lease : CallMoves(x, u, j)
      BY <1>0, <1>3, <2>3, StepOfOneCall DEF CallStands
    <3>2. u = t
      BY <1>0, <2>3, <3>1, MoverMovesAlone
    <3>3. CASE Asks(x, t, j)
      BY <1>1, <2>1, <3>3 DEF Asks
    <3>4. CASE Starts(x, t, j) \/ Executes(x, t, j) \/ Records(x, t, j)
      BY <1>1, <2>1, <3>4 DEF Starts, Executes, Records
    <3> QED BY <3>1, <3>2, <3>3, <3>4 DEF CallMoves, Advances
  <2> QED BY <2>2, <2>3
<1> QED BY <1>2, <1>3

LEMMA KeepsEffectsOfIssued ==
    ASSUME AgentInv, EffectsOfIssued, [AgentNext]_agentVars
    PROVE  EffectsOfIssued'
<1> USE DEF AgentInv, QueueInv
<1> SUFFICES ASSUME NEW x \in Run, NEW j \in Call, NEW i \in 1..Len(effects'[x][j])
             PROVE  effects'[x][j][i].lease <= runs'[x].claims
  BY DEF EffectsOfIssued
<1>0. [Next]_vars
  BY WorkerStepIsQueues
<1>1. runs[x] \in Row /\ runs'[x] \in Row /\ runs[x].claims <= runs'[x].claims
  <2>1. runs[x] \in Row /\ RowInv(runs[x]) /\ RowStep(runs[x], runs'[x], TakenBack(x))
    BY <1>0, NextIsRowStep DEF TypeOK, Rows
  <2> QED BY <2>1, RowStepFacts, RowStepKeepsRow
<1>2. runs[x].claims \in Nat /\ runs'[x].claims \in Nat
  BY <1>1 DEF Row
<1>3. CASE SameEffects(x, j)
  <2>1. i \in 1..Len(effects[x][j]) /\ effects'[x][j][i] = effects[x][j][i]
    BY <1>3 DEF SameEffects
  <2>2. effects[x][j][i].lease \in Nat
    BY <2>1, EffectTyped DEF AgentTypes, Lease
  <2> QED BY <1>1, <1>2, <2>1, <2>2 DEF EffectsOfIssued
<1>4. ASSUME NEW t \in Lease, Executes(x, t, j)
      PROVE  effects'[x][j][i].lease <= runs'[x].claims
  <2>1. t = runs[x].claims
    BY <1>4, FirstEffect DEF AgentTypes
  <2>2. effects'[x][j][i].lease = t
    <3>1. \A e : Len(<<>>) = 0 /\ Len(<<e>>) = 1 /\ <<e>>[1] = e
      OBVIOUS
    <3>2. CASE effects'[x][j] = <<>>
      BY <3>1, <3>2
    <3>3. ASSUME NEW threw \in BOOLEAN, effects'[x][j] = <<[lease |-> t, threw |-> threw]>>
          PROVE  effects'[x][j][i].lease = t
      BY <3>1, <3>3
    <3> QED BY <1>4, <3>2, <3>3, FirstEffect DEF AgentTypes
  <2> QED BY <1>1, <2>1, <2>2
<1> QED BY <1>3, <1>4, StepOfOneCall DEF CallStands, CallMoves, Advances, Asks, Starts, Records

\* The mode of an effect's worker and the verdict it was let through by both stand.
LEMMA KeepsConsent ==
    ASSUME AgentInv, ConsentFirst, EffectsOfIssued, WritesNeedConsent, [AgentNext]_agentVars
    PROVE  WritesNeedConsent'
<1> USE AgentAssumption DEF AgentInv, QueueInv
<1> DEFINE Let(x, t, j) == \/ workers'[x][t].mode = "auto"
                           \/ workers'[x][t].mode = "ask" /\ gates'[x][j] = "approved"
<1> SUFFICES ASSUME NEW x \in Run, NEW j \in Writes, NEW i \in 1..Len(effects'[x][j])
             PROVE  Let(x, effects'[x][j][i].lease, j)
  BY DEF WritesNeedConsent
<1>0. j \in Call /\ [Next]_vars
  BY WorkerStepIsQueues
<1>1. ASSUME NEW t \in Lease, t <= runs[x].claims, Consented(x, t, j)
      PROVE  Let(x, t, j)
  <2>1. runs[x].claims \in Nat
    BY DEF TypeOK, Row
  <2>2. workers'[x][t].mode = workers[x][t].mode
    BY <1>1, <2>1, ModeStep DEF Lease
  <2> QED BY <1>0, <1>1, <2>2, ApprovalStands DEF Consented
<1>2. CASE SameEffects(x, j)
  <2>1. i \in 1..Len(effects[x][j]) /\ effects'[x][j][i] = effects[x][j][i]
    BY <1>2 DEF SameEffects
  <2> DEFINE t == effects[x][j][i].lease
  <2>2. t \in Lease
    BY <1>0, <2>1, EffectTyped DEF AgentTypes
  <2>3. t <= runs[x].claims
    BY <1>0, <2>1 DEF EffectsOfIssued
  <2>4. Consented(x, t, j)
    BY <2>1 DEF WritesNeedConsent, Consented
  <2>5. Let(x, t, j)
    BY <1>1, <2>2, <2>3, <2>4
  <2> QED BY <2>1, <2>5
<1>3. ASSUME NEW t \in Lease, Executes(x, t, j)
      PROVE  Let(x, effects'[x][j][i].lease, j)
  <2>1. t = runs[x].claims /\ runs[x].claims \in Nat
    BY <1>0, <1>3, FirstEffect DEF AgentTypes, TypeOK, Row
  <2>2. Consented(x, t, j)
    BY <1>3 DEF Executes, ConsentFirst, InBody
  <2>3. Let(x, t, j)
    BY <1>1, <2>1, <2>2
  <2>4. effects'[x][j][i].lease = t
    <3>1. \A e : Len(<<>>) = 0 /\ Len(<<e>>) = 1 /\ <<e>>[1] = e
      OBVIOUS
    <3>2. CASE effects'[x][j] = <<>>
      BY <3>1, <3>2
    <3>3. ASSUME NEW threw \in BOOLEAN, effects'[x][j] = <<[lease |-> t, threw |-> threw]>>
          PROVE  effects'[x][j][i].lease = t
      BY <3>1, <3>3
    <3> QED BY <1>0, <1>3, <3>2, <3>3, FirstEffect DEF AgentTypes
  <2> QED BY <2>3, <2>4
<1> QED BY <1>0, <1>2, <1>3, StepOfOneCall DEF CallStands, CallMoves, Advances, Asks, Starts, Records

\* A write happened by the word of a person, or under a mode that asks nobody.
THEOREM WritesHaveConsent == AgentSpec => []WritesNeedConsent
<1>1. AgentInit => AgentInv /\ ConsentFirst /\ EffectsOfIssued /\ WritesNeedConsent
  <2> SUFFICES ASSUME AgentInit
               PROVE  ConsentFirst /\ EffectsOfIssued /\ WritesNeedConsent
    BY InitCallInv DEF AgentInv
  <2>1. \A r \in Run, t \in Lease, k \in Call : Stage(r, t, k) = "idle"
    BY DEF AgentInit, Nobody, Stage
  <2>2. \A r \in Run, k \in Call : effects[r][k] = <<>> /\ Len(<<>>) = 0
    BY DEF AgentInit
  <2> QED BY <2>1, <2>2, AgentAssumption DEF ConsentFirst, EffectsOfIssued, WritesNeedConsent, InBody
<1>2. AgentInv /\ ConsentFirst /\ EffectsOfIssued /\ WritesNeedConsent /\ [AgentNext]_agentVars
      => (AgentInv /\ ConsentFirst /\ EffectsOfIssued /\ WritesNeedConsent)'
  BY AgentStepKeepsInv, KeepsConsentFirst, KeepsEffectsOfIssued, KeepsConsent
<1> QED BY <1>1, <1>2, PTL DEF AgentSpec

\* Workers, policies and histories of effects keep their shape.
THEOREM WorkerTypes == AgentSpec => []AgentTypeOK
<1>1. AgentInv => AgentTypeOK
  BY DEF AgentInv, AgentTypes, WorkersType, EffectsType, AgentTypeOK
<1> QED BY <1>1, InitCallInv, AgentStepKeepsInv, PTL DEF AgentSpec, AgentInv
=============================================================================
