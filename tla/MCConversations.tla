--------------------------- MODULE MCConversations ---------------------------
(* Symmetry for the models of Conversations, and a view of their states that *)
(* leaves out what no guard reads and no property of the run mentions: with  *)
(* MaxRecovery = 0 the snapshots; of a run that is over (no tool call,       *)
(* Call = {}, keeps its clock going) the lease, the deadline and the log;    *)
(* what was typed as a command; and what a deleted conversation was.         *)
EXTENDS Conversations, TLC

CONSTANT MaxRows

Symmetry == Permutations(Run) \cup Permutations(Request) \cup Permutations(Conversation)

RunView(r) ==
    IF Active(r) THEN <<runs[r], events[r]>>
    ELSE <<[runs[r] EXCEPT !.lease = 0, !.leaseLive = FALSE, !.deadline = 0]>>

ThreadView(c) ==
    IF Live(c) THEN <<threads[c], copied[c], measured[c], latest[c]>> ELSE <<threads[c].status>>

Essential ==
    <<[r \in Run |-> RunView(r)], [c \in Conversation |-> ThreadView(c)],
      messages, through, reaper, resets, shown>>

\* The bound: three runs in one conversation under two request ids, or in two under one;
\* two runs in two conversations under two, or in three under one; and so on.
UsedRequests ==
    {runs[r].origin : r \in Run} \cup {threads[c].request : c \in {b \in Conversation : Live(b)}}
        \cup {row.request : row \in resets}
Bound ==
    Cardinality({r \in Run : runs[r].status # "absent"})
        + Cardinality({c \in Conversation : threads[c].status # "absent"})
        + Cardinality(UsedRequests \cap Request) <= MaxRows

\* A round of the reaper that finds nothing changes nothing, and its first and last
\* statements have nothing to do here: only the rounds that end a run are explored.
RoundsThatCount == reaper = "requeue" /\ reaper' # reaper => \E r \in Run : Overdue(r)
=============================================================================
