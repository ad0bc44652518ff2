---------------------------- MODULE Conversations ----------------------------
(***************************************************************************)
(* The conversations around the run queue: how they begin, are continued,  *)
(* branched off by an edit or a derivation, started afresh and deleted,    *)
(* what a run's job shows the model of them, and what a page that opens    *)
(* one reads.                                                              *)
(*                                                                         *)
(* A branch begins with copies of its parent's messages.  They stand in    *)
(* front of everything the queue appends, so `messages` and `through` keep *)
(* their meaning in RunQueue and every step here is one of RunQueue's, or  *)
(* leaves its rows alone.  The rows of a deleted conversation stay in the  *)
(* model as history; no statement finds them.                              *)
(***************************************************************************)
EXTENDS RunQueue, SequencesExt

VARIABLES
    threads,    \* conversation -> its row
    copied,     \* conversation -> the messages it was created with
    resets,     \* the rows of conversation_resets
    measured,   \* conversation -> its last measured model request filled the window
    latest,     \* conversation -> the run created last in it
    commands,   \* history: the runs whose input is the command /compact
    shown       \* history: run -> the messages its job told the model of

threadVars == <<threads, copied, resets, measured, latest, commands, shown>>
conversationVars == <<vars, threadVars>>

----------------------------------------------------------------------------
(* Messages. *)

\* A message as it is read: `partial` is a reply put together from the event log of
\* a run that did not succeed.
Entry == [role : {"user", "assistant"}, run : Run, partial : BOOLEAN]
Said(r) == [role |-> "user", run |-> r, partial |-> FALSE]
Partial(r) == [role |-> "assistant", run |-> r, partial |-> TRUE]
Saved(m) == [role |-> m.role, run |-> m.run, partial |-> FALSE]
IsQuestion(m) == m.role = "user"

Own(c) == [i \in 1..Len(messages[c]) |-> Saved(messages[c][i])]
History(c) == copied[c] \o Own(c)

NoThread == [status |-> "absent", parent |-> None, request |-> None, edited |-> FALSE]
Thread(parent, request, edited) ==
    [status |-> "live", parent |-> parent, request |-> request, edited |-> edited]

Live(c) == threads[c].status = "live"
HasRuns(c) == \E r \in Run : runs[r].conversation = c

\* How many messages of the conversation the summary in place stands for.
Covered(c) == IF through[c] = 0 THEN 0 ELSE Len(copied[c]) + through[c]

\* What a summary tells of: what its own run was told of.
Summarized(c) == IF through[c] = 0 THEN {} ELSE shown[messages[c][through[c]].run]

FirstQuestion(s) ==
    {s[i] : i \in {j \in 1..Len(s) : IsQuestion(s[j]) /\ ~ \E k \in 1..(j - 1) : IsQuestion(s[k])}}

\* modelHistory: what follows the summary, the summary, and the first question.
UncoveredShort(c) == ToSet(SubSeq(History(c), Covered(c) + 2, Len(History(c))))
Uncovered(c) == ToSet(SubSeq(History(c), Covered(c) + 1, Len(History(c))))
ModelHistory(c) ==
    Uncovered(c) \cup Summarized(c) \cup FirstQuestion(SubSeq(History(c), 1, Covered(c)))

\* The job of a claimed run.  A compaction's transcript leaves out the compaction's own turn.
Job(r) == IF runs[r].compact THEN {m \in ModelHistory(runs[r].conversation) : m.run # r}
          ELSE ModelHistory(runs[r].conversation)

ConversationsInit ==
    /\ Init
    /\ threads = [c \in Conversation |-> NoThread]
    /\ copied = [c \in Conversation |-> <<>>]
    /\ resets = {}
    /\ measured = [c \in Conversation |-> FALSE]
    /\ latest = [c \in Conversation |-> None]
    /\ commands = {}
    /\ shown = [r \in Run |-> {}]

----------------------------------------------------------------------------
(* Conversations begin and end. *)

\* Conversations.create hands out a conversation without runs, if there is one.
Reusable(c) == Live(c) /\ ~HasRuns(c)

Create(d) ==
    /\ threads[d].status = "absent"
    /\ ~ \E c \in Conversation : Reusable(c)
    /\ threads' = [threads EXCEPT ![d] = Thread(None, None, FALSE)]
    /\ UNCHANGED <<vars, copied, resets, measured, latest, commands, shown>>

\* Conversations.reset: a blank conversation beside the old one, once per request.
Reset(c, q, d) ==
    /\ Live(c) /\ threads[d].status = "absent"
    /\ ~ \E row \in resets : row.source = c /\ row.request = q
    /\ ~Busy(c)
    /\ threads' = [threads EXCEPT ![d] = Thread(None, None, FALSE)]
    /\ resets' = resets \cup {[source |-> c, request |-> q, next |-> d]}
    /\ UNCHANGED <<vars, copied, measured, latest, commands, shown>>

BranchedAndRunning(c, q) ==
    \E b \in Conversation : Live(b) /\ threads[b].parent = c /\ threads[b].request = q /\ Busy(b)

\* A branch of c was made for request q already, and still exists.
Branched(c, q) == \E b \in Conversation : Live(b) /\ threads[b].parent = c /\ threads[b].request = q

\* The question m of a run of c that ended without an answer that is in h.
InterruptedByFailure(c, h, m) ==
    IsQuestion(m) /\ runs[m.run].conversation = c /\ runs[m.run].status = "failed"
Interrupted(c, h, m) ==
    /\ IsQuestion(m)
    /\ ~ \E n \in ToSet(h) : n.role = "assistant" /\ n.run = m.run
    /\ runs[m.run].conversation = c /\ runs[m.run].status \in {"failed", "cancelled"}

\* Messages h of c with the interrupted replies from the event log in their places.
Restored(c, h) ==
    FlattenSeq([i \in 1..Len(h) |-> IF Interrupted(c, h, h[i]) THEN <<h[i], Partial(h[i].run)>> ELSE <<h[i]>>])

\* Conversations.derive copies the saved messages up to and including the i-th.
Derive(c, i, q, d) ==
    /\ Live(c) /\ threads[d].status = "absent" /\ ~Branched(c, q)
    /\ threads' = [threads EXCEPT ![d] = Thread(c, q, FALSE)]
    /\ copied' = [copied EXCEPT ![d] = SubSeq(History(c), 1, i)]
    /\ UNCHANGED <<vars, resets, measured, latest, commands, shown>>

\* A turn's run: the queue's row and message, and whether the user typed the command.
Turn(c, q, r, command, compact) ==
    /\ Enqueue(c, q, r, compact)
    /\ latest' = [latest EXCEPT ![c] = r]
    /\ commands' = IF command THEN commands \cup {r} ELSE commands

\* Conversations.edit: a branch with everything before the i-th message, a question,
\* and the edited question as its first turn.  Nothing has been measured in it.
Edit(c, i, q, d, r, command) ==
    /\ Live(c) /\ threads[d].status = "absent" /\ ~Branched(c, q)
    /\ ~Busy(c)
    /\ IsQuestion(History(c)[i])
    /\ command => i > 1
    /\ threads' = [threads EXCEPT ![d] = Thread(c, q, TRUE)]
    /\ copied' = [copied EXCEPT ![d] = Restored(c, SubSeq(History(c), 1, i - 1))]
    /\ Turn(d, q, r, command, command)
    /\ UNCHANGED <<resets, measured, shown>>

\* Conversations.enqueue: the command compacts, and needs something to compact; so
\* does a turn that finds the window filled, unless pruning makes room.
Talk(c, q, r, command) ==
    /\ Live(c)
    /\ command => History(c) # <<>>
    /\ \E compact \in BOOLEAN :
         /\ command => compact
         /\ compact => command \/ (measured[c] /\ History(c) # <<>>)
         /\ Turn(c, q, r, command, compact)
    /\ UNCHANGED <<threads, copied, resets, measured, shown>>

\* Conversations.remove.  What was reset from it or into it is forgotten; its branches
\* keep the name of a parent that is gone.
Delete(c) ==
    /\ Live(c) /\ ~Busy(c)
    /\ threads' = [threads EXCEPT ![c].status = "deleted"]
    /\ copied' = [copied EXCEPT ![c] = <<>>]
    /\ resets' = {row \in resets : c \notin {row.source, row.next}}
    /\ UNCHANGED <<vars, measured, latest, commands, shown>>

----------------------------------------------------------------------------
(* The queue's own steps. *)

ClaimJob(r) ==
    /\ Claim(r)
    /\ shown' = [shown EXCEPT ![r] = Job(r)]
    /\ UNCHANGED <<threads, copied, resets, measured, latest, commands>>

Inserted == {s \in Run : runs[s].status = "absent" /\ runs'[s].status # "absent"}

\* A request of the runtime.  An event may be the measurement of a model request;
\* a finish may insert an overflow's compaction run.
Work(r, t) ==
    LET c == runs[r].conversation IN
    /\ RuntimeRequest(r, t)
    /\ \E full \in BOOLEAN :
         /\ events' = events => full = measured[c]
         /\ measured' = [measured EXCEPT ![c] = full]
    /\ \/ Inserted = {} /\ UNCHANGED latest
       \/ \E s \in Inserted : latest' = [latest EXCEPT ![c] = s]
    /\ UNCHANGED <<threads, copied, resets, commands, shown>>

RestOfQueue ==
    /\ \/ \E r \in Run : Cancel(r) \/ ClaimForbidden(r) \/ Tick(r) \/ LeaseLapse(r)
       \/ Reap
    /\ UNCHANGED threadVars

ConversationsNext ==
    \/ \E d \in Conversation :
         \/ Create(d)
         \/ Delete(d)
         \/ \E c \in Conversation, q \in Request :
              \/ Reset(c, q, d)
              \/ \E i \in 1..Len(History(c)) :
                   \/ Derive(c, i, q, d)
                   \/ \E r \in Run, command \in BOOLEAN : Edit(c, i, q, d, r, command)
    \/ \E c \in Conversation, q \in Request, r \in Run, command \in BOOLEAN : Talk(c, q, r, command)
    \/ \E r \in Run : ClaimJob(r) \/ \E t \in 1..runs[r].claims : Work(r, t)
    \/ RestOfQueue

ConversationsSpec == ConversationsInit /\ [][ConversationsNext]_conversationVars

----------------------------------------------------------------------------
(* What a page reads. *)

\* Conversations.session: the saved messages with the interrupted replies in their places.
Session(c) == Restored(c, History(c))

\* The run the page goes on following, unless its reply is there already.
ResumeRun(c) ==
    IF \E m \in ToSet(Session(c)) : m.role = "assistant" /\ m.run = latest[c] THEN None ELSE latest[c]

----------------------------------------------------------------------------
(* What conversations promise. *)

\* The type invariant: rows, copies and histories have their shape.
ConversationsTypeOK ==
    /\ threads \in [Conversation -> [status : {"absent", "live", "deleted"}, parent : Conversation \cup {None},
                                     request : Request \cup {None}, edited : BOOLEAN]]
    /\ copied \in [Conversation -> Seq(Entry)]
    /\ resets \subseteq [source : Conversation, request : Request, next : Conversation]
    /\ measured \in [Conversation -> BOOLEAN]
    /\ latest \in [Conversation -> Run \cup {None}]
    /\ commands \subseteq Run
    /\ shown \in [Run -> SUBSET Entry]

\* A summary hides nothing from the model that its own run was not told of, by
\* the messages themselves or by the summary before it: except the turns that did
\* nothing but compact.
SummariesHideNothing ==
    \A c \in Conversation : Live(c) =>
        \A i \in 1..Covered(c) :
            LET m == History(c)[i] IN
            m \in Summarized(c) \/ (runs[m.run].conversation = c /\ runs[m.run].compact)

\* The reply of an interrupted run of c, as it is put into a branch of c.
PutIn(c, m) == m.partial /\ runs[m.run].conversation = c

\* How many of its parent's messages a branch holds up to its i-th.
Inherited(b, i) == Cardinality({j \in 1..i : ~PutIn(threads[b].parent, copied[b][j])})

\* While both exist, a branch begins with its parent's messages, none missing and none
\* changed, whatever became of the parent since; an edited one ends where a question
\* stood, and what interrupted runs had said stands behind their questions, once.
\* A request makes one branch.
BranchesAreFaithful ==
    \A b \in Conversation :
        LET c == threads[b].parent
            s == copied[b]
            h == History(c)
            n == Inherited(b, Len(s)) IN
        c # None /\ Live(b) /\ Live(c) =>
            /\ n <= Len(h)
            /\ \A i \in 1..Len(s) : ~PutIn(c, s[i]) => s[i] = h[Inherited(b, i)]
            /\ threads[b].edited =>
                 /\ n < Len(h) /\ IsQuestion(h[n + 1])
                 /\ \A i \in 1..Len(s) :
                      LET replies == {j \in 1..Len(s) : s[j].role = "assistant" /\ s[j].run = s[i].run} IN
                      runs[s[i].run].conversation = c /\ IsQuestion(s[i]) => replies = {i + 1}
            /\ \A d \in Conversation : Live(d) /\ threads[d].parent = c /\ threads[d].request = threads[b].request
                                         => d = b

\* A page that opens a conversation finds every turn of it: with its one reply, behind
\* its question, or as the run to follow.
SessionIsWhole ==
    \A c \in Conversation, r \in Run :
        LET view == Session(c)
            replies == {j \in 1..Len(view) : view[j].role = "assistant" /\ view[j].run = r} IN
        Live(c) /\ runs[r].conversation = c =>
            /\ Active(r) => ResumeRun(c) = r /\ replies = {}
            /\ \A i \in 1..Len(view) : view[i] = Said(r) => IF Active(r) THEN replies = {} ELSE replies = {i + 1}
            /\ runs[r].status = "succeeded" => Cardinality(replies) = 1

----------------------------------------------------------------------------
(* What the repository says of conversations and its code does not do. *)

\* The comment in Conversations.enqueue and the note on automatic compaction: a turn
\* that compacts by itself first summarizes the history, then answers as usual.
TurnsAreAnswered ==
    \A r \in Run \ commands :
        runs[r].status = "succeeded" /\ runs[r].origin \in Request => Said(r) \in shown[r]

\* The comment in Conversations.create: what is handed out again is an unused session.
NewConversationsAreBlank == \A c \in Conversation : Reusable(c) => History(c) = <<>>
=============================================================================
