---------------------------- MODULE RunLifecycle ----------------------------
(***************************************************************************)
(* What a conversation promises of its runs, without leases, clocks,       *)
(* tokens, logs or a reaper: a turn waits, is worked on, may be taken back *)
(* and handed out again, and ends once; only an answered turn leaves a     *)
(* reply; a turn that was asked to stop is never answered and never taken  *)
(* back.                                                                   *)
(***************************************************************************)
EXTENDS Integers, Sequences, FiniteSets

CONSTANTS Run, Conversation, None,
          Attempts      \* how often one turn may be handed out

VARIABLES
    phase,      \* run -> where it stands
    home,       \* run -> its conversation
    stopping,   \* the runs somebody asked to stop
    attempts,   \* run -> times it was handed out
    transcript  \* conversation -> its messages

lifecycleVars == <<phase, home, stopping, attempts, transcript>>

Open == {"queued", "running"}
Closed == {"succeeded", "failed", "cancelled"}

Idle(c) == \A r \in Run : phase[r] \in Open => home[r] # c

Init ==
    /\ phase = [r \in Run |-> "absent"]
    /\ home = [r \in Run |-> None]
    /\ stopping = {}
    /\ attempts = [r \in Run |-> 0]
    /\ transcript = [c \in Conversation |-> <<>>]

\* A user's turn: its question becomes the last message of an idle conversation.
Ask(r, c) ==
    /\ phase[r] = "absent" /\ Idle(c)
    /\ phase' = [phase EXCEPT ![r] = "queued"]
    /\ home' = [home EXCEPT ![r] = c]
    /\ transcript' = [transcript EXCEPT ![c] = Append(@, [role |-> "user", run |-> r])]
    /\ UNCHANGED <<stopping, attempts>>

AskToStop(r) ==
    /\ phase[r] \in Open
    /\ stopping' = stopping \cup {r}
    /\ phase' = [phase EXCEPT ![r] = IF @ = "queued" THEN "cancelled" ELSE @]
    /\ UNCHANGED <<home, attempts, transcript>>

HandOut(r) ==
    /\ phase[r] = "queued" /\ attempts[r] < Attempts
    /\ phase' = [phase EXCEPT ![r] = "running"]
    /\ attempts' = [attempts EXCEPT ![r] = @ + 1]
    /\ UNCHANGED <<home, stopping, transcript>>

\* Turns whose worker is lost go back in the queue, several at once.
TakeBack(S) ==
    /\ \A r \in S : phase[r] = "running" /\ r \notin stopping /\ attempts[r] < Attempts
    /\ phase' = [r \in Run |-> IF r \in S THEN "queued" ELSE phase[r]]
    /\ UNCHANGED <<home, stopping, attempts, transcript>>

Answer(r) ==
    /\ phase[r] = "running" /\ r \notin stopping
    /\ phase' = [phase EXCEPT ![r] = "succeeded"]
    /\ transcript' = [transcript EXCEPT ![home[r]] = Append(@, [role |-> "assistant", run |-> r])]
    /\ UNCHANGED <<home, stopping, attempts>>

\* Turns end without an answer, several at once; those asked to stop end cancelled.
GiveUp(S, outcome) ==
    /\ \A r \in S : phase[r] \in Open /\ (r \in stopping => outcome[r] = "cancelled")
    /\ phase' = [r \in Run |-> IF r \in S THEN outcome[r] ELSE phase[r]]
    /\ UNCHANGED <<home, stopping, attempts, transcript>>

\* A turn too large for its model fails and leaves a turn s that tidies up.
FollowUp(r, s) ==
    /\ phase[r] = "running" /\ r \notin stopping
    /\ phase[s] = "absent"
    /\ phase' = [phase EXCEPT ![r] = "failed", ![s] = "queued"]
    /\ home' = [home EXCEPT ![s] = home[r]]
    /\ UNCHANGED <<stopping, attempts, transcript>>

Next ==
    \/ \E r \in Run :
         \/ \E c \in Conversation : Ask(r, c)
         \/ AskToStop(r) \/ HandOut(r) \/ Answer(r)
         \/ \E s \in Run : FollowUp(r, s)
    \/ \E S \in SUBSET Run :
         \/ TakeBack(S)
         \/ \E outcome \in [S -> {"failed", "cancelled"}] : GiveUp(S, outcome)

Spec == Init /\ [][Next]_lifecycleVars
=============================================================================
