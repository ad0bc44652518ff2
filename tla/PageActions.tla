---------------------------- MODULE PageActions ----------------------------
(***************************************************************************)
(* The assistant acts on an application's page: a tool call of its run     *)
(* queues an action in the control plane, the console of the tab the user  *)
(* connected claims it, hands it to the page over postMessage and sends    *)
(* the page's receipt back, for which the tool polls.                      *)
(*                                                                         *)
(* Everything between the four may stop: the run, the user's grant, the    *)
(* tab, the page, any request and any answer.  Requests already sent may   *)
(* be served after their sender gave up.                                   *)
(***************************************************************************)
EXTENDS Integers, Sequences, FiniteSets

CONSTANTS Tab,          \* browser tabs, each with the console and one page of the application
          Call,         \* the run's calls of the tool, each an action on the page
          NoCall,
          Draft,        \* the calls whose action changes unsaved drafts; the others only view
          MaxClients,   \* bound: connections the user makes
          MaxRevision   \* bound: changes of a page that give it a new revision

ASSUME PageAssumption ==
    /\ IsFiniteSet(Tab)
    /\ NoCall \notin Call /\ Draft \subseteq Call
    /\ MaxClients \in Nat /\ MaxRevision \in Nat

VARIABLES mayEdit,      \* the user's role allows drafts now; what it may not even read is refused
          running,      \* the run is in progress and its lease is live
          session,      \* the page session of the conversation: row of assistant_app_sessions
          actions,      \* call -> row of assistant_app_actions
          told,         \* call -> what the tool has told the model
          hosts,        \* tab -> the console's side of its connection
          syncs,        \* heartbeats on their way to the control plane
          pages,        \* tab -> the application in it
          clients,      \* connections made so far: client ids are fresh
          effects       \* history: call -> the starts of its handler

server == <<mayEdit, running, session, actions>>
console == <<hosts, syncs>>
vars == <<server, told, console, pages, clients, effects>>

----------------------------------------------------------------------------

Client == 1..MaxClients
Nobody == 0
Revision == 0..MaxRevision
Open == {"pending", "executing"}
Outcome == {"succeeded", "failed", "unknown"}
Final == Outcome \cup {"cancelled"}

Session == [client : Client \cup {Nobody}, page : Nat, draft : BOOLEAN, rev : Revision, live : BOOLEAN]
NoSession == [client |-> Nobody, page |-> 0, draft |-> FALSE, rev |-> 0, live |-> FALSE]

\* A page session id belongs to one instance of the application in one tab.
Action == [status : {"none"} \cup Open \cup Final, client : Client \cup {Nobody}, page : Nat,
           expected : Revision, live : BOOLEAN]
NoAction == [status |-> "none", client |-> Nobody, page |-> 0, expected |-> 0, live |-> FALSE]

Off == [client |-> Nobody, draft |-> FALSE, page |-> 0, granted |-> FALSE, waiting |-> FALSE,
        job |-> NoCall, stage |-> "none", outcome |-> "unknown", rev |-> 0]

\* instance: loads of the page; channel: the client its bridge is connected to.
FreshPage(instance, rev) ==
    [instance |-> instance, rev |-> rev, channel |-> Nobody, draft |-> FALSE, job |-> NoCall,
     stage |-> "none", aborted |-> FALSE, receipts |-> {}, inbox |-> <<>>]

PageId(t) == pages[t].instance

Init ==
    /\ mayEdit = TRUE /\ running = TRUE
    /\ session = NoSession
    /\ actions = [k \in Call |-> NoAction]
    /\ told = [k \in Call |-> "nothing"]
    /\ hosts = [t \in Tab |-> Off]
    /\ syncs = {}
    /\ \E id \in [Tab -> 1..Cardinality(Tab)] :
          /\ \A t, u \in Tab : t # u => id[t] # id[u]
          /\ pages = [t \in Tab |-> FreshPage(id[t], 0)]
    /\ clients = 0
    /\ effects = [k \in Call |-> <<>>]

----------------------------------------------------------------------------
(* The control plane's half: every operation first expires what has lapsed, *)
(* and an operation that is refused undoes that too.                        *)

\* The session an action was queued for is still there.
Served(a, s) == s.live /\ s.client = a.client /\ s.page = a.page

AbandonedAs(status) == IF status = "pending" THEN "cancelled" ELSE "unknown"

LapsedOnceAndAgain(a, s) == a.status # "none" /\ (~a.live \/ ~Served(a, s) \/ ~running)
Lapsed(a, s) == a.status \in Open /\ (~a.live \/ ~Served(a, s) \/ ~running)
Expire(s) == [k \in Call |-> IF Lapsed(actions[k], s)
                             THEN [actions[k] EXCEPT !.status = AbandonedAs(@), !.live = FALSE]
                             ELSE actions[k]]

MayAct(k, granted) == k \in Draft => granted /\ mayEdit

\* requestApp, operation "act".  A call repeated gets what became of its action.
\* The expected revision is the one the model saw when it inspected the page.
Request(k) ==
    LET now == Expire(session) IN
    /\ running /\ told[k] = "nothing"
    /\ IF actions[k].status # "none"
       THEN /\ actions' = now
            /\ told' = [told EXCEPT ![k] = IF now[k].status \in Final THEN now[k].status ELSE "waiting"]
       ELSE /\ session.live /\ MayAct(k, session.draft)
            /\ \A j \in Call : now[j].status \notin Open
            /\ actions' = [now EXCEPT ![k] = [status |-> "pending", client |-> session.client, page |-> session.page,
                                              expected |-> session.rev, live |-> TRUE]]
            /\ told' \in {[told EXCEPT ![k] = "waiting"], [told EXCEPT ![k] = "unknown"]}
    /\ UNCHANGED <<mayEdit, running, session, console, pages, clients, effects>>

\* requestApp, operation "result", every half second; and the tool's own limit.
Poll(k) ==
    LET now == Expire(session) IN
    /\ running /\ told[k] = "waiting"
    /\ actions' = now
    /\ told' = [told EXCEPT ![k] = IF now[k].status \in Final THEN now[k].status ELSE "waiting"]
    /\ UNCHANGED <<mayEdit, running, session, console, pages, clients, effects>>

GiveUp(k) ==
    /\ told[k] = "waiting"
    /\ told' = [told EXCEPT ![k] = "unknown"]
    /\ UNCHANGED <<server, console, pages, clients, effects>>

----------------------------------------------------------------------------
(* The console's half. *)

\* The user connects the tab; the page's bridge answers if it is free and its own
\* user allows it.
Connect(t, draft) ==
    LET c == clients + 1 IN
    /\ hosts[t].client = Nobody /\ c \in Client
    /\ pages[t].channel = Nobody /\ pages[t].inbox = <<>>
    /\ clients' = c
    /\ pages' = [pages EXCEPT ![t].channel = c, ![t].draft = draft]
    /\ hosts' = [hosts EXCEPT ![t] = [Off EXCEPT !.client = c, !.draft = draft, !.page = PageId(t)]]
    /\ UNCHANGED <<server, told, syncs, effects>>

\* Every 650 ms: the page is observed and the heartbeat sent.  The first carries the grant.
Tick(t) ==
    LET h == hosts[t] IN
    /\ h.client # Nobody /\ ~h.waiting
    /\ pages[t].channel = h.client /\ pages[t].inbox = <<>> /\ PageId(t) = h.page
    /\ hosts' = [hosts EXCEPT ![t].waiting = TRUE]
    /\ syncs' = syncs \cup {[tab |-> t, client |-> h.client, page |-> h.page, draft |-> h.draft,
                             rev |-> pages[t].rev, grant |-> ~h.granted]}
    /\ UNCHANGED <<server, told, pages, clients, effects>>

\* syncApp of a connection that ends.  One that arrives late does no more than
\* LapseSession, one that is lost nothing.
Farewell(c) ==
    /\ session' = IF session.client = c THEN NoSession ELSE session
    /\ actions' = Expire(session')

\* The console stops its connection: the user, a hidden tab, a request that failed
\* or was refused, a page that went silent.
Stop(t) ==
    LET c == hosts[t].client IN
    /\ c # Nobody
    /\ hosts' = [hosts EXCEPT ![t] = Off]
    /\ \/ Farewell(c)
       \/ UNCHANGED <<session, actions>>
    /\ pages' = [pages EXCEPT ![t].inbox = Append(@, [client |-> c, job |-> NoCall])]
    /\ UNCHANGED <<mayEdit, running, told, syncs, clients, effects>>

\* The answer reaches the console that asked, if it is still there.
Listens(m) == hosts[m.tab].client = m.client
Answered(m, h) == hosts' = [hosts EXCEPT ![m.tab] = h]

\* syncApp of a live connection.
Keeps(m) == session.client = m.client /\ session.page = m.page /\ session.draft = m.draft
Accepted(m) == (m.draft => mayEdit) /\ (session.live => Keeps(m))
Claimable(m, now) == {k \in Call : now[k].status = "pending" /\ now[k].client = m.client}

\* The queued action is claimed, or failed when it no longer fits the page.
ClaimedAs(k, m) ==
    IF MayAct(k, m.draft) /\ actions[k].expected = m.rev THEN "executing" ELSE "failed"

Sync(m) ==
    LET now == Expire(session)
        renewed == [client |-> m.client, page |-> m.page, draft |-> m.draft, rev |-> m.rev, live |-> TRUE]
        idle == \A k \in Call : now[k].status # "executing"
        h == [hosts[m.tab] EXCEPT !.waiting = FALSE, !.granted = TRUE] IN
    /\ Accepted(m) /\ (session.live \/ m.grant)
    /\ session' = renewed
    /\ \/ /\ ~idle \/ Claimable(m, now) = {}
          /\ actions' = now
          /\ \/ Listens(m) /\ Answered(m, h)
             \/ UNCHANGED hosts
       \/ /\ idle
          /\ \E k \in Claimable(m, now) :
                /\ actions' = [now EXCEPT ![k].status = ClaimedAs(k, m)]
                /\ \/ /\ Listens(m)
                      /\ Answered(m, IF ClaimedAs(k, m) = "executing"
                                     THEN [h EXCEPT !.job = k, !.stage = "claimed"] ELSE h)
                   \/ UNCHANGED hosts

\* The grant has lapsed: only what lapsed with it is written.
SyncTooLate(m) ==
    /\ Accepted(m) /\ ~session.live /\ ~m.grant
    /\ actions' = Expire(session)
    /\ UNCHANGED <<session, hosts>>

ServeSync(m) ==
    /\ Sync(m) \/ SyncTooLate(m)
    /\ syncs' = syncs \ {m}
    /\ UNCHANGED <<mayEdit, running, told, pages, clients, effects>>

\* A heartbeat is refused or never arrives.
LoseSync(m) ==
    /\ syncs' = syncs \ {m}
    /\ UNCHANGED <<server, told, hosts, pages, clients, effects>>

\* A claimed action is handed to the page.
HandOver(t) ==
    /\ hosts[t].stage = "claimed"
    /\ hosts' = [hosts EXCEPT ![t].stage = "sent"]
    /\ pages' = [pages EXCEPT ![t].inbox = Append(@, [client |-> hosts[t].client, job |-> hosts[t].job])]
    /\ UNCHANGED <<server, told, syncs, clients, effects>>

\* completeApp.  A row that is no longer executing answers for itself; a console
\* that reads another status than its own stops.  The request is made once.
Complete(t) ==
    LET h == hosts[t]
        now == Expire(session) IN
    /\ h.stage = "answered"
    /\ IF now[h.job].status = "executing"
       THEN /\ MayAct(h.job, session.draft)
            /\ actions' = [now EXCEPT ![h.job].status = h.outcome]
            /\ session' = [session EXCEPT !.rev = h.rev]
       ELSE actions' = now /\ UNCHANGED session
    /\ hosts' \in {[hosts EXCEPT ![t].stage = "spent"]}
                  \cup (IF actions'[h.job].status = h.outcome
                        THEN {[hosts EXCEPT ![t].stage = "none", ![t].job = NoCall]} ELSE {})
    /\ UNCHANGED <<mayEdit, running, told, syncs, pages, clients, effects>>

----------------------------------------------------------------------------
(* The page's half. *)

\* What the bridge sends reaches the console unless either end has moved on.
Reply(t, page, k, outcome) ==
    LET h == hosts[t] IN
    hosts' = IF page.channel = h.client /\ h.stage = "sent" /\ h.job = k
             THEN [hosts EXCEPT ![t].stage = "answered", ![t].outcome = outcome, ![t].rev = page.rev]
             ELSE hosts

Disconnected(p) == [p EXCEPT !.channel = Nobody, !.aborted = @ \/ p.job # NoCall]

\* A request id that was seen is answered from its receipt, never handled again.
Fits(p, k) == p.job = NoCall /\ (k \in Draft => p.draft) /\ p.rev = actions[k].expected

Receive(t) ==
    LET p == [pages[t] EXCEPT !.inbox = Tail(@)]
        m == Head(pages[t].inbox) IN
    /\ pages[t].inbox # <<>>
    /\ \/ /\ p.channel # m.client
          /\ pages' = [pages EXCEPT ![t] = p] /\ UNCHANGED hosts
       \/ /\ p.channel = m.client /\ m.job = NoCall
          /\ pages' = [pages EXCEPT ![t] = Disconnected(p)] /\ UNCHANGED hosts
       \/ /\ p.channel = m.client /\ m.job \in Call \ p.receipts
          /\ LET q == [p EXCEPT !.receipts = @ \cup {m.job}] IN
             \/ /\ Fits(p, m.job)
                /\ pages' = [pages EXCEPT ![t] = [q EXCEPT !.job = m.job, !.stage = "painting", !.aborted = FALSE]]
                /\ UNCHANGED hosts
             \/ /\ pages' = [pages EXCEPT ![t] = q]
                /\ Reply(t, q, m.job, "failed")
    /\ UNCHANGED <<server, told, syncs, clients, effects>>

\* After a paint the page looks again whether it was stopped or changed.
StillConnected(p, k) == ~p.aborted
StillFits(p, k) == ~p.aborted /\ p.rev = actions[k].expected

StartHandler(t) ==
    LET p == pages[t]
        k == p.job
        idle == [p EXCEPT !.job = NoCall, !.stage = "none"] IN
    /\ p.stage = "painting"
    /\ IF StillFits(p, k)
       THEN /\ effects' = [effects EXCEPT ![k] = Append(@, [page |-> PageId(t), rev |-> p.rev, draft |-> p.draft,
                                                            connected |-> p.channel = actions[k].client,
                                                            ended |-> "no"])]
            /\ pages' = [pages EXCEPT ![t].stage = "running"]
            /\ UNCHANGED hosts
       ELSE /\ pages' = [pages EXCEPT ![t] = idle]
            /\ Reply(t, idle, k, "failed")
            /\ UNCHANGED effects
    /\ UNCHANGED <<server, told, syncs, clients>>

\* The handler returns, throws, or returns something its manifest does not allow;
\* one that was stopped meanwhile does not count as done.
FinishHandler(t) ==
    LET p == pages[t]
        k == p.job
        n == Len(effects[k]) IN
    /\ p.stage = "running"
    /\ \E done \in BOOLEAN, rev \in {p.rev, p.rev + 1} \cap Revision :
          LET q == [p EXCEPT !.job = NoCall, !.stage = "none", !.rev = rev] IN
          /\ effects' = [effects EXCEPT ![k][n].ended = IF done THEN "done" ELSE "threw"]
          /\ pages' = [pages EXCEPT ![t] = q]
          /\ Reply(t, q, k, IF done /\ ~p.aborted THEN "succeeded" ELSE "unknown")
    /\ UNCHANGED <<server, told, syncs, clients>>

\* The user edits the page; the application's user stops, hides or leaves it, or its
\* bridge has not heard from the console for eight seconds; the page is loaded anew.
Edit(t) ==
    /\ pages[t].rev < MaxRevision
    /\ pages' = [pages EXCEPT ![t].rev = @ + 1]
    /\ UNCHANGED <<server, told, console, clients, effects>>

Leave(t) ==
    /\ pages[t].channel # Nobody
    /\ pages' = [pages EXCEPT ![t] = Disconnected(@)]
    /\ UNCHANGED <<server, told, console, clients, effects>>

Reload(t) ==
    /\ pages[t].rev < MaxRevision
    /\ pages' = [pages EXCEPT ![t] = FreshPage(@.instance + Cardinality(Tab), @.rev + 1)]
    /\ UNCHANGED <<server, told, console, clients, effects>>

----------------------------------------------------------------------------
(* Time, the run and the user's role. *)

\* An action is good for 25 seconds, a page session for 8 after its last heartbeat or
\* until the application's registration is removed.
LapseAction(k) ==
    /\ actions[k].status \in Open /\ actions[k].live
    /\ actions' = [actions EXCEPT ![k].live = FALSE]
    /\ UNCHANGED <<mayEdit, running, session, told, console, pages, clients, effects>>

LapseSession ==
    /\ session.live
    /\ session' = [session EXCEPT !.live = FALSE]
    /\ UNCHANGED <<mayEdit, running, actions, told, console, pages, clients, effects>>

\* The run is cancelled or its lease lapses; recovered, it makes its calls again.
RunLapses ==
    /\ running
    /\ running' = FALSE
    /\ UNCHANGED <<mayEdit, session, actions, told, console, pages, clients, effects>>

RunResumes ==
    /\ ~running
    /\ running' = TRUE
    /\ told' = [k \in Call |-> IF told[k] = "waiting" THEN "nothing" ELSE told[k]]
    /\ UNCHANGED <<mayEdit, session, actions, console, pages, clients, effects>>

ChangeRole ==
    /\ mayEdit' = ~mayEdit
    /\ UNCHANGED <<running, session, actions, told, console, pages, clients, effects>>

Next ==
    \/ \E k \in Call : Request(k) \/ Poll(k) \/ GiveUp(k) \/ LapseAction(k)
    \/ \E t \in Tab : \/ \E draft \in BOOLEAN : Connect(t, draft)
                      \/ Tick(t) \/ Stop(t) \/ HandOver(t) \/ Complete(t)
                      \/ Receive(t) \/ StartHandler(t) \/ FinishHandler(t)
                      \/ Edit(t) \/ Leave(t) \/ Reload(t)
    \/ \E m \in syncs : ServeSync(m) \/ LoseSync(m)
    \/ LapseSession \/ RunLapses \/ RunResumes \/ ChangeRole

Spec == Init /\ [][Next]_vars

----------------------------------------------------------------------------
(* What the assistant, the console and the page promise together. *)

\* A handler starts at most once per call, however often the call, the claim or the
\* hand-over is repeated; on the page instance and the revision the model looked at;
\* while the connection its action was queued for is still up; and it changes a
\* draft only where that connection's user allowed it.
HandledAsAsked ==
    \A k \in Call :
        /\ Len(effects[k]) <= 1
        /\ \A e \in {effects[k][i] : i \in DOMAIN effects[k]} :
              /\ e.page = actions[k].page /\ e.rev = actions[k].expected /\ e.connected
              /\ k \in Draft => e.draft

\* A receipt tells the truth, to the platform and to the model: "succeeded" only of a
\* handler that ran to its end, "failed" and "cancelled" only of one that never
\* started and never will.  What started and was not confirmed is "unknown".  What the
\* model was told for certain stays on record, whatever arrives, lapses or is retried later.
ReceiptsTellTheTruth ==
    \A k \in Call :
        /\ \A status \in {actions[k].status, told[k]} :
             /\ status = "succeeded" => effects[k] # <<>> /\ effects[k][1].ended = "done"
             /\ status \in {"failed", "cancelled"} => effects[k] = <<>>
        /\ told[k] \in Final \ {"unknown"} => actions[k].status = told[k]

=============================================================================
