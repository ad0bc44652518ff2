------------------------- MODULE PageActions_proofs -------------------------
(* An action on a page is carried by one party at a time, from the row that   *)
(* is queued over the console and the bridge's mail to the handler that runs. *)
(* From that follow that a handler starts once, where and when it was asked   *)
(* to, and that the receipts are true.                                        *)
EXTENDS PageActions, FiniteSetTheorems, TLAPS

----------------------------------------------------------------------------
(* The mail of a bridge. *)

Message == [client : Client, job : Call \cup {NoCall}]

InMail(s, k) == \E i \in 1..Len(s) : s[i].job = k
EachOnce(s) == \A i, j \in 1..Len(s) : s[i].job = s[j].job /\ s[i].job # NoCall => i = j
SentBy(s, k, c) == \A i \in 1..Len(s) : s[i].job = k => s[i].client = c

LEMMA MailSent ==
    ASSUME NEW s \in Seq(Message), NEW m \in Message
    PROVE  /\ Append(s, m) \in Seq(Message)
           /\ \A k : InMail(Append(s, m), k) <=> InMail(s, k) \/ m.job = k
           /\ EachOnce(s) /\ (m.job # NoCall => ~InMail(s, m.job)) => EachOnce(Append(s, m))
           /\ \A k, c : SentBy(s, k, c) /\ (m.job = k => m.client = c) => SentBy(Append(s, m), k, c)
<1>1. /\ Append(s, m) \in Seq(Message) /\ Len(s) \in Nat /\ Len(Append(s, m)) = Len(s) + 1
      /\ \A i \in 1..Len(s) : Append(s, m)[i] = s[i]
      /\ Append(s, m)[Len(s) + 1] = m
  OBVIOUS
<1> DEFINE n == Len(s)
           a == Append(s, m)
<1>2. \A i \in 1..Len(a) : i \in 1..n \/ i = n + 1
  BY <1>1
<1>3. 1..n \subseteq 1..Len(a) /\ n + 1 \in 1..Len(a)
  BY <1>1
<1> HIDE DEF a, n
<1> USE DEF a, n
<1>4. ASSUME NEW k PROVE InMail(a, k) <=> InMail(s, k) \/ m.job = k
  BY <1>1, <1>2, <1>3 DEF InMail
<1>5. ASSUME EachOnce(s), m.job # NoCall => ~InMail(s, m.job) PROVE EachOnce(a)
  <2> SUFFICES ASSUME NEW i \in 1..Len(a), NEW j \in 1..Len(a), a[i].job = a[j].job, a[i].job # NoCall
               PROVE  i = j
    BY DEF EachOnce
  <2>1. CASE i \in 1..n /\ j \in 1..n
    BY <1>1, <1>5, <2>1 DEF EachOnce
  <2>2. CASE i = n + 1 \/ j = n + 1
    BY <1>1, <1>2, <1>5, <2>2 DEF InMail
  <2> QED BY <1>2, <2>1, <2>2
<1>6. ASSUME NEW k, NEW c, SentBy(s, k, c), m.job = k => m.client = c PROVE SentBy(a, k, c)
  BY <1>1, <1>2, <1>6 DEF SentBy
<1> QED BY <1>1, <1>4, <1>5, <1>6

LEMMA MailRead ==
    ASSUME NEW s \in Seq(Message), s # <<>>
    PROVE  /\ Head(s) \in Message /\ Tail(s) \in Seq(Message)
           /\ \A k : InMail(Tail(s), k) => InMail(s, k)
           /\ InMail(s, Head(s).job)
           /\ EachOnce(s) => EachOnce(Tail(s)) /\ (Head(s).job # NoCall => ~InMail(Tail(s), Head(s).job))
           /\ \A k, c : SentBy(s, k, c) => SentBy(Tail(s), k, c)
           /\ \A c : SentBy(s, Head(s).job, c) => Head(s).client = c
<1>1. /\ Head(s) = s[1] /\ Tail(s) \in Seq(Message) /\ Len(s) \in Nat /\ Len(s) >= 1 /\ Len(Tail(s)) = Len(s) - 1
      /\ \A i \in 1..Len(Tail(s)) : Tail(s)[i] = s[i + 1]
  OBVIOUS
<1>2. 1 \in 1..Len(s) /\ s[1] \in Message
  BY <1>1
<1>3. \A i \in 1..Len(Tail(s)) : i + 1 \in 1..Len(s) /\ i + 1 # 1
  BY <1>1
<1>4. ASSUME NEW k PROVE InMail(Tail(s), k) => InMail(s, k)
  BY <1>1, <1>3 DEF InMail
<1>5. InMail(s, Head(s).job)
  BY <1>1, <1>2 DEF InMail
<1>6. ASSUME EachOnce(s)
      PROVE  EachOnce(Tail(s)) /\ (Head(s).job # NoCall => ~InMail(Tail(s), Head(s).job))
  <2>1. EachOnce(Tail(s))
    BY <1>1, <1>3, <1>6 DEF EachOnce
  <2>2. Head(s).job # NoCall => ~InMail(Tail(s), Head(s).job)
    BY <1>1, <1>2, <1>3, <1>6 DEF EachOnce, InMail
  <2> QED BY <2>1, <2>2
<1>7. ASSUME NEW k, NEW c PROVE SentBy(s, k, c) => SentBy(Tail(s), k, c)
  BY <1>1, <1>3 DEF SentBy
<1>8. ASSUME NEW c PROVE SentBy(s, Head(s).job, c) => Head(s).client = c
  BY <1>1, <1>2 DEF SentBy
<1> QED BY <1>1, <1>2, <1>4, <1>5, <1>6, <1>7, <1>8

----------------------------------------------------------------------------
(* The shapes of what the four parties keep. *)

Heartbeat == [tab : Tab, client : Client, page : Nat, draft : BOOLEAN, rev : Revision, grant : BOOLEAN]
Host == [client : Client \cup {Nobody}, draft : BOOLEAN, page : Nat, granted : BOOLEAN, waiting : BOOLEAN,
         job : Call \cup {NoCall}, stage : {"none", "claimed", "sent", "answered", "spent"},
         outcome : Outcome, rev : Revision]
Page == [instance : Nat, rev : Revision, channel : Client \cup {Nobody}, draft : BOOLEAN, job : Call \cup {NoCall},
         stage : {"none", "painting", "running"}, aborted : BOOLEAN, receipts : SUBSET Call, inbox : Seq(Message)]
Effect == [page : Nat, rev : Revision, draft : BOOLEAN, connected : BOOLEAN, ended : {"no", "done", "threw"}]

Types ==
    /\ session \in Session
    /\ actions \in [Call -> Action]
    /\ told \in [Call -> {"nothing", "waiting"} \cup Final]
    /\ hosts \in [Tab -> Host]
    /\ syncs \in SUBSET Heartbeat
    /\ pages \in [Tab -> Page]
    /\ clients \in 0..MaxClients
    /\ effects \in [Call -> Seq(Effect)]

\* Who is busy is busy with a call, and whose handler runs has an effect on record.
Busy ==
    /\ \A t \in Tab : hosts[t].stage \in {"claimed", "sent", "answered"} =>
                       hosts[t].job \in Call /\ hosts[t].client # Nobody
    /\ \A t \in Tab : pages[t].stage # "none" => pages[t].job \in Call

LEMMA Zero == 0 \in Revision /\ Nobody \notin Client /\ Client \subseteq Nat
BY PageAssumption DEF Revision, Nobody, Client

LEMMA Rows ==
    ASSUME Types, NEW s \in Session
    PROVE  Expire(s) \in [Call -> Action]
<1>1. ASSUME NEW j \in Call
      PROVE  actions[j] \in Action /\ [actions[j] EXCEPT !.status = AbandonedAs(@), !.live = FALSE] \in Action
  BY DEF Types, AbandonedAs, Action, Final, Outcome, Open
<1> QED BY <1>1 DEF Expire

LEMMA Expired ==
    ASSUME Types, NEW s \in Session, NEW k \in Call
    PROVE  /\ Expire(s)[k].client = actions[k].client /\ Expire(s)[k].page = actions[k].page
           /\ Expire(s)[k].expected = actions[k].expected
           /\ \/ Expire(s)[k].status = actions[k].status
              \/ actions[k].status = "pending" /\ Expire(s)[k].status = "cancelled"
              \/ actions[k].status = "executing" /\ Expire(s)[k].status = "unknown"
<1>1. actions[k] \in Action /\ (Expire(s)[k] = actions[k]
                              \/ /\ actions[k].status \in Open
                                 /\ Expire(s)[k] = [actions[k] EXCEPT !.status = AbandonedAs(@), !.live = FALSE])
  BY DEF Types, Expire, Lapsed
<1>2. CASE Expire(s)[k] = actions[k]
  BY <1>2
<1>3. CASE /\ actions[k].status \in Open
           /\ Expire(s)[k] = [actions[k] EXCEPT !.status = AbandonedAs(@), !.live = FALSE]
  BY <1>1, <1>3 DEF Action, AbandonedAs, Open
<1> QED BY <1>1, <1>2, <1>3

LEMMA InitTypes == Init => Types /\ Busy
<1> SUFFICES ASSUME Init PROVE Types /\ Busy
  OBVIOUS
<1>1. /\ NoSession \in Session /\ NoAction \in Action /\ Off \in Host
      /\ Off.stage = "none"
  BY Zero, PageAssumption DEF NoSession, Session, NoAction, Action, Off, Host, Outcome, Nobody
<1>2. ASSUME NEW n \in Nat, NEW rev \in Revision
      PROVE  FreshPage(n, rev) \in Page /\ FreshPage(n, rev).stage = "none"
  BY DEF FreshPage, Page, Nobody
<1>3. Cardinality(Tab) \in Nat
  BY PageAssumption, FS_CardinalityType
<1>4. PICK id \in [Tab -> 1..Cardinality(Tab)] : pages = [t \in Tab |-> FreshPage(id[t], 0)]
  BY DEF Init
<1>5. pages \in [Tab -> Page] /\ \A t \in Tab : pages[t].stage = "none"
  BY <1>2, <1>3, <1>4, Zero
<1>6. /\ session = NoSession /\ actions = [k \in Call |-> NoAction] /\ told = [k \in Call |-> "nothing"]
      /\ hosts = [t \in Tab |-> Off] /\ syncs = {} /\ clients = 0 /\ effects = [k \in Call |-> <<>>]
  BY DEF Init
<1>7. 0 \in 0..MaxClients /\ <<>> \in Seq(Effect)
  BY PageAssumption
<1>8. Types
  BY <1>1, <1>5, <1>6, <1>7 DEF Types
<1>9. Busy
  BY <1>1, <1>5, <1>6 DEF Busy
<1> QED BY <1>8, <1>9

\* What the parties keep has its shape behind every operation of theirs.
LEMMA ServerKeepsTypes ==
    ASSUME Types, NEW k \in Call, Request(k) \/ Poll(k) \/ GiveUp(k) \/ LapseAction(k)
    PROVE  Types'
<1>1. /\ UNCHANGED <<session, hosts, syncs, pages, clients, effects>>
  BY DEF Request, Poll, GiveUp, LapseAction, console, server
<1>2. Expire(session) \in [Call -> Action]
  BY Rows DEF Types
<1>3. actions' \in [Call -> Action]
  <2>1. CASE actions' = actions \/ actions' = Expire(session)
    BY <1>2, <2>1 DEF Types
  <2>2. CASE actions' = [actions EXCEPT ![k].live = FALSE]
    BY <2>2 DEF Types, Action
  <2>3. CASE actions' = [Expire(session) EXCEPT ![k] = [status |-> "pending", client |-> session.client,
                             page |-> session.page, expected |-> session.rev, live |-> TRUE]]
    <3>1. session \in Session
      BY DEF Types
    <3> QED BY <1>2, <2>3, <3>1 DEF Session, Action, Open
  <2> QED BY <2>1, <2>2, <2>3 DEF Request, Poll, GiveUp, LapseAction, server
<1>4. told' \in [Call -> {"nothing", "waiting"} \cup Final]
  <2>1. ASSUME NEW x, told' = [told EXCEPT ![k] = x], x \in {"waiting", "unknown"} \cup Final
        PROVE  told' \in [Call -> {"nothing", "waiting"} \cup Final]
    BY <2>1 DEF Types, Final, Outcome
  <2>2. CASE told' = told
    BY <2>2 DEF Types
  <2> QED BY <2>1, <2>2 DEF Request, Poll, GiveUp, LapseAction
<1> QED BY <1>1, <1>3, <1>4 DEF Types

LEMMA TimeKeepsTypes ==
    ASSUME Types, LapseSession \/ RunLapses \/ RunResumes \/ ChangeRole
    PROVE  Types'
<1>1. UNCHANGED <<actions, hosts, syncs, pages, clients, effects>>
  BY DEF LapseSession, RunLapses, RunResumes, ChangeRole, console
<1>2. session' \in Session
  BY DEF LapseSession, RunLapses, RunResumes, ChangeRole, Types, Session
<1>3. told' \in [Call -> {"nothing", "waiting"} \cup Final]
  BY DEF LapseSession, RunLapses, RunResumes, ChangeRole, Types
<1> QED BY <1>1, <1>2, <1>3 DEF Types

LEMMA ConnectKeepsTypes ==
    ASSUME Types, NEW t \in Tab, NEW draft \in BOOLEAN, Connect(t, draft)
    PROVE  Types'
<1> DEFINE c == clients + 1
<1>1. /\ c \in Client /\ clients' = c
      /\ pages' = [pages EXCEPT ![t].channel = c, ![t].draft = draft]
      /\ hosts' = [hosts EXCEPT ![t] = [Off EXCEPT !.client = c, !.draft = draft, !.page = PageId(t)]]
      /\ UNCHANGED <<session, actions, told, syncs, effects>>
  BY DEF Connect, server
<1>2. clients' \in 0..MaxClients
  BY <1>1, PageAssumption DEF Client
<1> HIDE DEF c
<1>3. pages' \in [Tab -> Page]
  <2>1. [pages[t] EXCEPT !.channel = c, !.draft = draft] \in Page
    BY <1>1 DEF Types, Page
  <2>2. pages' = [pages EXCEPT ![t] = [pages[t] EXCEPT !.channel = c, !.draft = draft]]
    BY <1>1 DEF Types, Page
  <2> QED BY <2>1, <2>2 DEF Types
<1>4. pages[t].instance \in Nat
  BY DEF Types, Page
<1>5. [Off EXCEPT !.client = c, !.draft = draft, !.page = PageId(t)] \in Host
  BY <1>1, <1>4, Zero DEF Off, Host, Outcome, PageId
<1>6. hosts' \in [Tab -> Host]
  BY <1>1, <1>5 DEF Types
<1> QED BY <1>1, <1>2, <1>3, <1>6 DEF Types

LEMMA TickKeepsTypes ==
    ASSUME Types, NEW t \in Tab, Tick(t)
    PROVE  Types'
<1> DEFINE m == [tab |-> t, client |-> hosts[t].client, page |-> hosts[t].page, draft |-> hosts[t].draft,
                 rev |-> pages[t].rev, grant |-> ~hosts[t].granted]
<1>1. /\ hosts[t].client # Nobody /\ hosts' = [hosts EXCEPT ![t].waiting = TRUE] /\ syncs' = syncs \cup {m}
      /\ UNCHANGED <<session, actions, told, pages, clients, effects>>
  BY DEF Tick, server
<1>2. m \in Heartbeat
  BY <1>1, SMTT(20) DEF Types, Host, Page, Heartbeat
<1> HIDE DEF m
<1> QED BY <1>1, <1>2, ZenonT(40) DEF Types, Host

LEMMA StopKeepsTypes ==
    ASSUME Types, NEW t \in Tab, Stop(t)
    PROVE  Types'
<1> DEFINE m == [client |-> hosts[t].client, job |-> NoCall]
<1>1. /\ hosts[t].client # Nobody /\ hosts' = [hosts EXCEPT ![t] = Off]
      /\ pages' = [pages EXCEPT ![t].inbox = Append(@, m)]
      /\ UNCHANGED <<told, syncs, clients, effects>>
  BY DEF Stop
<1>2. session' \in Session /\ actions' \in [Call -> Action]
  <2>1. NoSession \in Session
    BY Zero DEF NoSession, Session
  <2>2. session' \in Session
    BY <2>1 DEF Stop, Farewell, Types
  <2> QED BY <2>2, Rows DEF Stop, Farewell, Types
<1>3. Off \in Host
  BY Zero DEF Off, Host, Outcome
<1>4. pages[t].inbox \in Seq(Message) /\ m \in Message
  BY <1>1 DEF Types, Host, Page, Message
<1>5. Append(pages[t].inbox, m) \in Seq(Message)
  BY <1>4, MailSent
<1>6. pages' \in [Tab -> Page]
  <2>1. [pages[t] EXCEPT !.inbox = Append(@, m)] \in Page
    BY <1>5 DEF Types, Page
  <2>2. pages' = [pages EXCEPT ![t] = [pages[t] EXCEPT !.inbox = Append(@, m)]]
    BY <1>1 DEF Types, Page
  <2> QED BY <2>1, <2>2 DEF Types
<1> QED BY <1>1, <1>2, <1>3, <1>6 DEF Types

LEMMA SyncKeepsTypes ==
    ASSUME Types, NEW m \in syncs, ServeSync(m) \/ LoseSync(m)
    PROVE  Types'
<1>1. m \in Heartbeat /\ syncs' = syncs \ {m} /\ UNCHANGED <<told, pages, clients, effects>>
  BY DEF Types, ServeSync, LoseSync
<1>2. CASE UNCHANGED <<session, actions, hosts>>
  BY <1>1, <1>2 DEF Types
<1>3. Expire(session) \in [Call -> Action] /\ session \in Session /\ hosts \in [Tab -> Host] /\ hosts[m.tab] \in Host
  BY <1>1, Rows DEF Types, Heartbeat
<1>4. CASE SyncTooLate(m)
  BY <1>1, <1>3, <1>4 DEF SyncTooLate, Types
<1>5. CASE Sync(m)
  <2> DEFINE h == [hosts[m.tab] EXCEPT !.waiting = FALSE, !.granted = TRUE]
  <2>1. session' = [client |-> m.client, page |-> m.page, draft |-> m.draft, rev |-> m.rev, live |-> TRUE]
    BY <1>5 DEF Sync
  <2>2. session' \in Session
    BY <1>1, <2>1 DEF Session, Heartbeat
  <2>3. h \in Host /\ \A k \in Call : [h EXCEPT !.job = k, !.stage = "claimed"] \in Host
    BY <1>3 DEF Host
  <2>4. \/ actions' = Expire(session)
        \/ \E k \in Call : actions' = [Expire(session) EXCEPT ![k].status = ClaimedAs(k, m)]
    BY <1>5 DEF Sync, Claimable
  <2>5. actions' \in [Call -> Action]
    <3>1. ASSUME NEW k \in Call, actions' = [Expire(session) EXCEPT ![k].status = ClaimedAs(k, m)]
          PROVE  actions' \in [Call -> Action]
      <4>1. ClaimedAs(k, m) \in Open \cup Final
        BY DEF ClaimedAs, Open, Final, Outcome
      <4> QED BY <1>3, <3>1, <4>1 DEF Action
    <3> QED BY <1>3, <2>4, <3>1
  <2>6. \/ hosts' = hosts \/ hosts' = [hosts EXCEPT ![m.tab] = h]
        \/ \E k \in Call : hosts' = [hosts EXCEPT ![m.tab] = [h EXCEPT !.job = k, !.stage = "claimed"]]
    <3> HIDE DEF h
    <3>1. \/ hosts' = hosts \/ Answered(m, h)
          \/ \E k \in Call : Answered(m, IF ClaimedAs(k, m) = "executing" THEN [h EXCEPT !.job = k, !.stage = "claimed"] ELSE h)
      BY <1>5 DEF Sync, Claimable, h
    <3> QED BY <3>1 DEF Answered
  <2> HIDE DEF h
  <2>7. hosts' \in [Tab -> Host]
    BY <1>3, <2>3, <2>6
  <2> QED BY <1>1, <2>2, <2>5, <2>7 DEF Types
<1> QED BY <1>2, <1>4, <1>5 DEF ServeSync, LoseSync, server

LEMMA HandOverKeepsTypes ==
    ASSUME Types, Busy, NEW t \in Tab, HandOver(t)
    PROVE  Types'
<1> DEFINE m == [client |-> hosts[t].client, job |-> hosts[t].job]
<1>1. /\ hosts[t].stage = "claimed" /\ hosts' = [hosts EXCEPT ![t].stage = "sent"]
      /\ pages' = [pages EXCEPT ![t].inbox = Append(@, m)]
      /\ UNCHANGED <<session, actions, told, syncs, clients, effects>>
  BY DEF HandOver, server
<1>2. pages[t].inbox \in Seq(Message) /\ m \in Message
  BY <1>1 DEF Types, Busy, Host, Page, Message
<1>3. Append(pages[t].inbox, m) \in Seq(Message)
  BY <1>2, MailSent
<1>4. pages' \in [Tab -> Page]
  <2>1. [pages[t] EXCEPT !.inbox = Append(@, m)] \in Page
    BY <1>3 DEF Types, Page
  <2>2. pages' = [pages EXCEPT ![t] = [pages[t] EXCEPT !.inbox = Append(@, m)]]
    BY <1>1 DEF Types, Page
  <2> QED BY <2>1, <2>2 DEF Types
<1>5. hosts' \in [Tab -> Host]
  <2>1. [hosts[t] EXCEPT !.stage = "sent"] \in Host
    BY DEF Types, Host
  <2>2. hosts' = [hosts EXCEPT ![t] = [hosts[t] EXCEPT !.stage = "sent"]]
    BY <1>1
  <2> QED BY <2>1, <2>2 DEF Types
<1> QED BY <1>1, <1>4, <1>5 DEF Types

LEMMA CompleteKeepsTypes ==
    ASSUME Types, Busy, NEW t \in Tab, Complete(t)
    PROVE  Types'
<1>1. /\ hosts[t].stage = "answered" /\ hosts[t].job \in Call /\ hosts[t] \in Host
      /\ UNCHANGED <<told, syncs, pages, clients, effects>>
  BY DEF Types, Busy, Complete
<1>2. Expire(session) \in [Call -> Action] /\ session \in Session
  BY Rows DEF Types
<1>3. \/ actions' = Expire(session) /\ session' = session
      \/ /\ actions' = [Expire(session) EXCEPT ![hosts[t].job].status = hosts[t].outcome]
         /\ session' = [session EXCEPT !.rev = hosts[t].rev]
  BY DEF Complete
<1>4. session' \in Session
  BY <1>1, <1>2, <1>3 DEF Session, Host
<1>5. actions' \in [Call -> Action]
  <2>1. hosts[t].outcome \in Final
    BY <1>1 DEF Host, Final
  <2> QED BY <1>1, <1>2, <1>3, <2>1 DEF Action
<1>6. \/ hosts' = [hosts EXCEPT ![t].stage = "spent"]
      \/ hosts' = [hosts EXCEPT ![t].stage = "none", ![t].job = NoCall]
  BY DEF Complete
<1>7. hosts' \in [Tab -> Host]
  <2>1. /\ [hosts[t] EXCEPT !.stage = "spent"] \in Host
        /\ [hosts[t] EXCEPT !.stage = "none", !.job = NoCall] \in Host
    BY <1>1 DEF Host
  <2>2. \/ hosts' = [hosts EXCEPT ![t] = [hosts[t] EXCEPT !.stage = "spent"]]
        \/ hosts' = [hosts EXCEPT ![t] = [hosts[t] EXCEPT !.stage = "none", !.job = NoCall]]
    BY <1>1, <1>6 DEF Types, Host
  <2> QED BY <2>1, <2>2 DEF Types
<1> QED BY <1>1, <1>4, <1>5, <1>7 DEF Types

LEMMA Replies ==
    ASSUME Types, NEW t \in Tab, NEW p \in Page, NEW k \in Call, NEW outcome \in Outcome, Reply(t, p, k, outcome)
    PROVE  /\ hosts' \in [Tab -> Host]
           /\ \A u \in Tab : /\ hosts'[u].client = hosts[u].client /\ hosts'[u].page = hosts[u].page
                             /\ hosts'[u].job = hosts[u].job
                             /\ \/ hosts'[u].stage = hosts[u].stage /\ hosts'[u].outcome = hosts[u].outcome
                                \/ /\ hosts[u].stage = "sent" /\ hosts[u].job = k
                                   /\ hosts'[u].stage = "answered" /\ hosts'[u].outcome = outcome
<1>1. \/ hosts' = hosts
      \/ /\ hosts[t].stage = "sent" /\ hosts[t].job = k
         /\ hosts' = [hosts EXCEPT ![t].stage = "answered", ![t].outcome = outcome, ![t].rev = p.rev]
  BY DEF Reply
<1>2. hosts \in [Tab -> Host] /\ p.rev \in Revision
  BY DEF Types, Page
<1> QED BY <1>1, <1>2 DEF Host

LEMMA ReceiveKeepsTypes ==
    ASSUME Types, NEW t \in Tab, Receive(t)
    PROVE  Types'
<1> DEFINE p == [pages[t] EXCEPT !.inbox = Tail(@)]
           m == Head(pages[t].inbox)
           q == [p EXCEPT !.receipts = @ \cup {m.job}]
<1>1. pages[t].inbox # <<>> /\ UNCHANGED <<session, actions, told, syncs, clients, effects>>
  BY DEF Receive, server
<1>2. m \in Message /\ Tail(pages[t].inbox) \in Seq(Message) /\ pages[t] \in Page
  <2>1. pages[t] \in Page /\ pages[t].inbox \in Seq(Message)
    BY DEF Types, Page
  <2> QED BY <1>1, <2>1, MailRead
<1> HIDE DEF m
<1>3. p \in Page
  BY <1>2 DEF Page
<1>4. m.job \in Call => q \in Page
  BY <1>3 DEF Page
<1>5. \/ pages' = [pages EXCEPT ![t] = p] /\ hosts' = hosts
      \/ pages' = [pages EXCEPT ![t] = Disconnected(p)] /\ hosts' = hosts
      \/ /\ m.job \in Call
         /\ \/ /\ pages' = [pages EXCEPT ![t] = [q EXCEPT !.job = m.job, !.stage = "painting", !.aborted = FALSE]]
               /\ hosts' = hosts
            \/ pages' = [pages EXCEPT ![t] = q] /\ Reply(t, q, m.job, "failed")
  BY DEF Receive, m
<1> HIDE DEF p, q
<1>6. Disconnected(p) \in Page /\ (m.job \in Call => [q EXCEPT !.job = m.job, !.stage = "painting", !.aborted = FALSE] \in Page)
  BY <1>3, <1>4 DEF Page, Disconnected
<1>7. pages' \in [Tab -> Page]
  BY <1>3, <1>4, <1>5, <1>6 DEF Types
<1>8. hosts' \in [Tab -> Host]
  <2>1. "failed" \in Outcome
    BY DEF Outcome
  <2> QED BY <1>4, <1>5, <2>1, Replies DEF Types
<1> QED BY <1>1, <1>7, <1>8 DEF Types

LEMMA StartKeepsTypes ==
    ASSUME Types, Busy, NEW t \in Tab, StartHandler(t)
    PROVE  Types'
<1> DEFINE p == pages[t]
           k == p.job
           idle == [p EXCEPT !.job = NoCall, !.stage = "none"]
           e == [page |-> PageId(t), rev |-> p.rev, draft |-> p.draft,
                 connected |-> p.channel = actions[k].client, ended |-> "no"]
<1>1. /\ p \in Page /\ p.stage = "painting" /\ k \in Call
      /\ UNCHANGED <<session, actions, told, syncs, clients>>
  BY DEF Types, Busy, StartHandler, server
<1>2. \/ /\ effects' = [effects EXCEPT ![k] = Append(@, e)]
         /\ pages' = [pages EXCEPT ![t].stage = "running"] /\ hosts' = hosts
      \/ /\ pages' = [pages EXCEPT ![t] = idle] /\ Reply(t, idle, k, "failed") /\ effects' = effects
  BY DEF StartHandler
<1>3. e \in Effect
  BY <1>1 DEF Effect, Page, PageId
<1>4. idle \in Page
  BY <1>1 DEF Page
<1> HIDE DEF e
<1>5. effects' \in [Call -> Seq(Effect)]
  <2>1. effects[k] \in Seq(Effect)
    BY <1>1 DEF Types
  <2>2. Append(effects[k], e) \in Seq(Effect)
    BY <1>3, <2>1
  <2>3. effects' = effects \/ effects' = [effects EXCEPT ![k] = Append(effects[k], e)]
    BY <1>2
  <2> QED BY <2>2, <2>3 DEF Types
<1>6. pages' \in [Tab -> Page]
  <2>1. [p EXCEPT !.stage = "running"] \in Page
    BY <1>1 DEF Page
  <2>2. pages' = [pages EXCEPT ![t] = idle] \/ pages' = [pages EXCEPT ![t] = [p EXCEPT !.stage = "running"]]
    BY <1>2
  <2> HIDE DEF idle, p
  <2> QED BY <1>4, <2>1, <2>2 DEF Types
<1>7. hosts' \in [Tab -> Host]
  <2>1. "failed" \in Outcome
    BY DEF Outcome
  <2> HIDE DEF idle
  <2> QED BY <1>1, <1>2, <1>4, <2>1, Replies DEF Types
<1> QED BY <1>1, <1>5, <1>6, <1>7 DEF Types

LEMMA Marked ==
    ASSUME NEW s \in Seq(Effect), NEW n, NEW x \in {"no", "done", "threw"}
    PROVE  /\ [s EXCEPT ![n].ended = x] \in Seq(Effect)
           /\ Len([s EXCEPT ![n].ended = x]) = Len(s)
<1> DEFINE f == [s EXCEPT ![n].ended = x]
<1>1. Len(s) \in Nat /\ DOMAIN s = 1..Len(s) /\ \A i \in 1..Len(s) : s[i] \in Effect
  OBVIOUS
<1>2. f = [i \in 1..Len(s) |-> IF i = n THEN [s[i] EXCEPT !.ended = x] ELSE s[i]]
  BY <1>1
<1> HIDE DEF f
<1>3. \A e \in Effect : [e EXCEPT !.ended = x] \in Effect
  BY DEF Effect
<1>4. f \in Seq(Effect) /\ Len(f) = Len(s)
  BY <1>1, <1>2, <1>3
<1> QED BY <1>4 DEF f

\* What a handler's end leaves: its page idle, its effect marked, the console answered.
Ended(t, done, rev) ==
    LET p == pages[t]
        k == p.job
        q == [p EXCEPT !.job = NoCall, !.stage = "none", !.rev = rev] IN
    /\ effects' = [effects EXCEPT ![k][Len(effects[k])].ended = IF done THEN "done" ELSE "threw"]
    /\ pages' = [pages EXCEPT ![t] = q]
    /\ Reply(t, q, k, IF done /\ ~p.aborted THEN "succeeded" ELSE "unknown")

LEMMA FinishEnds ==
    ASSUME Types, NEW t \in Tab, FinishHandler(t)
    PROVE  \E done \in BOOLEAN, rev \in Revision : Ended(t, done, rev)
<1>1. PICK done \in BOOLEAN, rev \in {pages[t].rev, pages[t].rev + 1} \cap Revision : Ended(t, done, rev)
  BY DEF FinishHandler, Ended
<1> QED BY <1>1

LEMMA FinishKeepsTypes ==
    ASSUME Types, Busy, NEW t \in Tab, FinishHandler(t)
    PROVE  Types'
<1> DEFINE p == pages[t]
           k == p.job
           n == Len(effects[k])
<1>1. /\ p \in Page /\ p.stage = "running" /\ k \in Call /\ effects[k] \in Seq(Effect)
      /\ UNCHANGED <<session, actions, told, syncs, clients>>
  BY DEF Types, Busy, FinishHandler, server
<1>2. PICK done \in BOOLEAN, rev \in Revision : Ended(t, done, rev)
  BY FinishEnds
<1> DEFINE q == [p EXCEPT !.job = NoCall, !.stage = "none", !.rev = rev]
<1>3. q \in Page
  BY <1>1 DEF Page
<1>4. effects' \in [Call -> Seq(Effect)]
  <2>1. effects' = [effects EXCEPT ![k] = [effects[k] EXCEPT ![n].ended = IF done THEN "done" ELSE "threw"]]
    BY <1>2 DEF Ended
  <2>2. [effects[k] EXCEPT ![n].ended = IF done THEN "done" ELSE "threw"] \in Seq(Effect)
    BY <1>1, Marked
  <2> QED BY <2>1, <2>2 DEF Types
<1>5. pages' \in [Tab -> Page]
  BY <1>2, <1>3 DEF Types, Ended
<1>6. hosts' \in [Tab -> Host]
  <2>1. {"succeeded", "unknown"} \subseteq Outcome
    BY DEF Outcome
  <2>2. \E outcome \in Outcome : Reply(t, q, k, outcome)
    BY <1>2, <2>1 DEF Ended
  <2> HIDE DEF q
  <2> QED BY <1>1, <1>3, <2>2, Replies
<1> QED BY <1>1, <1>4, <1>5, <1>6 DEF Types

LEMMA PageKeepsTypes ==
    ASSUME Types, NEW t \in Tab, Edit(t) \/ Leave(t) \/ Reload(t)
    PROVE  Types'
<1>1. UNCHANGED <<session, actions, told, hosts, syncs, clients, effects>>
  BY DEF Edit, Leave, Reload, server, console
<1>2. pages[t] \in Page /\ pages \in [Tab -> Page]
  BY DEF Types
<1>3. pages[t].rev < MaxRevision => pages[t].rev + 1 \in Revision
  BY <1>2, PageAssumption DEF Page, Revision
<1>4. pages' \in [Tab -> Page]
  <2>1. CASE Edit(t)
    BY <1>2, <1>3, <2>1 DEF Edit, Page
  <2>2. CASE Leave(t)
    BY <1>2, <2>2 DEF Leave, Disconnected, Page
  <2>3. CASE Reload(t)
    <3>1. pages[t].instance + Cardinality(Tab) \in Nat
      BY <1>2, PageAssumption, FS_CardinalityType DEF Page
    <3>2. FreshPage(pages[t].instance + Cardinality(Tab), pages[t].rev + 1) \in Page
      BY <1>3, <2>3, <3>1, Zero DEF FreshPage, Page, Reload
    <3> QED BY <1>2, <2>3, <3>2 DEF Reload
  <2> QED BY <2>1, <2>2, <2>3
<1> QED BY <1>1, <1>4 DEF Types

LEMMA StepKeepsTypes ==
    ASSUME Types, Busy, [Next]_vars
    PROVE  Types'
<1>1. CASE UNCHANGED vars
  BY <1>1 DEF vars, server, console, Types
<1> QED BY <1>1, ServerKeepsTypes, TimeKeepsTypes, ConnectKeepsTypes, TickKeepsTypes, StopKeepsTypes, SyncKeepsTypes,
           HandOverKeepsTypes, CompleteKeepsTypes, ReceiveKeepsTypes, StartKeepsTypes, FinishKeepsTypes,
           PageKeepsTypes DEF Next

----------------------------------------------------------------------------
(* What a step does to the rows and to what the model is told. *)

SameAddress(k) ==
    /\ actions'[k].client = actions[k].client /\ actions'[k].page = actions[k].page
    /\ actions'[k].expected = actions[k].expected

Queued(k) ==
    /\ actions[k].status = "none" /\ actions'[k].status = "pending" /\ session.live
    /\ actions'[k].client = session.client /\ actions'[k].page = session.page
Abandoned(k) ==
    \/ actions[k].status = "pending" /\ actions'[k].status = "cancelled"
    \/ actions[k].status = "executing" /\ actions'[k].status = "unknown"
Judged(k) == actions[k].status = "pending" /\ actions'[k].status \in {"executing", "failed"}
Completed(k) ==
    /\ actions[k].status = "executing"
    /\ \E t \in Tab : hosts[t].stage = "answered" /\ hosts[t].job = k /\ actions'[k].status = hosts[t].outcome

RowMoves(k) ==
    \/ Queued(k)
    \/ SameAddress(k) /\ (actions'[k].status = actions[k].status \/ Abandoned(k) \/ Judged(k) \/ Completed(k))

LEMMA RowsExpire ==
    ASSUME Types, NEW s \in Session, NEW k \in Call, actions'[k] = Expire(s)[k]
    PROVE  RowMoves(k)
BY Expired DEF RowMoves, SameAddress, Abandoned

LEMMA RowsMove ==
    ASSUME Types, Busy, Types', [Next]_vars, NEW k \in Call
    PROVE  RowMoves(k)
<1> DEFINE now == Expire(session)
<1>0. session \in Session /\ now \in [Call -> Action] /\ actions \in [Call -> Action]
  BY Rows DEF Types
<1>1. CASE actions' = actions
  BY <1>1 DEF RowMoves, SameAddress
<1>2. CASE actions' = now
  BY <1>0, <1>2, RowsExpire
<1> HIDE DEF now
<1>3. ASSUME NEW j \in Call, Request(j) PROVE RowMoves(k)
  <2>1. CASE actions' = now
    BY <1>2, <2>1
  <2>2. CASE /\ actions[j].status = "none" /\ session.live
             /\ actions' = [now EXCEPT ![j] = [status |-> "pending", client |-> session.client, page |-> session.page,
                                               expected |-> session.rev, live |-> TRUE]]
    <3>1. CASE k = j
      BY <1>0, <2>2, <3>1 DEF RowMoves, Queued
    <3>2. CASE k # j
      <4>1. actions'[k] = now[k]
        BY <1>0, <2>2, <3>2
      <4> QED BY <1>0, <4>1, RowsExpire DEF now
    <3> QED BY <3>1, <3>2
  <2> QED BY <1>3, <2>1, <2>2 DEF Request, now
<1>4. ASSUME NEW t \in Tab, Stop(t) PROVE RowMoves(k)
  <2>1. actions' = actions \/ (session' \in Session /\ actions' = Expire(session'))
    BY <1>4 DEF Stop, Farewell, Types
  <2> QED BY <1>1, <2>1, RowsExpire
<1>5. ASSUME NEW m \in syncs, Sync(m) PROVE RowMoves(k)
  <2>1. CASE actions' = now
    BY <1>2, <2>1
  <2>2. ASSUME NEW j \in Call, now[j].status = "pending", actions' = [now EXCEPT ![j].status = ClaimedAs(j, m)]
        PROVE  RowMoves(k)
    <3>1. CASE k = j
      <4>1. actions[j].status = "pending" /\ now[j].client = actions[j].client /\ now[j].page = actions[j].page
            /\ now[j].expected = actions[j].expected
        BY <1>0, <2>2, Expired DEF now
      <4>2. actions'[j] = [now[j] EXCEPT !.status = ClaimedAs(j, m)] /\ now[j] \in Action
        BY <1>0, <2>2
      <4>3. /\ actions'[j].status = ClaimedAs(j, m) /\ actions'[j].client = now[j].client
            /\ actions'[j].page = now[j].page /\ actions'[j].expected = now[j].expected
        BY <4>2 DEF Action
      <4> QED BY <3>1, <4>1, <4>3 DEF RowMoves, SameAddress, Judged, ClaimedAs
    <3>2. CASE k # j
      <4>1. actions'[k] = now[k]
        BY <1>0, <2>2, <3>2
      <4> QED BY <1>0, <4>1, RowsExpire DEF now
    <3> QED BY <3>1, <3>2
  <2> QED BY <1>5, <2>1, <2>2 DEF Sync, Claimable, now
<1>6. ASSUME NEW t \in Tab, Complete(t) PROVE RowMoves(k)
  <2> DEFINE j == hosts[t].job
  <2>0. hosts[t].stage = "answered" /\ j \in Call
    BY <1>6 DEF Complete, Busy
  <2>1. CASE actions' = now
    BY <1>2, <2>1
  <2>2. CASE now[j].status = "executing" /\ actions' = [now EXCEPT ![j].status = hosts[t].outcome]
    <3>1. CASE k = j
      <4>1. actions[j].status = "executing" /\ now[j].client = actions[j].client /\ now[j].page = actions[j].page
            /\ now[j].expected = actions[j].expected
        BY <1>0, <2>0, <2>2, Expired DEF now
      <4>2. actions'[j] = [now[j] EXCEPT !.status = hosts[t].outcome] /\ now[j] \in Action
        BY <1>0, <2>0, <2>2
      <4>3. /\ actions'[j].status = hosts[t].outcome /\ actions'[j].client = now[j].client
            /\ actions'[j].page = now[j].page /\ actions'[j].expected = now[j].expected
        BY <4>2 DEF Action
      <4> QED BY <2>0, <3>1, <4>1, <4>3 DEF RowMoves, SameAddress, Completed
    <3>2. CASE k # j
      <4>1. actions'[k] = now[k]
        BY <1>0, <2>2, <3>2
      <4> QED BY <1>0, <4>1, RowsExpire DEF now
    <3> QED BY <3>1, <3>2
  <2> QED BY <1>6, <2>1, <2>2 DEF Complete, now
<1>7. ASSUME NEW j \in Call, LapseAction(j) PROVE RowMoves(k)
  <2>1. /\ actions'[k].status = actions[k].status /\ actions'[k].client = actions[k].client
        /\ actions'[k].page = actions[k].page /\ actions'[k].expected = actions[k].expected
    BY <1>0, <1>7 DEF LapseAction, Action
  <2> QED BY <2>1 DEF RowMoves, SameAddress
<1>8. CASE UNCHANGED vars
  BY <1>1, <1>8 DEF vars, server
<1>9. ASSUME NEW j \in Call, Poll(j) PROVE RowMoves(k)
  BY <1>2, <1>9 DEF Poll, now
<1>10. ASSUME NEW j \in Call, GiveUp(j) PROVE RowMoves(k)
  BY <1>1, <1>10 DEF GiveUp, server
<1>11. ASSUME NEW t \in Tab, \/ \E draft \in BOOLEAN : Connect(t, draft)
                             \/ Tick(t) \/ HandOver(t) \/ Receive(t) \/ StartHandler(t) \/ FinishHandler(t)
                             \/ Edit(t) \/ Leave(t) \/ Reload(t)
       PROVE  RowMoves(k)
  BY <1>1, <1>11 DEF Connect, Tick, HandOver, Receive, StartHandler, FinishHandler, Edit, Leave, Reload, server
<1>12. ASSUME NEW m \in syncs, ServeSync(m) \/ LoseSync(m) PROVE RowMoves(k)
  BY <1>1, <1>2, <1>5, <1>12 DEF ServeSync, LoseSync, SyncTooLate, server, now
<1>13. ASSUME LapseSession \/ RunLapses \/ RunResumes \/ ChangeRole PROVE RowMoves(k)
  BY <1>1, <1>13 DEF LapseSession, RunLapses, RunResumes, ChangeRole
<1> QED BY <1>3, <1>4, <1>6, <1>7, <1>8, <1>9, <1>10, <1>11, <1>12, <1>13 DEF Next

\* The model is told nothing for certain but what is on record then.
LEMMA ToldMoves ==
    ASSUME Types, [Next]_vars, NEW k \in Call
    PROVE  \/ told'[k] = told[k]
           \/ told'[k] \in {"nothing", "waiting", "unknown"}
           \/ told'[k] = actions'[k].status
<1>1. CASE UNCHANGED told
  BY <1>1
<1>2. ASSUME NEW j \in Call, NEW x, told' = [told EXCEPT ![j] = x], x \in {"waiting", "unknown"} \/ x = actions'[j].status
      PROVE  \/ told'[k] = told[k]
             \/ told'[k] \in {"nothing", "waiting", "unknown"}
             \/ told'[k] = actions'[k].status
  BY <1>2 DEF Types
<1>3. ASSUME NEW j \in Call, Request(j) \/ Poll(j) \/ GiveUp(j)
      PROVE  \E x : told' = [told EXCEPT ![j] = x] /\ (x \in {"waiting", "unknown"} \/ x = actions'[j].status)
  BY <1>3 DEF Request, Poll, GiveUp
<1>4. CASE RunResumes
  BY <1>4 DEF RunResumes, Types
<1>5. \/ UNCHANGED told \/ RunResumes
      \/ \E j \in Call : Request(j) \/ Poll(j) \/ GiveUp(j)
  BY DEF Next, vars, LapseAction, Connect, Tick, Stop, HandOver, Complete, Receive, StartHandler, FinishHandler, Edit, Leave,
         Reload, ServeSync, LoseSync, LapseSession, RunLapses, ChangeRole
<1> QED BY <1>1, <1>2, <1>3, <1>4, <1>5

----------------------------------------------------------------------------
(* Who carries a call: the console that claimed it, the mail to the page, the *)
(* page that is about to start its handler.                                   *)

Place == {"console", "mail", "page"}
Waiting(k) == actions[k].status \in {"none", "pending"}
Carries(x, t, k) ==
    \/ x = "console" /\ hosts[t].stage = "claimed" /\ hosts[t].job = k
    \/ x = "mail" /\ InMail(pages[t].inbox, k)
    \/ x = "page" /\ pages[t].stage = "painting" /\ pages[t].job = k
Running(t, k) == pages[t].stage = "running" /\ pages[t].job = k
Gone(k) == effects[k] = <<>> /\ \A x \in Place, t \in Tab : ~Carries(x, t, k)

\* Nobody carries a call that waits to be claimed, and one party at most carries one that
\* was, until its handler starts.
OneCarrier(k) ==
    /\ Waiting(k) => Gone(k)
    /\ \A x, y \in Place, t, u \in Tab : Carries(x, t, k) /\ Carries(y, u, k) => x = y /\ t = u
    /\ \A x \in Place, t \in Tab : Carries(x, t, k) => effects[k] = <<>>
    /\ \A t, u \in Tab : Running(t, k) /\ Running(u, k) => t = u
    /\ \A t \in Tab : Running(t, k) => Len(effects[k]) = 1 /\ effects[k][1].ended = "no"
    /\ Len(effects[k]) <= 1
Carried ==
    /\ \A k \in Call : OneCarrier(k)
    /\ \A t \in Tab : EachOnce(pages[t].inbox)

\* What a step does with a call.
SameRuns(k) == \A t \in Tab : Running(t, k)' => Running(t, k)
Rests(k) ==
    /\ effects'[k] = effects[k] /\ (Waiting(k)' => Waiting(k)) /\ SameRuns(k)
    /\ \A x \in Place, t \in Tab : Carries(x, t, k)' => Carries(x, t, k)
Claims(t, k) ==
    /\ Waiting(k) /\ ~Waiting(k)' /\ effects'[k] = effects[k] /\ SameRuns(k)
    /\ \A x \in Place, u \in Tab : Carries(x, u, k)' => Carries(x, u, k) \/ (x = "console" /\ u = t)
Passes(x, y, t, k) ==
    /\ Carries(x, t, k) /\ effects'[k] = effects[k] /\ (Waiting(k)' => Waiting(k)) /\ SameRuns(k)
    /\ \A z \in Place, u \in Tab : Carries(z, u, k)' => \/ z = y /\ u = t
                                                        \/ Carries(z, u, k) /\ ~(z = x /\ u = t)
Starts(t, k) ==
    /\ Carries("page", t, k) /\ (Waiting(k)' => Waiting(k))
    /\ effects'[k] = Append(effects[k], [page |-> PageId(t), rev |-> pages[t].rev, draft |-> pages[t].draft,
                                         connected |-> pages[t].channel = actions[k].client, ended |-> "no"])
    /\ StillFits(pages[t], k)
    /\ \A u \in Tab : Running(u, k)' => u = t \/ Running(u, k)
    /\ \A z \in Place, u \in Tab : Carries(z, u, k)' => Carries(z, u, k) /\ ~(z = "page" /\ u = t)
Ends(t, done, k) ==
    /\ Running(t, k) /\ (Waiting(k)' => Waiting(k))
    /\ effects'[k] = [effects[k] EXCEPT ![Len(effects[k])].ended = IF done THEN "done" ELSE "threw"]
    /\ \A u \in Tab : Running(u, k)' => u # t /\ Running(u, k)
    /\ \A x \in Place, u \in Tab : Carries(x, u, k)' => Carries(x, u, k)

CallMoves(k) ==
    \/ Rests(k)
    \/ \E t \in Tab : \/ Claims(t, k)
                      \/ \E x, y \in Place : Passes(x, y, t, k)
                      \/ Starts(t, k)
                      \/ \E done \in BOOLEAN : Ends(t, done, k)

\* A call without a carrier that was claimed never gets one, and what is done stays done.
Done(k) == effects[k] # <<>> /\ effects[k][1].ended = "done"

LEMMA RestingCall ==
    ASSUME NEW k \in Call, OneCarrier(k), Rests(k)
    PROVE  /\ OneCarrier(k)'
           /\ Gone(k) => Gone(k)'
           /\ Done(k) => Done(k)'
BY DEF OneCarrier, Rests, SameRuns, Gone, Done

LEMMA ClaimedCall ==
    ASSUME NEW k \in Call, OneCarrier(k), NEW t \in Tab, Claims(t, k)
    PROVE  OneCarrier(k)' /\ ~Done(k)
BY DEF OneCarrier, Claims, SameRuns, Gone, Done

LEMMA PassedCall ==
    ASSUME NEW k \in Call, OneCarrier(k), NEW t \in Tab, NEW x \in Place, NEW y \in Place, Passes(x, y, t, k)
    PROVE  OneCarrier(k)' /\ ~Gone(k) /\ ~Done(k)
BY DEF OneCarrier, Passes, SameRuns, Gone, Done

LEMMA StartedCall ==
    ASSUME NEW k \in Call, OneCarrier(k), NEW t \in Tab, Starts(t, k)
    PROVE  OneCarrier(k)' /\ ~Gone(k) /\ ~Done(k)
<1>1. "page" \in Place /\ effects[k] = <<>> /\ Carries("page", t, k) /\ ~Waiting(k)
  BY DEF Place, Starts, OneCarrier, Gone
<1>2. ~Gone(k) /\ ~Done(k)
  BY <1>1 DEF Gone, Done
<1>3. PICK e : effects'[k] = <<e>> /\ e.ended = "no"
  BY <1>1 DEF Starts
<1>4. Len(effects'[k]) = 1 /\ effects'[k][1] = e /\ effects'[k] # <<>>
  BY <1>3
<1>5. \A z \in Place, u \in Tab : ~Carries(z, u, k)'
  BY <1>1 DEF Starts, OneCarrier
<1>6. \A u \in Tab : Running(u, k)' => u = t
  <2>1. \A u \in Tab : ~Running(u, k)
    BY <1>1 DEF OneCarrier
  <2> QED BY <2>1 DEF Starts
<1>7. ~Waiting(k)'
  BY <1>1 DEF Starts
<1> QED BY <1>2, <1>3, <1>4, <1>5, <1>6, <1>7 DEF OneCarrier

LEMMA EndedCall ==
    ASSUME Types, NEW k \in Call, OneCarrier(k), NEW t \in Tab, NEW done \in BOOLEAN, Ends(t, done, k)
    PROVE  /\ OneCarrier(k)' /\ ~Gone(k) /\ ~Done(k)
           /\ done => Done(k)'
<1>1. /\ effects[k] \in Seq(Effect) /\ Len(effects[k]) = 1 /\ effects[k][1].ended = "no"
  BY DEF Types, Ends, OneCarrier
<1>2. effects'[k] = [effects[k] EXCEPT ![1].ended = IF done THEN "done" ELSE "threw"]
  BY <1>1 DEF Ends
<1>3. Len(effects'[k]) = 1 /\ effects'[k][1] = [effects[k][1] EXCEPT !.ended = IF done THEN "done" ELSE "threw"]
  BY <1>1, <1>2
<1>4. effects[k][1] \in Effect /\ effects[k] # <<>> /\ effects'[k] # <<>>
  BY <1>1, <1>3
<1>5. effects'[k][1].ended = IF done THEN "done" ELSE "threw"
  BY <1>3, <1>4 DEF Effect
<1>6. /\ \A x \in Place, u \in Tab : ~Carries(x, u, k)'
      /\ \A u \in Tab : ~Running(u, k)'
      /\ ~Waiting(k)'
  BY <1>4 DEF Ends, OneCarrier, Gone
<1> QED BY <1>1, <1>3, <1>4, <1>5, <1>6 DEF OneCarrier, Gone, Done

LEMMA MovedCall ==
    ASSUME Types, NEW k \in Call, OneCarrier(k), CallMoves(k)
    PROVE  /\ OneCarrier(k)'
           /\ ~Waiting(k) /\ Gone(k) => Gone(k)'
           /\ Done(k) => Done(k)'
<1>1. CASE Rests(k)
  BY <1>1, RestingCall
<1>2. ASSUME NEW t \in Tab, Claims(t, k)
      PROVE  OneCarrier(k)' /\ Waiting(k) /\ ~Done(k)
  BY <1>2, ClaimedCall DEF Claims
<1> QED BY <1>1, <1>2, PassedCall, StartedCall, EndedCall DEF CallMoves

----------------------------------------------------------------------------
(* What each operation does with the calls. *)

Posted == \A t \in Tab : EachOnce(pages[t].inbox)

LEMMA NoNewWaiting ==
    ASSUME Types, Busy, Types', [Next]_vars, NEW k \in Call
    PROVE  Waiting(k)' => Waiting(k)
<1>1. \A t \in Tab : hosts[t].outcome \in Outcome
  BY DEF Types, Host
<1> QED BY <1>1, RowsMove DEF RowMoves, Waiting, Queued, Abandoned, Judged, Completed, Outcome

\* Who leaves pages, hands and mail as they are leaves every call where it is.
LEMMA OthersRest ==
    ASSUME Types, Busy, Types', [Next]_vars, NEW k \in Call,
           effects'[k] = effects[k],
           \A t \in Tab :
               /\ hosts'[t].stage = "claimed" => hosts[t].stage = "claimed" /\ hosts'[t].job = hosts[t].job
               /\ pages'[t].stage # "none" => pages'[t].stage = pages[t].stage /\ pages'[t].job = pages[t].job
               /\ InMail(pages'[t].inbox, k) => InMail(pages[t].inbox, k)
    PROVE  Rests(k)
BY NoNewWaiting DEF Rests, SameRuns, Running, Carries

LEMMA ServerMovesCalls ==
    ASSUME Types, Busy, Types', Posted, [Next]_vars, NEW k \in Call, UNCHANGED <<hosts, pages, effects>>
    PROVE  Rests(k) /\ Posted'
BY OthersRest DEF Posted

LEMMA ConnectMovesCalls ==
    ASSUME Types, Busy, Types', Posted, [Next]_vars, NEW t \in Tab, NEW draft \in BOOLEAN, Connect(t, draft), NEW k \in Call
    PROVE  Rests(k) /\ Posted'
<1> DEFINE c == clients + 1
<1>1. /\ pages' = [pages EXCEPT ![t].channel = c, ![t].draft = draft] /\ effects' = effects
      /\ hosts' = [hosts EXCEPT ![t] = [Off EXCEPT !.client = c, !.draft = draft, !.page = PageId(t)]]
  BY DEF Connect
<1> HIDE DEF c
<1>2. \A u \in Tab : /\ pages'[u].stage = pages[u].stage /\ pages'[u].job = pages[u].job
                     /\ pages'[u].inbox = pages[u].inbox
  BY <1>1 DEF Types, Page
<1>3. \A u \in Tab : hosts'[u].stage = "none" \/ hosts'[u] = hosts[u]
  BY <1>1 DEF Types, Off
<1> QED BY <1>1, <1>2, <1>3, OthersRest DEF Posted

LEMMA TickMovesCalls ==
    ASSUME Types, Busy, Types', Posted, [Next]_vars, NEW t \in Tab, Tick(t), NEW k \in Call
    PROVE  Rests(k) /\ Posted'
<1>1. hosts' = [hosts EXCEPT ![t].waiting = TRUE] /\ pages' = pages /\ effects' = effects
  BY DEF Tick
<1>2. \A u \in Tab : hosts'[u].stage = hosts[u].stage /\ hosts'[u].job = hosts[u].job
  BY <1>1 DEF Types, Host
<1> QED BY <1>1, <1>2, OthersRest DEF Posted

LEMMA StopMovesCalls ==
    ASSUME Types, Busy, Types', Posted, [Next]_vars, NEW t \in Tab, Stop(t), NEW k \in Call
    PROVE  Rests(k) /\ Posted'
<1> DEFINE m == [client |-> hosts[t].client, job |-> NoCall]
<1>1. /\ hosts[t].client # Nobody /\ hosts' = [hosts EXCEPT ![t] = Off]
      /\ pages' = [pages EXCEPT ![t].inbox = Append(@, m)] /\ effects' = effects
  BY DEF Stop
<1>2. pages[t].inbox \in Seq(Message) /\ m \in Message /\ NoCall \notin Call
  BY <1>1, PageAssumption DEF Types, Host, Page, Message
<1>3. \A u \in Tab : hosts'[u].stage = "none" \/ hosts'[u] = hosts[u]
  BY <1>1 DEF Types, Off
<1>4. m.job = NoCall
  OBVIOUS
<1> HIDE DEF m
<1>5. \A u \in Tab : /\ pages'[u].stage = pages[u].stage /\ pages'[u].job = pages[u].job
                     /\ \/ pages'[u].inbox = pages[u].inbox
                        \/ u = t /\ pages'[u].inbox = Append(pages[t].inbox, m)
  BY <1>1 DEF Types, Page
<1>6. /\ InMail(Append(pages[t].inbox, m), k) => InMail(pages[t].inbox, k)
      /\ EachOnce(pages[t].inbox) => EachOnce(Append(pages[t].inbox, m))
  BY <1>2, <1>4, MailSent
<1>7. Posted'
  BY <1>5, <1>6 DEF Posted
<1>8. \A u \in Tab : InMail(pages'[u].inbox, k) => InMail(pages[u].inbox, k)
  BY <1>5, <1>6
<1> QED BY <1>1, <1>3, <1>5, <1>7, <1>8, OthersRest

LEMMA SyncMovesCalls ==
    ASSUME Types, Busy, Types', Posted, [Next]_vars, NEW m \in syncs, ServeSync(m) \/ LoseSync(m), NEW k \in Call
    PROVE  CallMoves(k) /\ Posted'
<1> DEFINE now == Expire(session)
           h == [hosts[m.tab] EXCEPT !.waiting = FALSE, !.granted = TRUE]
<1>1. m \in Heartbeat /\ m.tab \in Tab /\ hosts[m.tab] \in Host /\ hosts \in [Tab -> Host]
  BY DEF Types, Heartbeat
<1>2. pages' = pages /\ effects' = effects
  BY DEF ServeSync, LoseSync
<1>3. Posted'
  BY <1>2 DEF Posted
<1>4. h.stage = hosts[m.tab].stage /\ h.job = hosts[m.tab].job /\ h \in Host
  BY <1>1 DEF Host
<1>5. CASE hosts' = hosts \/ hosts' = [hosts EXCEPT ![m.tab] = h]
  <2> HIDE DEF h
  <2>1. \A t \in Tab : hosts'[t].stage = hosts[t].stage /\ hosts'[t].job = hosts[t].job
    BY <1>1, <1>4, <1>5
  <2>2. Rests(k)
    BY <1>2, <2>1, OthersRest
  <2> QED BY <1>3, <2>2 DEF CallMoves
<1>6. ASSUME NEW j \in Claimable(m, now), ClaimedAs(j, m) = "executing", Listens(m),
             actions' = [now EXCEPT ![j].status = "executing"],
             hosts' = [hosts EXCEPT ![m.tab] = [h EXCEPT !.job = j, !.stage = "claimed"]]
      PROVE  CallMoves(k)
  <2>1. j \in Call /\ now[j].status = "pending" /\ session \in Session /\ now \in [Call -> Action]
    BY <1>6, Rows DEF Claimable, Types
  <2>2. actions[j].status = "pending"
    BY <2>1, Expired
  <2> HIDE DEF now
  <2>3. actions'[j].status = "executing"
    BY <1>6, <2>1 DEF Action
  <2>4. Waiting(j) /\ ~Waiting(j)'
    BY <2>2, <2>3 DEF Waiting
  <2>5. hosts'[m.tab].job = j /\ hosts'[m.tab].stage = "claimed" /\ \A t \in Tab : t # m.tab => hosts'[t] = hosts[t]
    BY <1>1, <1>4, <1>6 DEF Host
  <2>6. CASE k = j
    <3>1. \A x \in Place, u \in Tab : Carries(x, u, k)' => Carries(x, u, k) \/ (x = "console" /\ u = m.tab)
      BY <1>2, <2>5 DEF Carries
    <3>2. SameRuns(k)
      BY <1>2 DEF SameRuns, Running
    <3>3. Claims(m.tab, k)
      BY <1>2, <2>4, <2>6, <3>1, <3>2 DEF Claims
    <3> QED BY <1>1, <3>3 DEF CallMoves
  <2>7. CASE k # j
    <3>1. \A x \in Place, u \in Tab : Carries(x, u, k)' => Carries(x, u, k)
      BY <1>2, <2>5, <2>7 DEF Carries
    <3>2. SameRuns(k)
      BY <1>2 DEF SameRuns, Running
    <3>3. Rests(k)
      BY <1>2, <3>1, <3>2, NoNewWaiting DEF Rests
    <3> QED BY <3>3 DEF CallMoves
  <2> QED BY <2>6, <2>7
<1>7. \/ hosts' = hosts \/ hosts' = [hosts EXCEPT ![m.tab] = h]
      \/ \E j \in Claimable(m, now) :
            /\ ClaimedAs(j, m) = "executing" /\ Listens(m)
            /\ actions' = [now EXCEPT ![j].status = "executing"]
            /\ hosts' = [hosts EXCEPT ![m.tab] = [h EXCEPT !.job = j, !.stage = "claimed"]]
  <2>1. CASE Sync(m)
    <3> HIDE DEF h
    <3>1. \/ hosts' = hosts \/ Answered(m, h)
          \/ \E j \in Claimable(m, now) :
                /\ Listens(m) /\ actions' = [now EXCEPT ![j].status = ClaimedAs(j, m)]
                /\ Answered(m, IF ClaimedAs(j, m) = "executing" THEN [h EXCEPT !.job = j, !.stage = "claimed"] ELSE h)
      BY <2>1 DEF Sync, h
    <3> HIDE DEF now
    <3> QED BY <3>1 DEF Answered
  <2> QED BY <2>1 DEF ServeSync, LoseSync, SyncTooLate
<1> HIDE DEF now, h
<1> QED BY <1>3, <1>5, <1>6, <1>7

LEMMA HandOverMovesCalls ==
    ASSUME Types, Busy, Types', Posted, Carried, [Next]_vars, NEW t \in Tab, HandOver(t), NEW k \in Call
    PROVE  CallMoves(k) /\ Posted'
<1> DEFINE m == [client |-> hosts[t].client, job |-> hosts[t].job]
<1>1. /\ hosts[t].stage = "claimed" /\ hosts' = [hosts EXCEPT ![t].stage = "sent"]
      /\ pages' = [pages EXCEPT ![t].inbox = Append(@, m)] /\ effects' = effects
  BY DEF HandOver
<1>2. pages[t].inbox \in Seq(Message) /\ m \in Message /\ NoCall \notin Call /\ hosts[t].job \in Call
  BY <1>1, PageAssumption DEF Types, Busy, Host, Page, Message
<1>3. m.job = hosts[t].job
  OBVIOUS
<1> HIDE DEF m
<1>4. \A u \in Tab : /\ pages'[u].stage = pages[u].stage /\ pages'[u].job = pages[u].job
                     /\ u # t => pages'[u].inbox = pages[u].inbox
                     /\ u = t => pages'[u].inbox = Append(pages[t].inbox, m)
  BY <1>1 DEF Types, Page
<1>5. \A u \in Tab : /\ hosts'[u].stage = "claimed" => u # t /\ hosts[u].stage = "claimed"
                     /\ hosts'[u].job = hosts[u].job
  BY <1>1 DEF Types, Host
<1>6. ~InMail(pages[t].inbox, hosts[t].job)
  <2>1. Carries("console", t, hosts[t].job)
    BY <1>1 DEF Carries
  <2>2. ~Carries("mail", t, hosts[t].job)
    BY <1>2, <2>1 DEF Carried, OneCarrier, Place
  <2> QED BY <2>2 DEF Carries
<1>7. Posted'
  <2>1. EachOnce(Append(pages[t].inbox, m))
    BY <1>2, <1>3, <1>6, MailSent DEF Posted
  <2> QED BY <1>4, <2>1 DEF Posted
<1>8. \A j : InMail(Append(pages[t].inbox, m), j) <=> InMail(pages[t].inbox, j) \/ hosts[t].job = j
  BY <1>2, <1>3, MailSent
<1>9. SameRuns(k)
  BY <1>4 DEF SameRuns, Running
<1>10. CASE hosts[t].job = k
  <2>1. Carries("console", t, k)
    BY <1>1, <1>10 DEF Carries
  <2>2. \A z \in Place, u \in Tab : Carries(z, u, k)' => \/ z = "mail" /\ u = t
                                                         \/ Carries(z, u, k) /\ ~(z = "console" /\ u = t)
    BY <1>4, <1>5 DEF Carries
  <2>3. Passes("console", "mail", t, k)
    BY <1>1, <1>9, <2>1, <2>2, NoNewWaiting DEF Passes
  <2> QED BY <1>7, <2>3 DEF CallMoves, Place
<1>11. CASE hosts[t].job # k
  <2>1. \A u \in Tab : InMail(pages'[u].inbox, k) => InMail(pages[u].inbox, k)
    BY <1>4, <1>8, <1>11
  <2>2. Rests(k)
    BY <1>1, <1>4, <1>5, <2>1, OthersRest
  <2> QED BY <1>7, <2>2 DEF CallMoves
<1> QED BY <1>10, <1>11

LEMMA CompleteMovesCalls ==
    ASSUME Types, Busy, Types', Posted, [Next]_vars, NEW t \in Tab, Complete(t), NEW k \in Call
    PROVE  Rests(k) /\ Posted'
<1>1. /\ \/ hosts' = [hosts EXCEPT ![t].stage = "spent"]
         \/ hosts' = [hosts EXCEPT ![t].stage = "none", ![t].job = NoCall]
      /\ UNCHANGED <<pages, effects>>
  BY DEF Complete
<1>2. \A u \in Tab : hosts'[u].stage = "claimed" => hosts'[u] = hosts[u]
  <2>1. \A u \in Tab : u # t => hosts'[u] = hosts[u]
    BY <1>1 DEF Types
  <2>2. hosts'[t].stage \in {"spent", "none"}
    BY <1>1 DEF Types, Host
  <2> QED BY <2>1, <2>2
<1> QED BY <1>1, <1>2, OthersRest DEF Posted

\* What the page does with the first message: it drops it, takes it for its end, begins
\* the call or answers at once.
Drops(t) == pages' = [pages EXCEPT ![t] = [pages[t] EXCEPT !.inbox = Tail(@)]] /\ hosts' = hosts
Disconnects(t) ==
    pages' = [pages EXCEPT ![t] = Disconnected([pages[t] EXCEPT !.inbox = Tail(@)])] /\ hosts' = hosts
Seen(t, k) == [pages[t] EXCEPT !.inbox = Tail(@), !.receipts = @ \cup {k}]
Begins(t, k) ==
    /\ pages[t].channel = Head(pages[t].inbox).client /\ pages[t].job = NoCall /\ (k \in Draft => pages[t].draft)
    /\ pages' = [pages EXCEPT ![t] = [Seen(t, k) EXCEPT !.job = k, !.stage = "painting", !.aborted = FALSE]]
    /\ hosts' = hosts
Declines(t, k) == pages' = [pages EXCEPT ![t] = Seen(t, k)] /\ Reply(t, Seen(t, k), k, "failed")

LEMMA Received ==
    ASSUME Types, NEW t \in Tab, Receive(t)
    PROVE  /\ pages[t] \in Page /\ pages[t].inbox \in Seq(Message) /\ pages[t].inbox # <<>>
           /\ Head(pages[t].inbox) \in Message
           /\ UNCHANGED <<session, actions, told, syncs, clients, effects>>
           /\ \/ Drops(t) \/ Disconnects(t)
              \/ /\ Head(pages[t].inbox).job \in Call
                 /\ Begins(t, Head(pages[t].inbox).job) \/ Declines(t, Head(pages[t].inbox).job)
<1> DEFINE p == [pages[t] EXCEPT !.inbox = Tail(@)]
           m == Head(pages[t].inbox)
           q == [p EXCEPT !.receipts = @ \cup {m.job}]
<1>1. pages[t] \in Page /\ pages[t].inbox \in Seq(Message) /\ pages[t].inbox # <<>>
      /\ UNCHANGED <<session, actions, told, syncs, clients, effects>>
  BY DEF Receive, server, Types, Page
<1>2. m \in Message
  BY <1>1, MailRead
<1>3. p.channel = pages[t].channel /\ p.job = pages[t].job /\ p.draft = pages[t].draft /\ q = Seen(t, m.job)
  BY <1>1 DEF Page, Seen
<1>4. \/ Drops(t) \/ Disconnects(t)
      \/ /\ m.job \in Call
         /\ \/ /\ p.channel = m.client /\ Fits(p, m.job) /\ hosts' = hosts
               /\ pages' = [pages EXCEPT ![t] = [q EXCEPT !.job = m.job, !.stage = "painting", !.aborted = FALSE]]
            \/ pages' = [pages EXCEPT ![t] = q] /\ Reply(t, q, m.job, "failed")
  BY DEF Receive, Drops, Disconnects
<1> HIDE DEF p, q, m
<1>5. Fits(p, m.job) => p.job = NoCall /\ (m.job \in Draft => p.draft)
  BY DEF Fits
<1>6. \/ Drops(t) \/ Disconnects(t)
      \/ m.job \in Call /\ (Begins(t, m.job) \/ Declines(t, m.job))
  BY <1>3, <1>4, <1>5 DEF Begins, Declines, m
<1> QED BY <1>1, <1>2, <1>6 DEF m

LEMMA PagesRead ==
    ASSUME Types, NEW t \in Tab, Receive(t)
    PROVE  LET k == Head(pages[t].inbox).job IN
           /\ \A u \in Tab : u # t => pages'[u] = pages[u]
           /\ pages'[t].inbox = Tail(pages[t].inbox)
           /\ pages'[t].instance = pages[t].instance /\ pages'[t].rev = pages[t].rev
           /\ pages'[t].draft = pages[t].draft
           /\ \/ /\ pages'[t].stage = pages[t].stage /\ pages'[t].job = pages[t].job
                 /\ \/ pages'[t].channel = pages[t].channel /\ pages'[t].aborted = pages[t].aborted
                    \/ pages'[t].channel = Nobody /\ (pages[t].job # NoCall => pages'[t].aborted)
              \/ /\ k \in Call /\ Begins(t, k)
                 /\ pages'[t].stage = "painting" /\ pages'[t].job = k /\ pages'[t].channel = pages[t].channel
<1> DEFINE k == Head(pages[t].inbox).job
<1>1. pages[t] \in Page /\ pages \in [Tab -> Page]
  BY Received DEF Types
<1>2. CASE Drops(t)
  BY <1>1, <1>2 DEF Drops, Page
<1>3. CASE Disconnects(t)
  BY <1>1, <1>3 DEF Disconnects, Disconnected, Page
<1>4. CASE k \in Call /\ Begins(t, k)
  BY <1>1, <1>4 DEF Begins, Seen, Page
<1>5. CASE k \in Call /\ Declines(t, k)
  BY <1>1, <1>5 DEF Declines, Seen, Page
<1> QED BY <1>2, <1>3, <1>4, <1>5, Received

LEMMA HostsListen ==
    ASSUME Types, NEW t \in Tab, Receive(t)
    PROVE  /\ \A u \in Tab : /\ hosts'[u].client = hosts[u].client /\ hosts'[u].page = hosts[u].page
                             /\ hosts'[u].job = hosts[u].job
                             /\ \/ hosts'[u].stage = hosts[u].stage /\ hosts'[u].outcome = hosts[u].outcome
                                \/ /\ hosts[u].stage = "sent" /\ hosts[u].job = Head(pages[t].inbox).job
                                   /\ hosts[u].job \in Call
                                   /\ ~Begins(t, hosts[u].job) /\ pages'[t].stage = pages[t].stage
                                   /\ pages'[t].job = pages[t].job
                                   /\ hosts'[u].stage = "answered" /\ hosts'[u].outcome = "failed"
<1> DEFINE k == Head(pages[t].inbox).job
<1>1. pages[t] \in Page
  BY Received
<1>2. CASE hosts' = hosts
  BY <1>2
<1>3. CASE k \in Call /\ Declines(t, k) /\ hosts' # hosts
  <2>1. Seen(t, k) \in Page /\ "failed" \in Outcome
    <3>1. Tail(pages[t].inbox) \in Seq(Message)
      BY Received, MailRead
    <3>2. pages[t].receipts \cup {k} \in SUBSET Call
      BY <1>1, <1>3 DEF Page
    <3> QED BY <1>1, <3>1, <3>2 DEF Seen, Page, Outcome
  <2>2. Seen(t, k).stage = pages[t].stage /\ Seen(t, k).job = pages[t].job
    BY <1>1 DEF Seen, Page
  <2>3. pages'[t].stage = pages[t].stage /\ pages'[t].job = pages[t].job
    BY <1>3, <2>2 DEF Declines, Types
  <2>4. ~Begins(t, k)
    BY <1>3 DEF Begins
  <2> HIDE DEF k
  <2> QED BY <1>3, <2>1, <2>3, <2>4, Replies DEF Declines, k
<1> QED BY <1>2, <1>3, Received DEF Drops, Disconnects, Begins

LEMMA ReceiveMovesCalls ==
    ASSUME Types, Busy, Types', Posted, [Next]_vars, NEW t \in Tab, Receive(t), NEW k \in Call
    PROVE  CallMoves(k) /\ Posted'
<1> DEFINE j == Head(pages[t].inbox).job
<1>1. pages[t].inbox \in Seq(Message) /\ pages[t].inbox # <<>> /\ effects' = effects
  BY Received
<1>2. \A u \in Tab : u # t => pages'[u] = pages[u]
  BY PagesRead
<1>3. pages'[t].inbox = Tail(pages[t].inbox)
  BY PagesRead
<1>4. /\ InMail(pages'[t].inbox, k) => InMail(pages[t].inbox, k)
      /\ InMail(pages[t].inbox, j)
      /\ j # NoCall => ~InMail(pages'[t].inbox, j)
      /\ EachOnce(pages'[t].inbox)
  BY <1>1, <1>3, MailRead DEF Posted
<1>5. Posted'
  BY <1>2, <1>4 DEF Posted
<1>6. \A u \in Tab : hosts'[u].stage = "claimed" => hosts[u].stage = "claimed" /\ hosts'[u].job = hosts[u].job
  BY HostsListen
<1>7. CASE pages'[t].stage = pages[t].stage /\ pages'[t].job = pages[t].job
  <2>1. Rests(k)
    BY <1>1, <1>2, <1>4, <1>6, <1>7, OthersRest
  <2> QED BY <1>5, <2>1 DEF CallMoves
<1>8. CASE j \in Call /\ pages'[t].stage = "painting" /\ pages'[t].job = j
  <2>0. SameRuns(k)
    BY <1>2, <1>8 DEF SameRuns, Running
  <2>1. CASE j = k
    <3>1. j # NoCall
      BY <1>8, PageAssumption
    <3>2. \A z \in Place, u \in Tab : Carries(z, u, k)' => \/ z = "page" /\ u = t
                                                           \/ Carries(z, u, k) /\ ~(z = "mail" /\ u = t)
      BY <1>2, <1>4, <1>6, <2>1, <3>1 DEF Carries
    <3>3. Carries("mail", t, k)
      BY <1>4, <2>1 DEF Carries
    <3>4. Passes("mail", "page", t, k)
      BY <1>1, <2>0, <3>2, <3>3, NoNewWaiting DEF Passes
    <3> QED BY <1>5, <3>4 DEF CallMoves, Place
  <2>2. CASE j # k
    <3>1. \A z \in Place, u \in Tab : Carries(z, u, k)' => Carries(z, u, k)
      BY <1>2, <1>4, <1>6, <1>8, <2>2 DEF Carries
    <3>2. Rests(k)
      BY <1>1, <2>0, <3>1, NoNewWaiting DEF Rests
    <3> QED BY <1>5, <3>2 DEF CallMoves
  <2> QED BY <2>1, <2>2
<1>9. \/ pages'[t].stage = pages[t].stage /\ pages'[t].job = pages[t].job
      \/ j \in Call /\ pages'[t].stage = "painting" /\ pages'[t].job = j
  BY PagesRead
<1> QED BY <1>7, <1>8, <1>9

\* A handler that is not started after all.
Idle(t) == [pages[t] EXCEPT !.job = NoCall, !.stage = "none"]
Skips(t) ==
    /\ pages' = [pages EXCEPT ![t] = Idle(t)] /\ Reply(t, Idle(t), pages[t].job, "failed") /\ effects' = effects

LEMMA Painted ==
    ASSUME Types, Busy, NEW t \in Tab, StartHandler(t)
    PROVE  /\ pages[t] \in Page /\ pages[t].stage = "painting" /\ pages[t].job \in Call
           /\ UNCHANGED <<session, actions, told, syncs, clients>>
           /\ \A u \in Tab : u # t => pages'[u] = pages[u]
           /\ pages'[t].inbox = pages[t].inbox /\ pages'[t].instance = pages[t].instance
           /\ pages'[t].channel = pages[t].channel /\ pages'[t].draft = pages[t].draft
           /\ \/ Skips(t) /\ pages'[t].stage = "none"
              \/ /\ StillFits(pages[t], pages[t].job) /\ hosts' = hosts
                 /\ pages'[t].stage = "running" /\ pages'[t].job = pages[t].job
                 /\ effects' = [effects EXCEPT ![pages[t].job] =
                        Append(@, [page |-> PageId(t), rev |-> pages[t].rev, draft |-> pages[t].draft,
                                   connected |-> pages[t].channel = actions[pages[t].job].client, ended |-> "no"])]
<1>1. /\ pages[t] \in Page /\ pages \in [Tab -> Page] /\ pages[t].stage = "painting" /\ pages[t].job \in Call
      /\ UNCHANGED <<session, actions, told, syncs, clients>>
  BY DEF Types, Busy, StartHandler, server
<1>2. CASE Skips(t)
  BY <1>1, <1>2 DEF Skips, Idle, Page
<1>3. CASE /\ StillFits(pages[t], pages[t].job) /\ hosts' = hosts /\ pages' = [pages EXCEPT ![t].stage = "running"]
           /\ effects' = [effects EXCEPT ![pages[t].job] =
                        Append(@, [page |-> PageId(t), rev |-> pages[t].rev, draft |-> pages[t].draft,
                                   connected |-> pages[t].channel = actions[pages[t].job].client, ended |-> "no"])]
  <2>1. /\ \A u \in Tab : u # t => pages'[u] = pages[u]
        /\ pages'[t].inbox = pages[t].inbox /\ pages'[t].instance = pages[t].instance
        /\ pages'[t].channel = pages[t].channel /\ pages'[t].draft = pages[t].draft
        /\ pages'[t].stage = "running" /\ pages'[t].job = pages[t].job
    BY <1>1, <1>3 DEF Page
  <2> QED BY <1>1, <1>3, <2>1
<1> QED BY <1>1, <1>2, <1>3 DEF StartHandler, Skips, Idle

LEMMA SkipAnswers ==
    ASSUME Types, Busy, NEW t \in Tab, StartHandler(t), NEW u \in Tab
    PROVE  /\ hosts'[u].client = hosts[u].client /\ hosts'[u].page = hosts[u].page /\ hosts'[u].job = hosts[u].job
           /\ \/ hosts'[u].stage = hosts[u].stage /\ hosts'[u].outcome = hosts[u].outcome
              \/ /\ hosts[u].stage = "sent" /\ hosts[u].job = pages[t].job /\ Skips(t)
                 /\ hosts'[u].stage = "answered" /\ hosts'[u].outcome = "failed"
<1>1. CASE hosts' = hosts
  BY <1>1
<1>2. CASE Skips(t)
  <2>1. Idle(t) \in Page /\ "failed" \in Outcome /\ pages[t].job \in Call
    BY Painted DEF Idle, Page, Outcome
  <2> QED BY <1>2, <2>1, Replies DEF Skips
<1> QED BY <1>1, <1>2, Painted

LEMMA StartMovesCalls ==
    ASSUME Types, Busy, Types', Posted, [Next]_vars, NEW t \in Tab, StartHandler(t), NEW k \in Call
    PROVE  CallMoves(k) /\ Posted'
<1>0. /\ pages[t].stage = "painting" /\ pages[t].job \in Call /\ pages'[t].inbox = pages[t].inbox
      /\ \A u \in Tab : u # t => pages'[u] = pages[u]
  BY Painted
<1>1. Posted'
  BY <1>0 DEF Posted
<1>2. \A u \in Tab : hosts'[u].stage = "claimed" => hosts[u].stage = "claimed" /\ hosts'[u].job = hosts[u].job
  BY SkipAnswers
<1>3. CASE Skips(t) /\ pages'[t].stage = "none"
  <2>1. Rests(k)
    BY <1>0, <1>2, <1>3, OthersRest DEF Skips
  <2> QED BY <1>1, <2>1 DEF CallMoves
<1>4. CASE /\ StillFits(pages[t], pages[t].job) /\ hosts' = hosts
           /\ pages'[t].stage = "running" /\ pages'[t].job = pages[t].job
           /\ effects' = [effects EXCEPT ![pages[t].job] =
                        Append(@, [page |-> PageId(t), rev |-> pages[t].rev, draft |-> pages[t].draft,
                                   connected |-> pages[t].channel = actions[pages[t].job].client, ended |-> "no"])]
  <2>1. CASE pages[t].job = k
    <3>1. effects'[k] = Append(effects[k], [page |-> PageId(t), rev |-> pages[t].rev, draft |-> pages[t].draft,
                                   connected |-> pages[t].channel = actions[k].client, ended |-> "no"])
      BY <1>4, <2>1 DEF Types
    <3>2. Carries("page", t, k)
      BY <1>0, <2>1 DEF Carries
    <3>3. \A u \in Tab : Running(u, k)' => u = t \/ Running(u, k)
      BY <1>0 DEF Running
    <3>4. \A z \in Place, u \in Tab : Carries(z, u, k)' => Carries(z, u, k) /\ ~(z = "page" /\ u = t)
      BY <1>0, <1>4 DEF Carries
    <3>5. Starts(t, k)
      BY <1>4, <2>1, <3>1, <3>2, <3>3, <3>4, NoNewWaiting DEF Starts
    <3> QED BY <1>1, <3>5 DEF CallMoves
  <2>2. CASE pages[t].job # k
    <3>1. effects'[k] = effects[k]
      BY <1>4, <2>2 DEF Types
    <3>2. \A z \in Place, u \in Tab : Carries(z, u, k)' => Carries(z, u, k)
      BY <1>0, <1>4 DEF Carries
    <3>3. SameRuns(k)
      BY <1>0, <1>4, <2>2 DEF SameRuns, Running
    <3>4. Rests(k)
      BY <3>1, <3>2, <3>3, NoNewWaiting DEF Rests
    <3> QED BY <1>1, <3>4 DEF CallMoves
  <2> QED BY <2>1, <2>2
<1> QED BY <1>3, <1>4, Painted

LEMMA Finished ==
    ASSUME Types, Busy, NEW t \in Tab, NEW done \in BOOLEAN, NEW rev \in Revision, FinishHandler(t), Ended(t, done, rev)
    PROVE  /\ pages[t] \in Page /\ pages[t].stage = "running" /\ pages[t].job \in Call
           /\ UNCHANGED <<session, actions, told, syncs, clients>>
           /\ effects' = [effects EXCEPT ![pages[t].job] =
                             [@ EXCEPT ![Len(effects[pages[t].job])].ended = IF done THEN "done" ELSE "threw"]]
           /\ \A u \in Tab : u # t => pages'[u] = pages[u]
           /\ pages'[t].inbox = pages[t].inbox /\ pages'[t].instance = pages[t].instance
           /\ pages'[t].channel = pages[t].channel /\ pages'[t].draft = pages[t].draft /\ pages'[t].stage = "none"
           /\ \A u \in Tab :
                /\ hosts'[u].client = hosts[u].client /\ hosts'[u].page = hosts[u].page /\ hosts'[u].job = hosts[u].job
                /\ \/ hosts'[u].stage = hosts[u].stage /\ hosts'[u].outcome = hosts[u].outcome
                   \/ /\ hosts[u].stage = "sent" /\ hosts[u].job = pages[t].job
                      /\ hosts'[u].stage = "answered" /\ hosts'[u].outcome \in {"succeeded", "unknown"}
                      /\ hosts'[u].outcome = "succeeded" => done
<1> DEFINE q == [pages[t] EXCEPT !.job = NoCall, !.stage = "none", !.rev = rev]
           outcome == IF done /\ ~pages[t].aborted THEN "succeeded" ELSE "unknown"
<1>1. /\ pages[t] \in Page /\ pages \in [Tab -> Page] /\ pages[t].stage = "running" /\ pages[t].job \in Call
      /\ UNCHANGED <<session, actions, told, syncs, clients>>
  BY DEF Types, Busy, FinishHandler, server
<1>2. /\ effects' = [effects EXCEPT ![pages[t].job] =
                             [@ EXCEPT ![Len(effects[pages[t].job])].ended = IF done THEN "done" ELSE "threw"]]
      /\ pages' = [pages EXCEPT ![t] = q] /\ Reply(t, q, pages[t].job, outcome)
  BY DEF Ended
<1>3. /\ q \in Page /\ q.inbox = pages[t].inbox /\ q.instance = pages[t].instance /\ q.channel = pages[t].channel
      /\ q.draft = pages[t].draft /\ q.stage = "none"
  BY <1>1 DEF Page
<1>4. outcome \in Outcome /\ outcome \in {"succeeded", "unknown"} /\ (outcome = "succeeded" => done)
  BY DEF Outcome
<1> HIDE DEF q, outcome
<1>5. /\ \A u \in Tab : u # t => pages'[u] = pages[u]
      /\ pages'[t] = q
  BY <1>1, <1>2
<1>6. \A u \in Tab :
        /\ hosts'[u].client = hosts[u].client /\ hosts'[u].page = hosts[u].page /\ hosts'[u].job = hosts[u].job
        /\ \/ hosts'[u].stage = hosts[u].stage /\ hosts'[u].outcome = hosts[u].outcome
           \/ /\ hosts[u].stage = "sent" /\ hosts[u].job = pages[t].job
              /\ hosts'[u].stage = "answered" /\ hosts'[u].outcome = outcome
  BY <1>1, <1>2, <1>3, <1>4, Replies
<1> QED BY <1>1, <1>2, <1>3, <1>4, <1>5, <1>6

LEMMA FinishMovesCalls ==
    ASSUME Types, Busy, Types', Posted, [Next]_vars, NEW t \in Tab, NEW done \in BOOLEAN, NEW rev \in Revision,
           FinishHandler(t), Ended(t, done, rev), NEW k \in Call
    PROVE  /\ pages[t].job = k => Ends(t, done, k)
           /\ pages[t].job # k => Rests(k)
           /\ Posted'
<1>1. /\ pages[t].stage = "running" /\ pages[t].job \in Call /\ pages'[t].inbox = pages[t].inbox
      /\ \A u \in Tab : u # t => pages'[u] = pages[u]
      /\ pages'[t].stage = "none"
      /\ effects' = [effects EXCEPT ![pages[t].job] =
                        [@ EXCEPT ![Len(effects[pages[t].job])].ended = IF done THEN "done" ELSE "threw"]]
      /\ \A u \in Tab : hosts'[u].stage = "claimed" => hosts[u].stage = "claimed" /\ hosts'[u].job = hosts[u].job
  BY Finished
<1>2. Posted'
  BY <1>1 DEF Posted
<1>3. CASE pages[t].job = k
  <2>1. effects'[k] = [effects[k] EXCEPT ![Len(effects[k])].ended = IF done THEN "done" ELSE "threw"]
    BY <1>1, <1>3 DEF Types
  <2>2. Running(t, k) /\ \A u \in Tab : Running(u, k)' => u # t /\ Running(u, k)
    BY <1>1, <1>3 DEF Running
  <2>3. \A x \in Place, u \in Tab : Carries(x, u, k)' => Carries(x, u, k)
    BY <1>1 DEF Carries
  <2> QED BY <1>2, <1>3, <2>1, <2>2, <2>3, NoNewWaiting DEF Ends
<1>4. CASE pages[t].job # k
  <2>1. effects'[k] = effects[k]
    BY <1>1, <1>4 DEF Types
  <2> QED BY <1>1, <1>2, <1>4, <2>1, OthersRest
<1> QED BY <1>3, <1>4

\* What the application's user does to the page.
LEMMA Handled ==
    ASSUME Types, Busy, NEW t \in Tab, Edit(t) \/ Leave(t) \/ Reload(t)
    PROVE  /\ UNCHANGED <<session, actions, told, hosts, syncs, clients, effects>>
           /\ \A u \in Tab : u # t => pages'[u] = pages[u]
           /\ \/ /\ pages'[t].stage = pages[t].stage /\ pages'[t].job = pages[t].job
                 /\ pages'[t].inbox = pages[t].inbox /\ pages'[t].instance = pages[t].instance
                 /\ pages'[t].draft = pages[t].draft
                 /\ \/ pages'[t].channel = pages[t].channel /\ pages'[t].aborted = pages[t].aborted
                    \/ pages'[t].channel = Nobody /\ (pages[t].job # NoCall => pages'[t].aborted)
              \/ pages'[t].stage = "none" /\ pages'[t].channel = Nobody /\ pages'[t].inbox = <<>>
<1>1. pages[t] \in Page /\ pages \in [Tab -> Page]
  BY DEF Types
<1>2. UNCHANGED <<session, actions, told, hosts, syncs, clients, effects>>
  BY DEF Edit, Leave, Reload, server, console
<1>3. CASE Edit(t)
  BY <1>1, <1>2, <1>3 DEF Edit, Page
<1>4. CASE Leave(t)
  BY <1>1, <1>2, <1>4 DEF Leave, Disconnected, Page
<1>5. CASE Reload(t)
  BY <1>1, <1>2, <1>5 DEF Reload, FreshPage
<1> QED BY <1>3, <1>4, <1>5

LEMMA PageMovesCalls ==
    ASSUME Types, Busy, Types', Posted, [Next]_vars, NEW t \in Tab, Edit(t) \/ Leave(t) \/ Reload(t), NEW k \in Call
    PROVE  Rests(k) /\ Posted'
<1>1. ~InMail(<<>>, k) /\ EachOnce(<<>>)
  BY DEF InMail, EachOnce
<1>2. Posted'
  BY <1>1, Handled DEF Posted
<1>3. \A u \in Tab : /\ pages'[u].stage # "none" => pages'[u].stage = pages[u].stage /\ pages'[u].job = pages[u].job
                     /\ InMail(pages'[u].inbox, k) => InMail(pages[u].inbox, k)
  BY <1>1, Handled
<1>4. effects' = effects /\ hosts' = hosts
  BY Handled
<1> QED BY <1>2, <1>3, <1>4, OthersRest

LEMMA CallsMove ==
    ASSUME Types, Busy, Types', Carried, [Next]_vars, NEW k \in Call
    PROVE  CallMoves(k) /\ Posted'
<1>0. Posted /\ (Rests(k) => CallMoves(k))
  BY DEF Carried, Posted, CallMoves
<1>1. CASE UNCHANGED <<hosts, pages, effects>>
  BY <1>0, <1>1, ServerMovesCalls
<1>2. ASSUME NEW j \in Call, Request(j) \/ Poll(j) \/ GiveUp(j) \/ LapseAction(j)
      PROVE  UNCHANGED <<hosts, pages, effects>>
  BY <1>2 DEF Request, Poll, GiveUp, LapseAction, console
<1>3. ASSUME LapseSession \/ RunLapses \/ RunResumes \/ ChangeRole
      PROVE  UNCHANGED <<hosts, pages, effects>>
  BY <1>3 DEF LapseSession, RunLapses, RunResumes, ChangeRole, console
<1>4. CASE UNCHANGED vars
  BY <1>1, <1>4 DEF vars, console
<1>5. ASSUME NEW t \in Tab, FinishHandler(t) PROVE CallMoves(k) /\ Posted'
  <2>1. PICK done \in BOOLEAN, rev \in Revision : Ended(t, done, rev)
    BY <1>5, FinishEnds
  <2> QED BY <1>0, <1>5, <2>1, FinishMovesCalls DEF CallMoves
<1>6. ASSUME NEW t \in Tab, \/ \E draft \in BOOLEAN : Connect(t, draft)
                            \/ Tick(t) \/ Stop(t) \/ HandOver(t) \/ Complete(t) \/ Receive(t) \/ StartHandler(t)
                            \/ Edit(t) \/ Leave(t) \/ Reload(t)
      PROVE  CallMoves(k) /\ Posted'
  BY <1>0, <1>6, ConnectMovesCalls, TickMovesCalls, StopMovesCalls, HandOverMovesCalls, CompleteMovesCalls,
     ReceiveMovesCalls, StartMovesCalls, PageMovesCalls
<1>7. ASSUME NEW m \in syncs, ServeSync(m) \/ LoseSync(m) PROVE CallMoves(k) /\ Posted'
  BY <1>0, <1>7, SyncMovesCalls
<1> QED BY <1>1, <1>2, <1>3, <1>4, <1>5, <1>6, <1>7 DEF Next

----------------------------------------------------------------------------
(* What a step does to the consoles and the pages. *)

SameLink(t) == hosts'[t].client = hosts[t].client /\ hosts'[t].page = hosts[t].page
SameWork(t) ==
    hosts'[t].stage = hosts[t].stage /\ hosts'[t].job = hosts[t].job /\ hosts'[t].outcome = hosts[t].outcome
Busied == {"claimed", "sent", "answered"}

\* A console is connected, lets go, claims a call for its connection, hands it over or is answered.
Joins(t) ==
    /\ hosts'[t].stage = "none" /\ clients' = clients + 1
    /\ hosts'[t].client = clients' /\ hosts'[t].page = pages[t].instance
LetsGo(t) == hosts'[t].stage \notin Busied /\ (hosts'[t].client = Nobody \/ SameLink(t))
Accepts(t, k) ==
    /\ SameLink(t) /\ hosts[t].client # Nobody /\ hosts'[t].stage = "claimed" /\ hosts'[t].job = k
    /\ actions[k].status = "pending" /\ actions'[k].status = "executing"
    /\ actions'[k].client = hosts[t].client
Sends(t) ==
    SameLink(t) /\ hosts[t].stage = "claimed" /\ hosts'[t].stage = "sent" /\ hosts'[t].job = hosts[t].job
Hears(t) ==
    /\ SameLink(t) /\ hosts[t].stage = "sent" /\ hosts'[t].stage = "answered" /\ hosts'[t].job = hosts[t].job
    /\ hosts'[t].outcome = "succeeded" => Done(hosts[t].job)'
    /\ hosts'[t].outcome = "failed" => Gone(hosts[t].job)'
HostMoves(t) ==
    \/ SameLink(t) /\ SameWork(t)
    \/ Joins(t) \/ LetsGo(t) \/ Sends(t) \/ Hears(t)
    \/ \E k \in Call : Accepts(t, k)

LEMMA Synced ==
    ASSUME Types, Busy, Types', NEW m \in syncs, ServeSync(m) \/ LoseSync(m), NEW t \in Tab
    PROVE  HostMoves(t)
<1> DEFINE now == Expire(session)
           h == [hosts[m.tab] EXCEPT !.waiting = FALSE, !.granted = TRUE]
<1>1. m \in Heartbeat /\ m.tab \in Tab /\ hosts[m.tab] \in Host /\ hosts \in [Tab -> Host]
  BY DEF Types, Heartbeat
<1>2. h.stage = hosts[m.tab].stage /\ h.job = hosts[m.tab].job /\ h.client = hosts[m.tab].client
      /\ h.page = hosts[m.tab].page /\ h.outcome = hosts[m.tab].outcome /\ h \in Host
  BY <1>1 DEF Host
<1> HIDE DEF h
<1>3. CASE hosts' = hosts \/ hosts' = [hosts EXCEPT ![m.tab] = h]
  BY <1>1, <1>2, <1>3 DEF HostMoves, SameLink, SameWork
<1>4. ASSUME NEW j \in Claimable(m, now), ClaimedAs(j, m) = "executing", Listens(m),
             actions' = [now EXCEPT ![j].status = "executing"],
             hosts' = [hosts EXCEPT ![m.tab] = [h EXCEPT !.job = j, !.stage = "claimed"]]
      PROVE  HostMoves(t)
  <2>1. j \in Call /\ now[j].status = "pending" /\ now[j].client = m.client /\ now \in [Call -> Action]
        /\ session \in Session /\ hosts[m.tab].client = m.client /\ m.client # Nobody
    BY <1>1, <1>4, Rows, Zero DEF Claimable, Types, Listens, Heartbeat
  <2>2. actions[j].status = "pending"
    BY <2>1, Expired
  <2> HIDE DEF now
  <2>3. actions'[j].status = "executing" /\ actions'[j].client = m.client
    BY <1>4, <2>1 DEF Action
  <2>4. CASE t = m.tab
    <3>1. /\ hosts'[t].client = hosts[t].client /\ hosts'[t].page = hosts[t].page
          /\ hosts'[t].stage = "claimed" /\ hosts'[t].job = j
      BY <1>1, <1>2, <1>4, <2>4 DEF Host
    <3>2. Accepts(t, j)
      BY <2>1, <2>2, <2>3, <2>4, <3>1 DEF Accepts, SameLink
    <3> QED BY <2>1, <3>2 DEF HostMoves
  <2>5. CASE t # m.tab
    BY <1>1, <1>4, <2>5 DEF HostMoves, SameLink, SameWork
  <2> QED BY <2>4, <2>5
<1>5. \/ hosts' = hosts \/ hosts' = [hosts EXCEPT ![m.tab] = h]
      \/ \E j \in Claimable(m, now) :
            /\ ClaimedAs(j, m) = "executing" /\ Listens(m)
            /\ actions' = [now EXCEPT ![j].status = "executing"]
            /\ hosts' = [hosts EXCEPT ![m.tab] = [h EXCEPT !.job = j, !.stage = "claimed"]]
  <2>1. CASE Sync(m)
    <3>1. \/ hosts' = hosts \/ Answered(m, h)
          \/ \E j \in Claimable(m, now) :
                /\ Listens(m) /\ actions' = [now EXCEPT ![j].status = ClaimedAs(j, m)]
                /\ Answered(m, IF ClaimedAs(j, m) = "executing" THEN [h EXCEPT !.job = j, !.stage = "claimed"] ELSE h)
      BY <2>1 DEF Sync, h
    <3> HIDE DEF now
    <3> QED BY <3>1 DEF Answered
  <2> QED BY <2>1 DEF ServeSync, LoseSync, SyncTooLate
<1> HIDE DEF now
<1> QED BY <1>3, <1>4, <1>5

\* What the console hears of a call is true of it then.
LEMMA DeclinedIsGone ==
    ASSUME Types, Busy, Types', Carried, [Next]_vars, NEW t \in Tab, Receive(t), NEW j \in Call,
           j = Head(pages[t].inbox).job, pages'[t].stage = pages[t].stage, pages'[t].job = pages[t].job
    PROVE  Gone(j)'
<1>1. pages[t].inbox \in Seq(Message) /\ pages[t].inbox # <<>> /\ effects' = effects
  BY Received
<1>2. \A u \in Tab : u # t => pages'[u] = pages[u]
  BY PagesRead
<1>3. pages'[t].inbox = Tail(pages[t].inbox)
  BY PagesRead
<1>4. j # NoCall
  BY PageAssumption
<1>5. InMail(pages[t].inbox, j) /\ ~InMail(pages'[t].inbox, j)
  BY <1>1, <1>3, <1>4, MailRead DEF Carried
<1>6. Carries("mail", t, j) /\ "mail" \in Place
  BY <1>5 DEF Carries, Place
<1>7. \A u \in Tab : hosts'[u].stage = "claimed" => hosts[u].stage = "claimed" /\ hosts'[u].job = hosts[u].job
  BY HostsListen
<1>9. effects[j] = <<>> /\ \A x \in Place, u \in Tab : Carries(x, u, j) => x = "mail" /\ u = t
  BY <1>6 DEF Carried, OneCarrier
<1>10. ASSUME NEW x \in Place, NEW u \in Tab, Carries(x, u, j)' PROVE FALSE
  <2>1. CASE x = "mail" /\ u = t
    BY <1>5, <1>10, <2>1 DEF Carries
  <2>2. CASE ~(x = "mail" /\ u = t)
    <3>1. Carries(x, u, j)
      BY <1>2, <1>7, <1>10, <2>2 DEF Carries
    <3> QED BY <1>9, <2>2, <3>1
  <2> QED BY <2>1, <2>2
<1> QED BY <1>1, <1>9, <1>10 DEF Gone

LEMMA SkippedIsGone ==
    ASSUME Types, Busy, Types', Carried, [Next]_vars, NEW t \in Tab, StartHandler(t), Skips(t),
           NEW j \in Call, j = pages[t].job
    PROVE  Gone(j)'
<1>1. /\ pages[t].stage = "painting" /\ pages'[t].inbox = pages[t].inbox
      /\ \A u \in Tab : u # t => pages'[u] = pages[u]
      /\ effects' = effects
  BY Painted DEF Skips
<1>2. pages'[t].stage = "none"
  BY <1>1 DEF Skips, Idle, Types, Page
<1>3. \A u \in Tab : hosts'[u].stage = "claimed" => hosts[u].stage = "claimed" /\ hosts'[u].job = hosts[u].job
  BY SkipAnswers
<1>4. Carries("page", t, j) /\ "page" \in Place
  BY <1>1 DEF Carries, Place
<1>5. effects[j] = <<>> /\ \A x \in Place, u \in Tab : Carries(x, u, j) => x = "page" /\ u = t
  BY <1>1, <1>4 DEF Carried, OneCarrier
<1>6. ASSUME NEW x \in Place, NEW u \in Tab, Carries(x, u, j)' PROVE FALSE
  <2>1. CASE x = "page" /\ u = t
    BY <1>2, <1>6, <2>1 DEF Carries
  <2>2. CASE ~(x = "page" /\ u = t)
    <3>1. Carries(x, u, j)
      BY <1>1, <1>3, <1>6, <2>2 DEF Carries
    <3> QED BY <1>5, <2>2, <3>1
  <2> QED BY <2>1, <2>2
<1> QED BY <1>1, <1>5, <1>6 DEF Gone

LEMMA HostsMove ==
    ASSUME Types, Busy, Types', Carried, [Next]_vars, NEW u \in Tab
    PROVE  HostMoves(u)
<1>1. CASE hosts' = hosts
  BY <1>1 DEF HostMoves, SameLink, SameWork
<1>2. ASSUME NEW t \in Tab, NEW draft \in BOOLEAN, Connect(t, draft) PROVE HostMoves(u)
  <2> DEFINE c == clients + 1
  <2>1. hosts' = [hosts EXCEPT ![t] = [Off EXCEPT !.client = c, !.draft = draft, !.page = PageId(t)]] /\ clients' = c
    BY <1>2 DEF Connect
  <2>2. u # t => hosts'[u] = hosts[u]
    BY <2>1 DEF Types
  <2>3. u = t => hosts'[u].stage = "none" /\ hosts'[u].client = clients' /\ hosts'[u].page = pages[t].instance
    BY <2>1 DEF Types, Off, PageId
  <2> QED BY <2>1, <2>2, <2>3 DEF HostMoves, Joins, SameLink, SameWork
<1>3. ASSUME NEW t \in Tab, Tick(t) PROVE HostMoves(u)
  <2>1. hosts' = [hosts EXCEPT ![t].waiting = TRUE]
    BY <1>3 DEF Tick
  <2> QED BY <2>1 DEF Types, Host, HostMoves, SameLink, SameWork
<1>4. ASSUME NEW t \in Tab, Stop(t) PROVE HostMoves(u)
  <2>1. hosts' = [hosts EXCEPT ![t] = Off]
    BY <1>4 DEF Stop
  <2> QED BY <2>1 DEF Types, Off, HostMoves, LetsGo, SameLink, SameWork, Busied
<1>5. ASSUME NEW t \in Tab, HandOver(t) PROVE HostMoves(u)
  <2>1. hosts[t].stage = "claimed" /\ hosts' = [hosts EXCEPT ![t].stage = "sent"]
    BY <1>5 DEF HandOver
  <2> QED BY <2>1 DEF Types, Host, HostMoves, Sends, SameLink, SameWork
<1>6. ASSUME NEW t \in Tab, Complete(t) PROVE HostMoves(u)
  <2>1. \/ hosts' = [hosts EXCEPT ![t].stage = "spent"]
        \/ hosts' = [hosts EXCEPT ![t].stage = "none", ![t].job = NoCall]
    BY <1>6 DEF Complete
  <2>2. u # t => hosts'[u] = hosts[u]
    BY <2>1 DEF Types
  <2>3. u = t => hosts'[u].stage \in {"spent", "none"} /\ hosts'[u].client = hosts[u].client
                 /\ hosts'[u].page = hosts[u].page
    BY <2>1 DEF Types, Host
  <2> QED BY <2>2, <2>3 DEF HostMoves, LetsGo, SameLink, SameWork, Busied
<1>7. ASSUME NEW t \in Tab, Receive(t) PROVE HostMoves(u)
  <2>1. CASE SameLink(u) /\ SameWork(u)
    BY <2>1 DEF HostMoves
  <2>2. CASE /\ SameLink(u) /\ hosts[u].stage = "sent" /\ hosts[u].job = Head(pages[t].inbox).job /\ hosts[u].job \in Call
             /\ pages'[t].stage = pages[t].stage /\ pages'[t].job = pages[t].job
             /\ hosts'[u].job = hosts[u].job
             /\ hosts'[u].stage = "answered" /\ hosts'[u].outcome = "failed"
    BY <1>7, <2>2, DeclinedIsGone DEF HostMoves, Hears, Gone, Carries
  <2> QED BY <1>7, <2>1, <2>2, HostsListen DEF SameLink, SameWork
<1>8. ASSUME NEW t \in Tab, StartHandler(t) PROVE HostMoves(u)
  <2>1. CASE SameLink(u) /\ SameWork(u)
    BY <2>1 DEF HostMoves
  <2>2. CASE /\ SameLink(u) /\ hosts[u].stage = "sent" /\ hosts[u].job = pages[t].job /\ Skips(t)
             /\ hosts'[u].job = hosts[u].job
             /\ hosts'[u].stage = "answered" /\ hosts'[u].outcome = "failed"
    <3>1. PICK k \in Call : k = pages[t].job
      BY <1>8, Painted
    <3>2. Gone(k)'
      BY <1>8, <2>2, <3>1, SkippedIsGone
    <3>3. hosts'[u].job = k
      BY <2>2, <3>1
    <3>4. Gone(hosts[u].job)'
      BY <3>2, <3>3 DEF Gone, Carries
    <3> QED BY <2>2, <3>4 DEF HostMoves, Hears
  <2> QED BY <1>8, <2>1, <2>2, SkipAnswers DEF SameLink, SameWork
<1>9. ASSUME NEW t \in Tab, FinishHandler(t) PROVE HostMoves(u)
  <2>1. PICK done \in BOOLEAN, rev \in Revision : Ended(t, done, rev)
    BY <1>9, FinishEnds
  <2>2. PICK k \in Call : k = pages[t].job
    BY <1>9, <2>1, Finished
  <2>3. Ends(t, done, k)
    BY <1>9, <2>1, <2>2, FinishMovesCalls DEF Carried, Posted
  <2>4. done => Done(k)'
    BY <2>2, <2>3, EndedCall DEF Carried
  <2>5. /\ SameLink(u) /\ hosts'[u].job = hosts[u].job
        /\ \/ hosts'[u].stage = hosts[u].stage /\ hosts'[u].outcome = hosts[u].outcome
           \/ /\ hosts[u].stage = "sent" /\ hosts[u].job = pages[t].job
              /\ hosts'[u].stage = "answered" /\ hosts'[u].outcome \in {"succeeded", "unknown"}
              /\ hosts'[u].outcome = "succeeded" => done
    BY <1>9, <2>1, Finished DEF SameLink
  <2>6. CASE hosts'[u].stage = hosts[u].stage /\ hosts'[u].outcome = hosts[u].outcome
    BY <2>5, <2>6 DEF HostMoves, SameWork
  <2>7. CASE /\ hosts[u].stage = "sent" /\ hosts[u].job = k
             /\ hosts'[u].stage = "answered" /\ hosts'[u].outcome \in {"succeeded", "unknown"}
             /\ hosts'[u].outcome = "succeeded" => done
    <3>1. hosts'[u].outcome = "succeeded" => Done(hosts[u].job)'
      BY <2>4, <2>5, <2>7 DEF Done
    <3> QED BY <2>5, <2>7, <3>1 DEF HostMoves, Hears
  <2> QED BY <2>2, <2>5, <2>6, <2>7
<1>10. ASSUME NEW m \in syncs, ServeSync(m) \/ LoseSync(m) PROVE HostMoves(u)
  BY <1>10, Synced
<1>11. ASSUME \/ \E k \in Call : Request(k) \/ Poll(k) \/ GiveUp(k) \/ LapseAction(k)
              \/ \E t \in Tab : Edit(t) \/ Leave(t) \/ Reload(t)
              \/ LapseSession \/ RunLapses \/ RunResumes \/ ChangeRole
              \/ UNCHANGED vars
       PROVE  HostMoves(u)
  BY <1>1, <1>11 DEF Request, Poll, GiveUp, LapseAction, Edit, Leave, Reload, LapseSession, RunLapses, RunResumes,
                     ChangeRole, vars, console
<1> QED BY <1>2, <1>3, <1>4, <1>5, <1>6, <1>7, <1>8, <1>9, <1>10, <1>11 DEF Next

\* The mail of a page stays, is lost with the page, is read, or gets an end of a connection
\* or what its console claimed.
MailMoves(t) ==
    \/ pages'[t].inbox = pages[t].inbox
    \/ pages'[t].inbox = <<>>
    \/ pages[t].inbox # <<>> /\ pages'[t].inbox = Tail(pages[t].inbox)
    \/ \E m \in Message :
          /\ pages'[t].inbox = Append(pages[t].inbox, m)
          /\ m.job # NoCall => hosts[t].stage = "claimed" /\ hosts[t].job = m.job /\ hosts[t].client = m.client

\* A page serves the connection it served, none, or a new one if it served none.
LinkMoves(t) ==
    \/ pages'[t].channel = Nobody
    \/ pages'[t].channel = pages[t].channel /\ pages'[t].instance = pages[t].instance
    \/ /\ pages[t].channel = Nobody /\ clients' = clients + 1 /\ pages'[t].channel = clients'
       /\ pages'[t].instance = pages[t].instance /\ Joins(t)

\* A page is about to start what it was about to start, or what it has just read.
PaintMoves(t) ==
    /\ pages'[t].stage # "none" => pages'[t].job \in Call
    /\ pages'[t].stage = "painting" =>
         \/ /\ pages[t].stage = "painting" /\ pages'[t].job = pages[t].job
            /\ \/ pages'[t].aborted
               \/ pages[t].channel = Nobody /\ pages'[t].aborted = pages[t].aborted
               \/ /\ pages'[t].aborted = pages[t].aborted /\ pages'[t].channel = pages[t].channel
                  /\ pages'[t].draft = pages[t].draft
         \/ /\ pages[t].inbox # <<>> /\ pages'[t].job = Head(pages[t].inbox).job
            /\ pages'[t].channel = Head(pages[t].inbox).client
            /\ pages'[t].job \in Draft => pages'[t].draft

PageMoves(t) == MailMoves(t) /\ LinkMoves(t) /\ PaintMoves(t)

LEMMA UntouchedPage ==
    ASSUME Busy, NEW u \in Tab, pages'[u] = pages[u]
    PROVE  PageMoves(u)
BY DEF Busy, PageMoves, MailMoves, LinkMoves, PaintMoves

LEMMA PostedPage ==
    ASSUME Types, Busy, NEW t \in Tab, NEW m \in Message, NEW u \in Tab,
           pages' = [pages EXCEPT ![t].inbox = Append(@, m)],
           m.job # NoCall => hosts[t].stage = "claimed" /\ hosts[t].job = m.job /\ hosts[t].client = m.client
    PROVE  PageMoves(u)
<1>1. CASE u # t
  <2>1. pages'[u] = pages[u]
    BY <1>1 DEF Types
  <2> QED BY <2>1, UntouchedPage
<1>2. CASE u = t
  <2>1. /\ pages'[t].inbox = Append(pages[t].inbox, m) /\ pages'[t].channel = pages[t].channel
        /\ pages'[t].instance = pages[t].instance /\ pages'[t].stage = pages[t].stage /\ pages'[t].job = pages[t].job
        /\ pages'[t].aborted = pages[t].aborted /\ pages'[t].draft = pages[t].draft
    BY DEF Types, Page
  <2>2. MailMoves(t)
    BY <2>1 DEF MailMoves
  <2> QED BY <1>2, <2>1, <2>2 DEF Busy, PageMoves, LinkMoves, PaintMoves
<1> QED BY <1>1, <1>2

LEMMA PagesMove ==
    ASSUME Types, Busy, Types', [Next]_vars, NEW u \in Tab
    PROVE  PageMoves(u)
<1>1. CASE pages'[u] = pages[u]
  BY <1>1, UntouchedPage
<1>2. ASSUME NEW t \in Tab, NEW draft \in BOOLEAN, Connect(t, draft) PROVE PageMoves(u)
  <2> DEFINE c == clients + 1
  <2>1. /\ pages' = [pages EXCEPT ![t].channel = c, ![t].draft = draft] /\ clients' = c
        /\ pages[t].channel = Nobody
        /\ hosts' = [hosts EXCEPT ![t] = [Off EXCEPT !.client = c, !.draft = draft, !.page = PageId(t)]]
    BY <1>2 DEF Connect
  <2>2. clients' = clients + 1
    BY <2>1
  <2> HIDE DEF c
  <2>3. CASE u # t
    BY <1>1, <2>1, <2>3 DEF Types
  <2>4. CASE u = t
    <3>1. /\ pages'[t].inbox = pages[t].inbox /\ pages'[t].channel = c
          /\ pages'[t].instance = pages[t].instance /\ pages'[t].stage = pages[t].stage /\ pages'[t].job = pages[t].job
          /\ pages'[t].aborted = pages[t].aborted
      BY <2>1 DEF Types, Page
    <3>2. Joins(t)
      BY <2>1, <2>2 DEF Types, Off, PageId, Joins
    <3> QED BY <2>1, <2>2, <2>4, <3>1, <3>2 DEF Busy, PageMoves, MailMoves, LinkMoves, PaintMoves
  <2> QED BY <2>3, <2>4
<1>3. ASSUME NEW t \in Tab, Stop(t) PROVE PageMoves(u)
  <2> DEFINE m == [client |-> hosts[t].client, job |-> NoCall]
  <2>1. hosts[t].client # Nobody /\ pages' = [pages EXCEPT ![t].inbox = Append(@, m)]
    BY <1>3 DEF Stop
  <2>2. m \in Message /\ m.job = NoCall
    BY <2>1 DEF Types, Host, Message
  <2> HIDE DEF m
  <2> QED BY <2>1, <2>2, PostedPage
<1>4. ASSUME NEW t \in Tab, HandOver(t) PROVE PageMoves(u)
  <2> DEFINE m == [client |-> hosts[t].client, job |-> hosts[t].job]
  <2>1. hosts[t].stage = "claimed" /\ pages' = [pages EXCEPT ![t].inbox = Append(@, m)]
    BY <1>4 DEF HandOver
  <2>2. m \in Message /\ m.job = hosts[t].job /\ m.client = hosts[t].client
    BY <2>1 DEF Types, Busy, Host, Message
  <2> HIDE DEF m
  <2> QED BY <2>1, <2>2, PostedPage
<1>5. ASSUME NEW t \in Tab, Receive(t) PROVE PageMoves(u)
  <2> DEFINE k == Head(pages[t].inbox).job
  <2>1. u # t => pages'[u] = pages[u]
    BY <1>5, PagesRead
  <2>2. pages'[t].inbox = Tail(pages[t].inbox) /\ pages[t].inbox # <<>>
    BY <1>5, PagesRead, Received
  <2>3. pages'[t].instance = pages[t].instance /\ pages'[t].draft = pages[t].draft
    BY <1>5, PagesRead
  <2>4. CASE /\ pages'[t].stage = pages[t].stage /\ pages'[t].job = pages[t].job
             /\ \/ pages'[t].channel = pages[t].channel /\ pages'[t].aborted = pages[t].aborted
                \/ pages'[t].channel = Nobody /\ (pages[t].job # NoCall => pages'[t].aborted)
    <3>1. pages[t].stage # "none" => pages[t].job # NoCall
      BY PageAssumption DEF Busy
    <3>2. PageMoves(t)
      BY <2>2, <2>3, <2>4, <3>1 DEF Busy, PageMoves, MailMoves, LinkMoves, PaintMoves
    <3> QED BY <1>1, <2>1, <3>2
  <2>5. CASE /\ k \in Call /\ Begins(t, k)
             /\ pages'[t].stage = "painting" /\ pages'[t].job = k /\ pages'[t].channel = pages[t].channel
    <3>1. PageMoves(t)
      BY <2>2, <2>3, <2>5 DEF Begins, PageMoves, MailMoves, LinkMoves, PaintMoves
    <3> QED BY <1>1, <2>1, <3>1
  <2> QED BY <1>5, <2>4, <2>5, PagesRead
<1>6. ASSUME NEW t \in Tab, StartHandler(t) PROVE PageMoves(u)
  <2>1. /\ u # t => pages'[u] = pages[u]
        /\ pages'[t].inbox = pages[t].inbox /\ pages'[t].instance = pages[t].instance
        /\ pages'[t].channel = pages[t].channel /\ pages[t].job \in Call
        /\ pages'[t].stage = "none" \/ (pages'[t].stage = "running" /\ pages'[t].job = pages[t].job)
    BY <1>6, Painted
  <2>2. PageMoves(t)
    BY <2>1 DEF PageMoves, MailMoves, LinkMoves, PaintMoves
  <2> QED BY <1>1, <2>1, <2>2
<1>7. ASSUME NEW t \in Tab, FinishHandler(t) PROVE PageMoves(u)
  <2>1. PICK done \in BOOLEAN, rev \in Revision : Ended(t, done, rev)
    BY <1>7, FinishEnds
  <2>2. /\ u # t => pages'[u] = pages[u]
        /\ pages'[t].inbox = pages[t].inbox /\ pages'[t].instance = pages[t].instance
        /\ pages'[t].channel = pages[t].channel /\ pages'[t].stage = "none"
    BY <1>7, <2>1, Finished, ZenonT(40)
  <2>3. PageMoves(t)
    BY <2>2 DEF PageMoves, MailMoves, LinkMoves, PaintMoves
  <2> QED BY <1>1, <2>2, <2>3
<1>8. ASSUME NEW t \in Tab, Edit(t) \/ Leave(t) \/ Reload(t) PROVE PageMoves(u)
  <2>1. pages[t].stage # "none" => pages[t].job \in Call /\ pages[t].job # NoCall
    BY PageAssumption DEF Busy
  <2>2. PageMoves(t)
    BY <1>8, <2>1, Handled DEF PageMoves, MailMoves, LinkMoves, PaintMoves
  <2>3. u # t => pages'[u] = pages[u]
    BY <1>8, Handled
  <2> QED BY <1>1, <2>2, <2>3
<1>9. ASSUME \/ \E k \in Call : Request(k) \/ Poll(k) \/ GiveUp(k) \/ LapseAction(k)
             \/ \E t \in Tab : Tick(t) \/ Complete(t)
             \/ \E m \in syncs : ServeSync(m) \/ LoseSync(m)
             \/ LapseSession \/ RunLapses \/ RunResumes \/ ChangeRole
             \/ UNCHANGED vars
      PROVE  PageMoves(u)
  BY <1>1, <1>9 DEF Request, Poll, GiveUp, LapseAction, Tick, Complete, ServeSync, LoseSync, LapseSession, RunLapses,
                    RunResumes, ChangeRole, vars
<1> QED BY <1>2, <1>3, <1>4, <1>5, <1>6, <1>7, <1>8, <1>9 DEF Next

----------------------------------------------------------------------------
(* Who carries a call stays one. *)

LEMMA InitCarried == Init => Carried
<1> SUFFICES ASSUME Init PROVE Carried
  OBVIOUS
<1>1. /\ actions = [k \in Call |-> NoAction] /\ hosts = [t \in Tab |-> Off] /\ effects = [k \in Call |-> <<>>]
  BY DEF Init
<1>2. PICK id \in [Tab -> 1..Cardinality(Tab)] : pages = [t \in Tab |-> FreshPage(id[t], 0)]
  BY DEF Init
<1>3. \A t \in Tab : pages[t].stage = "none" /\ pages[t].inbox = <<>> /\ hosts[t].stage = "none"
  BY <1>1, <1>2 DEF FreshPage, Off
<1>4. \A k : ~InMail(<<>>, k)
  BY DEF InMail
<1>5. EachOnce(<<>>)
  BY DEF EachOnce
<1>6. ASSUME NEW k \in Call PROVE OneCarrier(k)
  <2>1. effects[k] = <<>> /\ \A x \in Place, t \in Tab : ~Carries(x, t, k)
    BY <1>1, <1>3, <1>4 DEF Carries
  <2>2. \A t \in Tab : ~Running(t, k)
    BY <1>3 DEF Running
  <2>3. Len(effects[k]) <= 1
    BY <2>1
  <2> QED BY <2>1, <2>2, <2>3 DEF OneCarrier, Gone
<1> QED BY <1>3, <1>5, <1>6 DEF Carried

LEMMA KeepsCarried ==
    ASSUME Types, Busy, Types', Carried, [Next]_vars
    PROVE  Carried'
<1>1. ASSUME NEW k \in Call PROVE OneCarrier(k)'
  BY <1>1, CallsMove, MovedCall DEF Carried
<1>2. Posted'
  <2>1. CASE Call = {}
    <3>1. ASSUME NEW t \in Tab PROVE EachOnce(pages'[t].inbox)
      <4>1. pages'[t].inbox \in Seq(Message)
        BY DEF Types, Page
      <4>2. \A i \in 1..Len(pages'[t].inbox) : pages'[t].inbox[i] \in Message
        BY <4>1
      <4> QED BY <2>1, <4>2 DEF Message, EachOnce
    <3> QED BY <3>1 DEF Posted
  <2>2. CASE Call # {}
    BY <2>2, CallsMove
  <2> QED BY <2>1, <2>2
<1> QED BY <1>1, <1>2 DEF Carried, Posted

LEMMA KeepsBusy ==
    ASSUME Types, Busy, Types', Carried, [Next]_vars
    PROVE  Busy'
<1>1. ASSUME NEW t \in Tab, hosts'[t].stage \in {"claimed", "sent", "answered"}
      PROVE  hosts'[t].job \in Call /\ hosts'[t].client # Nobody
  BY <1>1, HostsMove DEF HostMoves, SameLink, SameWork, Joins, LetsGo, Sends, Hears, Accepts, Busied, Busy
<1>2. ASSUME NEW t \in Tab, pages'[t].stage # "none" PROVE pages'[t].job \in Call
  BY <1>2, PagesMove DEF PageMoves, PaintMoves
<1> QED BY <1>1, <1>2 DEF Busy

----------------------------------------------------------------------------
(* Connections and pages. *)

\* A connection is made with one page, and whoever names the one names the other.
Names(c, p, page) == c = Nobody \/ (c \in 1..clients /\ p = page[c])
AddressedBy(page) ==
    /\ \A t \in Tab : Names(hosts[t].client, hosts[t].page, page)
    /\ \A m \in syncs : Names(m.client, m.page, page)
    /\ Names(session.client, session.page, page)
    /\ \A k \in Call : Names(actions[k].client, actions[k].page, page)
    /\ \A t \in Tab : Names(pages[t].channel, pages[t].instance, page)
Addressed ==
    /\ session.live => session.client # Nobody
    /\ \A k \in Call : actions[k].status # "none" => actions[k].client # Nobody
    /\ \E page \in [1..clients -> Nat] : AddressedBy(page)

LEMMA InitAddressed == Init => Addressed
<1> SUFFICES ASSUME Init PROVE Addressed
  OBVIOUS
<1>1. /\ session = NoSession /\ actions = [k \in Call |-> NoAction] /\ hosts = [t \in Tab |-> Off]
      /\ syncs = {} /\ clients = 0
  BY DEF Init
<1>2. PICK id \in [Tab -> 1..Cardinality(Tab)] : pages = [t \in Tab |-> FreshPage(id[t], 0)]
  BY DEF Init
<1>3. \A t \in Tab : pages[t].channel = Nobody
  BY <1>2 DEF FreshPage
<1> DEFINE page == [i \in 1..clients |-> 0]
<1>4. page \in [1..clients -> Nat] /\ AddressedBy(page)
  BY <1>1, <1>3 DEF AddressedBy, Names, NoSession, NoAction, Off
<1>5. ~session.live /\ \A k \in Call : actions[k].status = "none"
  BY <1>1 DEF NoSession, NoAction
<1> QED BY <1>4, <1>5 DEF Addressed

\* The session is renewed by a heartbeat that tells it where it comes from, or ends.
LEMMA SessionMoves ==
    ASSUME Types, [Next]_vars
    PROVE  \/ session'.client = Nobody /\ ~session'.live
           \/ /\ session'.client = session.client /\ session'.page = session.page
              /\ session'.live => session.live
           \/ \E m \in syncs : session'.client = m.client /\ session'.page = m.page /\ m.client # Nobody
<1>1. CASE session' = session
  BY <1>1
<1>2. ASSUME NEW t \in Tab, Stop(t) PROVE session' = session \/ session' = NoSession
  BY <1>2 DEF Stop, Farewell
<1>3. ASSUME NEW t \in Tab, Complete(t) PROVE session' = session \/ \E r : session' = [session EXCEPT !.rev = r]
  BY <1>3 DEF Complete
<1>4. ASSUME NEW m \in syncs, ServeSync(m) \/ LoseSync(m)
      PROVE  session' = session \/ (session'.client = m.client /\ session'.page = m.page /\ m.client # Nobody)
  <2>1. m.client # Nobody
    BY Zero DEF Types, Heartbeat
  <2>2. CASE Sync(m)
    <3>1. session' = [client |-> m.client, page |-> m.page, draft |-> m.draft, rev |-> m.rev, live |-> TRUE]
      BY <2>2 DEF Sync
    <3> QED BY <2>1, <3>1
  <2> QED BY <1>4, <2>2 DEF ServeSync, LoseSync, SyncTooLate, server
<1>5. CASE LapseSession
  <2>1. session' = [session EXCEPT !.live = FALSE]
    BY <1>5 DEF LapseSession
  <2> QED BY <2>1 DEF Types, Session
<1>6. CASE session' = NoSession \/ \E r : session' = [session EXCEPT !.rev = r]
  BY <1>6 DEF Types, Session, NoSession
<1>7. \/ session' = session \/ LapseSession
      \/ \E t \in Tab : Stop(t) \/ Complete(t)
      \/ \E m \in syncs : ServeSync(m) \/ LoseSync(m)
  BY DEF Next, vars, server, Request, Poll, GiveUp, LapseAction, Connect, Tick, HandOver, Receive, StartHandler,
         FinishHandler, Edit, Leave, Reload, RunLapses, RunResumes, ChangeRole
<1> QED BY <1>1, <1>2, <1>3, <1>4, <1>5, <1>6, <1>7

LEMMA SyncsMove ==
    ASSUME Types, [Next]_vars, NEW m \in syncs'
    PROVE  m \in syncs \/ \E t \in Tab : m.client = hosts[t].client /\ m.page = hosts[t].page
<1>1. ASSUME NEW t \in Tab, Tick(t)
      PROVE  m \in syncs \/ (m.client = hosts[t].client /\ m.page = hosts[t].page)
  BY <1>1 DEF Tick
<1>2. \/ syncs' = syncs \/ \E t \in Tab : Tick(t)
      \/ \E x \in syncs : syncs' = syncs \ {x}
  BY DEF Next, vars, server, console, Request, Poll, GiveUp, LapseAction, Connect, Stop, HandOver, Complete, Receive,
         StartHandler, FinishHandler, Edit, Leave, Reload, ServeSync, LoseSync, LapseSession, RunLapses, RunResumes,
         ChangeRole
<1> QED BY <1>1, <1>2

LEMMA ClientsMove ==
    ASSUME [Next]_vars
    PROVE  clients' = clients \/ \E t \in Tab, draft \in BOOLEAN : Connect(t, draft)
BY DEF Next, vars, Request, Poll, GiveUp, LapseAction, Tick, Stop, HandOver, Complete, Receive,
       StartHandler, FinishHandler, Edit, Leave, Reload, ServeSync, LoseSync, LapseSession, RunLapses, RunResumes,
       ChangeRole

LEMMA KeepsAddressed ==
    ASSUME Types, Busy, Types', Carried, Addressed, [Next]_vars
    PROVE  Addressed'
<1>1. session'.live => session'.client # Nobody
  BY SessionMoves DEF Addressed
<1>2. ASSUME NEW k \in Call, actions'[k].status # "none" PROVE actions'[k].client # Nobody
  BY <1>2, RowsMove DEF RowMoves, Queued, SameAddress, Abandoned, Judged, Completed, Addressed
<1>3. PICK page \in [1..clients -> Nat] : AddressedBy(page)
  BY DEF Addressed
<1>4. CASE clients' = clients
  <2>0. clients \in Nat /\ clients' # clients + 1 /\ \A c, p : Names(c, p, page)' <=> Names(c, p, page)
    BY <1>4, PageAssumption DEF Types, Names
  <2>1. ASSUME NEW t \in Tab PROVE Names(hosts'[t].client, hosts'[t].page, page)
    <3>1. hosts'[t].client = Nobody \/ SameLink(t)
      BY <1>4, <2>0, HostsMove DEF HostMoves, Joins, LetsGo, Sends, Hears, Accepts
    <3> QED BY <1>3, <3>1 DEF AddressedBy, SameLink, Names
  <2>2. ASSUME NEW m \in syncs' PROVE Names(m.client, m.page, page)
    BY <1>3, <2>2, SyncsMove DEF AddressedBy
  <2>3. Names(session'.client, session'.page, page)
    BY <1>3, SessionMoves DEF AddressedBy, Names
  <2>4. ASSUME NEW k \in Call PROVE Names(actions'[k].client, actions'[k].page, page)
    BY <1>3, <2>4, RowsMove DEF AddressedBy, RowMoves, Queued, SameAddress
  <2>5. ASSUME NEW t \in Tab PROVE Names(pages'[t].channel, pages'[t].instance, page)
    <3>1. LinkMoves(t)
      BY PagesMove DEF PageMoves
    <3> QED BY <1>3, <1>4, <2>0, <3>1 DEF AddressedBy, LinkMoves, Names
  <2>6. AddressedBy(page)'
    BY <2>0, <2>1, <2>2, <2>3, <2>4, <2>5 DEF AddressedBy
  <2>7. page \in [1..clients' -> Nat]
    BY <1>4
  <2> QED BY <1>1, <1>2, <2>6, <2>7 DEF Addressed
<1>5. ASSUME NEW t \in Tab, NEW draft \in BOOLEAN, Connect(t, draft)
      PROVE  \E page2 \in [1..clients' -> Nat] : AddressedBy(page2)'
  <2> DEFINE c == clients + 1
  <2>1. /\ UNCHANGED <<session, actions, syncs>> /\ clients' = c
        /\ pages' = [pages EXCEPT ![t].channel = c, ![t].draft = draft]
        /\ hosts' = [hosts EXCEPT ![t] = [Off EXCEPT !.client = c, !.draft = draft, !.page = PageId(t)]]
    BY <1>5 DEF Connect, server
  <2>2. clients \in Nat /\ c \in 1..c /\ c \notin 1..clients /\ 1..clients \subseteq 1..c
    BY PageAssumption DEF Types
  <2>3. PICK page2 : /\ page2 \in [1..c -> Nat]
                     /\ page2[c] = pages[t].instance /\ \A i \in 1..clients : page2[i] = page[i]
    <3> DEFINE q == [i \in 1..c |-> IF i = c THEN pages[t].instance ELSE page[i]]
    <3>1. pages[t].instance \in Nat
      BY DEF Types, Page
    <3>2. \A i \in 1..c : i # c => i \in 1..clients
      BY <2>2
    <3>3. q \in [1..c -> Nat]
      BY <3>1, <3>2
    <3>4. q[c] = pages[t].instance /\ \A i \in 1..clients : q[i] = page[i]
      BY <2>2
    <3> QED BY <3>3, <3>4
  <2>5. \A d, p : Names(d, p, page) => (d = Nobody \/ (d \in 1..c /\ p = page2[d]))
    BY <2>2, <2>3 DEF Names
  <2>6. /\ \A u \in Tab : u # t => hosts'[u] = hosts[u] /\ pages'[u] = pages[u]
        /\ hosts'[t].client = c /\ hosts'[t].page = pages[t].instance
        /\ pages'[t].channel = c /\ pages'[t].instance = pages[t].instance
    <3> HIDE DEF c
    <3> QED BY <2>1 DEF Types, Off, PageId, Page
  <2>7. AddressedBy(page2)'
    <3>1. ASSUME NEW u \in Tab PROVE Names(hosts[u].client, hosts[u].page, page2)'
      <4>1. CASE u # t
        <5>1. hosts'[u] = hosts[u] /\ Names(hosts[u].client, hosts[u].page, page)
          BY <1>3, <2>6, <4>1 DEF AddressedBy
        <5>2. hosts'[u].client = Nobody \/ (hosts'[u].client \in 1..c /\ hosts'[u].page = page2[hosts'[u].client])
          BY <2>5, <5>1
        <5> QED BY <2>1, <5>2 DEF Names
      <4>2. CASE u = t
        BY <2>1, <2>2, <2>3, <2>6, <4>2 DEF Names
      <4> QED BY <4>1, <4>2
    <3>2. ASSUME NEW u \in Tab PROVE Names(pages[u].channel, pages[u].instance, page2)'
      <4>1. CASE u # t
        <5>1. pages'[u] = pages[u] /\ Names(pages[u].channel, pages[u].instance, page)
          BY <1>3, <2>6, <4>1 DEF AddressedBy
        <5>2. \/ pages'[u].channel = Nobody
              \/ pages'[u].channel \in 1..c /\ pages'[u].instance = page2[pages'[u].channel]
          BY <2>5, <5>1
        <5> QED BY <2>1, <5>2 DEF Names
      <4>2. CASE u = t
        BY <2>1, <2>2, <2>3, <2>6, <4>2 DEF Names
      <4> QED BY <4>1, <4>2
    <3>3. /\ \A m \in syncs : Names(m.client, m.page, page2)'
          /\ Names(session.client, session.page, page2)'
          /\ \A k \in Call : Names(actions[k].client, actions[k].page, page2)'
      <4>1. ASSUME NEW m \in syncs
            PROVE  m.client = Nobody \/ (m.client \in 1..c /\ m.page = page2[m.client])
        <5>1. Names(m.client, m.page, page)
          BY <1>3 DEF AddressedBy
        <5> QED BY <2>5, <5>1
      <4>2. session.client = Nobody \/ (session.client \in 1..c /\ session.page = page2[session.client])
        <5>1. Names(session.client, session.page, page)
          BY <1>3 DEF AddressedBy
        <5> QED BY <2>5, <5>1
      <4>3. ASSUME NEW k \in Call
            PROVE  \/ actions[k].client = Nobody
                   \/ actions[k].client \in 1..c /\ actions[k].page = page2[actions[k].client]
        <5>1. Names(actions[k].client, actions[k].page, page)
          BY <1>3 DEF AddressedBy
        <5> QED BY <2>5, <5>1
      <4> QED BY <2>1, <4>1, <4>2, <4>3 DEF Names
    <3> QED BY <2>1, <3>1, <3>2, <3>3 DEF AddressedBy
  <2> QED BY <2>1, <2>3, <2>7
<1> QED BY <1>1, <1>2, <1>4, <1>5, ClientsMove DEF Addressed

----------------------------------------------------------------------------
(* Whoever carries a call acts for the connection its action was queued for. *)

\* The page that is about to start it serves that connection, with the drafts its user
\* allowed, unless it was told to stop.
Serves(t, k) ==
    /\ hosts[t].stage = "claimed" /\ hosts[t].job = k => hosts[t].client = actions[k].client
    /\ SentBy(pages[t].inbox, k, actions[k].client)
    /\ pages[t].stage = "painting" /\ pages[t].job = k /\ ~pages[t].aborted =>
         pages[t].channel = actions[k].client /\ (k \in Draft => pages[t].draft)
Faithful == \A t \in Tab, k \in Call : Serves(t, k)

LEMMA InitFaithful == Init => Faithful
<1> SUFFICES ASSUME Init PROVE Faithful
  OBVIOUS
<1>1. hosts = [t \in Tab |-> Off]
  BY DEF Init
<1>2. PICK id \in [Tab -> 1..Cardinality(Tab)] : pages = [t \in Tab |-> FreshPage(id[t], 0)]
  BY DEF Init
<1>3. \A t \in Tab : pages[t].stage = "none" /\ pages[t].inbox = <<>> /\ hosts[t].stage = "none"
  BY <1>1, <1>2 DEF FreshPage, Off
<1>4. \A k, c : SentBy(<<>>, k, c)
  BY DEF SentBy
<1> QED BY <1>3, <1>4 DEF Faithful, Serves

\* A call that is carried has its address and keeps it.
LEMMA AddressStays ==
    ASSUME Types, Busy, Types', [Next]_vars, NEW k \in Call, actions[k].status # "none"
    PROVE  SameAddress(k) /\ actions'[k].status # "none"
<1>1. \A t \in Tab : hosts[t].outcome \in Outcome
  BY DEF Types, Host
<1> QED BY <1>1, RowsMove DEF RowMoves, Queued, Abandoned, Judged, Completed, Outcome

LEMMA KeepsFaithful ==
    ASSUME Types, Busy, Types', Carried, Carried', Addressed, Faithful, [Next]_vars
    PROVE  Faithful'
<1> SUFFICES ASSUME NEW t \in Tab, NEW k \in Call PROVE Serves(t, k)'
  BY DEF Faithful
<1> DEFINE s == pages[t].inbox
<1>1. Serves(t, k) /\ s \in Seq(Message) /\ pages'[t].inbox \in Seq(Message)
  BY DEF Faithful, Types, Page
<1>2. CASE actions[k].status = "none"
  <2>1. Waiting(k)'
    BY <1>2, RowsMove DEF RowMoves, Queued, Abandoned, Judged, Completed, Waiting
  <2>2. \A x \in Place : ~Carries(x, t, k)'
    BY <2>1 DEF Carried, OneCarrier, Gone
  <2>3. /\ ~(hosts'[t].stage = "claimed" /\ hosts'[t].job = k) /\ ~InMail(pages'[t].inbox, k)
        /\ ~(pages'[t].stage = "painting" /\ pages'[t].job = k)
    BY <2>2 DEF Carries, Place
  <2> QED BY <2>3 DEF Serves, SentBy, InMail
<1>3. CASE actions[k].status # "none"
  <2> DEFINE c == actions[k].client
  <2>0. c # Nobody /\ actions'[k].client = c
    BY <1>3, AddressStays DEF SameAddress, Addressed
  <2> HIDE DEF c
  <2>1. hosts'[t].stage = "claimed" /\ hosts'[t].job = k => hosts'[t].client = c
    <3>1. hosts[t].stage = "claimed" /\ hosts[t].job = k => hosts[t].client = c
      BY <1>1 DEF Serves, c
    <3>2. HostMoves(t)
      BY HostsMove
    <3>3. ASSUME NEW j \in Call, Accepts(t, j), hosts'[t].job = k
          PROVE  hosts'[t].client = c
      BY <2>0, <3>3 DEF Accepts, SameLink
    <3> QED BY <3>1, <3>2, <3>3 DEF HostMoves, SameLink, SameWork, Joins, LetsGo, Sends, Hears, Accepts, Busied
  <2>2. SentBy(pages'[t].inbox, k, c)
    <3>1. SentBy(s, k, c)
      BY <1>1 DEF Serves, c
    <3>2. CASE pages'[t].inbox = s
      BY <3>1, <3>2
    <3>3. CASE pages'[t].inbox = <<>>
      BY <3>3 DEF SentBy
    <3>4. CASE s # <<>> /\ pages'[t].inbox = Tail(s)
      BY <1>1, <3>1, <3>4, MailRead
    <3>5. ASSUME NEW m \in Message, pages'[t].inbox = Append(s, m),
                 m.job # NoCall => hosts[t].stage = "claimed" /\ hosts[t].job = m.job /\ hosts[t].client = m.client
          PROVE  SentBy(pages'[t].inbox, k, c)
      <4>1. m.job = k => m.client = c
        BY <1>1, <3>5, PageAssumption DEF Serves, c
      <4> HIDE DEF s
      <4> QED BY <1>1, <3>1, <3>5, <4>1, MailSent
    <3> QED BY <3>2, <3>3, <3>4, <3>5, PagesMove DEF PageMoves, MailMoves
  <2>3. ASSUME pages'[t].stage = "painting", pages'[t].job = k, ~pages'[t].aborted
        PROVE  pages'[t].channel = c /\ (k \in Draft => pages'[t].draft)
    <3>1. PaintMoves(t)
      BY PagesMove DEF PageMoves
    <3>2. CASE /\ pages[t].stage = "painting" /\ pages'[t].job = pages[t].job
               /\ \/ pages[t].channel = Nobody /\ pages'[t].aborted = pages[t].aborted
                  \/ /\ pages'[t].aborted = pages[t].aborted /\ pages'[t].channel = pages[t].channel
                     /\ pages'[t].draft = pages[t].draft
      BY <1>1, <2>0, <2>3, <3>2 DEF Serves, c
    <3>3. CASE /\ s # <<>> /\ pages'[t].job = Head(s).job /\ pages'[t].channel = Head(s).client
               /\ pages'[t].job \in Draft => pages'[t].draft
      <4>1. SentBy(s, k, c)
        BY <1>1 DEF Serves, c
      <4>2. Head(s).client = c
        BY <1>1, <2>3, <3>3, <4>1, MailRead
      <4> QED BY <2>3, <3>3, <4>2
    <3> QED BY <2>3, <3>1, <3>2, <3>3 DEF PaintMoves
  <2> QED BY <2>0, <2>1, <2>2, <2>3 DEF Serves
<1> QED BY <1>2, <1>3

----------------------------------------------------------------------------
(* Handlers start as asked. *)

AsAsked(k) ==
    \A i \in 1..Len(effects[k]) :
        /\ effects[k][i].page = actions[k].page /\ effects[k][i].rev = actions[k].expected /\ effects[k][i].connected
        /\ k \in Draft => effects[k][i].draft

LEMMA StartsAsAsked ==
    ASSUME Types, Busy, Types', Carried, Addressed, Faithful, [Next]_vars, NEW k \in Call, AsAsked(k)
    PROVE  AsAsked(k)'
<1>1. effects[k] \in Seq(Effect) /\ Len(effects[k]) \in Nat /\ OneCarrier(k)
  BY DEF Types, Carried
<1>2. CASE effects[k] = <<>> /\ effects'[k] = <<>>
  BY <1>2 DEF AsAsked
<1>3. ASSUME actions[k].status # "none" PROVE SameAddress(k)
  BY <1>3, AddressStays
<1>4. effects[k] # <<>> => actions[k].status # "none"
  BY <1>1 DEF OneCarrier, Gone, Waiting
<1>5. CASE effects[k] # <<>> /\ effects'[k] = effects[k]
  BY <1>3, <1>4, <1>5 DEF AsAsked, SameAddress
<1>6. ASSUME NEW t \in Tab, Starts(t, k) PROVE AsAsked(k)'
  <2> DEFINE e == [page |-> PageId(t), rev |-> pages[t].rev, draft |-> pages[t].draft,
                   connected |-> pages[t].channel = actions[k].client, ended |-> "no"]
  <2>1. effects[k] = <<>> /\ ~Waiting(k) /\ pages[t].stage = "painting" /\ pages[t].job = k
    BY <1>1, <1>6 DEF Starts, OneCarrier, Place, Carries, Gone
  <2>2. effects'[k] = <<e>>
    BY <1>6, <2>1 DEF Starts
  <2>3. ~pages[t].aborted /\ pages[t].rev = actions[k].expected
    BY <1>6 DEF Starts, StillFits
  <2>4. pages[t].channel = actions[k].client /\ (k \in Draft => pages[t].draft)
    BY <2>1, <2>3 DEF Faithful, Serves
  <2>5. actions[k].status # "none" /\ actions[k].client # Nobody
    BY <2>1 DEF Waiting, Addressed
  <2>6. pages[t].instance = actions[k].page
    <3>1. PICK page : AddressedBy(page)
      BY DEF Addressed
    <3>2. Names(pages[t].channel, pages[t].instance, page) /\ Names(actions[k].client, actions[k].page, page)
      BY <3>1 DEF AddressedBy
    <3> QED BY <2>4, <2>5, <3>2 DEF Names
  <2>7. /\ e.page = actions'[k].page /\ e.rev = actions'[k].expected /\ e.connected
        /\ k \in Draft => e.draft
    BY <1>3, <2>3, <2>4, <2>5, <2>6 DEF SameAddress, PageId
  <2> HIDE DEF e
  <2>8. Len(effects'[k]) = 1 /\ effects'[k][1] = e
    BY <2>2
  <2> QED BY <2>7, <2>8 DEF AsAsked
<1>7. ASSUME NEW t \in Tab, NEW done \in BOOLEAN, Ends(t, done, k) PROVE AsAsked(k)'
  <2>1. Len(effects[k]) = 1 /\ effects[k] # <<>>
    BY <1>1, <1>7 DEF Ends, OneCarrier
  <2>2. effects'[k] = [effects[k] EXCEPT ![1].ended = IF done THEN "done" ELSE "threw"]
    BY <1>7, <2>1 DEF Ends
  <2>3. /\ Len(effects'[k]) = 1 /\ effects[k][1] \in Effect
        /\ effects'[k][1] = [effects[k][1] EXCEPT !.ended = IF done THEN "done" ELSE "threw"]
    BY <1>1, <2>1, <2>2
  <2>4. /\ effects'[k][1].page = effects[k][1].page /\ effects'[k][1].rev = effects[k][1].rev
        /\ effects'[k][1].connected = effects[k][1].connected /\ effects'[k][1].draft = effects[k][1].draft
    BY <2>3 DEF Effect
  <2>5. SameAddress(k)
    BY <1>3, <1>4, <2>1
  <2>6. /\ effects[k][1].page = actions[k].page /\ effects[k][1].rev = actions[k].expected
        /\ effects[k][1].connected
        /\ k \in Draft => effects[k][1].draft
    BY <2>1 DEF AsAsked
  <2>7. /\ effects'[k][1].page = actions'[k].page /\ effects'[k][1].rev = actions'[k].expected
        /\ effects'[k][1].connected
        /\ k \in Draft => effects'[k][1].draft
    BY <2>4, <2>5, <2>6 DEF SameAddress
  <2>8. \A i \in 1..Len(effects'[k]) : i = 1
    BY <2>3
  <2> QED BY <2>7, <2>8 DEF AsAsked
<1>8. CallMoves(k)
  BY CallsMove
<1> QED BY <1>2, <1>5, <1>6, <1>7, <1>8 DEF CallMoves, Rests, Claims, Passes

----------------------------------------------------------------------------
(* Receipts are true. *)

\* What the console was answered with, what is on record and what was told.
Heard(t) ==
    /\ hosts[t].stage \in Busied => ~Waiting(hosts[t].job)
    /\ hosts[t].stage = "answered" => /\ hosts[t].outcome = "succeeded" => Done(hosts[t].job)
                                      /\ hosts[t].outcome = "failed" => Gone(hosts[t].job)
Recorded(k) ==
    /\ actions[k].status = "succeeded" => Done(k)
    /\ actions[k].status \in {"failed", "cancelled"} => Gone(k)
    /\ told[k] \in {"succeeded", "failed", "cancelled"} => actions[k].status = told[k]
Truthful == (\A t \in Tab : Heard(t)) /\ (\A k \in Call : Recorded(k))

LEMMA InitTruthful == Init => Truthful
BY DEF Init, Truthful, Heard, Recorded, Off, NoAction, Busied

LEMMA KeepsHeard ==
    ASSUME Types, Busy, Types', Carried, Truthful, [Next]_vars, NEW t \in Tab
    PROVE  Heard(t)'
<1>1. Heard(t) /\ HostMoves(t)
  BY HostsMove DEF Truthful
<1>2. CASE hosts'[t].stage \notin Busied
  BY <1>2 DEF Heard, Busied
<1>3. ASSUME NEW k \in Call, k = hosts[t].job, k = hosts'[t].job, hosts[t].stage \in Busied
      PROVE  /\ ~Waiting(k) /\ ~Waiting(k)'
             /\ Done(k) => Done(k)'
             /\ Gone(k) => Gone(k)'
  <2>1. ~Waiting(k)
    BY <1>1, <1>3 DEF Heard
  <2>2. ~Waiting(k)'
    BY <2>1, NoNewWaiting
  <2> QED BY <2>1, <2>2, CallsMove, MovedCall DEF Carried
<1>4. CASE SameWork(t) /\ hosts[t].stage \in Busied
  <2>1. PICK k \in Call : k = hosts[t].job /\ k = hosts'[t].job
    BY <1>4 DEF SameWork, Busy, Busied
  <2>2. /\ ~Waiting(k)' /\ (Done(k) => Done(k)') /\ (Gone(k) => Gone(k)')
    BY <1>3, <1>4, <2>1
  <2>3. hosts[t].stage = "answered" => /\ hosts[t].outcome = "succeeded" => Done(k)
                                       /\ hosts[t].outcome = "failed" => Gone(k)
    BY <1>1, <2>1 DEF Heard
  <2>4. /\ ~Waiting(hosts[t].job)' /\ (Done(k)' => Done(hosts[t].job)') /\ (Gone(k)' => Gone(hosts[t].job)')
    BY <2>1, <2>2 DEF Waiting, Done, Gone, Carries
  <2> QED BY <1>4, <2>2, <2>3, <2>4 DEF Heard, SameWork
<1>5. CASE Sends(t)
  <2>1. PICK k \in Call : k = hosts[t].job /\ k = hosts'[t].job
    BY <1>5 DEF Sends, Busy
  <2>2. ~Waiting(k)'
    BY <1>3, <1>5, <2>1 DEF Sends, Busied
  <2> QED BY <1>5, <2>1, <2>2 DEF Heard, Sends, Waiting
<1>6. CASE Hears(t)
  <2>1. PICK k \in Call : k = hosts[t].job /\ k = hosts'[t].job
    BY <1>6 DEF Hears, Busy
  <2>2. ~Waiting(k)'
    BY <1>3, <1>6, <2>1 DEF Hears, Busied
  <2>3. ~Waiting(hosts[t].job)'
    BY <2>1, <2>2 DEF Waiting
  <2> QED BY <1>6, <2>3 DEF Heard, Hears
<1>7. ASSUME NEW k \in Call, Accepts(t, k) PROVE Heard(t)'
  BY <1>7 DEF Heard, Accepts, Waiting
<1> QED BY <1>1, <1>2, <1>4, <1>5, <1>6, <1>7 DEF HostMoves, Joins, LetsGo, SameWork, Busied

LEMMA KeepsRecords ==
    ASSUME Types, Busy, Types', Carried, Truthful, [Next]_vars, NEW k \in Call
    PROVE  Recorded(k)'
<1>1. Recorded(k) /\ OneCarrier(k) /\ CallMoves(k) /\ RowMoves(k)
  BY CallsMove, RowsMove DEF Truthful, Carried
<1>2. /\ ~Waiting(k) /\ Gone(k) => Gone(k)'
      /\ Done(k) => Done(k)'
  BY <1>1, MovedCall
<1>3. Waiting(k) /\ ~Waiting(k)' /\ actions'[k].status # "executing" => Gone(k)'
  <2>1. ASSUME Waiting(k), ~Waiting(k)', actions'[k].status # "executing" PROVE Gone(k)'
    <3>1. Gone(k)
      BY <1>1, <2>1 DEF OneCarrier
    <3>2. ASSUME NEW x \in Place, NEW u \in Tab, Carries(x, u, k)' PROVE FALSE
      <4>1. ~Carries(x, u, k)
        BY <3>1 DEF Gone
      <4>2. CASE Rests(k)
        BY <3>2, <4>1, <4>2 DEF Rests
      <4>3. ASSUME NEW t \in Tab, Claims(t, k) PROVE FALSE
        <5>1. x = "console" /\ hosts'[u].stage = "claimed" /\ hosts'[u].job = k
          BY <3>2, <4>1, <4>3 DEF Claims, Carries
        <5>2. ~(hosts[u].stage = "claimed" /\ hosts[u].job = k)
          BY <4>1, <5>1 DEF Carries
        <5>3. HostMoves(u)
          BY HostsMove
        <5> QED BY <2>1, <5>1, <5>2, <5>3 DEF HostMoves, SameWork, Joins, LetsGo, Sends, Hears, Accepts, Busied
      <4>4. ASSUME NEW t \in Tab, NEW y \in Place, NEW z \in Place, Passes(y, z, t, k) PROVE FALSE
        BY <3>1, <4>4 DEF Passes, Gone
      <4>5. ASSUME NEW t \in Tab, Starts(t, k) PROVE FALSE
        BY <3>1, <4>5 DEF Starts, Gone, Place
      <4>6. ASSUME NEW t \in Tab, NEW done \in BOOLEAN, Ends(t, done, k) PROVE FALSE
        BY <3>2, <4>1, <4>6 DEF Ends
      <4> QED BY <1>1, <4>2, <4>3, <4>4, <4>5, <4>6 DEF CallMoves
    <3>3. effects'[k] = <<>>
      <4>1. ASSUME NEW t \in Tab, NEW done \in BOOLEAN, Ends(t, done, k) PROVE FALSE
        BY <1>1, <3>1, <4>1 DEF Ends, OneCarrier, Gone
      <4>2. ASSUME NEW t \in Tab, Starts(t, k) PROVE FALSE
        BY <3>1, <4>2 DEF Starts, Gone, Place
      <4> QED BY <1>1, <3>1, <4>1, <4>2 DEF CallMoves, Rests, Claims, Passes, Gone
    <3> QED BY <3>2, <3>3 DEF Gone
  <2> QED BY <2>1
<1>4. actions'[k].status = "succeeded" => Done(k)'
  <2>1. ASSUME actions'[k].status = "succeeded", actions[k].status # "succeeded" PROVE Done(k)
    <3>1. Completed(k)
      BY <1>1, <2>1 DEF RowMoves, Queued, Abandoned, Judged
    <3> QED BY <2>1, <3>1 DEF Completed, Truthful, Heard
  <2> QED BY <1>1, <1>2, <2>1 DEF Recorded
<1>5. actions'[k].status \in {"failed", "cancelled"} => Gone(k)'
  <2>1. ASSUME actions'[k].status \in {"failed", "cancelled"}, actions[k].status = actions'[k].status PROVE Gone(k)'
    BY <1>1, <1>2, <2>1 DEF Recorded, Waiting
  <2>2. ASSUME actions'[k].status \in {"failed", "cancelled"}, Completed(k) PROVE Gone(k)'
    <3>1. Gone(k) /\ ~Waiting(k)
      <4>1. \A t \in Tab : hosts[t].outcome \in Outcome
        BY DEF Types, Host
      <4> QED BY <2>2, <4>1 DEF Completed, Truthful, Heard, Waiting, Outcome
    <3> QED BY <1>2, <3>1
  <2>3. ASSUME actions'[k].status \in {"failed", "cancelled"}, actions[k].status = "pending" PROVE Gone(k)'
    BY <1>3, <2>3 DEF Waiting
  <2> QED BY <1>1, <2>1, <2>2, <2>3 DEF RowMoves, Queued, Abandoned, Judged
<1>6. told'[k] \in {"succeeded", "failed", "cancelled"} => actions'[k].status = told'[k]
  <2>1. CASE told'[k] = told[k] /\ told[k] \in {"succeeded", "failed", "cancelled"}
    <3>1. actions[k].status \in {"succeeded", "failed", "cancelled"}
      BY <1>1, <2>1 DEF Recorded
    <3>2. actions'[k].status = actions[k].status
      BY <1>1, <3>1 DEF RowMoves, Queued, Abandoned, Judged, Completed
    <3> QED BY <1>1, <2>1, <3>2 DEF Recorded
  <2> QED BY <2>1, ToldMoves
<1> QED BY <1>4, <1>5, <1>6 DEF Recorded

----------------------------------------------------------------------------
(* What the parties promise. *)

\* The inductive invariant.
Inv == Types /\ Busy /\ Carried /\ Addressed /\ Faithful /\ Truthful /\ \A k \in Call : AsAsked(k)

LEMMA Invariant == Spec => []Inv
<1>1. Init => Inv
  <2>1. Init => \A k \in Call : AsAsked(k)
    BY DEF Init, AsAsked
  <2> QED BY <2>1, InitTypes, InitCarried, InitAddressed, InitFaithful, InitTruthful DEF Inv
<1>2. Inv /\ [Next]_vars => Inv'
  <2> SUFFICES ASSUME Inv, [Next]_vars PROVE Inv'
    OBVIOUS
  <2> USE DEF Inv
  <2>1. Types'
    BY StepKeepsTypes
  <2>2. Busy' /\ Carried' /\ Addressed'
    BY <2>1, KeepsBusy, KeepsCarried, KeepsAddressed
  <2>3. Faithful'
    BY <2>1, <2>2, KeepsFaithful
  <2>4. ASSUME NEW k \in Call PROVE AsAsked(k)'
    BY <2>1, StartsAsAsked
  <2>5. Truthful'
    BY <2>1, KeepsHeard, KeepsRecords DEF Truthful
  <2> QED BY <2>1, <2>2, <2>3, <2>4, <2>5
<1> QED BY <1>1, <1>2, PTL DEF Spec

\* For any number of tabs, calls, connections and reloads: a handler starts at most once
\* per call, on the page and the revision the model looked at, while the connection the
\* action was queued for is up, and changes a draft only where its user allowed it.
THEOREM HandlersStartAsAsked == Spec => []HandledAsAsked
<1>1. Inv => HandledAsAsked
  <2> SUFFICES ASSUME Inv, NEW k \in Call
               PROVE  /\ Len(effects[k]) <= 1
                      /\ \A e \in {effects[k][i] : i \in DOMAIN effects[k]} :
                            /\ e.page = actions[k].page /\ e.rev = actions[k].expected /\ e.connected
                            /\ k \in Draft => e.draft
    BY DEF HandledAsAsked
  <2>1. Len(effects[k]) <= 1 /\ AsAsked(k) /\ DOMAIN effects[k] = 1..Len(effects[k])
    BY DEF Inv, Carried, OneCarrier, Types
  <2> QED BY <2>1 DEF AsAsked
<1> QED BY <1>1, Invariant, PTL

\* Whatever is lost, late, stopped or repeated: what is on record and what the model was
\* told for certain is what happened.
THEOREM ReceiptsAreTrue == Spec => []ReceiptsTellTheTruth
<1>1. Inv => ReceiptsTellTheTruth
  <2> SUFFICES ASSUME Inv, NEW k \in Call
               PROVE  /\ \A status \in {actions[k].status, told[k]} :
                            /\ status = "succeeded" => Done(k)
                            /\ status \in {"failed", "cancelled"} => effects[k] = <<>>
                      /\ told[k] \in Final \ {"unknown"} => actions[k].status = told[k]
    BY DEF ReceiptsTellTheTruth, Done
  <2>1. Recorded(k)
    BY DEF Inv, Truthful
  <2>2. Final \ {"unknown"} = {"succeeded", "failed", "cancelled"}
    BY DEF Final, Outcome
  <2> QED BY <2>1, <2>2 DEF Recorded, Gone
<1> QED BY <1>1, Invariant, PTL

=============================================================================
