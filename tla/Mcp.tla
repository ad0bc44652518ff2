-------------------------------- MODULE Mcp --------------------------------
(***************************************************************************)
(* Remote tool services: the platform's rows of services, discoveries and  *)
(* imported tools; the runtime worker that runs one discovery at a time;   *)
(* and the calls a run makes to an imported tool.                          *)
(*                                                                         *)
(* A request of the runtime travels: it may be served late or never, and   *)
(* its answer may be lost.  A remote service changes what it offers        *)
(* whenever it likes.  Transactions lock the service before its discovery, *)
(* so each is one action.                                                  *)
(***************************************************************************)
EXTENDS Integers, FiniteSets

CONSTANTS Server,
          Discovery,      \* bound: discoveries ever asked for
          Contract,       \* what a service may declare of its tool; stands for the digest
          MaxSecrets,     \* bound: secrets a service is given, one after another
          Call,           \* bound: calls of the run
          MaxChanges,     \* bound: how often the remote services change
          Window,         \* bound: ticks of a lease
          None

ASSUME McpAssumption ==
    /\ MaxChanges \in Nat /\ {Window, MaxSecrets} \subseteq Nat \ {0}
    /\ None \notin Server \cup Discovery \cup Contract /\ Call # {}

Secret == 1..MaxSecrets

VARIABLES servers,       \* service -> enabled, secret
          discoveries,   \* discovery -> row
          tools,         \* the imported tools: service, contract and the discovery reviewed
          worker,        \* the discovery the runtime works on, and how far it got
          mail,          \* finish requests on their way to the platform
          remote,        \* service -> the contract it offers at this moment
          changes,
          run, calls     \* a run of a release that holds one of the tools, and its calls

table == <<servers, discoveries, tools>>
running == <<run, calls>>
runtime == <<worker, mail>>
world == <<remote, changes>>
vars == <<table, runtime, world, running>>

Open == {"queued", "running"}
Ended == {"succeeded", "failed", "cancelled"}
Stage == {"none", "bound", "listed", "allowed", "called", "answered", "failed"}

DiscoveryRow == [server : Server \cup {None}, status : {"none"} \cup Open \cup Ended, found : Contract \cup {None},
                 lease : 0..Window, overdue : BOOLEAN]
ToolRow == [server : Server, contract : Contract, discovery : Discovery]
Working == [job : Discovery \cup {None}, stage : {"idle", "listing", "reporting", "failing"}, found : Contract \cup {None}]
Finish == [job : Discovery, status : {"succeeded", "failed"}, found : Contract \cup {None}]
\* standing: since the call was made, the service was once enabled under the secret it was made with.
CallRow == [stage : Stage, secret : Secret \cup {0}, seen : Contract \cup {None}, standing : BOOLEAN]
RunRow == [tool : ToolRow \cup {None}, alive : BOOLEAN, failure : BOOLEAN, outcome : {"open", "succeeded", "failed"}]

NoDiscovery == [server |-> None, status |-> "none", found |-> None, lease |-> 0, overdue |-> FALSE]
Idle == [job |-> None, stage |-> "idle", found |-> None]
NoCall == [stage |-> "none", secret |-> 0, seen |-> None, standing |-> FALSE]
NoRun == [tool |-> None, alive |-> TRUE, failure |-> FALSE, outcome |-> "open"]

Init ==
    /\ servers = [s \in Server |-> [enabled |-> TRUE, secret |-> 1]]
    /\ discoveries = [d \in Discovery |-> NoDiscovery]
    /\ tools = {}
    /\ worker = Idle /\ mail = {}
    /\ remote \in [Server -> Contract] /\ changes = 0
    /\ run = NoRun /\ calls = [c \in Call |-> NoCall]

OfServer(s) == {d \in Discovery : discoveries[d].server = s}
Asked(s) == [NoDiscovery EXCEPT !.server = s, !.status = "queued"]
Claimed(row) == [row EXCEPT !.status = "running", !.lease = Window]
Renewed(row) == [row EXCEPT !.lease = Window]
Aged(row) == [row EXCEPT !.lease = row.lease - 1]
Overdue(row) == [row EXCEPT !.overdue = TRUE]
Ends(row, status) == [row EXCEPT !.status = status, !.lease = 0, !.overdue = FALSE]
Reported(row, f) == [Ends(row, f.status) EXCEPT !.found = f.found]
\* A call that is out learns nothing of a change; it only counts for its answer.
Marked(call) == [call EXCEPT !.standing = TRUE]
Stands(s, row) == [c \in Call |->
    IF calls[c].stage = "called" /\ run.tool.server = s /\ row.enabled /\ row.secret = calls[c].secret
    THEN Marked(calls[c]) ELSE calls[c]]

----------------------------------------------------------------------------
(* Operators of the console *)

\* Mutant: only what waits is cancelled.
SwitchedOffQueued(s) ==
    [d \in Discovery |-> IF d \in OfServer(s) /\ discoveries[d].status = "queued"
                         THEN Ends(discoveries[d], "cancelled") ELSE discoveries[d]]
SwitchedOff(s) ==
    [d \in Discovery |-> IF d \in OfServer(s) /\ discoveries[d].status \in Open
                         THEN Ends(discoveries[d], "cancelled") ELSE discoveries[d]]
Update(s, enabled, secret) ==
    LET row == [enabled |-> enabled, secret |-> secret]
    IN /\ secret \in {servers[s].secret, servers[s].secret + 1}
       /\ row # servers[s]
       /\ servers' = [servers EXCEPT ![s] = row]
       /\ discoveries' = IF enabled THEN discoveries ELSE SwitchedOff(s)
       /\ calls' = Stands(s, row)
       /\ UNCHANGED <<tools, run, runtime, world>>

Discover(s, d) ==
    /\ servers[s].enabled
    /\ \A e \in OfServer(s) : discoveries[e].status \notin Open
    /\ discoveries[d] = NoDiscovery
    /\ discoveries' = [discoveries EXCEPT ![d] = Asked(s)]
    /\ UNCHANGED <<servers, tools, running, runtime, world>>

Reviewed(s, d) == discoveries[d].server = s /\ discoveries[d].status = "succeeded"
\* A tool imported before, from this discovery or another, is handed out again.
Imported(s, contract) == \E t \in tools : t.server = s /\ t.contract = contract
Import(s, d) ==
    LET contract == discoveries[d].found
    IN /\ servers[s].enabled /\ Reviewed(s, d)
       /\ ~Imported(s, contract)
       /\ tools' = tools \cup {[server |-> s, contract |-> contract, discovery |-> d]}
       /\ UNCHANGED <<servers, discoveries, running, runtime, world>>

----------------------------------------------------------------------------
(* Discoveries: the queue, its worker and the reaper *)

\* The answer may be lost: the row is running and nobody runs it.
Claim(d, heard) ==
    /\ worker = Idle
    /\ discoveries[d].status = "queued" /\ ~discoveries[d].overdue
    /\ servers[discoveries[d].server].enabled
    /\ discoveries' = [discoveries EXCEPT ![d] = Claimed(@)]
    /\ worker' = IF heard THEN [job |-> d, stage |-> "listing", found |-> None] ELSE Idle
    /\ UNCHANGED <<servers, tools, mail, running, world>>

\* Mutant: a request is let in without looking at the status; the lease of an ended row is not.
ActiveByService(d) == servers[discoveries[d].server].enabled
Active(d) ==
    /\ servers[discoveries[d].server].enabled
    /\ discoveries[d].status = "running"
    /\ discoveries[d].lease > 0 /\ ~discoveries[d].overdue

AbortTo(stage) == worker' = [worker EXCEPT !.stage = stage, !.found = None]
Send(status, found) == mail' = mail \cup {[job |-> worker.job, status |-> status, found |-> found]}

\* A heartbeat is served, or refused or lost, which aborts the discovery.
Renew ==
    /\ worker.stage \in {"listing", "reporting"} /\ Active(worker.job)
    /\ discoveries' = [discoveries EXCEPT ![worker.job] = Renewed(@)]
    /\ UNCHANGED <<servers, tools, runtime, running, world>>
Listed ==
    /\ worker.stage = "listing"
    /\ worker' = [worker EXCEPT !.stage = "reporting", !.found = remote[discoveries[worker.job].server]]
    /\ mail' = mail \cup {[job |-> worker.job, status |-> "succeeded", found |-> remote[discoveries[worker.job].server]]}
    /\ UNCHANGED <<table, running, world>>
\* The listing fails, a heartbeat is refused, the report is refused or not answered, the time is over.
GiveUp ==
    /\ worker.stage \in {"listing", "reporting"}
    /\ AbortTo("failing") /\ Send("failed", None)
    /\ UNCHANGED <<table, running, world>>
\* The report of a failure is refused, lost or never answered: that is swallowed.
Forget ==
    /\ worker.stage = "failing" /\ worker' = Idle
    /\ UNCHANGED <<mail, table, running, world>>
Crash == /\ worker # Idle /\ worker' = Idle
         /\ UNCHANGED <<mail, table, running, world>>

\* The platform serves a report and its worker, if it still waits for that, hears of it.
Serve(f) ==
    /\ f \in mail /\ Active(f.job)
    /\ mail' = mail \ {f}
    /\ discoveries' = [discoveries EXCEPT ![f.job] = Reported(@, f)]
    /\ \/ /\ worker.job = f.job /\ worker.stage = (IF f.status = "failed" THEN "failing" ELSE "reporting")
          /\ worker' = Idle
       \/ UNCHANGED worker
    /\ UNCHANGED <<servers, tools, running, world>>
\* It is refused, or lost.
Refuse(f) == /\ f \in mail /\ mail' = mail \ {f}
             /\ UNCHANGED <<worker, table, running, world>>

DeadlinePasses(d) ==
    /\ discoveries[d].status \in Open /\ ~discoveries[d].overdue
    /\ discoveries' = [discoveries EXCEPT ![d] = Overdue(@)]
    /\ UNCHANGED <<servers, tools, running, runtime, world>>
LeaseAges(d) ==
    /\ discoveries[d].status = "running" /\ discoveries[d].lease > 0
    /\ discoveries' = [discoveries EXCEPT ![d] = Aged(@)]
    /\ UNCHANGED <<servers, tools, running, runtime, world>>

Late(row) == row.status \in Open /\ (row.overdue \/ (row.status = "running" /\ row.lease = 0))
Reap ==
    /\ \E d \in Discovery : Late(discoveries[d])
    /\ discoveries' = [d \in Discovery |-> IF Late(discoveries[d]) THEN Ends(discoveries[d], "failed") ELSE discoveries[d]]
    /\ UNCHANGED <<servers, tools, running, runtime, world>>

\* External: a service is deployed anew.
RemoteChanges(s, contract) ==
    /\ changes < MaxChanges /\ contract # remote[s]
    /\ remote' = [remote EXCEPT ![s] = contract] /\ changes' = changes + 1
    /\ UNCHANGED <<table, runtime, running>>

----------------------------------------------------------------------------
(* A run's calls.  A release holds the tool as it was when it was imported. *)

StartRun(t) ==
    /\ run = NoRun /\ t \in tools /\ run' = [run EXCEPT !.tool = t]
    /\ UNCHANGED <<calls, table, runtime, world>>
\* The run is cancelled, or its lease or its deadline passes.
RunIsLost == /\ run.tool # None /\ run.outcome = "open" /\ run.alive
             /\ run' = [run EXCEPT !.alive = FALSE]
             /\ UNCHANGED <<calls, table, runtime, world>>

\* What the platform says to a request for the service's address and secret.
Authorized == run.alive /\ servers[run.tool.server].enabled
Moves(c, from, row) == /\ run.tool # None /\ run.outcome = "open" /\ calls[c].stage = from
                       /\ calls' = [calls EXCEPT ![c] = row]
                       /\ UNCHANGED <<table, runtime, world>>

Bind(c) == /\ Moves(c, "none", [NoCall EXCEPT !.stage = "bound", !.secret = servers[run.tool.server].secret])
           /\ Authorized /\ UNCHANGED run
\* One session with the service: it is connected to, its tools are listed and compared, and the tool is called.
SameContract(c) == remote[run.tool.server] = run.tool.contract
List(c) == /\ Moves(c, "bound", [calls[c] EXCEPT !.stage = "listed", !.seen = remote[run.tool.server]])
           /\ SameContract(c) /\ UNCHANGED run
\* Mutant: before and after the call, the run is asked about but not the service.
StillBoundRun(c) == run.alive
StillBound(c) == Authorized /\ servers[run.tool.server].secret = calls[c].secret
Allow(c) == Moves(c, "listed", [calls[c] EXCEPT !.stage = "allowed"]) /\ StillBound(c) /\ UNCHANGED run
CallTool(c) == /\ Moves(c, "allowed", [calls[c] EXCEPT !.stage = "called", !.standing =
                        servers[run.tool.server].enabled /\ servers[run.tool.server].secret = calls[c].secret])
               /\ UNCHANGED run
Answer(c) == Moves(c, "called", [calls[c] EXCEPT !.stage = "answered"]) /\ StillBound(c) /\ UNCHANGED run
\* Anything that goes wrong with a call fails the run.
Remembered == [run EXCEPT !.failure = TRUE]
Fail(c) == \E from \in {"none", "bound", "listed", "allowed", "called"} :
    Moves(c, from, [calls[c] EXCEPT !.stage = "failed"]) /\ run' = Remembered
EndRun == /\ run.tool # None /\ run.outcome = "open"
          /\ \A c \in Call : calls[c].stage \in {"none", "answered", "failed"}
          /\ run' = [run EXCEPT !.outcome = IF run.failure \/ ~run.alive THEN "failed" ELSE "succeeded"]
          /\ UNCHANGED <<calls, table, runtime, world>>

----------------------------------------------------------------------------

Operate == \E s \in Server :
    \/ \E enabled \in BOOLEAN, secret \in Secret : Update(s, enabled, secret)
    \/ \E d \in Discovery : Discover(s, d) \/ Import(s, d)
Work == \/ \E d \in Discovery, heard \in BOOLEAN : Claim(d, heard)
        \/ Renew \/ Listed \/ GiveUp \/ Forget \/ Crash
        \/ \E f \in mail : Serve(f) \/ Refuse(f)
Pass == \/ \E d \in Discovery : DeadlinePasses(d) \/ LeaseAges(d)
        \/ Reap
        \/ \E s \in Server, contract \in Contract : RemoteChanges(s, contract)
RunStep == \/ \E t \in tools : StartRun(t)
           \/ RunIsLost \/ EndRun
           \/ \E c \in Call : Bind(c) \/ List(c) \/ Allow(c) \/ CallTool(c) \/ Answer(c) \/ Fail(c)

Next == Operate \/ Work \/ Pass \/ RunStep

\* Of people, runtimes and services nothing is assumed.
Spec == Init /\ [][Next]_vars

----------------------------------------------------------------------------

\* Every row is of its type.
TypeOK ==
    /\ servers \in [Server -> [enabled : BOOLEAN, secret : Secret]]
    /\ discoveries \in [Discovery -> DiscoveryRow]
    /\ tools \subseteq ToolRow
    /\ worker \in Working /\ mail \subseteq Finish
    /\ remote \in [Server -> Contract] /\ changes \in 0..MaxChanges
    /\ run \in RunRow /\ calls \in [Call -> CallRow]

\* A service that is switched off has no discovery waiting or running, in whatever order a claim, a
\* report and the switch come; and a service has one at a time, so asking again cannot be blocked by two.
DisabledServersAreQuiet ==
    \A s \in Server : Cardinality({d \in OfServer(s) : discoveries[d].status \in Open})
                      <= (IF servers[s].enabled THEN 1 ELSE 0)

\* A tool rests on a discovery of its own service that succeeded and saw that very contract.
ToolsRestOnDiscovery ==
    \A t \in tools : /\ discoveries[t.discovery].server = t.server
                     /\ discoveries[t.discovery].status = "succeeded"
                     /\ discoveries[t.discovery].found = t.contract

\* What a run uses of a call was answered by a service that, in this session, declared what had been
\* reviewed, and that was enabled with that secret when or after it was called; and a run succeeds
\* only if every call it made was answered so.
AnswersAreStanding ==
    /\ ToolsRestOnDiscovery
    /\ \A c \in Call : calls[c].stage = "answered" => calls[c].seen = run.tool.contract /\ calls[c].standing
    /\ run.outcome = "succeeded" => \A c \in Call : calls[c].stage \in {"none", "answered"}

\* The outcome of a discovery is final: the report of a worker that outlived the switching off of its
\* service, or its own lease, changes nothing, also when the service is enabled again.
EndedDiscoveriesAreFinal ==
    [][\A d \in Discovery : discoveries[d].status \in Ended => discoveries'[d] = discoveries[d]]_vars
=============================================================================
