------------------------------ MODULE Mcp_proofs ------------------------------
(***************************************************************************)
(* Proofs about Mcp, for any number of services, discoveries, contracts    *)
(* and calls.  A discovery is opened for a service that is enabled and has *)
(* none open, and every other step only closes discoveries, so a service   *)
(* has at most one, and none once it is switched off; what has ended is    *)
(* not touched again, so a tool keeps the discovery it was reviewed on.    *)
(***************************************************************************)
EXTENDS Mcp, FiniteSetTheorems, TLAPS

----------------------------------------------------------------------------
(* Rows. *)

LEMMA NewRows ==
    /\ NoDiscovery \in DiscoveryRow /\ NoDiscovery.status = "none"
    /\ \A s \in Server : Asked(s) \in DiscoveryRow /\ Asked(s).server = s /\ Asked(s).status = "queued"
<1>1. 0 \in 0..Window
  BY McpAssumption DEF McpAssumption
<1>2. NoDiscovery \in DiscoveryRow /\ NoDiscovery.status = "none"
  BY <1>1 DEF NoDiscovery, DiscoveryRow
<1>3. ASSUME NEW s \in Server
      PROVE  Asked(s) \in DiscoveryRow /\ Asked(s).server = s /\ Asked(s).status = "queued"
  BY <1>2 DEF Asked, NoDiscovery, DiscoveryRow, Open
<1> QED BY <1>2, <1>3

LEMMA KeptRows ==
    ASSUME NEW row \in DiscoveryRow
    PROVE  /\ Renewed(row) \in DiscoveryRow /\ Renewed(row).server = row.server
           /\ Renewed(row).status = row.status /\ Renewed(row).found = row.found
           /\ Overdue(row) \in DiscoveryRow /\ Overdue(row).server = row.server
           /\ Overdue(row).status = row.status /\ Overdue(row).found = row.found
           /\ row.lease > 0 => /\ Aged(row) \in DiscoveryRow /\ Aged(row).server = row.server
                               /\ Aged(row).status = row.status /\ Aged(row).found = row.found
<1>1. Window \in 0..Window
  BY McpAssumption DEF McpAssumption
<1>2. Renewed(row) \in DiscoveryRow /\ Renewed(row).server = row.server
      /\ Renewed(row).status = row.status /\ Renewed(row).found = row.found
  BY <1>1 DEF Renewed, DiscoveryRow
<1>3. Overdue(row) \in DiscoveryRow /\ Overdue(row).server = row.server
      /\ Overdue(row).status = row.status /\ Overdue(row).found = row.found
  BY DEF Overdue, DiscoveryRow
<1>4. ASSUME row.lease > 0
      PROVE  Aged(row) \in DiscoveryRow /\ Aged(row).server = row.server
             /\ Aged(row).status = row.status /\ Aged(row).found = row.found
  <2>1. row.lease - 1 \in 0..Window
    BY <1>4, McpAssumption DEF McpAssumption, DiscoveryRow
  <2> QED BY <2>1 DEF Aged, DiscoveryRow
<1> QED BY <1>2, <1>3, <1>4

LEMMA MovedRows ==
    ASSUME NEW row \in DiscoveryRow
    PROVE  /\ Claimed(row) \in DiscoveryRow /\ Claimed(row).server = row.server
           /\ Claimed(row).status = "running" /\ Claimed(row).found = row.found
           /\ \A status \in Ended : Ends(row, status) \in DiscoveryRow /\ Ends(row, status).server = row.server
                                    /\ Ends(row, status).status = status /\ Ends(row, status).found = row.found
           /\ \A f \in Finish : Reported(row, f) \in DiscoveryRow /\ Reported(row, f).server = row.server
                                /\ Reported(row, f).status = f.status /\ Reported(row, f).found = f.found
<1>1. Window \in 0..Window /\ 0 \in 0..Window
  BY McpAssumption DEF McpAssumption
<1>2. Claimed(row) \in DiscoveryRow /\ Claimed(row).server = row.server
      /\ Claimed(row).status = "running" /\ Claimed(row).found = row.found
  BY <1>1 DEF Claimed, DiscoveryRow, Open
<1>3. ASSUME NEW status \in Ended
      PROVE  Ends(row, status) \in DiscoveryRow /\ Ends(row, status).server = row.server
             /\ Ends(row, status).status = status /\ Ends(row, status).found = row.found
  BY <1>1 DEF Ends, DiscoveryRow
<1>4. ASSUME NEW f \in Finish
      PROVE  Reported(row, f) \in DiscoveryRow /\ Reported(row, f).server = row.server
             /\ Reported(row, f).status = f.status /\ Reported(row, f).found = f.found
  <2>1. f.status \in Ended /\ f.found \in Contract \cup {None}
    BY DEF Finish, Ended
  <2>2. Ends(row, f.status) \in DiscoveryRow /\ Ends(row, f.status).server = row.server /\ Ends(row, f.status).status = f.status
    BY <1>3, <2>1
  <2> QED BY <2>1, <2>2 DEF Reported, DiscoveryRow
<1> QED BY <1>2, <1>3, <1>4

----------------------------------------------------------------------------
(* The invariant of the platform's tables and the worker. *)

Enabled == \A d \in Discovery :
    /\ discoveries[d].status # "none" => discoveries[d].server \in Server
    /\ discoveries[d].status \in Open => servers[discoveries[d].server].enabled
OnePerServer == \A d, e \in Discovery :
    discoveries[d].status \in Open /\ discoveries[e].status \in Open /\ discoveries[d].server = discoveries[e].server => d = e
\* A success is one of something that was found.
Found == /\ \A d \in Discovery : discoveries[d].status = "succeeded" => discoveries[d].found \in Contract
         /\ \A f \in mail : f.status = "succeeded" => f.found \in Contract
Employed == worker.stage # "idle" => worker.job \in Discovery /\ discoveries[worker.job].status # "none"
Tables == /\ servers \in [Server -> [enabled : BOOLEAN, secret : Secret]] /\ discoveries \in [Discovery -> DiscoveryRow]
          /\ worker \in Working /\ mail \subseteq Finish /\ remote \in [Server -> Contract]
Inv == Tables /\ Enabled /\ OnePerServer /\ Found /\ Employed

\* What every step but a new discovery does to a discovery: it stays with its service, is not opened,
\* and once it has ended nothing changes.
Calm(d) == /\ discoveries'[d].server = discoveries[d].server
           /\ discoveries'[d].status \in Open => discoveries[d].status \in Open
           /\ discoveries[d].status # "none" <=> discoveries'[d].status # "none"
           /\ discoveries[d].status \in Ended => discoveries'[d] = discoveries[d]
           /\ discoveries'[d].status = "succeeded" => discoveries'[d].found \in Contract

Calmly == discoveries' \in [Discovery -> DiscoveryRow] /\ \A d \in Discovery : Calm(d)

LEMMA SwitchedOffCalm ==
    ASSUME Inv, NEW s \in Server, discoveries' = SwitchedOff(s)
    PROVE  /\ Calmly
           /\ \A d \in Discovery : discoveries'[d].status \in Open => discoveries'[d].server # s
<1> USE DEF Inv, Tables
<1>1. "cancelled" \in Ended /\ "cancelled" \notin Open /\ \A st \in Open : st \notin Ended /\ st # "none"
  BY DEF Ended, Open
<1>2. ASSUME NEW d \in Discovery
      PROVE  discoveries'[d] \in DiscoveryRow /\ Calm(d) /\ (discoveries'[d].status \in Open => discoveries'[d].server # s)
  <2>1. CASE d \in OfServer(s) /\ discoveries[d].status \in Open
    <3>1. discoveries'[d] = Ends(discoveries[d], "cancelled")
      BY <2>1 DEF SwitchedOff
    <3>2. discoveries'[d] \in DiscoveryRow /\ discoveries'[d].server = discoveries[d].server /\ discoveries'[d].status = "cancelled"
      <4>1. discoveries[d] \in DiscoveryRow
        OBVIOUS
      <4> HIDE DEF Inv, Tables
      <4> QED BY <1>1, <3>1, <4>1, MovedRows
    <3> QED BY <1>1, <2>1, <3>2 DEF Calm
  <2>2. CASE ~(d \in OfServer(s) /\ discoveries[d].status \in Open)
    <3>1. discoveries'[d] = discoveries[d]
      BY <2>2 DEF SwitchedOff
    <3>2. Calm(d)
      BY <3>1 DEF Calm, Found
    <3> QED BY <2>2, <3>1, <3>2 DEF OfServer
  <2> QED BY <2>1, <2>2
<1> QED BY <1>2 DEF SwitchedOff, Calmly

\* One row is replaced.
LEMMA OneRowCalm ==
    ASSUME Inv, NEW d \in Discovery, NEW row \in DiscoveryRow, discoveries' = [discoveries EXCEPT ![d] = row],
           discoveries[d].status \in Open, row.server = discoveries[d].server,
           row.status \in Open \/ (row.status \in Ended /\ (row.status = "succeeded" => row.found \in Contract))
    PROVE  Calmly
<1> USE DEF Inv, Tables
<1>1. \A st \in Open : st \notin Ended /\ st # "none" /\ st # "succeeded"
  BY DEF Ended, Open
<1>2. Calm(d)
  BY <1>1 DEF Calm, Ended
<1>3. ASSUME NEW e \in Discovery, e # d PROVE Calm(e)
  BY <1>3 DEF Calm, Found
<1> QED BY <1>2, <1>3 DEF Calmly

LEMMA StepCalm ==
    ASSUME Inv, [Next]_vars, ~\E s \in Server, d \in Discovery : Discover(s, d)
    PROVE  Calmly
<1> USE DEF Inv, Tables
<1>1. ASSUME discoveries' = discoveries PROVE Calmly
  BY <1>1 DEF Calmly, Calm, Found
<1>2. ASSUME NEW s \in Server, NEW enabled \in BOOLEAN, NEW secret \in Secret, Update(s, enabled, secret) PROVE Calmly
  BY <1>1, <1>2, SwitchedOffCalm DEF Update
<1>3. ASSUME NEW s \in Server, NEW d \in Discovery, Import(s, d) PROVE Calmly
  BY <1>1, <1>3 DEF Import
<1>4. ASSUME NEW d \in Discovery, NEW heard \in BOOLEAN, Claim(d, heard) PROVE Calmly
  <2>1. discoveries' = [discoveries EXCEPT ![d] = Claimed(discoveries[d])] /\ discoveries[d].status = "queued"
    BY <1>4 DEF Claim
  <2> QED BY <2>1, MovedRows, OneRowCalm DEF Open
<1>5. CASE Renew
  <2>1. worker.job \in Discovery /\ discoveries[worker.job].status = "running"
        /\ discoveries' = [discoveries EXCEPT ![worker.job] = Renewed(discoveries[worker.job])]
    BY <1>5 DEF Renew, Active, Employed
  <2> QED BY <2>1, KeptRows, OneRowCalm DEF Open
<1>6. CASE Listed \/ GiveUp \/ Forget \/ Crash
  BY <1>1, <1>6 DEF Listed, GiveUp, Forget, Crash, table
<1>7. ASSUME NEW f \in mail, Serve(f) PROVE Calmly
  <2>1. f \in Finish /\ f.job \in Discovery /\ f.status \in Ended
    BY DEF Finish, Ended
  <2>2. discoveries[f.job].status = "running" /\ discoveries' = [discoveries EXCEPT ![f.job] = Reported(discoveries[f.job], f)]
    BY <1>7 DEF Serve, Active
  <2>3. Reported(discoveries[f.job], f) \in DiscoveryRow /\ Reported(discoveries[f.job], f).server = discoveries[f.job].server
        /\ Reported(discoveries[f.job], f).status = f.status /\ Reported(discoveries[f.job], f).found = f.found
    BY <2>1, MovedRows, ZenonT(40)
  <2> QED BY <2>1, <2>2, <2>3, OneRowCalm DEF Open, Found
<1>8. ASSUME NEW f \in mail, Refuse(f) PROVE Calmly
  BY <1>1, <1>8 DEF Refuse, table
<1>9. ASSUME NEW d \in Discovery, DeadlinePasses(d) PROVE Calmly
  BY <1>9, KeptRows, OneRowCalm DEF DeadlinePasses
<1>10. ASSUME NEW d \in Discovery, LeaseAges(d) PROVE Calmly
  BY <1>10, KeptRows, OneRowCalm DEF LeaseAges, Open
<1>11. CASE Reap
  <2>1. \A d \in Discovery : discoveries'[d] = IF Late(discoveries[d]) THEN Ends(discoveries[d], "failed") ELSE discoveries[d]
    BY <1>11 DEF Reap
  <2>2. "failed" \in Ended /\ "failed" \notin Open /\ \A st \in Open : st \notin Ended /\ st # "none"
    BY DEF Ended, Open
  <2>3. ASSUME NEW d \in Discovery PROVE discoveries'[d] \in DiscoveryRow /\ Calm(d)
    <3>1. CASE Late(discoveries[d])
      <4>1. discoveries'[d] \in DiscoveryRow /\ discoveries'[d].server = discoveries[d].server /\ discoveries'[d].status = "failed"
        BY <2>1, <2>2, <3>1, MovedRows, SMTT(30)
      <4> QED BY <2>2, <3>1, <4>1 DEF Calm, Late
    <3>2. CASE ~Late(discoveries[d])
      BY <2>1, <3>2 DEF Calm, Found
    <3> QED BY <3>1, <3>2
  <2> QED BY <1>11, <2>3 DEF Reap, Calmly
<1>12. ASSUME NEW s \in Server, NEW contract \in Contract, RemoteChanges(s, contract) PROVE Calmly
  BY <1>1, <1>12 DEF RemoteChanges, table
<1>13. CASE RunStep
  BY <1>1, <1>13 DEF RunStep, StartRun, RunIsLost, EndRun, Bind, List, Allow, CallTool, Answer, Fail, Moves, table
<1>14. CASE UNCHANGED vars
  BY <1>1, <1>14 DEF vars, table
<1>15. CASE Operate
  BY <1>2, <1>3, <1>15 DEF Operate
<1>16. CASE Work
  BY <1>4, <1>5, <1>6, <1>7, <1>8, <1>16 DEF Work
<1>17. CASE Pass
  BY <1>9, <1>10, <1>11, <1>12, <1>17 DEF Pass
<1> QED BY <1>13, <1>14, <1>15, <1>16, <1>17 DEF Next

----------------------------------------------------------------------------
(* Every step keeps it. *)

LEMMA InitInv == Init => Inv
<1> SUFFICES ASSUME Init PROVE Inv
  OBVIOUS
<1> USE DEF Init
<1>1. \A d \in Discovery : discoveries[d].status = "none"
  BY NewRows
<1>2. servers \in [Server -> [enabled : BOOLEAN, secret : Secret]]
  <2>1. 1 \in Secret
    BY McpAssumption DEF McpAssumption, Secret
  <2> QED BY <2>1
<1>3. worker \in Working /\ worker.stage = "idle"
  BY DEF Working, Idle
<1>4. Tables
  BY <1>2, <1>3, NewRows DEF Tables
<1>5. Enabled /\ OnePerServer /\ Found /\ Employed
  BY <1>1, <1>3 DEF Enabled, OnePerServer, Found, Employed, Open
<1> QED BY <1>4, <1>5 DEF Inv

\* The platform's services: a new row for one of them, which has no open discovery if it is disabled.
LEMMA ServersStep ==
    ASSUME Inv, [Next]_vars
    PROVE  \/ servers' = servers
           \/ \E s \in Server, row \in [enabled : BOOLEAN, secret : Secret] :
                 /\ servers' = [servers EXCEPT ![s] = row]
                 /\ ~row.enabled => discoveries' = SwitchedOff(s)
                 /\ ~\E u \in Server, d \in Discovery : Discover(u, d)
<1>1. ASSUME NEW s \in Server, NEW enabled \in BOOLEAN, NEW secret \in Secret, Update(s, enabled, secret)
      PROVE  \E u \in Server, row \in [enabled : BOOLEAN, secret : Secret] :
                 /\ servers' = [servers EXCEPT ![u] = row]
                 /\ ~row.enabled => discoveries' = SwitchedOff(u)
                 /\ ~\E v \in Server, d \in Discovery : Discover(v, d)
  <2> DEFINE row == [enabled |-> enabled, secret |-> secret]
  <2>1. row \in [enabled : BOOLEAN, secret : Secret] /\ row.enabled = enabled
    OBVIOUS
  <2>2. servers' = [servers EXCEPT ![s] = row] /\ row # servers[s] /\ (~enabled => discoveries' = SwitchedOff(s))
    BY <1>1 DEF Update
  <2>3. servers' # servers
    BY <2>2 DEF Inv, Tables
  <2>4. ~\E v \in Server, d \in Discovery : Discover(v, d)
    BY <2>3 DEF Discover
  <2> HIDE DEF row
  <2> QED BY <2>1, <2>2, <2>4
<1>2. ASSUME NEW s \in Server, NEW d \in Discovery, Discover(s, d) \/ Import(s, d) PROVE servers' = servers
  BY <1>2 DEF Discover, Import
<1>3. CASE Work
  BY <1>3 DEF Work, Claim, Renew, Listed, GiveUp, Forget, Crash, Serve, Refuse, table
<1>4. CASE Pass
  BY <1>4 DEF Pass, DeadlinePasses, LeaseAges, Reap, RemoteChanges, table
<1>5. CASE RunStep
  BY <1>5 DEF RunStep, StartRun, RunIsLost, EndRun, Bind, List, Allow, CallTool, Answer, Fail, Moves, table
<1>6. CASE UNCHANGED vars
  BY <1>6 DEF vars, table
<1> QED BY <1>1, <1>2, <1>3, <1>4, <1>5, <1>6 DEF Next, Operate

\* The worker, its reports and the services it lists.
LEMMA RuntimeStep ==
    ASSUME Inv, [Next]_vars
    PROVE  /\ worker' \in Working /\ mail' \subseteq Finish /\ remote' \in [Server -> Contract]
           /\ \A f \in mail' : f.status = "succeeded" => f.found \in Contract
           /\ worker'.stage # "idle" =>
                /\ worker'.job \in Discovery
                /\ \/ worker'.job = worker.job /\ worker.stage # "idle"
                   \/ discoveries[worker'.job].status # "none"
<1> DEFINE Goal == /\ worker' \in Working /\ mail' \subseteq Finish /\ remote' \in [Server -> Contract]
                   /\ \A f \in mail' : f.status = "succeeded" => f.found \in Contract
                   /\ worker'.stage # "idle" =>
                        /\ worker'.job \in Discovery
                        /\ \/ worker'.job = worker.job /\ worker.stage # "idle"
                           \/ discoveries[worker'.job].status # "none"
<1>0. /\ worker \in Working /\ mail \subseteq Finish /\ remote \in [Server -> Contract]
      /\ discoveries \in [Discovery -> DiscoveryRow]
      /\ \A f \in mail : f.status = "succeeded" => f.found \in Contract
      /\ worker.stage # "idle" => worker.job \in Discovery /\ discoveries[worker.job].status # "none"
      /\ Idle \in Working /\ Idle.stage = "idle"
  BY DEF Inv, Tables, Found, Employed, Working, Idle
<1>1. CASE UNCHANGED <<worker, mail, remote>>
  BY <1>0, <1>1
<1>2. CASE Operate
  BY <1>1, <1>2 DEF Operate, Update, Discover, Import, runtime, world
<1>3. ASSUME NEW d \in Discovery, NEW heard \in BOOLEAN, Claim(d, heard) PROVE Goal
  <2>1. [job |-> d, stage |-> "listing", found |-> None] \in Working
    BY DEF Working
  <2> QED BY <1>0, <1>3, <2>1 DEF Claim, world
<1>4. CASE Renew
  BY <1>1, <1>4 DEF Renew, runtime, world
<1>5. CASE Listed
  <2>1. worker.job \in Discovery /\ discoveries[worker.job].server \in Server
    BY <1>0, <1>5 DEF Listed, Inv, Enabled
  <2> DEFINE found == remote[discoveries[worker.job].server]
  <2>2. found \in Contract
    BY <1>0, <2>1
  <2>3. /\ worker' = [worker EXCEPT !.stage = "reporting", !.found = found]
        /\ mail' = mail \cup {[job |-> worker.job, status |-> "succeeded", found |-> found]} /\ remote' = remote
        /\ worker.stage # "idle"
    BY <1>5 DEF Listed, world
  <2> HIDE DEF found
  <2>4. worker' \in Working /\ worker'.job = worker.job
    BY <1>0, <2>2, <2>3 DEF Working
  <2>5. [job |-> worker.job, status |-> "succeeded", found |-> found] \in Finish
    BY <2>1, <2>2 DEF Finish
  <2> QED BY <1>0, <2>1, <2>2, <2>3, <2>4, <2>5
<1>6. CASE GiveUp
  <2>1. /\ worker' = [worker EXCEPT !.stage = "failing", !.found = None] /\ worker.stage # "idle" /\ remote' = remote
        /\ mail' = mail \cup {[job |-> worker.job, status |-> "failed", found |-> None]}
    BY <1>6 DEF GiveUp, AbortTo, Send, world
  <2>2. worker' \in Working /\ worker'.job = worker.job
    BY <1>0, <2>1 DEF Working
  <2>3. [job |-> worker.job, status |-> "failed", found |-> None] \in Finish
    BY <1>0, <2>1 DEF Finish
  <2> QED BY <1>0, <2>1, <2>2, <2>3
<1>7. CASE Forget \/ Crash
  BY <1>0, <1>7 DEF Forget, Crash, world
<1>8. ASSUME NEW f \in mail, Serve(f) PROVE Goal
  BY <1>0, <1>8 DEF Serve, world
<1>9. ASSUME NEW f \in mail, Refuse(f) PROVE Goal
  BY <1>0, <1>9 DEF Refuse, world
<1>10. ASSUME NEW s \in Server, NEW contract \in Contract, RemoteChanges(s, contract) PROVE Goal
  BY <1>0, <1>10 DEF RemoteChanges, runtime
<1>11. CASE RunStep
  BY <1>1, <1>11 DEF RunStep, StartRun, RunIsLost, EndRun, Bind, List, Allow, CallTool, Answer, Fail, Moves, runtime, world
<1>12. ASSUME NEW d \in Discovery, DeadlinePasses(d) \/ LeaseAges(d) PROVE Goal
  BY <1>1, <1>12 DEF DeadlinePasses, LeaseAges, runtime, world
<1>13. CASE Reap
  BY <1>1, <1>13 DEF Reap, runtime, world
<1>14. CASE UNCHANGED vars
  BY <1>1, <1>14 DEF vars, runtime, world
<1> QED BY <1>2, <1>3, <1>4, <1>5, <1>6, <1>7, <1>8, <1>9, <1>10, <1>11, <1>12, <1>13, <1>14 DEF Next, Work, Pass

\* A discovery is asked for: of a service that is enabled and has none open.
LEMMA AskedStep ==
    ASSUME Inv, NEW s \in Server, NEW d \in Discovery, Discover(s, d)
    PROVE  /\ discoveries' \in [Discovery -> DiscoveryRow] /\ discoveries[d].status = "none"
           /\ discoveries'[d].server = s /\ discoveries'[d].status = "queued" /\ servers[s].enabled
           /\ \A e \in Discovery : e # d => discoveries'[e] = discoveries[e]
           /\ \A e \in Discovery : discoveries[e].server = s => discoveries[e].status \notin Open
  BY NewRows DEF Discover, Inv, Tables, OfServer

LEMMA NextInv == ASSUME Inv, [Next]_vars PROVE Inv'
<1>1. Tables'
  <2>1. discoveries' \in [Discovery -> DiscoveryRow]
    BY StepCalm, AskedStep DEF Calmly
  <2>2. servers' \in [Server -> [enabled : BOOLEAN, secret : Secret]]
    BY ServersStep DEF Inv, Tables
  <2> QED BY <2>1, <2>2, RuntimeStep DEF Tables
<1>2. CASE \E s \in Server, d \in Discovery : Discover(s, d)
  <2>1. PICK s \in Server, d \in Discovery : Discover(s, d)
    BY <1>2
  <2>2. servers' = servers
    BY <2>1 DEF Discover
  <2>3. Enabled'
    BY <2>1, <2>2, AskedStep DEF Inv, Enabled
  <2>4. OnePerServer'
    BY <2>1, AskedStep DEF Inv, OnePerServer
  <2>5. Found'
    BY <2>1, AskedStep, RuntimeStep DEF Inv, Found
  <2>6. Employed'
    BY <2>1, AskedStep, RuntimeStep DEF Inv, Employed
  <2> QED BY <1>1, <2>3, <2>4, <2>5, <2>6 DEF Inv
<1>3. CASE ~\E s \in Server, d \in Discovery : Discover(s, d)
  <2>1. \A d \in Discovery : Calm(d)
    BY <1>3, StepCalm DEF Calmly
  <2>2. OnePerServer'
    BY <2>1 DEF Inv, OnePerServer, Calm
  <2>3. Found'
    BY <2>1, RuntimeStep DEF Found, Calm
  <2>4. Employed'
    <3> SUFFICES ASSUME worker'.stage # "idle"
                 PROVE  worker'.job \in Discovery /\ discoveries'[worker'.job].status # "none"
      BY DEF Employed
    <3>1. worker'.job \in Discovery /\ discoveries[worker'.job].status # "none"
      BY RuntimeStep DEF Inv, Employed
    <3> QED BY <2>1, <3>1 DEF Calm
  <2>5. Enabled'
    <3>1. ASSUME NEW d \in Discovery, discoveries'[d].status # "none" PROVE discoveries'[d].server \in Server
      <4>1. CASE discoveries[d].status # "none"
        BY <2>1, <4>1 DEF Inv, Enabled, Calm
      <4>2. CASE discoveries[d].status = "none"
        BY <2>1, <3>1, <4>2 DEF Calm
      <4> QED BY <4>1, <4>2
    <3>2. ASSUME NEW d \in Discovery, discoveries'[d].status \in Open PROVE servers'[discoveries'[d].server].enabled
      <4>1. discoveries[d].status \in Open /\ discoveries'[d].server = discoveries[d].server
            /\ discoveries[d].server \in Server /\ servers[discoveries[d].server].enabled
        BY <2>1, <3>2 DEF Inv, Enabled, Calm, Open
      <4>2. CASE servers' = servers
        BY <4>1, <4>2
      <4>3. ASSUME NEW s \in Server, NEW row \in [enabled : BOOLEAN, secret : Secret],
                   servers' = [servers EXCEPT ![s] = row], ~row.enabled => discoveries' = SwitchedOff(s)
            PROVE  servers'[discoveries'[d].server].enabled
        <5>1. CASE discoveries[d].server # s
          BY <4>1, <4>3, <5>1
        <5>2. CASE discoveries[d].server = s
          <6>1. row.enabled
            BY <3>2, <4>1, <4>3, <5>2, SwitchedOffCalm
          <6>2. servers'[s] = row
            BY <4>3 DEF Inv, Tables
          <6> QED BY <4>1, <5>2, <6>1, <6>2
        <5> QED BY <5>1, <5>2
      <4> QED BY <4>2, <4>3, ServersStep
    <3> QED BY <3>1, <3>2 DEF Enabled
  <2> QED BY <1>1, <2>2, <2>3, <2>4, <2>5 DEF Inv
<1> QED BY <1>2, <1>3

----------------------------------------------------------------------------
(* What follows. *)

\* The rows of services, discoveries and requests agree: an open discovery belongs to an enabled service,
\* one per service, and one that succeeded kept what it found (mcp.ts).
THEOREM DiscoveriesInvariant == Spec => []Inv
<1>1. Init => Inv
  BY InitInv
<1>2. Inv /\ [Next]_vars => Inv'
  BY NextInv
<1> QED BY <1>1, <1>2, PTL DEF Spec

\* A service that is switched off has no discovery open and any other at most one, whatever claims and
\* reports are under way (mcp.ts: update, discover, claim, finish).
THEOREM SwitchedOffIsQuiet == Spec => []DisabledServersAreQuiet
<1>1. Inv => DisabledServersAreQuiet
  <2> SUFFICES ASSUME Inv, NEW s \in Server
               PROVE  Cardinality({d \in OfServer(s) : discoveries[d].status \in Open})
                      <= (IF servers[s].enabled THEN 1 ELSE 0)
    BY DEF DisabledServersAreQuiet
  <2> DEFINE open == {d \in OfServer(s) : discoveries[d].status \in Open}
  <2>1. CASE open = {}
    BY <2>1, FS_EmptySet
  <2>2. CASE open # {}
    <3>1. PICK d \in open : TRUE
      BY <2>2
    <3>2. open = {d}
      BY <3>1 DEF OfServer, Inv, OnePerServer
    <3>3. Cardinality(open) = 1
      BY <3>2, FS_Singleton
    <3>4. servers[s].enabled
      BY <3>1 DEF OfServer, Inv, Enabled
    <3> QED BY <3>3, <3>4
  <2> QED BY <2>1, <2>2
<1> QED BY <1>1, DiscoveriesInvariant, PTL

\* The outcome of a discovery is final, whatever a worker that outlived it still reports.
THEOREM EndedStaysEnded == Spec => EndedDiscoveriesAreFinal
<1>1. ASSUME Inv, [Next]_vars, NEW d \in Discovery, discoveries[d].status \in Ended
      PROVE  discoveries'[d] = discoveries[d]
  <2>1. CASE ~\E s \in Server, e \in Discovery : Discover(s, e)
    BY <1>1, <2>1, StepCalm DEF Calmly, Calm
  <2>2. ASSUME NEW s \in Server, NEW e \in Discovery, Discover(s, e) PROVE discoveries'[d] = discoveries[d]
    BY <1>1, <2>2, AskedStep DEF Ended
  <2> QED BY <2>1, <2>2
<1>2. Inv /\ [Next]_vars => [\A d \in Discovery : discoveries[d].status \in Ended => discoveries'[d] = discoveries[d]]_vars
  BY <1>1
<1> QED BY <1>2, DiscoveriesInvariant, PTL DEF Spec, EndedDiscoveriesAreFinal

----------------------------------------------------------------------------
(* A run's calls. *)

Shapes == run \in RunRow /\ calls \in [Call -> CallRow] /\ tools \subseteq ToolRow
Fits(row) == servers[run.tool.server].enabled /\ servers[run.tool.server].secret = row.secret
\* How far a call got, and what that says of it.
Reached(row) ==
    /\ row.stage \in {"listed", "allowed", "called", "answered"} => row.seen = run.tool.contract
    /\ row.stage = "called" /\ Fits(row) => row.standing
    /\ row.stage = "answered" => row.standing
    /\ row.stage = "failed" => run.failure
    /\ row.stage # "none" => run.tool # None
    /\ run.outcome = "succeeded" => row.stage \in {"none", "answered"}
CallInv == Inv /\ Shapes /\ ToolsRestOnDiscovery /\ \A c \in Call : Reached(calls[c])

LEMMA InitCalls == Init => CallInv
<1> SUFFICES ASSUME Init PROVE CallInv
  OBVIOUS
<1>1. Inv
  BY InitInv
<1>2. NoCall \in CallRow /\ NoCall.stage = "none"
  BY DEF NoCall, CallRow, Stage
<1>3. NoRun \in RunRow /\ NoRun.outcome = "open"
  BY DEF NoRun, RunRow
<1>4. Shapes /\ ToolsRestOnDiscovery
  BY <1>2, <1>3 DEF Init, Shapes, ToolsRestOnDiscovery
<1>5. \A c \in Call : Reached(calls[c])
  BY <1>2, <1>3 DEF Init, Reached
<1> QED BY <1>1, <1>4, <1>5 DEF CallInv

\* What is imported rests on its discovery, which does not change any more.
LEMMA ToolsStep ==
    ASSUME CallInv, [Next]_vars
    PROVE  tools' \subseteq ToolRow /\ ToolsRestOnDiscovery'
<1>1. ASSUME NEW d \in Discovery, discoveries[d].status = "succeeded" PROVE discoveries'[d] = discoveries[d]
  <2>1. CASE ~\E s \in Server, e \in Discovery : Discover(s, e)
    BY <1>1, <2>1, StepCalm DEF CallInv, Calmly, Calm, Ended
  <2>2. ASSUME NEW s \in Server, NEW e \in Discovery, Discover(s, e) PROVE discoveries'[d] = discoveries[d]
    BY <1>1, <2>2, AskedStep DEF CallInv
  <2> QED BY <2>1, <2>2
<1>2. \A t \in tools : t \in ToolRow /\ t.discovery \in Discovery
  BY DEF CallInv, Shapes, ToolRow
<1>3. CASE tools' = tools
  BY <1>1, <1>2, <1>3 DEF CallInv, Shapes, ToolsRestOnDiscovery
<1>4. ASSUME NEW s \in Server, NEW d \in Discovery, Import(s, d) PROVE tools' \subseteq ToolRow /\ ToolsRestOnDiscovery'
  <2> DEFINE tool == [server |-> s, contract |-> discoveries[d].found, discovery |-> d]
  <2>1. discoveries[d].server = s /\ discoveries[d].status = "succeeded" /\ discoveries[d].found \in Contract
        /\ tools' = tools \cup {tool} /\ discoveries' = discoveries
    BY <1>4 DEF Import, Reviewed, CallInv, Inv, Found
  <2>2. tool \in ToolRow /\ tool.server = s /\ tool.discovery = d /\ tool.contract = discoveries[d].found
    BY <2>1 DEF ToolRow
  <2> HIDE DEF tool
  <2> QED BY <1>2, <2>1, <2>2 DEF CallInv, Shapes, ToolsRestOnDiscovery
<1>5. ASSUME NEW s \in Server, NEW d \in Discovery, Discover(s, d) PROVE tools' = tools
  BY <1>5 DEF Discover
<1>6. ASSUME NEW s \in Server, NEW enabled \in BOOLEAN, NEW secret \in Secret, Update(s, enabled, secret) PROVE tools' = tools
  BY <1>6 DEF Update
<1>7. CASE Work
  BY <1>3, <1>7 DEF Work, Claim, Renew, Listed, GiveUp, Forget, Crash, Serve, Refuse, table
<1>8. CASE Pass
  BY <1>3, <1>8 DEF Pass, DeadlinePasses, LeaseAges, Reap, RemoteChanges, table
<1>9. CASE RunStep
  BY <1>3, <1>9 DEF RunStep, StartRun, RunIsLost, EndRun, Bind, List, Allow, CallTool, Answer, Fail, Moves, table
<1>10. CASE UNCHANGED vars
  BY <1>3, <1>10 DEF vars, table
<1> QED BY <1>3, <1>4, <1>5, <1>6, <1>7, <1>8, <1>9, <1>10 DEF Next, Operate

LEMMA MarkedRow ==
    ASSUME NEW row \in CallRow
    PROVE  /\ Marked(row) \in CallRow /\ Marked(row).standing
           /\ Marked(row).stage = row.stage /\ Marked(row).seen = row.seen /\ Marked(row).secret = row.secret
BY DEF CallRow, Marked

\* The platform goes on beside the run.  A service that changes marks the calls it still stood for.
LEMMA BesideStep ==
    ASSUME CallInv, [Next]_vars, ~RunStep, NEW c \in Call
    PROVE  /\ run' = run /\ calls' \in [Call -> CallRow]
           /\ Reached(calls[c])'
<1> USE DEF CallInv, Shapes
<1>1. CASE UNCHANGED <<servers, run, calls>>
  BY <1>1 DEF Reached, Fits
<1>2. ASSUME NEW s \in Server, NEW enabled \in BOOLEAN, NEW secret \in Secret, Update(s, enabled, secret)
      PROVE  run' = run /\ calls' \in [Call -> CallRow] /\ Reached(calls[c])'
  <2> DEFINE row == [enabled |-> enabled, secret |-> secret]
  <2>1. row.enabled = enabled /\ row.secret = secret
    OBVIOUS
  <2>2. run' = run /\ servers' = [servers EXCEPT ![s] = row] /\ calls' = Stands(s, row)
    BY <1>2 DEF Update
  <2> HIDE DEF row
  <2>3. \A k \in Call : calls[k] \in CallRow
    OBVIOUS
  <2>4. \A k \in Call : calls'[k] = IF calls[k].stage = "called" /\ run.tool.server = s /\ row.enabled /\ row.secret = calls[k].secret
                                   THEN Marked(calls[k]) ELSE calls[k]
    BY <2>2 DEF Stands
  <2>5. \A k \in Call : calls'[k] \in CallRow
    BY <2>3, <2>4, MarkedRow
  <2>6. calls' \in [Call -> CallRow]
    BY <2>2, <2>5 DEF Stands
  <2>11. Marked(calls[c]).standing
         /\ Marked(calls[c]).stage = calls[c].stage /\ Marked(calls[c]).seen = calls[c].seen /\ Marked(calls[c]).secret = calls[c].secret
    BY <2>3, MarkedRow
  <2>7. calls'[c].stage = calls[c].stage /\ calls'[c].seen = calls[c].seen /\ calls'[c].secret = calls[c].secret
    BY <2>4, <2>11
  <2>12. calls[c].standing => calls'[c].standing
    BY <2>4, <2>11
  <2>13. calls[c].stage = "called" /\ run.tool.server = s /\ row.enabled /\ row.secret = calls[c].secret => calls'[c].standing
    BY <2>4, <2>11
  <2>8. servers'[s] = row /\ \A u \in Server : u # s => servers'[u] = servers[u]
    BY <2>2 DEF Inv, Tables
  <2>9. ASSUME calls'[c].stage = "called", Fits(calls[c])' PROVE calls'[c].standing
    <3>1. run.tool \in ToolRow /\ run.tool.server \in Server
      BY <2>7, <2>9 DEF Reached, RunRow, ToolRow
    <3>2. CASE run.tool.server = s
      BY <2>2, <2>7, <2>8, <2>9, <2>13, <3>2 DEF Fits
    <3>3. CASE run.tool.server # s
      <4>1. calls[c].stage = "called"
        BY <2>7, <2>9
      <4>2. servers'[run'.tool.server] = servers[run.tool.server]
        BY <2>2, <2>8, <3>1, <3>3
      <4>3. Fits(calls[c])
        BY <2>7, <2>9, <4>2 DEF Fits
      <4>4. calls[c].standing
        BY <4>1, <4>3 DEF Reached
      <4> QED BY <2>12, <4>4
    <3> QED BY <3>2, <3>3
  <2>10. Reached(calls[c])'
    BY <2>2, <2>7, <2>9, <2>12 DEF Reached
  <2> QED BY <2>2, <2>6, <2>10
<1>3. ASSUME NEW s \in Server, NEW d \in Discovery, Discover(s, d) \/ Import(s, d) PROVE UNCHANGED <<servers, run, calls>>
  BY <1>3 DEF Discover, Import, running
<1>4. CASE Work
  BY <1>1, <1>4 DEF Work, Claim, Renew, Listed, GiveUp, Forget, Crash, Serve, Refuse, table, running
<1>5. CASE Pass
  BY <1>1, <1>5 DEF Pass, DeadlinePasses, LeaseAges, Reap, RemoteChanges, table, running
<1>6. CASE UNCHANGED vars
  BY <1>1, <1>6 DEF vars, table, running
<1> QED BY <1>1, <1>2, <1>3, <1>4, <1>5, <1>6 DEF Next, Operate

\* A call moves on: the other calls stay, and so does what is said of them.
LEMMA MovesStep ==
    ASSUME CallInv, NEW c \in Call, NEW from \in Stage, NEW row \in CallRow, Moves(c, from, row),
           run' \in RunRow, run'.tool = run.tool, run'.outcome = run.outcome, run.failure => run'.failure,
           row.stage # "none", row.stage \in {"listed", "allowed", "called", "answered"} => row.seen = run.tool.contract,
           row.stage = "called" /\ Fits(row) => row.standing,
           row.stage = "answered" => row.standing,
           row.stage = "failed" => run'.failure,
           NEW k \in Call
    PROVE  run' \in RunRow /\ calls' \in [Call -> CallRow] /\ Reached(calls[k])'
<1>1. run.tool # None /\ run.outcome = "open" /\ calls' = [calls EXCEPT ![c] = row] /\ servers' = servers
  BY DEF Moves, table
<1>2. calls' \in [Call -> CallRow]
  BY <1>1 DEF CallInv, Shapes
<1>3. CASE k = c
  <2>1. calls'[k] = row
    BY <1>1, <1>3 DEF CallInv, Shapes
  <2>2. Fits(calls[k])' => Fits(row)
    BY <1>1, <2>1 DEF Fits
  <2> QED BY <1>1, <1>2, <2>1, <2>2 DEF Reached
<1>4. CASE k # c
  <2>1. calls'[k] = calls[k] /\ Reached(calls[k])
    BY <1>1, <1>4 DEF CallInv, Shapes
  <2>2. Fits(calls[k])' => Fits(calls[k])
    BY <1>1, <2>1 DEF Fits
  <2> QED BY <1>1, <1>2, <2>1, <2>2 DEF Reached
<1> QED BY <1>3, <1>4

LEMMA RunStepKeeps ==
    ASSUME CallInv, RunStep, NEW k \in Call
    PROVE  run' \in RunRow /\ calls' \in [Call -> CallRow] /\ Reached(calls[k])'
<1> USE DEF Shapes
<1>0. run \in RunRow /\ calls \in [Call -> CallRow] /\ \A c \in Call : calls[c] \in CallRow /\ Reached(calls[c])
  BY DEF CallInv
<1>1. ASSUME NEW t \in tools, StartRun(t) PROVE run' \in RunRow /\ calls' \in [Call -> CallRow] /\ Reached(calls[k])'
  <2>1. run.tool = None /\ run.outcome = "open" /\ calls' = calls /\ t \in ToolRow
    BY <1>1 DEF StartRun, NoRun, CallInv
  <2>2. calls[k].stage = "none"
    BY <1>0, <2>1 DEF Reached
  <2>3. run' \in RunRow /\ run'.outcome = "open"
    BY <1>0, <1>1, <2>1 DEF StartRun, RunRow
  <2> QED BY <1>0, <2>1, <2>2, <2>3 DEF Reached
<1>2. CASE RunIsLost
  <2>1. run' \in RunRow /\ run'.tool = run.tool /\ run'.outcome = run.outcome /\ run'.failure = run.failure
    BY <1>0, <1>2 DEF RunIsLost, RunRow
  <2>2. calls' = calls /\ servers' = servers
    BY <1>2 DEF RunIsLost, table
  <2> QED BY <1>0, <2>1, <2>2 DEF Reached, Fits
<1>3. CASE EndRun
  <2>1. calls' = calls /\ servers' = servers /\ calls[k].stage \in {"none", "answered", "failed"}
    BY <1>3 DEF EndRun, table
  <2>2. /\ run' \in RunRow /\ run'.tool = run.tool /\ run'.failure = run.failure
        /\ run'.outcome = "succeeded" => ~run.failure
    BY <1>0, <1>3 DEF EndRun, RunRow
  <2> QED BY <1>0, <2>1, <2>2 DEF Reached, Fits
<1>4. ASSUME NEW c \in Call, Bind(c) PROVE run' \in RunRow /\ calls' \in [Call -> CallRow] /\ Reached(calls[k])'
  <2> DEFINE row == [NoCall EXCEPT !.stage = "bound", !.secret = servers[run.tool.server].secret]
  <2>1. Moves(c, "none", row) /\ run' = run
    BY <1>4 DEF Bind
  <2>2. run.tool \in ToolRow
    BY <1>0, <2>1 DEF Moves, RunRow
  <2>3. servers[run.tool.server].secret \in Secret
    BY <2>2 DEF ToolRow, CallInv, Inv, Tables
  <2>4. row \in CallRow /\ row.stage = "bound"
    BY <2>3 DEF NoCall, CallRow, Stage
  <2> HIDE DEF row
  <2> QED BY <1>0, <2>1, <2>4, MovesStep DEF Stage
<1>5. ASSUME NEW c \in Call, List(c) PROVE run' \in RunRow /\ calls' \in [Call -> CallRow] /\ Reached(calls[k])'
  <2> DEFINE row == [calls[c] EXCEPT !.stage = "listed", !.seen = remote[run.tool.server]]
  <2>1. Moves(c, "bound", row) /\ run' = run /\ remote[run.tool.server] = run.tool.contract
    BY <1>5 DEF List, SameContract
  <2>2. run.tool \in ToolRow
    BY <1>0, <2>1 DEF Moves, RunRow
  <2>3. row \in CallRow /\ row.stage = "listed" /\ row.seen = run.tool.contract
    BY <1>0, <2>1, <2>2 DEF CallRow, Stage, ToolRow
  <2> HIDE DEF row
  <2> QED BY <1>0, <2>1, <2>3, MovesStep DEF Stage
<1>6. ASSUME NEW c \in Call, Allow(c) PROVE run' \in RunRow /\ calls' \in [Call -> CallRow] /\ Reached(calls[k])'
  <2> DEFINE row == [calls[c] EXCEPT !.stage = "allowed"]
  <2>1. Moves(c, "listed", row) /\ run' = run /\ calls[c].stage = "listed"
    BY <1>6 DEF Allow, Moves
  <2>2. calls[c].seen = run.tool.contract
    BY <1>0, <2>1 DEF Reached
  <2>3. row \in CallRow /\ row.stage = "allowed" /\ row.seen = run.tool.contract
    BY <1>0, <2>2 DEF CallRow, Stage
  <2> HIDE DEF row
  <2> QED BY <1>0, <2>1, <2>3, MovesStep DEF Stage
<1>7. ASSUME NEW c \in Call, CallTool(c) PROVE run' \in RunRow /\ calls' \in [Call -> CallRow] /\ Reached(calls[k])'
  <2> DEFINE row == [calls[c] EXCEPT !.stage = "called", !.standing =
                        servers[run.tool.server].enabled /\ servers[run.tool.server].secret = calls[c].secret]
  <2>1. Moves(c, "allowed", row) /\ run' = run /\ calls[c].stage = "allowed"
    BY <1>7 DEF CallTool, Moves
  <2>2. calls[c].seen = run.tool.contract
    BY <1>0, <2>1 DEF Reached
  <2>3. row \in CallRow /\ row.stage = "called" /\ row.seen = run.tool.contract /\ row.secret = calls[c].secret
    BY <1>0, <2>2 DEF CallRow, Stage
  <2>4. Fits(row) => row.standing
    BY <1>0, <2>3 DEF Fits, CallRow
  <2> HIDE DEF row
  <2> QED BY <1>0, <2>1, <2>3, <2>4, MovesStep DEF Stage
<1>8. ASSUME NEW c \in Call, Answer(c) PROVE run' \in RunRow /\ calls' \in [Call -> CallRow] /\ Reached(calls[k])'
  <2> DEFINE row == [calls[c] EXCEPT !.stage = "answered"]
  <2>1. Moves(c, "called", row) /\ run' = run /\ calls[c].stage = "called" /\ Fits(calls[c])
    BY <1>8 DEF Answer, Moves, StillBound, Authorized, Fits
  <2>2. calls[c].seen = run.tool.contract /\ calls[c].standing
    BY <1>0, <2>1 DEF Reached
  <2>3. row \in CallRow /\ row.stage = "answered" /\ row.seen = run.tool.contract
    BY <1>0, <2>2 DEF CallRow, Stage
  <2>4. row.standing
    BY <1>0, <2>2 DEF CallRow
  <2> HIDE DEF row
  <2> QED BY <1>0, <2>1, <2>3, <2>4, MovesStep DEF Stage
<1>9. ASSUME NEW c \in Call, Fail(c) PROVE run' \in RunRow /\ calls' \in [Call -> CallRow] /\ Reached(calls[k])'
  <2> DEFINE row == [calls[c] EXCEPT !.stage = "failed"]
  <2>1. PICK from \in Stage : Moves(c, from, row)
    BY <1>9 DEF Fail, Stage
  <2>2. run' \in RunRow /\ run'.tool = run.tool /\ run'.outcome = run.outcome /\ run'.failure
    BY <1>0, <1>9 DEF Fail, Remembered, RunRow
  <2>3. row \in CallRow /\ row.stage = "failed"
    BY <1>0 DEF CallRow, Stage
  <2> HIDE DEF row
  <2> QED BY <2>1, <2>2, <2>3, MovesStep
<1> QED BY <1>1, <1>2, <1>3, <1>4, <1>5, <1>6, <1>7, <1>8, <1>9 DEF RunStep

\* Whatever of a call a run uses was answered by a service that declared what had been reviewed and
\* stood, and a run that succeeded has nothing else; every imported tool rests on its discovery (mcp.ts,
\* the remote tools of the runtime).
THEOREM AnswersStand == Spec => []AnswersAreStanding
<1>1. ASSUME CallInv, [Next]_vars PROVE CallInv'
  <2>1. Inv'
    BY <1>1, NextInv DEF CallInv
  <2>2. tools' \subseteq ToolRow /\ ToolsRestOnDiscovery'
    BY <1>1, ToolsStep
  <2>3. CASE RunStep
    <3>1. run' \in RunRow /\ calls' \in [Call -> CallRow] /\ \A k \in Call : Reached(calls[k])'
      BY <1>1, <2>3, RunStepKeeps, McpAssumption
    <3> QED BY <2>1, <2>2, <3>1 DEF CallInv, Shapes
  <2>4. CASE ~RunStep
    <3>1. run' = run /\ calls' \in [Call -> CallRow] /\ \A k \in Call : Reached(calls[k])'
      BY <1>1, <2>4, BesideStep, McpAssumption
    <3>2. run' \in RunRow
      BY <1>1, <3>1 DEF CallInv, Shapes
    <3> QED BY <2>1, <2>2, <3>1, <3>2 DEF CallInv, Shapes
  <2> QED BY <2>3, <2>4
<1>2. CallInv => AnswersAreStanding
  BY DEF CallInv, Shapes, Reached, AnswersAreStanding
<1> QED BY <1>1, <1>2, InitCalls, PTL DEF Spec

=============================================================================
