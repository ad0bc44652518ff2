# TLA+ models of the agent platform

The platform runs agents, workflows and knowledge jobs for projects of several
tenants. A *control plane* (`src/apps/control-plane`, Hono over PostgreSQL) owns
every durable row; *runtimes* (`src/apps/runtime`) own no database: they claim
jobs over HTTP, work on them under a lease and report back; a *console* is what
a user sees, and may host an application's page that an assistant acts on. What
can go wrong is in between: a lease that lapses under a worker that goes on, a
request that is served while its answer is lost, a user who cancels, edits or
deletes meanwhile, a role that is taken away between two statements, and a
reaper that takes jobs back. These protocols are what the modules are about.

Paths below are relative to `src/apps/control-plane/src/modules` unless they say otherwise.

## 1. The system

### 1.1 Parts, their state and their operations

| Part | State it keeps | Operations | Modelled in |
|---|---|---|---|
| Agent run queue and task store (`conversations/queue.ts`, `task-execution.ts`) | `runs`, `run_events`, snapshots, `run_tool_receipts`, `run_tool_approvals`, `messages`, the boundary of a conversation's summary | enqueue, cancel, claim, heartbeat, append, task operations, finish (with overflow compaction), decideApproval, reap | `RunQueue` |
| Conversations (`conversations/conversations.ts`, `context.ts`, `history.ts`) | `conversations` with their branches, `conversation_resets`, copied messages | create, edit, derive, reset, remove, automatic compaction; what a model is shown; what a page reads | `Conversations` |
| Agent worker (`runtime/src/agents/*`, `control-plane/client.ts`) | in memory: its lease, abort signal, delivery chain, tool calls in progress | claim loop, heartbeat timer, wrapped tool bodies, event delivery, final report | `AgentRun` |
| Model budget and subagents (`runtime/src/agents/budget.ts`, `delegation.ts`, `task-execution.ts`) | `run_model_reservations`; in memory: a budget per worker, slots and a line of waiters | reserve, call, settle, recover; ask, acquire, release, abort, close | `RunBudget` |
| Workflow jobs (`workflows/queue.ts`) | `workflow_jobs`, `workflow_node_runs` | enqueue, claim, heartbeat, start and finish of nodes, finish, cancel, reap | `WorkflowQueue` |
| Workflow drafts and releases (`workflows/workflows.ts`) | drafts with revisions, immutable versions, candidates | edit, publish, run, generate, accept | `WorkflowAssets` |
| Knowledge bases (`knowledge/knowledge.ts`) | documents and versions, previews, `knowledge_jobs`, chunks, the base's dimension | preview, import, upload, retry, delete, search; claim, heartbeat, batch, query, finish, reap | `Knowledge` |
| Members and invitations (`members/members.ts`, `access/access.ts`) | users and roles, project memberships, invitations | update, transfer ownership, set a project role, invite, withdraw, join | `Team` |
| Assistant proposals (`assistant/assistant.ts`, `operations.ts`) | `platform_assistant_proposals` | prepare, approve, dismiss, apply step by step, read | `Proposals` |
| Page actions (`assistant/app-ui.ts`, `packages/agent-ui`, the console's `ApplicationCollaboration.tsx`) | page sessions, `assistant_app_actions`; in the console and in the page: the call in progress, receipts | connect, sync, grant, ask, claim, deliver, report, expire | `PageActions` |
| MCP connections (`mcp/mcp.ts`, `runtime/src/mcp/*`) | services, discovery jobs, imported tools | switch on and off, change the secret, discover, report, reap, import, authorise a call, call | `Mcp` |
| Skills (`skills/skills.ts`, `runtime/src/skills/*`) | versions of packages with a switch each, previews of imports; in the runtime: a run's checks, the line of its script calls | upload, preview, confirm, switch on and off; give a run access; prepare, check every 2 s, call a script | `Skills`, `Releases` |
| Agents and their releases (`agents/agents.ts`) | drafts with revisions, published releases, tried drafts | save, publish, preview | `Releases` |
| Models, tools, runtime registry | versioned rows, credentials, who is draining | CRUD, probes | no |
| Identity and applications | passwords, sessions, keys | checks in every transaction | only a tenant's setup and the loss of access |
| Console otherwise, SDK, logging, deployment | none of the platform's own | UI, generated client | no |

`PROJECT.json` lists the same parts in more detail, with their files and the reasons.

### 1.2 How they interact

* **User → control plane**: HTTP requests, each one transaction unless said otherwise. A
  turn, an edit and a derivation carry a client's request id and may be repeated at any later time.
* **Runtime → control plane**: claim, heartbeat (every 4 s), task operations, events, finish. Requests
  carry the lease token. Those on `/runs/…/(events|heartbeat|finish|task)` are retried by the
  client (`client.ts:33-61`); those of workflow, MCP and knowledge jobs are not, nor are those for skills. A
  claim is never retried: if its answer is lost the lease has no worker.
* **Switches → runs**: a package or a service that is switched off is not told to anybody. Whoever uses it asks again: a
  run before a script starts, before its output is used and every two seconds; a call of a service before it is sent and after.
* **Reaper → rows**: every 5 s, never overlapping itself (`main.ts:39-56`), it reaps runs
  (three statements, no transaction around them), knowledge, MCP and workflow jobs (one transaction each).
* **Control plane → worker**: only in answers. A cancel is a column that a heartbeat's
  answer, or a refused task call, brings to the worker.
* **Control plane ↔ console ↔ page**: the console polls and syncs over HTTP and talks to
  the page over `postMessage`; the tool in the runtime polls for the receipt.
* **Proposals → every other part**: a step is carried out in the name of its
  user by the service that owns it, in a transaction of that service.

### 1.3 What is hard, and what makes each part correct

* *Runs.* Two workers may believe they own a run; the reaper's statements interleave with everything;
  a tool's effect cannot be undone. Correct: one active run per conversation, one run per request
  id, replies behind their questions and only for runs that succeeded, nothing of a former lease
  in the log, an ended run never changes, a cancel is honoured, a run with a tool call of unknown outcome
  is never requeued, the deadline does not overtake a question to a person, every run ends.
* *Conversations.* They are branched, compacted and deleted while runs go on, and read in several
  statements. Correct: a summary hides nothing that its run had not read, a branch begins as its parent did, a
  page that opens a conversation finds every turn.
* *Worker.* Its knowledge (mode, deadline, verdict) is of the past. Correct: an effect happens at most once per call id
  and never behind a successor, a write happens with consent, an answer rests on recorded effects, a cancel arrives.
* *Budget.* A worker and its predecessor spend from one account, and each keeps a book of its own. Correct:
  the run's limits hold over recoveries, the worker's guard never trails the platform's record, no slot is lost or given twice.
* *Workflows.* A claim happens once; late node requests, a cancel, a revoked application and the reaper race, while
  two people and a generation write one draft. Correct: only nodes on the chosen path start, ends close all records, a success is a whole path, nothing
  moves back, the job limit holds as far as it is locked, no saved work is overwritten unseen, every job ends.
* *Knowledge.* Versions, retries and deletions come while a job indexes. Correct: what is searchable is whole and of one
  dimension, failed attempts leave nothing, an update that waits or fails leaves the last good version in place, the same
  content is one document.
* *Team and proposals.* Roles change between a step's check, its effect and its record. Correct: one active
  owner, no invitation without a sender who may send it, steps applied once and in order, a true record.
* *Page actions.* Four parties may each stop, and answers are lost. Correct: the handler starts at most once and
  as it was asked, receipts are true and final.
* *MCP.* A service changes, or is switched off, under a discovery or a call. Correct: a service that is off has no discovery left, a tool
  is what was reviewed, a run uses only answers of a service that stood.

* *Skills and releases.* What was compared, checked or allowed is used later and without a lock. Correct: an import adds what its
  preview showed, a release holds no script that nobody entitled to it had granted, a script neither starts nor answers on a permission that was
  withdrawn before, a switched-off package stops the runs that are pinned to it.

The list of single places is under `hazards` in `PROJECT.json`; each names the
properties that watch it, or says why none does.

## 2. The modules

| Module | Models | Shape |
|---|---|---|
| `RunLifecycle` | what a conversation may observe of its runs: phases, turns, replies | abstract specification |
| `RunQueue` | the rows of runs and every operation on their life | one action per statement or transaction; the reaper has a program counter |
| `Conversations` | the conversations around the queue | extends `RunQueue`; every step is one of its steps, or leaves its rows alone |
| `AgentRun` | workers, network and queue together | extends `RunQueue`; one worker per lease, every request of it one of the queue's or none |
| `RunBudget` | one run's model calls and subagents | rows, a budget per worker, requests that hang between them |
| `WorkflowQueue` | rows of workflow jobs and of their nodes | one action per transaction, enqueueing in two |
| `WorkflowAssets` | drafts, versions and candidates beside the jobs | extends `WorkflowQueue` and composes with it |
| `Knowledge` | one knowledge base | one action per transaction; a preview is parsed and staged in two |
| `Team` | users, roles, invitations | one action per transaction: all lock the tenant |
| `Proposals` | the assistant's changes | extends `Team`; a step's check, effect and record are actions of their own |
| `PageActions` | control plane, console and page of an action | one action per request, message or turn of an event loop |
| `Mcp` | services, discoveries, the worker, a run's call | rows, mail on its way, a world that changes |
| `Skills` | the versions of one package and the imports that add to them | one action per transaction; what an import is compared with is read before its own |
| `Releases` | an agent's draft and releases, and a run with a release's scripts | extends `Skills`; a request's check, its turn at the agent's row and its insertion are actions of their own |
| `…_proofs` | theorems: `Runs_proofs` about `RunQueue`, `Conversations` and `AgentRun`, the others about `RunBudget`, `WorkflowAssets` with `WorkflowQueue`, `Knowledge`, `Proposals` with `Team`, `PageActions`, `Mcp`, `Releases` with `Skills` | extend the component |
| `MC…` | the instances for TLC; `MCStopping` puts parts side by side that share no variable, `MCReleases` chooses what a behaviour is about | definitions and symmetry |

### 2.1 RunQueue

Variables are tables: `runs` (a row per run), `events` (the lease under which each event was
written), `snapshots`, `receipts`, `gates` and `gateLeft`, `messages` and
`through` of a conversation. `reaper` says which of `Queue.reap`'s three statements
comes next. Leases are numbered; a request of the runtime carries any number
ever issued (`RuntimeRequest(r, t)`, `t \in 1..claims`), so duplicates, late retries and workers that were given up
for lost need no separate machinery. `claims`, and the leases in `events`, are history variables.

Time is what is left of it: `Tick` counts a run's deadline and its gates' windows down together, `LeaseLapse` lets a lease lapse at any
moment. The control plane compares leases with `Date.now()` and writes and reaps
them with the database's `now()`; the two clocks are identified. `SKIP LOCKED`
makes the order of claims a free choice. A turn's position, the boundary of a
summary and the order of messages are kept; texts are not. The set `Run` bounds how many runs there are.

### 2.2 Conversations

`threads` are the rows of conversations with their parent, request id and status; `copied` is what a branch began
with, in front of what the queue appends. A turn (`Turn`) is `RunQueue`'s enqueueing with the
automatic compaction decided from `measured`, the last measured request of the model. The claim's job
is assembled as `modelHistory` does: what follows the summary, the summary, and the first question; `shown` remembers it per
run, and tells what a summary made by that run stands for. `Session` and `ResumeRun` are what a page reads: messages with the interrupted
replies restored in their places, and the run to follow.

### 2.3 AgentRun

`workers[r][t]` is what the worker that was given lease `t` of run `r` knows: its stage, the mode and
time of its claim, whether its signal is aborted, whether its delivery chain is
rejected, and where each call stands in its wrapped body (`tool-boundary.ts:60-131`: ask, poll,
start, execute, record). `effects` is history: how often, and under which lease, a tool's
body had its effect. Every request has three outcomes: served and answered,
served with the answer lost, not served. A request on its way may
still be served after its worker is gone, but no later than its sender moves on
to the next one. The model stream is one nondeterministic execution that
may call, emit, answer or fail at any time; a graceful shutdown is a failure.

### 2.4 RunBudget

`rows` is the account of the run in the database; `budgets` one book per worker (`attempt`), empty after a
recovery; a request stands in `budget.fetch` somewhere between its reservation, the provider's answer and its
settlement, and goes on even when its worker has lost the lease. Each of the two
exchanges with the platform is answered, served without an answer, or given up. The scheduler of
subagents is the memory of one worker: `accepted`, `active`, the line of `waiters`, `aborted`.

### 2.5 WorkflowQueue and WorkflowAssets

`jobs` holds status, what is left of the lease and whether the deadline has
passed; `nodes` the status of each node's record, `matched` the conditions whose output
was `matched = true`. All executions run one definition, a constant constrained by
`ValidDefinition`: the graph that `validateWorkflow` admits. The runtime's
requests are taken in any order for any node. `Count` and `Insert` are the enqueueing transaction
in two steps, since it counts the project's jobs while it locks only its own workflow.

`WorkflowAssets` adds the draft's revisions, its versions, what a job was asked for and the candidates of
generations. What a person sends rests on the revision their console last showed (`seen`), whose refresh may be lost. The code keeps the last
revision; the model keeps all of them, with the revision its author had before them.

### 2.6 Knowledge

`documents` and `jobs` are sequences in the order of creation; a document holds its
versions, the content of the latest one and the number of the active one. `chunks` are
identified by job and ordinal and carry their dimension; a content is a model value with
the number of chunks its parsed file is planned into. Any batch of any ordinals
and any dimension may arrive for any job. A preview is parsed before the
transaction that stages it, as in `previewDocument`; once imported it only repeats its answer and is forgotten.
A running job past its deadline is treated like one without its lease, as `checkLease` and `reap` do.
Hits are pairs of document and version.

### 2.7 Team and Proposals

`Team` has the tenant's users with role and state, project roles and invitations; each operation locks the tenant's row first,
so a permission is decided on what is behind the lock. `Proposals` is not so lucky: `apply` approves
in one transaction, then takes each step through check, effect and record as transactions of their own, by
several requests at once (`appliers`), any of which may stop. An operation of the assistant that
changes a role *is* `Team`'s operation in the name of the proposal's user, one of each kind of the registry is kept. `effects` is history.

### 2.8 PageActions

`session` and `actions` are the control plane's rows; `hosts` the console's side of a connection; `pages` the application in a tab,
with its bridge's pending call and the receipts it keeps; `syncs` are heartbeats on their way, which may be served after their
sender was replaced. The page may be loaded anew, its revision may change, the user's role may
change, the run may be interrupted and resumed at every step. `effects` counts the starts of a call's handler and remembers what it was started for.

### 2.9 Mcp

`servers`, `discoveries` and `tools` are rows; `worker` is the runtime's discovery worker, which works on one at a time;
`mail` holds its reports, served late or never; `remote` is what the services declare at this moment. A call of a run is
bound to the service's secret, lists the tools, is authorised, calls and is answered, and at each step the service may
change, be switched off or be deployed anew. `standing` is history: whether since the call was made the service was once enabled under the secret it was made with.

### 2.10 Skills and Releases

`Skills` is one package: `versions` of it with their digest, switch and the import they came from, and `imports` with what each was
compared with. The comparison reads the newest version without a lock and possibly long before the preview is confirmed; whatever adds a version holds the
project's row, so each such transaction is one action. Versions of other names do not matter to it.

`Releases` has every revision of an agent's draft (`drafts`), what somebody was allowed to ask for and still waits with for the
agent's row (`edits`), the transaction that holds it (`holder`), and `releases`, published or tried, as they were inserted. A request
for publishing is checked for its author's role once, a draft that is tried for its scripts again behind the lock, and no lock is taken on skills. The
code keeps a release's grants by what is inserted; `granted` remembers whether its author could have granted them.
A `run` of a release is the runtime's `prepareSkills`: checked before it begins, by a timer every two seconds unless a check is out, and at each
request for a file. A call of the script tool (`calls`) waits its turn, is permitted, read, checked again, executed in a container, and checked once more before its
output is used. `before` and `after` are history, whether since the last file was read, and since the script ended, there was a moment at which the package was on
and the run alive.

## 3. What the runs check

All instances are small; the bounds are the constants of each `.cfg`.

| Run | Instance | Checks |
|---|---|---|
| `stopping` | 1 run with 1 call and its gate, 2 recoveries, 3 events, fair; or 2 runs of an assistant, fair heartbeats; or 1 release of 1 content, 1 run of it with 2 script calls, fair timer | `FencedByLease`, `GateWithinDeadline`, `CancelHonoured`, `NothingIsTakenBack`, `EveryRunEnds`, `GatesSettle`, `CancelReachesWorker`, `RevocationReachesRuns` |
| `conversations` | 3 runs, 3 conversations, 2 request ids, at most 6 of them used in one behaviour | `RunsTakeTurns`, `Transcript`, `ImplementsLifecycle`, `SummariesHideNothing`, `BranchesAreFaithful`, `SessionIsWhole` |
| `agent_tools` | 1 run, 1 write, 1 recovery, modes `readonly` and `ask`, an event of the last lease in mode `readonly` | `EffectAtMostOnce`, `AnswerRestsOnReceipts`, `WritesNeedConsent`, `NoEffectBehindSuccessor` |
| `budget` | 3 requests, 2 workers, 2 calls and 3 tokens allowed; 3 subagents, 2 allowed, 1 at a time | `BooksAreKept`, `SlotsAreKept` |
| `workflow_jobs` | an execution and a generation of 1 workflow, 2 people, 3 revisions, a condition with two ends, fair | `JobsAreKept`, `SuccessIsComplete`, `SavedWorkStands`, `OnlyForward`, `EveryJobEnds` |
| `knowledge` | 2 contents (2 chunks and 1), 1 preview, 3 jobs, 2 dimensions | `SearchableIsWhole`, `DocumentsAreKept`, `HitsWereIndexed`, `LastGoodStays` |
| `proposals` | 2 users, 1 project, 2 invitations, 1 proposal of up to 2 of 3 operations, 2 requests at a time | `AuthorityIsBacked`, `AppliedOnceInOrder`, `RecordTellsTheTruth` |
| `page_actions` | 1 tab, 1 call that edits a draft, 2 connections, 1 change of revision | `HandledAsAsked`, `ReceiptsTellTheTruth` |
| `services` | 2 services with 2 secrets and 2 contracts, 2 discoveries, 1 call, 1 deployment | `DisabledServersAreQuiet`, `AnswersAreStanding`, `EndedDiscoveriesAreFinal` |
| `packages` | a package with 2 contents, 2 imports, 2 users; or an agent with 2 edits and 3 releases that bind 1 content; or a run of such a release with 2 script calls | `ImportsAreAsShown`, `ReleasesAreSound`, `RevocationStands` |
| `agent_wait`, `auto_compaction` | small | one statement of a comment each; violated, see 5 |

**What they show, beyond the names.** `FencedByLease` says of recoveries that nothing of an older lease is written
behind a newer one and that no run waits to be claimed with a tool call whose outcome is unknown. `Transcript`
says that replies stand behind their questions, exactly the runs that succeeded have one, and the boundary is the latest summary.
`SearchableIsWhole` joins completeness, one dimension and no chunk left of a failed attempt. `SavedWorkStands` says that a revision was written by somebody
who had seen the one before it, that a candidate became one revision of the draft it was made for, and that what is published and run is a valid draft.
`AuthorityIsBacked` says that the tenant has one active owner and no pending invitation outlives its sender's role. `RecordTellsTheTruth`
says that a step recorded as succeeded took effect, that one recorded as pending did not, and that one recorded as failed did not either
unless its operation reads again what it has committed, see 5.
`JobsAreKept` says that a job's nodes follow its definition's path and its end closes their records, and that active jobs exceed the limit by no more
than the workflows that were counting at once. `DocumentsAreKept` says that a document's state is that of its latest
job, and that no two documents have the same latest content. `BooksAreKept` joins the limits of the account, over recoveries, and that the worker's own guard never allows
what the account would not. `ReleasesAreSound` says that a release is a revision its author had read and that a grant which was withdrawn
does not come back through a draft that was checked before. `RevocationStands` says on which moment a script's start and
its answer rest, and that one script of a run is executed at a time.

**Parts side by side.** In `stopping` every behaviour moves one part and leaves the others where they
began. The parts share no variable and each property is about one of them, so interleaving them would multiply states that no property tells
apart: what holds of each part alone holds of all of them together, and fairness is of actions of one part. In `packages` a behaviour is
about imports, about drafts and releases, or about a run; the three share the package's versions, so the part only says who else is busy: a
release meets no import, since to it an import is an upload, and a run meets one release, its own. The theorems about `Releases` make no such division.

**Why the bounds are enough for what they are for.** Three runs are needed for an overflow's compaction run to meet both
the run that overflowed and a user's next turn; three conversations for a branch of a branch, or two branches of one parent; the sum of what is used is bounded
(`MaxRows`), so that three runs meet in one conversation, or two in two, but not three in three. Two recoveries are the code's own limit: three leases, two
of them stale. A gate's window of two ticks opens at one tick and expires at another, and is longer than what is left of the run. In
`AgentRun` and `RunBudget` two leases give a former worker and its successor. In `agent_tools` only the last worker delivers an event, and in the mode that writes nothing: a delivery matters to
tool calls by ending the execution, which may end without one. The workers of `stopping` deliver in mode `ask`; deliveries in any mode between any tool calls are in
the theorems about `AgentRun`, and what stale leases may write behind their successors'
is the queue's affair (`FencedByLease`, proved for workers too). A third request is what
two allowed model calls have to refuse, and a usage of 3 for an estimate of 1 what a
settlement has to bear. A third subagent waits behind one that is aborted. In `workflow_jobs` two people and a generation are three writers of one draft, with a
revision to be stale by; the definition has both ports of a condition and two ends. With one workflow
the limit of one job is kept exactly; that several workflows pass it, and by how many at most, is proved (`LimitIsBounded`).
Three knowledge jobs let the update of a document fail and be retried, or meet a second document or a
search; a file of two chunks can be delivered in part, twice, or in the wrong order. Two users are an
owner and somebody who gains and loses a role; two requests apply one proposal at once, or one resumes what the other left. A second
connection makes a former console of the first, and a second revision makes a view stale. Two services show that an imported tool keeps
its own, two secrets that a call is bound to one. Two imports of two contents are one that overtakes the other's preview, or brings the same
again. For a grant that was withdrawn to come back it takes a release that has it, one that withdraws it, and a draft somebody
tries who had it checked in between: three releases and two edits, with one content, since a release of another content covers nothing. Two script
calls have to wait for one another; to a run, only the switch of its own version matters, so there no more edits are made.

**Mutants.** Each property has a variant of one definition, as a plausible slip in the code
would make it (a status not looked at again under the lock, an off-by-one in the recoveries, a
lease extended from its old end, chunks counted instead of compared …), for which TLC reports the property violated. They stand beside
the definitions they replace.

**Reductions.** `conversations` compares states by what later steps can see (`Essential`), leaves out rounds of the reaper that
take nothing back (`RoundsThatCount`) and uses symmetry; it checks no liveness. `budget`, `proposals` and `services` use symmetry for safety only.
`budget` and `proposals` do not check deadlock: both end when everything offered has been dealt with.

**Fairness.** `EveryRunEnds`, `GatesSettle` and `EveryJobEnds` assume only that the reaper's timer keeps firing and that time passes: weak fairness of
`Reap` and of `Tick` or `Expire`; in `stopping`, where a behaviour may be about another part, of the queue's reaper and clock when it is about the queue. Nothing obliges a runtime to claim, answer or renew, nor a
person to decide. The timer is `setInterval` in the control plane, which never gives up after an error; its statements are
always enabled. `CancelReachesWorker` assumes that the worker's interval timer
fires and that one of its heartbeats is answered at last: weak fairness of `HeartbeatAnswered`. Requests may be lost any
finite number of times. `RevocationReachesRuns` assumes of a run's process that its interval of two seconds keeps firing (`Tick`) and that a check that
is out is answered or given up (`Ticked`), as a request with a timeout is: nothing of script calls, containers or people. A run whose process
is gone does not answer anybody; its lease ends it, which is `EveryRunEnds`.

**Refinement.** `ImplementsLifecycle` maps rows to `RunLifecycle`: status to phase, `cancel_requested` to the set of runs being
stopped, leases to attempts, messages to the transcript. Every step of the queue, and of the conversations around it, is a step of the life cycle or none: leases,
deadlines, the reaper's statements and late requests add nothing a conversation can observe. Four compositions
are shown to implement the part they are built over: `Conversations` and `AgentRun` the queue of runs, `WorkflowAssets` the
queue of jobs, `Proposals` the team. Those refinements are proved (section 4), as `ImplementsLifecycle` is, so what is proved of
a part holds of the compositions as well.

## 4. What is proved

TLAPS checks the following for all values of the constants under the assumptions that the modules name.

| Theorem | States |
|---|---|
| `Runs_proofs`, of the queue: `TypeCorrectness` | `Spec => []TypeOK` |
| `CancelsAndClaims` | `Spec => [](CancelHonoured /\ ClaimsBounded)` |
| `LogIsFenced`, `RequeueIsClean`, `RecoveryIsClean` | `Spec => []EventsFenced`, `[]QueuedHasNoOpenTool`, and both as `[]FencedByLease` |
| `EndedStaysEnded`, `VerdictsStand`, `WhatIsOverStays` | `Spec => EndedIsFinal`, `VerdictIsFinal`, and both as `NothingIsTakenBack` |
| `ConversationsTakeTurns` | `Spec => []RunsTakeTurns` |
| `WaitingIsNotExecuting` | `Spec => []GateWithinDeadline` |
| `TranscriptsAreTrue` | `Spec => []Transcript` |
| `QueueImplementsLifecycle` | `Spec => ImplementsLifecycle`, the refinement of `RunLifecycle` |
| `Runs_proofs`, of the conversations: `ConversationsAreAQueue` | `ConversationsSpec => Spec`, the specification of the queue |
| `BranchesTakeTurns`, `BranchesAreTrue`, `ConversationsImplementLifecycle` | the queue's theorems carried over |
| `SummariesTellAll` | `ConversationsSpec => []SummariesHideNothing` |
| `SessionsAreWhole` | `ConversationsSpec => []SessionIsWhole` |
| `BranchesStandByTheirParents` | `ConversationsSpec => []BranchesAreFaithful` |
| `Runs_proofs`, of the workers: `WorkersObeyTheQueue` | `AgentSpec => Spec`, the specification of the queue |
| `WorkersAreFenced`, `WorkersImplementLifecycle` | the queue's theorems carried over |
| `EffectsHappenOnce`, `AnswersRestOnReceipts`, `WritesHaveConsent` | `AgentSpec => []EffectAtMostOnce`, `[]AnswerRestsOnReceipts`, `[]WritesNeedConsent` |
| `EffectsAreCurrent` | `AgentSpec => NoEffectBehindSuccessor` |
| `WorkerTypes` | `AgentSpec => []AgentTypeOK` |
| `RunBudget_proofs`: `LimitsHold`, `SlotsAddUp` | `Spec => []BooksAreKept`, `[]SlotsAreKept` |
| `WorkflowAssets_proofs`, of the queue: `Invariant`, `Records`, `Path` | `Spec => []IInv`, `[]RecordsFollowJob`, `[]NodesFollowPath` |
| `Forward` | `Spec => OnlyForward` |
| `LimitIsBounded`, `JobsStand` | for finite `Job` and `Workflow`: `Spec => []ActiveJobsBounded`, and with the invariant `[]JobsAreKept` |
| `SuccessesAreWhole` | `Spec => []SuccessIsComplete` |
| `WorkflowAssets_proofs`, of the assets: `AssetsAreAQueue` | `AssetSpec => Spec`, the specification of the queue |
| `AssetInvariant`, `AssetForward` | the queue's theorems carried over |
| `WorkStands` | `AssetSpec => []SavedWorkStands` |
| `Proposals_proofs`: `TeamTypeCorrectness`, `AuthorityStands` | `TeamSpec => []TeamTypeOK`, `[]AuthorityIsBacked` |
| `ProposalsActAsUsers` | `Spec => TeamSpec` |
| `AuthorityStandsToo` | `Spec => []AuthorityIsBacked` |
| `StepsAreAppliedOnce`, `RecordsAreTrue` | `Spec => []AppliedOnceInOrder`, `[]RecordTellsTheTruth` |
| `Knowledge_proofs`: `BasesFit`, `TypeCorrectness` | `Spec => []Fits`, `[]TypeOK` |
| `SearchesSeeWholeVersions` | `Spec => []SearchableIsWhole` |
| `UploadsAreKept`, `AnswersAreIndexed` | `Spec => []DocumentsAreKept`, `[]HitsWereIndexed` |
| `LastGoodVersionStays` | `Spec => LastGoodStays` |
| `PageActions_proofs`: `HandlersStartAsAsked`, `ReceiptsAreTrue` | `Spec => []HandledAsAsked`, `[]ReceiptsTellTheTruth` |
| `Mcp_proofs`: `SwitchedOffIsQuiet` | `Spec => []DisabledServersAreQuiet` |
| `EndedStaysEnded` | `Spec => EndedDiscoveriesAreFinal` |
| `AnswersStand` | `Spec => []AnswersAreStanding` |
| `Releases_proofs`: `SkillsTypeCorrectness`, `ImportsStand` | `SkillsSpec => []SkillsTypeOK`, `[]ImportsAreAsShown` |
| `TypeCorrectness` | `Spec => []TypeOK` |
| `ReleasesStand` | `Spec => []ReleasesAreSound` |
| `RevocationHolds` | `Spec => []RevocationStands` |

*RunQueue.* A first layer of lemmas says of each row operator (`Leased`, `Requeued`, `EndedAs` …) what it leaves and what it assigns, so that no later
proof looks inside a row. `NextIsRowStep` then reduces every action to a small relation on one row (`RowStep`), and most
invariants are preserved by that relation alone. `RowInv` is the strengthening for claims: the number of leases issued
follows the number of recoveries. `EventsFenced` needs `LogInv` (no event is of a lease not yet issued), `VerdictIsFinal` and the
tool invariants need `BlankInv` (a run that does not exist has no calls), and
`GateWithinDeadline` needs that the clock counts both down together. `Transcript` is inductive with two more facts: messages
belong to runs of their conversation (`MessagesBelong`), and the question of a run in progress is the last of its conversation's
(`QuestionsAreLast`), which is where turns are needed. The refinement looks at rows through `Phase`, `Home`, `Stopping` and `Attempts`: a
lemma for each action says which step of the life cycle it is seen as, and one statement of the reaper, which moves many rows at once, is seen as
one step that takes back, or gives up, all of them.

*Conversations.* `ThreadStepIsQueues` shows that every step is a step of the queue or leaves its rows, messages and boundaries alone; the theorems of the
queue follow. The other three rest on four facts about threads: one that does not exist has no runs (`ThreadsFit`), copies are of runs of other
conversations (`CopiesFit`), a run in progress is the latest (`LatestIsActive`), and a run at work was told what its conversation still says
(`JobsAreShown`): nothing but its own reply is written there meanwhile, which is where turns are needed once more. A compaction's reply then covers what
its run was told, less its own turn, and what was told is what the summary before it did not cover, and that summary (`CompactionTells`). A summary that stays
goes on telling the same, since its author has ended and is never claimed again (`KeepsTelling`).
For sessions, the restored reading is described by positions (`Reads`): the k-th message stands behind the first `at[k]` elements, directly behind it the reply of an
interrupted run, and nothing else is there. That is shown of `FlattenSeq` by induction over the parts joined so far: the library's induction theorems
take an operator and cannot be used here, but a set that contains 0 and successors contains every number (`SetInduction`, from the well-foundedness of the naturals).
With one question and one reply for each run (`AskedOnce`, `Transcript`) it gives where the replies of a turn stand.
For branches the same positions are kept for good. `BranchesFit` says that a branch fits a parent that lives (`Fits`): the parent's first n messages stand at increasing positions
among its copies, and what stands elsewhere was put in for interrupted runs (`Aligned`); an edited one ends before a question of its parent, and each turn of its parent has
its reply behind its question (`TurnsFit`). This is inductive because no message a conversation is read with was put in by its own runs (`HistoryIsNotPutIn`), because
a parent that lives only gains messages (`HistoryGrows`: a reset starts a conversation beside it and takes nothing away), and because an edit waits until no run is
in progress, so that each turn it restores is over (`EndedTurnIsRead`). `RequestsBranchOnce` says that a request makes one branch. The property counts where `Fits` gives positions: up to
the k-th of these positions there are k inherited messages (`CountedUpTo`).

*AgentRun.* A request of a worker that is served carries the lease the row holds, so it is one the queue takes (`WorkerStepIsQueues`). For the properties of
effects every step is one of three (`StepMovesWorkers`): all calls stay where they are, a lease is handed out, or one call of one worker
advances, which is `Asks`, `Starts`, `Executes` or `Records`. `CallInv` is inductive under these: a call without a receipt was not begun and one worker at most is
in its body (`OneBody`); who is about to execute has the receipt and the latest lease (`ClaimedFirst`), because a run with
an open receipt is not requeued; an effect that returned is recorded as succeeded or still open (`ReceiptsFit`), and while it is open the latest worker knows
(`OpenIsKnown`), so it cannot come to send in an answer (`FinishesSettled`). Consent needs that a worker past its gate was let through (`ConsentFirst`),
that approvals stand, and that effects are of leases already issued (`EffectsOfIssued`), whose workers are not replaced.

*RunBudget.* The counters are sums over the requests of a run, computed by the library's fold, which takes the elements in an order of its
choice. `AnyOrder` shows that a sum does not depend on it, by induction over the sets' sizes, and `TotalChanges` what one more, one less or one other summand does; no later proof looks
into a fold. `BookInv` then says of each worker that, unless its budget has failed, what it holds reserved in its guard is at least the sum of what its requests contribute (`BookKept`): the estimate, until the call is
over and settled, then what it used. Each request contributes at least what the guard must cover (`LeastIsContributed`), hence it covers the record, however many answers are lost.
What all workers together have spent exceeds the limit by no more than single calls exceeded their estimates, because a reservation is granted against the rows (`SpendingKept`). `SlotInv` says that the line holds
everyone that waits, once, and that free slots and holders add up to the limit; nobody waits beside a free slot.

*PageActions.* An action is in one place: it waits in its row, or one party carries it (`Carries`: the console, the mail of a page, the page's next turn), or its handler runs, or it is gone. `CallMoves` lists
what a step does to a call: it rests, is claimed, passes from one carrier to the next or is dropped, starts, ends. Under these steps nobody carries what somebody else carries (`OneCarrier`), so a handler
starts once however often claims and messages are repeated. A connection stands for one page (`Addressed`), a carrier serves the connection the action was queued for and knows whether drafts are allowed (`Faithful`),
and a page looks once more before it starts the handler; that is `AsAsked`. `Truthful` says of everyone who heard of an outcome that it is so: what ended is done, what was refused is gone and nobody
carries it any more, and a row that is decided is not decided again. The theorems hold for any finite number of tabs; section 3 checks one.

*The queue of `WorkflowAssets_proofs`.* `StepMoves` shows that a step does to each job one of six things (`Keeps`, `Queues`, `Claims`, `Starts`, `Settles`, `Ends`),
the reaper included, which does them to many jobs at once. `RecordsFollowJob` is what makes `NodesFollowPath` inductive: a node that
succeeded is never written again (`FollowsStays`), so the condition that chose a path keeps its output; and it gives `OnlyForward` that a claim finds
no records. `SuccessIsComplete` needs that what has been started is one path (`OnePath`): a started node has one predecessor by one edge, of a
node's edges one is taken, so a node that is started extends the path at its end; a job succeeds with one end, which has no edges, so it is the last
and everything before it has succeeded. `LimitIsBounded` counts: active jobs and those counted but not inserted are fewer than the limit plus one for each workflow that is in between.

*WorkflowAssets.* `AssetsAreAQueue` comes from the composition: a step of the assets leaves the queue's variables alone or is its step. `SavedWorkStands`
is inductive with `AssetTypes` and three more facts: every revision lies directly over the one before it, which its author
had in view (`InFullView`), a candidate is accepted once (`AcceptedOnce`) and as it was delivered (`AcceptedAsDelivered`).

*Knowledge.* `Fits` says of each document, of each job and of each chunk, by itself, what is true of it: a failed version's job failed, every version has a job of
its own, a job that is alive is of the latest version, the chunks of a version that is or was searchable are all there, of one dimension. Most steps move one document and one
job (`OneMoves`); an upload and the reaper are treated apart. `HitsWereIndexed` needs that what a search reads was searchable as it was read,
`LastGoodStays` that a version's chunks go only when another one is active or the document is gone.

*Team and Proposals.* `AuthorityIsBacked` is preserved operation by operation. A step of `Proposals` either leaves the team as it is or is an
operation of one of its users, which gives the refinement and, with it, the same theorem again. What is applied in
order rests on where the requests stand: at most one of them works on a proposal (`Works`), and where it stands, what is recorded and what has had
its effect agree (`Fine`).

*Mcp.* `Inv` joins the tables' types, what is switched off (`Enabled`), one open discovery for each service (`OnePerServer`), what a discovery that succeeded has
found (`Found`) and what the worker is busy with (`Employed`). `AnswersAreStanding` needs besides it the shape of calls (`Shapes`), that imported
tools rest on discoveries (`ToolsRestOnDiscovery`) and how far a call got by what it has seen (`Reached`).

*Skills and Releases.* `ImportsAreAsShown` is inductive with the types: a confirmation takes an import without a result, whose base is the
number of versions there are; versions are only added, so what was confirmed stays. `ReleasesAreSound` needs what the holder of the agent's row has read to be true still when it inserts (`HolderStands`): nobody
else inserts meanwhile, so the newest release it was compared with is the newest one, and drafts only grow. For `RevocationStands`, `CallsFit` ties where a call stands to what it has
been answered with, `OneAtATime` says that one call is past its turn, and a switch that goes off takes nothing back: `before` and `after` only become true
(`Safe` joins these with the types and with versions that exist).

**Only model-checked.** Liveness under fairness and ENABLED are out of the prover's reach: `EveryRunEnds`, `GatesSettle`, `CancelReachesWorker`,
`RevocationReachesRuns` and `EveryJobEnds`. Every invariant and every
action property of a passing run is stated by a theorem.

## 5. Where the code and its comments disagree

* `agent_wait`: the approval request moves the run's deadline so that the wait is not reported as a timeout
  (`task-execution.ts:260-263`), but the worker's timer still runs to the deadline of its claim (`worker.ts:50`).
* `auto_compaction`: a turn that finds the window filled is said to summarise first and then to answer normally (`conversations.ts:474-476`). Its run
  is a compaction like any other: it has no tools, is not shown its own question, replies with the summary, and the
  boundary behind that reply hides the question from later turns.

Met while modelling and not run. The statements exist as definitions, and a
reader can put each as an invariant into the named configuration:

* `RunQueue!NoVerdictAfterEnd` (`MCStopping.cfg`, of the queue's part): a gate that outlived its run can still be decided, although `queue.ts:374-376` says
  that it never can: the reaper closes gates in a later statement than the run, a cancel of a run waiting to be claimed
  again closes none, and `decideApproval` does not look at the run.
* `AgentRun!ObservationEndsNoRun` (`MCAgentRunTools.cfg`, with `Chunks` of 1 for every lease and mode): an observation that cannot be delivered is swallowed where it was sent, but it leaves
  the shared delivery chain rejected, and the next chunk fails the run.
* `AgentRun!KeepsItsMode` (`MCAgentRunTools.cfg`): the write-tool mode is read at every claim; a recovered run goes on under a changed mode.
* `Proposals!FailedMeansNotApplied` (`MCProposals.cfg`): a step is recorded as failed although it took effect, when the operation committed and its user may no
  longer read what it wrote; `docs/research/platform-assistant-taskdesk-2026-09-13.md:27` says otherwise.
* `Conversations!NewConversationsAreBlank` (`MCConversations.cfg`): a branch without turns of its own is handed out as a new, unused conversation, with its parent's messages (`conversations.ts:140-150`).

And without a definition: a lease that lapses between the reaper's first and second statement fails a run that would have been recovered; the compaction
of an overflow may overflow itself and queue another; a stream that is cancelled settles on a path of its own, where a settlement that fails is not
noted as a failure of the budget (`runtime/src/agents/budget.ts:94-97`); `docs/development/m2.md:9`
promises that the same content is stored once, but only latest versions are compared: while the update of a document is
waiting or has failed, its active content can be uploaded as a second document and is then found twice (`OneDocumentPerContent` says what the code keeps).
`context_through` is written with a compaction's reply and read nowhere.
`docs/development/skills.md:39` says that script calls at once end a run with `SKILL_CALL_LIMIT`; the code lets up to sixteen
of them wait for one another (`runtime/src/skills/script-queue.ts`). The comment at `runtime/src/skills/skills.ts:239`, that a revocation never
turns into a successful output, holds for a package that stays off: one that is on again by the last check is used. A permission to publish that
is taken away while the request waits for the agent's row is not looked at again (`agents.ts:210-220`), and validation and snapshot of a
release read its resources at different instants, so one that is switched off in between may be in a release; each run asks again before it uses it.

## 6. What is not modelled, and the road from here

The modules cover the parts whose state is shared by several actors. What is left, in the order of weight:

1. The workflow worker and the knowledge worker over the network. `WorkflowQueue` and `Knowledge` accept their requests in any order at any
   time, so nothing is missed for the platform's own invariants; what a worker believes is.
2. Task state, feedback and artifacts of a run (`task-execution.ts`): compare-and-set on a revision and idempotent inserts, each under the
   conversation's lock.
3. `assistant/ui.ts`, the predecessor of page actions over a fixed set of pages: the same protocol as `PageActions`, one party fewer.
4. Sessions and their revocation with a role, runtimes that drain, the assistant's start and configuration.
5. Of packages: reading archives and repositories, the sandbox's limits and cleanup. Of releases: their models, tools, workflows and
   knowledge bases, which are checked and frozen like skills but have no grants; applications that run them.
6. Pure functions against a reference: `validateWorkflow`'s recursive visit against `ValidDefinition`, evaluation of conditions and bindings, trimming of long tool results.

**Why most lines are not covered.** More than half of the repository's lines are the console's React
components, the generated SDK and tests of rendering: they keep no state that another part relies on, apart from the page
protocol, which is modelled. Of the control plane and the runtime, much is schemas, queries that list, formats
(document parsing, archives, SSE), prompts, vector arithmetic, network probes, containers and logging: out of a model checker's
reach, or nothing but data. Row locks and statement snapshots below the level of a
transaction are not modelled, except where a count or a check is not covered by its lock.
