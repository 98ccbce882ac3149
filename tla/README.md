# A TLA+ verification of e-Agent-OS

e-Agent-OS runs "digital employees": AI agents that take tasks over HTTP, plan them, act and
reflect, under governance (approval, permissions, quotas), central configuration and operations
dashboards. It is a set of FastAPI services in Python (`apps/*`), a Node sidecar that hosts the
agent sessions (`apps/runtime/sidecar`), a shared library (`common/`) and a Vue front end.

This directory models the parts with state and concurrency worth reasoning about, model-checks
them with TLC and proves their central properties with TLAPS. `PROJECT.json` lists components,
runs, mutants, the map from definitions to source lines, findings, hazards and theorems.

## Inventory

| Part | State | Operations | What is hard |
|---|---|---|---|
| Gateway `apps/gateway` | the rate counter; connections | dispatch, callback (a stub) | answers "queued" when the runtime could not be reached; a request that arrives after its timeout; connections cut between two containers |
| Runtime handlers `apps/runtime/main.py` | task rows, one executor per employee | execute, plan, status, cancel, background `_execute_task`, start and shutdown | coroutines interleave at every await; cancel races with the run; crash between two row updates; a timeout over everything |
| `TaskStore` `apps/runtime/task_store.py` | a SQLite table | create (INSERT OR REPLACE), update (a silent no-op without a row), clear | an id submitted twice; outcomes dropped when the row is gone |
| `RuntimeExecutor` `apps/runtime/executor.py` | state, agent, step results, result: shared by all requests of an employee | start, plan, execute a step with retries, reflect, complete, fail, escalate | everything shared across awaits; retries nested in retries |
| PiAgent client `apps/runtime/piagent_client.py`, connector hub | OpenClaw processes, pool threads | invoke, invoke_async | two timers over one call; processes that outlive their caller |
| Node sidecar `apps/runtime/sidecar/src` | an LRU pool of sessions | chat, getOrCreate, evict | two requests create the same session across an await; the bound of the pool |
| Model hub `apps/model_hub` | available models, usage per day | chat with fallback, register_provider, usage | an attempt given up here goes on there; days and months |
| Approval engine `apps/governance/approval` | workflows, requests with step statuses, decisions, deadlines | register, submit, decide, check timeouts | several approvers in any order; workflows redefined under open requests; deadlines racing decisions |
| RBAC, ABAC `apps/governance` | roles, policies | assign, revoke, create policy, check | the check runs in a thread before the handler it guards; order among policies |
| Tenants `apps/governance/tenant.py` | status, quota, usage | create, patch, count, reset | counters at a limit that moves, is 0, -1 or None |
| Configuration centre `apps/config_center` | items, version history, audit trail, subscribers, background pushes | create, update, publish, delete, roll back, subscribe, pull, push | late pushes; partial delivery; a push that blocks the loop its subscriber calls |
| Ops: onboarding `apps/ops/routers` | blueprint rows, agent directories, `openclaw.json` | deploy, split traffic, deprecate, edit, delete, reset | read-modify-write by several threads; row, directory and file are three writes, each of which may fail |
| Ops: executions `apps/ops/db` | executions, dashboard figures, the chart of days | execute, record | midnight during a transaction; SQLite's lock |
| Knowledge hub `apps/knowledge_hub` | documents and BM25 postings | upsert, batch, delete, search | postings of replaced documents |
| Conversation memory, alert rules, skill hub | see *Not modelled* | | |
| `common/`, `frontend/` | none of interest | | |

The services interact over HTTP: gateway → runtime → (model hub → sidecar, OpenClaw); the
configuration centre calls its subscribers; governance is asked by the others.

### What makes each part correct

* Gateway and runtime: a record is open only while somebody works on it; a closed record nobody
  works on keeps its status; a dispatch that fell with the runtime has no effect; every dispatch is
  answered; what is stored for a task is about work for its employee; a step costs a bounded number
  of agent calls; every record settles.
* Agent calls: a task never has more than two processes with time left to run, each is gone two
  timeouts after it was asked for, and all callers and threads are free in the end.
* Model hub: the pool keeps its bound; a chat prompts one agent at a time; what is counted is what
  was answered; every chat ends.
* Approval: one open step; an approval is earned by as many approvals *of that step* as it asks
  for, never by silence; no level is skipped; a request can be decided.
* Access control: roles are granted by administrators, and administrators come from administrators;
  an assignment is not overwritten; a denial of higher priority wins; a new policy yields to those
  of its priority.
* Tenants: no call is counted past the quota; a suspended or deleted tenant is not served again.
* Configuration: a version number stands for one value; item, history and audit trail tell one
  story; whatever a subscriber learns, however late, is in the history; a push cannot wedge the
  service.
* Ops: a row has its agent directory; requests that do not overlap leave row, directory and files
  in agreement; a directory without a row was left by a failure and not by an overlap; only a writer
  that did not see a deprecation undoes it; figures, journal and chart agree.
* Knowledge hub: search is exact for terms without stale postings, and stale postings come only
  from overwritten texts.

## Modules

| Module | Models |
|---|---|
| `TaskLifecycle` | what the task API promises: the status of a record and the requests working on it; the executor is hidden |
| `Runtime` | the runtime service: rows and results, the shared executors, and every request with its place in Plan–Act–Reflect; implements `TaskLifecycle` |
| `Gateway` | the gateway and its connections, composed with `TaskLifecycle` |
| `AgentCalls` | OpenClaw processes of the runtime and of the CLI connector, pool threads and timers |
| `ModelHub` | chats, routing and usage of the hub, composed with the sidecar's handlers and pool |
| `Approval` | the approval engine |
| `AccessControl` | roles, policies and permission checks |
| `Tenancy` | tenants, quotas, usage |
| `ConfigCenter` | the configuration centre with background tasks, pushes and subscribers |
| `Onboarding` | blueprints, agent directories and the registry file |
| `Executions` | recorded executions and the dashboard's figures |
| `KnowledgeHub` | documents, index and search |
| `MC*` | small instances for TLC |
| `GatewayProofs` | theorems about `TaskLifecycle` and `Gateway` |
| `RuntimeProofs` | theorems about `Runtime` and `AgentCalls` |
| `ApprovalProofs`, `ConfigCenterProofs` | theorems about `Approval` and about `ConfigCenter` |
| `GovernanceProofs` | theorems about `AccessControl` and `Tenancy` |
| `OpsProofs` | theorems about `Onboarding` and `Executions` |
| `HubProofs` | theorems about `KnowledgeHub` and `ModelHub` |
| `SumTheorems` | lemmas about sums over finite sets, and the induction they rest on |

### TaskLifecycle and Runtime

`status[t]` and `result[t]` are the columns of task t's row. A *job* is one accepted
`POST /runtime/execute` with its background task, or one `POST /runtime/plan`; a task id may be
used by several jobs, since the client may choose it. `exec[e]` is the executor in the module-level
dictionary `executors`; `run[j]` holds the locals of job j's `run` coroutine and `pc[j]` the await
it is suspended at: `plan` (generate_plan), `act` (execute_step), `reflect`. One action is the code
from one await to the next. An agent call ends in one of the ways the code tells apart: an answer,
nothing or garbage, an exception, a timeout. `Runtime` instantiates `TaskLifecycle`
(`Lifecycle == INSTANCE ... WITH phase <- PhaseOf(pc)`), uses its row operators and implements it.

`Die` is the path where `RuntimeExecutor.__init__` raises for a blank employee id: the row is
already "running" and the creation is outside the try block. `TimeOut` is `asyncio.wait_for` in
`_execute_task`, which may fire at any await. `Crash` kills the process and keeps the SQLite rows;
`Shutdown` is the lifespan's end, after uvicorn has drained its requests, with `TaskStore.clear()`.

Left out because nothing reaches it: `RuntimeExecutor.cancel` and `TaskStore.delete_task` have no
caller; the `except Exception` of `_execute_task` is dead because `run` catches everything. The
service passes no `retry_config`, so in production `MaxRetries` is 3 and the escalation branch of
`run`, which needs `max_retries` 0, is never taken; both are constants of the model, and the proofs
hold for all their values.

### Gateway

`call[j]` is the gateway's handler, `wire[j]` its connection to the runtime, `promised[j]` the task
id it made up. Requests reach `TaskLifecycle` through the gateway (`Accept`) or directly
(`Direct`); a client can name the id of another's task only once he has been told it (`Secret`).
The two services run in containers of their own (`docker-compose.yml`, `k8s/deployment.yaml`). An
unreachable or refusing runtime and a timeout are caught and answered "queued", and after a timeout
the runtime may still find the request in its socket. A connection that is lost is not caught and
answered 500; there are two ways to lose it. When the runtime's process ends (`RuntimeCrash`,
`RuntimeShutdown`), nothing of the request has run or ever will, because FastAPI starts background
tasks after the response (`Responded`): that is `CrashIsSafeToRepeat`. When it is cut on the way
(`ConnectionCut`, remembered in `cut`), the runtime goes on with the task, or may still take it, and
repeating the request runs it twice. The client sees the same 500, so the code promises him nothing
about it.

### AgentCalls

`queue` holds the calls that wait for a thread of the event loop's pool, `procs` the live
processes. The executor's `wait_for` and the client's own timeout have the same length and start at
different moments. When the former ends first, a queued call is cancelled and a running one goes on
with nobody to answer, beside the retry. Time passes in ticks, and everything that is due happens
before the next: the loop and the threads are assumed to serve a timer within a tick. In which order
what is due in one tick happens is left open, so a third call may begin in the instant in which the
process of the first is about to be killed; `AtMostTwoProcesses` counts only processes whose time is
not over. The connector hub ends the wait for its process and not the process, which may live for
ever; it holds no thread of the pool.

### ModelHub

The hub's handler runs without a break from one POST to the next; `work[<<c, k>>]` is the sidecar's
handler of the k-th attempt of chat c, which goes on when the hub has given it up. The hub reaches
the sidecar at 127.0.0.1 (`main.py:40`), so a connection is lost only with the sidecar's process.
`pool` is the map of sessions, least recently used first, each at most once. Each attempt sends the
model without its provider, and the sidecar derives the provider from it (`Asked`). Dates have a
month and a day, because the report computes its days within the current month.

### Approval

`workflows[w]` is the registered definition, `requests[r]` the request with its current step, step
statuses, decisions and deadline. Each handler runs to its end without an await and is one action;
`CheckTimeouts` handles all due requests at once, as `check_timeouts` does. The clock is abstracted
to "the deadline has passed" (`DeadlinePasses`). Conditions have integer values. `stable[r]` is a
history variable: r's workflow has not been redefined since r was submitted. Approver ids in
decisions are not compared with the approvers of the step, because the engine does not compare them.

### AccessControl and Tenancy

`calls[u]` is a call to `/roles/assign` between `require_admin`, which FastAPI runs in a thread, and
its handler, so a role can be revoked in between. The table starts empty, as the service starts it,
or seeded by an operator's script, as the end-to-end tests do. Policies are kept in the order of
their insertion; `Foremost` picks what the stable sort of `list_policies` puts first among those
that apply. `seed` and `admins` are history variables. In `Tenancy`, `allowed[t]` remembers the
largest quota since the last reset, which is what a counter can be compared with when quotas move.

### ConfigCenter

`items`, `versions`, `changes`, `namespaces`, `subs` are the dictionaries of `store.py`; the audit
trail is kept per key and oldest first (the code keeps one list, newest first). `tasks` are
background tasks that FastAPI runs after the response; each carries the item as it was. `pushing`,
`todo`, `pulling` describe `push_sync`, which waits for its pool thread on the event loop's own
thread: while `pushing # NoJob` no handler runs. Subscribers are external; `views[s][k]` is what
service s was last told of key k, by a push or by its own `GET`. A call may succeed, fail without
effect, fail although the subscriber has taken the item, or call back into the blocked service and
time out. Descriptions, tags, authors, comments and times are left out; 404 answers change nothing.

### Onboarding and Executions

The ops handlers are plain functions in threads. `jobs[t]`, in `Executions` `runs[t]`, is what
thread t has read and has yet to write; each action is one database transaction or one file
operation. Each step may fail: `register_agent` on a file (`RegisterFails`), a deployment on a body
without `maxReplicas`, on the files copied into the new directory or on a locked database
(`DeployFails`), a first write on a locked database (`Locked`), the writing or removing of files
half-way (`WriteFails`, `RemoveFails`). What was done before stays. A put may carry an id in its
body, which replaces that of the path for the files only. `trouble` records per id whether two
requests overlapped, whether it was deployed twice, whether the service stopped or a request failed
after its first write, and whether a put wrote files for another id or for a deleted row; so the
agreement of row, directory and list can be stated where it holds, and a directory that leaked can
be blamed on something. In `Executions`, `Record` is the one transaction that writes an execution,
the figures and the chart; the day of an execution is taken before it, `Midnight` may pass in
between, and `LockTimesOut` is SQLite's five seconds, which any transaction of any router may use
up: several results that wait may all be lost, and so may a single one.

### KnowledgeHub

`docs`, `counts` and `index` are the three dictionaries of the store. Upserting writes the postings
of the new text and removes none of the old one; `forgotten` records which postings that leaves
behind. Queries have one term, for which sign and order of the BM25 scores are decided in
integers (`PositiveIdf`, `ScoresAbove`); batches have two documents; ties are left open.

## Runs

| Run | Instance | Shows |
|---|---|---|
| `gateway` | 2 ids, 3 requests, rate limit 2 | the promises of the task API through id reuse, cancel, crash, shutdown, cut connections; a dispatch that fell with the runtime is safe to repeat; every dispatch is answered |
| `runtime` | 2 requests, 2 ids, 3 employees (1 blank), plans of up to 2 steps, 1 retry | `Runtime` implements `TaskLifecycle`; every record settles; results stay with their employee; the call budget; plan order of interleaved step results |
| `approval_safety` | 1 request, 2 people, 4 decisions, 3 definitions | five invariants of a request, `NoLevelSkipped` among them |
| `config_center` | 1 seeded and 1 free key, 1 service, 2 waiting tasks | version numbers stand for one value; history, audit trail and pushes agree; the loop is freed |
| `access_control` | 2 users, 1 tenant, 4 seed tables, 2 policy ids, 4 bodies, 24 checks | every role granted by an administrator of then or before, no overwritten role, no overruled denial, new policies yield |
| `tenancy` | 2 tenants, limits -1, 0, 2 and None, 3 counted calls | calls stay within the largest quota; inactive is for good |
| `onboarding` | 2 threads, 4 requests, a seeded row and the deployments of one second, any step failing, puts for another id | rows, directories and files agree, or why they do not |
| `executions` | 2 threads, 3 executions, 3 days, 2 days kept | figures, journal and chart agree |
| `agent_calls` | 1 task of 6 calls, 3 plan requests, 1 connector call, 3 threads | bounds on processes; callers and threads come to rest |
| `model_hub` | 2 chats of 3 kinds, 1 session in the pool, 2 months of 3 days, 1 stop | the pool, one agent at a time, the report, every chat ends |
| `knowledge` | 3 ids, 5 texts over 2 terms | stale postings, exact search, fair cut |
| `foreign_answer` | 2 requests of one employee | *violated*: see below |

Each property of a passing run has a mutant in `PROJECT.json`: an operator, defined before the one
it replaces, that changes the code the way a plausible bug would, and breaks the property.

### Bounds and why they are enough

* Two requests are enough for every pairwise interleaving on a shared executor; three for an id
  submitted again under two others. Two steps give "a step before and a step after"; one retry
  gives both `execute_step` calls of `run` (2·1+1 agent calls). A rate limit of 2 with three
  requests has one refused. The proofs remove these bounds.
* Four decisions of two people cover two levels of two approvals, a repeated decision and one that
  comes too late. The definitions are chosen for their shape: levels that share an order, levels
  out of order in the list, an escalation to a missing and to an existing step, a disabled one.
* The changes of a key allow create, publish, update and rollback with a task still waiting; two
  waiting tasks give pushes out of order. One service is enough because subscribers never interact;
  the proof is for any number.
* Access control: two users can each wait with a call and revoke each other; the bodies stand
  below, at and above the priority of the built-in denial. Tenancy: each of the special limits, and
  a limit below the counter.
* Onboarding: two threads give every overlap of two requests, and as two deployments in one second
  share an id (ids are made from the second), one second gives an id that is taken once or twice, a
  seeded row beside it, and a put for either that writes the other's files. Four requests let a
  deployment, two edits and a deletion follow each other. Executions: three on three days, with two
  kept, give a day that grows, a day that is trimmed and a record written on the day after its time
  stamp.
* AgentCalls: three threads with one task, its abandoned process and three planners make calls
  queue until just before their timeout. A reflection that times out is followed by the next call
  without a pause, so it takes six calls (a plan, a step, a reflection, a step, a reflection, a
  step) for the delays of a queue to add up as far as they can; TaskTimeout 5 lets calls end with
  and without the outer timeout.
* ModelHub: a pool of one makes every second session evict; two months of three days and a report
  of two have days that are in it, days that are out of it, and the boundary of the month.
* KnowledgeHub: three documents are the fewest where a cut at k = 2 leaves one out and where a stale
  posting makes df exceed N; texts with counts 0, 1 and 2 tell stale postings and lengths apart.
* Symmetry is used only in runs without liveness properties.

Deadlock is checked except where a bounded counter or the clock of the instance runs out and
nothing is left to do (`access_control`, `onboarding`, `executions`, `model_hub`).

### Fairness

* `Runtime!FairSpec`: weak fairness of each running request's next step. asyncio serves every
  coroutine whose await is over, and `asyncio.wait_for(..., RUNTIME_TIMEOUT)` ends the awaits on
  agents. No fairness is assumed of clients, cancellation, crash or shutdown. `RecordsSettle`
  excepts records whose process or coroutine died: nothing in the code ever looks at those again.
* `Gateway!FairSpec`: weak fairness of the HTTP client's timeout, nothing else.
* `AgentCalls!FairCalls`: weak fairness of the clock, of timers, of a free thread taking a
  call. No command is assumed to end by itself; those of the runtime are killed by their timer.
* `ModelHub!FairHub`: each attempt of a waiting chat ends: answered, refused or by its timeout.
* `ConfigCenter!FairSpec`: weak fairness of the steps of a push, because httpx's 5-second timeout
  ends each call (a peer that keeps sending bytes could stretch it, which is left out), and strong
  fairness of each background task, because the event loop takes ready callbacks in turn.
* `Approval` assumes none: `check_timeouts` is an HTTP endpoint that nothing schedules. Nor do
  `AccessControl`, `Tenancy`, `Onboarding`, `Executions` and `KnowledgeHub`, whose clients may stop at
  any time.

## Proofs

The theorems hold for every value of the constants, under the named assumptions on them: the "none"
values are not members of the sets they complement, bounds and timeouts are natural numbers, seeded
roles are by the operator, priorities are integers. Three assumptions say more. A text of the
knowledge hub has finitely many different terms and there are finitely many ids
(`KnowledgeAssumption`). The chart of `Executions` is seeded with days in their order, before the
first day of the model and no more than are kept, which is what `_seed.py:49` writes
(`SeedAssumption`), and the ops service has finitely many threads (`ExecutionsAssumption`).

Every invariant and every action property of a passing run is stated by a theorem. Along which
argument, module by module:

* **GatewayProofs.** `LifecycleInv` adds to the properties of `TaskLifecycle` that a request has a
  task iff it has been made and that a planned record has its planning request; without the second,
  cancelling a planned record would lose `OpenRecordHasRequest`. `GatewayInv` relates each
  connection to the phase of its request (`ConnectionMatchesRequest`) and to its call
  (`ConnectionMatchesCall`): a request that was taken and not answered has not been started, and it
  ends with the process whose connection broke; a call that ended in an error has closed its
  connection unless it was cut. Without these `CrashIsSafeToRepeat` is not inductive. Every step of
  the composition is a step of `TaskLifecycle` or a stutter, so the lifecycle's theorems hold behind
  the gateway.
* **RuntimeProofs, `Runtime`.** `ResultsStayWithEmployee` is not inductive: the result comes from
  an executor that other requests write to. `RuntimeInv` adds that everything in an employee's
  executor is about that employee's requests and that a verdict has left a result
  (`ExecutorsOwned`), that a running request works on a started executor, and where a request is
  within its plan, pass and attempt (`RunPosition`), which bounds the calls. For `StepsInPlanOrder`
  the entries of a request have to fit its position, too (`EntriesFit`): none before its first
  step, then some of every earlier step and none of a later one, and at most one of its own step
  until the second pass ends, whatever others append in between.
  `RuntimeImplementsLifecycle` proves the whole refinement.
* **RuntimeProofs, `AgentCalls`.** `CallsInv` dates the processes: each was started within a timeout
  of its call (`ProcessFits`), and of two processes of a caller the earlier was asked for a timeout
  before the later, because only a timeout leaves a process behind (`Spaced`). Three of them would
  be two timeouts apart, and by then the first is killed. That needs the queue: a queued call is
  waited for, is there once and has no process yet (`QueueFits`).
* **ApprovalProofs.** `RequestInv` collects what one request satisfies; most lemmas follow one
  request through starting, recording, completing and closing a step. The counting theorem needs
  that recording a decision adds exactly one vote to exactly one step (`RecordVotes`).
  `NoLevelSkipped` needs `ClimbInv`, because escalation leaves a step without approval and may go
  down: above every approved step of a pending request there is one that is current or was left by
  escalation, and an order passed over lies above such a step as well.
* **GovernanceProofs.** `AccessInv` adds that everyone with ADMIN, and everyone whose call has
  passed its check, is in the history of administrators (`AdminsAreRemembered`): without the second
  half a waiting call could make an administrator from nothing. What a role grants stays opaque. The
  two theorems on policies rest on `AppendedYields`, about the first of a stable order. For
  `Tenancy`, `QuotaIsRemembered`: the current quota never exceeds the remembered one, so a call
  within the former is within the latter.
* **ConfigCenterProofs.** That an update's version number is new needs the item to have the highest
  number in its history, and that the audit trail chains needs its last entry to leave the item's
  value: `KeyOK` says both, and that trail and history tell the same story (`Tells`). Two lemmas on
  `Append` carry the argument for every function of the store, and pushes are covered because the
  history only grows.
* **OpsProofs, `Onboarding`.** `OnboardingInv` says of every request under way which of its writes
  are done and what it may have read meanwhile: between the steps of a request that is alone on its
  id, row and files are as it left them (`Alone`); where an id was taken once, its deployment comes
  before every other request on it and its row has a directory (`TakenOnce`); a directory without a
  row has a request that will insert the row or remove the directory, or a trouble that explains it
  (`Held`), which gives `LeaksAreExplained`; and no request adds or removes a version, nor does an
  update lift a deprecation that it has read (`VersionsFit`).
* **OpsProofs, `Executions`.** `ExecutionsInv` adds that the chart is never empty, so that a
  recording finds an entry to extend, and that each execution has the day it was recorded on; the
  theorem on figures follows the one transaction that writes all three.
* **HubProofs, `KnowledgeHub`.** `KnowledgeInv`: the counts are those of the documents and every
  posting is accounted for. That search is exact then needs only that a term is in at most as many
  documents as there are. That the cut is fair needs the length of the texts, a sum, to be at least
  as large as the length of each.
* **HubProofs, `ModelHub`.** `HubInv`: the pool is a sequence without repetition within its bound,
  and answers are finitely many. The pool keeps its bound because eviction and insertion are one
  step after the await, whatever filled it before (`InsertIsSound`); a count and its sum grow
  together (`SumIncrement`). `AttemptsInv` adds to `OneAgentAtATime` that no chat has an attempt
  beyond the entry it is at, so that the next one is new, and the one before it has just ended. The
  report is arithmetic on days.
* **SumTheorems.** The sums are `SumFunctionOnSet`, a fold whose definition is a CHOOSE of a
  function over sets. The module proves that it exists and unfolds by one element, and that the
  element may be any. The library's induction theorems cannot be used by the provers at hand, as
  they take an operator; `NatSetInduction` and `FiniteSetInduction` say the same of a set instead of
  a predicate and follow from the well-foundedness of the natural numbers.

The type invariants that are not part of a run are proved as well, with one exception:
`HubTypeOK`, as the chain of a chat is built with `SelectSeq`, of which the provers know nothing.
`HubInv` keeps what is needed of chats without it; name `HubTypeOK` in `MCModelHub.cfg` to check it.

Only model-checked: liveness (`DispatchesAreAnswered`, `RecordsSettle`, `LoopIsFreed`, `Quiesces`,
`ChatsEnd`), which needs fairness and ENABLED and is out of the prover's reach.

## Where code and documents disagree

`foreign_answer` is a run of its own: `AnswerIsOwn` fails, because the answer of a run is the last
entry of step results that all tasks of the employee share.

The modules state more such claims, each with a comment, that TLC refutes when it is named in the
cfg of its module's run:

| Statement | The code |
|---|---|
| `Runtime!CancelStopsTask` | `main.py:254` only writes the row; the run goes on and its report overwrites "cancelled" (`specs/runtime-spec.md:531`) |
| `Runtime!ExhaustedRetriesEscalate` | a step that failed all its attempts leaves a "completed" record, `main.py:139` (`runtime-spec.md:407`, `:419`) |
| `Runtime!AgentFitsTask` | planning another task switches the agent under a run in progress, `executor.py:268` (comment at `:204`); needs an instance with two `Agents` |
| `Runtime!StatusIsReadable` | a planned row, and any row with a result, makes `GET status` fail, `main.py:235` (`runtime-spec.md:193`) |
| `Gateway!QueuedIsKnown` | `main.py:138`: an unreachable or refusing runtime is answered "queued" |
| `Approval!AndNeedsAllApprovers` | one approver who decides twice completes a two-approver step, `engine.py:273` (`models.py:16`) |
| `Approval!EscalationStartsStep` | escalation starts a step no workflow defines, `engine.py:362` (docstring at `:360`) |
| `Tenancy!QuotasAreNumbers` | a patch of one quota field sets the others to None (`tenant.py:56` declares int), after which `check_quota` raises |
| `Onboarding!DeletedIsUnlisted` | a deletion misses an id that was normalised when it was registered (`openclaw_registry.py:157`), or writes `openclaw.json` back with an entry that another one removed (`:178`); name `Rewritten = {1}` in the cfg |
| `Executions!ChartIsExact` | `_executions.py:131` adds the day's whole count after every execution: n executions show as 1+2+…+n (comment at `:108`) |
| `ModelHub!ProviderIsAsked` | `main.py:113` passes the model without its provider, so every attempt asks minimax-cn (`piagent.py:41`, `router.py:15`) |
| `KnowledgeHub!MatchesAreFound` | overwriting keeps old postings, `vector_store.py:78`; df can exceed N, idf turns negative and documents are not found |

Others seen while modelling, most of them also as a TLC trace:

* Runtime. `runtime-spec.md:406` allows at most `max_retries` retries; `executor.py:573` calls
  `execute_step` again with `max_retries - 1` more; `CallBudget` states what holds. `executor.py:472`:
  reflect subtracts the step results of *all* runs of the employee, so a run with steps left ends
  early when the agent gives no decision. `task_store.py:3` says that task state survives restarts;
  the lifespan clears it on shutdown.
* Agent calls. An answer whose JSON says `status: error` counts as success; which of two equal
  timers fires first decides whether a step is executed again after its reflection; a connector's
  outer timeout is a 200 with an error, its inner one a 500.
* Model hub. `ModelTimeoutError` is no `ModelProviderError`: a timeout does not fall back
  (`ARCHITECTURE.md:175`) and is a 500. Tokens are not read, so usage stays 0. At the start of a
  month the report repeats day 1 and never sees the month before (`usage.py:49`). A pooled session
  keeps its first model while the answer names the requested one. The first registered provider
  makes all others unavailable. The operations centre's "shared" tracker is a fresh one.
* Approval. `models.py:76`: a step's conditions decide whether it is used; `_complete_step` picks
  the next step by order alone. `docs/runbook.md:185`: a stuck request can be decided by hand; not
  after a redefinition that removed its step. The "dual" deletion approval (`engine.py:64`) lists
  one approver.
* Access control. `POST /policies` stores the policy, then fails in its log call (`abac.py:83`): the
  client sees 500, and 409 when it retries. The role table starts empty, so nobody can be assigned a
  role through the interface. `abac.py:39` says that platform administrators should have full
  access; without a policy that applies ABAC denies them. Unknown actions are checked as READ.
* Configuration. `main.py:141`: "creates new draft version"; an update of a published item stays
  published, with a value nobody published. `main.py:110`: creating a key that exists answers 409
  after it has overwritten the item. A `PUT` without a value sets it to null.
* Ops. A put of any field but soul overwrites the deployed SOUL.md with the default text; a put
  after a delete recreates the directory; `update_traffic` gives traffic to a deprecated version;
  `remove_agent` misses ids that were normalised (`openclaw_registry.py:157`); the seeded
  av-admin-001 has capacity 6 used for replicas that sum to 5; the journal's role and department
  filters never match; an execution stamped before midnight and recorded after is in no day of the
  chart.

## Not modelled, and what could come next

* Conversation memory (`memory.py`): created by the service and called by no handler. An LRU with a
  token budget; the bound would be the property.
* Alert rules of the operations centre: worth a module next; a rule whose condition ended keeps its
  alert for ever.
* Skill hub: a status machine of single steps.
* The sidecar's socket protocol and its Python client: no service calls `start`.
* API keys, the remaining routers, seed data, `common/`, the front end: queries, single statements,
  data classes, rendering.

Hazards without a property are kept in `PROJECT.json` with their reason: `executor.py:472` (the
stale length above, whose effect `Runtime` includes), `executor.py:122` (a client that vanishes
between its test and its use, which fails like a missing command), `cli.py:104` (a connector's
process that nothing ends), `config_center/push.py:62` (a push that reaches some subscribers only)
and `config_center/main.py:166` (two publications of a key whose tasks run in either order). The
code promises nothing about these.
