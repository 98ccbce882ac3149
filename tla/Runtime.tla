------------------------------ MODULE Runtime ------------------------------
(***************************************************************************)
(* The runtime service: apps/runtime/main.py with its TaskStore, and the   *)
(* RuntimeExecutor of apps/runtime/executor.py.                            *)
(*                                                                         *)
(* Every request runs on one asyncio event loop, so a step of the model is *)
(* the code between two awaits.  executors[employee_id] is ONE object per  *)
(* employee: all requests of an employee interleave on its fields.  The    *)
(* agent backend (PiAgent, sidecar or ModelHub) is external: each call     *)
(* may answer, answer nothing, answer garbage, time out or raise.          *)
(*                                                                         *)
(* RuntimeExecutor.cancel is left out: nothing in the service calls it, so *)
(* the CANCELLED test in run never succeeds.                               *)
(***************************************************************************)
EXTENDS Integers, Sequences, FiniteSets

CONSTANTS
    Tasks, Jobs, NoTask,   \* as in TaskLifecycle
    Employees,             \* employee ids of requests
    Blank,                 \* those of them RuntimeExecutor refuses: "" or spaces
    Agents,                \* PiAgent roles: chat, deep-work, super-work
    DefaultAgent,          \* AGENT_FOR_SIMPLE
    NoEmployee, NoJob,
    MaxSteps,              \* bound: steps of a plan
    MaxRetries,            \* retry_config["max_retries"]
    EnableEscalation       \* retry_config["enable_escalation"]

ASSUME RuntimeAssumption ==
    /\ NoTask \notin Tasks
    /\ NoJob \notin Jobs
    /\ NoEmployee \notin Employees
    /\ Blank \subseteq Employees
    /\ DefaultAgent \in Agents
    /\ MaxSteps \in Nat
    /\ MaxRetries \in Nat
    /\ EnableEscalation \in BOOLEAN

VARIABLES
    status,   \* status[t]: status of task t's row in the TaskStore
    result,   \* result[t]: its "result" column
    exec,     \* exec[e]: executors[e]
    pc,       \* pc[j]: where request j waits
    taskOf,   \* taskOf[j]: its task_id
    run       \* run[j]: its employee and the locals of its run coroutine

store == <<status, result>>
vars  == <<status, result, exec, pc, taskOf, run>>

Running == {"plan", "act", "reflect"}

PC == {"unused", "planning", "planned", "refused", "queued", "ended", "lost"}
      \cup Running

\* The lifecycle phase a program counter stands for.
PhaseOf(c) == IF c \in Running THEN "running" ELSE c

Lifecycle == INSTANCE TaskLifecycle WITH phase <- [j \in Jobs |-> PhaseOf(pc[j])]

\* A TaskResult, by what it says and which request's work it says it about.
\* "none" is Python's None; "planError" and "stepError" are both fail(),
\* told apart by what failed.
Result == [kind : {"none", "answer", "planError", "stepError", "escalated",
                   "timeout"},
           by : Jobs \cup {NoJob}]
NoResult == [kind |-> "none", by |-> NoJob]

StepResult == [job : Jobs, step : 1..MaxSteps]

Executor == [state : {"absent", "idle", "running", "completed", "failed",
                      "escalated"},
             agent : Agents,
             results : Seq(StepResult),   \* step_results
             result : Result]

NoExecutor == [state |-> "absent", agent |-> DefaultAgent,
               results |-> <<>>, result |-> NoResult]

\* step is 0 before the first step; pass 2 is the second execute_step call, in
\* run's except branch; calls counts the agent calls that have ended for this step; more
\* is reflect's "remaining > 0", computed before its await.
Run == [emp : Employees \cup {NoEmployee}, agent : Agents, total : 0..MaxSteps,
        step : 0..MaxSteps, pass : {1, 2}, attempt : Nat, calls : Nat,
        more : BOOLEAN]

NewRun(e, a) == [emp |-> e, agent |-> a, total |-> 0, step |-> 0, pass |-> 1,
                 attempt |-> 0, calls |-> 0, more |-> FALSE]

TypeOK ==
    /\ status \in [Tasks -> Lifecycle!Status]
    /\ result \in [Tasks -> Result]
    /\ exec \in [Employees -> Executor]
    /\ pc \in [Jobs -> PC]
    /\ taskOf \in [Jobs -> Tasks \cup {NoTask}]
    /\ run \in [Jobs -> Run]

Init ==
    /\ status = [t \in Tasks |-> "absent"]
    /\ result = [t \in Tasks |-> NoResult]
    /\ exec = [e \in Employees |-> NoExecutor]
    /\ pc = [j \in Jobs |-> "unused"]
    /\ taskOf = [j \in Jobs |-> NoTask]
    /\ run = [j \in Jobs |-> NewRun(NoEmployee, DefaultAgent)]

-----------------------------------------------------------------------------
(* TaskStore rows. *)

\* create_task: INSERT OR REPLACE, the new row has no result.
CreateTask(t, s) ==
    /\ status' = Lifecycle!CreateRow(t, s)
    /\ result' = [result EXCEPT ![t] = NoResult]

\* update_task(status=s), which keeps the row's result, if there is a row.
UpdateStatus(t, s) ==
    /\ status' = Lifecycle!UpdateRow(t, s)
    /\ UNCHANGED result

\* update_task(status=s, result=r).
UpdateOutcome(t, s, r) ==
    /\ status' = Lifecycle!UpdateRow(t, s)
    /\ result' = IF status[t] = "absent" THEN result
                                         ELSE [result EXCEPT ![t] = r]

-----------------------------------------------------------------------------
(* The executor. *)

\* _get_or_create_executor.
GetOrCreate(e) ==
    IF exec[e].state = "absent" THEN [NoExecutor EXCEPT !.state = "idle"]
                                ELSE exec[e]

\* generate_plan switches the shared executor to the agent the task calls for.
SelectAgent(x, a) == [x EXCEPT !.agent = a]

\* start: the fields of an earlier run stay as they are.
StartExecutor(x) == [x EXCEPT !.state = "running"]

Fail(x, j, kind) ==
    [x EXCEPT !.state = "failed", !.result = [kind |-> kind, by |-> j]]

Escalate(x, j) ==
    [x EXCEPT !.state = "escalated",
              !.result = [kind |-> "escalated", by |-> j]]

\* _build_answer: the text of the last entry of step_results.
AnswerBy(x) == IF x.results = <<>> THEN NoJob ELSE x.results[Len(x.results)].job

\* complete, which run calls only if the executor is still RUNNING.
CompleteIfRunning(x) ==
    IF x.state = "running"
    THEN [x EXCEPT !.state = "completed",
                   !.result = [kind |-> "answer", by |-> AnswerBy(x)]]
    ELSE x

AppendResult(x, j) ==
    [x EXCEPT !.results = Append(@, [job |-> j, step |-> run[j].step])]

\* Mutant of SetExecutor: one executor for everybody.
SetSharedExecutor(j, x) == exec' = [e \in Employees |-> x]

SetExecutor(j, x) == exec' = [exec EXCEPT ![run[j].emp] = x]

-----------------------------------------------------------------------------
(* The run of a task: _execute_task, RuntimeExecutor.run and what they call. *)

\* run returns self.result as it stands, and _execute_task records the task
\* as completed, whatever kind of result that is.
Return(j, x) ==
    /\ SetExecutor(j, x)
    /\ pc' = [pc EXCEPT ![j] = "ended"]
    /\ run' = [run EXCEPT ![j] = NewRun(@.emp, @.agent)]
    /\ UpdateOutcome(taskOf[j], "completed", x.result)
    /\ UNCHANGED taskOf

\* execute_step is called on the step r.step, or PlanStep refuses its data and
\* the exception ends the run.
EnterStep(j, x, r) ==
    \/ /\ SetExecutor(j, x)
       /\ pc' = [pc EXCEPT ![j] = "act"]
       /\ run' = [run EXCEPT ![j] = [r EXCEPT !.pass = 1, !.attempt = 0,
                                              !.calls = 0, !.more = FALSE]]
       /\ UNCHANGED <<store, taskOf>>
    \/ Return(j, Fail(x, j, "planError"))

\* The for loop of run goes on, or ends.
NextStep(j, x, r) ==
    IF r.step < r.total
    THEN EnterStep(j, x, [r EXCEPT !.step = @ + 1])
    ELSE Return(j, CompleteIfRunning(x))

\* Mutant of StepFailed: the second call is a first call again.
StepFailedRestarts(j, r) ==
    LET x == exec[run[j].emp] IN
    IF MaxRetries > 0
    THEN /\ pc' = [pc EXCEPT ![j] = "act"]
         /\ run' = [run EXCEPT ![j] = [r EXCEPT !.pass = 1, !.attempt = 0]]
         /\ UNCHANGED <<store, exec, taskOf>>
    ELSE Return(j, IF EnableEscalation THEN Escalate(x, j)
                                       ELSE Fail(x, j, "stepError"))

\* The except branch of run's loop body: call execute_step again with one
\* retry less, or, without retries, escalate or fail.
StepFailed(j, r) ==
    LET x == exec[run[j].emp] IN
    IF MaxRetries > 0
    THEN /\ pc' = [pc EXCEPT ![j] = "act"]
         /\ run' = [run EXCEPT ![j] = [r EXCEPT !.pass = 2, !.attempt = 0]]
         /\ UNCHANGED <<store, exec, taskOf>>
    ELSE Return(j, IF EnableEscalation THEN Escalate(x, j)
                                       ELSE Fail(x, j, "stepError"))

\* _execute_task up to generate_plan's first await.
Begin(j) ==
    LET e == run[j].emp IN
    /\ pc[j] = "queued"
    /\ e \notin Blank
    /\ UpdateStatus(taskOf[j], "running")
    /\ SetExecutor(j, SelectAgent(StartExecutor(GetOrCreate(e)), run[j].agent))
    /\ pc' = [pc EXCEPT ![j] = "plan"]
    /\ UNCHANGED <<taskOf, run>>

\* RuntimeExecutor refuses a blank employee_id after the row was marked and
\* before _execute_task's try block.
Die(j) ==
    /\ pc[j] = "queued"
    /\ run[j].emp \in Blank
    /\ UpdateStatus(taskOf[j], "running")
    /\ pc' = [pc EXCEPT ![j] = "lost"]
    /\ UNCHANGED <<exec, taskOf, run>>

\* generate_plan raises: timeout, empty or unparsable answer, backend error.
PlanFails(j) ==
    /\ pc[j] = "plan"
    /\ Return(j, Fail(exec[run[j].emp], j, "planError"))

\* generate_plan returns a plan of n steps.
PlanReady(j, n) ==
    /\ pc[j] = "plan"
    /\ NextStep(j, exec[run[j].emp], [run[j] EXCEPT !.total = n])

\* An attempt of execute_step returns; the step's result is appended to the
\* executor's list.  After the first pass the run reflects, after the second
\* it goes straight to the next step.
AttemptReturns(j) ==
    LET x == AppendResult(exec[run[j].emp], j)
        r == [run[j] EXCEPT !.calls = @ + 1] IN
    /\ pc[j] = "act"
    /\ IF r.pass = 1
       THEN /\ SetExecutor(j, x)
            /\ pc' = [pc EXCEPT ![j] = "reflect"]
            /\ run' = [run EXCEPT ![j] =
                          [r EXCEPT !.more = r.total - Len(x.results) > 0]]
            /\ UNCHANGED <<store, taskOf>>
       ELSE NextStep(j, x, r)

\* Mutant of LastAttempt: the second pass gets all the retries.
LastAttemptOfBoth(r) == r.attempt = MaxRetries

\* range(max_retries + 1), with the retries parameter of the second pass.
LastAttempt(r) == r.attempt = (IF r.pass = 1 THEN MaxRetries ELSE MaxRetries - 1)

\* An attempt raises or times out and there are attempts left: sleep, again.
AttemptRetries(j) ==
    /\ pc[j] = "act"
    /\ ~ LastAttempt(run[j])
    /\ run' = [run EXCEPT ![j].attempt = @ + 1, ![j].calls = @ + 1]
    /\ UNCHANGED <<store, exec, pc, taskOf>>

\* The last attempt fails: the first execute_step goes to run's except branch,
\* the second one to its outer except.
AttemptsExhausted(j) ==
    /\ pc[j] = "act"
    /\ LastAttempt(run[j])
    /\ IF run[j].pass = 1
       THEN StepFailed(j, [run[j] EXCEPT !.calls = @ + 1])
       ELSE Return(j, Fail(exec[run[j].emp], j, "stepError"))

\* reflect returns a decision the agent gave: next step, or out of the loop.
ReflectDecides(j, continue) ==
    LET x == exec[run[j].emp] IN
    /\ pc[j] = "reflect"
    /\ IF continue THEN NextStep(j, x, run[j])
                   ELSE Return(j, CompleteIfRunning(x))

\* reflect got no answer, or none in time: it goes on if steps remained when it
\* was called.
ReflectSilent(j) == ReflectDecides(j, run[j].more)

\* reflect raises: the loop's except branch runs the step a second time.
ReflectRaises(j) == pc[j] = "reflect" /\ StepFailed(j, run[j])

\* Mutant of TimeOut: the row is not updated.
TimeOutUnreported(j) ==
    /\ pc[j] \in Running
    /\ pc' = [pc EXCEPT ![j] = "ended"]
    /\ run' = [run EXCEPT ![j] = NewRun(@.emp, @.agent)]
    /\ UNCHANGED <<store, exec, taskOf>>

\* wait_for's RUNTIME_TIMEOUT cancels run at its await; the executor keeps the
\* state it had.
TimeOut(j) ==
    /\ pc[j] \in Running
    /\ pc' = [pc EXCEPT ![j] = "ended"]
    /\ run' = [run EXCEPT ![j] = NewRun(@.emp, @.agent)]
    /\ UpdateOutcome(taskOf[j], "failed", [kind |-> "timeout", by |-> j])
    /\ UNCHANGED <<exec, taskOf>>

RunStep(j) ==
    \/ Begin(j) \/ Die(j)
    \/ PlanFails(j) \/ \E n \in 0..MaxSteps : PlanReady(j, n)
    \/ AttemptReturns(j) \/ AttemptRetries(j) \/ AttemptsExhausted(j)
    \/ \E c \in BOOLEAN : ReflectDecides(j, c)
    \/ ReflectSilent(j) \/ ReflectRaises(j)
    \/ TimeOut(j)

-----------------------------------------------------------------------------
(* The other handlers, and the process. *)

\* POST /runtime/execute.  a is what _select_agent makes of the query and the
\* skills, a function of the request alone.
ExecuteTask(j, t, e, a) ==
    /\ pc[j] = "unused"
    /\ Lifecycle!Nameable(t)
    /\ pc' = [pc EXCEPT ![j] = "queued"]
    /\ taskOf' = [taskOf EXCEPT ![j] = t]
    /\ run' = [run EXCEPT ![j] = NewRun(e, a)]
    /\ CreateTask(t, "queued")
    /\ UNCHANGED exec

\* POST /runtime/plan up to its await: the shared executor changes agent.
\* (A blank employee_id is a 500 that changes nothing.)
GeneratePlan(j, t, e, a) ==
    /\ pc[j] = "unused"
    /\ Lifecycle!FreshTask(t)
    /\ e \notin Blank
    /\ pc' = [pc EXCEPT ![j] = "planning"]
    /\ taskOf' = [taskOf EXCEPT ![j] = t]
    /\ run' = [run EXCEPT ![j] = NewRun(e, a)]
    /\ exec' = [exec EXCEPT ![e] = SelectAgent(GetOrCreate(e), a)]
    /\ UNCHANGED store

\* The plan comes back and is stored under a status of its own.
PlanStored(j) ==
    /\ pc[j] = "planning"
    /\ pc' = [pc EXCEPT ![j] = "planned"]
    /\ CreateTask(taskOf[j], "planned")
    /\ UNCHANGED <<exec, taskOf, run>>

\* generate_plan raises: HTTP 500.
PlanRefused(j) ==
    /\ pc[j] = "planning"
    /\ pc' = [pc EXCEPT ![j] = "refused"]
    /\ UNCHANGED <<store, exec, taskOf, run>>

\* Mutant of CancelTask: a completed task can be cancelled.
CancelCompleted(t) ==
    /\ status[t] \notin {"absent", "failed", "cancelled"}
    /\ UpdateStatus(t, "cancelled")
    /\ UNCHANGED <<exec, pc, taskOf, run>>

\* POST /runtime/cancel writes the row and nothing else.
CancelTask(t) ==
    /\ status[t] \notin {"absent", "completed", "failed", "cancelled"}
    /\ UpdateStatus(t, "cancelled")
    /\ UNCHANGED <<exec, pc, taskOf, run>>

\* The process dies and starts again: memory is lost, the rows are not, and
\* nothing in lifespan looks at them.
Crash ==
    /\ exec' = [e \in Employees |-> NoExecutor]
    /\ pc' = [j \in Jobs |->
                 IF PhaseOf(pc[j]) \in Lifecycle!Open THEN "lost" ELSE pc[j]]
    /\ run' = [j \in Jobs |-> NewRun(run[j].emp, run[j].agent)]
    /\ UNCHANGED <<store, taskOf>>

\* uvicorn stops once its requests and their background tasks are done; lifespan
\* then clears the executors and the store.
Shutdown ==
    /\ \A j \in Jobs : PhaseOf(pc[j]) \notin Lifecycle!Open
    /\ exec' = [e \in Employees |-> NoExecutor]
    /\ status' = [t \in Tasks |-> "absent"]
    /\ result' = [t \in Tasks |-> NoResult]
    /\ UNCHANGED <<pc, taskOf, run>>

Next ==
    \/ \E j \in Jobs, t \in Tasks, e \in Employees, a \in Agents :
          ExecuteTask(j, t, e, a) \/ GeneratePlan(j, t, e, a)
    \/ \E j \in Jobs : RunStep(j) \/ PlanStored(j) \/ PlanRefused(j)
    \/ \E t \in Tasks : CancelTask(t)
    \/ Crash
    \/ Shutdown

Spec == Init /\ [][Next]_vars

\* The event loop serves every callback, and every await of a run is bounded
\* (RUNTIME_TIMEOUT, timeout_seconds, finite sleeps).
FairSpec == Spec /\ \A j \in Jobs : WF_vars(RunStep(j))

-----------------------------------------------------------------------------
(* Safety: what the code guarantees. *)

\* The service, with its executors hidden, is the task lifecycle: no step of a
\* run touches a record except to start it and to report it.
ImplementsLifecycle == Lifecycle!LifecycleSpec

\* The result stored for a task is about work done for an employee the task was
\* submitted for: the shared executors never carry a result from one employee
\* to another, whatever interleaves, times out or crashes.
ResultsStayWithEmployee ==
    \A t \in Tasks :
        result[t].by # NoJob =>
            \E j \in Jobs : taskOf[j] = t /\ run[j].emp = run[result[t].by].emp

\* A completed record carries a result: run never returns the None that
\* self.result starts as, although it returns the field as another run left it.
CompletedHasResult ==
    \A t \in Tasks : status[t] = "completed" => result[t].kind # "none"

\* The agent calls made for request j's current step, the one in flight included.
CallsMade(j) == run[j].calls + (IF pc[j] = "act" THEN 1 ELSE 0)

\* The agent is called at most 2 * max_retries + 1 times for a step: the
\* attempts of execute_step and of the second call in run's except branch.
CallBudget ==
    \A j \in Jobs : CallsMade(j) <= 2 * MaxRetries + 1

\* Where request j's entries are in the step_results rs, and those for step n.
EntriesOf(rs, j) == {i \in 1..Len(rs) : rs[i].job = j}
EntriesFor(rs, j, n) == {i \in EntriesOf(rs, j) : rs[i].step = n}

InPlanOrder(rs, j) ==
    /\ \A i, k \in EntriesOf(rs, j) : i < k => rs[i].step <= rs[k].step
    /\ \A i \in EntriesOf(rs, j), n \in 1..MaxSteps :
           n < rs[i].step => EntriesFor(rs, j, n) # {}
    /\ \A n \in 1..MaxSteps : Cardinality(EntriesFor(rs, j, n)) <= 2

\* However runs interleave on the shared step_results, the entries of one
\* request appear in plan order, without a gap, and at most twice per step
\* (twice when reflect raised after a step that had succeeded).
StepsInPlanOrder ==
    \A j \in Jobs :
        run[j].emp # NoEmployee => InPlanOrder(exec[run[j].emp].results, j)

-----------------------------------------------------------------------------
(* Liveness. *)

\* A queued or running record is completed, failed or cancelled in the end,
\* unless its process or its coroutine died: RUNTIME_TIMEOUT and the bounded
\* retries leave no run hanging.
RecordsSettle ==
    \A t \in Tasks :
        status[t] \in {"queued", "running"} ~>
            \/ status[t] \in {"completed", "failed", "cancelled"}
            \/ \E j \in Jobs : taskOf[j] = t /\ pc[j] = "lost"

-----------------------------------------------------------------------------
(* What the documents say of the service and the code does not do. *)

\* specs/runtime-spec.md:531: a cancelled task stops midway, it enters no
\* further step.
CancelStopsTask ==
    [][\A j \in Jobs :
          (pc[j] \in Running /\ status[taskOf[j]] = "cancelled")
          => run'[j].step <= run[j].step]_vars

\* specs/runtime-spec.md:407 and 419: a task whose step failed all its attempts
\* is marked "escalated".
ExhaustedRetriesEscalate ==
    \A t \in Tasks :
        result[t].kind \in {"stepError", "escalated"} => status[t] = "escalated"

\* specs/enterprise-agent-os-master-design.md:475: what is being worked on is
\* not shared: a task's answer comes from a run of that task.
AnswerIsOwn ==
    \A t \in Tasks :
        (result[t].kind = "answer" /\ result[t].by # NoJob)
        => taskOf[result[t].by] = t

\* executor.py:204: a task runs on the agent its risk calls for.
AgentFitsTask ==
    \A j \in Jobs : pc[j] = "act" => exec[run[j].emp].agent = run[j].agent

\* get_status renders row t: the status is a TaskStatus, and the result is not
\* the text that json.dumps(default=str) makes of a TaskResult.
StatusReadable(t) == status[t] # "planned" /\ result[t] = NoResult

\* specs/runtime-spec.md:193: the status of a task can be asked for.
StatusIsReadable == \A t \in Tasks : status[t] # "absent" => StatusReadable(t)

-----------------------------------------------------------------------------
(* The inductive invariant that the proofs of module RuntimeProofs use. *)

\* A request that has been made has an employee and a task.
MadeRequests ==
    \A j \in Jobs :
        /\ pc[j] = "unused" <=> run[j].emp = NoEmployee
        /\ pc[j] = "unused" <=> taskOf[j] = NoTask

\* Where a run is in its plan, and how many agent calls its step has cost.
PositionOK(c, r) ==
    /\ c \in {"act", "reflect"} => r.step >= 1
    /\ c = "act" =>
          \/ r.pass = 1 /\ r.calls = r.attempt /\ r.attempt <= MaxRetries
          \/ /\ r.pass = 2 /\ r.attempt < MaxRetries
             /\ r.calls <= MaxRetries + 1 + r.attempt
    /\ c = "reflect" => r.calls <= MaxRetries + 1
    /\ c \notin {"act", "reflect"} => r.calls = 0

RunPosition == \A j \in Jobs : PositionOK(pc[j], run[j])

\* Everything in employee e's executor is about e's requests, and a run that
\* has reached a verdict has left a result.
OwnExecutor(x, e) ==
    /\ \A i \in 1..Len(x.results) : run[x.results[i].job].emp = e
    /\ x.result.by # NoJob => run[x.result.by].emp = e
    /\ x.state \in {"completed", "failed", "escalated"} =>
          x.result.kind # "none"

ExecutorsOwned == \A e \in Employees : OwnExecutor(exec[e], e)

\* A run in progress works on a started executor.
RunsHaveExecutor ==
    \A j \in Jobs :
        pc[j] \in Running => exec[run[j].emp].state \notin {"absent", "idle"}

\* How the entries rs that a request has left fit its program counter c and its
\* place r in the plan: none before its first step; then every earlier step and
\* no later one, and at most one of its own step until the second pass ends.
EntriesFit(rs, j, c, r) ==
    /\ InPlanOrder(rs, j)
    /\ c \notin {"act", "reflect"} => r.step = 0
    /\ c \in {"planning", "planned", "refused", "queued", "plan"} =>
          EntriesOf(rs, j) = {}
    /\ c \in {"act", "reflect"} =>
          /\ \A i \in EntriesOf(rs, j) : rs[i].step <= r.step
          /\ \A n \in 1..r.step - 1 : EntriesFor(rs, j, n) # {}
          /\ Cardinality(EntriesFor(rs, j, r.step)) <= 1
    /\ c = "act" /\ r.pass = 1 => EntriesFor(rs, j, r.step) = {}
    /\ c = "reflect" => EntriesFor(rs, j, r.step) # {}

RunsInOrder ==
    \A j \in Jobs :
        run[j].emp # NoEmployee =>
            EntriesFit(exec[run[j].emp].results, j, pc[j], run[j])

RuntimeInv ==
    /\ TypeOK
    /\ MadeRequests
    /\ RunPosition
    /\ ExecutorsOwned
    /\ RunsHaveExecutor
    /\ ResultsStayWithEmployee
    /\ CompletedHasResult
=============================================================================
