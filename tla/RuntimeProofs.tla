--------------------------- MODULE RuntimeProofs ---------------------------
(***************************************************************************)
(* Proofs about the runtime service, for any number of requests, tasks,    *)
(* employees, plan steps and retries; and about its calls of the agent,    *)
(* for any number of callers, threads and any length of the timeouts.      *)
(***************************************************************************)
EXTENDS Runtime, AgentCalls, FiniteSetTheorems, SequenceTheorems, TLAPS

-----------------------------------------------------------------------------
(* What the executor operations keep. *)

\* An executor that request j of employee e may be handed: well typed, e's own,
\* and started.
Usable(x, e) ==
    x \in Executor /\ OwnExecutor(x, e) /\ x.state \notin {"absent", "idle"}

\* fail and escalate record a verdict about the request itself.
LEMMA VerdictUsable ==
  ASSUME NEW e \in Employees, NEW x, Usable(x, e), NEW j \in Jobs,
         run[j].emp = e
  PROVE  /\ \A kind \in {"planError", "stepError"} :
               /\ Usable(Fail(x, j, kind), e)
               /\ Fail(x, j, kind).state = "failed"
         /\ Usable(Escalate(x, j), e)
         /\ Escalate(x, j).state = "escalated"
  BY RuntimeAssumption
  DEF Usable, OwnExecutor, Executor, Result, Fail, Escalate

\* complete records an answer about one of the employee's requests.
LEMMA CompleteUsable ==
  ASSUME NEW e \in Employees, NEW x, Usable(x, e)
  PROVE  /\ Usable(CompleteIfRunning(x), e)
         /\ CompleteIfRunning(x).state # "running"
  <1>1. AnswerBy(x) \in Jobs \cup {NoJob}
        /\ (AnswerBy(x) # NoJob => run[AnswerBy(x)].emp = e)
    <2>1. CASE x.results = <<>>
      BY <2>1 DEF AnswerBy
    <2>2. CASE x.results # <<>>
      <3>1. x.results \in Seq(StepResult)
        BY DEF Usable, Executor
      <3>2. Len(x.results) \in 1..Len(x.results)
        BY <2>2, <3>1
      <3>3. x.results[Len(x.results)] \in StepResult
        BY <3>1, <3>2
      <3> QED
        BY <2>2, <3>2, <3>3 DEF AnswerBy, StepResult, Usable, OwnExecutor
    <2> QED
      BY <2>1, <2>2
  <1>2. CASE x.state = "running"
    BY <1>1, <1>2 DEF Usable, OwnExecutor, Executor, Result, CompleteIfRunning
  <1>3. CASE x.state # "running"
    BY <1>3 DEF Usable, CompleteIfRunning
  <1> QED
    BY <1>2, <1>3

\* Appending a step result of the employee's request.
LEMMA AppendUsable ==
  ASSUME NEW e \in Employees, NEW x, Usable(x, e), NEW j \in Jobs,
         run[j].emp = e, run[j].step \in 1..MaxSteps
  PROVE  /\ Usable(AppendResult(x, j), e)
         /\ Len(AppendResult(x, j).results) \in Nat
  <1> DEFINE entry == [job |-> j, step |-> run[j].step]
             rs == Append(x.results, entry)
  <1>1. x.results \in Seq(StepResult) /\ entry \in StepResult
    BY DEF Usable, Executor, StepResult
  <1>2. /\ rs \in Seq(StepResult)
        /\ Len(rs) = Len(x.results) + 1
        /\ Len(x.results) \in Nat
        /\ \A i \in 1..Len(x.results) : rs[i] = x.results[i]
        /\ rs[Len(x.results) + 1] = entry
    BY <1>1
  <1>3. \A i \in 1..Len(rs) : run[rs[i].job].emp = e
    <2> SUFFICES ASSUME NEW i \in 1..Len(rs) PROVE run[rs[i].job].emp = e
      OBVIOUS
    <2>1. CASE i \in 1..Len(x.results)
      BY <1>2, <2>1 DEF Usable, OwnExecutor
    <2>2. CASE i = Len(x.results) + 1
      BY <1>2, <2>2
    <2> QED
      BY <1>2, <2>1, <2>2
  <1>4. /\ AppendResult(x, j).results = rs
        /\ AppendResult(x, j).state = x.state
        /\ AppendResult(x, j).result = x.result
        /\ AppendResult(x, j) \in Executor
    BY <1>2 DEF AppendResult, Usable, Executor
  <1> HIDE DEF rs
  <1> QED
    BY <1>2, <1>3, <1>4 DEF Usable, OwnExecutor

-----------------------------------------------------------------------------
(* The two ways a run's step ends: at another await, or with a report. *)

\* The run of request j, between two awaits, with executor x in hand.
AtStep(j, x) == pc[j] \in Running /\ Usable(x, run[j].emp)

\* What a request that has been made is known to have.
LEMMA MadeFacts ==
  ASSUME RuntimeInv, NEW j \in Jobs, pc[j] # "unused"
  PROVE  run[j].emp \in Employees /\ taskOf[j] \in Tasks /\ run[j] \in Run
  BY RuntimeAssumption DEF RuntimeInv, TypeOK, MadeRequests, Run

\* The entries of step_results name requests.
LEMMA EntryJobs ==
  ASSUME NEW y \in Executor
  PROVE  /\ \A i \in 1..Len(y.results) : y.results[i].job \in Jobs
         /\ y.result.by # NoJob => y.result.by \in Jobs
  <1>1. y.results \in Seq(StepResult)
    BY DEF Executor
  <1>2. \A i \in 1..Len(y.results) : y.results[i] \in StepResult
    BY <1>1
  <1> QED
    BY <1>2 DEF StepResult, Executor, Result

\* Executors stay their employees' own over a step that changes no request's
\* employee.
LEMMA OwnedStays ==
  ASSUME \A k \in Jobs : run'[k].emp = run[k].emp,
         \A f \in Employees : OwnExecutor(exec'[f], f) /\ exec'[f] \in Executor
  PROVE  ExecutorsOwned'
  <1> SUFFICES ASSUME NEW f \in Employees PROVE OwnExecutor(exec[f], f)'
    BY DEF ExecutorsOwned
  <1>1. OwnExecutor(exec'[f], f) /\ exec'[f] \in Executor
    OBVIOUS
  <1>2. /\ \A i \in 1..Len(exec'[f].results) : exec'[f].results[i].job \in Jobs
        /\ exec'[f].result.by # NoJob => exec'[f].result.by \in Jobs
    BY <1>1, EntryJobs
  <1> QED
    BY <1>1, <1>2 DEF OwnExecutor

\* A step that ends at another await keeps the invariant.
LEMMA MoveInv ==
  ASSUME RuntimeInv, NEW j \in Jobs, NEW x, AtStep(j, x),
         NEW c \in Running, NEW r \in Run, r.emp = run[j].emp, PositionOK(c, r),
         SetExecutor(j, x), pc' = [pc EXCEPT ![j] = c],
         run' = [run EXCEPT ![j] = r], UNCHANGED <<store, taskOf>>
  PROVE  RuntimeInv'
  <1> DEFINE e == run[j].emp
  <1>0. e \in Employees /\ pc[j] # "unused"
    BY MadeFacts DEF AtStep, Running
  <1>1. \A k \in Jobs : run'[k].emp = run[k].emp
    BY DEF RuntimeInv, TypeOK
  <1>2. TypeOK'
    BY <1>0 DEF RuntimeInv, TypeOK, SetExecutor, AtStep, Usable, PC, store
  <1>3. MadeRequests'
    BY <1>0, <1>1 DEF RuntimeInv, MadeRequests, TypeOK, Running
  <1>4. RunPosition'
    BY DEF RuntimeInv, RunPosition, TypeOK
  <1>5. \A f \in Employees : exec'[f] = IF f = e THEN x ELSE exec[f]
    BY <1>0 DEF SetExecutor, RuntimeInv, TypeOK
  <1>7. ExecutorsOwned'
    <2>1. \A f \in Employees : OwnExecutor(exec'[f], f) /\ exec'[f] \in Executor
      BY <1>5 DEF AtStep, Usable, RuntimeInv, ExecutorsOwned, TypeOK
    <2> QED
      BY <1>1, <2>1, OwnedStays
  <1>8. RunsHaveExecutor'
    BY <1>0, <1>1, <1>5, MadeFacts
    DEF RunsHaveExecutor, RuntimeInv, TypeOK, AtStep, Usable, Running
  <1>9. ResultsStayWithEmployee' /\ CompletedHasResult'
    BY <1>1 DEF ResultsStayWithEmployee, CompletedHasResult, RuntimeInv,
                TypeOK, Result, store
  <1> QED
    BY <1>2, <1>3, <1>4, <1>7, <1>8, <1>9 DEF RuntimeInv

\* So does a step that ends the run and reports an outcome of the employee's.
LEMMA ReportInv ==
  ASSUME RuntimeInv, NEW j \in Jobs, NEW x, AtStep(j, x),
         NEW s \in {"completed", "failed"}, NEW o \in Result, o.kind # "none",
         o.by # NoJob => run[o.by].emp = run[j].emp,
         SetExecutor(j, x), pc' = [pc EXCEPT ![j] = "ended"],
         run' = [run EXCEPT ![j] = NewRun(@.emp, @.agent)],
         UpdateOutcome(taskOf[j], s, o), UNCHANGED taskOf
  PROVE  RuntimeInv'
  <1> DEFINE e == run[j].emp
             t == taskOf[j]
  <1>0. e \in Employees /\ t \in Tasks /\ pc[j] # "unused"
    BY MadeFacts DEF AtStep, Running
  <1>1. /\ \A k \in Jobs : run'[k].emp = run[k].emp
        /\ run'[j] = NewRun(run[j].emp, run[j].agent)
        /\ run' \in [Jobs -> Run]
    BY RuntimeAssumption DEF RuntimeInv, TypeOK, NewRun, Run
  <1>2. /\ \A u \in Tasks : u # t => status'[u] = status[u] /\ result'[u] = result[u]
        /\ \/ status[t] = "absent" /\ UNCHANGED store
           \/ status'[t] = s /\ result'[t] = o
    BY <1>0 DEF UpdateOutcome, Lifecycle!UpdateRow, RuntimeInv, TypeOK, store
  <1>3. TypeOK'
    <2>1. status' \in [Tasks -> Lifecycle!Status] /\ result' \in [Tasks -> Result]
      BY <1>0 DEF UpdateOutcome, Lifecycle!UpdateRow, Lifecycle!Status,
                  RuntimeInv, TypeOK
    <2>2. exec' \in [Employees -> Executor] /\ pc' \in [Jobs -> PC]
      BY <1>0 DEF RuntimeInv, TypeOK, SetExecutor, AtStep, Usable, PC
    <2> QED
      BY <1>1, <2>1, <2>2 DEF RuntimeInv, TypeOK
  <1>4. MadeRequests'
    BY <1>0, <1>1 DEF RuntimeInv, MadeRequests, TypeOK
  <1>5. RunPosition'
    BY <1>1 DEF RuntimeInv, RunPosition, TypeOK, NewRun, PositionOK
  <1>6. \A f \in Employees : exec'[f] = IF f = e THEN x ELSE exec[f]
    BY <1>0 DEF SetExecutor, RuntimeInv, TypeOK
  <1>7. ExecutorsOwned'
    <2>1. \A f \in Employees : OwnExecutor(exec'[f], f) /\ exec'[f] \in Executor
      BY <1>6 DEF AtStep, Usable, RuntimeInv, ExecutorsOwned, TypeOK
    <2> QED
      BY <1>1, <2>1, OwnedStays
  <1>8. RunsHaveExecutor'
    BY <1>0, <1>1, <1>6, MadeFacts
    DEF RunsHaveExecutor, RuntimeInv, TypeOK, AtStep, Usable, Running
  <1>9. ResultsStayWithEmployee'
    <2> SUFFICES ASSUME NEW u \in Tasks, result'[u].by # NoJob
                 PROVE  \E k \in Jobs :
                           taskOf'[k] = u /\ run'[k].emp = run'[result'[u].by].emp
      BY DEF ResultsStayWithEmployee
    <2>1. CASE u = t /\ result'[t] = o
      BY <1>0, <1>1, <2>1 DEF Result
    <2>2. CASE result'[u] = result[u]
      BY <1>1, <2>2 DEF RuntimeInv, ResultsStayWithEmployee, TypeOK, Result
    <2> QED
      BY <1>2, <2>1, <2>2 DEF store
  <1>10. CompletedHasResult'
    BY <1>2 DEF CompletedHasResult, RuntimeInv, store
  <1> QED
    BY <1>3, <1>4, <1>5, <1>7, <1>8, <1>9, <1>10 DEF RuntimeInv

\* run returning executor x's result, once it has a verdict.
LEMMA ReturnInv ==
  ASSUME RuntimeInv, NEW j \in Jobs, NEW x, AtStep(j, x), x.state # "running",
         Return(j, x)
  PROVE  RuntimeInv'
  <1>1. /\ x.result \in Result
        /\ x.result.kind # "none"
        /\ x.result.by # NoJob => run[x.result.by].emp = run[j].emp
    BY DEF AtStep, Usable, OwnExecutor, Executor
  <1> QED
    BY <1>1, ReportInv DEF Return

-----------------------------------------------------------------------------
(* The loop of run. *)

\* Entering a step, or ending on a malformed one, keeps the invariant.
LEMMA EnterStepInv ==
  ASSUME RuntimeInv, NEW j \in Jobs, NEW x, AtStep(j, x),
         NEW r \in Run, r.emp = run[j].emp, r.step >= 1, EnterStep(j, x, r)
  PROVE  RuntimeInv'
  <1> DEFINE q == [r EXCEPT !.pass = 1, !.attempt = 0, !.calls = 0, !.more = FALSE]
  <1>0. /\ q \in Run /\ q.emp = run[j].emp /\ q.step = r.step
        /\ q.pass = 1 /\ q.attempt = 0 /\ q.calls = 0
    BY DEF Run
  <1>1. PositionOK("act", q)
    <2> HIDE DEF q
    <2> QED
      BY <1>0, RuntimeAssumption DEF PositionOK
  <1>2. CASE /\ SetExecutor(j, x)
             /\ pc' = [pc EXCEPT ![j] = "act"]
             /\ run' = [run EXCEPT ![j] = q]
             /\ UNCHANGED <<store, taskOf>>
    <2> HIDE DEF q
    <2> QED
      BY <1>0, <1>1, <1>2, MoveInv DEF Running
  <1>3. CASE Return(j, Fail(x, j, "planError"))
    <2>1. run[j].emp \in Employees
      BY MadeFacts DEF AtStep, Running
    <2>2. AtStep(j, Fail(x, j, "planError")) /\ Fail(x, j, "planError").state # "running"
      BY <2>1, VerdictUsable DEF AtStep
    <2> QED
      BY <1>3, <2>2, ReturnInv
  <1> QED
    BY <1>2, <1>3 DEF EnterStep

\* So does going round the loop, or leaving it.
LEMMA NextStepInv ==
  ASSUME RuntimeInv, NEW j \in Jobs, NEW x, AtStep(j, x),
         NEW r \in Run, r.emp = run[j].emp, NextStep(j, x, r)
  PROVE  RuntimeInv'
  <1>1. CASE r.step < r.total
    <2> DEFINE q == [r EXCEPT !.step = @ + 1]
    <2>1. q \in Run /\ q.emp = run[j].emp /\ q.step >= 1
      BY <1>1, RuntimeAssumption DEF Run
    <2>2. EnterStep(j, x, q)
      BY <1>1 DEF NextStep
    <2> HIDE DEF q
    <2> QED
      BY <2>1, <2>2, EnterStepInv
  <1>2. CASE ~(r.step < r.total)
    <2>1. run[j].emp \in Employees
      BY MadeFacts DEF AtStep, Running
    <2>2. AtStep(j, CompleteIfRunning(x)) /\ CompleteIfRunning(x).state # "running"
      BY <2>1, CompleteUsable DEF AtStep
    <2>3. Return(j, CompleteIfRunning(x))
      BY <1>2 DEF NextStep
    <2> QED
      BY <2>2, <2>3, ReturnInv
  <1> QED
    BY <1>1, <1>2

\* So does run's except branch, entered after at most max_retries + 1 calls.
LEMMA StepFailedInv ==
  ASSUME RuntimeInv, NEW j \in Jobs, AtStep(j, exec[run[j].emp]),
         NEW r \in Run, r.emp = run[j].emp, r.step >= 1,
         r.calls <= MaxRetries + 1, StepFailed(j, r)
  PROVE  RuntimeInv'
  <1> DEFINE x == exec[run[j].emp]
  <1>0. run[j].emp \in Employees
    BY MadeFacts DEF AtStep, Running
  <1>1. CASE MaxRetries > 0
    <2> DEFINE q == [r EXCEPT !.pass = 2, !.attempt = 0]
    <2>0. /\ q \in Run /\ q.emp = run[j].emp /\ q.step = r.step
          /\ q.pass = 2 /\ q.attempt = 0 /\ q.calls = r.calls /\ q.calls \in Nat
      BY DEF Run
    <2>1. PositionOK("act", q)
      <3> HIDE DEF q
      <3> QED
        BY <1>1, <2>0, RuntimeAssumption DEF PositionOK
    <2>2. /\ pc' = [pc EXCEPT ![j] = "act"]
          /\ run' = [run EXCEPT ![j] = q]
          /\ UNCHANGED <<store, taskOf>>
      BY <1>1 DEF StepFailed
    <2>3. SetExecutor(j, x)
      BY <1>0, <1>1 DEF StepFailed, SetExecutor, RuntimeInv, TypeOK
    <2> HIDE DEF q, x
    <2> QED
      BY <2>0, <2>1, <2>2, <2>3, MoveInv DEF Running, x
  <1>2. CASE ~(MaxRetries > 0)
    <2>1. /\ AtStep(j, Escalate(x, j)) /\ Escalate(x, j).state # "running"
          /\ AtStep(j, Fail(x, j, "stepError")) /\ Fail(x, j, "stepError").state # "running"
      BY <1>0, VerdictUsable DEF AtStep
    <2>2. Return(j, Escalate(x, j)) \/ Return(j, Fail(x, j, "stepError"))
      BY <1>2 DEF StepFailed
    <2> QED
      BY <2>1, <2>2, ReturnInv
  <1> QED
    BY <1>1, <1>2

-----------------------------------------------------------------------------
(* One lemma per group of actions. *)

\* A running request has its employee's executor at hand.
LEMMA RunningAtStep ==
  ASSUME RuntimeInv, NEW j \in Jobs, pc[j] \in Running
  PROVE  /\ AtStep(j, exec[run[j].emp])
         /\ run[j].emp \in Employees
         /\ run[j] \in Run
         /\ PositionOK(pc[j], run[j])
  <1>1. run[j].emp \in Employees /\ run[j] \in Run
    BY MadeFacts DEF Running
  <1> QED
    BY <1>1 DEF AtStep, Usable, RuntimeInv, TypeOK, ExecutorsOwned,
                RunsHaveExecutor, RunPosition

\* The plan comes back.
LEMMA PlanStepsInv ==
  ASSUME RuntimeInv, NEW j \in Jobs,
         PlanFails(j) \/ \E n \in 0..MaxSteps : PlanReady(j, n)
  PROVE  RuntimeInv'
  <1> DEFINE x == exec[run[j].emp]
  <1>0. pc[j] \in Running
    BY DEF PlanFails, PlanReady, Running
  <1>1. AtStep(j, x) /\ run[j].emp \in Employees /\ run[j] \in Run
    BY <1>0, RunningAtStep
  <1>2. CASE PlanFails(j)
    <2>1. AtStep(j, Fail(x, j, "planError")) /\ Fail(x, j, "planError").state # "running"
      BY <1>1, VerdictUsable DEF AtStep
    <2> QED
      BY <1>2, <2>1, ReturnInv DEF PlanFails
  <1>3. ASSUME NEW n \in 0..MaxSteps, PlanReady(j, n) PROVE RuntimeInv'
    <2> DEFINE q == [run[j] EXCEPT !.total = n]
    <2>1. q \in Run /\ q.emp = run[j].emp
      BY <1>1 DEF Run
    <2>2. NextStep(j, x, q)
      BY <1>3 DEF PlanReady
    <2> HIDE DEF q, x
    <2> QED
      BY <1>1, <2>1, <2>2, NextStepInv DEF x
  <1> QED
    BY <1>2, <1>3

\* An attempt of execute_step ends.
LEMMA AttemptInv ==
  ASSUME RuntimeInv, NEW j \in Jobs,
         AttemptReturns(j) \/ AttemptRetries(j) \/ AttemptsExhausted(j)
  PROVE  RuntimeInv'
  <1> DEFINE x == exec[run[j].emp]
             y == AppendResult(x, j)
             q == [run[j] EXCEPT !.calls = @ + 1]
  <1>0. pc[j] = "act" /\ pc[j] \in Running
    BY DEF AttemptReturns, AttemptRetries, AttemptsExhausted, Running
  <1>1. /\ AtStep(j, x) /\ run[j].emp \in Employees /\ run[j] \in Run
        /\ PositionOK("act", run[j])
    BY <1>0, RunningAtStep
  <1>2. /\ run[j].step \in 1..MaxSteps
        /\ run[j].calls \in Nat /\ run[j].attempt \in Nat /\ run[j].total \in Int
        /\ \/ run[j].pass = 1 /\ run[j].calls = run[j].attempt
              /\ run[j].attempt <= MaxRetries
           \/ run[j].pass = 2 /\ run[j].attempt < MaxRetries
              /\ run[j].calls <= MaxRetries + 1 + run[j].attempt
    BY <1>1, RuntimeAssumption DEF PositionOK, Run
  <1>3. /\ q \in Run /\ q.emp = run[j].emp /\ q.calls = run[j].calls + 1
        /\ q.step = run[j].step /\ q.pass = run[j].pass /\ q.total = run[j].total
        /\ q.attempt = run[j].attempt
    BY <1>1 DEF Run
  <1>4. CASE AttemptReturns(j)
    <2>1. AtStep(j, y) /\ Len(y.results) \in Nat
      BY <1>1, <1>2, AppendUsable DEF AtStep
    <2>2. CASE q.pass = 1
      <3> DEFINE b == q.total - Len(y.results) > 0
                 m == [q EXCEPT !.more = b]
      <3>1. /\ m \in Run /\ m.emp = run[j].emp /\ m.step = q.step
            /\ m.calls = q.calls
        <4>1. b \in BOOLEAN
          OBVIOUS
        <4> HIDE DEF q, b
        <4> QED
          BY <1>3, <4>1 DEF Run
      <3>2. /\ SetExecutor(j, y)
            /\ pc' = [pc EXCEPT ![j] = "reflect"]
            /\ run' = [run EXCEPT ![j] = m]
            /\ UNCHANGED <<store, taskOf>>
        BY <1>4, <2>2 DEF AttemptReturns
      <3> HIDE DEF m, q, y, x
      <3>3. PositionOK("reflect", m)
        BY <1>2, <1>3, <2>2, <3>1, RuntimeAssumption DEF PositionOK
      <3> QED
        BY <2>1, <3>1, <3>2, <3>3, MoveInv DEF Running
    <2>3. CASE q.pass # 1
      <3>1. NextStep(j, y, q)
        BY <1>4, <2>3 DEF AttemptReturns
      <3> HIDE DEF q, y, x
      <3> QED
        BY <1>3, <2>1, <3>1, NextStepInv
    <2> QED
      BY <2>2, <2>3
  <1>5. CASE AttemptRetries(j)
    <2> DEFINE m == [q EXCEPT !.attempt = @ + 1]
    <2>1. /\ m \in Run /\ m.emp = run[j].emp /\ m.step = q.step
          /\ m.calls = q.calls /\ m.pass = q.pass /\ m.attempt = run[j].attempt + 1
      <3> HIDE DEF q
      <3> QED
        BY <1>2, <1>3 DEF Run
    <2>2. run' = [run EXCEPT ![j] = m]
      BY <1>1, <1>5 DEF AttemptRetries, RuntimeInv, TypeOK, Run
    <2>3. SetExecutor(j, x) /\ pc' = [pc EXCEPT ![j] = "act"]
          /\ UNCHANGED <<store, taskOf>>
      BY <1>0, <1>1, <1>5 DEF AttemptRetries, SetExecutor, RuntimeInv, TypeOK
    <2>4. run[j].attempt # (IF run[j].pass = 1 THEN MaxRetries ELSE MaxRetries - 1)
      BY <1>5 DEF AttemptRetries, LastAttempt
    <2> HIDE DEF m, q, x
    <2>5. PositionOK("act", m)
      BY <1>2, <1>3, <2>1, <2>4, RuntimeAssumption DEF PositionOK
    <2> QED
      BY <1>1, <2>1, <2>2, <2>3, <2>5, MoveInv DEF Running
  <1>6. CASE AttemptsExhausted(j)
    <2>1. CASE run[j].pass = 1
      <3>1. StepFailed(j, q)
        BY <1>6, <2>1 DEF AttemptsExhausted
      <3> HIDE DEF q
      <3>2. q.step >= 1 /\ q.calls <= MaxRetries + 1
        BY <1>2, <1>3, <2>1, RuntimeAssumption
      <3> QED
        BY <1>1, <1>3, <3>1, <3>2, StepFailedInv
    <2>2. CASE run[j].pass # 1
      <3>1. AtStep(j, Fail(x, j, "stepError")) /\ Fail(x, j, "stepError").state # "running"
        BY <1>1, VerdictUsable DEF AtStep
      <3>2. Return(j, Fail(x, j, "stepError"))
        BY <1>6, <2>2 DEF AttemptsExhausted
      <3> QED
        BY <3>1, <3>2, ReturnInv
    <2> QED
      BY <2>1, <2>2
  <1> QED
    BY <1>4, <1>5, <1>6

\* reflect ends, one way or another.
LEMMA ReflectInv ==
  ASSUME RuntimeInv, NEW j \in Jobs,
         \/ \E c \in BOOLEAN : ReflectDecides(j, c)
         \/ ReflectSilent(j) \/ ReflectRaises(j)
  PROVE  RuntimeInv'
  <1> DEFINE x == exec[run[j].emp]
  <1>0. pc[j] = "reflect" /\ pc[j] \in Running
    BY DEF ReflectDecides, ReflectSilent, ReflectRaises, Running
  <1>1. /\ AtStep(j, x) /\ run[j].emp \in Employees /\ run[j] \in Run
        /\ PositionOK("reflect", run[j])
    BY <1>0, RunningAtStep
  <1>2. ASSUME NEW c \in BOOLEAN, ReflectDecides(j, c) PROVE RuntimeInv'
    <2>1. CASE NextStep(j, x, run[j])
      BY <1>1, <2>1, NextStepInv
    <2>2. CASE Return(j, CompleteIfRunning(x))
      <3>1. AtStep(j, CompleteIfRunning(x)) /\ CompleteIfRunning(x).state # "running"
        BY <1>1, CompleteUsable DEF AtStep
      <3> QED
        BY <2>2, <3>1, ReturnInv
    <2> QED
      BY <1>2, <2>1, <2>2 DEF ReflectDecides
  <1>3. CASE ReflectSilent(j)
    <2>1. run[j].more \in BOOLEAN
      BY <1>1 DEF Run
    <2> QED
      BY <1>2, <1>3, <2>1 DEF ReflectSilent
  <1>4. CASE ReflectRaises(j)
    <2>1. run[j].step >= 1 /\ run[j].calls <= MaxRetries + 1
      BY <1>1 DEF PositionOK
    <2> QED
      BY <1>1, <1>4, <2>1, StepFailedInv DEF ReflectRaises
  <1> QED
    BY <1>2, <1>3, <1>4

\* RUNTIME_TIMEOUT fires.
LEMMA TimeOutInv ==
  ASSUME RuntimeInv, NEW j \in Jobs, TimeOut(j)
  PROVE  RuntimeInv'
  <1> DEFINE o == [kind |-> "timeout", by |-> j]
  <1>1. AtStep(j, exec[run[j].emp]) /\ run[j].emp \in Employees
    BY RunningAtStep DEF TimeOut
  <1>2. SetExecutor(j, exec[run[j].emp])
    BY <1>1 DEF TimeOut, SetExecutor, RuntimeInv, TypeOK
  <1>3. o \in Result /\ o.kind # "none" /\ (o.by # NoJob => run[o.by].emp = run[j].emp)
    BY DEF Result
  <1> HIDE DEF o
  <1>4. UpdateOutcome(taskOf[j], "failed", o)
    BY DEF TimeOut, o
  <1> QED
    BY <1>1, <1>2, <1>3, <1>4, ReportInv DEF TimeOut

\* A row's status changes and nothing else about it does.
LEMMA StatusUpdate ==
  ASSUME RuntimeInv, NEW t \in Tasks,
         NEW s \in {"running", "cancelled"}, UpdateStatus(t, s)
  PROVE  /\ status' \in [Tasks -> Lifecycle!Status]
         /\ \A u \in Tasks : status'[u] \in {status[u], s}
         /\ UNCHANGED result
  BY DEF UpdateStatus, Lifecycle!UpdateRow, Lifecycle!Status, RuntimeInv, TypeOK

\* _execute_task starts, or dies on a blank employee id.
LEMMA StartInv ==
  ASSUME RuntimeInv, NEW j \in Jobs, Begin(j) \/ Die(j)
  PROVE  RuntimeInv'
  <1> DEFINE e == run[j].emp
             x == SelectAgent(StartExecutor(GetOrCreate(e)), run[j].agent)
  <1>0. pc[j] = "queued" /\ UpdateStatus(taskOf[j], "running")
        /\ UNCHANGED <<taskOf, run>>
    BY DEF Begin, Die
  <1>1. e \in Employees /\ taskOf[j] \in Tasks /\ run[j] \in Run
    BY <1>0, MadeFacts
  <1>2. /\ status' \in [Tasks -> Lifecycle!Status]
        /\ \A u \in Tasks : status'[u] \in {status[u], "running"}
        /\ UNCHANGED result
    BY <1>0, <1>1, StatusUpdate
  <1>3. ResultsStayWithEmployee' /\ CompletedHasResult'
    BY <1>0, <1>2 DEF RuntimeInv, ResultsStayWithEmployee, CompletedHasResult
  <1>4. CASE Begin(j)
    <2>1. x \in Executor /\ OwnExecutor(x, e) /\ x.state = "running"
      <3>1. NoExecutor \in Executor /\ OwnExecutor(NoExecutor, e)
        BY RuntimeAssumption
        DEF NoExecutor, NoResult, Executor, Result, OwnExecutor
      <3>2. exec[e] \in Executor /\ OwnExecutor(exec[e], e)
        BY <1>1 DEF RuntimeInv, TypeOK, ExecutorsOwned
      <3>3. \E y \in Executor : /\ OwnExecutor(y, e)
                                /\ x = [y EXCEPT !.state = "running",
                                                 !.agent = run[j].agent]
        <4>1. CASE exec[e].state = "absent"
          BY <3>1, <4>1 DEF SelectAgent, StartExecutor, GetOrCreate, Executor
        <4>2. CASE exec[e].state # "absent"
          BY <3>2, <4>2 DEF SelectAgent, StartExecutor, GetOrCreate, Executor
        <4> QED
          BY <4>1, <4>2
      <3>4. run[j].agent \in Agents
        BY <1>1 DEF Run
      <3> HIDE DEF x
      <3> QED
        BY <3>3, <3>4 DEF Executor, OwnExecutor
    <2> HIDE DEF x
    <2>2. \A f \in Employees : exec'[f] = IF f = e THEN x ELSE exec[f]
      BY <1>1, <1>4 DEF Begin, SetExecutor, RuntimeInv, TypeOK, x
    <2>3. exec' \in [Employees -> Executor] /\ pc' = [pc EXCEPT ![j] = "plan"]
      BY <1>1, <1>4, <2>1 DEF Begin, SetExecutor, RuntimeInv, TypeOK, x
    <2>4. TypeOK'
      BY <1>0, <1>2, <2>3 DEF RuntimeInv, TypeOK, PC, Running
    <2>5. MadeRequests' /\ RunPosition'
      BY <1>0, <2>3 DEF RuntimeInv, TypeOK, MadeRequests, RunPosition, PositionOK
    <2>6. ExecutorsOwned'
      <3>1. \A f \in Employees : OwnExecutor(exec'[f], f) /\ exec'[f] \in Executor
        BY <2>1, <2>2 DEF RuntimeInv, ExecutorsOwned, TypeOK
      <3> QED
        BY <1>0, <3>1, OwnedStays
    <2>7. RunsHaveExecutor'
      BY <1>0, <1>1, <2>1, <2>2, <2>3, MadeFacts
      DEF RunsHaveExecutor, RuntimeInv, TypeOK, Running
    <2> QED
      BY <1>3, <2>4, <2>5, <2>6, <2>7 DEF RuntimeInv
  <1>5. CASE Die(j)
    BY <1>0, <1>1, <1>2, <1>3, <1>5
    DEF Die, RuntimeInv, TypeOK, PC, Running, MadeRequests, RunPosition,
        PositionOK, ExecutorsOwned, OwnExecutor, RunsHaveExecutor
  <1> QED
    BY <1>4, <1>5

-----------------------------------------------------------------------------
(* The other handlers, and the process. *)

\* Nothing the invariant says of the old requests changes when a new one is
\* made: no executor and no row refers to a request before it is made.
LEMMA NewRequest ==
  ASSUME RuntimeInv, NEW j \in Jobs, pc[j] = "unused", NEW t \in Tasks,
         NEW e \in Employees, NEW a \in Agents,
         NEW c \in {"queued", "planning"}, pc' = [pc EXCEPT ![j] = c],
         taskOf' = [taskOf EXCEPT ![j] = t],
         run' = [run EXCEPT ![j] = NewRun(e, a)]
  PROVE  /\ pc' \in [Jobs -> PC]
         /\ taskOf' \in [Jobs -> Tasks \cup {NoTask}]
         /\ run' \in [Jobs -> Run]
         /\ MadeRequests'
         /\ RunPosition'
         /\ \A k \in Jobs \ {j} : run'[k] = run[k] /\ pc'[k] = pc[k]
         /\ \A k \in Jobs : run[k].emp \in Employees => run'[k].emp = run[k].emp
         /\ \A k \in Jobs : taskOf[k] \in Tasks =>
                taskOf'[k] = taskOf[k] /\ run'[k].emp = run[k].emp
                /\ run[k].emp \in Employees
  <1>1. NewRun(e, a) \in Run /\ NewRun(e, a).emp = e /\ NewRun(e, a).calls = 0
    BY RuntimeAssumption DEF NewRun, Run
  <1>2. run[j].emp = NoEmployee /\ taskOf[j] = NoTask
    BY DEF RuntimeInv, MadeRequests
  <1>3. run'[j] = NewRun(e, a) /\ pc'[j] = c /\ taskOf'[j] = t
    BY DEF RuntimeInv, TypeOK
  <1>4. \A k \in Jobs \ {j} :
          run'[k] = run[k] /\ pc'[k] = pc[k] /\ taskOf'[k] = taskOf[k]
    BY DEF RuntimeInv, TypeOK
  <1>5. MadeRequests'
    BY <1>1, <1>3, <1>4, RuntimeAssumption DEF RuntimeInv, MadeRequests
  <1>6. RunPosition'
    BY <1>1, <1>3, <1>4 DEF RuntimeInv, RunPosition, PositionOK
  <1>7. /\ pc' \in [Jobs -> PC]
        /\ taskOf' \in [Jobs -> Tasks \cup {NoTask}]
        /\ run' \in [Jobs -> Run]
    BY <1>1 DEF RuntimeInv, TypeOK, PC
  <1>8. \A k \in Jobs : taskOf[k] \in Tasks => run[k].emp \in Employees /\ k # j
    BY <1>2, RuntimeAssumption, MadeFacts DEF RuntimeInv, MadeRequests
  <1> QED
    BY <1>2, <1>4, <1>5, <1>6, <1>7, <1>8, RuntimeAssumption

\* POST /runtime/execute and POST /runtime/plan.
LEMMA RequestInv ==
  ASSUME RuntimeInv, NEW j \in Jobs, NEW t \in Tasks, NEW e \in Employees,
         NEW a \in Agents, ExecuteTask(j, t, e, a) \/ GeneratePlan(j, t, e, a)
  PROVE  RuntimeInv'
  <1>1. PICK c \in {"queued", "planning"} : pc' = [pc EXCEPT ![j] = c]
    BY DEF ExecuteTask, GeneratePlan
  <1>0. /\ pc[j] = "unused"
        /\ taskOf' = [taskOf EXCEPT ![j] = t]
        /\ run' = [run EXCEPT ![j] = NewRun(e, a)]
    BY DEF ExecuteTask, GeneratePlan
  <1>2. /\ pc' \in [Jobs -> PC]
        /\ taskOf' \in [Jobs -> Tasks \cup {NoTask}]
        /\ run' \in [Jobs -> Run]
        /\ MadeRequests'
        /\ RunPosition'
        /\ \A k \in Jobs \ {j} : run'[k] = run[k] /\ pc'[k] = pc[k]
        /\ \A k \in Jobs : run[k].emp \in Employees => run'[k].emp = run[k].emp
        /\ \A k \in Jobs : taskOf[k] \in Tasks =>
               taskOf'[k] = taskOf[k] /\ run'[k].emp = run[k].emp
               /\ run[k].emp \in Employees
    BY <1>0, <1>1, NewRequest
  <1>3. /\ status' \in [Tasks -> Lifecycle!Status]
        /\ \A u \in Tasks : \/ status'[u] = status[u] /\ result'[u] = result[u]
                            \/ status'[u] = "queued" /\ result'[u] = NoResult
        /\ result' \in [Tasks -> Result]
    <2>1. NoResult \in Result
      BY DEF NoResult, Result
    <2>2. CASE ExecuteTask(j, t, e, a)
      BY <2>1, <2>2 DEF ExecuteTask, CreateTask, Lifecycle!CreateRow,
                        Lifecycle!Status, RuntimeInv, TypeOK
    <2>3. CASE GeneratePlan(j, t, e, a)
      BY <2>3 DEF GeneratePlan, store, RuntimeInv, TypeOK
    <2> QED
      BY <2>2, <2>3
  <1>4. \A f \in Employees :
          /\ exec'[f] \in Executor
          /\ OwnExecutor(exec'[f], f)
          /\ exec[f].state \notin {"absent", "idle"} =>
                exec'[f].state \notin {"absent", "idle"}
    <2>1. CASE ExecuteTask(j, t, e, a)
      BY <2>1 DEF ExecuteTask, RuntimeInv, TypeOK, ExecutorsOwned
    <2>2. CASE GeneratePlan(j, t, e, a)
      <3> DEFINE x == SelectAgent(GetOrCreate(e), a)
      <3>1. /\ x \in Executor
            /\ exec[e].state \notin {"absent", "idle"} =>
                  x.state \notin {"absent", "idle"}
            /\ OwnExecutor(x, e)
        <4>1. CASE exec[e].state = "absent"
          <5>1. NoExecutor \in Executor /\ OwnExecutor(NoExecutor, e)
            BY RuntimeAssumption
            DEF NoExecutor, NoResult, Executor, Result, OwnExecutor
          <5>2. x = [NoExecutor EXCEPT !.state = "idle", !.agent = a]
            BY <4>1, <5>1 DEF SelectAgent, GetOrCreate, Executor
          <5> HIDE DEF x
          <5> QED
            BY <4>1, <5>1, <5>2 DEF Executor, OwnExecutor
        <4>2. CASE exec[e].state # "absent"
          <5>1. exec[e] \in Executor /\ OwnExecutor(exec[e], e)
            BY DEF RuntimeInv, TypeOK, ExecutorsOwned
          <5>2. x = [exec[e] EXCEPT !.agent = a]
            BY <4>2 DEF SelectAgent, GetOrCreate
          <5> HIDE DEF x
          <5> QED
            BY <5>1, <5>2 DEF Executor, OwnExecutor
        <4> QED
          BY <4>1, <4>2
      <3> HIDE DEF x
      <3>2. exec' = [exec EXCEPT ![e] = x]
        BY <2>2 DEF GeneratePlan, x
      <3> QED
        BY <3>1, <3>2 DEF RuntimeInv, TypeOK, ExecutorsOwned
    <2> QED
      BY <2>1, <2>2
  <1>5. exec' \in [Employees -> Executor]
    BY <1>4 DEF ExecuteTask, GeneratePlan, RuntimeInv, TypeOK
  <1>6. ExecutorsOwned'
    <2> SUFFICES ASSUME NEW f \in Employees PROVE OwnExecutor(exec[f], f)'
      BY DEF ExecutorsOwned
    <2>1. OwnExecutor(exec'[f], f) /\ exec'[f] \in Executor
      BY <1>4
    <2>2. /\ \A i \in 1..Len(exec'[f].results) : exec'[f].results[i].job \in Jobs
          /\ exec'[f].result.by # NoJob => exec'[f].result.by \in Jobs
      BY <2>1, EntryJobs
    <2> QED
      BY <1>2, <2>1, <2>2 DEF OwnExecutor
  <1>7. RunsHaveExecutor'
    <2> SUFFICES ASSUME NEW k \in Jobs, pc'[k] \in Running
                 PROVE  exec'[run'[k].emp].state \notin {"absent", "idle"}
      BY DEF RunsHaveExecutor
    <2>1. k # j
      BY <1>1 DEF RuntimeInv, TypeOK, Running
    <2>2. run[k].emp \in Employees
      BY <1>2, <2>1, MadeFacts DEF Running
    <2> QED
      BY <1>2, <1>4, <2>1, <2>2 DEF RuntimeInv, RunsHaveExecutor
  <1>8. ResultsStayWithEmployee'
    <2> SUFFICES ASSUME NEW u \in Tasks, result'[u].by # NoJob
                 PROVE  \E k \in Jobs :
                           taskOf'[k] = u /\ run'[k].emp = run'[result'[u].by].emp
      BY DEF ResultsStayWithEmployee
    <2>1. result'[u] = result[u]
      BY <1>3 DEF NoResult
    <2>2. PICK k \in Jobs : taskOf[k] = u /\ run[k].emp = run[result[u].by].emp
      BY <2>1 DEF RuntimeInv, ResultsStayWithEmployee
    <2>3. result[u].by \in Jobs
      BY <2>1 DEF RuntimeInv, TypeOK, Result
    <2> QED
      BY <1>2, <2>1, <2>2, <2>3
  <1>9. CompletedHasResult'
    BY <1>3 DEF RuntimeInv, CompletedHasResult
  <1> QED
    BY <1>2, <1>3, <1>5, <1>6, <1>7, <1>8, <1>9 DEF RuntimeInv, TypeOK

\* The plan request ends, or a cancel request writes a row.
LEMMA RowInv ==
  ASSUME RuntimeInv,
         \/ \E j \in Jobs : PlanStored(j) \/ PlanRefused(j)
         \/ \E t \in Tasks : CancelTask(t)
  PROVE  RuntimeInv'
  <1> USE DEF TypeOK, MadeRequests, RunPosition, ExecutorsOwned, OwnExecutor,
              RunsHaveExecutor, ResultsStayWithEmployee, CompletedHasResult
  <1>1. ASSUME NEW j \in Jobs, PlanStored(j) PROVE RuntimeInv'
    <2>1. taskOf[j] \in Tasks
      BY <1>1, MadeFacts DEF PlanStored
    <2>2. NoResult \in Result
      BY DEF NoResult, Result
    <2>3. /\ status' \in [Tasks -> Lifecycle!Status]
          /\ result' \in [Tasks -> Result]
          /\ \A u \in Tasks : \/ status'[u] = status[u] /\ result'[u] = result[u]
                              \/ status'[u] = "planned" /\ result'[u] = NoResult
      BY <1>1, <2>1, <2>2 DEF PlanStored, CreateTask, Lifecycle!CreateRow,
                              Lifecycle!Status, RuntimeInv
    <2> QED
      BY <1>1, <2>3 DEF RuntimeInv, PlanStored, PC, Running, PositionOK, NoResult
  <1>2. ASSUME NEW j \in Jobs, PlanRefused(j) PROVE RuntimeInv'
    BY <1>2 DEF RuntimeInv, PlanRefused, PC, Running, PositionOK, store
  <1>3. ASSUME NEW t \in Tasks, CancelTask(t) PROVE RuntimeInv'
    <2>1. /\ status' \in [Tasks -> Lifecycle!Status]
          /\ \A u \in Tasks : status'[u] \in {status[u], "cancelled"}
          /\ UNCHANGED result
      BY <1>3, StatusUpdate DEF CancelTask
    <2> QED
      BY <1>3, <2>1 DEF RuntimeInv, CancelTask
  <1> QED
    BY <1>1, <1>2, <1>3

\* The process crashes or shuts down.
LEMMA ProcessInv ==
  ASSUME RuntimeInv, Crash \/ Shutdown
  PROVE  RuntimeInv'
  <1>1. NoExecutor \in Executor /\ \A e \in Employees : OwnExecutor(NoExecutor, e)
    BY RuntimeAssumption
    DEF NoExecutor, NoResult, Executor, Result, OwnExecutor
  <1>2. \A e \in Employees : exec'[e] = NoExecutor
    BY DEF Crash, Shutdown
  <1>3. exec' \in [Employees -> Executor]
    BY <1>1 DEF Crash, Shutdown
  <1>4. /\ \A j \in Jobs : run'[j].emp = run[j].emp
        /\ run' \in [Jobs -> Run]
        /\ UNCHANGED taskOf
    <2>1. \A j \in Jobs : run[j].emp \in Employees \cup {NoEmployee} /\ run[j].agent \in Agents
      BY DEF RuntimeInv, TypeOK, Run
    <2>2. \A j \in Jobs : /\ NewRun(run[j].emp, run[j].agent) \in Run
                          /\ NewRun(run[j].emp, run[j].agent).emp = run[j].emp
      BY <2>1, RuntimeAssumption DEF NewRun, Run
    <2>3. CASE Crash
      BY <2>2, <2>3 DEF Crash
    <2>4. CASE Shutdown
      BY <2>4 DEF Shutdown, RuntimeInv, TypeOK
    <2> QED
      BY <2>3, <2>4
  <1>5. /\ pc' \in [Jobs -> PC]
        /\ \A j \in Jobs : pc'[j] \notin Running
        /\ \A j \in Jobs : pc'[j] = "unused" <=> pc[j] = "unused"
    BY DEF Crash, Shutdown, PhaseOf, Lifecycle!Open, RuntimeInv, TypeOK, PC, Running
  <1>6. /\ status' \in [Tasks -> Lifecycle!Status]
        /\ result' \in [Tasks -> Result]
        /\ \/ UNCHANGED <<status, result>>
           \/ \A t \in Tasks : status'[t] = "absent" /\ result'[t] = NoResult
    BY DEF Crash, Shutdown, store, RuntimeInv, TypeOK, Lifecycle!Status,
           NoResult, Result
  <1>7. MadeRequests'
    BY <1>4, <1>5 DEF RuntimeInv, MadeRequests
  <1>8. RunPosition'
    <2>1. CASE Crash
      BY <1>5, <2>1 DEF Crash, RunPosition, PositionOK, NewRun, Running
    <2>2. CASE Shutdown
      BY <1>5, <2>2 DEF Shutdown, RunPosition, PositionOK, Running, RuntimeInv
    <2> QED
      BY <2>1, <2>2
  <1>9. ExecutorsOwned'
    BY <1>1, <1>2, <1>4, OwnedStays
  <1>10. RunsHaveExecutor'
    BY <1>5 DEF RunsHaveExecutor
  <1>11. ResultsStayWithEmployee' /\ CompletedHasResult'
    BY <1>4, <1>6 DEF RuntimeInv, ResultsStayWithEmployee, CompletedHasResult,
                      NoResult, TypeOK, Result
  <1> QED
    BY <1>3, <1>4, <1>5, <1>6, <1>7, <1>8, <1>9, <1>10, <1>11
    DEF RuntimeInv, TypeOK

-----------------------------------------------------------------------------
(* The theorems. *)

\* The service starts with no executor, no request and no row.
LEMMA InitInv == Init => RuntimeInv
  <1> SUFFICES ASSUME Init PROVE RuntimeInv
    OBVIOUS
  <1>1. /\ NoResult \in Result
        /\ NoExecutor \in Executor
        /\ \A e \in Employees : OwnExecutor(NoExecutor, e)
        /\ NewRun(NoEmployee, DefaultAgent) \in Run
        /\ NewRun(NoEmployee, DefaultAgent).emp = NoEmployee
        /\ NewRun(NoEmployee, DefaultAgent).calls = 0
    BY RuntimeAssumption
    DEF NoResult, Result, NoExecutor, Executor, OwnExecutor, NewRun, Run
  <1>2. TypeOK
    BY <1>1 DEF Init, TypeOK, Lifecycle!Status, PC
  <1> QED
    BY <1>1, <1>2
    DEF Init, RuntimeInv, MadeRequests, RunPosition, PositionOK, ExecutorsOwned,
        RunsHaveExecutor, Running, ResultsStayWithEmployee, CompletedHasResult,
        NoResult

\* Every step of the service keeps the invariant.
LEMMA NextInv == RuntimeInv /\ [Next]_vars => RuntimeInv'
  <1> SUFFICES ASSUME RuntimeInv, [Next]_vars PROVE RuntimeInv'
    OBVIOUS
  <1>1. ASSUME NEW j \in Jobs, RunStep(j) PROVE RuntimeInv'
    BY <1>1, StartInv, PlanStepsInv, AttemptInv, ReflectInv, TimeOutInv
    DEF RunStep
  <1>2. CASE UNCHANGED vars
    BY <1>2
    DEF vars, RuntimeInv, TypeOK, MadeRequests, RunPosition, PositionOK,
        ExecutorsOwned, OwnExecutor, RunsHaveExecutor, ResultsStayWithEmployee,
        CompletedHasResult
  <1> QED
    BY <1>1, <1>2, RequestInv, RowInv, ProcessInv DEF Next

\* The inductive invariant holds in every behaviour of the service.
THEOREM RuntimeInvariant == Spec => []RuntimeInv
  BY InitInv, NextInv, PTL DEF Spec

\* Rows, executors and run coroutines keep their types.
THEOREM RuntimeTypeCorrect == Spec => []TypeOK
  <1>1. RuntimeInv => TypeOK
    BY DEF RuntimeInv
  <1> QED
    BY <1>1, RuntimeInvariant, PTL

\* Results never cross from one employee to another, for any number of
\* employees and of requests interleaving on the shared executors.
THEOREM ResultsNeverCrossEmployees == Spec => []ResultsStayWithEmployee
  <1>1. RuntimeInv => ResultsStayWithEmployee
    BY DEF RuntimeInv
  <1> QED
    BY <1>1, RuntimeInvariant, PTL

\* A completed record always carries a result.
THEOREM CompletedRecordsHaveResults == Spec => []CompletedHasResult
  <1>1. RuntimeInv => CompletedHasResult
    BY DEF RuntimeInv
  <1> QED
    BY <1>1, RuntimeInvariant, PTL

\* A step costs at most 2 * max_retries + 1 agent calls, for every max_retries.
THEOREM CallsAreBounded == Spec => []CallBudget
  <1>1. RuntimeInv => CallBudget
    <2> SUFFICES ASSUME RuntimeInv, NEW j \in Jobs
                 PROVE  CallsMade(j) <= 2 * MaxRetries + 1
      BY DEF CallBudget
    <2>1. PositionOK(pc[j], run[j]) /\ run[j].calls \in Nat /\ run[j].attempt \in Nat
      BY DEF RuntimeInv, RunPosition, TypeOK, Run
    <2>2. CASE pc[j] = "act"
      BY <2>1, <2>2, RuntimeAssumption DEF PositionOK, CallsMade
    <2>3. CASE pc[j] # "act"
      BY <2>1, <2>3, RuntimeAssumption DEF PositionOK, CallsMade
    <2> QED
      BY <2>2, <2>3
  <1> QED
    BY <1>1, RuntimeInvariant, PTL

-----------------------------------------------------------------------------
(* The step results of interleaved runs. *)

\* An entry of request k leaves the entries of the other requests where they are.
LEMMA OthersEntries ==
  ASSUME NEW rs \in Seq(StepResult), NEW k \in Jobs, NEW s \in 1..MaxSteps,
         NEW j \in Jobs, j # k, NEW c, NEW r, EntriesFit(rs, j, c, r)
  PROVE  EntriesFit(Append(rs, [job |-> k, step |-> s]), j, c, r)
  <1> DEFINE entry == [job |-> k, step |-> s]
             new == Append(rs, entry)
  <1>1. /\ Len(new) = Len(rs) + 1 /\ Len(rs) \in Nat
        /\ \A i \in 1..Len(rs) : new[i] = rs[i]
        /\ new[Len(rs) + 1] = entry
    BY DEF StepResult
  <1>2. entry.job = k
    OBVIOUS
  <1> HIDE DEF new, entry
  <1>3. EntriesOf(new, j) = EntriesOf(rs, j)
    BY <1>1, <1>2 DEF EntriesOf
  <1>4. \A i \in EntriesOf(rs, j) : new[i] = rs[i]
    BY <1>1 DEF EntriesOf
  <1>5. \A n : EntriesFor(new, j, n) = EntriesFor(rs, j, n)
    BY <1>3, <1>4 DEF EntriesFor
  <1>6. EntriesFit(new, j, c, r)
    BY <1>3, <1>4, <1>5 DEF EntriesFit, InPlanOrder
  <1> QED
    BY <1>6 DEF new, entry

\* The list new has one more entry than rs, of request j for step s.
OneMore(rs, new, j, s) ==
    /\ Len(rs) \in Nat
    /\ EntriesOf(new, j) = EntriesOf(rs, j) \cup {Len(rs) + 1}
    /\ \A i \in EntriesOf(rs, j) : i \in 1..Len(rs) /\ new[i] = rs[i]
    /\ new[Len(rs) + 1].step = s
    /\ EntriesFor(new, j, s) = EntriesFor(rs, j, s) \cup {Len(rs) + 1}
    /\ \A n : n # s => EntriesFor(new, j, n) = EntriesFor(rs, j, n)
    /\ \A n : IsFiniteSet(EntriesFor(rs, j, n))

\* Appending makes such a list.
LEMMA OwnEntries ==
  ASSUME NEW rs \in Seq(StepResult), NEW j \in Jobs, NEW s \in 1..MaxSteps,
         NEW new
  PROVE  new = Append(rs, [job |-> j, step |-> s]) => OneMore(rs, new, j, s)
  <1> HAVE new = Append(rs, [job |-> j, step |-> s])
  <1> DEFINE entry == [job |-> j, step |-> s]
  <1>1. /\ Len(new) = Len(rs) + 1 /\ Len(rs) \in Nat
        /\ \A i \in 1..Len(rs) : new[i] = rs[i]
        /\ new[Len(rs) + 1] = entry
    BY DEF StepResult
  <1>2. entry.job = j /\ entry.step = s
    OBVIOUS
  <1> HIDE DEF entry
  <1>3. /\ EntriesOf(new, j) = EntriesOf(rs, j) \cup {Len(rs) + 1}
        /\ Len(rs) + 1 \notin EntriesOf(rs, j)
    BY <1>1, <1>2 DEF EntriesOf
  <1>4. \A i \in EntriesOf(rs, j) : i \in 1..Len(rs) /\ new[i] = rs[i]
    BY <1>1 DEF EntriesOf
  <1>5. /\ EntriesFor(new, j, s) = EntriesFor(rs, j, s) \cup {Len(rs) + 1}
        /\ \A n : n # s => EntriesFor(new, j, n) = EntriesFor(rs, j, n)
    BY <1>1, <1>2, <1>3, <1>4 DEF EntriesFor
  <1>6. \A n : IsFiniteSet(EntriesFor(rs, j, n))
    <2>1. IsFiniteSet(1..Len(rs))
      BY <1>1, FS_Interval
    <2>2. \A n : EntriesFor(rs, j, n) \in SUBSET (1..Len(rs))
      BY DEF EntriesFor, EntriesOf
    <2> QED
      BY <2>1, <2>2, FS_Subset
  <1> QED
    BY <1>1, <1>2, <1>3, <1>4, <1>5, <1>6 DEF OneMore

\* A request may enter step s: it has entries for all earlier steps, and only
\* for those.
ReadyFor(rs, j, s) ==
    /\ InPlanOrder(rs, j)
    /\ \A i \in EntriesOf(rs, j) : rs[i].step < s
    /\ \A n \in 1..s - 1 : EntriesFor(rs, j, n) # {}

\* The result of step s, in the first pass or the second.
LEMMA StepRecorded ==
  ASSUME NEW rs \in Seq(StepResult), NEW j \in Jobs, NEW s \in 1..MaxSteps,
         NEW r, r.step = s, EntriesFit(rs, j, "act", r),
         NEW new, new = Append(rs, [job |-> j, step |-> s])
  PROVE  /\ ReadyFor(new, j, s + 1)
         /\ r.pass = 1 =>
               \A q : q.step = s => EntriesFit(new, j, "reflect", q)
  <1>0. /\ Len(rs) \in Nat
        /\ EntriesOf(new, j) = EntriesOf(rs, j) \cup {Len(rs) + 1}
        /\ \A i \in EntriesOf(rs, j) : i \in 1..Len(rs) /\ new[i] = rs[i]
        /\ new[Len(rs) + 1].step = s
        /\ EntriesFor(new, j, s) = EntriesFor(rs, j, s) \cup {Len(rs) + 1}
        /\ \A n : n # s => EntriesFor(new, j, n) = EntriesFor(rs, j, n)
        /\ \A n : IsFiniteSet(EntriesFor(rs, j, n))
    <2>1. OneMore(rs, new, j, s)
      BY OwnEntries
    <2> QED
      BY <2>1 DEF OneMore
  <1>1. /\ InPlanOrder(rs, j)
        /\ \A i \in EntriesOf(rs, j) : rs[i].step <= s
        /\ \A n \in 1..s - 1 : EntriesFor(rs, j, n) # {}
        /\ Cardinality(EntriesFor(rs, j, s)) <= 1
        /\ r.pass = 1 => EntriesFor(rs, j, s) = {}
    BY DEF EntriesFit
  <1>2. \A i \in EntriesOf(rs, j) : rs[i].step \in 1..MaxSteps
    <2>1. \A i \in 1..Len(rs) : rs[i] \in StepResult
      OBVIOUS
    <2> QED
      BY <1>0, <2>1 DEF StepResult
  <1>3. /\ Cardinality(EntriesFor(new, j, s)) <= 2
        /\ r.pass = 1 => Cardinality(EntriesFor(new, j, s)) <= 1
    <2>1. Cardinality(EntriesFor(new, j, s)) <= Cardinality(EntriesFor(rs, j, s)) + 1
      <3>0. IsFiniteSet(EntriesFor(rs, j, s))
        BY <1>0
      <3>1. Cardinality(EntriesFor(rs, j, s)) \in Nat
        BY <1>0, FS_CardinalityType
      <3>2. Cardinality(EntriesFor(rs, j, s) \cup {Len(rs) + 1})
              <= Cardinality(EntriesFor(rs, j, s)) + 1
        <4> DEFINE S == EntriesFor(rs, j, s)
                   x == Len(rs) + 1
        <4> HIDE DEF S, x
        <4>1. Cardinality(S \cup {x}) = IF x \in S THEN Cardinality(S) ELSE Cardinality(S) + 1
          BY <3>0, FS_AddElement DEF S
        <4> QED
          BY <3>1, <4>1 DEF S, x
      <3> QED
        BY <1>0, <3>2
    <2>2. r.pass = 1 => Cardinality(EntriesFor(rs, j, s)) = 0
      BY <1>1, FS_EmptySet
    <2>3. /\ Cardinality(EntriesFor(rs, j, s)) \in Nat
          /\ Cardinality(EntriesFor(new, j, s)) \in Nat
      <3>0. IsFiniteSet(EntriesFor(rs, j, s))
        BY <1>0
      <3>1. IsFiniteSet(EntriesFor(rs, j, s) \cup {Len(rs) + 1})
        BY <3>0, FS_AddElement
      <3> QED
        BY <1>0, <3>1, FS_CardinalityType
    <2> QED
      BY <1>1, <2>1, <2>2, <2>3
  <1>4. \A n \in 1..s : EntriesFor(new, j, n) # {}
    <2> SUFFICES ASSUME NEW n \in 1..s PROVE EntriesFor(new, j, n) # {}
      OBVIOUS
    <2>1. CASE n = s
      BY <1>0, <2>1
    <2>2. CASE n # s
      BY <1>0, <1>1, <2>2
    <2> QED
      BY <2>1, <2>2
  <1>5. \A i \in EntriesOf(new, j) : new[i].step <= s
    BY <1>0, <1>1
  <1>6. InPlanOrder(new, j)
    <2>1. \A i, k \in EntriesOf(new, j) : i < k => new[i].step <= new[k].step
      <3> SUFFICES ASSUME NEW i \in EntriesOf(new, j), NEW k \in EntriesOf(new, j), i < k
                   PROVE  new[i].step <= new[k].step
        OBVIOUS
      <3>1. CASE k = Len(rs) + 1
        BY <1>0, <1>5, <3>1
      <3>2. CASE k # Len(rs) + 1
        <4>1. k \in EntriesOf(rs, j) /\ i \in EntriesOf(rs, j)
          BY <1>0, <3>2
        <4> QED
          BY <1>0, <1>1, <4>1 DEF InPlanOrder
      <3> QED
        BY <3>1, <3>2
    <2>2. \A i \in EntriesOf(new, j), n \in 1..MaxSteps :
             n < new[i].step => EntriesFor(new, j, n) # {}
      BY <1>0, <1>1, <1>2, <1>4, <1>5
    <2>3. \A n \in 1..MaxSteps : Cardinality(EntriesFor(new, j, n)) <= 2
      BY <1>0, <1>1, <1>3 DEF InPlanOrder
    <2> QED
      BY <2>1, <2>2, <2>3 DEF InPlanOrder
  <1>7. ReadyFor(new, j, s + 1)
    <2>1. \A i \in EntriesOf(new, j) : new[i].step < s + 1
      BY <1>0, <1>2, <1>5
    <2>2. \A n \in 1..(s + 1) - 1 : EntriesFor(new, j, n) # {}
      BY <1>4
    <2> QED
      BY <1>6, <2>1, <2>2 DEF ReadyFor
  <1>8. ASSUME r.pass = 1, NEW q, q.step = s
        PROVE  EntriesFit(new, j, "reflect", q)
    <2>1. Cardinality(EntriesFor(new, j, s)) <= 1 /\ EntriesFor(new, j, s) # {}
      BY <1>3, <1>4, <1>8
    <2>2. \A n \in 1..s - 1 : EntriesFor(new, j, n) # {}
      BY <1>4
    <2> QED
      BY <1>5, <1>6, <1>8, <2>1, <2>2 DEF EntriesFit
  <1> QED
    BY <1>7, <1>8

\* Request j has moved and left rs in its executor's step_results; nothing else
\* is different about requests and step_results.
Moved(j, rs) ==
    /\ \A i \in Jobs \ {j} : pc'[i] = pc[i] /\ run'[i] = run[i]
    /\ run'[j].emp = run[j].emp
    /\ \A e \in Employees :
          exec'[e].results = IF e = run[j].emp THEN rs ELSE exec[e].results

\* One more entry of request j, or none.
Grown(j, rs) ==
    \/ rs = exec[run[j].emp].results
    \/ \E s \in 1..MaxSteps :
          rs = Append(exec[run[j].emp].results, [job |-> j, step |-> s])

\* Such a move disturbs no other run.
LEMMA MovedInOrder ==
  ASSUME RuntimeInv, RunsInOrder, NEW j \in Jobs, run[j].emp \in Employees,
         NEW rs, Grown(j, rs), Moved(j, rs), EntriesFit(rs, j, pc'[j], run'[j])
  PROVE  RunsInOrder'
  <1> SUFFICES ASSUME NEW i \in Jobs, run'[i].emp # NoEmployee
               PROVE  EntriesFit(exec'[run'[i].emp].results, i, pc'[i], run'[i])
    BY DEF RunsInOrder, EntriesFit, InPlanOrder, EntriesOf, EntriesFor
  <1>1. CASE i = j
    BY <1>1 DEF Moved
  <1>2. CASE i # j
    <2> DEFINE e == run[i].emp
    <2>1. pc'[i] = pc[i] /\ run'[i] = run[i]
      BY <1>2 DEF Moved
    <2>2. e \in Employees /\ exec[e] \in Executor
      BY <2>1 DEF RuntimeInv, TypeOK, Run
    <2>3. EntriesFit(exec[e].results, i, pc[i], run[i])
      BY <2>1 DEF RunsInOrder
    <2>4. CASE exec'[e].results = exec[e].results
      BY <2>1, <2>3, <2>4
    <2>5. ASSUME NEW s \in 1..MaxSteps,
                 exec'[e].results = Append(exec[e].results, [job |-> j, step |-> s])
          PROVE  EntriesFit(exec'[e].results, i, pc[i], run[i])
      <3>1. exec[e].results \in Seq(StepResult)
        BY <2>2 DEF Executor
      <3> HIDE DEF e
      <3>2. EntriesFit(Append(exec[e].results, [job |-> j, step |-> s]), i, pc[i], run[i])
        BY <1>2, <2>3, <3>1, OthersEntries
      <3> QED
        BY <2>5, <3>2
    <2>6. exec'[e].results = IF e = run[j].emp THEN rs ELSE exec[e].results
      BY <2>2 DEF Moved
    <2> QED
      BY <2>1, <2>4, <2>5, <2>6 DEF Grown
  <1> QED
    BY <1>1, <1>2

\* What a step that assigns to the executor and the request of j amounts to.
LEMMA AssignMoves ==
  ASSUME RuntimeInv, NEW j \in Jobs, run[j].emp \in Employees, NEW x,
         SetExecutor(j, x), NEW c, pc' = [pc EXCEPT ![j] = c],
         NEW r, r.emp = run[j].emp, run' = [run EXCEPT ![j] = r]
  PROVE  /\ Moved(j, x.results)
         /\ pc'[j] = c /\ run'[j] = r
  BY DEF RuntimeInv, TypeOK, SetExecutor, Moved

\* A run that returns leaves its entries as they are.
LEMMA ReturnInOrder ==
  ASSUME RuntimeInv, RunsInOrder, NEW j \in Jobs, AtStep(j, exec[run[j].emp]),
         NEW x, Grown(j, x.results), InPlanOrder(x.results, j), Return(j, x)
  PROVE  RunsInOrder'
  <1> DEFINE r == NewRun(run[j].emp, run[j].agent)
  <1>1. run[j].emp \in Employees
    BY MadeFacts DEF AtStep, Running
  <1>2. r.emp = run[j].emp /\ r.step = 0
    BY DEF NewRun
  <1>3. /\ SetExecutor(j, x) /\ pc' = [pc EXCEPT ![j] = "ended"]
        /\ run' = [run EXCEPT ![j] = r]
    BY DEF Return, RuntimeInv, TypeOK
  <1> HIDE DEF r
  <1>4. Moved(j, x.results) /\ pc'[j] = "ended" /\ run'[j] = r
    BY <1>1, <1>2, <1>3, AssignMoves
  <1>5. EntriesFit(x.results, j, "ended", r)
    BY <1>2 DEF EntriesFit
  <1> QED
    BY <1>1, <1>4, <1>5, MovedInOrder

\* A run that goes on to step r.step, or returns because the step is malformed.
LEMMA EnterStepInOrder ==
  ASSUME RuntimeInv, RunsInOrder, NEW j \in Jobs, AtStep(j, exec[run[j].emp]),
         NEW x, x \in Executor, Grown(j, x.results),
         NEW r \in Run, r.emp = run[j].emp, r.step >= 1,
         ReadyFor(x.results, j, r.step), EnterStep(j, x, r)
  PROVE  RunsInOrder'
  <1> DEFINE q == [r EXCEPT !.pass = 1, !.attempt = 0, !.calls = 0, !.more = FALSE]
  <1>0. q.emp = run[j].emp /\ q.step = r.step /\ q.pass = 1
    BY DEF Run
  <1>1. run[j].emp \in Employees
    BY MadeFacts DEF AtStep, Running
  <1>2. CASE /\ SetExecutor(j, x)
             /\ pc' = [pc EXCEPT ![j] = "act"]
             /\ run' = [run EXCEPT ![j] = q]
    <2> HIDE DEF q
    <2>1. Moved(j, x.results) /\ pc'[j] = "act" /\ run'[j] = q
      BY <1>0, <1>1, <1>2, AssignMoves
    <2>2. EntriesFor(x.results, j, r.step) = {}
      <3>1. \A i \in EntriesOf(x.results, j) : x.results[i].step \in Nat
        <4>1. \A i \in 1..Len(x.results) : x.results[i] \in StepResult
          BY DEF Executor
        <4> QED
          BY <4>1 DEF EntriesOf, StepResult
      <3> QED
        BY <3>1 DEF ReadyFor, EntriesFor, Run
    <2>3. /\ \A i \in EntriesOf(x.results, j) : x.results[i].step <= r.step
          /\ Cardinality(EntriesFor(x.results, j, r.step)) <= 1
      <3>1. \A i \in EntriesOf(x.results, j) : x.results[i].step \in Nat
        <4>1. \A i \in 1..Len(x.results) : x.results[i] \in StepResult
          BY DEF Executor
        <4> QED
          BY <4>1 DEF EntriesOf, StepResult
      <3> QED
        BY <2>2, <3>1, FS_EmptySet DEF ReadyFor, Run
    <2>4. EntriesFit(x.results, j, "act", q)
      BY <1>0, <2>2, <2>3 DEF EntriesFit, ReadyFor
    <2> QED
      BY <1>1, <2>1, <2>4, MovedInOrder
  <1>3. CASE Return(j, Fail(x, j, "planError"))
    <2>1. Fail(x, j, "planError").results = x.results
      BY DEF Fail, Executor
    <2> QED
      BY <1>3, <2>1, ReturnInOrder DEF ReadyFor
  <1> QED
    BY <1>2, <1>3 DEF EnterStep

\* A run that goes round the loop, or leaves it.
LEMMA NextStepInOrder ==
  ASSUME RuntimeInv, RunsInOrder, NEW j \in Jobs, AtStep(j, exec[run[j].emp]),
         NEW x, x \in Executor, Grown(j, x.results),
         NEW r \in Run, r.emp = run[j].emp,
         ReadyFor(x.results, j, r.step + 1), NextStep(j, x, r)
  PROVE  RunsInOrder'
  <1>1. CASE r.step < r.total
    <2> DEFINE q == [r EXCEPT !.step = @ + 1]
    <2>1. q \in Run /\ q.emp = run[j].emp /\ q.step >= 1 /\ q.step = r.step + 1
      BY <1>1, RuntimeAssumption DEF Run
    <2>2. EnterStep(j, x, q)
      BY <1>1 DEF NextStep
    <2> HIDE DEF q
    <2> QED
      BY <2>1, <2>2, EnterStepInOrder
  <1>2. CASE ~(r.step < r.total)
    <2>1. CompleteIfRunning(x).results = x.results
      BY DEF CompleteIfRunning, Executor
    <2>2. Return(j, CompleteIfRunning(x))
      BY <1>2 DEF NextStep
    <2> QED
      BY <2>1, <2>2, ReturnInOrder DEF ReadyFor
  <1> QED
    BY <1>1, <1>2

\* run's except branch: the second pass may find an entry of the first.
LEMMA StepFailedInOrder ==
  ASSUME RuntimeInv, RunsInOrder, NEW j \in Jobs, AtStep(j, exec[run[j].emp]),
         pc[j] \in {"act", "reflect"},
         NEW r \in Run, r.emp = run[j].emp, r.step = run[j].step, StepFailed(j, r)
  PROVE  RunsInOrder'
  <1> DEFINE x == exec[run[j].emp]
  <1>1. run[j].emp \in Employees /\ run[j].emp # NoEmployee /\ x \in Executor
    BY MadeFacts, RuntimeAssumption DEF AtStep, Running, RuntimeInv, TypeOK
  <1>2. EntriesFit(x.results, j, pc[j], run[j]) /\ Grown(j, x.results)
    BY <1>1 DEF RunsInOrder, Grown
  <1>3. CASE MaxRetries > 0
    <2> DEFINE q == [r EXCEPT !.pass = 2, !.attempt = 0]
    <2>0. q.emp = run[j].emp /\ q.step = run[j].step /\ q.pass = 2
      BY DEF Run
    <2>1. /\ pc' = [pc EXCEPT ![j] = "act"]
          /\ run' = [run EXCEPT ![j] = q]
      BY <1>3 DEF StepFailed
    <2>2. SetExecutor(j, x)
      BY <1>1, <1>3 DEF StepFailed, SetExecutor, RuntimeInv, TypeOK
    <2> HIDE DEF q, x
    <2>3. Moved(j, x.results) /\ pc'[j] = "act" /\ run'[j] = q
      BY <1>1, <2>0, <2>1, <2>2, AssignMoves
    <2>4. EntriesFit(x.results, j, "act", q)
      BY <1>2, <2>0 DEF EntriesFit
    <2> QED
      BY <1>1, <1>2, <2>3, <2>4, MovedInOrder
  <1>4. CASE ~(MaxRetries > 0)
    <2>1. /\ Escalate(x, j).results = x.results
          /\ Fail(x, j, "stepError").results = x.results
      BY <1>1 DEF Escalate, Fail, Executor
    <2>2. Return(j, Escalate(x, j)) \/ Return(j, Fail(x, j, "stepError"))
      BY <1>4 DEF StepFailed
    <2> QED
      BY <1>2, <2>1, <2>2, ReturnInOrder DEF EntriesFit
  <1> QED
    BY <1>3, <1>4

\* A request that has left no entry fits anywhere before its first step.
LEMMA NothingYet ==
  ASSUME NEW rs, NEW j \in Jobs, EntriesOf(rs, j) = {},
         NEW c, c \notin {"act", "reflect"}, NEW r, r.step = 0
  PROVE  EntriesFit(rs, j, c, r)
  <1>1. \A n : EntriesFor(rs, j, n) = {}
    BY DEF EntriesFor
  <1>2. Cardinality({}) <= 2
    BY FS_EmptySet
  <1> QED
    BY <1>1, <1>2 DEF EntriesFit, InPlanOrder

\* A running request, its executor and its entries.
LEMMA RunningFits ==
  ASSUME RuntimeInv, RunsInOrder, NEW j \in Jobs, pc[j] \in Running
  PROVE  /\ AtStep(j, exec[run[j].emp])
         /\ run[j].emp \in Employees /\ run[j] \in Run
         /\ exec[run[j].emp] \in Executor
         /\ exec[run[j].emp].results \in Seq(StepResult)
         /\ Grown(j, exec[run[j].emp].results)
         /\ EntriesFit(exec[run[j].emp].results, j, pc[j], run[j])
         /\ pc[j] \in {"act", "reflect"} => run[j].step \in 1..MaxSteps
  <1>1. /\ AtStep(j, exec[run[j].emp])
        /\ run[j].emp \in Employees /\ run[j] \in Run
        /\ PositionOK(pc[j], run[j])
    BY RunningAtStep
  <1>2. /\ exec[run[j].emp] \in Executor
        /\ exec[run[j].emp].results \in Seq(StepResult)
    BY <1>1 DEF RuntimeInv, TypeOK, Executor
  <1>3. EntriesFit(exec[run[j].emp].results, j, pc[j], run[j])
    BY <1>1, RuntimeAssumption DEF RunsInOrder
  <1>4. pc[j] \in {"act", "reflect"} => run[j].step \in 1..MaxSteps
    BY <1>1, RuntimeAssumption DEF PositionOK, Run
  <1> QED
    BY <1>1, <1>2, <1>3, <1>4 DEF Grown

\* The plan comes back: the run enters its first step with no entry.
LEMMA PlanInOrder ==
  ASSUME RuntimeInv, RunsInOrder, NEW j \in Jobs,
         PlanFails(j) \/ \E n \in 0..MaxSteps : PlanReady(j, n)
  PROVE  RunsInOrder'
  <1> DEFINE x == exec[run[j].emp]
  <1>0. pc[j] = "plan" /\ pc[j] \in Running
    BY DEF PlanFails, PlanReady, Running
  <1>1. /\ AtStep(j, x) /\ run[j].emp \in Employees /\ run[j] \in Run
        /\ x \in Executor /\ Grown(j, x.results)
        /\ EntriesFit(x.results, j, "plan", run[j])
    BY <1>0, RunningFits
  <1>2. /\ InPlanOrder(x.results, j) /\ run[j].step = 0
        /\ EntriesOf(x.results, j) = {}
    BY <1>1 DEF EntriesFit
  <1>3. CASE PlanFails(j)
    <2>1. Fail(x, j, "planError").results = x.results
      BY <1>1 DEF Fail, Executor
    <2> QED
      BY <1>1, <1>2, <1>3, <2>1, ReturnInOrder DEF PlanFails
  <1>4. ASSUME NEW n \in 0..MaxSteps, PlanReady(j, n) PROVE RunsInOrder'
    <2> DEFINE q == [run[j] EXCEPT !.total = n]
    <2>1. q \in Run /\ q.emp = run[j].emp /\ q.step = 0
      BY <1>1, <1>2 DEF Run
    <2>2. NextStep(j, x, q)
      BY <1>4 DEF PlanReady
    <2> HIDE DEF q, x
    <2>3. ReadyFor(x.results, j, q.step + 1)
      BY <1>2, <2>1 DEF ReadyFor
    <2> QED
      BY <1>1, <2>1, <2>2, <2>3, NextStepInOrder DEF x
  <1> QED
    BY <1>3, <1>4

\* An attempt of execute_step ends: only its return leaves an entry.
LEMMA AttemptInOrder ==
  ASSUME RuntimeInv, RunsInOrder, NEW j \in Jobs,
         AttemptReturns(j) \/ AttemptRetries(j) \/ AttemptsExhausted(j)
  PROVE  RunsInOrder'
  <1> DEFINE x == exec[run[j].emp]
             y == AppendResult(x, j)
             q == [run[j] EXCEPT !.calls = @ + 1]
             s == run[j].step
  <1>0. pc[j] = "act" /\ pc[j] \in Running
    BY DEF AttemptReturns, AttemptRetries, AttemptsExhausted, Running
  <1>1. /\ AtStep(j, x) /\ run[j].emp \in Employees /\ run[j] \in Run
        /\ x \in Executor /\ x.results \in Seq(StepResult) /\ Grown(j, x.results)
        /\ EntriesFit(x.results, j, "act", run[j])
        /\ s \in 1..MaxSteps
    BY <1>0, RunningFits
  <1>2. q \in Run /\ q.emp = run[j].emp /\ q.step = s /\ q.pass = run[j].pass
    BY <1>1 DEF Run
  <1>3. CASE AttemptReturns(j)
    <2>1. /\ y.results = Append(x.results, [job |-> j, step |-> s])
          /\ y \in Executor
      <3> DEFINE entry == [job |-> j, step |-> s]
      <3>1. entry \in StepResult
        BY <1>1 DEF StepResult
      <3>2. Append(x.results, entry) \in Seq(StepResult)
        BY <1>1, <3>1
      <3> QED
        BY <1>1, <3>2 DEF AppendResult, Executor
    <2>2. Grown(j, y.results)
      BY <1>1, <2>1 DEF Grown
    <2>3. /\ ReadyFor(y.results, j, s + 1)
          /\ run[j].pass = 1 =>
                \A r : r.step = s => EntriesFit(y.results, j, "reflect", r)
      <3> HIDE DEF x, y, s
      <3>1. run[j].step = s
        BY DEF s
      <3> QED
        BY <1>1, <2>1, <3>1, StepRecorded
    <2>4. CASE q.pass = 1
      <3> DEFINE m == [q EXCEPT !.more = q.total - Len(y.results) > 0]
      <3>1. m.emp = run[j].emp /\ m.step = s
        BY <1>1, <1>2 DEF Run
      <3>2. /\ SetExecutor(j, y)
            /\ pc' = [pc EXCEPT ![j] = "reflect"]
            /\ run' = [run EXCEPT ![j] = m]
        BY <1>3, <2>4 DEF AttemptReturns
      <3> HIDE DEF m, q, y, x, s
      <3>3. Moved(j, y.results) /\ pc'[j] = "reflect" /\ run'[j] = m
        BY <1>1, <3>1, <3>2, AssignMoves
      <3> QED
        BY <1>1, <1>2, <2>2, <2>3, <2>4, <3>1, <3>3, MovedInOrder
    <2>5. CASE q.pass # 1
      <3>1. NextStep(j, y, q)
        BY <1>3, <2>5 DEF AttemptReturns
      <3> HIDE DEF q, y, s
      <3> QED
        BY <1>1, <1>2, <2>1, <2>2, <2>3, <3>1, NextStepInOrder
    <2> QED
      BY <2>4, <2>5
  <1>4. CASE AttemptRetries(j)
    <2>1. PICK r : /\ r.emp = run[j].emp /\ r.step = s /\ r.pass = run[j].pass
                   /\ run' = [run EXCEPT ![j] = r]
      <3> DEFINE r == [run[j] EXCEPT !.attempt = @ + 1, !.calls = @ + 1]
      <3>1. r.emp = run[j].emp /\ r.step = s /\ r.pass = run[j].pass
        BY <1>1 DEF Run
      <3>2. run' = [run EXCEPT ![j] = r]
        BY <1>4 DEF AttemptRetries, RuntimeInv, TypeOK, Run
      <3> HIDE DEF r
      <3> QED
        BY <3>1, <3>2
    <2>2. /\ SetExecutor(j, x)
          /\ pc' = [pc EXCEPT ![j] = "act"]
      BY <1>0, <1>1, <1>4 DEF AttemptRetries, SetExecutor, RuntimeInv, TypeOK
    <2>3. EntriesFit(x.results, j, "act", r)
      BY <1>1, <2>1 DEF EntriesFit
    <2> HIDE DEF x
    <2>4. Moved(j, x.results) /\ pc'[j] = "act" /\ run'[j] = r
      BY <1>1, <2>1, <2>2, AssignMoves
    <2> QED
      BY <1>1, <2>3, <2>4, MovedInOrder
  <1>5. CASE AttemptsExhausted(j)
    <2>1. CASE run[j].pass = 1
      <3>1. StepFailed(j, q)
        BY <1>5, <2>1 DEF AttemptsExhausted
      <3> HIDE DEF q
      <3> QED
        BY <1>0, <1>1, <1>2, <3>1, StepFailedInOrder
    <2>2. CASE run[j].pass # 1
      <3>1. Fail(x, j, "stepError").results = x.results
        BY <1>1 DEF Fail, Executor
      <3>2. Return(j, Fail(x, j, "stepError"))
        BY <1>5, <2>2 DEF AttemptsExhausted
      <3> QED
        BY <1>1, <3>1, <3>2, ReturnInOrder DEF EntriesFit
    <2> QED
      BY <2>1, <2>2
  <1> QED
    BY <1>3, <1>4, <1>5

\* reflect is left for the next step, for the second pass, or for good.
LEMMA ReflectInOrder ==
  ASSUME RuntimeInv, RunsInOrder, NEW j \in Jobs,
         \/ \E c \in BOOLEAN : ReflectDecides(j, c)
         \/ ReflectSilent(j) \/ ReflectRaises(j)
  PROVE  RunsInOrder'
  <1> DEFINE x == exec[run[j].emp]
  <1>0. pc[j] = "reflect" /\ pc[j] \in Running
    BY DEF ReflectDecides, ReflectSilent, ReflectRaises, Running
  <1>1. /\ AtStep(j, x) /\ run[j].emp \in Employees /\ run[j] \in Run
        /\ x \in Executor /\ x.results \in Seq(StepResult) /\ Grown(j, x.results)
        /\ EntriesFit(x.results, j, "reflect", run[j])
        /\ run[j].step \in 1..MaxSteps
    BY <1>0, RunningFits
  <1>2. ReadyFor(x.results, j, run[j].step + 1) /\ InPlanOrder(x.results, j)
    <2>1. \A i \in EntriesOf(x.results, j) : x.results[i].step \in Nat
      <3>1. \A i \in 1..Len(x.results) : x.results[i] \in StepResult
        BY <1>1
      <3> QED
        BY <3>1 DEF EntriesOf, StepResult
    <2>2. \A i \in EntriesOf(x.results, j) : x.results[i].step < run[j].step + 1
      BY <1>1, <2>1 DEF EntriesFit
    <2>3. \A n \in 1..(run[j].step + 1) - 1 : EntriesFor(x.results, j, n) # {}
      <3>1. \A n \in 1..run[j].step - 1 : EntriesFor(x.results, j, n) # {}
        BY <1>1 DEF EntriesFit
      <3>2. EntriesFor(x.results, j, run[j].step) # {}
        BY <1>1 DEF EntriesFit
      <3>3. \A n \in 1..(run[j].step + 1) - 1 : n \in 1..run[j].step - 1 \/ n = run[j].step
        BY <1>1
      <3> QED
        BY <3>1, <3>2, <3>3
    <2> QED
      BY <1>1, <2>2, <2>3 DEF ReadyFor, EntriesFit
  <1>3. ASSUME NEW c, ReflectDecides(j, c) PROVE RunsInOrder'
    <2>1. CASE NextStep(j, x, run[j])
      BY <1>1, <1>2, <2>1, NextStepInOrder
    <2>2. CASE Return(j, CompleteIfRunning(x))
      <3>1. CompleteIfRunning(x).results = x.results
        BY <1>1 DEF CompleteIfRunning, Executor
      <3> QED
        BY <1>1, <1>2, <2>2, <3>1, ReturnInOrder
    <2> QED
      BY <1>3, <2>1, <2>2 DEF ReflectDecides
  <1>4. CASE ReflectRaises(j)
    BY <1>0, <1>1, <1>4, StepFailedInOrder DEF ReflectRaises
  <1> QED
    BY <1>3, <1>4 DEF ReflectSilent

\* RUNTIME_TIMEOUT leaves the entries of the run it cancels.
LEMMA TimeOutInOrder ==
  ASSUME RuntimeInv, RunsInOrder, NEW j \in Jobs, TimeOut(j)
  PROVE  RunsInOrder'
  <1> DEFINE x == exec[run[j].emp]
             r == NewRun(run[j].emp, run[j].agent)
  <1>1. /\ AtStep(j, x) /\ run[j].emp \in Employees
        /\ Grown(j, x.results) /\ InPlanOrder(x.results, j)
    BY RunningFits DEF TimeOut, EntriesFit
  <1>2. r.emp = run[j].emp /\ r.step = 0
    BY DEF NewRun
  <1>3. /\ SetExecutor(j, x) /\ pc' = [pc EXCEPT ![j] = "ended"]
        /\ run' = [run EXCEPT ![j] = r]
    BY <1>1 DEF TimeOut, SetExecutor, RuntimeInv, TypeOK
  <1> HIDE DEF r, x
  <1>4. Moved(j, x.results) /\ pc'[j] = "ended" /\ run'[j] = r
    BY <1>1, <1>2, <1>3, AssignMoves
  <1>5. EntriesFit(x.results, j, "ended", r)
    BY <1>1, <1>2 DEF EntriesFit
  <1> QED
    BY <1>1, <1>4, <1>5, MovedInOrder

\* A step that moves no run, but for the requests that have left no entry, and
\* creates executors where there were none.
LEMMA QuietInOrder ==
  ASSUME RuntimeInv, RunsInOrder,
         \A e \in Employees :
            \/ exec'[e].results = exec[e].results
            \/ exec[e].state = "absent" /\ exec'[e].results = <<>>,
         \A i \in Jobs :
            \/ run'[i] = run[i] /\ pc'[i] = pc[i]
            \/ /\ run'[i].emp \in Employees /\ run'[i].step = 0
               /\ pc'[i] \notin {"act", "reflect"}
               /\ EntriesOf(exec[run'[i].emp].results, i) = {}
  PROVE  RunsInOrder'
  <1> SUFFICES ASSUME NEW i \in Jobs, run'[i].emp # NoEmployee
               PROVE  EntriesFit(exec'[run'[i].emp].results, i, pc'[i], run'[i])
    BY DEF RunsInOrder, EntriesFit, InPlanOrder, EntriesOf, EntriesFor
  <1> DEFINE e == run'[i].emp
  <1>0. EntriesOf(<<>>, i) = {}
    BY DEF EntriesOf
  <1>1. CASE run'[i] = run[i] /\ pc'[i] = pc[i]
    <2>1. e \in Employees
      BY <1>1 DEF RuntimeInv, TypeOK, Run
    <2>2. EntriesFit(exec[e].results, i, pc[i], run[i])
      BY <1>1 DEF RunsInOrder
    <2>3. CASE exec'[e].results = exec[e].results
      BY <1>1, <2>2, <2>3
    <2>4. CASE exec[e].state = "absent" /\ exec'[e].results = <<>>
      <3>1. pc[i] \notin {"act", "reflect"}
        BY <1>1, <2>4 DEF RuntimeInv, RunsHaveExecutor, Running
      <3>2. run[i].step = 0
        BY <2>2, <3>1 DEF EntriesFit
      <3> QED
        BY <1>0, <1>1, <2>4, <3>1, <3>2, NothingYet
    <2> QED
      BY <2>1, <2>3, <2>4
  <1>2. CASE /\ e \in Employees /\ run'[i].step = 0
             /\ pc'[i] \notin {"act", "reflect"}
             /\ EntriesOf(exec[e].results, i) = {}
    <2>1. EntriesOf(exec'[e].results, i) = {}
      BY <1>0, <1>2
    <2> QED
      BY <1>2, <2>1, NothingYet
  <1> QED
    BY <1>1, <1>2

\* _execute_task starts, or dies: no step has been taken.
LEMMA StartInOrder ==
  ASSUME RuntimeInv, RunsInOrder, NEW j \in Jobs, Begin(j) \/ Die(j)
  PROVE  RunsInOrder'
  <1> DEFINE e == run[j].emp
             x == SelectAgent(StartExecutor(GetOrCreate(e)), run[j].agent)
  <1>1. /\ pc[j] = "queued" /\ UNCHANGED run
        /\ pc' = [pc EXCEPT ![j] = "plan"] \/ pc' = [pc EXCEPT ![j] = "lost"]
    BY DEF Begin, Die
  <1>2. e \in Employees /\ e # NoEmployee
    BY <1>1, MadeFacts, RuntimeAssumption
  <1>3. run[j].step = 0 /\ EntriesOf(exec[e].results, j) = {}
    <2>1. EntriesFit(exec[e].results, j, "queued", run[j])
      BY <1>1, <1>2 DEF RunsInOrder
    <2> QED
      BY <2>1 DEF EntriesFit
  <1>4. exec' = exec \/ exec' = [exec EXCEPT ![e] = x]
    BY DEF Begin, Die, SetExecutor
  <1>5. \A f \in Employees :
           \/ exec'[f].results = exec[f].results
           \/ exec[f].state = "absent" /\ exec'[f].results = <<>>
    <2>1. \/ x.results = exec[e].results
          \/ exec[e].state = "absent" /\ x.results = <<>>
      <3>1. exec[e] \in Executor
        BY <1>2 DEF RuntimeInv, TypeOK
      <3> QED
        BY <3>1 DEF SelectAgent, StartExecutor, GetOrCreate, NoExecutor, Executor
    <2> HIDE DEF x
    <2> QED
      BY <1>2, <1>4, <2>1 DEF RuntimeInv, TypeOK
  <1>6. \A i \in Jobs :
           \/ run'[i] = run[i] /\ pc'[i] = pc[i]
           \/ /\ run'[i].emp \in Employees /\ run'[i].step = 0
              /\ pc'[i] \notin {"act", "reflect"}
              /\ EntriesOf(exec[run'[i].emp].results, i) = {}
    <2> SUFFICES ASSUME NEW i \in Jobs, i # j PROVE pc'[i] = pc[i]
      BY <1>1, <1>2, <1>3 DEF RuntimeInv, TypeOK
    <2> QED
      BY <1>1 DEF RuntimeInv, TypeOK
  <1> HIDE DEF x, e
  <1> QED
    BY <1>5, <1>6, QuietInOrder

\* Nobody's step_results speak of a request that has not been made.
LEMMA UnmadeHasNoEntries ==
  ASSUME RuntimeInv, NEW j \in Jobs, pc[j] = "unused", NEW e \in Employees
  PROVE  EntriesOf(exec[e].results, j) = {}
  <1>1. run[j].emp = NoEmployee
    BY DEF RuntimeInv, MadeRequests
  <1>2. \A i \in 1..Len(exec[e].results) : run[exec[e].results[i].job].emp = e
    BY DEF RuntimeInv, ExecutorsOwned, OwnExecutor
  <1> QED
    BY <1>1, <1>2, RuntimeAssumption DEF EntriesOf

\* The other handlers.
LEMMA HandlersInOrder ==
  ASSUME RuntimeInv, RunsInOrder, NEW j \in Jobs,
         \/ \E t \in Tasks, e \in Employees, a \in Agents :
               ExecuteTask(j, t, e, a) \/ GeneratePlan(j, t, e, a)
         \/ PlanStored(j) \/ PlanRefused(j)
  PROVE  RunsInOrder'
  <1>1. ASSUME NEW t \in Tasks, NEW e \in Employees, NEW a \in Agents,
               ExecuteTask(j, t, e, a) \/ GeneratePlan(j, t, e, a)
        PROVE  RunsInOrder'
    <2> DEFINE r == NewRun(e, a)
               x == SelectAgent(GetOrCreate(e), a)
    <2>1. /\ run' = [run EXCEPT ![j] = r]
          /\ pc' = [pc EXCEPT ![j] = "queued"] \/ pc' = [pc EXCEPT ![j] = "planning"]
          /\ exec' = exec \/ exec' = [exec EXCEPT ![e] = x]
          /\ pc[j] = "unused"
      BY <1>1 DEF ExecuteTask, GeneratePlan
    <2>2. r.emp = e /\ r.step = 0
      BY DEF NewRun
    <2>3. \/ x.results = exec[e].results
          \/ exec[e].state = "absent" /\ x.results = <<>>
      <3>1. exec[e] \in Executor
        BY DEF RuntimeInv, TypeOK
      <3> QED
        BY <3>1 DEF SelectAgent, GetOrCreate, NoExecutor, Executor
    <2> HIDE DEF r, x
    <2>4. \A f \in Employees :
             \/ exec'[f].results = exec[f].results
             \/ exec[f].state = "absent" /\ exec'[f].results = <<>>
      BY <2>1, <2>3 DEF RuntimeInv, TypeOK
    <2>5. EntriesOf(exec[e].results, j) = {}
      BY <2>1, UnmadeHasNoEntries
    <2>6. \A i \in Jobs :
             \/ run'[i] = run[i] /\ pc'[i] = pc[i]
             \/ /\ run'[i].emp \in Employees /\ run'[i].step = 0
                /\ pc'[i] \notin {"act", "reflect"}
                /\ EntriesOf(exec[run'[i].emp].results, i) = {}
      <3>1. run'[j] = r /\ pc'[j] \notin {"act", "reflect"}
        BY <2>1 DEF RuntimeInv, TypeOK
      <3>2. \A i \in Jobs : i # j => run'[i] = run[i] /\ pc'[i] = pc[i]
        BY <2>1 DEF RuntimeInv, TypeOK
      <3> QED
        BY <2>2, <2>5, <3>1, <3>2
    <2> QED
      BY <2>4, <2>6, QuietInOrder
  <1>2. CASE PlanStored(j) \/ PlanRefused(j)
    <2>1. /\ UNCHANGED <<exec, run>> /\ pc[j] = "planning"
          /\ pc' = [pc EXCEPT ![j] = "planned"] \/ pc' = [pc EXCEPT ![j] = "refused"]
      BY <1>2 DEF PlanStored, PlanRefused
    <2>2. run[j].emp \in Employees /\ run[j].emp # NoEmployee
      BY <2>1, MadeFacts, RuntimeAssumption
    <2>3. run[j].step = 0 /\ EntriesOf(exec[run[j].emp].results, j) = {}
      <3>1. EntriesFit(exec[run[j].emp].results, j, "planning", run[j])
        BY <2>1, <2>2 DEF RunsInOrder
      <3> QED
        BY <3>1 DEF EntriesFit
    <2>4. /\ pc'[j] \notin {"act", "reflect"}
          /\ \A i \in Jobs : i # j => pc'[i] = pc[i]
      BY <2>1 DEF RuntimeInv, TypeOK
    <2> QED
      BY <2>1, <2>2, <2>3, <2>4, QuietInOrder
  <1> QED
    BY <1>1, <1>2

\* A crash and a shutdown leave no entry and no run.
LEMMA ProcessInOrder ==
  ASSUME RuntimeInv, RunsInOrder, Crash \/ Shutdown
  PROVE  RunsInOrder'
  <1> SUFFICES ASSUME NEW i \in Jobs, run'[i].emp # NoEmployee
               PROVE  EntriesFit(exec'[run'[i].emp].results, i, pc'[i], run'[i])
    BY DEF RunsInOrder, EntriesFit, InPlanOrder, EntriesOf, EntriesFor
  <1>1. run'[i].emp = run[i].emp /\ run'[i].emp \in Employees
    BY DEF Crash, Shutdown, NewRun, RuntimeInv, TypeOK, Run
  <1>2. exec'[run'[i].emp].results = <<>>
    BY <1>1 DEF Crash, Shutdown, NoExecutor
  <1>3. pc'[i] \notin {"act", "reflect"}
    BY DEF Crash, Shutdown, PhaseOf, Lifecycle!Open, Running, RuntimeInv, TypeOK
  <1>4. run'[i].step = 0
    <2>1. CASE Crash
      BY <2>1 DEF Crash, NewRun
    <2>2. CASE Shutdown
      <3>1. EntriesFit(exec[run[i].emp].results, i, pc[i], run[i])
        BY <1>1 DEF RunsInOrder
      <3> QED
        BY <1>3, <2>2, <3>1 DEF Shutdown, EntriesFit
    <2> QED
      BY <2>1, <2>2
  <1>5. EntriesOf(<<>>, i) = {}
    BY DEF EntriesOf
  <1> QED
    BY <1>2, <1>3, <1>4, <1>5, NothingYet

\* Every step of the service keeps the runs in order.
LEMMA NextInOrder ==
  RuntimeInv /\ RunsInOrder /\ [Next]_vars => RunsInOrder'
  <1> SUFFICES ASSUME RuntimeInv, RunsInOrder, [Next]_vars PROVE RunsInOrder'
    OBVIOUS
  <1>1. ASSUME NEW j \in Jobs, RunStep(j) PROVE RunsInOrder'
    BY <1>1, StartInOrder, PlanInOrder, AttemptInOrder, ReflectInOrder,
       TimeOutInOrder
    DEF RunStep
  <1>2. CASE UNCHANGED vars
    BY <1>2, QuietInOrder DEF vars
  <1>3. ASSUME NEW t \in Tasks, CancelTask(t) PROVE RunsInOrder'
    BY <1>3, QuietInOrder DEF CancelTask
  <1> QED
    BY <1>1, <1>2, <1>3, HandlersInOrder, ProcessInOrder DEF Next

\* The step results that one request leaves in the executor it shares with
\* others are in plan order, without a gap and at most two per step, for any
\* number of steps and of requests interleaving on the executor.
THEOREM StepResultsInPlanOrder == Spec => []StepsInPlanOrder
  <1>1. Init => RunsInOrder
    BY DEF Init, RunsInOrder, NewRun
  <1>2. RunsInOrder => StepsInPlanOrder
    BY DEF RunsInOrder, EntriesFit, StepsInPlanOrder
  <1> QED
    BY <1>1, <1>2, NextInOrder, RuntimeInvariant, PTL DEF Spec

-----------------------------------------------------------------------------
(* The service implements the task lifecycle. *)

phase == [j \in Jobs |-> PhaseOf(pc[j])]

\* Moving one request moves its phase.
LEMMA PhaseMoves ==
  ASSUME RuntimeInv, NEW j \in Jobs, NEW c, pc' = [pc EXCEPT ![j] = c]
  PROVE  phase' = [phase EXCEPT ![j] = PhaseOf(c)]
  BY DEF RuntimeInv, TypeOK, phase, PhaseOf

\* A run's step between two awaits is invisible, its report is Finish.
LEMMA ReturnRefines ==
  ASSUME RuntimeInv, NEW j \in Jobs, NEW x, pc[j] \in Running, Return(j, x)
  PROVE  Lifecycle!Finish(j, "completed")
  <1>1. phase[j] = "running" /\ phase' = [phase EXCEPT ![j] = "ended"]
    BY PhaseMoves DEF phase, PhaseOf, Return, Running
  <1> QED
    BY <1>1 DEF Lifecycle!Finish, Lifecycle!Advance, Return, UpdateOutcome, phase

\* A step of a run that moves no row is a stutter of the lifecycle.
LEMMA MoveRefines ==
  ASSUME RuntimeInv, NEW j \in Jobs, NEW c \in Running, pc[j] \in Running,
         pc' = [pc EXCEPT ![j] = c], UNCHANGED <<store, taskOf>>
  PROVE  UNCHANGED Lifecycle!lifecycleVars
  <1>1. phase' = phase
    BY PhaseMoves DEF phase, PhaseOf, RuntimeInv, TypeOK
  <1> QED
    BY <1>1 DEF Lifecycle!lifecycleVars, store, phase

\* What one step of a running coroutine is to the lifecycle.
Invisible(j) == UNCHANGED Lifecycle!lifecycleVars \/ Lifecycle!Finish(j, "completed")

\* Entering a step is a stutter, a step PlanStep refuses is the run's report.
LEMMA EnterStepRefines ==
  ASSUME RuntimeInv, NEW j \in Jobs, NEW x, NEW r, pc[j] \in Running,
         EnterStep(j, x, r)
  PROVE  Invisible(j)
  <1>1. CASE Return(j, Fail(x, j, "planError"))
    BY <1>1, ReturnRefines DEF Invisible
  <1>2. CASE pc' = [pc EXCEPT ![j] = "act"] /\ UNCHANGED <<store, taskOf>>
    BY <1>2, MoveRefines DEF Invisible, Running
  <1> QED
    BY <1>1, <1>2 DEF EnterStep

\* So is the turn of run's for loop.
LEMMA NextStepRefines ==
  ASSUME RuntimeInv, NEW j \in Jobs, NEW x, NEW r, pc[j] \in Running,
         NextStep(j, x, r)
  PROVE  Invisible(j)
  BY EnterStepRefines, ReturnRefines DEF NextStep, Invisible

\* So is the except branch of run's loop body.
LEMMA StepFailedRefines ==
  ASSUME RuntimeInv, NEW j \in Jobs, NEW r, pc[j] \in Running, StepFailed(j, r)
  PROVE  Invisible(j)
  <1>1. CASE MaxRetries > 0
    BY <1>1, MoveRefines DEF Invisible, StepFailed, Running
  <1>2. CASE ~ (MaxRetries > 0)
    BY <1>2, ReturnRefines DEF Invisible, StepFailed
  <1> QED
    BY <1>1, <1>2

\* The whole Plan-Act-Reflect loop is one lifecycle step, its last.
LEMMA RunStepRefines ==
  ASSUME RuntimeInv, NEW j \in Jobs, RunStep(j)
  PROVE  [Lifecycle!LifecycleNext]_(Lifecycle!lifecycleVars)
  <1>1. ASSUME Invisible(j) PROVE [Lifecycle!LifecycleNext]_(Lifecycle!lifecycleVars)
    BY <1>1 DEF Invisible, Lifecycle!LifecycleNext, Lifecycle!Final
  <1>2. CASE Begin(j)
    <2>1. phase[j] = "queued" /\ phase' = [phase EXCEPT ![j] = "running"]
      BY <1>2, PhaseMoves DEF Begin, phase, PhaseOf, Running
    <2>2. Lifecycle!Start(j)
      BY <1>2, <2>1 DEF Begin, UpdateStatus, Lifecycle!Start, Lifecycle!Advance, phase
    <2> QED
      BY <2>2 DEF Lifecycle!LifecycleNext
  <1>3. CASE Die(j)
    <2>1. phase[j] = "queued" /\ phase' = [phase EXCEPT ![j] = "lost"]
      BY <1>3, PhaseMoves DEF Die, phase, PhaseOf, Running
    <2>2. Lifecycle!Die(j)
      BY <1>3, <2>1 DEF Die, UpdateStatus, Lifecycle!Die, Lifecycle!Advance, phase
    <2> QED
      BY <2>2 DEF Lifecycle!LifecycleNext
  <1>4. CASE PlanFails(j)
    BY <1>1, <1>4, ReturnRefines DEF PlanFails, Running, Invisible
  <1>5. ASSUME NEW n \in 0..MaxSteps, PlanReady(j, n)
        PROVE  [Lifecycle!LifecycleNext]_(Lifecycle!lifecycleVars)
    BY <1>1, <1>5, NextStepRefines DEF PlanReady, Running
  <1>6. CASE AttemptReturns(j)
    <2>1. pc[j] \in Running
      BY <1>6 DEF AttemptReturns, Running
    <2>2. CASE run[j].pass = 1
      BY <1>1, <1>6, <2>1, <2>2, MoveRefines DEF AttemptReturns, Running, Invisible
    <2>3. CASE run[j].pass # 1
      BY <1>1, <1>6, <2>1, <2>3, NextStepRefines DEF AttemptReturns
    <2> QED
      BY <2>2, <2>3
  <1>7. CASE AttemptRetries(j)
    BY <1>7 DEF AttemptRetries, store, Lifecycle!lifecycleVars
  <1>8. CASE AttemptsExhausted(j)
    BY <1>1, <1>8, StepFailedRefines, ReturnRefines
    DEF AttemptsExhausted, Running, Invisible
  <1>9. ASSUME NEW c \in BOOLEAN, ReflectDecides(j, c)
        PROVE  [Lifecycle!LifecycleNext]_(Lifecycle!lifecycleVars)
    BY <1>1, <1>9, NextStepRefines, ReturnRefines
    DEF ReflectDecides, Running, Invisible
  <1>10. CASE ReflectSilent(j)
    BY <1>9, <1>10 DEF ReflectSilent, RuntimeInv, TypeOK, Run
  <1>11. CASE ReflectRaises(j)
    BY <1>1, <1>11, StepFailedRefines DEF ReflectRaises, Running
  <1>12. CASE TimeOut(j)
    <2>1. phase[j] = "running" /\ phase' = [phase EXCEPT ![j] = "ended"]
      BY <1>12, PhaseMoves DEF TimeOut, phase, PhaseOf, Running
    <2>2. Lifecycle!Finish(j, "failed")
      BY <1>12, <2>1
      DEF TimeOut, UpdateOutcome, Lifecycle!Finish, Lifecycle!Advance, phase
    <2> QED
      BY <2>2 DEF Lifecycle!LifecycleNext, Lifecycle!Final
  <1> QED
    BY <1>2, <1>3, <1>4, <1>5, <1>6, <1>7, <1>8, <1>9, <1>10, <1>11, <1>12
    DEF RunStep

\* The handlers and the process map to the lifecycle's own actions.
LEMMA HandlersRefine ==
  ASSUME RuntimeInv, NEW j \in Jobs
  PROVE  /\ \A t \in Tasks, e \in Employees, a \in Agents :
              /\ ExecuteTask(j, t, e, a) => Lifecycle!Submit(j, t)
              /\ GeneratePlan(j, t, e, a) => Lifecycle!AskPlan(j, t)
         /\ PlanStored(j) => Lifecycle!GivePlan(j)
         /\ PlanRefused(j) => Lifecycle!RefusePlan(j)
  <1>1. ASSUME NEW t \in Tasks, NEW e \in Employees, NEW a \in Agents,
               ExecuteTask(j, t, e, a)
        PROVE  Lifecycle!Submit(j, t)
    <2>1. phase[j] = "unused" /\ phase' = [phase EXCEPT ![j] = "queued"]
      BY <1>1, PhaseMoves DEF ExecuteTask, phase, PhaseOf, Running
    <2> QED
      BY <1>1, <2>1
      DEF ExecuteTask, CreateTask, Lifecycle!Submit, Lifecycle!Advance, phase
  <1>2. ASSUME NEW t \in Tasks, NEW e \in Employees, NEW a \in Agents,
               GeneratePlan(j, t, e, a)
        PROVE  Lifecycle!AskPlan(j, t)
    <2>1. phase[j] = "unused" /\ phase' = [phase EXCEPT ![j] = "planning"]
      BY <1>2, PhaseMoves DEF GeneratePlan, phase, PhaseOf, Running
    <2> QED
      BY <1>2, <2>1
      DEF GeneratePlan, store, Lifecycle!AskPlan, Lifecycle!Advance, phase
  <1>3. ASSUME PlanStored(j) PROVE Lifecycle!GivePlan(j)
    <2>1. phase[j] = "planning" /\ phase' = [phase EXCEPT ![j] = "planned"]
      BY <1>3, PhaseMoves DEF PlanStored, phase, PhaseOf, Running
    <2> QED
      BY <1>3, <2>1
      DEF PlanStored, CreateTask, Lifecycle!GivePlan, Lifecycle!Advance, phase
  <1>4. ASSUME PlanRefused(j) PROVE Lifecycle!RefusePlan(j)
    <2>1. phase[j] = "planning" /\ phase' = [phase EXCEPT ![j] = "refused"]
      BY <1>4, PhaseMoves DEF PlanRefused, phase, PhaseOf, Running
    <2> QED
      BY <1>4, <2>1
      DEF PlanRefused, store, Lifecycle!RefusePlan, Lifecycle!Advance, phase
  <1> QED
    BY <1>1, <1>2, <1>3, <1>4

\* Cancellation, crash and shutdown map to the lifecycle's.
LEMMA ProcessRefines ==
  ASSUME RuntimeInv
  PROVE  /\ \A t \in Tasks : CancelTask(t) => Lifecycle!Cancel(t)
         /\ Crash => Lifecycle!Crash
         /\ Shutdown => Lifecycle!Shutdown
  <1>1. ASSUME NEW t \in Tasks, CancelTask(t) PROVE Lifecycle!Cancel(t)
    BY <1>1 DEF CancelTask, UpdateStatus, Lifecycle!Cancel
  <1>2. ASSUME Crash PROVE Lifecycle!Crash
    <2>1. phase' = [j \in Jobs |-> IF phase[j] \in Lifecycle!Open THEN "lost"
                                                                  ELSE phase[j]]
      BY <1>2 DEF Crash, phase, PhaseOf, Running, Lifecycle!Open
    <2> QED
      BY <1>2, <2>1 DEF Crash, store, Lifecycle!Crash, phase
  <1>3. ASSUME Shutdown PROVE Lifecycle!Shutdown
    BY <1>3 DEF Shutdown, Lifecycle!Shutdown
  <1> QED
    BY <1>1, <1>2, <1>3

\* The service with its executors hidden is the task lifecycle, for every
\* number of requests, tasks, employees, retries and plan steps: every step
\* maps to a lifecycle step or to a stutter.
THEOREM RuntimeImplementsLifecycle == Spec => ImplementsLifecycle
  <1>1. Init => Lifecycle!LifecycleInit
    BY DEF Init, Lifecycle!LifecycleInit, PhaseOf, Running
  <1>2. RuntimeInv /\ [Next]_vars => [Lifecycle!LifecycleNext]_(Lifecycle!lifecycleVars)
    <2> SUFFICES ASSUME RuntimeInv, [Next]_vars
                 PROVE  [Lifecycle!LifecycleNext]_(Lifecycle!lifecycleVars)
      OBVIOUS
    <2>1. CASE UNCHANGED vars
      BY <2>1 DEF vars, Lifecycle!lifecycleVars
    <2>2. ASSUME NEW j \in Jobs, RunStep(j)
          PROVE  [Lifecycle!LifecycleNext]_(Lifecycle!lifecycleVars)
      BY <2>2, RunStepRefines
    <2>3. ASSUME NEW j \in Jobs, PlanStored(j) \/ PlanRefused(j)
          PROVE  Lifecycle!LifecycleNext
      BY <2>3, HandlersRefine DEF Lifecycle!LifecycleNext
    <2>4. ASSUME NEW j \in Jobs, NEW t \in Tasks, NEW e \in Employees,
                 NEW a \in Agents, ExecuteTask(j, t, e, a) \/ GeneratePlan(j, t, e, a)
          PROVE  Lifecycle!LifecycleNext
      BY <2>4, HandlersRefine DEF Lifecycle!LifecycleNext
    <2>5. CASE Crash \/ Shutdown \/ \E t \in Tasks : CancelTask(t)
      BY <2>5, ProcessRefines DEF Lifecycle!LifecycleNext
    <2> QED
      BY <2>1, <2>2, <2>3, <2>4, <2>5 DEF Next
  <1> QED
    BY <1>1, <1>2, RuntimeInvariant, PTL
    DEF Spec, ImplementsLifecycle, Lifecycle!LifecycleSpec

-----------------------------------------------------------------------------
(* Calls of the agent and their processes: AgentCalls. *)

\* A queue that is left of the present one when c is taken out.
Remains(q, c) ==
    /\ q \in Seq(RuntimeCallers)
    /\ \A i, j \in DOMAIN q : q[i] = q[j] => i = j
    /\ \A i \in DOMAIN q : q[i] # c /\ \E j \in DOMAIN queue : q[i] = queue[j]

\* Taking the first call, or cancelling one, leaves the others in the queue.
LEMMA QueueRemains ==
  ASSUME queue \in Seq(RuntimeCallers), QueueFits
  PROVE  /\ queue # <<>> => Remains(Tail(queue), Head(queue))
         /\ \A c \in Callers : Remains(Without(c), c)
  <1>1. ASSUME queue # <<>> PROVE Remains(Tail(queue), Head(queue))
    <2>1. /\ Tail(queue) \in Seq(RuntimeCallers) /\ Head(queue) = queue[1] /\ 1 \in DOMAIN queue
          /\ Len(queue) \in Nat
          /\ \A i \in DOMAIN Tail(queue) : /\ i + 1 \in DOMAIN queue /\ i \in Nat
                                           /\ Tail(queue)[i] = queue[i + 1] /\ i + 1 # 1
      BY <1>1
    <2> QED
      BY <2>1 DEF Remains, QueueFits
  <1>2. ASSUME NEW c \in Callers PROVE Remains(Without(c), c)
    <2>1. CASE \A i \in DOMAIN queue : queue[i] # c
      BY <2>1 DEF Without, Remains, QueueFits
    <2>2. CASE \E i \in DOMAIN queue : queue[i] = c
      <3>1. PICK i \in DOMAIN queue : /\ queue[i] = c
                                      /\ Without(c) = SubSeq(queue, 1, i - 1)
                                                        \o SubSeq(queue, i + 1, Len(queue))
        BY <2>2 DEF Without
      <3>2. Len(queue) \in Nat /\ DOMAIN queue = 1..Len(queue) /\ i \in 1..Len(queue)
        BY <3>1
      <3>3. /\ SubSeq(queue, 1, i - 1) \in Seq(RuntimeCallers)
            /\ Len(SubSeq(queue, 1, i - 1)) = i - 1
            /\ \A j \in 1..(i - 1) : SubSeq(queue, 1, i - 1)[j] = queue[j]
        BY <3>2
      <3>4. /\ SubSeq(queue, i + 1, Len(queue)) \in Seq(RuntimeCallers)
            /\ Len(SubSeq(queue, i + 1, Len(queue))) = Len(queue) - i
            /\ \A j \in 1..(Len(queue) - i) :
                  SubSeq(queue, i + 1, Len(queue))[j] = queue[i + j]
        BY <3>2
      <3>5. /\ Without(c) \in Seq(RuntimeCallers)
            /\ DOMAIN Without(c) = 1..(Len(queue) - 1)
            /\ \A j \in 1..(Len(queue) - 1) :
                  Without(c)[j] = IF j < i THEN queue[j] ELSE queue[j + 1]
        <4> DEFINE s == SubSeq(queue, 1, i - 1)
                   t == SubSeq(queue, i + 1, Len(queue))
        <4>1. s \in Seq(RuntimeCallers) /\ t \in Seq(RuntimeCallers) /\ Without(c) = s \o t
          BY <3>1, <3>3, <3>4
        <4>2. Len(s) = i - 1 /\ Len(t) = Len(queue) - i
          BY <3>3, <3>4
        <4> HIDE DEF s, t
        <4>3. /\ s \o t \in Seq(RuntimeCallers) /\ Len(s \o t) = Len(s) + Len(t)
              /\ \A j \in 1..(Len(s) + Len(t)) :
                    (s \o t)[j] = IF j <= Len(s) THEN s[j] ELSE t[j - Len(s)]
          BY <4>1, ConcatProperties
        <4>4. Len(s) + Len(t) = Len(queue) - 1
          BY <3>2, <4>2
        <4>5. /\ Without(c) \in Seq(RuntimeCallers)
              /\ DOMAIN Without(c) = 1..(Len(queue) - 1)
          BY <4>1, <4>3, <4>4
        <4>6. ASSUME NEW j \in 1..(Len(queue) - 1)
              PROVE  Without(c)[j] = IF j < i THEN queue[j] ELSE queue[j + 1]
          <5>1. Without(c)[j] = IF j <= i - 1 THEN s[j] ELSE t[j - (i - 1)]
            BY <4>1, <4>2, <4>3, <4>4
          <5>2. j < i => j <= i - 1 /\ j \in 1..(i - 1)
            BY <3>2
          <5>3. ~(j < i) => /\ ~(j <= i - 1) /\ j - (i - 1) \in 1..(Len(queue) - i)
                            /\ i + (j - (i - 1)) = j + 1
            BY <3>2
          <5> QED
            BY <3>3, <3>4, <5>1, <5>2, <5>3 DEF s, t
        <4> QED
          BY <4>5, <4>6
      <3>6. \A j \in 1..Len(queue) : j # i => queue[j] # c
        BY <3>1, <3>2 DEF QueueFits
      <3>7. \A j, m \in 1..Len(queue) : queue[j] = queue[m] => j = m
        BY <3>2 DEF QueueFits
      <3>8. \A j \in DOMAIN Without(c) :
               Without(c)[j] # c /\ \E m \in DOMAIN queue : Without(c)[j] = queue[m]
        BY <3>2, <3>5, <3>6
      <3>9. \A j, m \in DOMAIN Without(c) : Without(c)[j] = Without(c)[m] => j = m
        BY <3>2, <3>5, <3>7
      <3> QED
        BY <3>5, <3>8, <3>9 DEF Remains
    <2> QED
      BY <2>1, <2>2
  <1> QED
    BY <1>1, <1>2

\* Where a caller may go when its call ends.
LEMMA AfterFits ==
  ASSUME NEW c \in Callers, callers[c] \in Caller, NEW outcome \in Outcome,
         NEW k \in After(c, outcome)
  PROVE  /\ k \in Caller /\ k.age = 0 /\ k.pc \in {"over", "ready"}
         /\ k.call = callers[c].call
         /\ k.pc = "ready" => c \in RuntimeCallers
  <1>1. /\ Over(callers[c]) \in Caller
        /\ Over(callers[c]).age = 0 /\ Over(callers[c]).pc = "over"
        /\ Over(callers[c]).call = callers[c].call
    <2>1. 0 \in 0..CallTimeout /\ 0 \in 0..1 /\ 0 \in 0..TaskTimeout
      BY AgentCallsAssumption
    <2>2. ASSUME NEW x \in Caller, NEW n \in 0..CallTimeout, n \in 0..1, n \in 0..TaskTimeout
          PROVE  LET y == [x EXCEPT !.pc = "over", !.age = n, !.pause = n, !.life = n]
                 IN  y \in Caller /\ y.age = n /\ y.pc = "over" /\ y.call = x.call
      BY <2>2, Zenon DEF Caller
    <2> QED
      BY <2>1, <2>2, Zenon DEF Over
  <1>2. ASSUME NEW n \in NextKinds(callers[c].kind, outcome), NEW w,
               w = Pause(callers[c].kind, outcome),
               k = [callers[c] EXCEPT !.pc = "ready", !.kind = n, !.age = 0, !.pause = w]
        PROVE  k \in Caller /\ k.age = 0 /\ k.pc = "ready" /\ k.call = callers[c].call
    <2>1. n \in Kind /\ w \in 0..1 /\ 0 \in 0..CallTimeout
      BY <1>2, AgentCallsAssumption DEF NextKinds, Kind, Pause, Caller
    <2>2. ASSUME NEW x \in Caller, NEW m \in 0..CallTimeout, w \in 0..1, n \in Kind
          PROVE  LET y == [x EXCEPT !.pc = "ready", !.kind = n, !.age = m, !.pause = w]
                 IN  y \in Caller /\ y.age = m /\ y.pc = "ready" /\ y.call = x.call
      BY <2>2, Zenon DEF Caller
    <2> QED
      BY <1>2, <2>1, <2>2, Zenon
  <1> QED
    BY <1>1, <1>2 DEF After, RuntimeCallers

\* A caller leaves its call, and with it the queue; a process it leaves behind when it
\* goes on is at least a timeout old.
LEMMA LeavingKeeps ==
  ASSUME CallsInv, NEW c \in Callers, NEW k \in Caller,
         k.age = 0, k.pc \in {"over", "ready"}, k.call = callers[c].call,
         callers' = [callers EXCEPT ![c] = k], procs' \subseteq procs,
         Remains(queue', c),
         k.pc = "ready" => \A p \in procs' : p.caller = c => p.sinceCall >= CallTimeout
  PROVE  CallsInv'
  <1>1. /\ CallsTypeOK' /\ IsFiniteSet(procs')
        /\ \A d \in Callers : callers'[d] = IF d = c THEN k ELSE callers[d]
    BY FS_Subset DEF CallsInv, CallsTypeOK, Remains
  <1>2. QueueFits'
    <2>1. \A i \in DOMAIN queue' : /\ queue'[i] \in Callers /\ queue'[i] # c
                                   /\ \E j \in DOMAIN queue : queue'[i] = queue[j]
      BY DEF Remains, Callers
    <2>2. \A i \in DOMAIN queue' : callers'[queue'[i]] = callers[queue'[i]]
      BY <1>1, <2>1
    <2>3. \A d \in Callers : IF callers'[d].pc = "calling" THEN callers'[d].call # 0
                                                         ELSE callers'[d].age = 0
      BY <1>1 DEF CallsInv, QueueFits
    <2>4. \A i, j \in DOMAIN queue' : queue'[i] = queue'[j] => i = j
      BY DEF Remains
    <2>5. ASSUME NEW i \in DOMAIN queue'
          PROVE  /\ callers'[queue'[i]].pc = "calling"
                 /\ \A p \in procs' : p.caller = queue'[i] => p.call # callers'[queue'[i]].call
      BY <2>1, <2>2 DEF CallsInv, QueueFits
    <2> QED
      BY <2>3, <2>4, <2>5 DEF QueueFits
  <1>3. ASSUME NEW p \in Busy' PROVE ProcessFits(p)'
    <2>1. p \in Busy /\ p \in Process /\ p.caller \in Callers /\ ProcessFits(p)
      BY <1>3 DEF Busy, CallsInv, CallsTypeOK, Process
    <2>2. CASE p.caller # c
      BY <1>1, <2>1, <2>2 DEF ProcessFits
    <2>3. CASE p.caller = c
      BY <1>1, <1>3, <2>1, <2>3 DEF ProcessFits, Busy
    <2> QED
      BY <2>2, <2>3
  <1>4. \A p, q \in Busy' : Spaced(p, q)'
    BY DEF CallsInv, Busy, Spaced
  <1> QED
    BY <1>1, <1>2, <1>3, <1>4 DEF CallsInv

\* The caller has no call in the queue, or it has left there.
LEMMA NotQueued ==
  ASSUME CallsInv, NEW c \in Callers,
         callers[c].pc # "calling" \/ \E p \in procs : p.caller = c /\ p.call = callers[c].call
  PROVE  Remains(queue, c)
  BY DEF CallsInv, CallsTypeOK, QueueFits, Remains

LEMMA CallsInitInv == CallsInit => CallsInv
  <1> SUFFICES ASSUME CallsInit PROVE CallsInv
    OBVIOUS
  <1>1. /\ 0 \in 0..MaxCalls /\ 0 \in 0..CallTimeout /\ 0 \in 0..1 /\ 0 \in 0..TaskTimeout
    BY AgentCallsAssumption
  <1>2. callers \in [Callers -> Caller] /\ \A c \in Callers : callers[c].age = 0 /\ callers[c].pc = "idle"
    BY <1>1 DEF CallsInit, Caller, Kind
  <1>3. queue = <<>> /\ procs = {} /\ IsFiniteSet(procs)
    BY FS_EmptySet DEF CallsInit
  <1> QED
    BY <1>2, <1>3 DEF CallsInv, CallsTypeOK, QueueFits, Busy

\* A new call is younger than every process by a timeout.
LEMMA CallAgentKeeps ==
  ASSUME CallsInv, NEW c \in Callers, CallAgent(c)
  PROVE  CallsInv'
  <1> DEFINE k == [callers[c] EXCEPT !.pc = "calling", !.call = @ + 1]
  <1>1. /\ callers[c] \in Caller /\ callers[c].call + 1 \in 0..MaxCalls
        /\ callers[c].pc # "calling" /\ callers[c].age = 0
    BY DEF CallAgent, CallsInv, CallsTypeOK, QueueFits, Caller
  <1>2. k \in Caller /\ k.pc = "calling" /\ k.call = callers[c].call + 1 /\ k.age = 0
    BY <1>1 DEF Caller
  <1>3. callers' = [callers EXCEPT ![c] = k]
    BY DEF CallAgent
  <1> HIDE DEF k
  <1>4. /\ CallsTypeOK' /\ IsFiniteSet(procs')
        /\ \A d \in Callers : callers'[d] = IF d = c THEN k ELSE callers[d]
    <2>1. /\ callers' \in [Callers -> Caller]
          /\ \A d \in Callers : callers'[d] = IF d = c THEN k ELSE callers[d]
      BY <1>2, <1>3 DEF CallsInv, CallsTypeOK
    <2>2. queue' \in Seq(RuntimeCallers) /\ procs' = procs
      BY DEF CallsInv, CallsTypeOK, CallAgent
    <2> QED
      BY <2>1, <2>2 DEF CallsInv, CallsTypeOK
  <1>5. \A p \in procs : p \in Process /\ (p.caller = c => p.call < k.call)
    <2>1. ASSUME NEW p \in procs, p.caller = c PROVE p.call <= callers[c].call
      BY <2>1 DEF CallsInv, Busy, ProcessFits, CallAgent
    <2> QED
      BY <1>1, <1>2, <2>1 DEF CallsInv, CallsTypeOK, Process, Caller
  <1>6. QueueFits'
    <2>1. /\ Len(queue) \in Nat /\ DOMAIN queue = 1..Len(queue)
          /\ DOMAIN queue' = 1..(Len(queue) + 1) /\ queue'[Len(queue) + 1] = c
          /\ \A i \in 1..Len(queue) : queue'[i] = queue[i] /\ queue[i] \in Callers
      BY DEF CallAgent, CallsInv, CallsTypeOK, Callers
    <2>2. \A i \in 1..Len(queue) : queue[i] # c
      BY <1>1, <2>1 DEF CallsInv, QueueFits
    <2>3. \A d \in Callers : IF callers'[d].pc = "calling" THEN callers'[d].call # 0
                                                         ELSE callers'[d].age = 0
      BY <1>1, <1>2, <1>4 DEF CallsInv, QueueFits, Caller
    <2>4. \A i, j \in DOMAIN queue' : queue'[i] = queue'[j] => i = j
      BY <2>1, <2>2 DEF CallsInv, QueueFits
    <2>5. ASSUME NEW i \in DOMAIN queue'
          PROVE  /\ callers'[queue'[i]].pc = "calling"
                 /\ \A p \in procs' : p.caller = queue'[i] => p.call # callers'[queue'[i]].call
      <3>1. CASE i = Len(queue) + 1
        <4>1. queue'[i] = c /\ callers'[c] = k /\ procs' = procs
          BY <1>4, <2>1, <3>1 DEF CallAgent
        <4>2. \A p \in procs : p.caller = c => p.call # k.call
          BY <1>2, <1>1, <1>5 DEF Process, Caller
        <4> QED
          BY <1>2, <4>1, <4>2
      <3>2. CASE i \in 1..Len(queue)
        <4>1. PICK d \in Callers : d = queue[i] /\ queue'[i] = d /\ d # c
          BY <2>1, <2>2, <3>2
        <4>2. callers'[d] = callers[d] /\ procs' = procs
          BY <1>4, <4>1 DEF CallAgent
        <4> QED
          BY <2>1, <3>2, <4>1, <4>2 DEF CallsInv, QueueFits
      <3> QED
        BY <2>1, <3>1, <3>2
    <2> QED
      BY <2>3, <2>4, <2>5 DEF QueueFits
  <1>7. ASSUME NEW p \in Busy' PROVE ProcessFits(p)'
    <2>1. p \in Busy /\ p \in Process /\ ProcessFits(p)
      BY <1>5, <1>7 DEF Busy, CallsInv, CallAgent
    <2>2. p.caller \in Callers /\ p.sinceCall \in Nat /\ p.call \in Nat
      BY <2>1 DEF Process
    <2>3. CASE p.caller # c
      BY <1>4, <2>1, <2>2, <2>3 DEF ProcessFits
    <2>4. CASE p.caller = c
      <3>1. callers[c].pc = "ready" /\ p.sinceCall >= CallTimeout
        BY <2>1, <2>4 DEF ProcessFits, CallAgent
      <3>2. callers'[p.caller] = k /\ p.call < k.call /\ p.call <= k.call /\ CallTimeout \in Nat
        <4>1. callers'[p.caller] = k /\ p.call < k.call
          BY <1>4, <1>5, <2>1, <2>4 DEF Busy
        <4>2. p.call \in Nat /\ k.call \in Nat /\ CallTimeout \in Nat
          BY <1>2, <2>2, AgentCallsAssumption DEF Caller
        <4> QED
          BY <4>1, <4>2
      <3> QED
        BY <1>2, <2>1, <2>2, <3>1, <3>2 DEF ProcessFits
    <2> QED
      BY <2>3, <2>4
  <1>8. \A p, q \in Busy' : Spaced(p, q)'
    BY DEF CallsInv, Busy, Spaced, CallAgent
  <1> QED
    BY <1>4, <1>6, <1>7, <1>8 DEF CallsInv

\* A process of the connector is in no thread.
LEMMA InvokeConnectorKeeps ==
  ASSUME CallsInv, NEW c \in Callers, InvokeConnector(c)
  PROVE  CallsInv'
  <1> DEFINE k == [callers[c] EXCEPT !.pc = "calling", !.call = 1]
             p == [caller |-> c, call |-> 1, age |-> 0, sinceCall |-> 0]
  <1>1. callers[c] \in Caller /\ callers[c].age = 0 /\ 1 \in 1..MaxCalls /\ 1 \in 0..MaxCalls
    BY AgentCallsAssumption DEF InvokeConnector, CallsInv, CallsTypeOK, QueueFits
  <1>2. k \in Caller /\ k.pc = "calling" /\ k.call = 1
    BY <1>1, Zenon DEF Caller
  <1>3. p \in Process /\ p.caller = c
    BY <1>1 DEF Process
  <1>4. callers' = [callers EXCEPT ![c] = k] /\ procs' = procs \cup {p} /\ queue' = queue
    BY DEF InvokeConnector
  <1>5. c \notin RuntimeCallers
    BY AgentCallsAssumption DEF InvokeConnector
  <1> HIDE DEF k, p
  <1>6. /\ CallsTypeOK' /\ IsFiniteSet(procs')
        /\ \A d \in Callers : callers'[d] = IF d = c THEN k ELSE callers[d]
    BY <1>2, <1>3, <1>4, FS_AddElement DEF CallsInv, CallsTypeOK
  <1>7. Busy' = Busy
    BY <1>3, <1>4, <1>5 DEF Busy
  <1>8. QueueFits'
    <2>1. \A i \in DOMAIN queue : queue[i] \in Callers /\ queue[i] # c
      BY <1>5 DEF CallsInv, CallsTypeOK, Callers
    <2>2. \A d \in Callers : IF callers'[d].pc = "calling" THEN callers'[d].call # 0
                                                         ELSE callers'[d].age = 0
      BY <1>2, <1>6 DEF CallsInv, QueueFits
    <2> QED
      BY <1>3, <1>4, <1>6, <2>1, <2>2 DEF CallsInv, QueueFits
  <1>9. ASSUME NEW q \in Busy PROVE ProcessFits(q)'
    BY <1>5, <1>6 DEF CallsInv, CallsTypeOK, Busy, ProcessFits, Callers
  <1>10. \A q, r \in Busy' : Spaced(q, r)'
    BY <1>7 DEF CallsInv, Spaced
  <1> QED
    BY <1>6, <1>7, <1>8, <1>9, <1>10 DEF CallsInv

\* The first call of the queue gets its process, younger than those of the calls before.
LEMMA SpawnKeeps ==
  ASSUME CallsInv, Spawn
  PROVE  CallsInv'
  <1>1. PICK c \in Callers : c = Head(queue) /\ c \in RuntimeCallers
    BY DEF Spawn, CallsInv, CallsTypeOK, Callers
  <1>2. PICK k \in Caller : k = callers[c]
    BY DEF CallsInv, CallsTypeOK
  <1> DEFINE p == [caller |-> c, call |-> k.call, age |-> 0, sinceCall |-> k.age]
  <1>3. /\ queue # <<>> /\ callers' = callers
        /\ procs' = procs \cup {p} /\ queue' = Tail(queue)
    BY <1>1, <1>2 DEF Spawn
  <1>4. k.pc = "calling" /\ k.call # 0 /\ \A q \in procs : q.caller = c => q.call # k.call
    <2>1. 1 \in DOMAIN queue /\ c = queue[1]
      BY <1>1, <1>3 DEF CallsInv, CallsTypeOK
    <2> QED
      BY <1>2, <2>1 DEF CallsInv, QueueFits
  <1>5. Remains(queue', c)
    BY <1>1, <1>3, QueueRemains DEF CallsInv, CallsTypeOK
  <1>6. /\ k.age \in Nat /\ k.age <= CallTimeout /\ CallTimeout \in Nat
        /\ k.call \in 1..MaxCalls
    BY <1>4, AgentCallsAssumption DEF Caller
  <1>7. /\ p \in Process /\ p.caller = c /\ p.call = k.call /\ p.age = 0 /\ p.sinceCall = k.age
    BY <1>6 DEF Process
  <1> HIDE DEF p
  <1>8. CallsTypeOK' /\ IsFiniteSet(procs')
    BY <1>3, <1>5, <1>7, FS_AddElement DEF CallsInv, CallsTypeOK, Remains
  <1>9. QueueFits'
    <2>1. \A i \in DOMAIN queue' : queue'[i] # c /\ \E j \in DOMAIN queue : queue'[i] = queue[j]
      BY <1>5 DEF Remains
    <2>2. \A i, j \in DOMAIN queue' : queue'[i] = queue'[j] => i = j
      BY <1>5 DEF Remains
    <2> QED
      BY <1>3, <1>7, <2>1, <2>2 DEF CallsInv, QueueFits
  <1>10. ProcessFits(p)
    BY <1>2, <1>4, <1>6, <1>7 DEF ProcessFits
  <1>11. \A q \in Busy' : ProcessFits(q)'
    <2>1. \A q \in Busy' : q = p \/ q \in Busy
      BY <1>3 DEF Busy
    <2>2. \A q \in Busy : ProcessFits(q)
      BY DEF CallsInv
    <2>3. \A q \in Busy' : ProcessFits(q)
      BY <1>10, <2>1, <2>2
    <2> QED
      BY <1>3, <2>3 DEF ProcessFits
  <1>12. ASSUME NEW q \in Busy, q.caller = c
         PROVE  q.call < p.call /\ q.sinceCall >= p.sinceCall + CallTimeout
    <2>1. q \in procs /\ q \in Process /\ ProcessFits(q)
      BY <1>12 DEF CallsInv, CallsTypeOK, Busy
    <2>2. q.call \in Nat /\ q.call # k.call /\ q.call <= k.call
      BY <1>2, <1>4, <1>12, <2>1 DEF ProcessFits, Process
    <2>3. q.call < k.call
      BY <1>6, <2>2
    <2> QED
      BY <1>2, <1>4, <1>7, <1>12, <2>1, <2>3 DEF ProcessFits
  <1>13. \A q, r \in Busy' : Spaced(q, r)'
    <2>1. \A q \in Busy' : q = p \/ q \in Busy
      BY <1>3 DEF Busy
    <2>2. \A q, r \in Busy : Spaced(q, r)
      BY DEF CallsInv
    <2>3. p.call \in Nat /\ \A q \in Busy : q.call \in Nat
      BY <1>6, <1>7 DEF CallsInv, CallsTypeOK, Busy, Process
    <2>4. \A q \in Busy : Spaced(p, q) /\ Spaced(q, p)
      BY <1>7, <1>12, <2>3 DEF Spaced
    <2>5. Spaced(p, p)
      BY <2>3 DEF Spaced
    <2>6. \A q, r \in Busy' : Spaced(q, r)
      BY <2>1, <2>2, <2>4, <2>5
    <2> QED
      BY <2>6 DEF Spaced
  <1> QED
    BY <1>8, <1>9, <1>11, <1>13 DEF CallsInv

\* Processes end, and nobody waited for them.
LEMMA EndingKeeps ==
  ASSUME CallsInv, procs' \subseteq procs, UNCHANGED <<callers, queue>>
  PROVE  CallsInv'
  <1>1. CallsTypeOK' /\ IsFiniteSet(procs') /\ QueueFits'
    BY FS_Subset DEF CallsInv, CallsTypeOK, QueueFits
  <1>2. Busy' \subseteq Busy
    BY DEF Busy
  <1>3. (\A p \in Busy' : ProcessFits(p)') /\ \A p, q \in Busy' : Spaced(p, q)'
    BY <1>2 DEF CallsInv, ProcessFits, Spaced
  <1> QED
    BY <1>1, <1>3 DEF CallsInv

\* A process ends, by itself or killed, and its caller goes on if it waited for it.
LEMMA ProcessEndKeeps ==
  ASSUME CallsInv, NEW p \in procs, NEW outcome \in Outcome,
         Deliver(p.caller, p.call, outcome), procs' = procs \ {p}, UNCHANGED queue
  PROVE  CallsInv'
  <1>1. CASE ~ Waits(p.caller, p.call)
    BY <1>1, EndingKeeps DEF Deliver
  <1>2. CASE Waits(p.caller, p.call)
    <2>1. PICK c \in Callers : c = p.caller
      BY DEF CallsInv, CallsTypeOK, Process
    <2>2. PICK k \in After(c, outcome) : callers' = [callers EXCEPT ![c] = k]
      BY <1>2, <2>1 DEF Deliver
    <2>3. callers[c] \in Caller
      BY DEF CallsInv, CallsTypeOK
    <2>4. k \in Caller /\ k.age = 0 /\ k.pc \in {"over", "ready"} /\ k.call = callers[c].call
      BY <2>3, AfterFits
    <2>5. Remains(queue', c)
      BY <1>2, <2>1, NotQueued DEF Waits
    <2>6. ASSUME NEW q \in procs', q.caller = c, k.pc = "ready" PROVE q.sinceCall >= CallTimeout
      <3>1. c \in RuntimeCallers
        BY <2>2, <2>3, <2>6, AfterFits
      <3>2. p \in Busy /\ q \in Busy /\ q # p /\ q \in Process
        BY <2>1, <2>6, <3>1 DEF Busy, CallsInv, CallsTypeOK
      <3>3. q.call # p.call /\ ProcessFits(q)
        BY <2>1, <2>6, <3>2 DEF CallsInv, Spaced
      <3>4. callers[c].pc = "calling" /\ callers[c].call = p.call
        BY <1>2, <2>1 DEF Waits
      <3>5. q.call <= p.call /\ q.call \in Nat /\ p.call \in Nat /\ q.sinceCall \in Nat
        BY <2>6, <3>2, <3>3, <3>4 DEF ProcessFits, Busy, CallsInv, CallsTypeOK, Process
      <3>6. q.call < p.call
        BY <3>3, <3>5
      <3>7. q.sinceCall >= callers[c].age + CallTimeout
        BY <2>6, <3>3, <3>4, <3>6 DEF ProcessFits
      <3> QED
        BY <2>3, <3>5, <3>7, AgentCallsAssumption DEF Caller
    <2> QED
      BY <2>2, <2>4, <2>5, <2>6, LeavingKeeps
  <1> QED
    BY <1>1, <1>2

\* The wait of a call is over: its process, if it has one, is as old as the wait.
LEMMA CallTimesOutKeeps ==
  ASSUME CallsInv, NEW c \in Callers, CallTimesOut(c)
  PROVE  CallsInv'
  <1>1. PICK k \in After(c, "TimeoutError") : callers' = [callers EXCEPT ![c] = k]
    BY DEF CallTimesOut
  <1>2. callers[c] \in Caller /\ "TimeoutError" \in Outcome
    BY DEF CallsInv, CallsTypeOK, Outcome
  <1>3. k \in Caller /\ k.age = 0 /\ k.pc \in {"over", "ready"} /\ k.call = callers[c].call
    BY <1>2, AfterFits
  <1>4. Remains(queue', c) /\ procs' = procs
    BY QueueRemains DEF CallTimesOut, CallsInv, CallsTypeOK
  <1>5. ASSUME NEW q \in procs', q.caller = c, k.pc = "ready" PROVE q.sinceCall >= CallTimeout
    <2>1. c \in RuntimeCallers
      BY <1>1, <1>2, <1>5, AfterFits
    <2>2. q \in Busy /\ q \in Process /\ ProcessFits(q)
      BY <1>4, <1>5, <2>1 DEF Busy, CallsInv, CallsTypeOK
    <2>3. /\ callers[c].pc = "calling" /\ callers[c].age = CallTimeout /\ CallTimeout \in Nat
          /\ callers[c].call \in Nat /\ q.call \in Nat /\ q.sinceCall \in Nat
      BY <1>2, <2>2, AgentCallsAssumption DEF CallTimesOut, Caller, Process
    <2>4. CASE q.call = callers[c].call
      BY <1>5, <2>2, <2>3, <2>4 DEF ProcessFits
    <2>5. CASE q.call < callers[c].call
      BY <1>5, <2>2, <2>3, <2>5 DEF ProcessFits
    <2>6. q.call <= callers[c].call
      BY <1>5, <2>2 DEF ProcessFits
    <2> QED
      BY <2>3, <2>4, <2>5, <2>6
  <1> QED
    BY <1>1, <1>3, <1>4, <1>5, LeavingKeeps

\* The task is over, by its timeout or because its run returned.
LEMMA TaskEndKeeps ==
  ASSUME CallsInv, NEW c \in Callers, TaskTimesOut(c) \/ RunReturns(c)
  PROVE  CallsInv'
  <1>1. PICK k : k = Over(callers[c])
    OBVIOUS
  <1>2. callers[c] \in Caller /\ "answer" \in Outcome /\ k \in After(c, "answer")
    BY <1>1 DEF CallsInv, CallsTypeOK, Outcome, After
  <1>3. /\ k \in Caller /\ k.age = 0 /\ k.pc \in {"over", "ready"} /\ k.call = callers[c].call
        /\ k.pc = "over"
    BY <1>1, <1>2, AfterFits DEF Over, Caller
  <1>4. callers' = [callers EXCEPT ![c] = k] /\ procs' = procs
    BY <1>1 DEF TaskTimesOut, RunReturns
  <1>5. Remains(queue', c)
    BY QueueRemains, NotQueued DEF TaskTimesOut, RunReturns, CallsInv, CallsTypeOK
  <1> QED
    BY <1>3, <1>4, <1>5, LeavingKeeps

\* A tick makes every waiting call and every process of the runtime older by one.
LEMMA TickKeeps ==
  ASSUME CallsInv, Tick
  PROVE  CallsInv'
  <1> DEFINE Aged(p) == IF p.caller \in RuntimeCallers
                        THEN [p EXCEPT !.age = @ + 1, !.sinceCall = @ + 1] ELSE p
  <1>1. \A c \in Callers :
           /\ callers'[c] \in Caller
           /\ callers'[c].pc = callers[c].pc /\ callers'[c].call = callers[c].call
           /\ callers'[c].age = IF callers[c].pc = "calling" THEN callers[c].age + 1
                                                            ELSE callers[c].age
    <2> SUFFICES ASSUME NEW c \in Callers
                 PROVE  /\ callers'[c] \in Caller
                        /\ callers'[c].pc = callers[c].pc /\ callers'[c].call = callers[c].call
                        /\ callers'[c].age = IF callers[c].pc = "calling"
                                             THEN callers[c].age + 1 ELSE callers[c].age
      OBVIOUS
    <2>1. PICK k \in Caller : k = callers[c]
      BY DEF CallsInv, CallsTypeOK
    <2>2. PICK a : a = IF k.pc = "calling" THEN k.age + 1 ELSE k.age
      OBVIOUS
    <2>3. PICK w : w = IF k.pc = "ready" THEN 0 ELSE k.pause
      OBVIOUS
    <2>4. PICK l : l = IF c \in TaskRuns
                       THEN IF k.pc \in {"ready", "calling"} THEN k.life + 1 ELSE k.life
                       ELSE 0
      OBVIOUS
    <2>5. a \in 0..CallTimeout /\ w \in 0..1 /\ l \in 0..TaskTimeout
      <3>1. k.pc = "calling" => k.age # CallTimeout
        BY <2>1 DEF Tick, TimerDue
      <3>2. c \in TaskRuns => k.life # TaskTimeout
        BY <2>1 DEF Tick, TimerDue
      <3>3. k.age \in 0..CallTimeout /\ k.pause \in 0..1 /\ k.life \in 0..TaskTimeout
        BY DEF Caller
      <3> QED
        BY <2>2, <2>3, <2>4, <3>1, <3>2, <3>3, AgentCallsAssumption
    <2>6. callers'[c] = [k EXCEPT !.age = a, !.pause = w, !.life = l]
      BY <2>1, <2>2, <2>3, <2>4 DEF Tick, Older, Caller
    <2>7. [k EXCEPT !.age = a, !.pause = w, !.life = l] \in Caller
      BY <2>5, Zenon DEF Caller
    <2> QED
      BY <2>1, <2>2, <2>6, <2>7 DEF Caller
  <1>2. \A p \in Process :
           /\ Aged(p) \in Process /\ Aged(p).caller = p.caller /\ Aged(p).call = p.call
           /\ p.caller \in RuntimeCallers => /\ Aged(p).age = p.age + 1
                                             /\ Aged(p).sinceCall = p.sinceCall + 1
    <2>1. ASSUME NEW p \in Process, p.caller \in RuntimeCallers
          PROVE  /\ Aged(p) \in Process /\ Aged(p).caller = p.caller /\ Aged(p).call = p.call
                 /\ Aged(p).age = p.age + 1 /\ Aged(p).sinceCall = p.sinceCall + 1
      <3>1. p.age + 1 \in Nat /\ p.sinceCall + 1 \in Nat
        BY DEF Process
      <3>2. Aged(p) = [p EXCEPT !.age = p.age + 1, !.sinceCall = p.sinceCall + 1]
        BY <2>1, Zenon DEF Process
      <3>3. ASSUME NEW a \in Nat, NEW b \in Nat, Aged(p) = [p EXCEPT !.age = a, !.sinceCall = b]
            PROVE  /\ Aged(p) \in Process /\ Aged(p).caller = p.caller /\ Aged(p).call = p.call
                   /\ Aged(p).age = a /\ Aged(p).sinceCall = b
        BY <3>3, Zenon DEF Process
      <3> HIDE DEF Aged
      <3> QED
        BY <3>1, <3>2, <3>3
    <2> QED
      BY <2>1
  <1>3. procs' = {Aged(p) : p \in procs} /\ queue' = queue
    BY DEF Tick
  <1>4. callers' \in [Callers -> Caller]
    BY <1>1 DEF Tick
  <1> HIDE DEF Aged
  <1>5. IsFiniteSet(procs')
    <2> DEFINE f == [p \in procs |-> Aged(p)]
    <2>1. f \in Surjection(procs, procs')
      BY <1>3 DEF Surjection
    <2> QED
      BY <2>1, FS_Surjection DEF CallsInv
  <1>6. CallsTypeOK'
    BY <1>2, <1>3, <1>4 DEF CallsInv, CallsTypeOK
  <1>7. QueueFits'
    <2>1. \A i \in DOMAIN queue : queue[i] \in Callers
      BY DEF CallsInv, CallsTypeOK, Callers
    <2>2. \A q \in procs' : \E p \in procs : q.caller = p.caller /\ q.call = p.call
      BY <1>2, <1>3 DEF CallsInv, CallsTypeOK
    <2>3. ASSUME NEW c \in Callers
          PROVE  IF callers'[c].pc = "calling" THEN callers'[c].call # 0 ELSE callers'[c].age = 0
      BY <1>1 DEF CallsInv, QueueFits
    <2> QED
      BY <1>1, <1>3, <2>1, <2>2, <2>3 DEF CallsInv, QueueFits
  <1>8. ASSUME NEW q \in Busy'
        PROVE  \E p \in Busy : /\ p \in Process /\ q = Aged(p) /\ q.caller = p.caller
                               /\ q.call = p.call /\ q.age = p.age + 1
                               /\ q.sinceCall = p.sinceCall + 1 /\ p.age # CallTimeout
    <2>1. PICK p \in procs : q = Aged(p)
      BY <1>3, <1>8 DEF Busy
    <2>2. p \in Process /\ p.caller = q.caller /\ q.caller \in RuntimeCallers
      BY <1>2, <1>8, <2>1 DEF Busy, CallsInv, CallsTypeOK
    <2>3. p \in Busy
      BY <2>2 DEF Busy
    <2>4. p.age # CallTimeout
      BY <2>3 DEF Tick, TimerDue
    <2> QED
      BY <1>2, <2>1, <2>2, <2>3, <2>4
  <1>9. ASSUME NEW q \in Busy' PROVE ProcessFits(q)'
    <2>1. PICK p \in Busy : /\ p \in Process /\ q = Aged(p) /\ q.caller = p.caller
                            /\ q.call = p.call /\ q.age = p.age + 1
                            /\ q.sinceCall = p.sinceCall + 1 /\ p.age # CallTimeout
      BY <1>8
    <2>2. PICK c \in Callers : c = p.caller
      BY <2>1 DEF Process
    <2>3. ProcessFits(p)
      BY DEF CallsInv
    <2>4. PICK k \in Caller, l \in Caller : k = callers[c] /\ l = callers'[c]
      BY <1>1 DEF CallsInv, CallsTypeOK
    <2>5. /\ k.age \in Nat /\ k.call \in Nat /\ CallTimeout \in Nat
          /\ p.age \in Nat /\ p.sinceCall \in Nat /\ p.call \in Nat
      BY <2>1, AgentCallsAssumption DEF Caller, Process
    <2>6. l.pc = k.pc /\ l.call = k.call /\ l.age = IF k.pc = "calling" THEN k.age + 1 ELSE k.age
      BY <1>1, <2>4
    <2>7. /\ p.age <= CallTimeout /\ p.age <= p.sinceCall /\ p.sinceCall <= p.age + CallTimeout
          /\ k.pc # "idle" /\ p.call <= k.call
          /\ k.pc = "calling" /\ p.call = k.call => p.sinceCall = k.age
          /\ k.pc = "calling" /\ p.call < k.call => p.sinceCall >= k.age + CallTimeout
          /\ k.pc = "ready" => p.sinceCall >= CallTimeout
      BY <2>2, <2>3, <2>4 DEF ProcessFits
    <2>8. /\ q.age <= CallTimeout /\ q.age <= q.sinceCall /\ q.sinceCall <= q.age + CallTimeout
          /\ l.pc # "idle" /\ q.call <= l.call
          /\ l.pc = "calling" /\ q.call = l.call => q.sinceCall = l.age
          /\ l.pc = "calling" /\ q.call < l.call => q.sinceCall >= l.age + CallTimeout
          /\ l.pc = "ready" => q.sinceCall >= CallTimeout
      BY <2>1, <2>5, <2>6, <2>7
    <2> QED
      BY <2>1, <2>2, <2>4, <2>8 DEF ProcessFits
  <1>10. ASSUME NEW q \in Busy', NEW r \in Busy' PROVE Spaced(q, r)'
    <2>1. PICK p \in Busy : /\ p \in Process /\ q = Aged(p) /\ q.caller = p.caller
                            /\ q.call = p.call /\ q.sinceCall = p.sinceCall + 1
      BY <1>8
    <2>2. PICK s \in Busy : /\ s \in Process /\ r = Aged(s) /\ r.caller = s.caller
                            /\ r.call = s.call /\ r.sinceCall = s.sinceCall + 1
      BY <1>8
    <2>3. Spaced(p, s)
      BY DEF CallsInv
    <2>4. p.sinceCall \in Nat /\ s.sinceCall \in Nat /\ CallTimeout \in Nat
      BY <2>1, <2>2, AgentCallsAssumption DEF Process
    <2> QED
      BY <2>1, <2>2, <2>3, <2>4 DEF Spaced
  <1> QED
    BY <1>5, <1>6, <1>7, <1>9, <1>10 DEF CallsInv

LEMMA CallsNextInv == CallsInv /\ [CallsNext]_callsVars => CallsInv'
  <1> SUFFICES ASSUME CallsInv, [CallsNext]_callsVars PROVE CallsInv'
    OBVIOUS
  <1>1. CASE UNCHANGED callsVars
    BY <1>1, EndingKeeps DEF callsVars
  <1>2. CASE Tick
    BY <1>2, TickKeeps
  <1>3. CASE Spawn
    BY <1>3, SpawnKeeps
  <1>4. CASE SpawnFails
    <2>1. PICK c \in Callers : c = Head(queue)
      BY <1>4 DEF SpawnFails, CallsInv, CallsTypeOK, Callers
    <2>2. 1 \in DOMAIN queue /\ c = queue[1]
      BY <1>4, <2>1 DEF SpawnFails, CallsInv, CallsTypeOK
    <2>3. /\ callers[c].pc = "calling" /\ callers[c] \in Caller
          /\ \A p \in procs : p.caller = c => p.call # callers[c].call
      BY <2>2 DEF CallsInv, CallsTypeOK, QueueFits
    <2>4. "PiAgentError" \in Outcome
      BY DEF Outcome
    <2>5. PICK k \in After(c, "PiAgentError") : callers' = [callers EXCEPT ![c] = k]
      BY <1>4, <2>1, <2>3 DEF SpawnFails, Deliver, Waits
    <2>6. k \in Caller /\ k.age = 0 /\ k.pc \in {"over", "ready"} /\ k.call = callers[c].call
      BY <2>3, <2>4, AfterFits
    <2>7. Remains(queue', c) /\ procs' = procs
      BY <1>4, <2>1, QueueRemains DEF SpawnFails, CallsInv, CallsTypeOK
    <2>8. ASSUME NEW q \in procs', q.caller = c, k.pc = "ready" PROVE q.sinceCall >= CallTimeout
      <3>1. c \in RuntimeCallers
        BY <2>3, <2>4, <2>5, <2>8, AfterFits
      <3>2. q \in Busy /\ q \in Process /\ ProcessFits(q)
        BY <2>7, <2>8, <3>1 DEF Busy, CallsInv, CallsTypeOK
      <3>3. /\ q.call \in Nat /\ q.sinceCall \in Nat /\ callers[c].call \in Nat
            /\ callers[c].age \in Nat /\ CallTimeout \in Nat
        BY <2>3, <3>2, AgentCallsAssumption DEF Process, Caller
      <3>4. q.call <= callers[c].call /\ q.call # callers[c].call
        BY <2>3, <2>7, <2>8, <3>2 DEF ProcessFits
      <3>5. q.call < callers[c].call
        BY <3>3, <3>4
      <3>6. q.sinceCall >= callers[c].age + CallTimeout
        BY <2>3, <2>8, <3>2, <3>5 DEF ProcessFits
      <3> QED
        BY <3>3, <3>6
    <2> QED
      BY <2>5, <2>6, <2>7, <2>8, LeavingKeeps
  <1>5. ASSUME NEW c \in Callers,
               \/ CallAgent(c) \/ InvokeConnector(c)
               \/ CallTimesOut(c) \/ TaskTimesOut(c) \/ RunReturns(c)
        PROVE  CallsInv'
    BY <1>5, CallAgentKeeps, InvokeConnectorKeeps, CallTimesOutKeeps, TaskEndKeeps
  <1>6. ASSUME NEW p \in procs, CliKilled(p) \/ \E outcome \in CliOutcome : CliEnds(p, outcome)
        PROVE  CallsInv'
    <2>1. CliOutcome \subseteq Outcome /\ "PiAgentError" \in Outcome
      BY DEF CliOutcome, OutcomeOf, Outcome
    <2>2. \E outcome \in Outcome : /\ Deliver(p.caller, p.call, outcome)
                                   /\ procs' = procs \ {p} /\ UNCHANGED queue
      BY <1>6, <2>1 DEF CliKilled, CliEnds
    <2> QED
      BY <2>2, ProcessEndKeeps
  <1> QED
    BY <1>1, <1>2, <1>3, <1>4, <1>5, <1>6 DEF CallsNext

THEOREM CallsInvariant == CallsSpec => []CallsInv
  BY CallsInitInv, CallsNextInv, PTL DEF CallsSpec

\* Callers, queue and processes have their types, and there are finitely many processes.
THEOREM CallsTypeCorrect == CallsSpec => []CallsTypeOK
  BY CallsInvariant, PTL DEF CallsInv

\* A set of three elements has three different ones.
LEMMA ThreeOf ==
  ASSUME NEW S, IsFiniteSet(S), ~(Cardinality(S) <= 2)
  PROVE  \E x, y, z \in S : x # y /\ y # z /\ x # z
  <1>1. Cardinality(S) \in Nat /\ Cardinality(S) > 2
    BY FS_CardinalityType
  <1>2. PICK x \in S : TRUE
    BY <1>1, FS_EmptySet
  <1>3. IsFiniteSet(S \ {x}) /\ Cardinality(S \ {x}) = Cardinality(S) - 1
    BY <1>2, FS_RemoveElement
  <1>4. PICK y \in S \ {x} : TRUE
    BY <1>1, <1>3, FS_EmptySet
  <1>5. IsFiniteSet((S \ {x}) \ {y}) /\ Cardinality((S \ {x}) \ {y}) = Cardinality(S) - 2
    <2>1. /\ IsFiniteSet((S \ {x}) \ {y})
          /\ Cardinality((S \ {x}) \ {y}) = Cardinality(S \ {x}) - 1
      BY <1>3, <1>4, FS_RemoveElement
    <2> QED
      BY <1>1, <1>3, <2>1
  <1>6. PICK z \in (S \ {x}) \ {y} : TRUE
    BY <1>1, <1>5, FS_EmptySet
  <1> QED
    BY <1>4, <1>6

\* A process of the runtime is gone two timeouts after it was asked for (piagent_client.py:403,
\* executor.py:242): it was started within one and killed within another.
THEOREM ProcessesAreGoneInTime == CallsSpec => []ProcessesEndInTime
  <1>1. CallsInv => ProcessesEndInTime
    <2> SUFFICES ASSUME CallsInv, NEW p \in Busy PROVE p.sinceCall <= 2 * CallTimeout
      BY DEF ProcessesEndInTime
    <2>1. p.sinceCall \in Nat /\ p.age \in Nat /\ CallTimeout \in Nat
      BY AgentCallsAssumption DEF CallsInv, CallsTypeOK, Busy, Process
    <2>2. p.age <= CallTimeout /\ p.sinceCall <= p.age + CallTimeout
      BY DEF CallsInv, ProcessFits
    <2> QED
      BY <2>1, <2>2
  <1> QED
    BY <1>1, CallsInvariant, PTL

\* However many threads, callers and calls there are, a task or a plan request has at most two
\* processes with time left to run: three would have been asked for a timeout apart, and the
\* first of them killed by now.
THEOREM TwoProcessesAtMost == CallsSpec => []AtMostTwoProcesses
  <1>1. CallsInv => AtMostTwoProcesses
    <2> SUFFICES ASSUME CallsInv, NEW c \in RuntimeCallers,
                        ~(Cardinality({p \in procs : p.caller = c /\ p.age < CallTimeout}) <= 2)
                 PROVE  FALSE
      BY DEF AtMostTwoProcesses
    <2> DEFINE S == {p \in procs : p.caller = c /\ p.age < CallTimeout}
    <2>1. IsFiniteSet(S)
      BY FS_Subset DEF CallsInv
    <2>2. \E x, y, z \in S : x # y /\ y # z /\ x # z
      BY <2>1, ThreeOf
    <2>3. PICK x \in S, y \in S, z \in S : x # y /\ y # z /\ x # z
      BY <2>2
    <2>4. CallTimeout \in Nat \ {0}
      BY AgentCallsAssumption
    <2>5. ASSUME NEW p \in S
          PROVE  p.sinceCall \in Nat /\ p.call \in Nat /\ p.sinceCall < 2 * CallTimeout
      <3>1. p \in Busy /\ p \in Process /\ ProcessFits(p) /\ p.age < CallTimeout
        BY DEF Busy, CallsInv, CallsTypeOK
      <3>2. p.sinceCall \in Nat /\ p.call \in Nat /\ p.age \in Nat
        BY <3>1 DEF Process
      <3>3. p.sinceCall <= p.age + CallTimeout
        BY <3>1 DEF ProcessFits
      <3> QED
        BY <2>4, <3>1, <3>2, <3>3
    <2>6. ASSUME NEW p \in S, NEW q \in S, p # q
          PROVE  \/ p.sinceCall >= q.sinceCall + CallTimeout
                 \/ q.sinceCall >= p.sinceCall + CallTimeout
      <3>1. Spaced(p, q) /\ Spaced(q, p) /\ p.caller = q.caller
        BY DEF Busy, CallsInv
      <3>2. p.call # q.call
        BY <2>6, <3>1 DEF Spaced
      <3>3. p.call < q.call \/ q.call < p.call
        BY <2>5, <3>2
      <3> QED
        BY <3>1, <3>3 DEF Spaced
    <2> HIDE DEF S
    <2>7. /\ x.sinceCall \in Nat /\ y.sinceCall \in Nat /\ z.sinceCall \in Nat
          /\ x.sinceCall < 2 * CallTimeout /\ y.sinceCall < 2 * CallTimeout
          /\ z.sinceCall < 2 * CallTimeout
      BY <2>5
    <2>8. /\ x.sinceCall >= y.sinceCall + CallTimeout \/ y.sinceCall >= x.sinceCall + CallTimeout
          /\ y.sinceCall >= z.sinceCall + CallTimeout \/ z.sinceCall >= y.sinceCall + CallTimeout
          /\ x.sinceCall >= z.sinceCall + CallTimeout \/ z.sinceCall >= x.sinceCall + CallTimeout
      BY <2>3, <2>6
    <2> QED
      BY <2>4, <2>7, <2>8
  <1> QED
    BY <1>1, CallsInvariant, PTL
=============================================================================
