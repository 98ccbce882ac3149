----------------------------- MODULE AgentCalls -----------------------------
(***************************************************************************)
(* Calls of the OpenClaw command and the processes they leave behind:      *)
(* apps/runtime/piagent_client.py, the way RuntimeExecutor._execute_via    *)
(* calls it, and the CLI connector of apps/connector_hub.                  *)
(*                                                                         *)
(* The runtime runs the blocking invoke in a thread of the event loop's    *)
(* pool and waits for it at most CallTimeout; invoke gives its process the *)
(* same time, counted from when a thread takes the call.  When the wait    *)
(* ends first, a call that still queues is cancelled, while one that runs  *)
(* goes on in its thread with nobody to answer, beside the retry.  The     *)
(* connector starts its process from the event loop, in no queue, and does *)
(* not stop it when it stops waiting.                                      *)
(*                                                                         *)
(* Time passes in ticks: the loop and the threads serve a timer, and a     *)
(* free thread takes a call, before the next tick.                         *)
(***************************************************************************)
EXTENDS Integers, Sequences, FiniteSets

CONSTANTS
    TaskRuns,     \* runs of _execute_task
    Planners,     \* calls of /runtime/plan
    Connectors,   \* calls of /connectors/{id}/invoke
    Workers,      \* threads of the pool
    CallTimeout,  \* timeout_seconds, of the executor and of its client
    TaskTimeout,  \* RUNTIME_TIMEOUT
    MaxCalls      \* bound on the calls of one task

RuntimeCallers == TaskRuns \cup Planners
Callers == RuntimeCallers \cup Connectors

ASSUME AgentCallsAssumption ==
    /\ TaskRuns \cap Planners = {} /\ RuntimeCallers \cap Connectors = {}
    /\ Workers \in Nat \ {0} /\ CallTimeout \in Nat \ {0}
    /\ TaskTimeout \in Nat \ {0} /\ MaxCalls \in Nat \ {0}

Kind    == {"plan", "step", "reflect", "connector"}
Outcome == {"answer", "PiAgentError", "TimeoutError"}

Caller  == [pc : {"idle", "ready", "calling", "over"}, kind : Kind, call : 0..MaxCalls,
            age : 0..CallTimeout,    \* ticks since the call began
            pause : 0..1,            \* ticks of backoff to go
            life : 0..TaskTimeout]   \* ticks since the task began
Process == [caller : Callers, call : 1..MaxCalls,
            age : Nat, sinceCall : Nat]   \* ticks since it was started, and asked for

\* What a run of the command leaves: its exit code, what its stderr mentions, its stdout.
CliRun == [exit : {0, 1}, mentions : SUBSET {"timeout", "auth"},
           stdout : {"empty", "garbage", "json"}]

VARIABLES
    callers,
    queue,      \* calls that wait for a thread
    procs       \* live processes of the command; those of the runtime each hold a thread

callsVars == <<callers, queue, procs>>

-----------------------------------------------------------------------------

\* How invoke and invoke_async read a run: the error they raise, or its answer.
InvokeRaises(run) ==
    IF run.exit # 0
    THEN IF "timeout" \in run.mentions THEN {"PiAgentTimeoutError"}
         ELSE IF "auth" \in run.mentions THEN {"PiAgentAuthError"} ELSE {"PiAgentError"}
    ELSE IF run.stdout = "json" THEN {} ELSE {"PiAgentError"}

\* To the executor's except clauses the subclasses are one.
OutcomeOf(run) == IF InvokeRaises(run) = {} THEN "answer" ELSE "PiAgentError"
CliOutcome     == {OutcomeOf(run) : run \in CliRun}

\* The backoff before the next call: after a failed step, and after a failed reflection,
\* which makes run execute the step again.  A reflection that timed out counts as
\* an answer.
Pause(kind, outcome) ==
    IF outcome = "answer" \/ (kind = "reflect" /\ outcome = "TimeoutError") THEN 0 ELSE 1

\* The kinds of call that a task may go on with.
NextKinds(kind, outcome) ==
    CASE kind = "plan"    -> IF outcome = "answer" THEN {"step"} ELSE {}
      [] kind = "step"    -> IF outcome = "answer" THEN {"reflect", "step"} ELSE {"step"}
      [] kind = "reflect" -> {"step"}
      [] OTHER            -> {}

Over(k) == [k EXCEPT !.pc = "over", !.age = 0, !.pause = 0, !.life = 0]

\* The states in which caller c may be once its call ended.
After(c, outcome) ==
    LET k == callers[c]
    IN  {Over(k)} \cup
        (IF c \notin TaskRuns THEN {}
         ELSE {[k EXCEPT !.pc = "ready", !.kind = n, !.age = 0,
                         !.pause = Pause(k.kind, outcome)] : n \in NextKinds(k.kind, outcome)})

Waits(c, call) == callers[c].pc = "calling" /\ callers[c].call = call

\* The call ends with an outcome, if anyone still waits for it.
Deliver(c, call, outcome) ==
    IF Waits(c, call) THEN \E k \in After(c, outcome) : callers' = [callers EXCEPT ![c] = k]
    ELSE UNCHANGED callers

\* The queue without caller c, who is in it at most once.
Without(c) ==
    IF \E i \in DOMAIN queue : queue[i] = c
    THEN LET i == CHOOSE i \in DOMAIN queue : queue[i] = c
         IN  SubSeq(queue, 1, i - 1) \o SubSeq(queue, i + 1, Len(queue))
    ELSE queue

Busy == {p \in procs : p.caller \in RuntimeCallers}

-----------------------------------------------------------------------------

CallsInit ==
    /\ callers = [c \in Callers |-> [pc |-> "idle", call |-> 0, age |-> 0, pause |-> 0, life |-> 0,
                                     kind |-> IF c \in Connectors THEN "connector" ELSE "plan"]]
    /\ queue = <<>>
    /\ procs = {}

\* _execute_via: run_in_executor under wait_for.  The first call of a task or of a plan
\* request follows its beginning without an await.
CallAgent(c) ==
    /\ c \in RuntimeCallers /\ callers[c].pc \in {"idle", "ready"} /\ callers[c].pause = 0
    /\ callers[c].call < MaxCalls
    /\ callers' = [callers EXCEPT ![c].pc = "calling", ![c].call = @ + 1]
    /\ queue' = Append(queue, c)
    /\ UNCHANGED procs

\* invoke_connector, CLIConnector.invoke: invoke_async starts its process at once.
InvokeConnector(c) ==
    /\ c \in Connectors /\ callers[c].pc = "idle"
    /\ callers' = [callers EXCEPT ![c].pc = "calling", ![c].call = 1]
    /\ procs' = procs \cup {[caller |-> c, call |-> 1, age |-> 0, sinceCall |-> 0]}
    /\ UNCHANGED queue

\* A thread takes the first call of the queue and starts the command.
Spawn ==
    /\ queue # <<>> /\ Cardinality(Busy) < Workers
    /\ LET c == Head(queue)
       IN  procs' = procs \cup {[caller |-> c, call |-> callers[c].call, age |-> 0,
                                 sinceCall |-> callers[c].age]}
    /\ queue' = Tail(queue)
    /\ UNCHANGED callers

\* It cannot: there is no command, or generate_plan has just dropped the executor's client
\* between the two lines of the property that would return it.
SpawnFails ==
    /\ queue # <<>> /\ Cardinality(Busy) < Workers
    /\ Deliver(Head(queue), callers[Head(queue)].call, "PiAgentError")
    /\ queue' = Tail(queue)
    /\ UNCHANGED procs

\* The command ends by itself.
CliEnds(p, outcome) ==
    /\ Deliver(p.caller, p.call, outcome)
    /\ procs' = procs \ {p}
    /\ UNCHANGED queue

\* Mutant of CliKilled: the wait of the thread is over, the process goes on.
CliAbandoned(p) ==
    /\ p.caller \in RuntimeCallers /\ p.age = CallTimeout
    /\ Deliver(p.caller, p.call, "PiAgentError")
    /\ procs' = (procs \ {p}) \cup {[p EXCEPT !.age = 0]}
    /\ UNCHANGED queue

\* Mutant of CliKilled: invoke runs the command again when its time is over.
CliRunAgain(p) ==
    /\ p.caller \in RuntimeCallers /\ p.age = CallTimeout
    /\ procs' = (procs \ {p}) \cup {[p EXCEPT !.age = 0, !.sinceCall = 0]}
    /\ UNCHANGED <<callers, queue>>

\* subprocess.run kills it after CallTimeout and invoke raises PiAgentTimeoutError.
CliKilled(p) ==
    /\ p.caller \in RuntimeCallers /\ p.age = CallTimeout
    /\ Deliver(p.caller, p.call, "PiAgentError")
    /\ procs' = procs \ {p}
    /\ UNCHANGED queue

\* Mutant of CallTimesOut: the executor is less patient than its client.
CallTimesOutEarly(c) ==
    /\ callers[c].pc = "calling" /\ callers[c].age >= CallTimeout - 1
    /\ \E k \in After(c, "TimeoutError") : callers' = [callers EXCEPT ![c] = k]
    /\ queue' = Without(c)
    /\ UNCHANGED procs

\* wait_for is over: a queued call is cancelled, a process goes on.
CallTimesOut(c) ==
    /\ callers[c].pc = "calling" /\ callers[c].age = CallTimeout
    /\ \E k \in After(c, "TimeoutError") : callers' = [callers EXCEPT ![c] = k]
    /\ queue' = Without(c)
    /\ UNCHANGED procs

\* The wait_for of _execute_task is over.
TaskTimesOut(c) ==
    /\ c \in TaskRuns /\ callers[c].life = TaskTimeout
    /\ callers' = [callers EXCEPT ![c] = Over(@)]
    /\ queue' = Without(c)
    /\ UNCHANGED procs

\* A task's run returns, or has made MaxCalls calls.
RunReturns(c) ==
    /\ c \in TaskRuns /\ callers[c].pc = "ready"
    /\ callers' = [callers EXCEPT ![c] = Over(@)]
    /\ UNCHANGED <<queue, procs>>

Older(k) ==
    [k EXCEPT !.age   = IF k.pc = "calling" THEN @ + 1 ELSE @,
              !.pause = IF k.pc = "ready" THEN 0 ELSE @,
              !.life  = IF k.pc \in {"ready", "calling"} THEN @ + 1 ELSE @]

\* Something that is served before the next tick.
TimerDue ==
    \/ \E c \in Callers : callers[c].pc = "calling" /\ callers[c].age = CallTimeout
    \/ \E c \in TaskRuns : callers[c].life = TaskTimeout
    \/ \E p \in Busy : p.age = CallTimeout
    \/ queue # <<>> /\ Cardinality(Busy) < Workers

Tick ==
    /\ ~ TimerDue
    /\ callers' = [c \in Callers |-> IF c \in TaskRuns THEN Older(callers[c])
                                     ELSE [Older(callers[c]) EXCEPT !.life = 0]]
    /\ procs' = {IF p.caller \in RuntimeCallers
                 THEN [p EXCEPT !.age = @ + 1, !.sinceCall = @ + 1] ELSE p : p \in procs}
    /\ UNCHANGED queue

CallsNext ==
    \/ Tick \/ Spawn \/ SpawnFails
    \/ \E c \in Callers : \/ CallAgent(c) \/ InvokeConnector(c)
                          \/ CallTimesOut(c) \/ TaskTimesOut(c) \/ RunReturns(c)
    \/ \E p \in procs : CliKilled(p) \/ \E outcome \in CliOutcome : CliEnds(p, outcome)

CallsSpec == CallsInit /\ [][CallsNext]_callsVars

\* Time passes, timers and threads are served.  Nothing makes a command end by itself, the
\* --timeout that the connector passes to it included.
FairCalls ==
    /\ CallsSpec
    /\ WF_callsVars(Tick) /\ WF_callsVars(Spawn \/ SpawnFails)
    /\ \A c \in Callers : /\ WF_callsVars(CallTimesOut(c) \/ TaskTimesOut(c))
                          /\ WF_callsVars(callers[c].pc = "ready" /\ (CallAgent(c) \/ RunReturns(c)))
    /\ WF_callsVars(\E p \in procs : CliKilled(p))

-----------------------------------------------------------------------------
(* Properties. *)

CallsTypeOK ==
    /\ callers \in [Callers -> Caller]
    /\ queue \in Seq(RuntimeCallers)
    /\ procs \subseteq Process

\* A retry may run beside the process of the attempt before it, but however the pool is
\* filled a task never has three processes with time left to run: by the time a third is
\* called the first is killed, or due to be in the same tick.
AtMostTwoProcesses ==
    \A c \in RuntimeCallers :
        Cardinality({p \in procs : p.caller = c /\ p.age < CallTimeout}) <= 2

\* A process of the runtime is gone two timeouts after it was asked for, although neither
\* of the two timers counts from there to its end.
ProcessesEndInTime == \A p \in Busy : p.sinceCall <= 2 * CallTimeout

\* A caller's age counts while it waits; a queued call is waited for, once, and has no process.
QueueFits ==
    /\ \A c \in Callers : IF callers[c].pc = "calling" THEN callers[c].call # 0
                                                     ELSE callers[c].age = 0
    /\ \A i, j \in DOMAIN queue : queue[i] = queue[j] => i = j
    /\ \A i \in DOMAIN queue :
          /\ callers[queue[i]].pc = "calling"
          /\ \A p \in procs : p.caller = queue[i] => p.call # callers[queue[i]].call

\* A process was started within a timeout of its call, and the calls after its own
\* began when that had timed out.
ProcessFits(p) ==
    LET k == callers[p.caller]
    IN  /\ p.age <= CallTimeout /\ p.age <= p.sinceCall /\ p.sinceCall <= p.age + CallTimeout
        /\ k.pc # "idle" /\ p.call <= k.call
        /\ k.pc = "calling" /\ p.call = k.call => p.sinceCall = k.age
        /\ k.pc = "calling" /\ p.call < k.call => p.sinceCall >= k.age + CallTimeout
        /\ k.pc = "ready" => p.sinceCall >= CallTimeout

\* Of two processes of a caller, the earlier was asked for a timeout before the later.
Spaced(p, q) ==
    p.caller = q.caller =>
        /\ p.call = q.call => p = q
        /\ p.call < q.call => p.sinceCall >= q.sinceCall + CallTimeout

CallsInv ==
    /\ CallsTypeOK /\ IsFiniteSet(procs)
    /\ QueueFits
    /\ \A p \in Busy : ProcessFits(p)
    /\ \A p, q \in Busy : Spaced(p, q)

\* Every caller comes to an end, and the runtime's pool is free again: whatever commands
\* hang, none of them keeps a thread.  A connector's process may outlive everything.
Quiesces ==
    (\A c \in Callers : callers[c].pc # "idle")
        ~> (queue = <<>> /\ Busy = {} /\ \A c \in Callers : callers[c].pc = "over")
=============================================================================
