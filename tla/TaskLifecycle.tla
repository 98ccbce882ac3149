--------------------------- MODULE TaskLifecycle ---------------------------
(***************************************************************************)
(* What the task API of apps/runtime/main.py promises its clients, with    *)
(* the executor hidden: the status of each task record in the TaskStore,   *)
(* and the requests that are working on it.  A request ("job") is one      *)
(* accepted POST /runtime/execute with its background _execute_task, or    *)
(* one POST /runtime/plan.  Module Runtime gives each job its whole        *)
(* Plan-Act-Reflect loop and implements this specification.                *)
(***************************************************************************)

CONSTANTS
    Tasks,    \* task ids, chosen by the client or by uuid4
    Jobs,     \* requests; each is served once
    NoTask    \* the task of a request that has not been made

ASSUME NoTaskAssumption == NoTask \notin Tasks

VARIABLES
    status,   \* status[t]: the "status" of task t's row, or "absent"
    phase,    \* phase[j]: how far request j has come
    taskOf    \* taskOf[j]: the task request j works on

lifecycleVars == <<status, phase, taskOf>>

Status == {"absent", "queued", "planned", "running",
           "completed", "failed", "cancelled"}
Final  == {"completed", "failed"}
Phase  == {"unused", "planning", "planned", "refused",
           "queued", "running", "ended", "lost"}

\* The request still has code to run.
Open == {"planning", "queued", "running"}

\* A request that may have left its row without a final status: it has not
\* finished, it never will (its process or its coroutine died), or it only
\* planned.
Unfinished == {"queued", "running", "lost", "planned"}

LifecycleTypeOK ==
    /\ status \in [Tasks -> Status]
    /\ phase \in [Jobs -> Phase]
    /\ taskOf \in [Jobs -> Tasks \cup {NoTask}]

LifecycleInit ==
    /\ status = [t \in Tasks |-> "absent"]
    /\ phase = [j \in Jobs |-> "unused"]
    /\ taskOf = [j \in Jobs |-> NoTask]

-----------------------------------------------------------------------------
(* The row operations of TaskStore. *)

\* TaskStore.create_task: INSERT OR REPLACE.
CreateRow(t, s) == [status EXCEPT ![t] = s]

\* TaskStore.update_task: a no-op when the row does not exist.
UpdateRow(t, s) ==
    IF status[t] = "absent" THEN status ELSE [status EXCEPT ![t] = s]

\* uuid4: an id no record and no request has.
FreshTask(t) == status[t] = "absent" /\ \A j \in Jobs : taskOf[j] # t

Advance(j, from, to) ==
    phase[j] = from /\ phase' = [phase EXCEPT ![j] = to]

-----------------------------------------------------------------------------
(* The requests. *)

\* An id the client can name: one still being planned has not been returned.
Nameable(t) == \A k \in Jobs : taskOf[k] = t => phase[k] # "planning"

\* POST /runtime/execute; the client may name any id, one in use included.
Submit(j, t) ==
    /\ Nameable(t)
    /\ Advance(j, "unused", "queued")
    /\ taskOf' = [taskOf EXCEPT ![j] = t]
    /\ status' = CreateRow(t, "queued")

\* _execute_task marks the row and enters the executor.
Start(j) ==
    /\ Advance(j, "queued", "running")
    /\ status' = UpdateRow(taskOf[j], "running")
    /\ UNCHANGED taskOf

\* _execute_task dies between marking the row and its try block.
Die(j) ==
    /\ Advance(j, "queued", "lost")
    /\ status' = UpdateRow(taskOf[j], "running")
    /\ UNCHANGED taskOf

\* _execute_task reports, whatever the row says by now.
Finish(j, s) ==
    /\ Advance(j, "running", "ended")
    /\ status' = UpdateRow(taskOf[j], s)
    /\ UNCHANGED taskOf

\* POST /runtime/plan, up to its await.
AskPlan(j, t) ==
    /\ FreshTask(t)
    /\ Advance(j, "unused", "planning")
    /\ taskOf' = [taskOf EXCEPT ![j] = t]
    /\ UNCHANGED status

GivePlan(j) ==
    /\ Advance(j, "planning", "planned")
    /\ status' = CreateRow(taskOf[j], "planned")
    /\ UNCHANGED taskOf

RefusePlan(j) ==
    /\ Advance(j, "planning", "refused")
    /\ UNCHANGED <<status, taskOf>>

\* Mutant of Cancel: no test for closed records.
CancelAnything(t) ==
    /\ status[t] # "absent"
    /\ status' = UpdateRow(t, "cancelled")
    /\ UNCHANGED <<phase, taskOf>>

\* POST /runtime/cancel: 404 without a row, 400 for a closed one.
Cancel(t) ==
    /\ status[t] \notin {"absent", "completed", "failed", "cancelled"}
    /\ status' = UpdateRow(t, "cancelled")
    /\ UNCHANGED <<phase, taskOf>>

\* The process dies: requests are gone, the SQLite rows stay.
Crash ==
    /\ phase' = [j \in Jobs |-> IF phase[j] \in Open THEN "lost" ELSE phase[j]]
    /\ UNCHANGED <<status, taskOf>>

\* Graceful shutdown: the server drains its requests, then the lifespan
\* handler clears the store.
Shutdown ==
    /\ \A j \in Jobs : phase[j] \notin Open
    /\ status' = [t \in Tasks |-> "absent"]
    /\ UNCHANGED <<phase, taskOf>>

LifecycleNext ==
    \/ \E j \in Jobs :
          \/ \E t \in Tasks : Submit(j, t) \/ AskPlan(j, t)
          \/ Start(j) \/ Die(j) \/ GivePlan(j) \/ RefusePlan(j)
          \/ \E s \in Final : Finish(j, s)
    \/ \E t \in Tasks : Cancel(t)
    \/ Crash
    \/ Shutdown

LifecycleSpec == LifecycleInit /\ [][LifecycleNext]_lifecycleVars

-----------------------------------------------------------------------------
(* Safety. *)

\* A record that is queued, running or cancelled belongs to a request that
\* has not reported yet (or never will): no request ends leaving its record
\* open, whatever order starts, reports and cancellations come in.  It also
\* says that a cancelled record still has a request able to overwrite it.
OpenRecordHasRequest ==
    \A t \in Tasks :
        status[t] \in {"queued", "running", "cancelled"} =>
            \E j \in Jobs : taskOf[j] = t /\ phase[j] \in Unfinished

\* A request that has yet to report finds its record: update_task, a silent
\* no-op on a missing row, never drops an outcome.
OpenRequestHasRecord ==
    \A j \in Jobs :
        phase[j] \in {"queued", "running"} => status[taskOf[j]] # "absent"

\* Nothing but an ended request completes or fails a record.
FinalRecordWasReported ==
    \A t \in Tasks :
        status[t] \in Final =>
            \E j \in Jobs : taskOf[j] = t /\ phase[j] = "ended"

\* A closed record that no other request is working on keeps its status: only
\* a new submission of the id, or a shutdown, replaces it.
ClosedRecordIsFinal ==
    [][\A t \in Tasks :
          (/\ status[t] \in Final
           /\ \A j \in Jobs : taskOf[j] = t => phase[j] \notin Open)
          => status'[t] \in {status[t], "queued", "absent"}]_lifecycleVars

-----------------------------------------------------------------------------
(* The inductive invariant. *)

\* A request that has been made has a task; one that has not has none.
MadeRequestHasTask ==
    \A j \in Jobs : phase[j] = "unused" <=> taskOf[j] = NoTask

\* A planned record comes from a request that planned it.
PlannedRecordHasRequest ==
    \A t \in Tasks :
        status[t] = "planned" =>
            \E j \in Jobs : taskOf[j] = t /\ phase[j] = "planned"

LifecycleInv ==
    /\ LifecycleTypeOK
    /\ MadeRequestHasTask
    /\ PlannedRecordHasRequest
    /\ OpenRecordHasRequest
    /\ OpenRequestHasRecord
    /\ FinalRecordWasReported
=============================================================================
