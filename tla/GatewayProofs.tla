--------------------------- MODULE GatewayProofs ---------------------------
(***************************************************************************)
(* Proofs about the task lifecycle, for any sets of tasks and requests,    *)
(* and about the gateway in front of the runtime, which implements it, for *)
(* any rate limit.                                                         *)
(***************************************************************************)
EXTENDS Gateway, TLAPS

-----------------------------------------------------------------------------
(* The lifecycle. *)

\* Before any request, there is no record: the invariant holds trivially.
LEMMA LifecycleInitInv == LifecycleInit => LifecycleInv
  BY NoTaskAssumption
  DEF LifecycleInit, LifecycleInv, LifecycleTypeOK, MadeRequestHasTask,
      PlannedRecordHasRequest, OpenRecordHasRequest, OpenRequestHasRecord,
      FinalRecordWasReported, Status, Phase, Final

\* Every handler, crash and shutdown of the lifecycle keeps the invariant.
LEMMA LifecycleNextInv == LifecycleInv /\ [LifecycleNext]_lifecycleVars => LifecycleInv'
  <1> SUFFICES ASSUME LifecycleInv, [LifecycleNext]_lifecycleVars
               PROVE  LifecycleInv'
    OBVIOUS
  <1> USE NoTaskAssumption DEF LifecycleInv, LifecycleTypeOK,
          MadeRequestHasTask, PlannedRecordHasRequest, OpenRecordHasRequest,
          OpenRequestHasRecord, FinalRecordWasReported, Status, Phase, Final,
          Open, Unfinished
  <1>1. ASSUME NEW j \in Jobs, NEW t \in Tasks, Submit(j, t)
        PROVE  LifecycleInv'
    BY <1>1 DEF Submit, Advance, CreateRow
  <1>2. ASSUME NEW j \in Jobs, NEW t \in Tasks, AskPlan(j, t)
        PROVE  LifecycleInv'
    BY <1>2 DEF AskPlan, Advance, FreshTask
  <1>3. ASSUME NEW j \in Jobs, Start(j)
        PROVE  LifecycleInv'
    BY <1>3 DEF Start, Advance, UpdateRow
  <1>4. ASSUME NEW j \in Jobs, Die(j)
        PROVE  LifecycleInv'
    BY <1>4 DEF Die, Advance, UpdateRow
  <1>5. ASSUME NEW j \in Jobs, GivePlan(j)
        PROVE  LifecycleInv'
    BY <1>5 DEF GivePlan, Advance, CreateRow
  <1>6. ASSUME NEW j \in Jobs, RefusePlan(j)
        PROVE  LifecycleInv'
    BY <1>6 DEF RefusePlan, Advance
  <1>7. ASSUME NEW j \in Jobs, NEW s \in Final, Finish(j, s)
        PROVE  LifecycleInv'
    BY <1>7 DEF Finish, Advance, UpdateRow
  <1>8. ASSUME NEW t \in Tasks, Cancel(t)
        PROVE  LifecycleInv'
    BY <1>8 DEF Cancel, UpdateRow
  <1>9. CASE Crash
    BY <1>9 DEF Crash
  <1>10. CASE Shutdown
    BY <1>10 DEF Shutdown
  <1>11. CASE UNCHANGED lifecycleVars
    BY <1>11 DEF lifecycleVars
  <1> QED
    BY <1>1, <1>2, <1>3, <1>4, <1>5, <1>6, <1>7, <1>8, <1>9, <1>10, <1>11
    DEF LifecycleNext

\* The invariant, and with it each of its parts, holds in every behaviour.
THEOREM LifecycleInvariant == LifecycleSpec => []LifecycleInv
  BY LifecycleInitInv, LifecycleNextInv, PTL DEF LifecycleSpec

\* The rows, phases and task ids keep their types.
THEOREM LifecycleTypeCorrect == LifecycleSpec => []LifecycleTypeOK
  <1>1. LifecycleInv => LifecycleTypeOK
    BY DEF LifecycleInv
  <1> QED
    BY <1>1, LifecycleInvariant, PTL

\* No request ends leaving its record queued, running or cancelled.
THEOREM OpenRecordsHaveRequests == LifecycleSpec => []OpenRecordHasRequest
  <1>1. LifecycleInv => OpenRecordHasRequest
    BY DEF LifecycleInv
  <1> QED
    BY <1>1, LifecycleInvariant, PTL

\* No outcome is lost to update_task's silent no-op on a missing row.
THEOREM OpenRequestsHaveRecords == LifecycleSpec => []OpenRequestHasRecord
  <1>1. LifecycleInv => OpenRequestHasRecord
    BY DEF LifecycleInv
  <1> QED
    BY <1>1, LifecycleInvariant, PTL

\* Only ended requests complete or fail a record.
THEOREM FinalRecordsWereReported == LifecycleSpec => []FinalRecordWasReported
  <1>1. LifecycleInv => FinalRecordWasReported
    BY DEF LifecycleInv
  <1> QED
    BY <1>1, LifecycleInvariant, PTL

\* A closed record that no open request works on is replaced only by a new
\* submission or a shutdown; the cancel handler's status test is what keeps it.
THEOREM ClosedRecordsAreFinal == LifecycleSpec => ClosedRecordIsFinal
  <1> DEFINE Closed(t) == /\ status[t] \in Final
                          /\ \A j \in Jobs : taskOf[j] = t => phase[j] \notin Open
  <1>1. ASSUME LifecycleInv, [LifecycleNext]_lifecycleVars,
               NEW t \in Tasks, Closed(t)
        PROVE  status'[t] \in {status[t], "queued", "absent"}
    <2> USE <1>1 DEF LifecycleInv, LifecycleTypeOK, Final, Open, Advance,
                     CreateRow, UpdateRow
    <2>1. ASSUME NEW j \in Jobs, NEW u \in Tasks, Submit(j, u) \/ AskPlan(j, u)
          PROVE  status'[t] \in {status[t], "queued", "absent"}
      BY <2>1 DEF Submit, AskPlan
    <2>2. ASSUME NEW j \in Jobs,
                 \/ Start(j) \/ Die(j) \/ GivePlan(j) \/ RefusePlan(j)
                 \/ \E s \in Final : Finish(j, s)
          PROVE  status'[t] \in {status[t], "queued", "absent"}
      BY <2>2 DEF Start, Die, GivePlan, RefusePlan, Finish
    <2>3. ASSUME NEW u \in Tasks, Cancel(u)
          PROVE  status'[t] \in {status[t], "queued", "absent"}
      BY <2>3 DEF Cancel
    <2>4. CASE Crash \/ Shutdown \/ UNCHANGED lifecycleVars
      BY <2>4 DEF Crash, Shutdown, lifecycleVars
    <2> QED
      BY <2>1, <2>2, <2>3, <2>4 DEF LifecycleNext
  <1>2. LifecycleInv /\ [LifecycleNext]_lifecycleVars =>
          [\A t \in Tasks :
             Closed(t) => status'[t] \in {status[t], "queued", "absent"}]_lifecycleVars
    BY <1>1
  <1> QED
    BY <1>2, LifecycleInvariant, PTL DEF LifecycleSpec, ClosedRecordIsFinal

-----------------------------------------------------------------------------
(* The gateway. *)

\* No dispatch has been made, so no connection is open.
LEMMA GatewayInitInv == Init => GatewayInv
  BY LimitAssumption
  DEF Init, LifecycleInit, GatewayInv, TypeOK, LifecycleTypeOK, Status, Phase,
      Call, Answer, Wire, ConnectionMatchesRequest, ConnectionMatchesCall

\* What the gateway does leaves the runtime alone, and what it makes the
\* runtime do is a step of the task lifecycle.
LEMMA GatewayStepIsLifecycleStep ==
  ASSUME GatewayInv, [Next]_vars
  PROVE  [LifecycleNext]_lifecycleVars
  <1>1. ASSUME NEW j \in Jobs, NEW t \in Tasks, Dispatch(j, t)
        PROVE  UNCHANGED lifecycleVars
    BY <1>1 DEF Dispatch
  <1>2. ASSUME NEW j \in Jobs,
               \/ Limited(j) \/ Unauthorized(j) \/ Unreachable(j) \/ TimeOut(j)
               \/ Receive(j) \/ ConnectionLost(j) \/ ConnectionCut(j)
               \/ Refuse(j) \/ Respond(j)
        PROVE  UNCHANGED lifecycleVars
    BY <1>2 DEF Limited, Unauthorized, Unreachable, TimeOut, Receive,
                ConnectionLost, ConnectionCut, Refuse, Respond
  <1>3. ASSUME NEW j \in Jobs, Accept(j)
        PROVE  LifecycleNext
    <2>1. promised[j] \in Tasks
      BY <1>3 DEF Accept, GatewayInv, ConnectionMatchesRequest
    <2> QED
      BY <1>3, <2>1 DEF Accept, LifecycleNext
  <1>4. ASSUME NEW j \in Jobs, Direct(j)
        PROVE  LifecycleNext
    BY <1>4 DEF Direct, LifecycleNext
  <1>5. CASE Minute \/ GatewayCrash \/ UNCHANGED vars
    BY <1>5 DEF Minute, GatewayCrash, vars, lifecycleVars
  <1>6. CASE Work
    BY <1>6 DEF Work, LifecycleNext
  <1>7. CASE RuntimeCrash \/ RuntimeShutdown
    BY <1>7 DEF RuntimeCrash, RuntimeShutdown, LifecycleNext
  <1> QED
    BY <1>1, <1>2, <1>3, <1>4, <1>5, <1>6, <1>7 DEF Next

\* The lifecycle's variables keep their types in every lifecycle step.
LEMMA LifecycleStepTypes ==
  ASSUME LifecycleTypeOK, [LifecycleNext]_lifecycleVars
  PROVE  LifecycleTypeOK'
  BY DEF LifecycleTypeOK, LifecycleNext, lifecycleVars, Submit, AskPlan, Start,
         Die, GivePlan, RefusePlan, Finish, Cancel, Crash, Shutdown, Advance,
         CreateRow, UpdateRow, Status, Phase, Final

\* The invariant is kept by the handlers of the gateway, by the runtime's
\* handling of a request, and by the deaths of either process.
LEMMA GatewayNextInv == GatewayInv /\ [Next]_vars => GatewayInv'
  <1> SUFFICES ASSUME GatewayInv, [Next]_vars
               PROVE  GatewayInv'
    OBVIOUS
  <1>t. LifecycleTypeOK'
    BY GatewayStepIsLifecycleStep, LifecycleStepTypes DEF GatewayInv, TypeOK
  <1> USE LimitAssumption, <1>t
      DEF GatewayInv, TypeOK, ConnectionMatchesRequest, ConnectionMatchesCall
  <1>1. ASSUME NEW j \in Jobs, Limited(j) \/ Unauthorized(j)
        PROVE  GatewayInv'
    BY <1>1 DEF Limited, Unauthorized, Unmade, Tell, Count, lifecycleVars,
                Call, Answer
  <1>2. ASSUME NEW j \in Jobs, NEW t \in Tasks, Dispatch(j, t)
        PROVE  GatewayInv'
    BY <1>2 DEF Dispatch, Unmade, Tell, Count, lifecycleVars, Call, Wire
  <1>3. ASSUME NEW j \in Jobs, Unreachable(j) \/ TimeOut(j) \/ Receive(j)
        PROVE  GatewayInv'
    BY <1>3 DEF Unreachable, TimeOut, Receive, Tell, lifecycleVars, Call,
                Answer, Wire
  <1>4. ASSUME NEW j \in Jobs, ConnectionLost(j) \/ ConnectionCut(j)
        PROVE  GatewayInv'
    BY <1>4 DEF ConnectionLost, ConnectionCut, Tell, lifecycleVars, Call,
                Answer, Wire
  <1>5. ASSUME NEW j \in Jobs, Accept(j)
        PROVE  GatewayInv'
    BY <1>5 DEF Accept, Submit, Advance, LifecycleTypeOK, Wire
  <1>6. ASSUME NEW j \in Jobs, Refuse(j) \/ Respond(j)
        PROVE  GatewayInv'
    BY <1>6 DEF Refuse, Respond, lifecycleVars, Wire
  <1>7. ASSUME NEW j \in Jobs, Direct(j)
        PROVE  GatewayInv'
    BY <1>7 DEF Direct, Unmade, Submit, AskPlan, Advance, gatewayVars,
                LifecycleTypeOK
  <1>8. CASE Minute \/ GatewayCrash
    BY <1>8 DEF Minute, GatewayCrash, lifecycleVars, Call, Answer
  <1>9. CASE Work
    BY <1>9 DEF Work, Responded, Start, Die, GivePlan, RefusePlan, Finish,
                Cancel, Advance, gatewayVars, LifecycleTypeOK
  <1>10. CASE RuntimeCrash
    BY <1>10 DEF RuntimeCrash, Crash, Break, Open, Wire
  <1>11. CASE RuntimeShutdown
    BY <1>11 DEF RuntimeShutdown, Shutdown, Break, Open, Wire
  <1>12. CASE UNCHANGED vars
    BY <1>12 DEF vars
  <1> QED
    BY <1>1, <1>2, <1>3, <1>4, <1>5, <1>6, <1>7, <1>8, <1>9, <1>10, <1>11,
       <1>12 DEF Next

\* The invariant holds in every behaviour of the gateway and the runtime.
THEOREM GatewayInvariant == Spec => []GatewayInv
  BY GatewayInitInv, GatewayNextInv, PTL DEF Spec

\* Calls, connections, promised ids and the rate counter keep their types.
THEOREM GatewayTypeCorrect == Spec => []TypeOK
  <1>1. GatewayInv => TypeOK
    BY DEF GatewayInv
  <1> QED
    BY <1>1, GatewayInvariant, PTL

\* A client whose dispatch fell with the runtime may repeat it: the runtime has
\* not run the first one and never will.
THEOREM CrashesAreSafeToRepeat == Spec => []CrashIsSafeToRepeat
  <1>1. GatewayInv => CrashIsSafeToRepeat
    BY DEF GatewayInv, ConnectionMatchesCall, CrashIsSafeToRepeat
  <1> QED
    BY <1>1, GatewayInvariant, PTL

\* The runtime behind the gateway still behaves as the task lifecycle says.
THEOREM GatewayImplementsLifecycle == Spec => LifecycleSpec
  <1>1. Init => LifecycleInit
    BY DEF Init
  <1>2. GatewayInv /\ [Next]_vars => [LifecycleNext]_lifecycleVars
    BY GatewayStepIsLifecycleStep
  <1> QED
    BY <1>1, <1>2, GatewayInvariant, PTL DEF Spec, LifecycleSpec

\* So every open record has a request behind it, dispatched or direct.
THEOREM DispatchedRecordsHaveRequests == Spec => []OpenRecordHasRequest
  BY GatewayImplementsLifecycle, OpenRecordsHaveRequests, PTL
=============================================================================
