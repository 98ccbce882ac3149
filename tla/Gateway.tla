------------------------------ MODULE Gateway ------------------------------
(***************************************************************************)
(* apps/gateway/main.py in front of the runtime service.  A client's POST  *)
(* /gateway/dispatch becomes a POST /runtime/execute over HTTP; the        *)
(* runtime is the one of TaskLifecycle, which other clients also call      *)
(* directly.  The two services run in containers of their own: a           *)
(* connection ends with one of its processes, or is cut on the way while   *)
(* both go on, and a request may be late or never arrive.  The callback    *)
(* and the session history change nothing and are left out.                *)
(***************************************************************************)
EXTENDS TaskLifecycle, Naturals

CONSTANT Limit    \* requests one address may make in a minute: 60

ASSUME LimitAssumption == Limit \in Nat \ {0}

VARIABLES
    call,      \* call[j]: the gateway's handler of request j, or "none"
    wire,      \* wire[j]: its connection to the runtime
    promised,  \* promised[j]: the task id the gateway made up for it
    used,      \* requests of the client's address in this minute
    cut        \* history: the requests whose connection was cut on the way

gatewayVars == <<call, wire, promised, used, cut>>
vars == <<status, phase, taskOf, call, wire, promised, used, cut>>

\* What the client is told; "dropped" when the gateway dies under it.
Answer == {"queued", "unauthorized", "limited", "error", "dropped"}
Call == {"none", "waiting"} \cup Answer
Wire == {"empty", "request", "taken", "reply", "broken"}

TypeOK ==
    /\ LifecycleTypeOK
    /\ call \in [Jobs -> Call]
    /\ wire \in [Jobs -> Wire]
    /\ promised \in [Jobs -> Tasks \cup {NoTask}]
    /\ used \in 0..Limit
    /\ cut \subseteq Jobs

Init ==
    /\ LifecycleInit
    /\ call = [j \in Jobs |-> "none"]
    /\ wire = [j \in Jobs |-> "empty"]
    /\ promised = [j \in Jobs |-> NoTask]
    /\ used = 0
    /\ cut = {}

-----------------------------------------------------------------------------
(* The gateway. *)

\* A request nobody has made yet.
Unmade(j) == phase[j] = "unused" /\ call[j] = "none"

Tell(j, a) == call' = [call EXCEPT ![j] = a]

\* The task ids made up so far that no client has been told.
Secret == {promised[j] : j \in {k \in Jobs : call[k] # "queued"}}

\* slowapi counts the request before the handler sees it.
Count == used < Limit /\ used' = used + 1

\* 429.
Limited(j) ==
    /\ Unmade(j)
    /\ used = Limit
    /\ Tell(j, "limited")
    /\ UNCHANGED <<lifecycleVars, wire, promised, used, cut>>

\* No bearer token: 401.
Unauthorized(j) ==
    /\ Unmade(j)
    /\ Count
    /\ Tell(j, "unauthorized")
    /\ UNCHANGED <<lifecycleVars, wire, promised, cut>>

\* dispatch_task up to its await: the task id comes from a new trace id.
Dispatch(j, t) ==
    /\ Unmade(j)
    /\ Count
    /\ FreshTask(t)
    /\ \A k \in Jobs : promised[k] # t
    /\ Tell(j, "waiting")
    /\ wire' = [wire EXCEPT ![j] = "request"]
    /\ promised' = [promised EXCEPT ![j] = t]
    /\ UNCHANGED <<lifecycleVars, cut>>

\* httpx.ConnectError: nothing was sent, and the client is told "queued".
Unreachable(j) ==
    /\ call[j] = "waiting"
    /\ wire[j] = "request"
    /\ Tell(j, "queued")
    /\ wire' = [wire EXCEPT ![j] = "empty"]
    /\ UNCHANGED <<lifecycleVars, promised, used, cut>>

\* Mutant of TimeOut: a client without a timeout.
NeverTimeOut(j) == FALSE /\ UNCHANGED vars

\* httpx.TimeoutException after 30 s: "queued" as well, and the runtime may
\* still find the request in its socket.
TimeOut(j) ==
    /\ call[j] = "waiting"
    /\ Tell(j, "queued")
    /\ UNCHANGED <<lifecycleVars, wire, promised, used, cut>>

\* The runtime's answer arrives, be it the queued task or a refusal.
Receive(j) ==
    /\ call[j] = "waiting"
    /\ wire[j] = "reply"
    /\ Tell(j, "queued")
    /\ wire' = [wire EXCEPT ![j] = "empty"]
    /\ UNCHANGED <<lifecycleVars, promised, used, cut>>

\* The connection ended with the runtime: a ReadError or RemoteProtocolError is
\* not among the caught exceptions, and general_error_handler answers 500.
ConnectionLost(j) ==
    /\ call[j] = "waiting"
    /\ wire[j] = "broken"
    /\ Tell(j, "error")
    /\ wire' = [wire EXCEPT ![j] = "empty"]
    /\ UNCHANGED <<lifecycleVars, promised, used, cut>>

\* The connection is cut between the two, which the gateway sees as the same
\* errors.  The runtime does not: it goes on with a request that it has taken,
\* and may still find one that it has not.
ConnectionCut(j) ==
    /\ call[j] = "waiting"
    /\ wire[j] \in {"request", "taken", "reply"}
    /\ Tell(j, "error")
    /\ cut' = cut \cup {j}
    /\ UNCHANGED <<lifecycleVars, wire, promised, used>>

\* A minute has passed since the window's first request.
Minute ==
    /\ used > 0
    /\ used' = 0
    /\ UNCHANGED <<lifecycleVars, call, wire, promised, cut>>

\* The gateway's process dies and is started again; it keeps nothing.
GatewayCrash ==
    /\ call' = [j \in Jobs |-> IF call[j] = "waiting" THEN "dropped" ELSE call[j]]
    /\ used' = 0
    /\ UNCHANGED <<lifecycleVars, wire, promised, cut>>

-----------------------------------------------------------------------------
(* The runtime. *)

\* execute_task takes the gateway's request, however late, and stores its row.
Accept(j) ==
    /\ wire[j] = "request"
    /\ Submit(j, promised[j])
    /\ wire' = [wire EXCEPT ![j] = "taken"]
    /\ UNCHANGED <<call, promised, used, cut>>

\* The runtime's validation refuses the request (422), or storing its row
\* raises (500).
Refuse(j) ==
    /\ wire[j] = "request"
    /\ wire' = [wire EXCEPT ![j] = "reply"]
    /\ UNCHANGED <<lifecycleVars, call, promised, used, cut>>

\* The answer is sent; only then do the background tasks start.
Respond(j) ==
    /\ wire[j] = "taken"
    /\ wire' = [wire EXCEPT ![j] = "reply"]
    /\ UNCHANGED <<lifecycleVars, call, promised, used, cut>>

\* A request that is made to the runtime without the gateway.
Direct(j) ==
    /\ Unmade(j)
    /\ \E t \in Tasks \ Secret : Submit(j, t) \/ AskPlan(j, t)
    /\ UNCHANGED gatewayVars

\* Mutant of Responded: the task is started while the request is handled.
RespondedOrNot(j) == TRUE

\* BackgroundTasks run after the response.
Responded(j) == wire[j] # "taken"

\* What the runtime does with the requests it has.
Work ==
    /\ \/ \E j \in Jobs :
             \/ Responded(j) /\ (Start(j) \/ Die(j))
             \/ GivePlan(j) \/ RefusePlan(j)
             \/ \E s \in Final : Finish(j, s)
       \/ \E t \in Tasks : Cancel(t)
    /\ UNCHANGED gatewayVars

\* The connections on which the runtime has sent no answer end with it, unless
\* the gateway has given them up.
Break ==
    /\ wire' = [j \in Jobs |-> IF wire[j] \in {"request", "taken"}
                               THEN IF j \in cut THEN "empty" ELSE "broken"
                               ELSE wire[j]]
    /\ UNCHANGED <<call, promised, used, cut>>

RuntimeCrash == Crash /\ Break

RuntimeShutdown == Shutdown /\ Break

Next ==
    \/ \E j \in Jobs :
          \/ Limited(j) \/ Unauthorized(j) \/ \E t \in Tasks : Dispatch(j, t)
          \/ Unreachable(j) \/ TimeOut(j) \/ Receive(j)
          \/ ConnectionLost(j) \/ ConnectionCut(j)
          \/ Accept(j) \/ Refuse(j) \/ Respond(j) \/ Direct(j)
    \/ Minute \/ GatewayCrash
    \/ Work \/ RuntimeCrash \/ RuntimeShutdown

Spec == Init /\ [][Next]_vars

\* httpx's timer is the one thing that is bound to happen.
FairSpec == Spec /\ \A j \in Jobs : WF_vars(TimeOut(j))

-----------------------------------------------------------------------------
(* Properties. *)

\* A client whose dispatch fell with the runtime is told 500 and may repeat it:
\* nothing of the first has run, or ever will.  It rests on the runtime answering
\* before it starts the task, and on the gateway telling a timeout as something
\* else (main.py:138-139).  The same 500 for a connection that was cut on the way
\* promises nothing: that task may be running.
CrashIsSafeToRepeat ==
    \A j \in Jobs \ cut :
        call[j] = "error" => phase[j] \in {"unused", "lost"} /\ wire[j] # "request"

\* Every dispatch is answered, whatever becomes of the runtime.
DispatchesAreAnswered == \A j \in Jobs : call[j] = "waiting" ~> call[j] \in Answer

\* What "queued" would mean if it were true: the runtime has the task.  The
\* gateway says so of a request that never left (main.py:138-145).
QueuedIsKnown ==
    \A j \in Jobs : call[j] = "queued" => phase[j] # "unused"

-----------------------------------------------------------------------------
(* The inductive invariant. *)

\* A request on the wire has not been taken, one that is taken waits for its
\* answer, and a connection breaks only under a request that is lost.
ConnectionMatchesRequest ==
    \A j \in Jobs :
        /\ wire[j] = "request" => phase[j] = "unused" /\ promised[j] \in Tasks
        /\ wire[j] = "taken" => phase[j] = "queued"
        /\ wire[j] = "broken" => phase[j] \in {"unused", "lost"}

\* The gateway opens no connection before a dispatch, and none stays open
\* after an error unless it was cut.
ConnectionMatchesCall ==
    \A j \in Jobs :
        /\ call[j] = "none" => wire[j] = "empty"
        /\ call[j] = "error" /\ j \notin cut =>
              wire[j] = "empty" /\ phase[j] \in {"unused", "lost"}

GatewayInv == TypeOK /\ ConnectionMatchesRequest /\ ConnectionMatchesCall
=============================================================================
