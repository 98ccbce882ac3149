------------------------------ MODULE Approval ------------------------------
(***************************************************************************)
(* The approval engine of the governance service:                          *)
(* apps/governance/approval/engine.py and the models it works on.          *)
(*                                                                         *)
(* Every handler runs to its end without an await, so each is one step;    *)
(* what interleaves is decisions of several approvers, timeout checks,     *)
(* deadlines that pass, and workflows registered again under requests that *)
(* are in the middle of them.  A request names its workflow by id and      *)
(* every operation looks the definition up anew.  All state is in memory.  *)
(***************************************************************************)
EXTENDS Integers, Sequences, FiniteSets

CONSTANTS
    Workflows, NoWorkflow,   \* workflow ids
    Definitions,    \* the ApprovalWorkflow objects that clients register
    Builtin,        \* _BUILTIN_WORKFLOWS: a definition, or NoDefinition, per id
    NoDefinition,
    StepIds, NoStep,
    EscalatedId,    \* EscalatedId[s]: "<s>-escalated", NoStep if no workflow uses it
    Requests,       \* request ids; each is submitted once
    Approvers,      \* user ids or role names that steps list
    People,         \* the approver_id of decisions, not compared with Approvers
    Fields, Values, NoValue,   \* attributes of a request, numeric
    Substring,      \* <<v, w>>: str(v) in str(w)
    MaxDecisions    \* bound: decisions recorded for a request

Condition == [field : Fields,
              op : {"gt", "gte", "lt", "lte", "eq", "ne", "in", "contains"},
              value : SUBSET Values]   \* {v} is the scalar v

Step == [id : StepIds, node : {"single", "and", "or"}, approvers : Seq(Approvers),
         timeout : BOOLEAN,      \* timeout_minutes is set
         escalates : BOOLEAN,    \* escalate_to is set
         conditions : SUBSET Condition, order : Int]

Definition == [enabled : BOOLEAN, steps : Seq(Step)]

ASSUME ApprovalAssumption ==
    /\ Definitions \subseteq Definition
    /\ Builtin \in [Workflows -> Definitions \cup {NoDefinition}]
    /\ NoDefinition \notin Definition
    /\ NoStep \notin StepIds
    /\ NoWorkflow \notin Workflows
    /\ EscalatedId \in [StepIds -> StepIds \cup {NoStep}]
    /\ Values \subseteq Int
    /\ NoValue \notin Values
    /\ MaxDecisions \in Nat

VARIABLES
    workflows,   \* _workflows
    requests,    \* _requests
    stable       \* history: request r's workflow is as it was when r was submitted

vars == <<workflows, requests, stable>>

Attributes == [Fields -> Values \cup {NoValue}]

Decision == [step : StepIds, by : People,
             decision : {"approved", "rejected", "escalated"}]

\* "none" is a step with no entry in step_statuses.
StepStatus == {"none", "pending", "approved", "rejected", "escalated"}

\* deadline is expires_at seen from now: none, still to come, passed.
Request == [status : {"absent", "pending", "approved", "rejected", "escalated"},
            workflow : Workflows \cup {NoWorkflow}, attributes : Attributes,
            current : StepIds \cup {NoStep},   \* current_step_id
            steps : [StepIds -> StepStatus],   \* step_statuses
            decisions : Seq(Decision),
            deadline : {"none", "running", "passed"}]

NewRequest(w, attrs) ==
    [status |-> "pending", workflow |-> w, attributes |-> attrs,
     current |-> NoStep, steps |-> [s \in StepIds |-> "none"],
     decisions |-> <<>>, deadline |-> "none"]

\* A request id that has not been given out.
Absent == [NewRequest(NoWorkflow, [f \in Fields |-> NoValue])
           EXCEPT !.status = "absent"]

TypeOK ==
    /\ workflows \in [Workflows -> Definitions \cup {NoDefinition}]
    /\ requests \in [Requests -> Request]
    /\ stable \in [Requests -> BOOLEAN]

\* _auto_seed at startup.
Init ==
    /\ workflows = Builtin
    /\ requests = [r \in Requests |-> Absent]
    /\ stable = [r \in Requests |-> TRUE]

-----------------------------------------------------------------------------
(* Workflow definitions. *)

\* One condition on the value of its field.
Holds(c, x) ==
    CASE c.op = "gt"       -> \A v \in c.value : x > v
      [] c.op = "gte"      -> \A v \in c.value : x >= v
      [] c.op = "lt"       -> \A v \in c.value : x < v
      [] c.op = "lte"      -> \A v \in c.value : x <= v
      [] c.op = "eq"       -> c.value = {x}
      [] c.op = "ne"       -> c.value # {x}
      [] c.op = "in"       -> x \in c.value
      [] c.op = "contains" -> \A v \in c.value : <<v, x>> \in Substring

ConditionsMatch(step, attrs) ==
    \A c \in step.conditions :
        attrs[c.field] # NoValue /\ Holds(c, attrs[c.field])

HasStep(steps, id) == \E i \in DOMAIN steps : steps[i].id = id

\* The first step of the list with that id.
StepOf(steps, id) ==
    steps[CHOOSE i \in DOMAIN steps :
             steps[i].id = id /\ \A k \in 1..(i - 1) : steps[k].id # id]

\* Mutant of Earliest: the list is not sorted.
EarliestInList(steps, S) == {i \in S : \A k \in S : i <= k}

\* The first index of S in the stable sort by order, if S has one.
Earliest(steps, S) ==
    {i \in S : \A k \in S : \/ steps[i].order < steps[k].order
                            \/ steps[i].order = steps[k].order /\ i <= k}

\* matching_step.
MatchingStep(steps, attrs) ==
    Earliest(steps, {i \in DOMAIN steps : ConditionsMatch(steps[i], attrs)})

\* The candidates of _complete_step, which does not look at conditions.
LaterSteps(steps, id) ==
    {i \in DOMAIN steps : steps[i].order > StepOf(steps, id).order}

StepsOf(q) == workflows[q.workflow].steps

-----------------------------------------------------------------------------
(* Operations on one request. *)

\* Mutant of StartStep: "if step is None: return" comes too late.
StartUnknownStep(q, id, steps) ==
    [q EXCEPT !.current = id,
              !.steps[id] = "pending",
              !.deadline = IF HasStep(steps, id) /\ StepOf(steps, id).timeout
                           THEN "running" ELSE "none"]

\* _start_step: a no-op for an id the workflow does not have.
StartStep(q, id, steps) ==
    IF ~ HasStep(steps, id) THEN q
    ELSE [q EXCEPT !.current = id,
                   !.steps[id] = "pending",
                   !.deadline = IF StepOf(steps, id).timeout THEN "running"
                                                             ELSE "none"]

\* Mutant of Close: current_step_id is not cleared.
CloseKeepsStep(q, s) == [q EXCEPT !.status = s]

Close(q, s) == [q EXCEPT !.status = s, !.current = NoStep]

\* The decisions on step id that say d, by index.
Votes(q, id, d) ==
    {i \in 1..Len(q.decisions) :
        q.decisions[i].step = id /\ q.decisions[i].decision = d}

\* Mutant of Verdict: the approvals of all steps are counted.
VerdictOnAllVotes(q, step, d) ==
    IF step.node # "and" THEN IF d = "approved" THEN "approved" ELSE "rejected"
    ELSE IF Votes(q, q.current, "rejected") # {} THEN "rejected"
    ELSE IF Cardinality(UNION {Votes(q, s, "approved") : s \in StepIds})
            >= Len(step.approvers)
    THEN "approved" ELSE q.steps[q.current]

\* What the decisions recorded so far, d the last of them, make of the step's
\* status.
Verdict(q, step, d) ==
    LET id == q.current IN
    CASE step.node # "and" -> IF d = "approved" THEN "approved" ELSE "rejected"
      [] step.node = "and" /\ Votes(q, id, "rejected") # {} -> "rejected"
      [] step.node = "and" /\ Votes(q, id, "rejected") = {} ->
            IF Cardinality(Votes(q, id, "approved")) >= Len(step.approvers)
            THEN "approved" ELSE q.steps[id]

Record(q, p, d) ==
    [q EXCEPT !.decisions =
        Append(@, [step |-> q.current, by |-> p, decision |-> d])]

\* Mutant of Escalate: silence is consent.
EscalateApproves(q) ==
    LET marked == [q EXCEPT !.steps[q.current] = "escalated"] IN
    IF StepOf(StepsOf(q), q.current).escalates
    THEN StartStep(marked, EscalatedId[q.current], StepsOf(q))
    ELSE Close(marked, "approved")

\* check_timeouts on one request that is due.
Escalate(q) ==
    LET marked == [q EXCEPT !.steps[q.current] = "escalated"] IN
    IF StepOf(StepsOf(q), q.current).escalates
    THEN StartStep(marked, EscalatedId[q.current], StepsOf(q))
    ELSE Close(marked, "escalated")

Due(q) ==
    /\ q.status = "pending"
    /\ q.deadline = "passed"
    /\ q.current # NoStep
    /\ HasStep(StepsOf(q), q.current)

-----------------------------------------------------------------------------
(* The handlers. *)

\* POST /approvals/workflows: replaces the definition under requests that use it.
RegisterWorkflow(w, d) ==
    /\ workflows' = [workflows EXCEPT ![w] = d]
    /\ stable' = [r \in Requests |->
                     /\ stable[r]
                     /\ requests[r].workflow = w => d = workflows[w]]
    /\ UNCHANGED requests

\* POST /approvals/submit, when a step matches; otherwise nothing is created.
Submit(r, w, attrs) ==
    /\ requests[r].status = "absent"
    /\ workflows[w] # NoDefinition
    /\ workflows[w].enabled
    /\ \E i \in MatchingStep(workflows[w].steps, attrs) :
          requests' = [requests EXCEPT ![r] =
              StartStep(NewRequest(w, attrs), workflows[w].steps[i].id,
                        workflows[w].steps)]
    /\ stable' = [stable EXCEPT ![r] = TRUE]
    /\ UNCHANGED workflows

\* POST /approvals/decide; the ValueErrors before the decision is recorded
\* change nothing.
ProcessDecision(r, p, d) ==
    LET q     == requests[r]
        steps == StepsOf(q)
        voted == Record(q, p, d)
        made  == [voted EXCEPT !.steps[q.current] =
                     Verdict(voted, StepOf(steps, q.current), d)]
        Becomes(new) == requests' = [requests EXCEPT ![r] = new]
    IN
    /\ q.status # "absent"
    /\ q.current # NoStep
    /\ HasStep(steps, q.current)
    /\ Len(q.decisions) < MaxDecisions
    /\ UNCHANGED <<workflows, stable>>
    /\ \/ /\ made.steps[q.current] \notin {"approved", "rejected"}
          /\ Becomes(made)
       \/ /\ made.steps[q.current] = "approved"
          /\ LaterSteps(steps, q.current) = {}
          /\ Becomes(Close(made, "approved"))
       \/ /\ made.steps[q.current] = "approved"
          /\ \E i \in Earliest(steps, LaterSteps(steps, q.current)) :
                Becomes(StartStep(made, steps[i].id, steps))
       \/ /\ made.steps[q.current] = "rejected"
          /\ Becomes(Close(made, "rejected"))

\* POST /approvals/check-timeouts, over all requests at once.
CheckTimeouts ==
    /\ requests' = [r \in Requests |-> IF Due(requests[r]) THEN Escalate(requests[r])
                                                           ELSE requests[r]]
    /\ UNCHANGED <<workflows, stable>>

\* Time goes by: is_expired turns true.  (Nobody asks it of a closed request.)
DeadlinePasses(r) ==
    /\ requests[r].status = "pending"
    /\ requests[r].deadline = "running"
    /\ requests' = [requests EXCEPT ![r].deadline = "passed"]
    /\ UNCHANGED <<workflows, stable>>

Next ==
    \/ \E w \in Workflows, d \in Definitions : RegisterWorkflow(w, d)
    \/ \E r \in Requests, w \in Workflows, a \in Attributes : Submit(r, w, a)
    \/ \E r \in Requests, p \in People, d \in {"approved", "rejected", "escalated"} :
          ProcessDecision(r, p, d)
    \/ CheckTimeouts
    \/ \E r \in Requests : DeadlinePasses(r)

Spec == Init /\ [][Next]_vars

-----------------------------------------------------------------------------
(* Safety. *)

\* A request is pending exactly while one step of it is active: a step that
\* waits is the current one, the current one has no verdict, and a closed
\* request leaves no step waiting, through every mix of decisions, timeouts
\* and redefined workflows.
OneOpenStep ==
    \A r \in Requests :
        LET q == requests[r] IN
        /\ q.status = "pending" <=> q.current # NoStep
        /\ q.current # NoStep => q.steps[q.current] \in {"pending", "escalated"}
        /\ \A s \in StepIds : q.steps[s] = "pending" => q.current = s

\* One rejection fails the whole request: a request that is not rejected has no
\* rejection among its decisions and no rejected step, and an AND step's later
\* approvals cannot outvote one.
RejectionIsFatal ==
    \A r \in Requests :
        LET q == requests[r] IN
        /\ q.status = "rejected" <=> \E s \in StepIds : q.steps[s] = "rejected"
        /\ (\E s \in StepIds : Votes(q, s, "rejected") # {}) => q.status = "rejected"

\* A step of q's workflow that names somebody to escalate to.
HandsOver(q, s) == HasStep(StepsOf(q), s) /\ StepOf(StepsOf(q), s).escalates

\* Silence is not consent.  An approved request has every step it entered approved
\* or escalated, and at least one approved; and unless its workflow was redefined,
\* a step of it that timed out is one that hands over to somebody else.
ApprovedIsEarned ==
    \A r \in Requests :
        LET q == requests[r] IN
        q.status = "approved" =>
            /\ \A s \in StepIds : q.steps[s] \in {"none", "approved", "escalated"}
            /\ \E s \in StepIds : q.steps[s] = "approved"
            /\ stable[r] => \A s \in StepIds :
                                q.steps[s] = "escalated" => HandsOver(q, s)

\* A closed request never changes again: no late decision, timeout check or
\* redefinition reopens it or adds to its record.
ClosedIsFinal ==
    [][\A r \in Requests :
          requests[r].status \in {"approved", "rejected", "escalated"} =>
              requests'[r] = requests[r]]_vars

\* The approvals that a step's definition asks for.
Justified(q, s) ==
    LET step == StepOf(StepsOf(q), s) IN
    IF step.node = "and"
    THEN Cardinality(Votes(q, s, "approved")) >= Len(step.approvers)
    ELSE Votes(q, s, "approved") # {}

\* While its workflow is not redefined, a request has for each approved step as
\* many approvals OF THAT STEP as its definition asks for.
ApprovalsCounted ==
    \A r \in Requests :
        stable[r] => \A s \in StepIds :
            requests[r].steps[s] = "approved" => Justified(requests[r], s)

\* While its workflow is not redefined, a pending request can be decided and can
\* time out: its current step is a step of the workflow.
StableIsDecidable ==
    \A r \in Requests :
        (requests[r].status = "pending" /\ stable[r]) =>
            HasStep(StepsOf(requests[r]), requests[r].current)

UniqueIds(steps) ==
    \A i, k \in DOMAIN steps : steps[i].id = steps[k].id => i = k

\* A workflow is climbed one order after the other: without redefinition and
\* escalation, the approved steps are below the current one and no order
\* between the first approved step and the current one (or, when the request
\* is approved, the last) has been passed over.
NoLevelSkipped ==
    \A r \in Requests :
        LET q     == requests[r]
            steps == StepsOf(q)
            Level(s) == StepOf(steps, s).order
            done  == {s \in StepIds : q.steps[s] = "approved"}
        IN  (/\ q.status \in {"pending", "approved"} /\ stable[r] /\ UniqueIds(steps)
             /\ \A s \in StepIds : q.steps[s] # "escalated") =>
              /\ q.status = "pending" => \A s \in done : Level(s) < Level(q.current)
              /\ \A i \in DOMAIN steps :
                    (/\ \E s \in done : Level(s) <= steps[i].order
                     /\ q.status = "pending" => steps[i].order < Level(q.current))
                    => \E s \in done : Level(s) = steps[i].order

-----------------------------------------------------------------------------
(* What comments and documents say of the engine and the code does not do. *)

\* models.py:16: all approvers of an AND step must approve: as many people as
\* the step has approvers.
AndNeedsAllApprovers ==
    \A r \in Requests, s \in StepIds :
        LET q == requests[r] IN
        (/\ q.steps[s] = "approved" /\ stable[r]
         /\ StepOf(StepsOf(q), s).node = "and") =>
            Cardinality({q.decisions[i].by : i \in Votes(q, s, "approved")})
                >= Len(StepOf(StepsOf(q), s).approvers)

\* engine.py:360: an escalated request starts a new step.
EscalationStartsStep ==
    [][\A r \in Requests :
          (/\ requests[r].current # NoStep
           /\ requests[r].steps[requests[r].current] = "pending"
           /\ requests'[r].steps[requests[r].current] = "escalated"
           /\ requests'[r].status = "pending")
          => requests'[r].current # requests[r].current]_vars

-----------------------------------------------------------------------------
(* The inductive invariant that the proofs of module ApprovalProofs use. *)

\* What a submitted request q, st telling whether its workflow is unchanged,
\* satisfies: the properties above, one request at a time, and that it names a
\* workflow that is registered.
RequestInv(q, st) ==
    /\ q.status # "absent"
    /\ q.workflow \in Workflows /\ workflows[q.workflow] # NoDefinition
    /\ q.status = "pending" <=> q.current # NoStep
    /\ q.current # NoStep => q.steps[q.current] \in {"pending", "escalated"}
    /\ \A s \in StepIds : q.steps[s] = "pending" => q.current = s
    /\ q.status = "rejected" <=> \E s \in StepIds : q.steps[s] = "rejected"
    /\ (\E s \in StepIds : Votes(q, s, "rejected") # {}) => q.status = "rejected"
    /\ q.status = "approved" => \E s \in StepIds : q.steps[s] = "approved"
    /\ st => \A s \in StepIds : q.steps[s] = "approved" => Justified(q, s)
    /\ (st /\ q.status \in {"pending", "approved"}) =>
          \A s \in StepIds : q.steps[s] = "escalated" => HandsOver(q, s)
    /\ (st /\ q.status = "pending") => HasStep(StepsOf(q), q.current)

Level(q, s) == StepOf(StepsOf(q), s).order

Approved(q) == {s \in StepIds : q.steps[s] = "approved"}

\* The current step, and those left by escalation and not entered again.
Left(q) == {s \in StepIds : q.steps[s] = "escalated" \/ s = q.current}

\* How a request climbs when it may also escalate, up or down: above every
\* approved step there is one that is current or was left, and an order passed
\* over lies above such a step as well.
Climbed(q) ==
    /\ \A s \in Approved(q) \cup Left(q) : HasStep(StepsOf(q), s)
    /\ q.status = "pending" =>
          \A s \in Approved(q) : \E x \in Left(q) : Level(q, s) < Level(q, x)
    /\ \A i \in DOMAIN StepsOf(q) :
          LET order == StepsOf(q)[i].order IN
          (\E s \in Approved(q) : Level(q, s) <= order) =>
              \/ \E s \in Approved(q) : Level(q, s) = order
              \/ \E x \in Left(q) : Level(q, x) <= order

ClimbInv ==
    \A r \in Requests :
        (/\ requests[r].status \in {"pending", "approved"}
         /\ stable[r] /\ UniqueIds(StepsOf(requests[r])))
        => Climbed(requests[r])

ApprovalInv ==
    /\ TypeOK
    /\ \A r \in Requests :
          requests[r] = Absent \/ RequestInv(requests[r], stable[r])
=============================================================================
