--------------------------- MODULE ApprovalProofs ---------------------------
(***************************************************************************)
(* Proofs about the approval engine, for every set of workflows,           *)
(* definitions, requests and deciders.                                     *)
(***************************************************************************)
EXTENDS Approval, TLAPS

\* A request between two steps: pending, with no step waiting or rejected.
Between(q, st) ==
    /\ q \in Request
    /\ q.status = "pending"
    /\ q.workflow \in Workflows /\ workflows[q.workflow] # NoDefinition
    /\ \A s \in StepIds : q.steps[s] \in {"none", "approved", "escalated"}
    /\ \A s \in StepIds : Votes(q, s, "rejected") = {}
    /\ st => \A s \in StepIds : q.steps[s] = "approved" => Justified(q, s)

\* The steps of q that timed out hand over to somebody.
Escalated(q, st) ==
    st => \A s \in StepIds : q.steps[s] = "escalated" => HandsOver(q, s)

\* The steps of a registered workflow are steps.
LEMMA StepsTyped ==
  ASSUME TypeOK, NEW w \in Workflows, workflows[w] # NoDefinition
  PROVE  /\ workflows[w] \in Definition
         /\ \A i \in DOMAIN workflows[w].steps : workflows[w].steps[i].id \in StepIds
  <1>1. workflows[w] \in Definition
    BY ApprovalAssumption DEF TypeOK
  <1>2. workflows[w].steps \in Seq(Step)
    BY <1>1 DEF Definition
  <1>3. ASSUME NEW S, NEW q \in Seq(S), NEW i \in DOMAIN q PROVE q[i] \in S
    BY <1>3
  <1>4. \A i \in DOMAIN workflows[w].steps : workflows[w].steps[i] \in Step
    BY <1>2, <1>3
  <1> QED
    BY <1>1, <1>4 DEF Step

\* _start_step on a step the workflow has: the request waits for it.
LEMMA StartStepOK ==
  ASSUME NEW q, NEW st \in BOOLEAN, Between(q, st), Escalated(q, st),
         NEW id \in StepIds, HasStep(StepsOf(q), id)
  PROVE  /\ StartStep(q, id, StepsOf(q)) \in Request
         /\ RequestInv(StartStep(q, id, StepsOf(q)), st)
  <1> DEFINE n == StartStep(q, id, StepsOf(q))
  <1>1. /\ n \in Request
        /\ n.status = "pending" /\ n.workflow = q.workflow
        /\ n.current = id /\ n.decisions = q.decisions
        /\ n.steps = [q.steps EXCEPT ![id] = "pending"]
    BY DEF StartStep, Between, Request, StepStatus
  <1> HIDE DEF n
  <1>2. \A s \in StepIds : \A d : Votes(n, s, d) = Votes(q, s, d)
    BY <1>1 DEF Votes
  <1>3. StepsOf(n) = StepsOf(q)
    BY <1>1 DEF StepsOf
  <1>4. \A s \in StepIds : n.steps[s] = IF s = id THEN "pending" ELSE q.steps[s]
    BY <1>1 DEF Between, Request
  <1>5. \A s \in StepIds : Justified(q, s) => Justified(n, s)
    BY <1>2, <1>3 DEF Justified
  <1>6. id # NoStep
    BY ApprovalAssumption
  <1>7. RequestInv(n, st)
    BY <1>1, <1>2, <1>3, <1>4, <1>5, <1>6 DEF RequestInv, Between, Escalated, HandsOver
  <1> QED
    BY <1>1, <1>7 DEF n

\* A request closed between two steps.
LEMMA CloseOK ==
  ASSUME NEW q, NEW st \in BOOLEAN, Between(q, st), NEW c \in {"approved", "escalated"},
         c = "approved" => /\ \E s \in StepIds : q.steps[s] = "approved"
                           /\ Escalated(q, st)
  PROVE  Close(q, c) \in Request /\ RequestInv(Close(q, c), st)
  <1> DEFINE n == Close(q, c)
  <1>1. /\ n \in Request
        /\ n.status = c /\ n.workflow = q.workflow
        /\ n.current = NoStep /\ n.decisions = q.decisions
        /\ n.steps = q.steps
    BY DEF Close, Between, Request, StepStatus
  <1> HIDE DEF n
  <1>2. \A s \in StepIds : \A d : Votes(n, s, d) = Votes(q, s, d)
    BY <1>1 DEF Votes
  <1>3. StepsOf(n) = StepsOf(q)
    BY <1>1 DEF StepsOf
  <1>4. \A s \in StepIds : Justified(q, s) => Justified(n, s)
    BY <1>2, <1>3 DEF Justified
  <1>5. RequestInv(n, st)
    BY <1>1, <1>2, <1>3, <1>4 DEF RequestInv, Between, Escalated, HandsOver
  <1> QED
    BY <1>1, <1>5 DEF n

\* Recording a decision adds it to the votes of the current step only.
LEMMA RecordVotes ==
  ASSUME NEW q \in Request, q.current \in StepIds, NEW p \in People,
         NEW d \in {"approved", "rejected", "escalated"}
  PROVE  /\ Record(q, p, d) \in Request
         /\ Record(q, p, d) = [q EXCEPT !.decisions = Record(q, p, d).decisions]
         /\ \A s \in StepIds, c \in {"approved", "rejected"} :
              /\ s # q.current \/ c # d =>
                    Votes(Record(q, p, d), s, c) = Votes(q, s, c)
              /\ s = q.current /\ c = d => Votes(Record(q, p, d), s, c) # {}
  <1> DEFINE e == [step |-> q.current, by |-> p, decision |-> d]
             ds == q.decisions
             n == Record(q, p, d)
  <1>1. e \in Decision /\ e.step = q.current /\ e.decision = d
    BY DEF Decision
  <1>2. ds \in Seq(Decision)
    BY DEF Request
  <1>3. n.decisions = Append(ds, e) /\ n = [q EXCEPT !.decisions = Append(ds, e)]
    BY DEF Record, Request
  <1> HIDE DEF e, ds
  <1>4. /\ Append(ds, e) \in Seq(Decision)
        /\ Len(ds) \in Nat
        /\ Len(Append(ds, e)) = Len(ds) + 1
        /\ \A i \in 1..Len(ds) : Append(ds, e)[i] = ds[i]
        /\ Append(ds, e)[Len(ds) + 1] = e
    BY <1>1, <1>2
  <1>5. n \in Request
    BY <1>3, <1>4 DEF Request
  <1> HIDE DEF n
  <1>6. ASSUME NEW s \in StepIds, NEW c \in {"approved", "rejected"},
               s # q.current \/ c # d
        PROVE  Votes(n, s, c) = Votes(q, s, c)
    <2>1. Votes(n, s, c) = {i \in 1..(Len(ds) + 1) :
                              n.decisions[i].step = s /\ n.decisions[i].decision = c}
      BY <1>3, <1>4 DEF Votes
    <2>2. Votes(q, s, c) = {i \in 1..Len(ds) : ds[i].step = s /\ ds[i].decision = c}
      BY DEF Votes, ds
    <2>3. ~ (e.step = s /\ e.decision = c)
      BY <1>1, <1>6
    <2>4. /\ \A i \in 1..Len(ds) : n.decisions[i] = ds[i]
          /\ n.decisions[Len(ds) + 1] = e
          /\ \A i \in 1..(Len(ds) + 1) : i \in 1..Len(ds) \/ i = Len(ds) + 1
          /\ \A i \in 1..Len(ds) : i \in 1..(Len(ds) + 1)
      BY <1>3, <1>4
    <2>5. \A i : i \in Votes(n, s, c) <=> i \in Votes(q, s, c)
      BY <2>1, <2>2, <2>3, <2>4
    <2> QED
      BY <2>5
  <1>7. ASSUME NEW s \in StepIds, NEW c \in {"approved", "rejected"},
               s = q.current, c = d
        PROVE  Votes(n, s, c) # {}
    <2>1. Len(ds) + 1 \in Votes(n, s, c)
      BY <1>1, <1>3, <1>4, <1>7 DEF Votes
    <2> QED
      BY <2>1
  <1> QED
    BY <1>3, <1>5, <1>6, <1>7 DEF n

\* Replacing one request by another good one keeps the invariant.
LEMMA ReplaceOK ==
  ASSUME ApprovalInv, NEW r \in Requests, NEW q,
         q \in Request, RequestInv(q, stable[r]),
         requests' = [requests EXCEPT ![r] = q], UNCHANGED <<workflows, stable>>
  PROVE  ApprovalInv'
  <1>1. TypeOK'
    BY DEF ApprovalInv, TypeOK
  <1>2. ASSUME NEW k \in Requests
        PROVE  (requests[k] = Absent \/ RequestInv(requests[k], stable[k]))'
    <2>1. CASE k = r
      BY <2>1 DEF ApprovalInv, TypeOK, RequestInv, StepsOf, Justified, HandsOver
    <2>2. CASE k # r
      BY <2>2 DEF ApprovalInv, TypeOK, RequestInv, StepsOf, Justified, HandsOver
    <2> QED
      BY <2>1, <2>2
  <1> QED
    BY <1>1, <1>2 DEF ApprovalInv

\* process_decision keeps the invariant, whatever the node type, the decision
\* and the votes recorded before.
LEMMA DecisionInv ==
  ASSUME ApprovalInv, NEW r \in Requests, NEW p \in People,
         NEW d \in {"approved", "rejected", "escalated"}, ProcessDecision(r, p, d)
  PROVE  ApprovalInv'
  <1> DEFINE q == requests[r]
             steps == StepsOf(q)
             voted == Record(q, p, d)
             step == StepOf(steps, q.current)
             v == Verdict(voted, step, d)
             made == [voted EXCEPT !.steps[q.current] = v]
             st == stable[r]
  <1>1. q \in Request /\ st \in BOOLEAN
    BY DEF ApprovalInv, TypeOK
  <1>2. q.current # NoStep /\ HasStep(steps, q.current)
    BY DEF ProcessDecision
  <1>3. RequestInv(q, st) /\ q.current \in StepIds /\ q.status = "pending"
    <2>1. Absent.current = NoStep
      BY DEF Absent, NewRequest
    <2>2. RequestInv(q, st)
      BY <1>2, <2>1 DEF ApprovalInv
    <2> QED
      BY <1>1, <1>2, <2>2 DEF RequestInv, Request
  <1>4. \/ /\ v \notin {"approved", "rejected"}
           /\ requests' = [requests EXCEPT ![r] = made]
        \/ /\ v = "approved"
           /\ requests' = [requests EXCEPT ![r] = Close(made, "approved")]
        \/ /\ v = "approved"
           /\ \E i \in DOMAIN steps :
                requests' = [requests EXCEPT ![r] = StartStep(made, steps[i].id, steps)]
        \/ /\ v = "rejected"
           /\ requests' = [requests EXCEPT ![r] = Close(made, "rejected")]
    <2>1. made.steps[q.current] = v
      <3>1. voted \in Request
        BY <1>1, <1>3, RecordVotes
      <3> QED
        BY <1>3, <3>1 DEF Request
    <2> QED
      BY <2>1 DEF ProcessDecision, Earliest, LaterSteps
  <1>5. UNCHANGED <<workflows, stable>>
    BY DEF ProcessDecision
  <1>6. /\ voted \in Request
        /\ voted.steps = q.steps /\ voted.current = q.current
        /\ voted.status = q.status /\ voted.workflow = q.workflow
    BY <1>1, <1>3, RecordVotes DEF Request
  <1>7. \A s \in StepIds, c \in {"approved", "rejected"} :
           /\ s # q.current \/ c # d => Votes(voted, s, c) = Votes(q, s, c)
           /\ s = q.current /\ c = d => Votes(voted, s, c) # {}
    BY <1>1, <1>3, RecordVotes
  <1> HIDE DEF voted, step
  <1>8. /\ v = "approved" =>
              /\ d # "rejected"
              /\ IF step.node = "and"
                 THEN Cardinality(Votes(voted, q.current, "approved")) >= Len(step.approvers)
                 ELSE Votes(voted, q.current, "approved") # {}
        /\ v \notin {"approved", "rejected"} =>
              v = q.steps[q.current] /\ d # "rejected"
        /\ v \in StepStatus
    <2>1. d = "rejected" => Votes(voted, q.current, "rejected") # {}
      BY <1>3, <1>7
    <2>2. d = "approved" => Votes(voted, q.current, "approved") # {}
      BY <1>3, <1>7
    <2>3. q.steps[q.current] \in StepStatus \ {"approved", "rejected"}
      BY <1>1, <1>3 DEF RequestInv, Request, StepStatus
    <2>4. CASE step.node = "and"
      BY <1>6, <2>1, <2>3, <2>4 DEF Verdict, StepStatus
    <2>5. CASE step.node # "and"
      BY <1>6, <2>2, <2>3, <2>5 DEF Verdict, StepStatus
    <2> QED
      BY <2>4, <2>5
  <1> HIDE DEF v
  <1>9. /\ made \in Request
        /\ made.steps = [q.steps EXCEPT ![q.current] = v]
        /\ made.current = q.current /\ made.status = "pending"
        /\ made.workflow = q.workflow /\ made.decisions = voted.decisions
    BY <1>3, <1>6, <1>8 DEF Request
  <1> HIDE DEF made, q
  <1>10. /\ \A s \in StepIds : made.steps[s] = IF s = q.current THEN v ELSE q.steps[s]
         /\ StepsOf(made) = StepsOf(q)
         /\ \A s \in StepIds : \A c : Votes(made, s, c) = Votes(voted, s, c)
    BY <1>1, <1>9 DEF Request, StepsOf, Votes
  <1>11. ASSUME NEW s \in StepIds, st, made.steps[s] = "approved"
         PROVE  Justified(made, s)
    <2>1. CASE s = q.current
      BY <1>8, <1>10, <1>11, <2>1 DEF Justified, step
    <2>2. CASE s # q.current
      BY <1>3, <1>7, <1>10, <1>11, <2>2 DEF Justified, RequestInv
    <2> QED
      BY <2>1, <2>2
  <1>12. d # "rejected" => \A s \in StepIds : Votes(made, s, "rejected") = {}
    BY <1>3, <1>7, <1>10 DEF RequestInv
  <1>13. v # "rejected" => Escalated(made, st)
    BY <1>3, <1>8, <1>10 DEF RequestInv, Escalated, HandsOver
  <1>14. CASE v \notin {"approved", "rejected"}
    <2>1. RequestInv(made, st)
      BY <1>2, <1>3, <1>8, <1>9, <1>10, <1>11, <1>12, <1>13, <1>14
      DEF RequestInv, Escalated
    <2> QED
      BY <1>4, <1>5, <1>9, <1>14, <2>1, ReplaceOK
  <1>15. CASE v = "approved"
    <2>1. Between(made, st)
      <3>1. \A s \in StepIds : made.steps[s] \in {"none", "approved", "escalated"}
        BY <1>1, <1>3, <1>10, <1>15 DEF RequestInv, Request, StepStatus
      <3> QED
        BY <1>3, <1>8, <1>9, <1>11, <1>12, <1>15, <3>1 DEF Between, RequestInv
    <2>2. made.steps[q.current] = "approved"
      BY <1>3, <1>10, <1>15
    <2>3. CASE requests' = [requests EXCEPT ![r] = Close(made, "approved")]
      BY <1>1, <1>3, <1>5, <1>13, <1>15, <2>1, <2>2, <2>3, CloseOK, ReplaceOK
    <2>4. ASSUME NEW i \in DOMAIN steps,
                 requests' = [requests EXCEPT ![r] = StartStep(made, steps[i].id, steps)]
          PROVE  ApprovalInv'
      <3>1. steps[i].id \in StepIds /\ HasStep(StepsOf(made), steps[i].id)
        BY <1>3, <1>10, StepsTyped DEF RequestInv, ApprovalInv, StepsOf, HasStep
      <3> QED
        BY <1>1, <1>5, <1>10, <1>13, <1>15, <2>1, <2>4, <3>1, StartStepOK, ReplaceOK
    <2> QED
      BY <1>4, <1>15, <2>3, <2>4
  <1>16. CASE v = "rejected"
    <2> DEFINE n == Close(made, "rejected")
    <2>1. /\ n \in Request /\ n.status = "rejected" /\ n.current = NoStep
          /\ n.steps = made.steps /\ n.workflow = q.workflow
          /\ n.decisions = made.decisions
      BY <1>9 DEF Close, Request
    <2> HIDE DEF n
    <2>2. \A s \in StepIds : Justified(made, s) => Justified(n, s)
      BY <1>9, <2>1 DEF Justified, StepsOf, Votes
    <2>3. \A s \in StepIds : n.steps[s] # "pending"
      BY <1>3, <1>10, <1>16, <2>1 DEF RequestInv
    <2>4. RequestInv(n, st)
      BY <1>3, <1>10, <1>11, <1>16, <2>1, <2>2, <2>3 DEF RequestInv
    <2> QED
      BY <1>4, <1>5, <1>16, <2>1, <2>4, ReplaceOK DEF n
  <1> QED
    BY <1>14, <1>15, <1>16

\* check_timeouts on one request: escalation starts a step, changes nothing but
\* the step's status, or closes the request.
LEMMA EscalateOK ==
  ASSUME TypeOK, NEW q \in Request, NEW st \in BOOLEAN, RequestInv(q, st), Due(q)
  PROVE  Escalate(q) \in Request /\ RequestInv(Escalate(q), st)
  <1> DEFINE m == [q EXCEPT !.steps[q.current] = "escalated"]
  <1>1. q.current \in StepIds /\ q.status = "pending" /\ HasStep(StepsOf(q), q.current)
    BY DEF Due, Request
  <1>2. /\ m \in Request
        /\ m.steps = [q.steps EXCEPT ![q.current] = "escalated"]
        /\ m.status = "pending" /\ m.workflow = q.workflow
        /\ m.current = q.current /\ m.decisions = q.decisions
    BY <1>1 DEF Request, StepStatus
  <1>3. \/ /\ HandsOver(q, q.current)
           /\ Escalate(q) = StartStep(m, EscalatedId[q.current], StepsOf(q))
        \/ Escalate(q) = Close(m, "escalated")
    BY <1>1 DEF Escalate, HandsOver
  <1> HIDE DEF m
  <1>4. /\ \A s \in StepIds :
              m.steps[s] = IF s = q.current THEN "escalated" ELSE q.steps[s]
        /\ StepsOf(m) = StepsOf(q)
        /\ \A s \in StepIds : \A c : Votes(m, s, c) = Votes(q, s, c)
    BY <1>2 DEF Request, StepsOf, Votes
  <1>5. st => \A s \in StepIds : m.steps[s] = "approved" => Justified(m, s)
    BY <1>4 DEF RequestInv, Justified
  <1>6. Between(m, st)
    <2>1. \A s \in StepIds : m.steps[s] \in {"none", "approved", "escalated"}
      BY <1>1, <1>4 DEF RequestInv, Request, StepStatus
    <2> QED
      BY <1>1, <1>2, <1>4, <1>5, <2>1 DEF Between, RequestInv
  <1>7. HandsOver(q, q.current) => Escalated(m, st)
    BY <1>1, <1>4 DEF RequestInv, Escalated, HandsOver
  <1>8. CASE Escalate(q) = Close(m, "escalated")
    BY <1>6, <1>8, CloseOK
  <1>9. CASE /\ HandsOver(q, q.current)
             /\ Escalate(q) = StartStep(m, EscalatedId[q.current], StepsOf(q))
    <2> DEFINE id == EscalatedId[q.current]
    <2>1. CASE ~ HasStep(StepsOf(q), id)
      <3>1. RequestInv(m, st)
        BY <1>1, <1>2, <1>4, <1>5, <1>7, <1>9 DEF RequestInv, Escalated
      <3> QED
        BY <1>2, <1>9, <2>1, <3>1 DEF StartStep
    <2>2. CASE HasStep(StepsOf(q), id)
      <3>1. id \in StepIds
        BY <2>2, StepsTyped DEF RequestInv, HasStep, StepsOf
      <3> QED
        BY <1>4, <1>6, <1>7, <1>9, <2>2, <3>1, StartStepOK
    <2> QED
      BY <2>1, <2>2
  <1> QED
    BY <1>3, <1>8, <1>9

\* check_timeouts over all requests.
LEMMA TimeoutsInv == ApprovalInv /\ CheckTimeouts => ApprovalInv'
  <1> SUFFICES ASSUME ApprovalInv, CheckTimeouts PROVE ApprovalInv'
    OBVIOUS
  <1>1. ASSUME NEW r \in Requests
        PROVE  /\ requests'[r] \in Request
               /\ requests'[r] = Absent \/ RequestInv(requests'[r], stable[r])
    <2>1. requests[r] \in Request /\ stable[r] \in BOOLEAN /\ TypeOK
      BY DEF ApprovalInv, TypeOK
    <2>2. CASE Due(requests[r])
      <3>1. RequestInv(requests[r], stable[r])
        BY <2>2 DEF ApprovalInv, Due, Absent, NewRequest
      <3>2. requests'[r] = Escalate(requests[r])
        BY <2>2 DEF CheckTimeouts
      <3> QED
        BY <2>1, <2>2, <3>1, <3>2, EscalateOK
    <2>3. CASE ~ Due(requests[r])
      BY <2>1, <2>3 DEF CheckTimeouts, ApprovalInv
    <2> QED
      BY <2>2, <2>3
  <1>2. TypeOK'
    BY <1>1 DEF CheckTimeouts, ApprovalInv, TypeOK
  <1>3. \A r \in Requests : (requests[r] = Absent \/ RequestInv(requests[r], stable[r]))'
    BY <1>1 DEF CheckTimeouts, RequestInv, StepsOf, Justified, HandsOver
  <1> QED
    BY <1>2, <1>3 DEF ApprovalInv

\* submit_approval_request starts the first step that matches.
LEMMA SubmitInv ==
  ASSUME ApprovalInv, NEW r \in Requests, NEW w \in Workflows,
         NEW attrs \in Attributes, Submit(r, w, attrs)
  PROVE  ApprovalInv'
  <1> DEFINE q == NewRequest(w, attrs)
             steps == workflows[w].steps
  <1>1. /\ q \in Request /\ q.status = "pending" /\ q.workflow = w
        /\ q.decisions = <<>> /\ q.steps = [s \in StepIds |-> "none"]
    BY DEF NewRequest, Request, StepStatus
  <1>2. PICK i \in DOMAIN steps :
           requests' = [requests EXCEPT ![r] = StartStep(q, steps[i].id, steps)]
    BY DEF Submit, MatchingStep, Earliest
  <1>3. /\ workflows[w] # NoDefinition
        /\ stable' = [stable EXCEPT ![r] = TRUE] /\ workflows' = workflows
    BY DEF Submit
  <1> HIDE DEF q
  <1>4. StepsOf(q) = steps
    BY <1>1 DEF StepsOf
  <1>5. \A s \in StepIds : Votes(q, s, "rejected") = {}
    BY <1>1 DEF Votes
  <1>6. Between(q, TRUE) /\ Escalated(q, TRUE)
    BY <1>1, <1>3, <1>5 DEF Between, Escalated
  <1>7. steps[i].id \in StepIds /\ HasStep(steps, steps[i].id)
    BY <1>2, <1>3, StepsTyped DEF ApprovalInv, HasStep
  <1> DEFINE n == StartStep(q, steps[i].id, steps)
  <1>8. n \in Request /\ RequestInv(n, TRUE)
    BY <1>4, <1>6, <1>7, StartStepOK
  <1> HIDE DEF n
  <1>9. requests' = [requests EXCEPT ![r] = n]
    BY <1>2 DEF n
  <1>10. TypeOK'
    BY <1>3, <1>8, <1>9 DEF ApprovalInv, TypeOK
  <1>11. ASSUME NEW k \in Requests
         PROVE  (requests[k] = Absent \/ RequestInv(requests[k], stable[k]))'
    <2>1. CASE k = r
      BY <1>3, <1>8, <1>9, <2>1 DEF ApprovalInv, TypeOK, RequestInv, StepsOf, Justified, HandsOver
    <2>2. CASE k # r
      BY <1>3, <1>9, <2>2 DEF ApprovalInv, TypeOK, RequestInv, StepsOf, Justified, HandsOver
    <2> QED
      BY <2>1, <2>2
  <1> QED
    BY <1>10, <1>11 DEF ApprovalInv

\* register_workflow changes the definition under requests: those that use it
\* are no longer stable, the others do not notice.
LEMMA RegisterInv ==
  ASSUME ApprovalInv, NEW w \in Workflows, NEW d \in Definitions, RegisterWorkflow(w, d)
  PROVE  ApprovalInv'
  <1>1. d \in Definition /\ d # NoDefinition
    BY ApprovalAssumption
  <1>2. TypeOK'
    BY DEF RegisterWorkflow, ApprovalInv, TypeOK
  <1>3. ASSUME NEW r \in Requests
        PROVE  (requests[r] = Absent \/ RequestInv(requests[r], stable[r]))'
    <2>1. CASE requests[r] = Absent
      BY <2>1 DEF RegisterWorkflow, Absent, NewRequest
    <2>2. CASE RequestInv(requests[r], stable[r])
      <3>1. workflows'[requests[r].workflow] # NoDefinition
        BY <1>1, <2>2 DEF RegisterWorkflow, RequestInv, ApprovalInv, TypeOK
      <3>2. stable'[r] => stable[r] /\ workflows'[requests[r].workflow]
                                         = workflows[requests[r].workflow]
        BY <2>2 DEF RegisterWorkflow, RequestInv, ApprovalInv, TypeOK
      <3>3. requests' = requests
        BY DEF RegisterWorkflow
      <3>4. stable'[r] => \A s \in StepIds :
               /\ Justified(requests[r], s) => Justified(requests[r], s)'
               /\ HandsOver(requests[r], s) => HandsOver(requests[r], s)'
        BY <3>2, <3>3 DEF StepsOf, Justified, HandsOver, Votes
      <3>5. stable'[r] => StepsOf(requests[r])' = StepsOf(requests[r])
        BY <3>2, <3>3 DEF StepsOf
      <3> QED
        BY <2>2, <3>1, <3>2, <3>3, <3>4, <3>5 DEF RequestInv, Votes
    <2> QED
      BY <2>1, <2>2 DEF ApprovalInv
  <1> QED
    BY <1>2, <1>3 DEF ApprovalInv

\* A deadline that passes changes no verdict.
LEMMA DeadlineInv ==
  ASSUME ApprovalInv, NEW r \in Requests, DeadlinePasses(r)
  PROVE  ApprovalInv'
  <1> DEFINE q == requests[r]
             n == [q EXCEPT !.deadline = "passed"]
  <1>1. q \in Request
    BY DEF ApprovalInv, TypeOK
  <1>2. /\ n \in Request /\ n.status = q.status /\ n.workflow = q.workflow
        /\ n.current = q.current /\ n.steps = q.steps /\ n.decisions = q.decisions
    BY <1>1 DEF Request
  <1>3. RequestInv(q, stable[r])
    BY DEF DeadlinePasses, ApprovalInv, Absent, NewRequest
  <1>4. requests' = [requests EXCEPT ![r] = n] /\ UNCHANGED <<workflows, stable>>
    BY <1>1 DEF DeadlinePasses
  <1> HIDE DEF n, q
  <1>5. RequestInv(n, stable[r])
    BY <1>2, <1>3 DEF RequestInv, Justified, HandsOver, StepsOf, Votes
  <1> QED
    BY <1>2, <1>4, <1>5, ReplaceOK

-----------------------------------------------------------------------------
(* The theorems. *)

\* The engine starts with the built-in workflows and no request.
LEMMA InitInv == Init => ApprovalInv
  <1>1. Absent \in Request
    <2>1. [f \in Fields |-> NoValue] \in Attributes
      BY DEF Attributes
    <2>2. ASSUME NEW a \in Attributes PROVE NewRequest(NoWorkflow, a) \in Request
      BY DEF NewRequest, Request, StepStatus
    <2>3. ASSUME NEW q \in Request PROVE [q EXCEPT !.status = "absent"] \in Request
      BY DEF Request
    <2> QED
      BY <2>1, <2>2, <2>3 DEF Absent
  <1> QED
    BY <1>1, ApprovalAssumption DEF Init, ApprovalInv, TypeOK

\* Every handler keeps the invariant.
LEMMA NextInv == ApprovalInv /\ [Next]_vars => ApprovalInv'
  <1> SUFFICES ASSUME ApprovalInv, [Next]_vars PROVE ApprovalInv'
    OBVIOUS
  <1>1. CASE UNCHANGED vars
    BY <1>1 DEF vars, ApprovalInv, TypeOK, RequestInv, StepsOf, Justified, HandsOver
  <1> QED
    BY <1>1, RegisterInv, SubmitInv, DecisionInv, TimeoutsInv, DeadlineInv DEF Next

\* The inductive invariant holds in every behaviour of the engine.
THEOREM ApprovalInvariant == Spec => []ApprovalInv
  BY InitInv, NextInv, PTL DEF Spec

\* Workflows and requests keep their types.
THEOREM ApprovalTypeCorrect == Spec => []TypeOK
  <1>1. ApprovalInv => TypeOK
    BY DEF ApprovalInv
  <1> QED
    BY <1>1, ApprovalInvariant, PTL

\* A request that has not been submitted has nothing in it.
LEMMA AbsentFacts ==
  /\ Absent.status = "absent" /\ Absent.current = NoStep
  /\ \A s \in StepIds : Absent.steps[s] = "none" /\ Votes(Absent, s, "rejected") = {}
  BY DEF Absent, NewRequest, Votes

\* A request is pending exactly while one of its steps is active.
THEOREM RequestsHaveOneOpenStep == Spec => []OneOpenStep
  <1>1. ApprovalInv => OneOpenStep
    BY AbsentFacts DEF ApprovalInv, RequestInv, OneOpenStep
  <1> QED
    BY <1>1, ApprovalInvariant, PTL

\* One rejection, of any step, fails the request.
THEOREM RejectionsAreFatal == Spec => []RejectionIsFatal
  <1>1. ApprovalInv => RejectionIsFatal
    BY AbsentFacts DEF ApprovalInv, RequestInv, RejectionIsFatal
  <1> QED
    BY <1>1, ApprovalInvariant, PTL

\* An approved request has only steps that were approved or that timed out and
\* had somebody to escalate to.
THEOREM ApprovalsAreEarned == Spec => []ApprovedIsEarned
  <1>1. ApprovalInv => ApprovedIsEarned
    <2> SUFFICES ASSUME ApprovalInv, NEW r \in Requests, requests[r].status = "approved"
                 PROVE  /\ \A s \in StepIds :
                             requests[r].steps[s] \in {"none", "approved", "escalated"}
                        /\ \E s \in StepIds : requests[r].steps[s] = "approved"
                        /\ stable[r] => \A s \in StepIds :
                             requests[r].steps[s] = "escalated" => HandsOver(requests[r], s)
      BY DEF ApprovedIsEarned
    <2>1. RequestInv(requests[r], stable[r]) /\ requests[r] \in Request
      BY AbsentFacts DEF ApprovalInv, TypeOK
    <2> QED
      BY <2>1, ApprovalAssumption DEF RequestInv, Request, StepStatus
  <1> QED
    BY <1>1, ApprovalInvariant, PTL

\* Approved steps have the approvals their definition asks for, for any number
\* of steps, approvers and decisions.
THEOREM ApprovalsAreCounted == Spec => []ApprovalsCounted
  <1>1. ApprovalInv => ApprovalsCounted
    BY AbsentFacts DEF ApprovalInv, RequestInv, ApprovalsCounted
  <1> QED
    BY <1>1, ApprovalInvariant, PTL

\* A pending request of a workflow nobody redefined can be decided.
THEOREM StableRequestsAreDecidable == Spec => []StableIsDecidable
  <1>1. ApprovalInv => StableIsDecidable
    BY AbsentFacts DEF ApprovalInv, RequestInv, StableIsDecidable
  <1> QED
    BY <1>1, ApprovalInvariant, PTL

\* No handler changes a closed request.
THEOREM ClosedRequestsAreFinal == Spec => ClosedIsFinal
  <1> DEFINE Kept == \A r \in Requests :
                        requests[r].status \in {"approved", "rejected", "escalated"} =>
                            requests'[r] = requests[r]
  <1>1. ApprovalInv /\ [Next]_vars => [Kept]_vars
    <2> SUFFICES ASSUME ApprovalInv, Next, NEW r \in Requests,
                        requests[r].status \in {"approved", "rejected", "escalated"}
                 PROVE  requests'[r] = requests[r]
      BY DEF vars
    <2>1. /\ requests \in [Requests -> Request]
          /\ requests[r].current = NoStep
      BY AbsentFacts DEF ApprovalInv, TypeOK, RequestInv
    <2>2. ASSUME NEW w \in Workflows, NEW d \in Definitions, RegisterWorkflow(w, d)
          PROVE  requests'[r] = requests[r]
      BY <2>2 DEF RegisterWorkflow
    <2>3. ASSUME NEW k \in Requests, NEW w \in Workflows, NEW a \in Attributes,
                 Submit(k, w, a)
          PROVE  requests'[r] = requests[r]
      BY <2>1, <2>3 DEF Submit
    <2>4. ASSUME NEW k \in Requests, NEW p \in People,
                 NEW d \in {"approved", "rejected", "escalated"}, ProcessDecision(k, p, d)
          PROVE  requests'[r] = requests[r]
      BY <2>1, <2>4 DEF ProcessDecision
    <2>5. CASE CheckTimeouts
      BY <2>1, <2>5 DEF CheckTimeouts, Due
    <2>6. ASSUME NEW k \in Requests, DeadlinePasses(k)
          PROVE  requests'[r] = requests[r]
      BY <2>1, <2>6 DEF DeadlinePasses
    <2> QED
      BY <2>2, <2>3, <2>4, <2>5, <2>6 DEF Next
  <1> QED
    BY <1>1, ApprovalInvariant, PTL DEF Spec, ClosedIsFinal

-----------------------------------------------------------------------------
(* No level is skipped. *)

\* Climbed in terms of the workflow's steps, the approved steps A, the steps X
\* that are current or were left, and whether the request is pending.
Climbs(steps, A, X, pending) ==
    /\ \A s \in A \cup X : HasStep(steps, s)
    /\ pending => \A s \in A : \E x \in X :
                     StepOf(steps, s).order < StepOf(steps, x).order
    /\ \A i \in DOMAIN steps :
          (\E s \in A : StepOf(steps, s).order <= steps[i].order) =>
              \/ \E s \in A : StepOf(steps, s).order = steps[i].order
              \/ \E x \in X : StepOf(steps, x).order <= steps[i].order

\* The steps of a workflow in which an id names one step.
Orderly(steps) == steps \in Seq(Step) /\ UniqueIds(steps)

\* Where ids are unique, a step is found by its id, and has an order.
LEMMA StepFound ==
  ASSUME NEW steps, Orderly(steps)
  PROVE  /\ \A i \in DOMAIN steps : /\ StepOf(steps, steps[i].id) = steps[i]
                                    /\ steps[i].order \in Int
         /\ \A s : HasStep(steps, s) => StepOf(steps, s).order \in Int
  <1>1. ASSUME NEW S, NEW q \in Seq(S), NEW i \in DOMAIN q
        PROVE  q[i] \in S /\ i \in Nat /\ \A m \in 1..(i - 1) : m \in DOMAIN q /\ m # i
    BY <1>1
  <1>2. \A i \in DOMAIN steps : /\ steps[i] \in Step
                                /\ \A m \in 1..(i - 1) : m \in DOMAIN steps /\ m # i
    BY <1>1 DEF Orderly
  <1>3. ASSUME NEW i \in DOMAIN steps
        PROVE  StepOf(steps, steps[i].id) = steps[i]
    <2> DEFINE P(k) == /\ steps[k].id = steps[i].id
                       /\ \A m \in 1..(k - 1) : steps[m].id # steps[i].id
    <2>1. P(i)
      BY <1>2 DEF Orderly, UniqueIds
    <2>2. \A k \in DOMAIN steps : P(k) => k = i
      BY DEF Orderly, UniqueIds
    <2>3. (CHOOSE k \in DOMAIN steps : P(k)) = i
      BY <2>1, <2>2
    <2> QED
      BY <2>3 DEF StepOf
  <1>4. \A i \in DOMAIN steps : steps[i].order \in Int
    BY <1>2 DEF Step
  <1> QED
    BY <1>3, <1>4 DEF HasStep

\* The next step after c: the first of those above it.
LEMMA ClimbNext ==
  ASSUME NEW steps, Orderly(steps), NEW A, NEW X, Climbs(steps, A, X, TRUE),
         NEW c \in X, NEW j \in Earliest(steps, LaterSteps(steps, c)),
         NEW d, d = steps[j].id
  PROVE  Climbs(steps, (A \cup {c}) \ {d}, (X \ {c}) \cup {d}, TRUE)
  <1> DEFINE L(s) == StepOf(steps, s).order
             B == (A \cup {c}) \ {d}
             Y == (X \ {c}) \cup {d}
  <1>1. /\ \A s \in A \cup X : HasStep(steps, s) /\ L(s) \in Int
        /\ \A i \in DOMAIN steps : steps[i].order \in Int
    BY StepFound DEF Climbs
  <1>2. /\ j \in DOMAIN steps /\ HasStep(steps, d) /\ L(d) = steps[j].order
        /\ L(d) \in Int /\ L(c) < L(d)
        /\ \A i \in DOMAIN steps : L(c) < steps[i].order => L(d) <= steps[i].order
    <2>1. j \in DOMAIN steps /\ L(c) < steps[j].order /\ L(d) = steps[j].order
      BY StepFound, <1>1 DEF Earliest, LaterSteps
    <2>2. ASSUME NEW i \in DOMAIN steps, L(c) < steps[i].order
          PROVE  steps[j].order <= steps[i].order
      BY <1>1, <2>1, <2>2 DEF Earliest, LaterSteps
    <2> QED
      BY <1>1, <2>1, <2>2 DEF HasStep
  <1>3. /\ \A s \in A : \E x \in X : L(s) < L(x)
        /\ \A i \in DOMAIN steps : (\E s \in A : L(s) <= steps[i].order) =>
              \/ \E s \in A : L(s) = steps[i].order
              \/ \E x \in X : L(x) <= steps[i].order
    BY DEF Climbs
  <1> HIDE DEF L
  <1>4. ASSUME NEW s \in B PROVE \E x \in Y : L(s) < L(x)
    BY <1>1, <1>2, <1>3
  <1>5. ASSUME NEW i \in DOMAIN steps, NEW s \in B, L(s) <= steps[i].order
        PROVE  \/ \E t \in B : L(t) = steps[i].order
               \/ \E x \in Y : L(x) <= steps[i].order
    <2>1. CASE L(d) <= steps[i].order
      BY <2>1
    <2>2. CASE steps[i].order < L(d) /\ \E t \in A : L(t) = steps[i].order
      BY <1>1, <1>2, <2>2
    <2>3. CASE steps[i].order < L(d) /\ \E x \in X : L(x) <= steps[i].order
      BY <1>1, <1>2, <2>3
    <2>4. CASE s = c
      BY <1>1, <1>2, <1>5, <2>1, <2>4
    <2> QED
      BY <1>1, <1>2, <1>3, <1>5, <2>1, <2>2, <2>3, <2>4
  <1>6. \A s \in B \cup Y : HasStep(steps, s)
    BY <1>1, <1>2
  <1> QED
    BY <1>4, <1>5, <1>6 DEF Climbs, L

\* The last step c: nothing is above it.
LEMMA ClimbEnd ==
  ASSUME NEW steps, Orderly(steps), NEW A, NEW X, Climbs(steps, A, X, TRUE),
         NEW c \in X, LaterSteps(steps, c) = {}
  PROVE  Climbs(steps, A \cup {c}, X \ {c}, FALSE)
  <1> DEFINE L(s) == StepOf(steps, s).order
             B == A \cup {c}
             Y == X \ {c}
  <1>1. /\ \A s \in A \cup X : HasStep(steps, s) /\ L(s) \in Int
        /\ \A i \in DOMAIN steps : steps[i].order \in Int
    BY StepFound DEF Climbs
  <1>2. \A i \in DOMAIN steps : steps[i].order <= L(c)
    BY <1>1 DEF LaterSteps
  <1>3. \A i \in DOMAIN steps : (\E s \in A : L(s) <= steps[i].order) =>
              \/ \E s \in A : L(s) = steps[i].order
              \/ \E x \in X : L(x) <= steps[i].order
    BY DEF Climbs
  <1> HIDE DEF L
  <1>4. ASSUME NEW i \in DOMAIN steps, NEW s \in B, L(s) <= steps[i].order
        PROVE  \/ \E t \in B : L(t) = steps[i].order
               \/ \E x \in Y : L(x) <= steps[i].order
    BY <1>1, <1>2, <1>3, <1>4
  <1> QED
    BY <1>1, <1>4 DEF Climbs, L

\* Escalation from c to d, which may have been approved before.
LEMMA ClimbAside ==
  ASSUME NEW steps, NEW A, NEW X, Climbs(steps, A, X, TRUE), Orderly(steps),
         NEW d, HasStep(steps, d)
  PROVE  Climbs(steps, A \ {d}, X \cup {d}, TRUE)
  <1> DEFINE L(s) == StepOf(steps, s).order
             B == A \ {d}
             Y == X \cup {d}
  <1>1. /\ \A s \in A \cup X : HasStep(steps, s)
        /\ \A s \in A : \E x \in X : L(s) < L(x)
        /\ \A i \in DOMAIN steps : (\E s \in A : L(s) <= steps[i].order) =>
              \/ \E s \in A : L(s) = steps[i].order
              \/ \E x \in X : L(x) <= steps[i].order
    BY DEF Climbs
  <1>2. L(d) \in Int
    BY StepFound
  <1> HIDE DEF L
  <1>3. ASSUME NEW i \in DOMAIN steps, NEW s \in B, L(s) <= steps[i].order
        PROVE  \/ \E t \in B : L(t) = steps[i].order
               \/ \E x \in Y : L(x) <= steps[i].order
    BY <1>1, <1>2, <1>3
  <1> QED
    BY <1>1, <1>3 DEF Climbs, L

\* Climbed is Climbs on the request's steps.
LEMMA ClimbedIs ==
  ASSUME NEW q
  PROVE  Climbed(q) <=> Climbs(StepsOf(q), Approved(q), Left(q), q.status = "pending")
  BY DEF Climbed, Climbs, Level

\* What ClimbInv says of one request.
Climbing(q, st) ==
    (q.status \in {"pending", "approved"} /\ st /\ UniqueIds(StepsOf(q))) => Climbed(q)

\* The steps of a good request's workflow, where ids are unique.
LEMMA OrderlySteps ==
  ASSUME TypeOK, NEW q, q.workflow \in Workflows, workflows[q.workflow] # NoDefinition,
         UniqueIds(StepsOf(q))
  PROVE  Orderly(StepsOf(q))
  BY StepsTyped DEF StepsOf, Definition, Orderly

\* _start_step moves on to step id: neither it nor the step left behind counts
\* as before.
LEMMA StartSets ==
  ASSUME NEW q \in Request, NEW id \in StepIds, HasStep(StepsOf(q), id)
  PROVE  LET n == StartStep(q, id, StepsOf(q)) IN
         /\ n.status = q.status /\ n.workflow = q.workflow
         /\ Approved(n) = Approved(q) \ {id}
         /\ Left(n) = {s \in StepIds : q.steps[s] = "escalated"} \cup {id}
  <1> DEFINE n == StartStep(q, id, StepsOf(q))
  <1>1. /\ n.status = q.status /\ n.workflow = q.workflow /\ n.current = id
        /\ n.steps = [q.steps EXCEPT ![id] = "pending"]
    BY DEF StartStep, Request
  <1> HIDE DEF n
  <1>2. \A s \in StepIds : n.steps[s] = IF s = id THEN "pending" ELSE q.steps[s]
    BY <1>1 DEF Request
  <1>3. Approved(n) = Approved(q) \ {id}
    BY <1>2 DEF Approved
  <1>4. Left(n) = {s \in StepIds : q.steps[s] = "escalated"} \cup {id}
    BY <1>1, <1>2 DEF Left
  <1> QED
    BY <1>1, <1>3, <1>4 DEF n

\* process_decision keeps a request climbing.
LEMMA DecisionClimbs ==
  ASSUME ApprovalInv, NEW r \in Requests, NEW p \in People,
         NEW d \in {"approved", "rejected", "escalated"}, ProcessDecision(r, p, d),
         Climbing(requests[r], stable[r])
  PROVE  Climbing(requests'[r], stable[r])
  <1> DEFINE q == requests[r]
             steps == StepsOf(q)
             voted == Record(q, p, d)
             made == [voted EXCEPT !.steps[q.current] =
                        Verdict(voted, StepOf(steps, q.current), d)]
             v == made.steps[q.current]
  <1>1. q \in Request /\ q.current # NoStep /\ requests \in [Requests -> Request] /\ TypeOK
    BY DEF ApprovalInv, TypeOK, ProcessDecision
  <1>2. RequestInv(q, stable[r]) /\ q.current \in StepIds /\ q.status = "pending"
    <2>1. RequestInv(q, stable[r])
      BY <1>1, AbsentFacts DEF ApprovalInv
    <2> QED
      BY <1>1, <2>1 DEF RequestInv, Request
  <1>3. \/ v \notin {"approved", "rejected"} /\ requests'[r] = made
        \/ /\ v = "approved" /\ LaterSteps(steps, q.current) = {}
           /\ requests'[r] = Close(made, "approved")
        \/ /\ v = "approved"
           /\ \E i \in Earliest(steps, LaterSteps(steps, q.current)) :
                requests'[r] = StartStep(made, steps[i].id, steps)
        \/ requests'[r] = Close(made, "rejected")
    BY <1>1 DEF ProcessDecision
  <1>4. /\ voted \in Request
        /\ voted.steps = q.steps /\ voted.current = q.current
        /\ voted.status = q.status /\ voted.workflow = q.workflow
    BY <1>1, <1>2, RecordVotes DEF Request
  <1>5. Verdict(voted, StepOf(steps, q.current), d)
            \in {"approved", "rejected", q.steps[q.current]}
    BY <1>4 DEF Verdict
  <1>6. q.steps[q.current] \in {"pending", "escalated"}
    BY <1>1, <1>2 DEF RequestInv
  <1> HIDE DEF voted
  <1>7. /\ made.status = "pending" /\ made.workflow = q.workflow
        /\ made.current = q.current
        /\ made \in Request
        /\ \A s \in StepIds : made.steps[s] = IF s = q.current THEN v ELSE q.steps[s]
        /\ v \in {"approved", "rejected", q.steps[q.current]}
    BY <1>2, <1>4, <1>5, <1>6 DEF Request, StepStatus
  <1> HIDE DEF made
  <1>8. StepsOf(made) = steps
    BY <1>7 DEF StepsOf
  <1> DEFINE E == {s \in StepIds : made.steps[s] = "escalated"}
  <1>9. v = "approved" => /\ Approved(made) = Approved(q) \cup {q.current}
                          /\ E = Left(q) \ {q.current}
    BY <1>2, <1>7 DEF Approved, Left
  <1>10. q.current \in Left(q)
    BY <1>2 DEF Left
  <1>11. ASSUME stable[r], UniqueIds(steps)
         PROVE  Orderly(steps) /\ Climbs(steps, Approved(q), Left(q), TRUE)
    BY <1>1, <1>2, <1>11, ClimbedIs, OrderlySteps DEF Climbing, RequestInv
  <1>12. CASE v \notin {"approved", "rejected"} /\ requests'[r] = made
    <2>1. Approved(made) = Approved(q) /\ Left(made) = Left(q)
      BY <1>2, <1>7, <1>12 DEF Approved, Left
    <2> QED
      BY <1>2, <1>7, <1>8, <1>12, <2>1, ClimbedIs DEF Climbing
  <1>13. CASE /\ v = "approved" /\ LaterSteps(steps, q.current) = {}
              /\ requests'[r] = Close(made, "approved")
    <2> DEFINE n == Close(made, "approved")
    <2>1. /\ n.status = "approved" /\ n.workflow = q.workflow /\ n.current = NoStep
          /\ n.steps = made.steps
      BY <1>7 DEF Close, Request
    <2> HIDE DEF n
    <2>2. StepsOf(n) = steps
      BY <2>1 DEF StepsOf
    <2>3. Approved(n) = Approved(q) \cup {q.current} /\ Left(n) = Left(q) \ {q.current}
      BY <1>9, <1>13, <2>1, ApprovalAssumption DEF Approved, Left
    <2>4. ASSUME NEW A, NEW X, Climbs(steps, A, X, TRUE), Orderly(steps),
                 q.current \in X
          PROVE  Climbs(steps, A \cup {q.current}, X \ {q.current}, FALSE)
      BY <1>13, <2>4, ClimbEnd
    <2>5. ASSUME stable[r], UniqueIds(steps)
          PROVE  Climbs(steps, Approved(n), Left(n), FALSE)
      BY <1>10, <1>11, <2>3, <2>4, <2>5
    <2>6. Climbing(n, stable[r])
      BY <2>1, <2>2, <2>5, ClimbedIs DEF Climbing
    <2> QED
      BY <1>13, <2>6 DEF n
  <1>14. ASSUME v = "approved", NEW i \in Earliest(steps, LaterSteps(steps, q.current))
         PROVE  Climbing(StartStep(made, steps[i].id, steps), stable[r])
    <2> DEFINE n == StartStep(made, steps[i].id, steps)
               id == steps[i].id
    <2>1. id \in StepIds /\ HasStep(StepsOf(made), id)
      BY <1>1, <1>2, <1>8, StepsTyped
      DEF RequestInv, StepsOf, HasStep, Earliest, LaterSteps
    <2>2. /\ n.status = "pending" /\ n.workflow = q.workflow
          /\ Approved(n) = (Approved(q) \cup {q.current}) \ {id}
          /\ Left(n) = (Left(q) \ {q.current}) \cup {id}
      BY <1>7, <1>8, <1>9, <1>14, <2>1, StartSets
    <2> HIDE DEF n
    <2>3. StepsOf(n) = steps
      BY <2>2 DEF StepsOf
    <2>4. ASSUME stable[r], UniqueIds(steps)
          PROVE  Climbs(steps, Approved(n), Left(n), TRUE)
      <3>1. ASSUME NEW A, NEW X, Climbs(steps, A, X, TRUE), Orderly(steps),
                   q.current \in X
            PROVE  Climbs(steps, (A \cup {q.current}) \ {id},
                          (X \ {q.current}) \cup {id}, TRUE)
        BY <1>14, <3>1, ClimbNext
      <3>2. Climbs(steps, (Approved(q) \cup {q.current}) \ {id},
                   (Left(q) \ {q.current}) \cup {id}, TRUE)
        BY <1>10, <1>11, <2>4, <3>1
      <3> QED
        BY <2>2, <3>2
    <2>5. Climbing(n, stable[r])
      BY <2>2, <2>3, <2>4, ClimbedIs DEF Climbing
    <2> QED
      BY <2>5 DEF n
  <1>15. CASE requests'[r] = Close(made, "rejected")
    BY <1>7, <1>15 DEF Close, Request, Climbing
  <1> QED
    BY <1>3, <1>12, <1>13, <1>14, <1>15

\* check_timeouts keeps a request climbing: it leaves its step for another, which
\* may be a step it has been through, or stays on it, or closes.
LEMMA EscalateClimbs ==
  ASSUME TypeOK, NEW q \in Request, NEW st \in BOOLEAN, RequestInv(q, st), Due(q),
         Climbing(q, st)
  PROVE  Climbing(Escalate(q), st)
  <1> DEFINE m == [q EXCEPT !.steps[q.current] = "escalated"]
             id == EscalatedId[q.current]
             steps == StepsOf(q)
  <1>1. q.current \in StepIds /\ q.status = "pending"
    BY DEF Due, Request
  <1>2. /\ m \in Request /\ m.status = "pending" /\ m.workflow = q.workflow
        /\ m.current = q.current
        /\ \A s \in StepIds :
              m.steps[s] = IF s = q.current THEN "escalated" ELSE q.steps[s]
    BY <1>1 DEF Request, StepStatus
  <1>3. Escalate(q) \in {StartStep(m, id, steps), Close(m, "escalated")}
    BY DEF Escalate
  <1> HIDE DEF m, id
  <1>4. /\ StepsOf(m) = steps
        /\ Approved(m) = Approved(q) /\ Left(m) = Left(q)
        /\ {s \in StepIds : m.steps[s] = "escalated"} = Left(q)
    BY <1>1, <1>2 DEF StepsOf, Approved, Left, RequestInv
  <1>5. ASSUME st, UniqueIds(steps)
        PROVE  Orderly(steps) /\ Climbs(steps, Approved(q), Left(q), TRUE)
    BY <1>1, <1>5, ClimbedIs, OrderlySteps DEF Climbing, RequestInv
  <1>6. Climbing(m, st)
    BY <1>1, <1>2, <1>4, ClimbedIs DEF Climbing
  <1>7. CASE Escalate(q) = StartStep(m, id, steps) /\ ~ HasStep(steps, id)
    BY <1>6, <1>7 DEF StartStep
  <1>8. CASE Escalate(q) = StartStep(m, id, steps) /\ HasStep(steps, id)
    <2> DEFINE n == StartStep(m, id, steps)
    <2>1. id \in StepIds
      BY <1>8, StepsTyped DEF RequestInv, HasStep, StepsOf
    <2>2. /\ n.status = "pending" /\ n.workflow = q.workflow
          /\ Approved(n) = Approved(q) \ {id} /\ Left(n) = Left(q) \cup {id}
      BY <1>2, <1>4, <1>8, <2>1, StartSets
    <2> HIDE DEF n
    <2>3. StepsOf(n) = steps
      BY <2>2 DEF StepsOf
    <2>4. ASSUME st, UniqueIds(steps)
          PROVE  Climbs(steps, Approved(n), Left(n), TRUE)
      <3>1. Climbs(steps, Approved(q) \ {id}, Left(q) \cup {id}, TRUE)
        BY <1>5, <1>8, <2>4, ClimbAside
      <3> QED
        BY <2>2, <3>1
    <2>5. Climbing(n, st)
      BY <2>2, <2>3, <2>4, ClimbedIs DEF Climbing
    <2> QED
      BY <1>8, <2>5 DEF n
  <1>9. CASE Escalate(q) = Close(m, "escalated")
    BY <1>2, <1>9 DEF Close, Request, Climbing
  <1> QED
    BY <1>3, <1>7, <1>8, <1>9

\* A submitted request has nothing behind it.
LEMMA SubmitClimbs ==
  ASSUME ApprovalInv, NEW r \in Requests, NEW w \in Workflows,
         NEW attrs \in Attributes, Submit(r, w, attrs)
  PROVE  Climbing(requests'[r], TRUE)
  <1> DEFINE q == NewRequest(w, attrs)
             steps == workflows[w].steps
  <1>1. /\ q \in Request /\ q.status = "pending" /\ q.workflow = w
        /\ q.steps = [s \in StepIds |-> "none"]
    BY DEF NewRequest, Request, StepStatus
  <1>2. PICK i \in DOMAIN steps : requests'[r] = StartStep(q, steps[i].id, steps)
    BY DEF Submit, MatchingStep, Earliest, ApprovalInv, TypeOK
  <1> HIDE DEF q
  <1>3. StepsOf(q) = steps /\ workflows[w] # NoDefinition
    BY <1>1 DEF StepsOf, Submit
  <1>4. steps[i].id \in StepIds /\ HasStep(StepsOf(q), steps[i].id)
    BY <1>2, <1>3, StepsTyped DEF ApprovalInv, HasStep
  <1> DEFINE n == StartStep(q, steps[i].id, steps)
  <1>5. /\ n.status = "pending" /\ n.workflow = w
        /\ Approved(n) = {} /\ Left(n) = {steps[i].id}
    BY <1>1, <1>3, <1>4, StartSets DEF Approved
  <1> HIDE DEF n
  <1>6. StepsOf(n) = StepsOf(q)
    BY <1>1, <1>5 DEF StepsOf
  <1>7. Climbs(StepsOf(n), Approved(n), Left(n), TRUE)
    BY <1>4, <1>5, <1>6 DEF Climbs
  <1> QED
    BY <1>2, <1>5, <1>7, ClimbedIs DEF Climbing, n

\* The inductive invariant of NoLevelSkipped, next to ApprovalInv.
LEMMA ClimbStep == ApprovalInv /\ ClimbInv /\ [Next]_vars => ClimbInv'
  <1> SUFFICES ASSUME ApprovalInv, ClimbInv, [Next]_vars, NEW r \in Requests
               PROVE  Climbing(requests[r], stable[r])'
    BY DEF ClimbInv, Climbing
  <1>1. /\ requests \in [Requests -> Request] /\ stable \in [Requests -> BOOLEAN]
        /\ Climbing(requests[r], stable[r]) /\ TypeOK
    BY DEF ApprovalInv, TypeOK, ClimbInv, Climbing
  <1>2. ASSUME NEW q, NEW st, Climbing(q, st), UNCHANGED workflows
        PROVE  Climbing(q, st)'
    BY <1>2 DEF Climbing, Climbed, StepsOf, Approved, Left, Level
  <1>3. CASE UNCHANGED vars
    BY <1>1, <1>2, <1>3 DEF vars
  <1>4. ASSUME NEW w \in Workflows, NEW d \in Definitions, RegisterWorkflow(w, d)
        PROVE  Climbing(requests[r], stable[r])'
    <2>1. CASE requests[r] = Absent
      BY <1>4, <2>1, AbsentFacts DEF Climbing, RegisterWorkflow
    <2>2. CASE RequestInv(requests[r], stable[r]) /\ stable'[r]
      <3>1. requests' = requests /\ stable[r]
            /\ workflows'[requests[r].workflow] = workflows[requests[r].workflow]
        BY <1>1, <1>4, <2>2 DEF RegisterWorkflow, RequestInv, TypeOK
      <3>2. StepsOf(requests[r])' = StepsOf(requests[r])
        BY <3>1 DEF StepsOf
      <3> QED
        BY <1>1, <3>1, <3>2 DEF Climbing, Climbed, Approved, Left, Level
    <2>3. CASE ~ stable'[r]
      BY <2>3 DEF Climbing
    <2> QED
      BY <2>1, <2>2, <2>3 DEF ApprovalInv
  <1>5. ASSUME NEW k \in Requests, NEW w \in Workflows, NEW a \in Attributes,
               Submit(k, w, a)
        PROVE  Climbing(requests[r], stable[r])'
    <2>1. UNCHANGED workflows
      BY <1>5 DEF Submit
    <2>2. CASE k = r
      <3>1. stable'[r] = TRUE /\ Climbing(requests'[r], TRUE)
        BY <1>1, <1>5, <2>2, SubmitClimbs DEF Submit
      <3> QED
        BY <2>1, <3>1 DEF Climbing, Climbed, StepsOf, Approved, Left, Level
    <2>3. CASE k # r
      BY <1>1, <1>2, <1>5, <2>1, <2>3 DEF Submit
    <2> QED
      BY <2>2, <2>3
  <1>6. ASSUME NEW k \in Requests, NEW p \in People,
               NEW d \in {"approved", "rejected", "escalated"}, ProcessDecision(k, p, d)
        PROVE  Climbing(requests[r], stable[r])'
    <2>1. UNCHANGED <<workflows, stable>> /\ (k # r => requests'[r] = requests[r])
      BY <1>1, <1>6 DEF ProcessDecision
    <2>2. Climbing(requests'[r], stable[r])
      BY <1>1, <1>6, <2>1, DecisionClimbs
    <2> QED
      BY <2>1, <2>2 DEF Climbing, Climbed, StepsOf, Approved, Left, Level
  <1>7. CASE CheckTimeouts
    <2>1. UNCHANGED <<workflows, stable>>
      BY <1>7 DEF CheckTimeouts
    <2>2. Climbing(requests'[r], stable[r])
      <3>1. CASE Due(requests[r])
        <4>1. RequestInv(requests[r], stable[r])
          BY <3>1, AbsentFacts DEF ApprovalInv, Due
        <4> QED
          BY <1>1, <1>7, <3>1, <4>1, EscalateClimbs DEF CheckTimeouts
      <3>2. CASE ~ Due(requests[r])
        BY <1>1, <1>7, <3>2 DEF CheckTimeouts
      <3> QED
        BY <3>1, <3>2
    <2> QED
      BY <2>1, <2>2 DEF Climbing, Climbed, StepsOf, Approved, Left, Level
  <1>8. ASSUME NEW k \in Requests, DeadlinePasses(k)
        PROVE  Climbing(requests[r], stable[r])'
    <2>1. UNCHANGED <<workflows, stable>>
      BY <1>8 DEF DeadlinePasses
    <2>2. /\ requests'[r].status = requests[r].status
          /\ requests'[r].workflow = requests[r].workflow
          /\ requests'[r].current = requests[r].current
          /\ requests'[r].steps = requests[r].steps
      BY <1>1, <1>8 DEF DeadlinePasses, Request
    <2>3. StepsOf(requests'[r]) = StepsOf(requests[r])
      BY <2>2 DEF StepsOf
    <2>4. Climbing(requests'[r], stable[r])
      BY <1>1, <2>2, <2>3 DEF Climbing, Climbed, Approved, Left, Level
    <2> QED
      BY <2>1, <2>4 DEF Climbing, Climbed, StepsOf, Approved, Left, Level
  <1> QED
    BY <1>3, <1>4, <1>5, <1>6, <1>7, <1>8 DEF Next

\* A workflow is climbed without leaving out an order, whatever its steps, as
\* long as it is neither redefined nor escalated.
THEOREM NoLevelIsSkipped == Spec => []NoLevelSkipped
  <1>1. Init => ClimbInv
    BY AbsentFacts DEF Init, ClimbInv
  <1>2. ApprovalInv /\ ClimbInv => NoLevelSkipped
    <2> SUFFICES ASSUME ApprovalInv, ClimbInv, NEW r \in Requests,
                        requests[r].status \in {"pending", "approved"}, stable[r],
                        UniqueIds(StepsOf(requests[r])),
                        \A s \in StepIds : requests[r].steps[s] # "escalated"
                 PROVE  LET q     == requests[r]
                            steps == StepsOf(q)
                        IN
                        /\ q.status = "pending" =>
                              \A s \in Approved(q) : Level(q, s) < Level(q, q.current)
                        /\ \A i \in DOMAIN steps :
                              (/\ \E s \in Approved(q) : Level(q, s) <= steps[i].order
                               /\ q.status = "pending" =>
                                     steps[i].order < Level(q, q.current))
                              => \E s \in Approved(q) : Level(q, s) = steps[i].order
      BY DEF NoLevelSkipped, Approved, Level
    <2> DEFINE q == requests[r]
               steps == StepsOf(q)
    <2>1. q \in Request /\ RequestInv(q, stable[r]) /\ TypeOK
      BY AbsentFacts DEF ApprovalInv, TypeOK
    <2>2. Climbed(q)
      BY DEF ClimbInv
    <2>3. /\ \A i \in DOMAIN steps : steps[i].order \in Int
          /\ \A s : HasStep(steps, s) => Level(q, s) \in Int
      BY <2>1, StepFound, OrderlySteps DEF RequestInv, Level
    <2>4. CASE q.status = "pending"
      <3>1. Left(q) = {q.current}
        BY <2>1, <2>4 DEF Left, RequestInv, Request
      <3>2. HasStep(steps, q.current)
        BY <2>2, <3>1 DEF Climbed
      <3> QED
        BY <2>2, <2>3, <2>4, <3>1, <3>2 DEF Climbed
    <2>5. CASE q.status = "approved"
      <3>1. Left(q) = {}
        BY <2>1, <2>5, ApprovalAssumption DEF Left, RequestInv, Request
      <3> QED
        BY <2>2, <2>3, <2>5, <3>1 DEF Climbed
    <2> QED
      BY <2>4, <2>5
  <1> QED
    BY <1>1, <1>2, ApprovalInvariant, ClimbStep, PTL DEF Spec
=============================================================================
