---------------------------- MODULE MCApproval ----------------------------
(* Small instances of Approval for TLC. *)
EXTENDS Approval, TLC

CONSTANTS r1, r2, p1, p2

\* Deciders and requests are interchangeable.
Symmetry == Permutations({p1, p2}) \cup Permutations({r1, r2})

Cond(op, v) == [field |-> "amount", op |-> op, value |-> {v}]

Plain(id, node, approvers, order) ==
    [id |-> id, node |-> node, approvers |-> approvers, timeout |-> FALSE,
     escalates |-> FALSE, conditions |-> {}, order |-> order]

\* A first level that escalates to a step nobody defined, for large amounts only,
\* and a second one where two people sign; c, of the same order, is never reached.
TwoLevels ==
    [enabled |-> TRUE,
     steps |-> <<[Plain("a", "single", <<"lead">>, 1) EXCEPT
                     !.timeout = TRUE, !.escalates = TRUE],
                 [Plain("b", "and", <<"lead", "manager">>, 2) EXCEPT
                     !.timeout = TRUE, !.conditions = {Cond("gte", 2)}],
                 Plain("c", "single", <<"lead">>, 2)>>]

\* Four orders, the list not sorted by them; step a escalates to a step that
\* comes before it, after which the workflow comes back to a.
Shuffled ==
    [enabled |-> TRUE,
     steps |-> <<[Plain("a", "single", <<"lead">>, 1) EXCEPT
                     !.timeout = TRUE, !.escalates = TRUE],
                 Plain("c", "or", <<"lead", "manager">>, 3),
                 Plain("b", "single", <<"lead">>, 2),
                 Plain("a-escalated", "single", <<"manager">>, 0)>>]

Disabled == [enabled |-> FALSE, steps |-> <<>>]

MCEscalatedId == [s \in StepIds |-> IF s = "a" THEN "a-escalated" ELSE NoStep]

MCDefinitions == {TwoLevels, Shuffled, Disabled}
MCBuiltin     == [w \in Workflows |-> TwoLevels]
=============================================================================
