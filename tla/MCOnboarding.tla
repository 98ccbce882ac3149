---------------------------- MODULE MCOnboarding ----------------------------
(* A small instance of Onboarding for TLC. *)
EXTENDS Onboarding, TLC

Symmetry == Permutations(Threads)

\* In the shape of a seeded blueprint: one version published, one in test.
MCSeedVersions ==
    << [traffic |-> 100, status |-> "published", replicas |-> 3],
       [traffic |-> 0, status |-> "testing", replicas |-> 1] >>

MCPuts == {[f \in {"user"} |-> "x"], [f \in Fields |-> IF f = "soul" THEN "x" ELSE Empty]}
=============================================================================
