--------------------------- MODULE MCKnowledgeHub ---------------------------
(* A small instance of KnowledgeHub for TLC. *)
EXTENDS KnowledgeHub, TLC

\* Texts without a term, with one, with the other, or with both.
MCTexts == {[t \in Terms |-> IF t = "a" THEN p[1] ELSE p[2]] :
               p \in {<<0, 0>>, <<1, 0>>, <<0, 1>>, <<2, 1>>, <<1, 2>>}}

Symmetry == Permutations(Ids)
=============================================================================
