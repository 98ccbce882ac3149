----------------------------- MODULE MCModelHub -----------------------------
(* A small instance of ModelHub for TLC. *)
EXTENDS ModelHub

CONSTANTS s1, s2, e1

\* A named conversation with a fallback, another whose own model comes before
\* the table's, and a request without a session or an employee.
MCRequests ==
    {[task |-> "code", model |-> NoModel, session |-> s1, employee |-> e1],
     [task |-> "planning", model |-> <<"anthropic", "claude-opus-4-5-5">>, session |-> s2, employee |-> e1],
     [task |-> "fast", model |-> NoModel, session |-> NoSession, employee |-> Unknown]}

MCKnownModels == {MiniMax, Claude("claude-opus-4-5-5"), Claude("claude-sonnet-4-5")}
MCOffers == {[provider |-> "anthropic", models |-> {<<"claude-opus-4-5-5">>}]}
=============================================================================
