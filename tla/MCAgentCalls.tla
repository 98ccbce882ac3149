---------------------------- MODULE MCAgentCalls ----------------------------
(* A small instance of AgentCalls for TLC: more callers than threads. *)
EXTENDS AgentCalls
=============================================================================
