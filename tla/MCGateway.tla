----------------------------- MODULE MCGateway -----------------------------
(* A small instance of Gateway, and of the TaskLifecycle in it, for TLC. *)
EXTENDS Gateway

CONSTANTS t1, t2, j1, j2, j3
=============================================================================
