----------------------------- MODULE MCRuntime -----------------------------
(* Small instances of Runtime for TLC. *)
EXTENDS Runtime

CONSTANTS t1, t2, j1, j2, e1, e2, e3
=============================================================================
