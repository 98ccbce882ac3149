---------------------------- MODULE MCExecutions ----------------------------
(* A small instance of Executions for TLC. *)
EXTENDS Executions

MCBaseline   == [tokens |-> 10, tasks |-> 3, ok |-> 2]
MCSeedDetail == <<[day |-> 0, ok |-> 2, failed |-> 1]>>
=============================================================================
