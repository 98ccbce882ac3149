--------------------------- MODULE MCConfigCenter ---------------------------
(* Small instances of ConfigCenter for TLC. *)
EXTENDS ConfigCenter

\* "flags" has its default value, "models" is created by a client.
MCSeed == [k \in {<<"flags", "x">>} |-> 0]
MCMaxChanges == [k \in Keys |-> IF k \in DOMAIN Seed THEN 2 ELSE 4]
=============================================================================
