-------------------------- MODULE MCHeraclesClient --------------------------
(* Instances of HeraclesClient for TLC. *)
EXTENDS HeraclesClient

CONSTANTS a1, a2

MCConf == [enabled |-> TRUE, limit |-> 1, size |-> 2]
=============================================================================
