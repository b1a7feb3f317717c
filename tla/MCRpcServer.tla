---------------------------- MODULE MCRpcServer -----------------------------
(* Instances of RpcServer for TLC. *)
EXTENDS RpcServer

(* An empty body, one that fits a block with its header, one that does not. *)
MCBodyLength ==
    [k \in Kinds |-> CASE k \in {"badheader", "invalid"} -> 0
                       [] k \in {"noservice", "noop", "read"} -> 1
                       [] k = "write" -> 4]
=============================================================================
