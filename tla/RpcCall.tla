------------------------------ MODULE RpcCall -------------------------------
(***************************************************************************)
(* What a caller of RpcClient::call_RPC is promised, however the network,  *)
(* the server and the timer behave: a request is executed at most once, a  *)
(* call that returns OK was executed and returns its own reply, and the    *)
(* outcome of a call does not change.  A call that fails may have been     *)
(* executed, or may still be.                                              *)
(***************************************************************************)
EXTENDS Naturals

CONSTANT Calls

NoReply == 0

VARIABLES
    outcome,        \* per call: "none", "called", "ok", "failed"
    reply,          \* the call whose reply it returned
    executed        \* the calls the server has executed, with their count

vars == <<outcome, reply, executed>>

Init ==
    /\ outcome = [k \in Calls |-> "none"]
    /\ reply = [k \in Calls |-> NoReply]
    /\ executed = [k \in Calls |-> 0]

Call(k) ==
    /\ outcome[k] = "none"
    /\ outcome' = [outcome EXCEPT ![k] = "called"]
    /\ UNCHANGED <<reply, executed>>

Execute(k) ==
    /\ outcome[k] # "none" /\ executed[k] = 0
    /\ executed' = [executed EXCEPT ![k] = 1]
    /\ UNCHANGED <<outcome, reply>>

ReturnOk(k) ==
    /\ outcome[k] = "called" /\ executed[k] = 1
    /\ outcome' = [outcome EXCEPT ![k] = "ok"]
    /\ reply' = [reply EXCEPT ![k] = k]
    /\ UNCHANGED executed

ReturnError(k) ==
    /\ outcome[k] = "called"
    /\ outcome' = [outcome EXCEPT ![k] = "failed"]
    /\ UNCHANGED <<reply, executed>>

Next == \E k \in Calls : Call(k) \/ Execute(k) \/ ReturnOk(k) \/ ReturnError(k)

Spec == Init /\ [][Next]_vars
=============================================================================
