----------------------------- MODULE RpcClient ------------------------------
(***************************************************************************)
(* RpcClientImpl::call_RPC (Client/RpcClientImpl.cpp) over TcpConnSync     *)
(* (Client/TcpConnSync.cpp): threads that share a client call one at a     *)
(* time; the call timer runs in the thread of IoService; the network and   *)
(* the server, which are external, may delay, refuse, break off or answer  *)
(* with something else.                                                    *)
(*                                                                         *)
(* A request is the number of its call.  A reply arrives in two pieces,    *)
(* its header and its body.  Each call makes at most one connection, which *)
(* has the number of the call.                                             *)
(***************************************************************************)
EXTENDS Integers, Sequences, FiniteSets

CONSTANTS
    Callers,        \* the threads
    MaxCalls        \* bound: the calls they make together

Calls == 1 .. MaxCalls
NoCall == 0

NoCaller == "nobody"

ASSUME RpcClientAssumption ==
    /\ IsFiniteSet(Callers) /\ NoCaller \notin Callers
    /\ MaxCalls \in Nat

VARIABLES
    at, call,       \* per caller: where it is, its call
    call_mutex_,    \* who holds it
    conn_,          \* the number of the connection, 0 if null
    conn_stat_,     \* of every connection: "none", "working", "closed"
    peer,           \* is the server's end of it open
    up, down,       \* what is under way to the server and from it
    header,         \* recv_bound_.header_ has been read
    rpc_call_timer_,    \* "none", "waiting", "expired": its callback is due
    callback,       \* where rpc_call_timeout is
    was_timeout_,
    timed,          \* does the call have a timeout_sec
    status,         \* what each call returned
    reply,          \* the call whose reply it returned
    executed        \* how often the server has executed it

callerVars == <<at, call, call_mutex_, timed, status, reply>>
connVars   == <<conn_, conn_stat_, peer>>
netVars    == <<up, down, header>>
timerVars  == <<rpc_call_timer_, callback, was_timeout_>>
vars == <<callerVars, connVars, netVars, timerVars, executed>>

Pending == "pending"        \* the status of a call that has not returned

Init ==
    /\ at = [t \in Callers |-> "idle"]
    /\ call = [t \in Callers |-> NoCall]
    /\ call_mutex_ = NoCaller
    /\ timed = [k \in Calls |-> FALSE]
    /\ status = [k \in Calls |-> "none"]
    /\ reply = [k \in Calls |-> NoCall]
    /\ conn_ = NoCall
    /\ conn_stat_ = [k \in Calls |-> "none"]
    /\ peer = [k \in Calls |-> FALSE]
    /\ up = [k \in Calls |-> <<>>]
    /\ down = [k \in Calls |-> <<>>]
    /\ header = [k \in Calls |-> FALSE]
    /\ rpc_call_timer_ = "none" /\ callback = "idle" /\ was_timeout_ = FALSE
    /\ executed = [k \in Calls |-> 0]

GoTo(t, place) == at' = [at EXCEPT ![t] = place]

Working(c) == conn_stat_[c] = "working"

(* sock_shutdown_and_close: what has not been read is lost; what was sent  *)
(* may still reach the server.                                             *)
Close(c) ==
    /\ conn_stat_' = [conn_stat_ EXCEPT ![c] = "closed"]
    /\ down' = [down EXCEPT ![c] = <<>>]
    /\ header' = [header EXCEPT ![c] = FALSE]

-----------------------------------------------------------------------------
(* The caller. *)

CanLock == call_mutex_ = NoCaller

(* A call begins when it has got the mutex.                                *)
call_RPC(t, withTimeout) ==
    /\ at[t] = "idle" /\ CanLock
    /\ call_mutex_' = t
    /\ \E k \in Calls :
          /\ status[k] = "none" /\ \A j \in Calls : j < k => status[j] # "none"
          /\ call' = [call EXCEPT ![t] = k]
          /\ status' = [status EXCEPT ![k] = Pending]
          /\ timed' = [timed EXCEPT ![k] = withTimeout]
    /\ GoTo(t, IF conn_ = NoCall THEN "connect" ELSE "timer")
    /\ UNCHANGED <<reply, connVars, netVars, timerVars, executed>>

(* Return s: the lock_guard unlocks.                                       *)
Return(t, s) ==
    /\ status' = [status EXCEPT ![call[t]] = s]
    /\ call' = [call EXCEPT ![t] = NoCall]
    /\ call_mutex_' = NoCaller
    /\ GoTo(t, "idle")

Connect(t) ==
    /\ at[t] = "connect"
    /\ conn_' = call[t]
    /\ conn_stat_' = [conn_stat_ EXCEPT ![call[t]] = "working"]
    /\ peer' = [peer EXCEPT ![call[t]] = TRUE]
    /\ GoTo(t, "timer")
    /\ UNCHANGED <<call, call_mutex_, timed, status, reply, netVars, timerVars, executed>>

ConnectFails(t) ==
    /\ at[t] = "connect"
    /\ Return(t, "NETWORK_ERROR")
    /\ UNCHANGED <<timed, reply, connVars, netVars, timerVars, executed>>

(* Cancelling a wait that has expired does not keep its callback from      *)
(* running.  The callback that is due stands for both in the model.        *)
set_rpc_call_timeout(t) ==
    /\ at[t] = "timer"
    /\ IF timed[call[t]]
         THEN /\ was_timeout_' = FALSE
              /\ rpc_call_timer_' = IF rpc_call_timer_ = "expired" THEN "expired" ELSE "waiting"
         ELSE UNCHANGED <<was_timeout_, rpc_call_timer_>>
    /\ GoTo(t, "send")
    /\ UNCHANGED <<call, call_mutex_, timed, status, reply, connVars, netVars, callback, executed>>

(* Mutant: the connection is kept after an error.                          *)
ResetConn_Not == UNCHANGED <<conn_, conn_stat_, down, header>>

(* conn_.reset(): the socket goes with it.                                 *)
ResetConn ==
    /\ conn_' = NoCall
    /\ Close(conn_)

Fail(t) ==
    /\ ResetConn
    /\ Return(t, IF was_timeout_ THEN "RPC_CALL_TIMEOUT" ELSE "NETWORK_ERROR")
    /\ UNCHANGED <<peer, timed, reply, timerVars, executed>>

(* Mutant: the request is sent once more.                                  *)
send_rpc_message_Again(t) ==
    /\ at[t] = "send" /\ Working(conn_)
    /\ up' = [up EXCEPT ![conn_] = @ \o <<call[t], call[t]>>]
    /\ GoTo(t, "do_read")
    /\ UNCHANGED <<call, call_mutex_, timed, status, reply, connVars, down, header,
                   timerVars, executed>>

send_rpc_message(t) ==
    /\ at[t] = "send" /\ Working(conn_)
    /\ up' = [up EXCEPT ![conn_] = Append(@, call[t])]
    /\ GoTo(t, "do_read")
    /\ UNCHANGED <<call, call_mutex_, timed, status, reply, connVars, down, header,
                   timerVars, executed>>

(* The connection is closed, the message is too long or the write fails;   *)
(* a write that fails may have sent everything.                            *)
SendFails(t) ==
    /\ at[t] = "send"
    /\ \/ UNCHANGED up
       \/ Working(conn_) /\ up' = [up EXCEPT ![conn_] = Append(@, call[t])]
    /\ Fail(t)

(* do_read and parse_header.                                               *)
do_read(t) ==
    /\ at[t] = "do_read" /\ Working(conn_)
    /\ down[conn_] # <<>>
    /\ down' = [down EXCEPT ![conn_] = Tail(@)]
    /\ header' = [header EXCEPT ![conn_] = TRUE]
    /\ GoTo(t, "do_read_msg")
    /\ UNCHANGED <<call, call_mutex_, timed, status, reply, connVars, up, timerVars, executed>>

(* What the checks at the end of call_RPC make of a reply: OK, or          *)
(* RECV_FORMAT_ERROR or the status in its header.                          *)
StatusOf(kind) ==
    IF kind = "good" THEN "OK" ELSE "REPLY_ERROR"

(* do_read_msg, parse_msg_body and the checks of the response: magic,      *)
(* service, opcode and status, but nothing that tells one request of an    *)
(* operation from the next.  The connection is kept, whatever they say.    *)
do_read_msg(t) ==
    /\ at[t] = "do_read_msg" /\ Working(conn_)
    /\ down[conn_] # <<>>
    /\ LET m == Head(down[conn_])
       IN  /\ Return(t, StatusOf(m.kind))
           /\ reply' = [reply EXCEPT ![call[t]] = IF m.kind = "good" THEN m.of ELSE NoCall]
    /\ down' = [down EXCEPT ![conn_] = Tail(@)]
    /\ header' = [header EXCEPT ![conn_] = FALSE]
    /\ UNCHANGED <<timed, connVars, up, timerVars, executed>>

(* A read fails: the timer or the server has closed the connection, or     *)
(* parse_header refuses the header.                                        *)
RecvEnds(c) == ~Working(c) \/ (~peer[c] /\ down[c] = <<>>)

BadHeader(t) == at[t] = "do_read" /\ down[conn_] # <<>> /\ Head(down[conn_]).kind = "header"

RecvFails(t) ==
    /\ at[t] \in {"do_read", "do_read_msg"}
    /\ RecvEnds(conn_) \/ BadHeader(t)
    /\ Fail(t)
    /\ UNCHANGED up

CallerStep(t) ==
    \/ Connect(t) \/ ConnectFails(t) \/ set_rpc_call_timeout(t)
    \/ send_rpc_message(t) \/ SendFails(t) \/ do_read(t) \/ do_read_msg(t) \/ RecvFails(t)

-----------------------------------------------------------------------------
(* The timer, in the thread of IoService. *)

TimerExpires ==
    /\ rpc_call_timer_ = "waiting"
    /\ rpc_call_timer_' = "expired"
    /\ UNCHANGED <<callerVars, connVars, netVars, callback, was_timeout_, executed>>

rpc_call_timeout ==
    /\ rpc_call_timer_ = "expired" /\ callback = "idle"
    /\ was_timeout_' = TRUE
    /\ callback' = "close"
    /\ rpc_call_timer_' = "none"
    /\ UNCHANGED <<callerVars, connVars, netVars, executed>>

(* Mutant: it only leaves its mark.                                        *)
CloseSocket_MarkOnly ==
    /\ callback = "close" /\ callback' = "idle"
    /\ UNCHANGED <<callerVars, connVars, netVars, rpc_call_timer_, was_timeout_, executed>>

(* It closes the connection there is then, whichever call made it; a null  *)
(* conn_ ends the program.                                                 *)
CloseSocket ==
    /\ callback = "close"
    /\ IF conn_ = NoCall
         THEN callback' = "crashed" /\ UNCHANGED <<conn_stat_, down, header>>
         ELSE callback' = "idle" /\ Close(conn_)
    /\ UNCHANGED <<callerVars, conn_, peer, up, rpc_call_timer_, was_timeout_, executed>>

-----------------------------------------------------------------------------
(* The server: it executes a request it has received, then replies, or     *)
(* does not, or closes the connection.                                     *)
Execute(c) ==
    /\ peer[c] /\ up[c] # <<>>
    /\ up' = [up EXCEPT ![c] = Tail(@)]
    /\ executed' = [executed EXCEPT ![Head(up[c])] = @ + 1]
    /\ \/ \E kind \in {"good", "bad"} :
             /\ Working(c)
             /\ down' = [down EXCEPT ![c] = @ \o <<[of |-> Head(up[c]), kind |-> "header"],
                                                   [of |-> Head(up[c]), kind |-> kind]>>]
       \/ UNCHANGED down
    /\ UNCHANGED <<callerVars, connVars, header, timerVars>>

(* Of what it has written a part may arrive; requests it has not read are  *)
(* lost.                                                                   *)
ServerCloses(c) ==
    /\ peer[c] /\ Working(c)
    /\ peer' = [peer EXCEPT ![c] = FALSE]
    /\ up' = [up EXCEPT ![c] = <<>>]
    /\ \E n \in 0 .. Len(down[c]) : down' = [down EXCEPT ![c] = SubSeq(@, 1, n)]
    /\ UNCHANGED <<callerVars, conn_, conn_stat_, header, timerVars, executed>>

Running == callback # "crashed"

Next ==
    \/ \E t \in Callers :
          Running /\ (CallerStep(t) \/ \E withTimeout \in BOOLEAN : call_RPC(t, withTimeout))
    \/ TimerExpires /\ Running
    \/ rpc_call_timeout
    \/ CloseSocket
    \/ \E c \in Calls : Execute(c) \/ ServerCloses(c)

(* Threads run and the timer expires; nobody has to call, and the server   *)
(* need not answer.                                                        *)
Fairness ==
    /\ \A t \in Callers : WF_vars(Running /\ CallerStep(t))
    /\ WF_vars((TimerExpires /\ Running) \/ rpc_call_timeout \/ CloseSocket)

Spec == Init /\ [][Next]_vars /\ Fairness

-----------------------------------------------------------------------------
(* Every variable has its type.                                            *)
TypeOK ==
    /\ at \in [Callers -> {"idle", "connect", "timer", "send", "do_read", "do_read_msg"}]
    /\ call \in [Callers -> Calls \cup {NoCall}]
    /\ call_mutex_ \in Callers \cup {NoCaller}
    /\ conn_ \in Calls \cup {NoCall}
    /\ conn_stat_ \in [Calls -> {"none", "working", "closed"}]
    /\ peer \in [Calls -> BOOLEAN] /\ header \in [Calls -> BOOLEAN]
    /\ rpc_call_timer_ \in {"none", "waiting", "expired"}
    /\ callback \in {"idle", "close", "crashed"} /\ was_timeout_ \in BOOLEAN
    /\ timed \in [Calls -> BOOLEAN]
    /\ executed \in [Calls -> Nat]
    /\ \A t \in Callers : at[t] # "idle" => call_mutex_ = t
    /\ \A t \in Callers : at[t] \in {"timer", "send", "do_read", "do_read_msg"} => conn_ # NoCall

(* Nothing of an earlier call is under way on the connection that the next *)
(* call uses: every path that leaves a request or a reply behind drops the *)
(* connection (call_RPC, "确保不会客户端多线程调用，导致底层的连接串话").  *)
NoCrossTalk ==
    conn_ # NoCall =>
        /\ \A i \in DOMAIN up[conn_] : status[up[conn_][i]] = Pending
        /\ \A i \in DOMAIN down[conn_] : status[down[conn_][i].of] = Pending
        /\ header[conn_] => \E t \in Callers : at[t] = "do_read_msg"

(* "带客户端超时支持" (RpcClient.h): a call with a timeout, once it has    *)
(* the mutex, returns, whether or not the server ever answers - unless the *)
(* callback of its timer finds conn_ reset and follows the null pointer    *)
(* (RpcClientImpl.cpp:75), which ends the program.                         *)
TimedCallReturns ==
    \A t \in Callers :
        (at[t] # "idle" /\ call_mutex_ = t /\ timed[call[t]])
            ~> (call_mutex_ # t \/ ~Running)

(* What a caller knows of each call.                                       *)
Outcome ==
    [k \in Calls |-> CASE status[k] = "none"  -> "none"
                      [] status[k] = Pending -> "called"
                      [] status[k] = "OK"    -> "ok"
                      [] OTHER               -> "failed"]

Promise == INSTANCE RpcCall WITH outcome <- Outcome

(* call_RPC implements RpcCall: its request is executed at most once, OK   *)
(* comes with its own reply, and the outcome is final.                     *)
PromiseKept == Promise!Spec
=============================================================================
