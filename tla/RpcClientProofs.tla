-------------------------- MODULE RpcClientProofs --------------------------
(* Theorems about RpcClient, for every value of its constants. *)
EXTENDS RpcClient, SequenceTheorems, TLAPS

Message == [of : Calls, kind : {"header", "good", "bad"}]

(* The types that TypeOK leaves to the invariants below.                   *)
WireType ==
    /\ up \in [Calls -> Seq(Calls)] /\ down \in [Calls -> Seq(Message)]
    /\ status \in [Calls -> {"none", Pending, "OK", "REPLY_ERROR", "NETWORK_ERROR",
                             "RPC_CALL_TIMEOUT"}]
    /\ reply \in [Calls -> Calls \cup {NoCall}]

(* One call at a time: the caller that has the mutex makes the only call   *)
(* that is pending.                                                        *)
OneCall ==
    /\ \A t \in Callers : at[t] # "idle" <=> call_mutex_ = t
    /\ \A t \in Callers : at[t] # "idle" => call[t] \in Calls /\ status[call[t]] = Pending
    /\ \A k \in Calls : status[k] \in {"none", Pending} => reply[k] = NoCall

Unsent(t) == at[t] \in {"connect", "timer", "send"}

(* A connection bears the number of the call that made it.                 *)
FreshConn ==
    /\ conn_ # NoCall => conn_stat_[conn_] # "none"
    /\ \A k \in Calls : status[k] = "none" => conn_stat_[k] = "none"
    /\ \A t \in Callers : at[t] = "connect" => conn_ = NoCall /\ conn_stat_[call[t]] = "none"
    /\ \A k \in Calls : conn_stat_[k] = "none" =>
          up[k] = <<>> /\ down[k] = <<>> /\ ~header[k]

(* A request is under way once at most, and has not been executed then.    *)
SentOnce ==
    /\ \A c \in Calls : Len(up[c]) <= 1
    /\ \A c \in Calls : up[c] # <<>> =>
          /\ executed[Head(up[c])] = 0
          /\ status[Head(up[c])] # "none"
          /\ \A t \in Callers : Unsent(t) => call[t] # Head(up[c])
    /\ \A c, d \in Calls :
          up[c] # <<>> /\ up[d] # <<>> /\ Head(up[c]) = Head(up[d]) => c = d

ExecutedOnce ==
    /\ \A k \in Calls : executed[k] \in {0, 1}
    /\ \A k \in Calls : status[k] = "none" => executed[k] = 0
    /\ \A t \in Callers : Unsent(t) => executed[call[t]] = 0

(* What is under way on the connection belongs to the pending call: its    *)
(* request, or what is left of the reply to it, and never both.            *)
Quiet == up[conn_] = <<>> /\ down[conn_] = <<>> /\ ~header[conn_]

Conversation ==
    conn_ # NoCall =>
      /\ (\A t \in Callers : at[t] \in {"idle", "timer", "send"}) => Quiet
      /\ \A t \in Callers : at[t] \in {"do_read", "do_read_msg"} =>
            /\ up[conn_] # <<>> =>
                  at[t] = "do_read" /\ Head(up[conn_]) = call[t] /\ down[conn_] = <<>>
            /\ \A i \in DOMAIN down[conn_] :
                  down[conn_][i].of = call[t] /\ executed[call[t]] = 1
            /\ Len(down[conn_]) <= IF at[t] = "do_read" THEN 2 ELSE 1
            /\ header[conn_] => at[t] = "do_read_msg"

ClientInv == TypeOK /\ WireType /\ OneCall /\ FreshConn /\ SentOnce /\ ExecutedOnce /\ Conversation

-----------------------------------------------------------------------------
LEMMA InitClient == Init => ClientInv
<1> SUFFICES ASSUME Init PROVE ClientInv
  OBVIOUS
<1>1. TypeOK
  BY RpcClientAssumption DEF Init, TypeOK, NoCall, NoCaller
<1>a. WireType
  <2>1. <<>> \in Seq(Calls) /\ <<>> \in Seq(Message)
    OBVIOUS
  <2> QED BY <2>1 DEF Init, WireType, NoCall
<1>2. OneCall /\ FreshConn /\ SentOnce /\ ExecutedOnce /\ Conversation
  BY RpcClientAssumption DEF Init, OneCall, FreshConn, SentOnce, ExecutedOnce, Conversation,
     Unsent, NoCall, NoCaller, Pending
<1> QED BY <1>1, <1>a, <1>2 DEF ClientInv

(* Only one caller is inside call_RPC.                                     *)
LEMMA Alone ==
    ASSUME ClientInv, NEW t \in Callers, at[t] # "idle"
    PROVE  /\ call_mutex_ = t /\ call[t] \in Calls /\ status[call[t]] = Pending
           /\ \A u \in Callers : u # t => at[u] = "idle"
  BY DEF ClientInv, OneCall

(* The end of a call that drops the connection: whatever was under way on  *)
(* it, no later call will use it.                                          *)
LEMMA FailKeeps ==
    ASSUME ClientInv, NEW t \in Callers,
           at[t] \in {"send", "do_read", "do_read_msg"}, Fail(t),
           \/ UNCHANGED up
           \/ at[t] = "send" /\ Working(conn_) /\ up' = [up EXCEPT ![conn_] = Append(@, call[t])]
    PROVE  ClientInv'
<1> USE DEF ClientInv
<1> DEFINE k == call[t]
<1>1. /\ conn_ \in Calls /\ k \in Calls /\ status[k] = Pending /\ call_mutex_ = t
      /\ \A u \in Callers : u # t => at[u] = "idle"
      /\ NoCaller \notin Callers /\ NoCall \notin Calls
  BY Alone, RpcClientAssumption DEF TypeOK, Calls, NoCall
<1>2. /\ conn_' = NoCall
      /\ conn_stat_' = [conn_stat_ EXCEPT ![conn_] = "closed"]
      /\ down' = [down EXCEPT ![conn_] = <<>>]
      /\ header' = [header EXCEPT ![conn_] = FALSE]
      /\ status' \in {[status EXCEPT ![k] = "RPC_CALL_TIMEOUT"],
                      [status EXCEPT ![k] = "NETWORK_ERROR"]}
      /\ call' = [call EXCEPT ![t] = NoCall]
      /\ call_mutex_' = NoCaller
      /\ at' = [at EXCEPT ![t] = "idle"]
      /\ UNCHANGED <<peer, timed, reply, rpc_call_timer_, callback, was_timeout_, executed>>
  BY DEF Fail, ResetConn, Close, Return, GoTo, timerVars
<1>3. TypeOK'
  BY <1>1, <1>2 DEF TypeOK
<1>4. /\ \A c \in Calls : up'[c] = up[c] \/ (at[t] = "send" /\ c = conn_ /\ up'[c] = <<k>>)
      /\ up' \in [Calls -> Seq(Calls)]
  <2>1. CASE UNCHANGED up
    BY <2>1 DEF WireType
  <2>2. CASE at[t] = "send" /\ Working(conn_) /\ up' = [up EXCEPT ![conn_] = Append(@, k)]
    <3>1. \A u \in Callers : at[u] \in {"idle", "timer", "send"}
      BY <1>1, <2>2
    <3>2. up[conn_] = <<>>
      BY <1>1, <3>1 DEF Conversation, Quiet, NoCall
    <3>3. Append(<<>>, k) = <<k>> /\ <<k>> \in Seq(Calls)
      BY <1>1
    <3> QED BY <1>1, <2>2, <3>2, <3>3 DEF WireType
  <2> QED BY <2>1, <2>2
<1>5. WireType'
  <2>1. <<>> \in Seq(Message)
    OBVIOUS
  <2> QED BY <1>1, <1>2, <1>4, <2>1 DEF WireType
<1>6. OneCall'
  BY <1>1, <1>2 DEF OneCall, TypeOK, WireType, Pending
<1>7. FreshConn'
  <2>1. conn_stat_[conn_] # "none"
    BY <1>1 DEF FreshConn
  <2>2. \A j \in Calls : status'[j] = "none" => status[j] = "none"
    BY <1>1, <1>2 DEF WireType, Pending
  <2>3. \A j \in Calls : conn_stat_'[j] = "none" <=> conn_stat_[j] = "none"
    BY <1>1, <1>2, <2>1 DEF TypeOK
  <2>4. \A j \in Calls : conn_stat_[j] = "none" =>
           up'[j] = up[j] /\ down'[j] = down[j] /\ header'[j] = header[j]
    BY <1>1, <1>2, <1>4, <2>1 DEF TypeOK, WireType
  <2>5. \A u \in Callers : at'[u] # "connect"
    BY <1>1, <1>2 DEF TypeOK
  <2>6. \A j \in Calls : status'[j] = "none" => conn_stat_'[j] = "none"
    BY <2>2, <2>3 DEF FreshConn
  <2>7. \A j \in Calls : conn_stat_'[j] = "none" =>
          up'[j] = <<>> /\ down'[j] = <<>> /\ ~header'[j]
    BY <2>3, <2>4 DEF FreshConn
  <2> QED BY <1>2, <2>5, <2>6, <2>7 DEF FreshConn
<1>8. ExecutedOnce' /\ \A u \in Callers : ~Unsent(u)'
  BY <1>1, <1>2 DEF ExecutedOnce, TypeOK, WireType, Unsent, Pending
<1>9. SentOnce'
  <2>1. at[t] = "send" => executed[k] = 0 /\ \A c \in Calls : up[c] # <<>> => Head(up[c]) # k
    BY <1>1 DEF ExecutedOnce, SentOnce, Unsent
  <2>2. Len(<<k>>) = 1 /\ Head(<<k>>) = k
    OBVIOUS
  <2>3. \A c \in Calls : Len(up'[c]) <= 1
    BY <1>4, <2>2 DEF SentOnce
  <2>4. \A c \in Calls : up'[c] # <<>> => executed'[Head(up'[c])] = 0
    BY <1>2, <1>4, <2>1, <2>2 DEF SentOnce
  <2>5. \A c \in Calls : up'[c] # <<>> => status'[Head(up'[c])] # "none"
    <3> SUFFICES ASSUME NEW c \in Calls, up'[c] # <<>> PROVE status'[Head(up'[c])] # "none"
      OBVIOUS
    <3>1. CASE up'[c] = up[c]
      <4>1. Head(up[c]) \in Calls /\ status[Head(up[c])] # "none"
        BY <3>1 DEF SentOnce, WireType
      <4> QED BY <1>1, <1>2, <3>1, <4>1 DEF WireType
    <3>2. CASE up'[c] = <<k>>
      BY <1>1, <1>2, <2>2, <3>2 DEF WireType
    <3> QED BY <1>4, <3>1, <3>2
  <2>6. \A c, d \in Calls :
           up'[c] # <<>> /\ up'[d] # <<>> /\ Head(up'[c]) = Head(up'[d]) => c = d
    BY <1>4, <2>1, <2>2 DEF SentOnce
  <2> QED BY <1>8, <2>3, <2>4, <2>5, <2>6 DEF SentOnce
<1>10. Conversation'
  BY <1>2 DEF Conversation
<1> QED BY <1>3, <1>5, <1>6, <1>7, <1>8, <1>9, <1>10

-----------------------------------------------------------------------------
(* call_RPC takes a call that nobody has made, on a connection that is     *)
(* quiet, or on none.                                                      *)
LEMMA CallKeeps ==
    ASSUME ClientInv, NEW t \in Callers, NEW withTimeout \in BOOLEAN, call_RPC(t, withTimeout)
    PROVE  ClientInv'
<1> USE DEF ClientInv
<1>1. PICK k \in Calls :
         /\ status[k] = "none"
         /\ call' = [call EXCEPT ![t] = k]
         /\ status' = [status EXCEPT ![k] = Pending]
         /\ timed' = [timed EXCEPT ![k] = withTimeout]
  BY DEF call_RPC
<1>2. /\ call_mutex_ = NoCaller /\ call_mutex_' = t
      /\ at' = [at EXCEPT ![t] = IF conn_ = NoCall THEN "connect" ELSE "timer"]
      /\ UNCHANGED <<reply, conn_, conn_stat_, peer, up, down, header,
                     rpc_call_timer_, callback, was_timeout_, executed>>
  BY DEF call_RPC, CanLock, GoTo, connVars, netVars, timerVars
<1>3. \A u \in Callers : at[u] = "idle" /\ (u # t => at'[u] = "idle" /\ call'[u] = call[u])
  BY <1>1, <1>2, RpcClientAssumption DEF OneCall, TypeOK
<1>4. at'[t] = (IF conn_ = NoCall THEN "connect" ELSE "timer") /\ call'[t] = k
  BY <1>1, <1>2 DEF TypeOK
<1>5. TypeOK' /\ WireType'
  BY <1>1, <1>2, <1>3 DEF TypeOK, WireType, Pending
<1>6. OneCall'
  BY <1>1, <1>2, <1>3, <1>4, RpcClientAssumption DEF OneCall, WireType, Pending
<1>7. FreshConn'
  BY <1>1, <1>2, <1>3, <1>4 DEF FreshConn, WireType, Pending
<1>8. ExecutedOnce'
  BY <1>1, <1>2, <1>3, <1>4 DEF ExecutedOnce, WireType, Unsent
<1>9. SentOnce'
  <2>1. \A c \in Calls : up[c] # <<>> => Head(up[c]) \in Calls /\ Head(up[c]) # k
    BY <1>1 DEF SentOnce, WireType
  <2>2. \A c \in Calls : up[c] # <<>> => status'[Head(up[c])] # "none"
    BY <1>1, <2>1 DEF SentOnce, WireType
  <2>3. \A u \in Callers : Unsent(u)' => u = t
    BY <1>3 DEF Unsent
  <2> QED BY <1>2, <1>4, <2>1, <2>2, <2>3 DEF SentOnce
<1>10. Conversation'
  BY <1>2, <1>3, <1>4 DEF Conversation, Quiet
<1> QED BY <1>5, <1>6, <1>7, <1>8, <1>9, <1>10

(* A new connection has nothing on it.                                     *)
LEMMA ConnectKeeps ==
    ASSUME ClientInv, NEW t \in Callers, Connect(t)
    PROVE  ClientInv'
<1> USE DEF ClientInv
<1> DEFINE k == call[t]
<1>1. /\ at[t] = "connect" /\ conn_' = k /\ at' = [at EXCEPT ![t] = "timer"]
      /\ conn_stat_' = [conn_stat_ EXCEPT ![k] = "working"]
      /\ peer' = [peer EXCEPT ![k] = TRUE]
      /\ UNCHANGED <<call, call_mutex_, timed, status, reply, up, down, header,
                     rpc_call_timer_, callback, was_timeout_, executed>>
  BY DEF Connect, GoTo, netVars, timerVars
<1>2. /\ k \in Calls /\ k # NoCall /\ status[k] = Pending /\ conn_ = NoCall
      /\ conn_stat_[k] = "none" /\ call_mutex_ = t
      /\ \A u \in Callers : u # t => at[u] = "idle"
      /\ up[k] = <<>> /\ down[k] = <<>> /\ ~header[k]
  BY <1>1, Alone, RpcClientAssumption DEF FreshConn, Calls, NoCall
<1>3. TypeOK' /\ WireType'
  BY <1>1, <1>2 DEF TypeOK, WireType
<1>4. OneCall'
  BY <1>1 DEF OneCall, TypeOK
<1>5. FreshConn'
  BY <1>1, <1>2 DEF FreshConn, TypeOK, Pending
<1>6. SentOnce' /\ ExecutedOnce'
  BY <1>1, <1>2 DEF SentOnce, ExecutedOnce, Unsent, TypeOK
<1>7. Conversation'
  BY <1>1, <1>2 DEF Conversation, Quiet, TypeOK
<1> QED BY <1>3, <1>4, <1>5, <1>6, <1>7

(* The steps of the caller that keep both the connection and the call.     *)
LEMMA TimerKeeps ==
    ASSUME ClientInv, NEW t \in Callers, set_rpc_call_timeout(t)
    PROVE  ClientInv'
<1> USE DEF ClientInv
<1>1. /\ at[t] = "timer" /\ at' = [at EXCEPT ![t] = "send"]
      /\ rpc_call_timer_' \in {"none", "waiting", "expired"} /\ was_timeout_' \in BOOLEAN
      /\ UNCHANGED <<call, call_mutex_, timed, status, reply, conn_, conn_stat_, peer,
                     up, down, header, callback, executed>>
  BY DEF set_rpc_call_timeout, GoTo, connVars, netVars, TypeOK
<1>2. TypeOK' /\ WireType'
  BY <1>1 DEF TypeOK, WireType
<1>3. OneCall' /\ FreshConn'
  BY <1>1 DEF TypeOK, OneCall, FreshConn
<1>4. SentOnce' /\ ExecutedOnce'
  BY <1>1 DEF TypeOK, SentOnce, ExecutedOnce, Unsent
<1>5. Conversation'
  BY <1>1 DEF TypeOK, Conversation, Quiet
<1> QED BY <1>2, <1>3, <1>4, <1>5

LEMMA SendKeeps ==
    ASSUME ClientInv, NEW t \in Callers, send_rpc_message(t)
    PROVE  ClientInv'
<1> USE DEF ClientInv
<1> DEFINE k == call[t]
<1>1. /\ at[t] = "send" /\ at' = [at EXCEPT ![t] = "do_read"]
      /\ up' = [up EXCEPT ![conn_] = Append(@, k)]
      /\ UNCHANGED <<call, call_mutex_, timed, status, reply, conn_, conn_stat_, peer,
                     down, header, rpc_call_timer_, callback, was_timeout_, executed>>
  BY DEF send_rpc_message, GoTo, connVars, timerVars
<1>2. /\ conn_ \in Calls /\ k \in Calls /\ status[k] = Pending /\ call_mutex_ = t
      /\ \A u \in Callers : u # t => at[u] = "idle"
  BY <1>1, Alone DEF TypeOK
<1>3. up[conn_] = <<>> /\ down[conn_] = <<>> /\ ~header[conn_] /\ conn_ # NoCall
  <2>1. conn_ # NoCall /\ \A u \in Callers : at[u] \in {"idle", "timer", "send"}
    BY <1>1, <1>2 DEF TypeOK
  <2> QED BY <2>1 DEF Conversation, Quiet
<1>4. /\ up' = [up EXCEPT ![conn_] = <<k>>] /\ <<k>> \in Seq(Calls)
      /\ Len(<<k>>) = 1 /\ Head(<<k>>) = k /\ <<k>> # <<>>
  <2>1. Append(<<>>, k) = <<k>> /\ <<k>> \in Seq(Calls) /\ Len(<<k>>) = 1 /\ Head(<<k>>) = k
    BY <1>2
  <2> QED BY <1>1, <1>3, <2>1
<1>5. TypeOK' /\ WireType'
  BY <1>1, <1>2, <1>4 DEF TypeOK, WireType
<1>6. OneCall'
  BY <1>1 DEF OneCall, TypeOK
<1>7. FreshConn'
  BY <1>1, <1>2, <1>3, <1>4 DEF FreshConn, TypeOK, WireType
<1>8. ExecutedOnce'
  BY <1>1, <1>2 DEF ExecutedOnce, Unsent, TypeOK
<1>9. SentOnce'
  <2>1. executed[k] = 0 /\ \A c \in Calls : up[c] # <<>> => Head(up[c]) # k
    BY <1>1 DEF ExecutedOnce, SentOnce, Unsent
  <2>2. \A c \in Calls : up'[c] = IF c = conn_ THEN <<k>> ELSE up[c]
    BY <1>2, <1>4 DEF WireType
  <2>3. \A u \in Callers : ~Unsent(u)'
    BY <1>1, <1>2 DEF Unsent, TypeOK
  <2>4. \A c \in Calls : Len(up'[c]) <= 1
    BY <1>4, <2>2 DEF SentOnce
  <2>5. \A c \in Calls : up'[c] # <<>> =>
           executed'[Head(up'[c])] = 0 /\ status'[Head(up'[c])] # "none"
    BY <1>1, <1>2, <1>4, <2>1, <2>2 DEF SentOnce, Pending
  <2>6. \A c, d \in Calls :
           up'[c] # <<>> /\ up'[d] # <<>> /\ Head(up'[c]) = Head(up'[d]) => c = d
    BY <1>4, <2>1, <2>2 DEF SentOnce
  <2> QED BY <2>3, <2>4, <2>5, <2>6 DEF SentOnce
<1>10. Conversation'
  <2>1. up'[conn_] = <<k>> /\ DOMAIN down[conn_] = {} /\ Len(down[conn_]) = 0
    BY <1>2, <1>3, <1>4 DEF WireType
  <2>2. at'[t] = "do_read" /\ call'[t] = k /\ \A u \in Callers : u # t => at'[u] = "idle"
    BY <1>1, <1>2 DEF TypeOK
  <2> QED BY <1>1, <1>3, <1>4, <2>1, <2>2 DEF Conversation
<1> QED BY <1>5, <1>6, <1>7, <1>8, <1>9, <1>10

(* The caller takes the next piece from the wire: the header, and then the *)
(* body, which is the last there is.                                       *)
LEMMA ReadKeeps ==
    ASSUME ClientInv, NEW t \in Callers, do_read(t) \/ do_read_msg(t)
    PROVE  /\ ClientInv'
           /\ do_read_msg(t) => Head(down[conn_]).of = call[t] /\ executed[call[t]] = 1
<1> USE DEF ClientInv
<1> DEFINE k == call[t]
<1>1. /\ at[t] \in {"do_read", "do_read_msg"} /\ down[conn_] # <<>>
      /\ down' = [down EXCEPT ![conn_] = Tail(@)]
      /\ UNCHANGED <<timed, conn_, conn_stat_, peer, up, rpc_call_timer_, callback,
                     was_timeout_, executed>>
  BY DEF do_read, do_read_msg, connVars, timerVars
<1>2. /\ conn_ \in Calls /\ k \in Calls /\ status[k] = Pending /\ call_mutex_ = t
      /\ \A u \in Callers : u # t => at[u] = "idle"
      /\ NoCaller \notin Callers /\ NoCall \notin Calls /\ down[conn_] \in Seq(Message)
  <2>1. NoCaller \notin Callers /\ NoCall \notin Calls
    BY RpcClientAssumption DEF Calls, NoCall
  <2>2. conn_ \in Calls
    BY <1>1 DEF TypeOK
  <2> QED BY <1>1, <2>1, <2>2, Alone DEF WireType
<1>3. /\ Tail(down[conn_]) \in Seq(Message) /\ Len(Tail(down[conn_])) = Len(down[conn_]) - 1
      /\ \A i \in 1 .. Len(Tail(down[conn_])) : Tail(down[conn_])[i] = down[conn_][i + 1]
      /\ DOMAIN Tail(down[conn_]) = 1 .. Len(Tail(down[conn_]))
      /\ DOMAIN down[conn_] = 1 .. Len(down[conn_]) /\ Len(down[conn_]) \in Nat \ {0}
      /\ Head(down[conn_]) = down[conn_][1] /\ Head(down[conn_]) \in Message
  BY <1>1, <1>2
<1>4. up[conn_] = <<>>
  BY <1>1, <1>2 DEF Conversation
<1>5. /\ \A i \in DOMAIN down[conn_] : down[conn_][i].of = k
      /\ executed[k] = 1
      /\ Len(down[conn_]) <= IF at[t] = "do_read" THEN 2 ELSE 1
  BY <1>1, <1>2, <1>3 DEF Conversation
<1>6. FreshConn /\ conn_stat_[conn_] # "none"
  BY <1>2 DEF FreshConn
<1>7. CASE do_read(t)
  <2>1. /\ at[t] = "do_read" /\ at' = [at EXCEPT ![t] = "do_read_msg"]
        /\ header' = [header EXCEPT ![conn_] = TRUE]
        /\ UNCHANGED <<call, call_mutex_, status, reply>>
    BY <1>7 DEF do_read, GoTo
  <2>2. TypeOK' /\ WireType'
    BY <1>1, <1>2, <1>3, <2>1 DEF TypeOK, WireType
  <2>3. OneCall' /\ FreshConn'
    BY <1>1, <1>2, <1>6, <2>1 DEF OneCall, FreshConn, TypeOK, WireType
  <2>4. ExecutedOnce' /\ SentOnce'
    BY <1>1, <1>2, <2>1 DEF ExecutedOnce, SentOnce, Unsent, TypeOK
  <2>5. Conversation'
    <3>1. down'[conn_] = Tail(down[conn_])
      BY <1>1, <1>2 DEF WireType
    <3>2. at'[t] = "do_read_msg" /\ \A u \in Callers : u # t => at'[u] = "idle"
      BY <1>2, <2>1 DEF TypeOK
    <3>3. \A i \in DOMAIN Tail(down[conn_]) : Tail(down[conn_])[i].of = k
      BY <1>3, <1>5
    <3>4. Len(Tail(down[conn_])) <= 1
      BY <1>3, <1>5, <2>1
    <3>5. /\ conn_' = conn_ /\ up'[conn_] = <<>> /\ call'[t] = k /\ executed'[k] = 1
          /\ ~(\A u \in Callers : at'[u] \in {"idle", "timer", "send"})
      BY <1>1, <1>4, <1>5, <2>1, <3>2
    <3>6. /\ \A i \in DOMAIN down'[conn_'] : down'[conn_'][i].of = call'[t] /\ executed'[call'[t]] = 1
          /\ Len(down'[conn_']) <= 1 /\ up'[conn_'] = <<>>
      BY <3>1, <3>3, <3>4, <3>5
    <3> QED BY <3>2, <3>5, <3>6 DEF Conversation
  <2>6. ~do_read_msg(t)
    BY <2>1 DEF do_read_msg
  <2> QED BY <2>2, <2>3, <2>4, <2>5, <2>6
<1>8. CASE do_read_msg(t)
  <2> DEFINE m == Head(down[conn_])
  <2>1. /\ at[t] = "do_read_msg" /\ at' = [at EXCEPT ![t] = "idle"]
        /\ status' = [status EXCEPT ![k] = StatusOf(m.kind)]
        /\ call' = [call EXCEPT ![t] = NoCall]
        /\ call_mutex_' = NoCaller
        /\ reply' = [reply EXCEPT ![k] = IF m.kind = "good" THEN m.of ELSE NoCall]
        /\ header' = [header EXCEPT ![conn_] = FALSE]
    BY <1>8 DEF do_read_msg, Return, GoTo
  <2>2. m.of = k /\ StatusOf(m.kind) \in {"OK", "REPLY_ERROR"}
    BY <1>3, <1>5 DEF StatusOf
  <2>3. TypeOK'
    BY <1>1, <1>2, <1>3, <2>1, <2>2 DEF TypeOK
  <2>4. WireType'
    BY <1>1, <1>2, <1>3, <2>1, <2>2 DEF WireType
  <2>5. OneCall'
    BY <1>2, <2>1, <2>2 DEF OneCall, TypeOK, WireType, Pending
  <2>6. FreshConn'
    <3>1. \A j \in Calls : status'[j] = "none" => status[j] = "none"
      BY <1>2, <2>1, <2>2 DEF WireType
    <3>2. \A u \in Callers : at'[u] # "connect"
      BY <1>2, <2>1 DEF TypeOK
    <3>3. \A j \in Calls : conn_stat_[j] = "none" => down'[j] = down[j] /\ header'[j] = header[j]
      BY <1>1, <1>2, <1>6, <2>1 DEF TypeOK, WireType
    <3> QED BY <1>1, <1>6, <3>1, <3>2, <3>3 DEF FreshConn
  <2>7. ExecutedOnce' /\ \A u \in Callers : ~Unsent(u)'
    BY <1>1, <1>2, <2>1, <2>2 DEF ExecutedOnce, Unsent, TypeOK, WireType
  <2>8. SentOnce'
    <3>1. \A j \in Calls : status[j] # "none" => status'[j] # "none"
      BY <1>2, <2>1, <2>2 DEF WireType
    <3>2. \A c \in Calls : up[c] # <<>> => Head(up[c]) \in Calls
      BY DEF WireType
    <3> QED BY <1>1, <2>7, <3>1, <3>2 DEF SentOnce
  <2>9. Conversation'
    <3>1. Tail(down[conn_]) = <<>>
      BY <1>3, <1>5, <2>1
    <3>2. down'[conn_] = <<>> /\ ~header'[conn_]
      BY <1>1, <1>2, <2>1, <3>1 DEF TypeOK, WireType
    <3>3. \A u \in Callers : at'[u] = "idle"
      BY <1>2, <2>1 DEF TypeOK
    <3> QED BY <1>1, <1>4, <3>2, <3>3 DEF Conversation, Quiet
  <2> QED BY <1>5, <2>2, <2>3, <2>4, <2>5, <2>6, <2>7, <2>8, <2>9
<1> QED BY <1>7, <1>8

(* The server executes the one request it finds, or breaks off.            *)
LEMMA ServerKeeps ==
    ASSUME ClientInv, NEW c \in Calls, Execute(c) \/ ServerCloses(c)
    PROVE  ClientInv'
<1> USE DEF ClientInv
<1>0. up[c] \in Seq(Calls) /\ down[c] \in Seq(Message) /\ Len(up[c]) <= 1 /\ conn_stat_ \in [Calls -> {"none", "working", "closed"}]
  BY DEF WireType, SentOnce, TypeOK
<1>1. CASE Execute(c)
  <2> DEFINE k == Head(up[c])
  <2>1. /\ up[c] # <<>> /\ up' = [up EXCEPT ![c] = Tail(@)]
        /\ executed' = [executed EXCEPT ![k] = @ + 1]
        /\ UNCHANGED <<at, call, call_mutex_, timed, status, reply, conn_, conn_stat_, peer,
                       header, rpc_call_timer_, callback, was_timeout_>>
    BY <1>1 DEF Execute, callerVars, connVars, timerVars
  <2>2. k \in Calls /\ Tail(up[c]) = <<>> /\ executed[k] = 0 /\ status[k] # "none"
        /\ \A u \in Callers : Unsent(u) => call[u] # k
    BY <1>0, <2>1 DEF SentOnce
  <2>3. PICK new \in Seq(Message) :
           /\ Len(new) = 2 /\ \A i \in 1 .. 2 : new[i].of = k
           /\ UNCHANGED down \/ down' = [down EXCEPT ![c] = down[c] \o new]
    <3>1. PICK kind \in {"good", "bad"} :
             \/ UNCHANGED down
             \/ down' = [down EXCEPT ![c] = down[c] \o <<[of |-> k, kind |-> "header"],
                                                         [of |-> k, kind |-> kind]>>]
      BY <1>1 DEF Execute
    <3> DEFINE both == <<[of |-> k, kind |-> "header"], [of |-> k, kind |-> kind]>>
    <3>2. both \in Seq(Message) /\ Len(both) = 2 /\ both[1].of = k /\ both[2].of = k
      BY <2>2 DEF Message
    <3>3. \A i \in 1 .. 2 : i = 1 \/ i = 2
      OBVIOUS
    <3>4. \A i \in 1 .. 2 : both[i].of = k
      BY <3>2, <3>3
    <3> HIDE DEF both
    <3>5. UNCHANGED down \/ down' = [down EXCEPT ![c] = down[c] \o both]
      BY <3>1 DEF both
    <3> QED BY <3>2, <3>4, <3>5
  <2>5. /\ up' = [up EXCEPT ![c] = <<>>]
        /\ executed' \in [Calls -> Nat] /\ executed'[k] = 1
        /\ \A j \in Calls : j # k => executed'[j] = executed[j]
    <3>1. up' = [up EXCEPT ![c] = <<>>]
      BY <2>1, <2>2
    <3>2. executed' \in [Calls -> Nat] /\ executed'[k] = executed[k] + 1
          /\ \A j \in Calls : j # k => executed'[j] = executed[j]
      BY <2>1, <2>2 DEF TypeOK
    <3> QED BY <2>2, <3>1, <3>2
  <2>6. down[c] \o new \in Seq(Message) /\ down' \in [Calls -> Seq(Message)]
        /\ \A d \in Calls : d # c => down'[d] = down[d]
        /\ (down'[c] = down[c] \/ down'[c] = down[c] \o new)
    <3>1. down[c] \o new \in Seq(Message)
      BY <1>0, ConcatProperties
    <3> QED BY <2>3, <3>1 DEF WireType
  <2>7. TypeOK' /\ WireType'
    <3>1. <<>> \in Seq(Calls)
      OBVIOUS
    <3>2. up' \in [Calls -> Seq(Calls)]
      BY <2>5, <3>1 DEF WireType
    <3>3. TypeOK'
      BY <2>1, <2>5 DEF TypeOK
    <3> QED BY <2>1, <2>6, <3>2, <3>3 DEF WireType
  <2>8. OneCall'
    BY <2>1 DEF OneCall
  <2>9. conn_stat_[c] # "none"
    BY <2>1 DEF FreshConn
  <2>10. FreshConn'
    BY <2>1, <2>5, <2>6, <2>9 DEF FreshConn, WireType
  <2>11. ExecutedOnce'
    BY <2>1, <2>2, <2>5 DEF ExecutedOnce, TypeOK, Unsent, OneCall
  <2>12. SentOnce'
    <3>1. \A d \in Calls : up'[d] = IF d = c THEN <<>> ELSE up[d]
      BY <2>5 DEF WireType
    <3>2. \A d \in Calls : d # c /\ up[d] # <<>> => Head(up[d]) # k
      BY <2>1 DEF SentOnce
    <3>3. \A d \in Calls : d # c /\ up[d] # <<>> => executed'[Head(up[d])] = executed[Head(up[d])]
      <4>1. \A d \in Calls : up[d] # <<>> => Head(up[d]) \in Calls
        BY DEF WireType
      <4> QED BY <2>5, <3>2, <4>1
    <3>4. Len(<<>>) = 0
      OBVIOUS
    <3> QED BY <2>1, <3>1, <3>3, <3>4 DEF SentOnce, Unsent
  <2>13. Conversation'
    <3> SUFFICES ASSUME conn_ # NoCall PROVE Conversation'
      BY <2>1 DEF Conversation
    <3>1. CASE c # conn_
      <4>1. conn_ \in Calls /\ up'[conn_] = up[conn_] /\ down'[conn_] = down[conn_]
        BY <2>5, <2>6, <3>1 DEF TypeOK, WireType
      <4>2. \A u \in Callers : at[u] # "idle" /\ executed[call[u]] = 1 => executed'[call[u]] = 1
        BY <2>2, <2>5 DEF OneCall
      <4>3. header'[conn_] = header[conn_] /\ at' = at /\ call' = call /\ conn_' = conn_
        BY <2>1
      <4>4. Quiet => Quiet'
        BY <4>1, <4>3 DEF Quiet
      <4> QED BY <4>1, <4>2, <4>3, <4>4 DEF Conversation
    <3>2. CASE c = conn_
      <4>1. PICK u \in Callers : at[u] \in {"do_read", "do_read_msg"}
        <5>1. ~Quiet
          BY <2>1, <3>2 DEF Quiet
        <5>2. \E u \in Callers : at[u] \notin {"idle", "timer", "send"}
          BY <5>1 DEF Conversation
        <5> QED BY <5>2 DEF TypeOK, FreshConn
      <4>2. at[u] = "do_read" /\ k = call[u] /\ down[conn_] = <<>> /\ ~header[conn_]
            /\ \A v \in Callers : v # u => at[v] = "idle"
        BY <2>1, <3>2, <4>1, Alone DEF Conversation, TypeOK
      <4>3. <<>> \o new = new /\ up'[conn_] = <<>> /\ executed'[k] = 1
        <5>1. <<>> \o new = new
          BY ConcatEmptySeq
        <5> QED BY <2>5, <3>2, <5>1 DEF WireType
      <4>4. down'[c] = <<>> \/ down'[c] = new
        <5>0. down[c] = <<>>
          BY <3>2, <4>2, Zenon
        <5>1. down[c] \o new = new
          BY <4>3, <5>0, Zenon
        <5>2. down'[c] = down[c] \/ down'[c] = down[c] \o new
          BY <2>3 DEF WireType
        <5> QED BY <5>0, <5>1, <5>2, Zenon
      <4>5. /\ \A i \in DOMAIN down'[conn_] : down'[conn_][i].of = k
            /\ Len(down'[conn_]) <= 2
        <5>1. DOMAIN new = 1 .. 2
          BY <2>3
        <5>2. (\A i \in DOMAIN new : new[i].of = k) /\ Len(new) <= 2
          BY <2>3, <5>1
        <5>3. (\A i \in DOMAIN <<>> : <<>>[i].of = k) /\ Len(<<>>) <= 2
          OBVIOUS
        <5>4. CASE down'[c] = <<>>
          BY <3>2, <5>3, <5>4, Zenon
        <5>5. CASE down'[c] = new
          BY <3>2, <5>2, <5>5, Zenon
        <5> QED BY <4>4, <5>4, <5>5
      <4> QED BY <2>1, <4>2, <4>3, <4>5 DEF Conversation
    <3> QED BY <3>1, <3>2
  <2> QED BY <2>7, <2>8, <2>10, <2>11, <2>12, <2>13
<1>2. CASE ServerCloses(c)
  <2>1. PICK n \in 0 .. Len(down[c]) : down' = [down EXCEPT ![c] = SubSeq(@, 1, n)]
    BY <1>2 DEF ServerCloses
  <2>2. /\ peer' = [peer EXCEPT ![c] = FALSE]
        /\ up' = [up EXCEPT ![c] = <<>>] /\ conn_stat_[c] = "working"
        /\ UNCHANGED <<at, call, call_mutex_, timed, status, reply, conn_, conn_stat_,
                       header, rpc_call_timer_, callback, was_timeout_, executed>>
    BY <1>2 DEF ServerCloses, Working, callerVars, timerVars
  <2> DEFINE r == SubSeq(down[c], 1, n)
  <2>3. /\ r \in Seq(Message) /\ Len(r) <= Len(down[c])
        /\ \A i \in DOMAIN r : i \in DOMAIN down[c] /\ r[i] = down[c][i]
        /\ down[c] = <<>> => r = <<>>
    BY <1>0
  <2>4. \A d \in Calls : /\ up'[d] = IF d = c THEN <<>> ELSE up[d]
                         /\ down'[d] = IF d = c THEN r ELSE down[d]
    BY <2>1, <2>2 DEF WireType
  <2>5. <<>> \in Seq(Calls) /\ Len(<<>>) = 0
    OBVIOUS
  <2>6. TypeOK' /\ WireType'
    BY <2>1, <2>2, <2>3, <2>5 DEF TypeOK, WireType
  <2>7. OneCall' /\ FreshConn'
    BY <2>2, <2>4 DEF OneCall, FreshConn
  <2>8. ExecutedOnce' /\ SentOnce'
    BY <2>2, <2>4, <2>5 DEF ExecutedOnce, SentOnce, Unsent
  <2>9. Conversation'
    <3>0. \A d \in Calls : Len(down[d]) \in Nat /\ Len(r) \in Nat
      BY <2>3 DEF WireType
    <3>1. conn_ # NoCall => conn_ \in Calls
      BY DEF TypeOK
    <3>2. conn_ # NoCall => /\ up'[conn_] # <<>> => up'[conn_] = up[conn_]
                            /\ Len(down'[conn_]) <= Len(down[conn_])
                            /\ Len(down'[conn_]) \in Nat /\ Len(down[conn_]) \in Nat
                            /\ down[conn_] = <<>> => down'[conn_] = <<>>
                            /\ \A i \in DOMAIN down'[conn_] :
                                 i \in DOMAIN down[conn_] /\ down'[conn_][i] = down[conn_][i]
      <4>1. CASE conn_ = c
        BY <2>3, <2>4, <3>0, <4>1
      <4>2. CASE conn_ # c
        BY <2>4, <3>0, <3>1, <4>2
      <4> QED BY <4>1, <4>2
    <3> QED BY <2>2, <3>2 DEF Conversation, Quiet
  <2> QED BY <2>6, <2>7, <2>8, <2>9
<1> QED BY <1>1, <1>2

(* Every step keeps the invariant.                                         *)
LEMMA NextClient == ClientInv /\ [Next]_vars => ClientInv'
<1> SUFFICES ASSUME ClientInv, [Next]_vars PROVE ClientInv'
  OBVIOUS
<1> USE DEF ClientInv
<1>1. ASSUME NEW t \in Callers, NEW withTimeout \in BOOLEAN, call_RPC(t, withTimeout)
      PROVE  ClientInv'
  BY <1>1, CallKeeps
<1>2. ASSUME NEW t \in Callers, CallerStep(t)
      PROVE  ClientInv'
  <2>1. CASE Connect(t)
    BY <2>1, ConnectKeeps
  <2>2. CASE ConnectFails(t)
    <3>1. /\ at[t] = "connect" /\ at' = [at EXCEPT ![t] = "idle"]
          /\ status' = [status EXCEPT ![call[t]] = "NETWORK_ERROR"]
          /\ call' = [call EXCEPT ![t] = NoCall] /\ call_mutex_' = NoCaller
          /\ UNCHANGED <<timed, reply, conn_, conn_stat_, peer, up, down, header,
                         rpc_call_timer_, callback, was_timeout_, executed>>
      BY <2>2 DEF ConnectFails, Return, GoTo, connVars, netVars, timerVars
    <3>2. /\ call[t] \in Calls /\ status[call[t]] = Pending
          /\ \A u \in Callers : u # t => at[u] = "idle"
          /\ NoCaller \notin Callers /\ conn_ = NoCall
      BY <3>1, Alone, RpcClientAssumption DEF FreshConn
    <3>3. \A u \in Callers : at'[u] = "idle"
      BY <3>1, <3>2 DEF TypeOK
    <3>4. TypeOK' /\ WireType' /\ OneCall'
      BY <3>1, <3>2, <3>3 DEF TypeOK, WireType, OneCall, Pending
    <3>5. FreshConn' /\ SentOnce' /\ ExecutedOnce' /\ Conversation'
      <4>1. \A j \in Calls : status[j] # "none" <=> status'[j] # "none"
        BY <3>1, <3>2 DEF WireType, Pending
      <4>2. \A d \in Calls : up[d] # <<>> => Head(up[d]) \in Calls
        BY DEF WireType
      <4>3. SentOnce'
        BY <3>1, <3>3, <4>1, <4>2 DEF SentOnce, Unsent
      <4> QED BY <3>1, <3>2, <3>3, <4>1, <4>3 DEF FreshConn, ExecutedOnce, Conversation, Unsent
    <3> QED BY <3>4, <3>5
  <2>3. CASE set_rpc_call_timeout(t)
    BY <2>3, TimerKeeps
  <2>4. CASE send_rpc_message(t)
    BY <2>4, SendKeeps
  <2>5. CASE SendFails(t)
    BY <2>5, FailKeeps DEF SendFails
  <2>6. CASE do_read(t) \/ do_read_msg(t)
    BY <2>6, ReadKeeps
  <2>7. CASE RecvFails(t)
    BY <2>7, FailKeeps DEF RecvFails
  <2> QED BY <1>2, <2>1, <2>2, <2>3, <2>4, <2>5, <2>6, <2>7 DEF CallerStep
<1>3. CASE TimerExpires \/ rpc_call_timeout
  <2>1. /\ UNCHANGED <<at, call, call_mutex_, timed, status, reply, conn_, conn_stat_, peer,
                       up, down, header, executed>>
        /\ rpc_call_timer_' \in {"none", "expired"} /\ callback' \in {callback, "close"}
        /\ was_timeout_' \in {was_timeout_, TRUE}
    BY <1>3 DEF TimerExpires, rpc_call_timeout, callerVars, connVars, netVars
  <2>2. TypeOK'
    BY <2>1 DEF TypeOK
  <2>3. WireType' /\ OneCall' /\ FreshConn' /\ SentOnce' /\ ExecutedOnce' /\ Conversation'
    BY <2>1 DEF WireType, OneCall, FreshConn, SentOnce, ExecutedOnce, Conversation, Unsent, Quiet
  <2> QED BY <2>2, <2>3
<1>4. CASE CloseSocket
  <2>1. /\ UNCHANGED <<at, call, call_mutex_, timed, status, reply, conn_, peer, up,
                       rpc_call_timer_, was_timeout_, executed>>
        /\ callback' \in {"idle", "crashed"}
        /\ IF conn_ = NoCall THEN UNCHANGED <<conn_stat_, down, header>> ELSE Close(conn_)
    BY <1>4 DEF CloseSocket, callerVars
  <2>2. CASE conn_ = NoCall
    <3>1. TypeOK'
      BY <2>1, <2>2 DEF TypeOK
    <3>2. WireType' /\ OneCall' /\ FreshConn' /\ SentOnce' /\ ExecutedOnce' /\ Conversation'
      BY <2>1, <2>2
         DEF WireType, OneCall, FreshConn, SentOnce, ExecutedOnce, Conversation, Unsent
    <3> QED BY <3>1, <3>2
  <2>3. CASE conn_ # NoCall
    <3>1. /\ conn_ \in Calls
          /\ conn_stat_' = [conn_stat_ EXCEPT ![conn_] = "closed"]
          /\ down' = [down EXCEPT ![conn_] = <<>>]
          /\ header' = [header EXCEPT ![conn_] = FALSE]
      BY <2>1, <2>3 DEF TypeOK, Close
    <3>2. <<>> \in Seq(Message) /\ Len(<<>>) = 0 /\ DOMAIN <<>> = {}
      OBVIOUS
    <3>3. TypeOK' /\ WireType'
      BY <2>1, <3>1, <3>2 DEF TypeOK, WireType
    <3>4. down'[conn_] = <<>> /\ header'[conn_] = FALSE
      BY <3>1 DEF TypeOK, WireType
    <3>5. OneCall' /\ SentOnce' /\ ExecutedOnce'
      BY <2>1 DEF OneCall, SentOnce, ExecutedOnce, Unsent
    <3>6. FreshConn'
      BY <2>1, <2>3, <3>1 DEF FreshConn, TypeOK, WireType
    <3>7. Conversation'
      <4>1. Quiet => Quiet'
        BY <2>1, <3>4 DEF Quiet
      <4>2. Len(down'[conn_]) = 0 /\ DOMAIN down'[conn_] = {}
        BY <3>2, <3>4, Zenon
      <4> QED BY <2>1, <3>4, <4>1, <4>2 DEF Conversation
    <3> QED BY <3>3, <3>5, <3>6, <3>7
  <2> QED BY <2>2, <2>3
<1>5. ASSUME NEW c \in Calls, Execute(c) \/ ServerCloses(c)
      PROVE  ClientInv'
  BY <1>5, ServerKeeps
<1>6. CASE UNCHANGED vars
  BY <1>6 DEF vars, callerVars, connVars, netVars, timerVars, TypeOK, WireType, OneCall,
     FreshConn, SentOnce, ExecutedOnce, Conversation, Unsent, Quiet
<1> QED BY <1>1, <1>2, <1>3, <1>4, <1>5, <1>6 DEF Next

(* Nothing of an earlier call is under way on the connection that the next *)
(* call will use, whatever failed before (call_RPC: every error resets     *)
(* conn_).                                                                 *)
THEOREM ConnectionIsClean == Spec => []NoCrossTalk
<1>1. ClientInv => NoCrossTalk
  <2> SUFFICES ASSUME ClientInv, conn_ # NoCall PROVE NoCrossTalk
    BY DEF NoCrossTalk
  <2> USE DEF ClientInv
  <2>0. conn_ \in Calls /\ up[conn_] \in Seq(Calls) /\ down[conn_] \in Seq(Message)
    BY DEF TypeOK, WireType
  <2>1. CASE \A t \in Callers : at[t] \in {"idle", "timer", "send"}
    <3>1. up[conn_] = <<>> /\ down[conn_] = <<>> /\ ~header[conn_]
      BY <2>1 DEF Conversation, Quiet
    <3> QED BY <3>1 DEF NoCrossTalk
  <2>2. ASSUME NEW t \in Callers, at[t] \notin {"idle", "timer", "send"}
        PROVE  NoCrossTalk
    <3>1. at[t] \in {"do_read", "do_read_msg"} /\ status[call[t]] = Pending
      BY <2>2 DEF TypeOK, FreshConn, OneCall
    <3>2. \A i \in DOMAIN up[conn_] : up[conn_][i] = call[t]
      <4>1. Len(up[conn_]) <= 1
        BY <2>0 DEF SentOnce
      <4>2. up[conn_] # <<>> => Head(up[conn_]) = call[t]
        BY <3>1 DEF Conversation
      <4> QED BY <2>0, <4>1, <4>2
    <3>3. \A i \in DOMAIN down[conn_] : down[conn_][i].of = call[t]
      BY <3>1 DEF Conversation
    <3>4. header[conn_] => at[t] = "do_read_msg"
      BY <3>1 DEF Conversation
    <3> QED BY <3>1, <3>2, <3>3, <3>4 DEF NoCrossTalk
  <2> QED BY <2>1, <2>2
<1> QED BY <1>1, InitClient, NextClient, PTL DEF Spec

-----------------------------------------------------------------------------
(* The return of a call that failed is a ReturnError of the promise, that  *)
(* of one that read a good reply a ReturnOk.                               *)
LEMMA ErrorIsPromised ==
    ASSUME ClientInv, NEW k \in Calls, status[k] = Pending,
           NEW s \in {"REPLY_ERROR", "NETWORK_ERROR", "RPC_CALL_TIMEOUT"},
           status' = [status EXCEPT ![k] = s], UNCHANGED <<reply, executed>>
    PROVE  Promise!Next
<1>1. Outcome[k] = "called" /\ Outcome' = [Outcome EXCEPT ![k] = "failed"]
  BY DEF ClientInv, WireType, Outcome, Pending
<1> QED BY <1>1 DEF Promise!Next, Promise!ReturnError

(* Every step of the client is one of the promise, or none.                *)
LEMMA StepIsPromised ==
    ASSUME ClientInv, [Next]_vars
    PROVE  [Promise!Next]_(Promise!vars)
<1> USE DEF ClientInv
<1>1. ASSUME NEW t \in Callers, NEW withTimeout \in BOOLEAN, call_RPC(t, withTimeout)
      PROVE  Promise!Next
  <2>1. PICK k \in Calls : status[k] = "none" /\ status' = [status EXCEPT ![k] = Pending]
    BY <1>1 DEF call_RPC
  <2>2. UNCHANGED <<reply, executed>>
    BY <1>1 DEF call_RPC
  <2>3. Outcome[k] = "none" /\ Outcome' = [Outcome EXCEPT ![k] = "called"]
    BY <2>1 DEF WireType, Outcome, Pending
  <2> QED BY <2>2, <2>3 DEF Promise!Next, Promise!Call
<1>2. ASSUME UNCHANGED <<status, reply, executed>>
      PROVE  UNCHANGED Promise!vars
  BY <1>2 DEF Promise!vars, Outcome
<1>3. ASSUME NEW t \in Callers, CallerStep(t)
      PROVE  [Promise!Next]_(Promise!vars)
  <2>1. CASE Connect(t) \/ set_rpc_call_timeout(t) \/ send_rpc_message(t) \/ do_read(t)
    BY <1>2, <2>1 DEF Connect, set_rpc_call_timeout, send_rpc_message, do_read
  <2>2. CASE ConnectFails(t)
    <3>1. call[t] \in Calls /\ status[call[t]] = Pending
      BY <2>2 DEF ConnectFails, OneCall
    <3>2. status' = [status EXCEPT ![call[t]] = "NETWORK_ERROR"] /\ UNCHANGED <<reply, executed>>
      BY <2>2 DEF ConnectFails, Return
    <3> QED BY <3>1, <3>2, ErrorIsPromised
  <2>3. CASE SendFails(t) \/ RecvFails(t)
    <3>1. call[t] \in Calls /\ status[call[t]] = Pending /\ Fail(t)
      BY <2>3 DEF SendFails, RecvFails, OneCall
    <3>2. PICK s \in {"NETWORK_ERROR", "RPC_CALL_TIMEOUT"} :
             status' = [status EXCEPT ![call[t]] = s]
      BY <3>1 DEF Fail, Return
    <3>3. UNCHANGED <<reply, executed>>
      BY <3>1 DEF Fail
    <3> QED BY <3>1, <3>2, <3>3, ErrorIsPromised
  <2>4. CASE do_read_msg(t)
    <3> DEFINE k == call[t]
               m == Head(down[conn_])
    <3>1. k \in Calls /\ status[k] = Pending /\ reply[k] = NoCall
      BY <2>4 DEF do_read_msg, OneCall
    <3>2. /\ status' = [status EXCEPT ![k] = StatusOf(m.kind)]
          /\ reply' = [reply EXCEPT ![k] = IF m.kind = "good" THEN m.of ELSE NoCall]
          /\ UNCHANGED executed
      BY <2>4 DEF do_read_msg, Return
    <3>3. m.of = k /\ executed[k] = 1
      BY <2>4, ReadKeeps
    <3> HIDE DEF k, m
    <3>4. CASE m.kind = "good"
      <4>1. status' = [status EXCEPT ![k] = "OK"] /\ reply' = [reply EXCEPT ![k] = k]
        BY <3>2, <3>3, <3>4 DEF StatusOf
      <4>2. Outcome[k] = "called" /\ Outcome' = [Outcome EXCEPT ![k] = "ok"]
        BY <3>1, <4>1 DEF WireType, Outcome, Pending
      <4> QED BY <3>1, <3>2, <3>3, <4>1, <4>2 DEF Promise!Next, Promise!ReturnOk
    <3>5. CASE m.kind # "good"
      <4>1. status' = [status EXCEPT ![k] = "REPLY_ERROR"] /\ reply' = reply
        BY <3>1, <3>2, <3>5 DEF StatusOf, WireType
      <4> QED BY <3>1, <3>2, <4>1, ErrorIsPromised
    <3> QED BY <3>4, <3>5
  <2> QED BY <1>3, <2>1, <2>2, <2>3, <2>4 DEF CallerStep
<1>4. CASE TimerExpires \/ rpc_call_timeout \/ CloseSocket
  BY <1>2, <1>4 DEF TimerExpires, rpc_call_timeout, CloseSocket, callerVars
<1>5. ASSUME NEW c \in Calls, Execute(c)
      PROVE  Promise!Next
  <2> DEFINE k == Head(up[c])
  <2>1. /\ up[c] # <<>> /\ executed' = [executed EXCEPT ![k] = @ + 1]
        /\ UNCHANGED <<status, reply>>
    BY <1>5 DEF Execute, callerVars
  <2>2. k \in Calls /\ status[k] # "none" /\ executed[k] = 0
    BY <2>1 DEF SentOnce, WireType
  <2> HIDE DEF k
  <2>3. Outcome[k] # "none" /\ UNCHANGED Outcome
    BY <2>1, <2>2 DEF Outcome, WireType, Pending
  <2>4. executed' = [executed EXCEPT ![k] = 1]
    BY <2>1, <2>2
  <2> QED BY <2>1, <2>2, <2>3, <2>4 DEF Promise!Next, Promise!Execute
<1>6. ASSUME NEW c \in Calls, ServerCloses(c)
      PROVE  UNCHANGED Promise!vars
  BY <1>2, <1>6 DEF ServerCloses, callerVars
<1>7. CASE UNCHANGED vars
  BY <1>2, <1>7 DEF vars, callerVars
<1> QED BY <1>1, <1>3, <1>4, <1>5, <1>6, <1>7 DEF Next

(* call_RPC keeps the promise of RpcCall, however the network, the server  *)
(* and the timer behave: a request is executed at most once, OK comes with *)
(* the reply to this very request, and the outcome of a call is final.     *)
THEOREM CallKeepsPromise == Spec => PromiseKept
<1>1. Init => Promise!Init
  <2> SUFFICES ASSUME Init PROVE Promise!Init
    OBVIOUS
  <2>1. \A k \in Calls : status[k] = "none"
    BY DEF Init
  <2>2. Outcome = [k \in Calls |-> "none"]
    BY <2>1 DEF Outcome, Pending
  <2> QED BY <2>2 DEF Init, Promise!Init, NoCall, Promise!NoReply
<1>2. ClientInv /\ [Next]_vars => [Promise!Next]_(Promise!vars)
  BY StepIsPromised
<1> QED BY <1>1, <1>2, InitClient, NextClient, PTL DEF Spec, PromiseKept, Promise!Spec
=============================================================================
