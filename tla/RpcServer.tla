----------------------------- MODULE RpcServer ------------------------------
(***************************************************************************)
(* The way of a request through the server: accept_handler                 *)
(* (Network/NetServer.cpp) admits a connection, the handlers of            *)
(* Network/TcpConnAsync.cpp cut the byte stream into messages,             *)
(* Dispatcher::handle_RPC gives each to the queue of its Executor, an      *)
(* executor thread runs MonitorTaskService::handle_RPC and hands the reply *)
(* back to the connection.                                                 *)
(*                                                                         *)
(* The read handlers and the write handler of a connection run in its      *)
(* strand, one at a time; the executors call async_send_message, and the   *)
(* timer its callback, outside of it.  Bytes are units <<request, place>>; *)
(* of a reply only its length is kept.                                     *)
(***************************************************************************)
EXTENDS Integers, Sequences, FiniteSets

CONSTANTS
    Conns, Executors,
    Kinds,          \* what the clients send, a subset of AllKinds
    BodyLength,     \* header_.length of a request, by its kind
    HeaderSize,     \* sizeof(Header)
    IoBlock,        \* kFixedIoBufferSize
    TimeOut,        \* is ops_cancel_time_out set
    ReplyLengths, send_max_msg_size,
    MaxRequests     \* bound: requests that all clients send together

(* badheader: parse_header refuses it; invalid: validate_request does;     *)
(* noservice, noop: service or opcode nobody knows.                        *)
AllKinds == {"badheader", "invalid", "noservice", "noop", "read", "write"}

ASSUME SizesAssumption ==
    /\ Kinds \subseteq AllKinds
    /\ BodyLength \in [Kinds -> Nat]
    /\ HeaderSize \in Nat \ {0} /\ IoBlock \in Nat /\ IoBlock >= HeaderSize
    /\ TimeOut \in BOOLEAN
    /\ ReplyLengths \subseteq Nat \ {0} /\ send_max_msg_size \in Nat
    /\ MaxRequests \in Nat
    /\ IsFiniteSet(Conns) /\ Conns \cap Executors = {}

VARIABLES
    open,           \* per connection: has the client its end open
    sent,           \* the kinds of the requests it sent
    net,            \* units it sent and the server has not read
    conn_stat_, was_cancelled_,
    ops_cancel_timer_,  \* is a wait of the timer pending
    timedOut,       \* the timer's callback is queued with ec == 0
    recv_buffer, recv_header,   \* recv_bound_
    reading,        \* the outstanding async_read: its handler, or "none"
    pc,             \* where the strand's handler is, "idle" when none runs
    dispatched,     \* the messages given to Dispatcher::handle_RPC
    send_length,    \* send_bound_.buffer_.get_length()
    writes,         \* outstanding async_writes
    rpc_queue_,
    exec,           \* per executor: the request it handles
    doWrite,        \* per thread: where it is in do_write, its to_write
    replied,        \* requests whose reply is in the send buffer
    unreplied       \* requests that are through and have none

clientVars == <<open, sent, net>>
connVars   == <<conn_stat_, was_cancelled_>>
timerVars  == <<ops_cancel_timer_, timedOut>>
recvVars   == <<recv_buffer, recv_header, reading, pc, dispatched>>
sendVars   == <<send_length, writes, doWrite>>
execVars   == <<rpc_queue_, exec, replied, unreplied>>
vars == <<clientVars, connVars, timerVars, recvVars, sendVars, execVars>>

Request == Conns \X (1 .. MaxRequests)
NoRequest == <<>>
Threads == Conns \cup Executors     \* the strand of a connection counts as one
MinOf(a, b) == IF a < b THEN a ELSE b
NotWriting == -1                    \* doWrite of a thread not in do_write,
Testing    == 0                     \* and of one that has just entered it

Init ==
    /\ open = [c \in Conns |-> FALSE]
    /\ sent = [c \in Conns |-> <<>>]
    /\ net = [c \in Conns |-> <<>>]
    /\ conn_stat_ = [c \in Conns |-> "pending"]
    /\ was_cancelled_ = [c \in Conns |-> FALSE]
    /\ ops_cancel_timer_ = [c \in Conns |-> FALSE]
    /\ timedOut = [c \in Conns |-> FALSE]
    /\ recv_buffer = [c \in Conns |-> <<>>]
    /\ recv_header = [c \in Conns |-> <<>>]
    /\ reading = [c \in Conns |-> "none"]
    /\ pc = [c \in Conns |-> "idle"]
    /\ dispatched = [c \in Conns |-> <<>>]
    /\ send_length = [c \in Conns |-> 0]
    /\ writes = [c \in Conns |-> 0]
    /\ rpc_queue_ = <<>>
    /\ exec = [e \in Executors |-> NoRequest]
    /\ doWrite = [t \in Threads |-> NotWriting]
    /\ replied = {}
    /\ unreplied = {}

(* The units of the n-th request of c.                                     *)
Units(c, n) == [k \in 1 .. HeaderSize + BodyLength[sent[c][n]] |-> <<n, k>>]

ConnOf(t) == IF t \in Conns THEN t ELSE exec[t][1]

(* The object lives as long as somebody holds a shared_ptr to it: a        *)
(* handler that runs or is bound to an outstanding operation, the wait or  *)
(* the callback of the timer, an executor that has locked its weak_ptr.    *)
Alive(c) ==
    \/ pc[c] # "idle" \/ reading[c] # "none" \/ writes[c] > 0
    \/ ops_cancel_timer_[c] \/ timedOut[c]
    \/ \E t \in Threads : doWrite[t] # NotWriting /\ ConnOf(t) = c

Working(c) == conn_stat_[c] = "working" /\ ~was_cancelled_[c]

Closed(c) == conn_stat_[c] = "closed"

GoTo(c, place) == pc' = [pc EXCEPT ![c] = place]

-----------------------------------------------------------------------------
(* The clients. *)
ClientSend(c, kind) ==
    /\ open[c] /\ ~Closed(c)
    /\ Cardinality(UNION {{d} \X DOMAIN sent[d] : d \in Conns}) < MaxRequests
    /\ sent' = [sent EXCEPT ![c] = Append(@, kind)]
    /\ net' = [net EXCEPT ![c] = @ \o [k \in 1 .. HeaderSize + BodyLength[kind] |->
                                            <<Len(sent[c]) + 1, k>>]]
    /\ UNCHANGED <<open, connVars, timerVars, recvVars, sendVars, execVars>>

(* It may go away in the middle of a message.                              *)
ClientClose(c) ==
    /\ open[c]
    /\ open' = [open EXCEPT ![c] = FALSE]
    /\ \E k \in 0 .. Len(net[c]) : net' = [net EXCEPT ![c] = SubSeq(@, 1, k)]
    /\ UNCHANGED <<sent, connVars, timerVars, recvVars, sendVars, execVars>>

-----------------------------------------------------------------------------
(* accept_handler admits a connection: its constructor and start().        *)
Accept(c) ==
    /\ conn_stat_[c] = "pending"
    /\ open' = [open EXCEPT ![c] = TRUE]
    /\ conn_stat_' = [conn_stat_ EXCEPT ![c] = "working"]
    /\ GoTo(c, "do_read")
    /\ UNCHANGED <<sent, net, was_cancelled_, timerVars, recv_buffer, recv_header,
                   reading, dispatched, sendVars, execVars>>

-----------------------------------------------------------------------------
(* Timer and closing of the socket.                                        *)
set_ops_cancel_timeout(c) ==
    ops_cancel_timer_' = [ops_cancel_timer_ EXCEPT ![c] = TimeOut]

revoke_ops_cancel_timeout(c) ==
    ops_cancel_timer_' = [ops_cancel_timer_ EXCEPT ![c] = FALSE]

sock_shutdown_and_close(c) ==
    conn_stat_' = [conn_stat_ EXCEPT ![c] = "closed"]

(* ops_cancel and then sock_shutdown_and_close: kError is not seen by      *)
(* anybody who would not treat kClosed alike.                              *)
CancelAndClose(c) ==
    /\ was_cancelled_' = [was_cancelled_ EXCEPT ![c] = TRUE]
    /\ sock_shutdown_and_close(c)

TimerExpires(c) ==
    /\ ops_cancel_timer_[c]
    /\ ops_cancel_timer_' = [ops_cancel_timer_ EXCEPT ![c] = FALSE]
    /\ timedOut' = [timedOut EXCEPT ![c] = TRUE]
    /\ UNCHANGED <<clientVars, connVars, recvVars, sendVars, execVars>>

ops_cancel_timeout_call(c) ==
    /\ timedOut[c]
    /\ timedOut' = [timedOut EXCEPT ![c] = FALSE]
    /\ CancelAndClose(c)
    /\ UNCHANGED <<clientVars, ops_cancel_timer_, recvVars, sendVars, execVars>>

(* An operation on a socket that was closed under it ends with             *)
(* operation_aborted, one started afterwards with bad_descriptor; only the *)
(* first leaves the connection alone.                                      *)
handle_socket_ec(c) ==
    /\ revoke_ops_cancel_timeout(c)
    /\ \E operation_aborted \in IF Closed(c) THEN BOOLEAN ELSE {FALSE} :
           IF ~operation_aborted \/ was_cancelled_[c]
           THEN CancelAndClose(c)
           ELSE UNCHANGED connVars

-----------------------------------------------------------------------------
(* The read handlers of the strand.  A handler runs through the steps of   *)
(* do_read and do_read_msg until it has started the next async_read, or    *)
(* the connection is to be closed.                                         *)
StrandFree(c) == pc[c] = "idle" /\ doWrite[c] = NotWriting

StrandAt(c, place) == pc[c] = place /\ doWrite[c] = NotWriting

KindOf(c, message) == sent[c][message[1][1]]

HeaderLength(c) == BodyLength[KindOf(c, recv_header[c])]

(* transfer_at_least: what the outstanding async_read waits for.           *)
Need(c) ==
    IF reading[c] = "read_handler" THEN HeaderSize - Len(recv_buffer[c])
    ELSE MinOf(HeaderLength(c) - Len(recv_buffer[c]), IoBlock)

AsyncRead(c, handler) ==
    /\ reading' = [reading EXCEPT ![c] = handler]
    /\ set_ops_cancel_timeout(c)
    /\ GoTo(c, "idle")

do_read(c) ==
    /\ StrandAt(c, "do_read")
    /\ \/ ~Working(c) /\ GoTo(c, "idle") /\ UNCHANGED <<reading, ops_cancel_timer_>>
       \/ /\ Working(c)
          /\ IF Len(recv_buffer[c]) < HeaderSize
             THEN AsyncRead(c, "read_handler")
             ELSE GoTo(c, "parse_header") /\ UNCHANGED <<reading, ops_cancel_timer_>>
    /\ UNCHANGED <<clientVars, connVars, timedOut, recv_buffer, recv_header, dispatched,
                   sendVars, execVars>>

(* Mutant: the rest of the block that was read is thrown away.             *)
Consume_All(buffer, size) == <<>>

Consume(buffer, size) == SubSeq(buffer, size + 1, Len(buffer))

(* The magic, the version and the length are checked.                      *)
HeaderIsGood(c, header) ==
    /\ header = [k \in 1 .. HeaderSize |-> <<header[1][1], k>>]
    /\ KindOf(c, header) # "badheader"

parse_header(c) ==
    /\ StrandAt(c, "parse_header")
    /\ LET header == SubSeq(recv_buffer[c], 1, HeaderSize)
       IN  /\ recv_header' = [recv_header EXCEPT ![c] = header]
           /\ IF HeaderIsGood(c, header)
              THEN GoTo(c, "do_read_msg") /\ UNCHANGED conn_stat_
              ELSE GoTo(c, "idle") /\ sock_shutdown_and_close(c)
    /\ recv_buffer' = [recv_buffer EXCEPT ![c] = Consume(@, HeaderSize)]
    /\ UNCHANGED <<clientVars, was_cancelled_, timerVars, reading, dispatched, sendVars, execVars>>

do_read_msg(c) ==
    /\ StrandAt(c, "do_read_msg")
    /\ \/ ~Working(c) /\ GoTo(c, "idle") /\ UNCHANGED <<reading, ops_cancel_timer_>>
       \/ /\ Working(c)
          /\ IF Len(recv_buffer[c]) < HeaderLength(c)
             THEN AsyncRead(c, "read_msg_handler")
             ELSE GoTo(c, "parse_msg_body") /\ UNCHANGED <<reading, ops_cancel_timer_>>
    /\ UNCHANGED <<clientVars, connVars, timedOut, recv_buffer, recv_header, dispatched,
                   sendVars, execVars>>

(* parse_msg_body returns 1 when the message is not complete.              *)
parse_msg_body(c) ==
    /\ StrandAt(c, "parse_msg_body")
    /\ LET size == HeaderLength(c)
       IN  IF Len(recv_buffer[c]) < size
           THEN GoTo(c, "do_read_msg") /\ UNCHANGED <<recv_buffer, dispatched>>
           ELSE /\ recv_buffer' = [recv_buffer EXCEPT ![c] = Consume(@, size)]
                /\ dispatched' = [dispatched EXCEPT ![c] =
                        Append(@, recv_header[c] \o SubSeq(recv_buffer[c], 1, size))]
                /\ GoTo(c, "handle_RPC")
    /\ UNCHANGED <<clientVars, connVars, timerVars, recv_header, reading, sendVars, execVars>>

(* The beginning of read_handler and read_msg_handler: whatever arrived in *)
(* one block, at least what was asked for, goes into the buffer.  This is  *)
(* not disturbed by a socket that was closed after the block arrived.      *)
ReadCompletes(c) ==
    /\ StrandFree(c) /\ reading[c] # "none"
    /\ \E n \in Need(c) .. MinOf(IoBlock, Len(net[c])) :
           /\ recv_buffer' = [recv_buffer EXCEPT ![c] = @ \o SubSeq(net[c], 1, n)]
           /\ net' = [net EXCEPT ![c] = SubSeq(@, n + 1, Len(@))]
    /\ GoTo(c, IF reading[c] = "read_handler" THEN "parse_header" ELSE "parse_msg_body")
    /\ reading' = [reading EXCEPT ![c] = "none"]
    /\ revoke_ops_cancel_timeout(c)
    /\ UNCHANGED <<open, sent, connVars, timedOut, recv_header, dispatched, sendVars, execVars>>

(* Mutant: an aborted read is started again.                               *)
ReadEnds_Retry(c) ==
    reading' = IF Closed(c) THEN reading ELSE [reading EXCEPT ![c] = "none"]

ReadEnds(c) == reading' = [reading EXCEPT ![c] = "none"]

(* The handler gets an error: the socket was closed, or the client has     *)
(* closed and less than was asked for is left.                             *)
ReadFails(c) ==
    /\ StrandFree(c) /\ reading[c] # "none"
    /\ Closed(c) \/ (~open[c] /\ Len(net[c]) < Need(c))
    /\ ReadEnds(c)
    /\ handle_socket_ec(c)
    /\ UNCHANGED <<clientVars, timedOut, recv_buffer, recv_header, pc, dispatched,
                   sendVars, execVars>>

-----------------------------------------------------------------------------
(* async_send_message by thread t: a reply of this length goes into the    *)
(* send buffer and t enters do_write.                                      *)
async_send_message(t, request, length) ==
    IF send_max_msg_size # 0 /\ length > send_max_msg_size
    THEN /\ unreplied' = unreplied \cup {request}
         /\ UNCHANGED <<send_length, doWrite, replied>>
    ELSE /\ send_length' = [send_length EXCEPT ![request[1]] = @ + length]
         /\ doWrite' = [doWrite EXCEPT ![t] = Testing]
         /\ replied' = replied \cup {request}
         /\ UNCHANGED unreplied

(* Mutant: the strand does not read on after a message.                    *)
AfterMessage_Idle(c) == GoTo(c, "idle")

AfterMessage(c) == GoTo(c, "do_read")

(* Dispatcher::handle_RPC; the reject of a request without a service is    *)
(* sent from the strand, which then reads on.                              *)
handle_RPC(c) ==
    /\ StrandAt(c, "handle_RPC")
    /\ LET request == <<c, Len(dispatched[c])>>
           message == dispatched[c][Len(dispatched[c])]
       IN  IF KindOf(c, message) \in {"invalid", "noservice"}
           THEN async_send_message(c, request, 1) /\ UNCHANGED rpc_queue_
           ELSE /\ rpc_queue_' = Append(rpc_queue_, request)
                /\ UNCHANGED <<send_length, doWrite, replied, unreplied>>
    /\ AfterMessage(c)
    /\ UNCHANGED <<clientVars, connVars, timerVars, recv_buffer, recv_header, reading,
                   dispatched, writes, exec>>

(* Mutant: two executors may take the same request.                        *)
QueueAfterPop_Peek == IF Len(rpc_queue_) > 1 THEN Tail(rpc_queue_) ELSE rpc_queue_

QueueAfterPop == Tail(rpc_queue_)

(* executor_service_run: POP.                                              *)
ExecutorPop(e) ==
    /\ exec[e] = NoRequest
    /\ rpc_queue_ # <<>>
    /\ exec' = [exec EXCEPT ![e] = Head(rpc_queue_)]
    /\ rpc_queue_' = QueueAfterPop
    /\ UNCHANGED <<clientVars, connVars, timerVars, recvVars, sendVars, replied, unreplied>>

Handles(e) == exec[e] # NoRequest /\ doWrite[e] = NotWriting

KindHandled(e) == sent[exec[e][1]][exec[e][2]]

(* reply_rpc_message and reject: the connection may be gone.               *)
Reply(e, length) ==
    /\ Handles(e)
    /\ IF Alive(exec[e][1])
       THEN async_send_message(e, exec[e], length)
       ELSE unreplied' = unreplied \cup {exec[e]} /\ UNCHANGED <<send_length, doWrite, replied>>
    /\ exec' = [exec EXCEPT ![e] = IF doWrite'[e] = NotWriting THEN NoRequest ELSE @]
    /\ UNCHANGED <<clientVars, connVars, timerVars, recvVars, writes, rpc_queue_>>

(* handle_RPC of MonitorTaskService, after the executor's POP: reject of   *)
(* an unknown opcode, write_ops_impl, read_ops_impl.                       *)
reject(e) == KindHandled(e) = "noop" /\ Reply(e, 1)

(* Mutant: a report that could not be stored is not answered.              *)
write_ops_impl_Returns(e) ==
    /\ Handles(e) /\ KindHandled(e) = "write"
    /\ unreplied' = unreplied \cup {exec[e]}
    /\ exec' = [exec EXCEPT ![e] = NoRequest]
    /\ UNCHANGED <<clientVars, connVars, timerVars, recvVars, sendVars, rpc_queue_, replied>>

write_ops_impl(e) == KindHandled(e) = "write" /\ Reply(e, 1)

read_ops_impl(e) == KindHandled(e) = "read" /\ \E length \in ReplyLengths : Reply(e, length)

(* read_ops_impl returns without a reply when EventRepos returns an error. *)
read_ops_impl_Fails(e) ==
    /\ Handles(e) /\ KindHandled(e) = "read"
    /\ unreplied' = unreplied \cup {exec[e]}
    /\ exec' = [exec EXCEPT ![e] = NoRequest]
    /\ UNCHANGED <<clientVars, connVars, timerVars, recvVars, sendVars, rpc_queue_, replied>>

-----------------------------------------------------------------------------
(* do_write, by an executor or by the strand: the tests, and then the      *)
(* consume and the async_write with the length that was read before.       *)
DoWriteEnds(t) ==
    /\ doWrite' = [doWrite EXCEPT ![t] = NotWriting]
    /\ exec' = [e \in Executors |-> IF e = t THEN NoRequest ELSE exec[e]]

front_erase(length, size) == length - MinOf(length, size)

DoWriteTest(t) ==
    /\ doWrite[t] = Testing
    /\ LET c == ConnOf(t)
       IN  IF Working(c) /\ send_length[c] > 0
           THEN /\ doWrite' = [doWrite EXCEPT ![t] = MinOf(send_length[c], IoBlock)]
                /\ UNCHANGED exec
           ELSE DoWriteEnds(t)
    /\ UNCHANGED <<clientVars, connVars, timerVars, recvVars, send_length, writes,
                   rpc_queue_, replied, unreplied>>

DoWriteStart(t) ==
    /\ doWrite[t] > Testing
    /\ LET c == ConnOf(t)
       IN  /\ send_length' = [send_length EXCEPT ![c] = front_erase(@, doWrite[t])]
           /\ writes' = [writes EXCEPT ![c] = @ + 1]
           /\ set_ops_cancel_timeout(c)
    /\ DoWriteEnds(t)
    /\ UNCHANGED <<clientVars, connVars, timedOut, recvVars, rpc_queue_, replied, unreplied>>

(* write_handler.                                                          *)
WriteCompletes(c) ==
    /\ StrandFree(c) /\ writes[c] > 0
    /\ writes' = [writes EXCEPT ![c] = @ - 1]
    /\ revoke_ops_cancel_timeout(c)
    /\ doWrite' = [doWrite EXCEPT ![c] = Testing]
    /\ UNCHANGED <<clientVars, connVars, timedOut, recvVars, send_length, execVars>>

WriteFails(c) ==
    /\ StrandFree(c) /\ writes[c] > 0
    /\ Closed(c) \/ ~open[c]
    /\ writes' = [writes EXCEPT ![c] = @ - 1]
    /\ handle_socket_ec(c)
    /\ UNCHANGED <<clientVars, timedOut, recvVars, send_length, doWrite, execVars>>

-----------------------------------------------------------------------------
Client(c) == ClientClose(c) \/ \E kind \in Kinds : ClientSend(c, kind)

Timer(c) == TimerExpires(c) \/ ops_cancel_timeout_call(c)

Reader(c) ==
    \/ do_read(c) \/ parse_header(c) \/ do_read_msg(c) \/ parse_msg_body(c) \/ handle_RPC(c)
    \/ ReadCompletes(c) \/ ReadFails(c)

Writer(c) == WriteCompletes(c) \/ WriteFails(c)

DoWrite(t) == DoWriteTest(t) \/ DoWriteStart(t)

Executor(e) ==
    \/ ExecutorPop(e)
    \/ Handles(e) /\ (reject(e) \/ write_ops_impl(e) \/ read_ops_impl(e) \/ read_ops_impl_Fails(e))

Next ==
    \/ \E c \in Conns : Client(c) \/ Accept(c) \/ Timer(c) \/ Reader(c) \/ Writer(c)
    \/ \E e \in Executors : Executor(e)
    \/ \E t \in Threads : DoWrite(t)

Spec == Init /\ [][Next]_vars

(* The threads of io_service and the executors go on running, outstanding  *)
(* operations complete once they can, and timers expire.                   *)
Fairness ==
    /\ \A c \in Conns : WF_vars(Timer(c)) /\ WF_vars(Reader(c)) /\ WF_vars(Writer(c))
    /\ \A e \in Executors : WF_vars(Executor(e))
    /\ \A t \in Threads : WF_vars(DoWrite(t))

FairSpec == Spec /\ Fairness

-----------------------------------------------------------------------------
(* Types, and the exclusions within one connection.                        *)
TypeOK ==
    /\ open \in [Conns -> BOOLEAN] /\ sent \in [Conns -> Seq(Kinds)]
    /\ net \in [Conns -> Seq(Nat \X Nat)]
    /\ conn_stat_ \in [Conns -> {"pending", "working", "closed"}]
    /\ was_cancelled_ \in [Conns -> BOOLEAN]
    /\ ops_cancel_timer_ \in [Conns -> BOOLEAN] /\ timedOut \in [Conns -> BOOLEAN]
    /\ recv_buffer \in [Conns -> Seq(Nat \X Nat)] /\ recv_header \in [Conns -> Seq(Nat \X Nat)]
    /\ reading \in [Conns -> {"none", "read_handler", "read_msg_handler"}]
    /\ pc \in [Conns -> {"idle", "do_read", "parse_header", "do_read_msg",
                         "parse_msg_body", "handle_RPC"}]
    /\ dispatched \in [Conns -> Seq(Seq(Nat \X Nat))]
    /\ send_length \in [Conns -> Nat] /\ writes \in [Conns -> Nat]
    /\ rpc_queue_ \in Seq(Request)
    /\ exec \in [Executors -> Request \cup {NoRequest}]
    /\ doWrite \in [Threads -> {NotWriting} \cup Nat]
    /\ replied \subseteq Request /\ unreplied \subseteq Request

(* However the stream is cut into blocks, the messages that reach the      *)
(* Dispatcher are the requests the client sent, whole, once and in order:  *)
(* the handlers of TcpConnAsync keep header, body and rest apart.          *)
FramedInOrder ==
    \A c \in Conns : \A n \in DOMAIN dispatched[c] : dispatched[c][n] = Units(c, n)

(* A connection that works and whose strand has nothing to do is always    *)
(* waiting for its client: no path through the read handlers, with or      *)
(* without a message, an early reply or data left in the buffer, forgets   *)
(* to start the next async_read.                                           *)
WorkingReads ==
    \A c \in Conns :
        conn_stat_[c] = "working" /\ pc[c] = "idle" => reading[c] # "none"

(* Every message the Dispatcher got is in exactly one place: with the      *)
(* strand, in the queue, with one executor, or through, with one reply or  *)
(* with none.                                                              *)
EveryRequestOnce ==
    \A c \in Conns : \A n \in DOMAIN dispatched[c] :
        LET r == <<c, n>>
            through == r \in replied \cup unreplied
            atStrand == pc[c] = "handle_RPC" /\ n = Len(dispatched[c])
            queued == Cardinality({i \in DOMAIN rpc_queue_ : rpc_queue_[i] = r})
            held == Cardinality({e \in Executors : exec[e] = r /\ doWrite[e] = NotWriting})
        IN  /\ replied \cap unreplied = {}
            /\ queued + held + (IF atStrand THEN 1 ELSE 0) + (IF through THEN 1 ELSE 0) = 1

(* A connection that is closed is released in the end, and its place with  *)
(* it: neither the timer, nor a read or write that was under way, nor an   *)
(* executor with a late reply holds it for ever.                           *)
ClosedIsReleased == \A c \in Conns : Closed(c) ~> ~Alive(c)

(* A request other than a read gets its reply, or its connection goes.     *)
(* (A read whose query fails gets none: MonitorTaskService.cpp:268.)       *)
Answered ==
    \A c \in Conns : \A n \in 1 .. MaxRequests :
        n <= Len(dispatched[c]) /\ sent[c][n] # "read"
            ~> <<c, n>> \in replied \/ conn_stat_[c] = "closed"

=============================================================================
