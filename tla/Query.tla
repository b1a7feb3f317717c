-------------------------------- MODULE Query -------------------------------
(***************************************************************************)
(* A select from end to end: the calls of the client library               *)
(* (Client/HeraclesClient.cpp) and its request and response                *)
(* (Client/MonitorRpcClientHelper.cpp), MonitorTaskService::read_ops_impl  *)
(* on the server, and the store of module EventStore, into which the       *)
(* handlers insert rows meanwhile.  Also the initialisation of the         *)
(* library, which several threads of the application may call.             *)
(*                                                                         *)
(* What happens to a call on its way is in modules RpcClient and           *)
(* RpcServer: here the one connection carries one call at a time, and a    *)
(* call may fail at any moment.                                            *)
(***************************************************************************)
EXTENDS EventStore

CONSTANTS
    Apps,       \* the threads of the application
    Calls,      \* the conditions (event_cond_t) that they ask for
    MaxCalls,   \* bound: calls of the library
    MaxFails    \* bound: calls that the network loses

VARIABLES
    already_initialized_,
    submitters,         \* threads that run HeraclesClientImpl::run
    lock_, call_lock,   \* who holds the lock of the library, of the RpcClient
    app,                \* per application thread: where it is, its condition
    calls, fails,
    answer,             \* what read_ops_impl has sent it
    server              \* per server thread: whose request it works on

clientVars == <<already_initialized_, submitters, lock_, call_lock, app, calls,
                fails, answer, server>>
storeVars  == vars
queryVars  == <<vars, clientVars>>

-----------------------------------------------------------------------------
(* The conditions that the calls of HeraclesClient make. *)

Order(by, desc, limit) == [orderby |-> by, desc |-> desc, limit |-> limit]

event_cond_t ==
    [metric |-> "m", tm_interval |-> 0, tm_start |-> 0, tag |-> 0,
     entity_idx |-> "", groupby |-> "none", orderby |-> "none", desc |-> TRUE,
     limit |-> 0]

Ordered(cond, order) == order @@ cond

(* select_stat(metric, ...) and select_stat(metric, tag, ...).             *)
select_stat_count_avg(tag, interval) ==
    [event_cond_t EXCEPT !.tag = tag, !.tm_interval = interval]

select_stat_groupby_tag(interval) ==
    [event_cond_t EXCEPT !.tm_interval = interval, !.groupby = "tag"]

select_stat_groupby_time(tag, interval) ==
    [event_cond_t EXCEPT !.tag = tag, !.tm_interval = interval,
                         !.groupby = "timestamp"]

select_stat_groupby_tag_ordered(order, interval) ==
    Ordered(select_stat_groupby_tag(interval), order)

select_stat_groupby_time_ordered(tag, order, interval) ==
    Ordered(select_stat_groupby_time(tag, interval), order)

(* What is refused before a request is made: by the ordered calls, and by  *)
(* rpc_event_select.                                                       *)
Refused(c) == c.limit < 0 \/ c.tm_interval < 0 \/ c.metric = ""

(* The tests of read_ops_impl on the numbers it makes enumerations of; a   *)
(* caller may pass kOrderByBoundary.                                       *)
InRange(c) == c.groupby \in GroupBy /\ c.orderby \in OrderBy

ASSUME QueryAssumption ==
    /\ {c \in Calls : ~Refused(c) /\ InRange(c)} \subseteq Conds
    /\ MaxCalls \in Nat /\ MaxFails \in Nat

-----------------------------------------------------------------------------
Away     == [at |-> "idle", cond |-> None]
NoAnswer == [code |-> 0, info |-> <<>>, summary |-> Collect({}), asked |-> {},
             whole |-> FALSE]

QueryInit ==
    /\ Init
    /\ already_initialized_ = FALSE /\ submitters = 0
    /\ lock_ = None /\ call_lock = None
    /\ app = [a \in Apps |-> Away]
    /\ calls = 0 /\ fails = 0
    /\ answer = [a \in Apps |-> NoAnswer]
    /\ server = [t \in Threads |-> None]

Library == <<already_initialized_, submitters, lock_>>

(* A call of init, or of a select: the latter returns at once before init  *)
(* has succeeded and when the condition is refused.                        *)
CallInit(a) ==
    /\ app[a] = Away /\ calls < MaxCalls
    /\ calls' = calls + 1
    /\ app' = [app EXCEPT ![a].at = "init"]
    /\ UNCHANGED <<storeVars, Library, call_lock, fails, answer, server>>

CallSelect(a) ==
    /\ app[a] = Away /\ calls < MaxCalls
    /\ calls' = calls + 1
    /\ \E c \in Calls :
         app' = IF already_initialized_ /\ ~Refused(c)
                THEN [app EXCEPT ![a] = [at |-> "call", cond |-> c]]
                ELSE app
    /\ UNCHANGED <<storeVars, Library, call_lock, fails, answer, server>>

(* init under lock_, up to the test call.                                  *)
init(a) ==
    /\ app[a].at = "init" /\ lock_ = None
    /\ IF already_initialized_
       THEN app' = [app EXCEPT ![a] = Away] /\ UNCHANGED lock_
       ELSE app' = [app EXCEPT ![a].at = "call"] /\ lock_' = a
    /\ UNCHANGED <<storeVars, already_initialized_, submitters, call_lock, calls,
                   fails, answer, server>>

(* rpc_ping, rpc_event_select: the request is sent by call_RPC.            *)
SendRequest(a) ==
    /\ app[a].at = "call" /\ call_lock = None
    /\ call_lock' = a
    /\ app' = [app EXCEPT ![a].at = "sent"]
    /\ UNCHANGED <<storeVars, Library, calls, fails, answer, server>>

(* The call is over: select_stat returns what it made of the answer, init  *)
(* starts the submitting thread when the test call went well.              *)
Return(a, ok) ==
    /\ call_lock' = None
    /\ app' = [app EXCEPT ![a] = Away]
    /\ answer' = [answer EXCEPT ![a] = NoAnswer]
    /\ IF app[a].cond # None
       THEN UNCHANGED Library
       ELSE /\ lock_' = None
            /\ submitters' = submitters + (IF ok THEN 1 ELSE 0)
            /\ already_initialized_' = (already_initialized_ \/ ok)

CallReturns(a) ==
    /\ app[a].at = "answered"
    /\ Return(a, answer[a].code = 0)
    /\ UNCHANGED <<storeVars, calls, fails, server>>

(* The connection is lost, or closed by the server.                        *)
CallFails(a) ==
    /\ app[a].at \in {"sent", "taken", "ignored"} /\ fails < MaxFails
    /\ fails' = fails + 1
    /\ Return(a, FALSE)
    /\ server' = [t \in Threads |-> IF server[t] = a THEN None ELSE server[t]]
    /\ UNCHANGED <<storeVars, calls>>

-----------------------------------------------------------------------------
(* MonitorTaskService::read_ops_impl. *)

(* ping is answered, a condition out of range is answered with an error.   *)
ReadOpsAnswers(a) ==
    /\ app[a].at = "sent"
    /\ app[a].cond # None => ~InRange(app[a].cond)
    /\ app' = [app EXCEPT ![a].at = "answered"]
    /\ answer' = [answer EXCEPT ![a].code = IF app[a].cond = None THEN 0 ELSE -1]
    /\ UNCHANGED <<storeVars, Library, call_lock, calls, fails, server>>

(* get_event, on to the store.                                             *)
ReadOpsSelects(a, t) ==
    /\ app[a].at = "sent" /\ app[a].cond # None /\ InRange(app[a].cond)
    /\ Begin(t, app[a].cond)
    /\ server' = [server EXCEPT ![t] = a]
    /\ app' = [app EXCEPT ![a].at = "taken"]
    /\ UNCHANGED <<Library, call_lock, calls, fails, answer>>

(* get_event has returned.  read_ops_impl answers with what it got, but on *)
(* an error it returns without an answer.                                  *)
ReadOpsReplies(t, ok) ==
    LET a == server[t]
    IN  /\ server' = [server EXCEPT ![t] = None]
        /\ IF a = None THEN UNCHANGED <<app, answer>>
           ELSE /\ app' = [app EXCEPT ![a].at = IF ok THEN "answered" ELSE "ignored"]
                /\ IF ok
                   THEN \E info \in Infos(t) :
                          answer' = [answer EXCEPT ![a] =
                            [code |-> 0, info |-> info, summary |-> Summary(t),
                             asked |-> Asked(t), whole |-> WithinMonth(t)]]
                   ELSE UNCHANGED answer
        /\ UNCHANGED <<Library, call_lock, calls, fails>>

(* The store's part of a select or an insert; a call that ends badly ends  *)
(* in get_leveldb_handler.                                                 *)
StoreOpens(t) ==
    /\ get_leveldb_handler(t) \/ OpenError(t)
    /\ IF thr'[t].pc = "idle" THEN ReadOpsReplies(t, FALSE) ELSE UNCHANGED clientVars

StoreInserts(t) ==
    \/ \E r \in Rows : Begin(t, r) /\ UNCHANGED clientVars
    \/ insert_ev_stat(t) /\ UNCHANGED clientVars

StoreSelects(t) == select_ev_stat(t) /\ ReadOpsReplies(t, Answers(t))

-----------------------------------------------------------------------------
(* What rpc_event_select and select_stat make of an answer. *)

(* Only the field of the group is copied, and only when there is one.      *)
Received(c, info) ==
    IF c.groupby = "none" THEN <<>>
    ELSE [n \in DOMAIN info |->
            IF c.groupby = "tag" THEN [info[n] EXCEPT !.timestamp = 0]
                                 ELSE [info[n] EXCEPT !.tag = 0]]

SortHere_Limited(c, info) == c.orderby # "none" /\ c.limit > 0 /\ info # <<>>

(* Without a limit the client puts the result into order.                  *)
SortHere(c, info) == c.orderby # "none" /\ c.limit = 0 /\ info # <<>>

Results(a) ==
    LET c == app[a].cond
        info == Received(c, answer[a].info)
    IN  IF SortHere(c, info) THEN do_sort(info, c) ELSE {info}

-----------------------------------------------------------------------------
ServerStep(t) == StoreOpens(t) \/ StoreSelects(t)

AppStep(a) ==
    \/ init(a) \/ SendRequest(a) \/ CallReturns(a) \/ ReadOpsAnswers(a)
    \/ \E t \in Threads : ReadOpsSelects(a, t)

QueryNext ==
    \/ Tick /\ UNCHANGED clientVars
    \/ \E t \in Threads : ServerStep(t) \/ StoreInserts(t)
    \/ \E a \in Apps : CallInit(a) \/ CallSelect(a) \/ AppStep(a) \/ CallFails(a)

QuerySpec == QueryInit /\ [][QueryNext]_queryVars

-----------------------------------------------------------------------------
(* Properties *)

(* Every variable has its type, and no select reaches into the last Linger *)
(* seconds.                                                                *)
QueryTypeOK ==
    /\ TypeOK
    /\ already_initialized_ \in BOOLEAN /\ submitters \in Nat
    /\ lock_ \in Apps \cup {None} /\ call_lock \in Apps \cup {None}
    /\ \A a \in Apps :
         /\ app[a].at \in {"idle", "init", "call", "sent", "taken", "ignored",
                           "answered"}
         /\ app[a].cond \in Calls \cup {None}
         /\ answer[a].code \in {0, -1}
    /\ calls \in 0 .. MaxCalls /\ fails \in 0 .. MaxFails
    /\ server \in [Threads -> Apps \cup {None}]

(* No condition reaches back before time 0 when the clock starts: the      *)
(* seconds since 1970 are more than any interval that is asked for.        *)
NoneReachesBack ==
    \A c \in Conds : /\ c.tm_interval <= InitTime - Linger
                     /\ c.tm_start > 0 => c.tm_interval <= c.tm_start

(* In the order that c asks for, b need not come before a.                 *)
InOrder(a, b, c) ==
    IF c.desc THEN ~(a[c.orderby] < b[c.orderby]) ELSE ~(b[c.orderby] < a[c.orderby])

(* The answer of a select has come, about a window within the month.       *)
Answered(a) ==
    app[a].at = "answered" /\ app[a].cond # None /\ answer[a].code = 0 /\ answer[a].whole

(* What a select returns is what its condition asks for: the summary of    *)
(* the rows asked for; their groups, all of them or the first ones up to   *)
(* the limit; in the order asked for.                                      *)
AsAskedFor(a) ==
    LET c   == app[a].cond
        all == Range(Details(answer[a].asked, c.groupby))
    IN  /\ answer[a].summary.count = Collect(answer[a].asked).count
        /\ answer[a].summary.value_avg = Collect(answer[a].asked).value_avg
        /\ \A info \in Results(a) :
             IF c.groupby = "none" THEN info = <<>>
             ELSE /\ Len(info) = IF c.orderby = "none" \/ c.limit = 0
                                 THEN Cardinality(all)
                                 ELSE Min({c.limit, Cardinality(all)})
                  /\ IsInjective(info) /\ Range(info) \subseteq all
                  /\ c.orderby # "none" =>
                       /\ \A m, n \in DOMAIN info :
                            m < n => InOrder(info[m], info[n], c)
                       /\ \A x \in Range(info) : \A y \in all \ Range(info) :
                            InOrder(x, y, c)

(* std::sort is defined on the groups that the condition asks for.         *)
Orderable(a) ==
    LET c == app[a].cond
    IN  c.groupby # "none" /\ c.orderby # "none"
        => Sortable(Details(answer[a].asked, c.groupby), c)

(* After the store, the wire and the sorting on one of the two sides, the  *)
(* application has what it asked for (select_stat).  Not when std::sort is *)
(* undefined (Sort.h:152-190: any result, Wild), and not for the SQL store *)
(* when an order or no lower bound is asked for: with a limit nobody sorts *)
(* or cuts, with an order alone nothing is left (StoreSql.cpp:326), and    *)
(* without lower bound nothing is found (StoreSql.cpp:190).                *)
SelectEndToEnd ==
    \A a \in Apps :
        (/\ Answered(a) /\ Orderable(a)
         /\ store_ = "sql" => app[a].cond.orderby = "none" /\ app[a].cond.tm_interval > 0)
        => AsAskedFor(a)
=============================================================================
