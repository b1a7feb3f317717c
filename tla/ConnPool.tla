------------------------------ MODULE ConnPool ------------------------------
(***************************************************************************)
(* ConnPool (Connect/ConnPool.h) with the connections of SqlConn           *)
(* (Connect/SqlConn.cpp), as the SQL store uses it: every thread that      *)
(* inserts a row borrows a connection, tries the insert, makes the table   *)
(* and tries again when it failed, and gives the connection back when the  *)
(* scoped pointer dies (Business/StoreSql.cpp).                            *)
(*                                                                         *)
(* conn_notify_mutex_ is held while a new connection is made; everything   *)
(* else under it is one step.  A statement may fail before or after the    *)
(* server has carried it out: the caller cannot tell.                      *)
(***************************************************************************)
EXTENDS Integers, Sequences, FiniteSets, SequencesExt

CONSTANTS
    Borrowers,      \* threads that insert rows
    capacity_,
    conn_trim_linger_,  \* 0: idle connections are kept
    MaxConns,       \* bound: connections that are ever made
    MaxInserts      \* bound: rows inserted by a thread

NoConn == 0
Nobody == "nobody"

(* ConnPool::init makes the first connection.                              *)
ASSUME PoolAssumption ==
    /\ IsFiniteSet(Borrowers) /\ Nobody \notin Borrowers
    /\ capacity_ \in Nat \ {0} /\ conn_trim_linger_ \in Nat
    /\ MaxConns \in Nat \ {0} /\ MaxInserts \in Nat

VARIABLES
    conns_idle_, conns_busy_,
    mutex,              \* who holds conn_notify_mutex_ over several steps
    made,               \* connections made so far: they are numbered
    broken,             \* connections that are not valid any more
    at, conn,           \* per thread: where it is, the connection it has
    table,              \* the table of the row is there
    rows,               \* per thread: copies of its row in the table
    inserts,
    terminated          \* an exception has left its thread

poolVars == <<conns_idle_, conns_busy_, mutex, made>>
workVars == <<table, rows, inserts>>
connPoolVars == <<poolVars, workVars, broken, at, conn, terminated>>

(* ConnPool::init has borrowed one connection, tried it and given it back. *)
PoolInit ==
    /\ conns_idle_ = <<1>> /\ conns_busy_ = {}
    /\ mutex = Nobody /\ made = 1 /\ broken = {}
    /\ at = [t \in Borrowers |-> "away"]
    /\ conn = [t \in Borrowers |-> NoConn]
    /\ table = FALSE
    /\ rows = [t \in Borrowers |-> 0] /\ inserts = [t \in Borrowers |-> 0]
    /\ terminated = FALSE

GoTo(t, place) == at' = [at EXCEPT ![t] = place]

Free == mutex = Nobody /\ ~terminated

-----------------------------------------------------------------------------
(* A row is to be inserted: request_scoped_conn.                           *)
InsertRow(t) ==
    /\ at[t] = "away" /\ inserts[t] < MaxInserts /\ ~terminated
    /\ inserts' = [inserts EXCEPT ![t] = @ + 1]
    /\ rows' = [rows EXCEPT ![t] = 0]
    /\ GoTo(t, "request")
    /\ UNCHANGED <<poolVars, broken, conn, table, terminated>>

RoomLeft == Len(conns_idle_) + Cardinality(conns_busy_) < capacity_

do_check_available == conns_idle_ # <<>> \/ RoomLeft

(* No connection and no room: conn_notify_.wait.                           *)
Wait(t) ==
    /\ at[t] = "request" /\ Free /\ ~do_check_available
    /\ GoTo(t, "wait")
    /\ UNCHANGED <<poolVars, workVars, broken, conn, terminated>>

(* What is left of the idle connections when the first is lent.            *)
LendFirst_Kept == conns_idle_
LendFirst == Tail(conns_idle_)

(* do_request_conn: an idle connection, whatever its health.               *)
TakeIdle(t) ==
    /\ at[t] = "request" /\ Free /\ conns_idle_ # <<>>
    /\ conns_idle_' = LendFirst
    /\ conns_busy_' = conns_busy_ \cup {Head(conns_idle_)}
    /\ conn' = [conn EXCEPT ![t] = Head(conns_idle_)]
    /\ GoTo(t, "execute")
    /\ UNCHANGED <<mutex, made, workVars, broken, terminated>>

(* do_request_conn: a new one, connected with the mutex held.              *)
Connect(t) ==
    /\ at[t] = "request" /\ Free /\ conns_idle_ = <<>> /\ RoomLeft
    /\ mutex' = t
    /\ GoTo(t, "connect")
    /\ UNCHANGED <<conns_idle_, conns_busy_, made, workVars, broken, conn,
                   terminated>>

(* SqlConn::init.                                                          *)
Connected(t) ==
    /\ at[t] = "connect" /\ made < MaxConns /\ ~terminated
    /\ made' = made + 1
    /\ conns_busy_' = conns_busy_ \cup {made'}
    /\ conn' = [conn EXCEPT ![t] = made']
    /\ mutex' = Nobody
    /\ GoTo(t, "execute")
    /\ UNCHANGED <<conns_idle_, workVars, broken, terminated>>

(* No connection to the server: request_scoped_conn returns false.         *)
ConnectFails(t) ==
    /\ at[t] = "connect" /\ ~terminated
    /\ mutex' = Nobody
    /\ GoTo(t, "away")
    /\ UNCHANGED <<conns_idle_, conns_busy_, made, workVars, broken, conn,
                   terminated>>

(* The connection is lost right after: the statement USE of SqlConn::init  *)
(* is outside its try, and nobody up to the thread's function catches.     *)
UseThrows(t) ==
    /\ at[t] = "connect" /\ ~terminated
    /\ terminated' = TRUE
    /\ UNCHANGED <<poolVars, workVars, broken, at, conn>>

-----------------------------------------------------------------------------
(* StoreSql::insert_ev_stat with the connection. *)

(* sqlconn_execute_update of the INSERT at place: done, refused for want   *)
(* of the table, or the connection is lost before or after it was done.    *)
(* A connection that was lost is made good first, if that can be done.     *)
execute_update(t, done, failed) ==
    \/ /\ table /\ rows' = [rows EXCEPT ![t] = @ + 1]
       /\ broken' = broken \ {conn[t]}
       /\ GoTo(t, done) /\ UNCHANGED table
    \/ /\ ~table /\ broken' = broken \ {conn[t]}
       /\ GoTo(t, failed) /\ UNCHANGED <<rows, table>>
    \/ /\ rows' = IF table THEN [rows EXCEPT ![t] = @ + 1] ELSE rows
       /\ broken' = broken \cup {conn[t]}
       /\ GoTo(t, failed) /\ UNCHANGED table
    \/ /\ broken' = broken \cup {conn[t]}
       /\ GoTo(t, failed) /\ UNCHANGED <<rows, table>>

Unchanged == UNCHANGED <<poolVars, conn, inserts, terminated>>

Insert(t) ==
    /\ at[t] = "execute" /\ ~terminated
    /\ execute_update(t, "stored", "create") /\ Unchanged

(* create_table does not look at the outcome.                              *)
create_table(t) ==
    /\ at[t] = "create" /\ ~terminated
    /\ \/ table' = TRUE /\ broken' = broken \ {conn[t]}
       \/ table' \in {table, TRUE} /\ broken' = broken \cup {conn[t]}
    /\ GoTo(t, "again")
    /\ UNCHANGED rows /\ Unchanged

InsertAgain_Unseen(t) ==
    /\ at[t] = "again" /\ ~terminated
    /\ execute_update(t, "stored", "stored") /\ Unchanged

InsertAgain(t) ==
    /\ at[t] = "again" /\ ~terminated
    /\ execute_update(t, "stored", "not_stored") /\ Unchanged

-----------------------------------------------------------------------------
(* free_conn, when the scoped pointer goes: a connection that is not       *)
(* healthy is dropped.                                                     *)
free_conn(t) ==
    /\ at[t] \in {"stored", "not_stored"} /\ Free
    /\ conns_idle_' = IF conn[t] \in broken THEN conns_idle_
                                            ELSE Append(conns_idle_, conn[t])
    /\ conns_busy_' = conns_busy_ \ {conn[t]}
    /\ conn' = [conn EXCEPT ![t] = NoConn]
    /\ rows' = [rows EXCEPT ![t] = 0]
    /\ GoTo(t, "notify")
    /\ UNCHANGED <<mutex, made, table, inserts, broken, terminated>>

(* notify_all, after the mutex was given up.                               *)
Notify_None(t) ==
    /\ at[t] = "notify" /\ ~terminated
    /\ GoTo(t, "away")
    /\ UNCHANGED <<poolVars, workVars, broken, conn, terminated>>

Notify(t) ==
    /\ at[t] = "notify" /\ ~terminated
    /\ at' = [u \in Borrowers |-> IF u = t THEN "away"
                                    ELSE IF at[u] = "wait" THEN "request" ELSE at[u]]
    /\ UNCHANGED <<poolVars, workVars, broken, conn, terminated>>

(* The server closes a connection that nobody uses.                        *)
ServerCloses ==
    /\ ~terminated
    /\ \E c \in Range(conns_idle_) \ broken : broken' = broken \cup {c}
    /\ UNCHANGED <<poolVars, workVars, at, conn, terminated>>

(* do_conn_linger_trim: expire compares the time of day with the linger    *)
(* time, so every idle connection goes, or as many as fit into 20 ms.      *)
do_conn_linger_trim ==
    /\ conn_trim_linger_ > 0 /\ Free
    /\ \E n \in 1 .. Len(conns_idle_) :
         conns_idle_' = SubSeq(conns_idle_, n + 1, Len(conns_idle_))
    /\ UNCHANGED <<conns_busy_, mutex, made, workVars, broken, at, conn,
                   terminated>>

-----------------------------------------------------------------------------
ThreadStep(t) ==
    \/ Wait(t) \/ TakeIdle(t) \/ Connect(t)
    \/ Connected(t) \/ ConnectFails(t)
    \/ Insert(t) \/ create_table(t) \/ InsertAgain(t)
    \/ free_conn(t) \/ Notify(t)

PoolNext ==
    \/ \E t \in Borrowers : InsertRow(t) \/ ThreadStep(t) \/ UseThrows(t)
    \/ ServerCloses \/ do_conn_linger_trim

PoolSpec == PoolInit /\ [][PoolNext]_connPoolVars

(* Threads go on, and a statement or a connect ends, one way or another.   *)
PoolFairness == \A t \in Borrowers : WF_connPoolVars(ThreadStep(t))

-----------------------------------------------------------------------------
Conns == 1 .. MaxConns

(* Every variable has its type; a row is tried twice at most.              *)
PoolTypeOK ==
    /\ conns_idle_ \in Seq(Conns) /\ conns_busy_ \subseteq Conns
    /\ mutex \in Borrowers \cup {Nobody}
    /\ made \in 1 .. MaxConns /\ broken \subseteq Conns
    /\ at \in [Borrowers -> {"away", "request", "wait", "connect", "execute", "create",
                               "again", "stored", "not_stored", "notify"}]
    /\ conn \in [Borrowers -> Conns \cup {NoConn}]
    /\ table \in BOOLEAN
    /\ rows \in [Borrowers -> 0 .. 2] /\ inserts \in [Borrowers -> 0 .. MaxInserts]
    /\ terminated \in BOOLEAN

(* A connection is lent to one thread at a time and is not idle meanwhile, *)
(* the pool knows of every connection it has lent, and idle and lent ones  *)
(* together are never more than the capacity, whichever of request, return *)
(* and trimming come between (do_request_conn, free_conn).                 *)
LentOnce ==
    /\ Len(conns_idle_) + Cardinality(conns_busy_) <= capacity_
    /\ conns_busy_ = {conn[t] : t \in Borrowers} \ {NoConn}
    /\ \A t, u \in Borrowers : conn[t] = conn[u] /\ conn[t] # NoConn => t = u
    /\ IsInjective(conns_idle_) /\ Range(conns_idle_) \cap conns_busy_ = {}

(* An insert that reports success has put its row into the table, however  *)
(* its first attempt ended.                                                *)
StoredIsThere == \A t \in Borrowers : at[t] = "stored" => rows[t] > 0

(* Every thread that wants a connection gets one or is told that there is  *)
(* none, unless the program is terminated: no wake-up is lost between the  *)
(* return of a connection, the trimming and the dropping of broken ones.   *)
RequestsEnd ==
    \A t \in Borrowers : (at[t] = "request") ~> (at[t] \notin {"request", "wait"} \/ terminated)
=============================================================================
