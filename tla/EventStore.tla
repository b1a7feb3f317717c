----------------------------- MODULE EventStore -----------------------------
(***************************************************************************)
(* The stores behind StoreIf: Business/StoreLevelDB.cpp with its cache of  *)
(* open databases, Business/StoreSql.cpp, and Business/Sort.h.  Handler    *)
(* and helper threads insert rows while executor threads run selects on    *)
(* the same store object.                                                  *)
(*                                                                         *)
(* One service; a database (LevelDB) or table (SQL) per month.  Tags are   *)
(* numbers in the order of the strings, 0 is the empty string and 1 "T".   *)
(* p50 stands for the three quantiles, which are treated alike.            *)
(***************************************************************************)
EXTENDS EventItem, SequencesExt

CONSTANTS
    StoreTypes,         \* the stores StoreFactory may have made
    Threads,            \* the threads that use the store
    Rows,               \* the rows (event_insert_t) that are inserted
    Conds,              \* the conditions (event_cond_t) of selects
    Linger,             \* event_linger, the linger_hint of a select
    Top,                \* 9999999999: the largest number of its width
    MonthLen,           \* seconds in a month
    SortThreshold,      \* 16: std::sort of no more elements is an insertion sort
    InitTime, MaxTime,  \* bounds of the clock
    None                \* "no database in the cache", "no call under way"

GroupBy == {"none", "timestamp", "tag"}
OrderBy == {"none", "timestamp", "tag", "count", "value_sum", "value_avg",
            "value_min", "value_max", "value_p50"}

get_table_suffix(t) == t \div MonthLen
Months == 0 .. get_table_suffix(MaxTime)

(* event_insert_t and event_cond_t, as far as they matter here.            *)
IsRow(r) ==
    /\ DOMAIN r = {"timestamp", "metric", "tag", "entity_idx", "count", "value_sum",
                   "value_min", "value_max", "value_p50"}
    /\ r.timestamp \in 1 .. Top /\ r.tag \in Nat /\ r.count \in Nat \ {0}
    /\ {r.value_sum, r.value_min, r.value_max, r.value_p50} \subseteq Int

IsCond(c) ==
    /\ c.tm_start \in Int /\ c.tm_interval \in Nat /\ c.limit \in Nat
    /\ c.groupby \in GroupBy /\ c.orderby \in OrderBy /\ c.desc \in BOOLEAN

ASSUME StoreAssumption ==
    /\ StoreTypes \subseteq {"leveldb", "sql"}
    /\ Linger \in Nat /\ MonthLen \in Nat \ {0} /\ Top \in Nat
    /\ SortThreshold \in Nat
    /\ InitTime \in Nat /\ MaxTime \in Nat /\ Linger <= InitTime /\ InitTime <= MaxTime
    /\ IsFiniteSet(Rows) /\ Rows \cap Conds = {} /\ None \notin Rows \cup Conds /\ None \notin Months
    /\ \A r \in Rows : IsRow(r)
    /\ \A c \in Conds : IsCond(c)

VARIABLES
    store_,     \* which of the two stores this is
    now,        \* ::time(NULL)
    levelDBs_,  \* LevelDB: the database that the cache holds open, or None
    dbs,        \* the databases or tables that exist, with their rows
    thr,        \* per thread: where it is in a call of the store
    openFailed  \* an Open met a database that this process had open

vars == <<store_, now, levelDBs_, dbs, thr, openFailed>>

Idle == [pc |-> "idle", suffix |-> 0, op |-> None, upto |-> 0]

Init ==
    /\ store_ \in StoreTypes
    /\ now = InitTime
    /\ levelDBs_ = None
    /\ dbs = <<>>
    /\ thr = [t \in Threads |-> Idle]
    /\ openFailed = FALSE

(* The clock.  No thread is held up in get_leveldb_handler beyond the end  *)
(* of the month it has read from the clock.                                *)
Tick ==
    /\ now < MaxTime
    /\ \A t \in Threads : thr[t].pc = "create" => get_table_suffix(now + 1) = thr[t].suffix
    /\ now' = now + 1
    /\ UNCHANGED <<store_, levelDBs_, dbs, thr, openFailed>>

-----------------------------------------------------------------------------
(* What both stores do.                                                    *)

RowsOf(s) == IF s \in DOMAIN dbs THEN dbs[s] ELSE {}

(* dbs with S as the rows of database s.                                   *)
With(s, S) == [x \in DOMAIN dbs \cup {s} |-> IF x = s THEN S ELSE dbs[x]]

(* A tag that is empty is stored as "T".                                   *)
StoredRow(r) == IF r.tag = 0 THEN [r EXCEPT !.tag = 1] ELSE r

(* The time from which a select looks back: events that are younger than   *)
(* Linger are still on their way.                                          *)
RealStart(c) ==
    IF c.tm_start > 0 /\ c.tm_start < now - Linger THEN c.tm_start ELSE now - Linger

Matches(r, c) ==
    /\ r.metric = c.metric
    /\ c.tag # 0 => r.tag = c.tag
    /\ c.entity_idx # "" => r.entity_idx = c.entity_idx

(* The statistics over a set of rows, or of group records: an event_info_t *)
(* whose time stamp and tag are left empty.                                *)
Collect(S) ==
    LET count == MapThenSumSet(LAMBDA r : r.count, S)
        sum   == MapThenSumSet(LAMBDA r : r.value_sum, S)
        p50   == MapThenSumSet(LAMBDA r : r.value_p50, S)
    IN  [timestamp |-> 0,
         tag       |-> 0,
         count     |-> count,
         value_sum |-> sum,
         value_avg |-> IF count = 0 THEN 0 ELSE Quotient(sum, count),
         value_min |-> IF count = 0 THEN 0 ELSE Min({r.value_min : r \in S}),
         value_max |-> IF count = 0 THEN 0 ELSE Max({r.value_max : r \in S}),
         value_p50 |-> IF count = 0 THEN 0 ELSE Quotient(p50, Cardinality(S))]

(* The numbers of K in ascending order: the keys of a std::map.            *)
Ascending(K) ==
    [n \in 1 .. Cardinality(K) |->
        CHOOSE k \in K : Cardinality({j \in K : j < k}) = n - 1]

(* Mutant: the sums are not reset from one group to the next.              *)
Details_NoReset(S, by) ==
    LET keys == Ascending({r[by] : r \in S})
    IN  [n \in DOMAIN keys |->
            [Collect({r \in S : r[by] <= keys[n]}) EXCEPT ![by] = keys[n]]]

(* The detail records of the groups, in ascending order of the group key   *)
(* (timestamp or tag); the other of the two fields stays empty.            *)
Details(S, by) ==
    LET keys == Ascending({r[by] : r \in S})
    IN  [n \in DOMAIN keys |->
            [Collect({r \in S : r[by] = keys[n]}) EXCEPT ![by] = keys[n]]]

(* The comparators of Sort.h: of a descending order, which is the default, *)
(* it is the negation of the ascending one, and so true of equal elements. *)
Before(a, b, c) ==
    IF c.desc THEN ~(a[c.orderby] < b[c.orderby]) ELSE a[c.orderby] < b[c.orderby]

(* What std::sort of libstdc++ makes a sequence of with such a comparator. *)
(* Few elements are put in by insertion, which orders them whatever it     *)
(* says of equal ones; among more no two may come before each other.       *)
Sortable(info, c) ==
    \/ Len(info) <= SortThreshold
    \/ \A m, n \in DOMAIN info :
          m # n => ~(Before(info[m], info[n], c) /\ Before(info[n], info[m], c))

(* A record of the memory beside the vector.                               *)
Wild == Collect({})

(* Sort::do_sort: in order, ties in any order, when std::sort is defined.  *)
(* When it is not, the partition loop may leave the vector: then any of    *)
(* the records may end up anywhere, others with them (or the server stops, *)
(* a behaviour that ends here).                                            *)
do_sort(info, c) ==
    IF Sortable(info, c)
    THEN {s \in SetToSeqs(Range(info)) :
             \A m, n \in DOMAIN s : m < n =>
                IF c.desc THEN Before(s[m], s[n], c) ELSE ~Before(s[n], s[m], c)}
    ELSE [DOMAIN info -> Range(info) \cup {Wild}]

Shorten(info, limit) == SubSeq(info, 1, IF Len(info) > limit THEN limit ELSE Len(info))

-----------------------------------------------------------------------------
(* StoreLevelDB.  A key is metric#timestamp#tag#entity_idx, with the time  *)
(* stamp counted down from Top so that later rows come first.              *)
Key(r) == <<r.metric, r.timestamp, r.tag, r.entity_idx>>

timestamp_exchange(t) == Top - t

(* Mutant: the bound itself is still read.                                 *)
KeyBefore_Inclusive(n, b) == n <= b

(* The key with exchanged time stamp n comes before the bound b, compared  *)
(* as strings: a key goes on after the number, and a bound beyond Top has  *)
(* one digit more.                                                         *)
KeyBefore(n, b) == IF b <= Top THEN n < b ELSE 10 * n <= b

(* The keys of the iterator loop: from Seek(t_upper) up to t_lower.        *)
LevelDBSelected(rows, c, upto) ==
    {r \in rows :
        /\ timestamp_exchange(upto) <= timestamp_exchange(r.timestamp)
        /\ c.tm_interval > 0 => KeyBefore(timestamp_exchange(r.timestamp),
                                          timestamp_exchange(upto - c.tm_interval))
        /\ Matches(r, c)}

(* The details that select_ev_stat may return: the groups of by_timestamp  *)
(* or by_tag, ordered and cut when there is a limit; none without groups.  *)
LevelDBInfos(S, c) ==
    IF c.groupby = "none" THEN {<<>>}
    ELSE IF c.orderby = "none" \/ c.limit = 0 THEN {Details(S, c.groupby)}
    ELSE {Shorten(s, c.limit) : s \in do_sort(Details(S, c.groupby), c)}

(* The databases that are open: a handle lives as long as the cache or a   *)
(* thread has it.                                                          *)
OpenDBs == {levelDBs_} \cup {thr[u].suffix : u \in {v \in Threads : thr[v].pc = "ready"}}

(* Mutant: does not look into the cache again under lock_.                 *)
get_leveldb_handler_NoRecheck(t) ==
    LET s == thr[t].suffix
    IN  /\ thr[t].pc = "create"
        /\ \/ /\ s \notin OpenDBs
              /\ levelDBs_' = s
              /\ dbs' = With(s, RowsOf(s))
              /\ thr' = [thr EXCEPT ![t].pc = "ready"]
              /\ UNCHANGED openFailed
           \/ /\ s \in OpenDBs
              /\ openFailed' = TRUE
              /\ thr' = [thr EXCEPT ![t] = Idle]
              /\ UNCHANGED <<levelDBs_, dbs>>
        /\ UNCHANGED <<store_, now>>

(* get_leveldb_handler under lock_: look again, then open, and make the    *)
(* database if it is missing.  LevelDB refuses to open one a second time.  *)
get_leveldb_handler(t) ==
    LET s == thr[t].suffix
    IN  /\ thr[t].pc = "create"
        /\ \/ /\ levelDBs_ = s
              /\ thr' = [thr EXCEPT ![t].pc = "ready"]
              /\ UNCHANGED <<levelDBs_, dbs, openFailed>>
           \/ /\ levelDBs_ # s /\ s \notin OpenDBs
              /\ levelDBs_' = s
              /\ dbs' = With(s, RowsOf(s))
              /\ thr' = [thr EXCEPT ![t].pc = "ready"]
              /\ UNCHANGED openFailed
           \/ /\ levelDBs_ # s /\ s \in OpenDBs
              /\ openFailed' = TRUE
              /\ thr' = [thr EXCEPT ![t] = Idle]
              /\ UNCHANGED <<levelDBs_, dbs>>
        /\ UNCHANGED <<store_, now>>

(* Open failed for another reason: the call returns -1.                    *)
OpenError(t) ==
    /\ thr[t].pc = "create" /\ levelDBs_ # thr[t].suffix
    /\ thr' = [thr EXCEPT ![t] = Idle]
    /\ UNCHANGED <<store_, now, levelDBs_, dbs, openFailed>>

(* Put: a row with the same key is replaced.                               *)
Put(rows, r) == {o \in rows : Key(o) # Key(r)} \cup {r}

-----------------------------------------------------------------------------
(* StoreSql.                                                               *)

(* The WHERE clause of build_sql.                                          *)
SqlSelected(rows, c, upto) ==
    {r \in rows : r.timestamp <= upto /\ r.timestamp > upto - c.tm_interval /\ Matches(r, c)}

(* Groups by time stamp come latest first, groups by tag in any order.     *)
SqlResults(S, c) ==
    IF c.groupby = "timestamp" THEN {Reverse(Details(S, "timestamp"))}
                               ELSE SetToSeqs(Range(Details(S, "tag")))

(* The result of the query is only ordered, and then cut, when there is no *)
(* limit.                                                                  *)
SqlInfos(S, c) ==
    IF S = {} \/ c.orderby = "none" \/ c.limit # 0 THEN SqlResults(S, c)
    ELSE {Shorten(s, c.limit) : s \in do_sort(Details(S, c.groupby), c)}

(* The query of an ungrouped select has a comma before FROM: MySQL rejects *)
(* it, as it does a query of a table that is not there.                    *)
QueryOk(c, s) == s \in DOMAIN dbs /\ c.groupby # "none"

-----------------------------------------------------------------------------
(* A call begins.  LevelDB takes the database of the current month, SQL    *)
(* the table of the row's time stamp or of the start of the select.  The   *)
(* handler inserts the rows of a slot once, after its linger time.         *)
Begin(t, op) ==
    LET upto == IF op \in Conds THEN RealStart(op) ELSE op.timestamp
        s    == get_table_suffix(IF store_ = "leveldb" THEN now ELSE upto)
    IN  /\ thr[t].pc = "idle"
        /\ op \in Rows => /\ op.timestamp + Linger < now
                          /\ \A u \in Threads : thr[u].op # op
                          /\ \A m \in DOMAIN dbs : StoredRow(op) \notin dbs[m]
        /\ thr' = [thr EXCEPT ![t] =
              [pc |-> IF store_ = "sql" \/ levelDBs_ = s THEN "ready" ELSE "create",
               suffix |-> s, op |-> op, upto |-> upto]]
        /\ UNCHANGED <<store_, now, levelDBs_, dbs, openFailed>>

(* insert_ev_stat.  SQL makes a table that is missing and tries again.     *)
insert_ev_stat(t) ==
    LET r == StoredRow(thr[t].op)
        s == thr[t].suffix
    IN  /\ thr[t].pc = "ready" /\ thr[t].op \in Rows
        /\ dbs' = With(s, IF store_ = "leveldb" THEN Put(RowsOf(s), r) ELSE RowsOf(s) \cup {r})
        /\ thr' = [thr EXCEPT ![t] = Idle]
        /\ UNCHANGED <<store_, now, levelDBs_, openFailed>>

Selecting(t) == thr[t].pc = "ready" /\ thr[t].op \in Conds

(* The rows a select finds, and the details and the summary it returns.    *)
Found(t) ==
    LET rows == RowsOf(thr[t].suffix)
    IN  IF store_ = "leveldb" THEN LevelDBSelected(rows, thr[t].op, thr[t].upto)
                              ELSE SqlSelected(rows, thr[t].op, thr[t].upto)

Infos(t) ==
    IF store_ = "leveldb" THEN LevelDBInfos(Found(t), thr[t].op)
                          ELSE SqlInfos(Found(t), thr[t].op)

Summary(t) ==
    IF store_ = "leveldb" THEN Collect(Found(t))
                          ELSE Collect(Range(Details(Found(t), thr[t].op.groupby)))

Answers(t) == store_ = "sql" => QueryOk(thr[t].op, thr[t].suffix)

(* select_ev_stat gives its answer, which the properties look at, and      *)
(* leaves the store as it is.                                              *)
select_ev_stat(t) ==
    /\ Selecting(t)
    /\ thr' = [thr EXCEPT ![t] = Idle]
    /\ UNCHANGED <<store_, now, levelDBs_, dbs, openFailed>>

Next ==
    \/ Tick
    \/ \E t \in Threads :
          \/ \E op \in Rows \cup Conds : Begin(t, op)
          \/ get_leveldb_handler(t) \/ OpenError(t)
          \/ insert_ev_stat(t) \/ select_ev_stat(t)

Spec == Init /\ [][Next]_vars

-----------------------------------------------------------------------------
(* Properties                                                              *)

(* Every variable has its type, and no select reaches into the last Linger *)
(* seconds.                                                                *)
TypeOK ==
    /\ store_ \in StoreTypes /\ now \in InitTime .. MaxTime
    /\ levelDBs_ \in Months \cup {None}
    /\ DOMAIN dbs \subseteq Months
    /\ \A m \in DOMAIN dbs : dbs[m] \subseteq {StoredRow(r) : r \in Rows}
    /\ thr \in [Threads -> [pc : {"idle", "create", "ready"}, suffix : Months,
                            op : Rows \cup Conds \cup {None}, upto : Nat]]
    /\ \A t \in Threads : thr[t].upto <= now - Linger
    /\ openFailed \in BOOLEAN

(* The rows that a select is asked for, wherever they are stored: those of *)
(* the tm_interval seconds up to its start time; 0 is "no limit"           *)
(* (event_cond_t).                                                         *)
Asked(t) ==
    LET c == thr[t].op
    IN  {r \in UNION {dbs[m] : m \in DOMAIN dbs} :
            /\ r.timestamp <= thr[t].upto
            /\ c.tm_interval = 0 \/ thr[t].upto - c.tm_interval < r.timestamp
            /\ Matches(r, c)}

(* The window of a select begins in the month of the one database that it  *)
(* reads; for LevelDB that is the month of the clock, and still is.        *)
WithinMonth(t) ==
    LET c     == thr[t].op
        first == IF c.tm_interval = 0 THEN 1 ELSE thr[t].upto - c.tm_interval + 1
    IN  /\ get_table_suffix(first) = thr[t].suffix
        /\ store_ = "leveldb" => get_table_suffix(now) = thr[t].suffix

(* A select whose window lies within the month sees exactly the rows it    *)
(* was asked for, of all that are stored: the key order of LevelDB, with   *)
(* time counted backwards and compared as strings, and the bounds of its   *)
(* iterator loop cut out the same rows as the comparison of times in SQL,  *)
(* and none of them is in the database of another month, however late it   *)
(* was inserted.  Not for SQL without lower bound, which asks for rows that *)
(* are later than the start and not later (StoreSql.cpp:190), and not for  *)
(* an interval that reaches back before time 0.                            *)
WindowIsExact ==
    \A t \in Threads :
        (/\ Selecting(t) /\ Answers(t) /\ WithinMonth(t)
         /\ thr[t].op.tm_interval <= thr[t].upto
         /\ store_ = "sql" => thr[t].op.tm_interval > 0) => Found(t) = Asked(t)

(* What was kept of the details: everything, unless the select cut them.   *)
Uncut(t) ==
    /\ thr[t].op.groupby # "none"
    /\ thr[t].op.orderby = "none" \/ (store_ = "leveldb" <=> thr[t].op.limit = 0)

(* Details and summary tell the same story, in every order the details may *)
(* come in: each row is in exactly one group, and the counts and sums of   *)
(* the groups add up to those of the summary, whose extremes are those of  *)
(* some group.                                                             *)
GroupsAddUp ==
    \A t \in Threads : Selecting(t) /\ Answers(t) /\ Uncut(t) =>
        \A info \in Infos(t) :
            LET groups == Range(info)
            IN  /\ Cardinality(groups) = Len(info)
                /\ MapThenSumSet(LAMBDA g : g.count, groups) = Summary(t).count
                /\ MapThenSumSet(LAMBDA g : g.value_sum, groups) = Summary(t).value_sum
                /\ groups # {} => /\ Summary(t).value_min = Min({g.value_min : g \in groups})
                                  /\ Summary(t).value_max = Max({g.value_max : g \in groups})

(* The cache never tries to open a database that is open already, however  *)
(* many threads miss it at the turn of a month.                            *)
OpenOnce == ~openFailed
=============================================================================
