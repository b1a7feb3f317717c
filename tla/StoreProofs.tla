---------------------------- MODULE StoreProofs ----------------------------
(* Theorems about EventStat, EventStore, Query and ConnPool, for every       *)
(* value of their constants.                                                 *)
EXTENDS Query, ConnPool, EventStat, FiniteSetTheorems, SequenceTheorems, WellFoundedInduction, TLAPS

Lent == {"execute", "create", "again", "stored", "not_stored"}

(* A thread has a connection exactly while it is at work on its row.       *)
HoldsWhileAtWork == \A t \in Borrowers : conn[t] # NoConn <=> at[t] \in Lent

(* conn_notify_mutex_ is held by the one thread that connects, and as long *)
(* as it does, nothing changes in what it has checked before.              *)
RoomIsKept ==
    /\ \A t \in Borrowers : at[t] = "connect" <=> mutex = t
    /\ mutex # Nobody => RoomLeft

(* The connections of the pool have been made; the next is a new one.      *)
KnownConns == Range(conns_idle_) \cup conns_busy_ \subseteq 1 .. made

(* An insert is tried twice at most, and the first time at "execute".      *)
RowsSoFar ==
    \A t \in Borrowers :
        /\ at[t] \notin Lent \ {"execute"} => rows[t] = 0
        /\ at[t] \in {"create", "again"} => rows[t] <= 1

PoolInv ==
    /\ PoolTypeOK /\ HoldsWhileAtWork /\ RoomIsKept /\ KnownConns
    /\ LentOnce /\ RowsSoFar /\ StoredIsThere

-----------------------------------------------------------------------------
(* Lending the first idle connection, and trimming the first n.            *)
LEMMA LendFirstFacts ==
    ASSUME NEW S, NEW s \in Seq(S), s # <<>>
    PROVE  /\ Head(s) \in Range(s) /\ Tail(s) \in Seq(S)
           /\ Len(Tail(s)) = Len(s) - 1
           /\ Range(Tail(s)) \subseteq Range(s)
           /\ IsInjective(s) => IsInjective(Tail(s)) /\ Head(s) \notin Range(Tail(s))
<1>1. /\ Tail(s) \in Seq(S) /\ Len(s) \in Nat \ {0} /\ Len(Tail(s)) = Len(s) - 1
      /\ DOMAIN s = 1 .. Len(s) /\ DOMAIN Tail(s) = 1 .. (Len(s) - 1)
      /\ Head(s) = s[1]
      /\ \A i \in DOMAIN Tail(s) : Tail(s)[i] = s[i + 1]
  OBVIOUS
<1>2. \A i \in DOMAIN Tail(s) : i + 1 \in DOMAIN s /\ i + 1 # 1
  BY <1>1
<1>3. Head(s) \in Range(s) /\ Range(Tail(s)) \subseteq Range(s)
  BY <1>1, <1>2 DEF Range
<1>4. ASSUME IsInjective(s) PROVE IsInjective(Tail(s))
  <2> SUFFICES ASSUME NEW a \in DOMAIN Tail(s), NEW b \in DOMAIN Tail(s),
                      Tail(s)[a] = Tail(s)[b]
               PROVE  a = b
    BY DEF IsInjective
  <2>1. a + 1 = b + 1
    BY <1>1, <1>2, <1>4 DEF IsInjective
  <2> QED BY <1>1, <2>1
<1>5. ASSUME IsInjective(s) PROVE Head(s) \notin Range(Tail(s))
  BY <1>1, <1>2, <1>5 DEF IsInjective, Range
<1> QED BY <1>1, <1>3, <1>4, <1>5

LEMMA DropFirst ==
    ASSUME NEW S, NEW s \in Seq(S), NEW n \in Nat, n <= Len(s)
    PROVE  /\ SubSeq(s, n + 1, Len(s)) \in Seq(S)
           /\ Len(SubSeq(s, n + 1, Len(s))) = Len(s) - n
           /\ \A i \in 1 .. (Len(s) - n) : SubSeq(s, n + 1, Len(s))[i] = s[i + n]
  OBVIOUS

LEMMA TrimFacts ==
    ASSUME NEW S, NEW s \in Seq(S), NEW r \in Seq(S), NEW n \in Nat, n <= Len(s),
           Len(r) = Len(s) - n, \A i \in 1 .. (Len(s) - n) : r[i] = s[i + n]
    PROVE  /\ Range(r) \subseteq Range(s)
           /\ IsInjective(s) => IsInjective(r)
<1>1. /\ Len(s) \in Nat /\ DOMAIN s = 1 .. Len(s) /\ DOMAIN r = 1 .. (Len(s) - n)
      /\ \A i \in DOMAIN r : i \in Nat /\ i + n \in DOMAIN s /\ r[i] = s[i + n]
  <2>1. Len(s) \in Nat /\ DOMAIN s = 1 .. Len(s) /\ DOMAIN r = 1 .. Len(r)
    OBVIOUS
  <2>2. DOMAIN r = 1 .. (Len(s) - n)
    BY <2>1
  <2>3. \A l \in Nat : \A i \in 1 .. (l - n) : i \in Nat /\ i + n \in 1 .. l
    BY ONLY n \in Nat
  <2>4. \A i \in 1 .. (Len(s) - n) : i \in Nat /\ i + n \in 1 .. Len(s)
    BY ONLY <2>1, <2>3
  <2> QED BY <2>1, <2>2, <2>4
<1>2. Range(r) \subseteq Range(s)
  BY <1>1 DEF Range
<1>3. ASSUME IsInjective(s) PROVE IsInjective(r)
  <2> SUFFICES ASSUME NEW a \in DOMAIN r, NEW b \in DOMAIN r, r[a] = r[b]
               PROVE  a = b
    BY DEF IsInjective
  <2>1. a + n = b + n
    BY <1>1, <1>3 DEF IsInjective
  <2>2. a \in Nat /\ b \in Nat
    BY <1>1
  <2> QED BY <2>1, <2>2
<1> QED BY <1>2, <1>3

(* Giving a connection back.                                               *)
LEMMA GiveBackFacts ==
    ASSUME NEW S, NEW s \in Seq(S), NEW x \in S
    PROVE  /\ Append(s, x) \in Seq(S) /\ Len(Append(s, x)) = Len(s) + 1
           /\ Range(Append(s, x)) = Range(s) \cup {x}
           /\ IsInjective(s) /\ x \notin Range(s) => IsInjective(Append(s, x))
<1> DEFINE r == Append(s, x)
<1>1. /\ r \in Seq(S) /\ Len(s) \in Nat /\ Len(r) = Len(s) + 1
      /\ DOMAIN s = 1 .. Len(s) /\ DOMAIN r = 1 .. (Len(s) + 1)
      /\ \A i \in DOMAIN s : r[i] = s[i]
      /\ r[Len(s) + 1] = x
  OBVIOUS
<1>2. DOMAIN r = DOMAIN s \cup {Len(s) + 1}
  BY <1>1
<1>3. Range(r) = Range(s) \cup {x}
  BY <1>1, <1>2 DEF Range
<1>4. ASSUME IsInjective(s), x \notin Range(s) PROVE IsInjective(r)
  BY <1>1, <1>2, <1>4 DEF IsInjective, Range
<1> QED BY <1>1, <1>3, <1>4

(* The connections that are lent are finitely many.                        *)
LEMMA BusyFinite ==
    ASSUME PoolTypeOK
    PROVE  IsFiniteSet(conns_busy_) /\ Cardinality(conns_busy_) \in Nat
<1>1. IsFiniteSet(Conns)
  BY FS_Interval, PoolAssumption DEF Conns
<1>2. IsFiniteSet(conns_busy_)
  BY <1>1, FS_Subset DEF PoolTypeOK
<1> QED BY <1>2, FS_CardinalityType

LEMMA InitPool == PoolInit => PoolInv
<1> SUFFICES ASSUME PoolInit PROVE PoolInv
  OBVIOUS
<1>0. /\ conns_idle_ \in Seq(Conns) /\ Len(conns_idle_) = 1
      /\ DOMAIN conns_idle_ = {1} /\ conns_idle_[1] = 1
  <2>1. conns_idle_ = <<1>>
    BY DEF PoolInit
  <2>2. 1 \in Conns
    BY PoolAssumption DEF Conns
  <2> QED BY <2>1, <2>2
<1>1. Range(conns_idle_) = {1} /\ IsInjective(conns_idle_)
  BY <1>0 DEF Range, IsInjective
<1>2. PoolTypeOK
  <2>1. /\ made \in 1 .. MaxConns /\ 0 \in 0 .. MaxInserts /\ broken \subseteq Conns
        /\ conns_busy_ \subseteq Conns
    BY PoolAssumption DEF PoolInit
  <2>2. /\ conn \in [Borrowers -> Conns \cup {NoConn}]
        /\ rows \in [Borrowers -> 0 .. 2] /\ inserts \in [Borrowers -> 0 .. MaxInserts]
    BY <2>1 DEF PoolInit, NoConn
  <2> QED BY <1>0, <2>1, <2>2 DEF PoolInit, PoolTypeOK
<1>3. LentOnce
  BY <1>0, <1>1, FS_EmptySet, PoolAssumption DEF PoolInit, LentOnce, NoConn
<1> QED
  BY <1>1, <1>2, <1>3, PoolAssumption DEF PoolInit, PoolInv, HoldsWhileAtWork, RoomIsKept,
      KnownConns, RowsSoFar, StoredIsThere, Lent, NoConn

-----------------------------------------------------------------------------
LEMMA NextPool == PoolInv /\ [PoolNext]_connPoolVars => PoolInv'
<1> SUFFICES ASSUME PoolInv, [PoolNext]_connPoolVars PROVE PoolInv'
  OBVIOUS
<1> USE DEF PoolInv, NoConn
<1>0. /\ conns_idle_ \in Seq(Conns) /\ Len(conns_idle_) \in Nat
      /\ IsFiniteSet(conns_busy_) /\ Cardinality(conns_busy_) \in Nat
      /\ capacity_ \in Nat /\ Nobody \notin Borrowers
      /\ 0 \notin Conns /\ made \in Nat
  BY BusyFinite, PoolAssumption DEF PoolTypeOK, Conns
<1>1. ASSUME NEW t \in Borrowers, InsertRow(t) PROVE PoolInv'
  <2>0. PoolTypeOK'
    BY <1>1, PoolAssumption DEF InsertRow, GoTo, PoolTypeOK, poolVars
  <2>1. /\ HoldsWhileAtWork' /\ RowsSoFar' /\ StoredIsThere'
    BY <1>1 DEF InsertRow, GoTo, PoolTypeOK, HoldsWhileAtWork, RowsSoFar, StoredIsThere,
                poolVars, Lent
  <2> QED BY <1>1, <2>0, <2>1, <1>0 DEF InsertRow, GoTo, RoomIsKept, RoomLeft, KnownConns, LentOnce,
                poolVars, PoolTypeOK
<1>2. ASSUME NEW t \in Borrowers, Wait(t) PROVE PoolInv'
  <2>1. /\ PoolTypeOK' /\ HoldsWhileAtWork' /\ RowsSoFar' /\ StoredIsThere'
    BY <1>2 DEF Wait, GoTo, PoolTypeOK, HoldsWhileAtWork, RowsSoFar, StoredIsThere,
                poolVars, workVars, Lent
  <2> QED BY <1>2, <2>1, <1>0 DEF Wait, GoTo, RoomIsKept, RoomLeft, KnownConns, LentOnce,
                poolVars, workVars, PoolTypeOK
<1>3. ASSUME NEW t \in Borrowers, TakeIdle(t) PROVE PoolInv'
  <2> DEFINE h == Head(conns_idle_)
  <2>1. /\ conns_idle_ # <<>> /\ at[t] = "request" /\ conn[t] = 0 /\ mutex = Nobody
        /\ conns_idle_' = Tail(conns_idle_)
        /\ conns_busy_' = conns_busy_ \cup {h}
        /\ conn' = [conn EXCEPT ![t] = h]
        /\ at' = [at EXCEPT ![t] = "execute"]
        /\ UNCHANGED <<mutex, made, table, rows, inserts, broken, terminated>>
    BY <1>3 DEF TakeIdle, LendFirst, GoTo, Free, workVars, HoldsWhileAtWork, Lent
  <2>2. /\ h \in Range(conns_idle_) /\ conns_idle_' \in Seq(Conns)
        /\ Len(conns_idle_') = Len(conns_idle_) - 1
        /\ Range(conns_idle_') \subseteq Range(conns_idle_)
        /\ IsInjective(conns_idle_') /\ h \notin Range(conns_idle_')
    BY <1>0, <2>1, LendFirstFacts DEF LentOnce
  <2>3. h \in Conns /\ h # 0 /\ h \notin conns_busy_
    BY <1>0, <2>1, <2>2 DEF LentOnce
  <2>4. Cardinality(conns_busy_') = Cardinality(conns_busy_) + 1
    BY <1>0, <2>1, <2>3, FS_AddElement
  <2>5. PoolTypeOK' /\ RowsSoFar' /\ StoredIsThere'
    BY <2>1, <2>2, <2>3 DEF PoolTypeOK, RowsSoFar, StoredIsThere, Lent
  <2>6. HoldsWhileAtWork'
    BY <2>1, <2>3 DEF PoolTypeOK, HoldsWhileAtWork, Lent
  <2>7. RoomIsKept'
    BY <1>0, <2>1 DEF PoolTypeOK, RoomIsKept
  <2>8. KnownConns'
    BY <2>1, <2>2 DEF KnownConns
  <2>9. conns_busy_' = {conn'[u] : u \in Borrowers} \ {0}
    BY <2>1, <2>3 DEF PoolTypeOK, LentOnce
  <2>10. \A u, v \in Borrowers : conn'[u] = conn'[v] /\ conn'[u] # 0 => u = v
    BY <2>1, <2>3 DEF PoolTypeOK, LentOnce
  <2>11. Range(conns_idle_') \cap conns_busy_' = {}
    BY <2>1, <2>2 DEF LentOnce
  <2>12. Len(conns_idle_') + Cardinality(conns_busy_') <= capacity_
    BY <1>0, <2>2, <2>4 DEF LentOnce
  <2>13. LentOnce'
    BY <2>2, <2>9, <2>10, <2>11, <2>12 DEF LentOnce
  <2> QED BY <2>5, <2>6, <2>7, <2>8, <2>13
<1>4. ASSUME NEW t \in Borrowers, Connect(t) PROVE PoolInv'
  <2>1. /\ PoolTypeOK' /\ HoldsWhileAtWork' /\ RowsSoFar' /\ StoredIsThere'
    BY <1>4 DEF Connect, GoTo, PoolTypeOK, HoldsWhileAtWork, RowsSoFar, StoredIsThere, workVars, Lent
  <2>2. RoomIsKept'
    BY <1>0, <1>4 DEF Connect, GoTo, RoomIsKept, RoomLeft, PoolTypeOK, Free
  <2> QED BY <1>4, <2>1, <2>2 DEF Connect, KnownConns, LentOnce
<1>5. ASSUME NEW t \in Borrowers, Connected(t) PROVE PoolInv'
  <2> DEFINE n == made + 1
  <2>1. /\ at[t] = "connect" /\ conn[t] = 0 /\ mutex = t
        /\ made < MaxConns /\ made' = n
        /\ conns_busy_' = conns_busy_ \cup {n}
        /\ conn' = [conn EXCEPT ![t] = n]
        /\ mutex' = Nobody
        /\ at' = [at EXCEPT ![t] = "execute"]
        /\ UNCHANGED <<conns_idle_, table, rows, inserts, broken, terminated>>
    BY <1>5 DEF Connected, GoTo, workVars, HoldsWhileAtWork, RoomIsKept, Lent
  <2>2. n \in Conns /\ n # 0 /\ n \notin conns_busy_ /\ n \notin Range(conns_idle_)
    BY <1>0, <2>1, PoolAssumption DEF KnownConns, Conns
  <2>3. Cardinality(conns_busy_') = Cardinality(conns_busy_) + 1
    BY <1>0, <2>1, <2>2, FS_AddElement
  <2>4. Len(conns_idle_) + Cardinality(conns_busy_) < capacity_
    BY <1>0, <2>1 DEF RoomIsKept, RoomLeft
  <2>5. PoolTypeOK' /\ RowsSoFar' /\ StoredIsThere'
    BY <2>1, <2>2 DEF PoolTypeOK, RowsSoFar, StoredIsThere, Lent, Conns
  <2>6. HoldsWhileAtWork'
    BY <2>1, <2>2 DEF PoolTypeOK, HoldsWhileAtWork, Lent
  <2>7. RoomIsKept'
    BY <1>0, <2>1 DEF PoolTypeOK, RoomIsKept
  <2>8. KnownConns'
    BY <1>0, <2>1 DEF KnownConns
  <2>9. conns_busy_' = {conn'[u] : u \in Borrowers} \ {0}
    BY <2>1, <2>2 DEF PoolTypeOK, LentOnce
  <2>10. \A u, v \in Borrowers : conn'[u] = conn'[v] /\ conn'[u] # 0 => u = v
    BY <2>1, <2>2 DEF PoolTypeOK, LentOnce
  <2>11. Range(conns_idle_') \cap conns_busy_' = {}
    BY <2>1, <2>2 DEF LentOnce
  <2>12. Len(conns_idle_') + Cardinality(conns_busy_') <= capacity_
    BY <1>0, <2>1, <2>3, <2>4
  <2>13. LentOnce'
    BY <2>1, <2>9, <2>10, <2>11, <2>12 DEF LentOnce
  <2> QED BY <2>5, <2>6, <2>7, <2>8, <2>13
<1>6. ASSUME NEW t \in Borrowers, ConnectFails(t) PROVE PoolInv'
  <2>1. /\ PoolTypeOK' /\ HoldsWhileAtWork' /\ RowsSoFar' /\ StoredIsThere'
    BY <1>6 DEF ConnectFails, GoTo, PoolTypeOK, HoldsWhileAtWork, RowsSoFar, StoredIsThere, workVars, Lent
  <2>2. RoomIsKept'
    BY <1>0, <1>6 DEF ConnectFails, GoTo, RoomIsKept, PoolTypeOK
  <2> QED BY <1>6, <2>1, <2>2 DEF ConnectFails, KnownConns, LentOnce
<1>7. ASSUME NEW t \in Borrowers, UseThrows(t) PROVE PoolInv'
  BY <1>7 DEF UseThrows, PoolTypeOK, HoldsWhileAtWork, RoomIsKept, RoomLeft, KnownConns, LentOnce,
              RowsSoFar, StoredIsThere, poolVars, workVars
<1>8. ASSUME NEW t \in Borrowers, NEW from, NEW good, NEW failed,
             at[t] = from, execute_update(t, good, failed), Unchanged,
             \/ from = "execute" /\ good = "stored" /\ failed = "create"
             \/ from = "again" /\ good = "stored" /\ failed = "not_stored"
      PROVE  PoolInv'
  <2>1. /\ \/ at' = [at EXCEPT ![t] = failed] /\ UNCHANGED rows
           \/ /\ at' = [at EXCEPT ![t] = failed] \/ at' = [at EXCEPT ![t] = good]
              /\ rows' = [rows EXCEPT ![t] = @ + 1]
        /\ broken' \in {broken \ {conn[t]}, broken \cup {conn[t]}}
        /\ UNCHANGED <<conns_idle_, conns_busy_, mutex, made, table, conn, inserts, terminated>>
    BY <1>8 DEF execute_update, GoTo, Unchanged, poolVars
  <2>2. conn[t] \in Conns /\ rows[t] \in 0 .. 2 /\ rows[t] <= 1
        /\ (from = "execute" => rows[t] = 0)
    BY <1>8 DEF HoldsWhileAtWork, RowsSoFar, PoolTypeOK, Lent
  <2>3. PoolTypeOK'
    <3>a. rows[t] + 1 \in 0 .. 2
      BY <2>2
    <3>b. rows' \in [Borrowers -> 0 .. 2]
      <4>1. rows' = rows \/ rows' = [rows EXCEPT ![t] = rows[t] + 1]
        BY <2>1
      <4> QED BY <3>a, <4>1 DEF PoolTypeOK
    <3>1. rows' \in [Borrowers -> 0 .. 2] /\ broken' \subseteq Conns
      BY <2>1, <2>2, <3>b DEF PoolTypeOK
    <3>2. at' = [at EXCEPT ![t] = failed] \/ at' = [at EXCEPT ![t] = good]
      BY <2>1
    <3>3. at' \in [Borrowers -> {"away", "request", "wait", "connect", "execute", "create",
                               "again", "stored", "not_stored", "notify"}]
      BY <1>8, <3>2 DEF PoolTypeOK
    <3> QED BY <2>1, <3>1, <3>3 DEF PoolTypeOK
  <2>4. HoldsWhileAtWork' /\ RoomIsKept' /\ KnownConns' /\ LentOnce'
    <3>1. \A u \in Borrowers : /\ at'[u] \in Lent <=> at[u] \in Lent
                               /\ at'[u] = "connect" <=> at[u] = "connect"
      BY <1>8, <2>1 DEF Lent, PoolTypeOK
    <3> QED BY <2>1, <3>1 DEF HoldsWhileAtWork, RoomIsKept, RoomLeft, KnownConns, LentOnce
  <2>5. RowsSoFar'
    BY <1>8, <2>1, <2>2 DEF RowsSoFar, Lent, PoolTypeOK
  <2>6. StoredIsThere'
    BY <1>8, <2>1, <2>2 DEF StoredIsThere, PoolTypeOK
  <2> QED BY <2>3, <2>4, <2>5, <2>6
<1>9. ASSUME NEW t \in Borrowers, create_table(t) PROVE PoolInv'
  <2>1. /\ at[t] = "create" /\ at' = [at EXCEPT ![t] = "again"]
        /\ table' \in BOOLEAN
        /\ broken' \in {broken \ {conn[t]}, broken \cup {conn[t]}}
        /\ UNCHANGED <<conns_idle_, conns_busy_, mutex, made, rows, conn, inserts, terminated>>
    BY <1>9 DEF create_table, GoTo, Unchanged, poolVars, PoolTypeOK
  <2>2. conn[t] \in Conns
    BY <2>1 DEF HoldsWhileAtWork, PoolTypeOK, Lent
  <2>3. PoolTypeOK'
    BY <2>1, <2>2 DEF PoolTypeOK
  <2>4. HoldsWhileAtWork' /\ RoomIsKept' /\ KnownConns' /\ LentOnce'
    BY <2>1 DEF HoldsWhileAtWork, RoomIsKept, RoomLeft, KnownConns, LentOnce, Lent, PoolTypeOK
  <2>5. RowsSoFar' /\ StoredIsThere'
    BY <2>1 DEF RowsSoFar, StoredIsThere, Lent, PoolTypeOK
  <2> QED BY <2>3, <2>4, <2>5
<1>10. ASSUME NEW t \in Borrowers, free_conn(t) PROVE PoolInv'
  <2> DEFINE x == conn[t]
  <2>1. /\ at[t] \in {"stored", "not_stored"} /\ mutex = Nobody
        /\ conns_idle_' = IF x \in broken THEN conns_idle_ ELSE Append(conns_idle_, x)
        /\ conns_busy_' = conns_busy_ \ {x}
        /\ conn' = [conn EXCEPT ![t] = 0]
        /\ rows' = [rows EXCEPT ![t] = 0]
        /\ at' = [at EXCEPT ![t] = "notify"]
        /\ UNCHANGED <<mutex, made, table, inserts, broken, terminated>>
    BY <1>10 DEF free_conn, GoTo, Free
  <2>2. x \in Conns /\ x # 0 /\ x \in conns_busy_ /\ x \notin Range(conns_idle_)
    <3>1. x \in Conns /\ x # 0
      BY <1>0, <2>1 DEF HoldsWhileAtWork, PoolTypeOK, Lent
    <3> QED BY <3>1 DEF LentOnce
  <2>3. Cardinality(conns_busy_') = Cardinality(conns_busy_) - 1
    BY <1>0, <2>1, <2>2, FS_RemoveElement
  <2>4. /\ conns_idle_' \in Seq(Conns) /\ Len(conns_idle_') <= Len(conns_idle_) + 1
        /\ Range(conns_idle_') \subseteq Range(conns_idle_) \cup {x}
        /\ IsInjective(conns_idle_') /\ Len(conns_idle_') \in Nat
    BY <1>0, <2>1, <2>2, GiveBackFacts DEF LentOnce
  <2>5. PoolTypeOK' /\ RowsSoFar' /\ StoredIsThere'
    BY <2>1, <2>2, <2>4 DEF PoolTypeOK, RowsSoFar, StoredIsThere, Lent
  <2>6. HoldsWhileAtWork'
    BY <2>1, <2>2 DEF PoolTypeOK, HoldsWhileAtWork, Lent
  <2>7. RoomIsKept'
    BY <1>0, <2>1 DEF PoolTypeOK, RoomIsKept
  <2>8. KnownConns'
    BY <2>1, <2>2, <2>4 DEF KnownConns
  <2>9. conns_busy_' = {conn'[u] : u \in Borrowers} \ {0}
    BY <2>1, <2>2 DEF PoolTypeOK, LentOnce
  <2>10. \A u, v \in Borrowers : conn'[u] = conn'[v] /\ conn'[u] # 0 => u = v
    BY <2>1, <2>2 DEF PoolTypeOK, LentOnce
  <2>11. Range(conns_idle_') \cap conns_busy_' = {}
    BY <2>1, <2>2, <2>4 DEF LentOnce
  <2>12. Len(conns_idle_') + Cardinality(conns_busy_') <= capacity_
    BY <1>0, <2>3, <2>4 DEF LentOnce
  <2>13. LentOnce'
    BY <2>4, <2>9, <2>10, <2>11, <2>12 DEF LentOnce
  <2> QED BY <2>5, <2>6, <2>7, <2>8, <2>13
<1>11. ASSUME NEW t \in Borrowers, Notify(t) PROVE PoolInv'
  <2>1. /\ PoolTypeOK' /\ HoldsWhileAtWork' /\ RowsSoFar' /\ StoredIsThere'
    BY <1>11 DEF Notify, PoolTypeOK, HoldsWhileAtWork, RowsSoFar, StoredIsThere, poolVars, workVars, Lent
  <2> QED BY <1>11, <2>1 DEF Notify, RoomIsKept, RoomLeft, KnownConns, LentOnce,
                poolVars, workVars, PoolTypeOK
<1>12. CASE ServerCloses
  <2>1. Range(conns_idle_) \subseteq Conns
    BY <1>0, RangeOfSeq
  <2> QED BY <1>12, <2>1 DEF ServerCloses, PoolTypeOK, HoldsWhileAtWork, RoomIsKept, RoomLeft,
              KnownConns, LentOnce, RowsSoFar, StoredIsThere, poolVars, workVars
<1>13. CASE do_conn_linger_trim
  <2>1. PICK n \in 1 .. Len(conns_idle_) : conns_idle_' = SubSeq(conns_idle_, n + 1, Len(conns_idle_))
    BY <1>13 DEF do_conn_linger_trim
  <2>2. /\ mutex = Nobody
        /\ UNCHANGED <<conns_busy_, mutex, made, table, rows, inserts, broken, at, conn, terminated>>
    BY <1>13 DEF do_conn_linger_trim, Free, workVars
  <2>3. /\ conns_idle_' \in Seq(Conns) /\ Len(conns_idle_') <= Len(conns_idle_)
        /\ Range(conns_idle_') \subseteq Range(conns_idle_) /\ IsInjective(conns_idle_')
        /\ Len(conns_idle_') \in Nat
    <3>1. n \in Nat /\ n <= Len(conns_idle_)
      BY <1>0
    <3>2. /\ conns_idle_' \in Seq(Conns) /\ Len(conns_idle_') = Len(conns_idle_) - n
          /\ \A i \in 1 .. (Len(conns_idle_) - n) : conns_idle_'[i] = conns_idle_[i + n]
      BY <1>0, <2>1, <3>1, DropFirst
    <3>3. Range(conns_idle_') \subseteq Range(conns_idle_) /\ IsInjective(conns_idle_')
      BY <1>0, <3>1, <3>2, TrimFacts DEF LentOnce
    <3> QED BY <1>0, <3>1, <3>2, <3>3
  <2>4. Len(conns_idle_') + Cardinality(conns_busy_) <= capacity_
    BY <1>0, <2>3 DEF LentOnce
  <2>5. LentOnce'
    BY <2>2, <2>3, <2>4 DEF LentOnce
  <2> QED BY <2>2, <2>3, <2>5 DEF PoolTypeOK, HoldsWhileAtWork, RoomIsKept, KnownConns, RowsSoFar,
              StoredIsThere
<1>14. CASE UNCHANGED connPoolVars
  BY <1>14 DEF connPoolVars, poolVars, workVars, PoolTypeOK, HoldsWhileAtWork, RoomIsKept, RoomLeft,
              KnownConns, LentOnce, RowsSoFar, StoredIsThere
<1>15. ASSUME NEW t \in Borrowers, Insert(t) \/ InsertAgain(t) PROVE PoolInv'
  BY <1>8, <1>15 DEF Insert, InsertAgain
<1> QED
  BY <1>1, <1>2, <1>3, <1>4, <1>5, <1>6, <1>7, <1>9, <1>10, <1>11, <1>12, <1>13, <1>14, <1>15
     DEF PoolNext, ThreadStep

(* The mutex of the pool is enough: no interleaving of requests, returns,  *)
(* trimming and broken connections lends a connection twice, forgets one   *)
(* that is lent, or makes more of them than the capacity, for any number   *)
(* of threads and any capacity.                                            *)
THEOREM LentToOne == PoolSpec => []LentOnce
<1>1. PoolInv => LentOnce
  BY DEF PoolInv
<1> QED BY <1>1, InitPool, NextPool, PTL DEF PoolSpec

(* insert_ev_stat reports success only for a row that is in the table,     *)
(* whatever became of the first attempt and of the connection.             *)
THEOREM StoredMeansStored == PoolSpec => []StoredIsThere
<1>1. PoolInv => StoredIsThere
  BY DEF PoolInv
<1> QED BY <1>1, InitPool, NextPool, PTL DEF PoolSpec

-----------------------------------------------------------------------------
(* Induction over the naturals and over finite sets, stated with a set of  *)
(* instances instead of a predicate.                                       *)
LEMMA NatInductionSet ==
    ASSUME NEW P \in SUBSET Nat, 0 \in P, \A n \in P : n + 1 \in P
    PROVE  P = Nat
<1> SUFFICES ASSUME Nat \ P # {} PROVE FALSE
  OBVIOUS
<1>1. IsWellFoundedOn(OpToRel(<, Nat), Nat)
  BY NatLessThanWellFounded
<1>2. PICK n \in Nat \ P : \A y \in Nat \ P : ~ (<<y, n>> \in OpToRel(<, Nat))
  <2> DEFINE R == OpToRel(<, Nat)
             T == Nat \ P
  <2>1. T \subseteq Nat /\ T # {} /\ IsWellFoundedOn(R, Nat)
    BY <1>1
  <2> HIDE DEF R, T
  <2>2. \E x \in T : \A y \in T : ~ (<<y, x>> \in R)
    BY <2>1, WFMin
  <2> QED BY <2>2 DEF R, T
<1>3. \A y \in Nat \ P : ~ (y < n)
  BY <1>2 DEF OpToRel
<1>4. n # 0 /\ n - 1 \in Nat /\ n - 1 < n /\ (n - 1) + 1 = n
  OBVIOUS
<1>5. n - 1 \in P
  BY <1>3, <1>4
<1> QED BY <1>4, <1>5

LEMMA SetInduction ==
    ASSUME NEW S, IsFiniteSet(S), NEW P \in SUBSET (SUBSET S), {} \in P,
           \A A \in P : \A x \in S \ A : A \cup {x} \in P
    PROVE  P = SUBSET S
<1> DEFINE Q == {n \in Nat : \A A \in SUBSET S : Cardinality(A) = n => A \in P}
<1>0. \A A \in SUBSET S : IsFiniteSet(A) /\ Cardinality(A) \in Nat
  BY FS_Subset, FS_CardinalityType
<1>1. 0 \in Q
  BY <1>0, FS_EmptySet
<1>2. ASSUME NEW n \in Q PROVE n + 1 \in Q
  <2> SUFFICES ASSUME NEW A \in SUBSET S, Cardinality(A) = n + 1 PROVE A \in P
    OBVIOUS
  <2>1. A # {}
    BY <1>0, FS_EmptySet
  <2>2. PICK x : x \in A
    BY <2>1
  <2>3. Cardinality(A \ {x}) = (n + 1) - 1
    BY <1>0, <2>2, FS_RemoveElement
  <2>4. Cardinality(A \ {x}) = n
    BY <2>3
  <2>5. A \ {x} \in P
    BY <2>4
  <2>6. (A \ {x}) \cup {x} = A
    BY <2>2
  <2> QED BY <2>2, <2>5, <2>6
<1>3. Q = Nat
  <2>1. Q \in SUBSET Nat
    OBVIOUS
  <2> HIDE DEF Q
  <2> QED BY <1>1, <1>2, <2>1, NatInductionSet
<1> QED BY <1>0, <1>3

(* A fold over the subsets of a finite set S: the elements are taken out   *)
(* one by one as ch says, and h combines each with the result for the      *)
(* rest.  There is exactly one such function.                              *)
IsFold(F, h, b, ch, S) ==
    /\ F = [s \in SUBSET S |-> F[s]]
    /\ \A s \in SUBSET S : F[s] = IF s = {} THEN b ELSE h[<<ch[s], F[s \ {ch[s]}]>>]

LEMMA FoldExists ==
    ASSUME NEW S, IsFiniteSet(S), NEW V, NEW b \in V, NEW h \in [S \X V -> V],
           NEW ch, \A s \in (SUBSET S) \ {{}} : ch[s] \in s
    PROVE  \E F \in [SUBSET S -> V] : IsFold(F, h, b, ch, S)
<1> DEFINE Small(n) == {s \in SUBSET S : Cardinality(s) <= n}
           Approx(F, n) ==
               \A s \in Small(n) : F[s] = IF s = {} THEN b ELSE h[<<ch[s], F[s \ {ch[s]}]>>]
           Q == {n \in Nat : \E F \in [Small(n) -> V] : Approx(F, n)}
<1>0. \A A \in SUBSET S : IsFiniteSet(A) /\ Cardinality(A) \in Nat
  BY FS_Subset, FS_CardinalityType
<1>1. 0 \in Q
  <2>1. \A s \in Small(0) : s = {}
    BY <1>0, FS_EmptySet
  <2> DEFINE F == [s \in Small(0) |-> b]
  <2>2. F \in [Small(0) -> V] /\ Approx(F, 0)
    BY <2>1
  <2> QED BY <2>2
<1>2. ASSUME NEW n \in Q PROVE n + 1 \in Q
  <2>1. PICK F \in [Small(n) -> V] : Approx(F, n)
    OBVIOUS
  <2>2. \A s \in Small(n + 1) : s # {} => s \ {ch[s]} \in Small(n) /\ ch[s] \in S
    <3> SUFFICES ASSUME NEW s \in Small(n + 1), s # {}
                 PROVE  s \ {ch[s]} \in Small(n) /\ ch[s] \in S
      OBVIOUS
    <3>1. ch[s] \in s
      OBVIOUS
    <3>2. Cardinality(s \ {ch[s]}) = Cardinality(s) - 1
      BY <1>0, <3>1, FS_RemoveElement
    <3> QED BY <1>0, <3>1, <3>2
  <2> DEFINE G == [s \in Small(n + 1) |-> IF s = {} THEN b ELSE h[<<ch[s], F[s \ {ch[s]}]>>]]
  <2>3. \A s \in Small(n) : s \in Small(n + 1) /\ G[s] = F[s]
    BY <1>0, <2>1
  <2>4. G \in [Small(n + 1) -> V]
    BY <2>1, <2>2
  <2>5. Approx(G, n + 1)
    <3> SUFFICES ASSUME NEW s \in Small(n + 1)
                 PROVE  G[s] = IF s = {} THEN b ELSE h[<<ch[s], G[s \ {ch[s]}]>>]
      OBVIOUS
    <3>1. CASE s = {}
      BY <3>1
    <3>2. CASE s # {}
      <4>1. G[s \ {ch[s]}] = F[s \ {ch[s]}]
        BY <2>2, <2>3, <3>2
      <4>2. G[s] = h[<<ch[s], F[s \ {ch[s]}]>>]
        BY <3>2
      <4> QED BY <3>2, <4>1, <4>2
    <3> QED BY <3>1, <3>2
  <2> HIDE DEF G, Small, Approx
  <2>6. n + 1 \in Nat
    OBVIOUS
  <2> QED BY <2>4, <2>5, <2>6
<1>3. Q = Nat
  <2>1. Q \in SUBSET Nat
    OBVIOUS
  <2> HIDE DEF Q
  <2> QED BY <1>1, <1>2, <2>1, NatInductionSet
<1>4. Cardinality(S) \in Nat /\ Small(Cardinality(S)) = SUBSET S
  BY <1>0, FS_Subset
<1>5. PICK F \in [Small(Cardinality(S)) -> V] : Approx(F, Cardinality(S))
  <2>1. Cardinality(S) \in Q
    <3> HIDE DEF Q
    <3> QED BY <1>3, <1>4
  <2> HIDE DEF Small, Approx
  <2> QED BY <2>1
<1>6. /\ F \in [SUBSET S -> V]
      /\ \A s \in SUBSET S : F[s] = IF s = {} THEN b ELSE h[<<ch[s], F[s \ {ch[s]}]>>]
  <2> HIDE DEF Small
  <2> QED BY <1>4, <1>5
<1>7. F = [s \in SUBSET S |-> F[s]]
  BY <1>6
<1> QED BY <1>6, <1>7 DEF IsFold

(* MapThenSumSet with a function of the elements.  It is what the sums of  *)
(* Collect are, and it can be reasoned about without its recursion.        *)
Total(g, S) == MapThenSumSet(LAMBDA x : g[x], S)

AnyOf(s) == CHOOSE x \in s : TRUE

IsSum(F, g, S) ==
    F = [s \in SUBSET S |-> IF s = {} THEN 0 ELSE g[AnyOf(s)] + F[s \ {AnyOf(s)}]]

LEMMA SumExists ==
    ASSUME NEW S, IsFiniteSet(S), NEW g, \A x \in S : g[x] \in Int
    PROVE  \E F \in [SUBSET S -> Int] : IsSum(F, g, S)
<1> DEFINE h == [p \in S \X Int |-> g[p[1]] + p[2]]
           ch == [s \in SUBSET S |-> AnyOf(s)]
<1>1. h \in [S \X Int -> Int]
  OBVIOUS
<1>2. \A s \in (SUBSET S) \ {{}} : AnyOf(s) \in s /\ ch[s] = AnyOf(s)
  BY DEF AnyOf
<1>3. \A s \in (SUBSET S) \ {{}} : ch[s] \in s
  BY <1>2
<1>4. \A x \in S : \A v \in Int : h[<<x, v>>] = g[x] + v
  OBVIOUS
<1> HIDE DEF h, ch
<1>5. PICK F \in [SUBSET S -> Int] : IsFold(F, h, 0, ch, S)
  <2>1. 0 \in Int
    OBVIOUS
  <2> QED BY <1>1, <1>3, <2>1, FoldExists
<1>6. ASSUME NEW s \in SUBSET S
      PROVE  F[s] = IF s = {} THEN 0 ELSE g[AnyOf(s)] + F[s \ {AnyOf(s)}]
  <2>1. CASE s = {}
    BY <1>5, <2>1 DEF IsFold
  <2>2. CASE s # {}
    <3>1. ch[s] = AnyOf(s) /\ AnyOf(s) \in S
      BY <1>2, <2>2
    <3>2. F[s] = h[<<AnyOf(s), F[s \ {AnyOf(s)}]>>]
      BY <1>5, <2>2, <3>1 DEF IsFold
    <3>3. F[s \ {AnyOf(s)}] \in Int
      BY <1>5
    <3> QED BY <1>4, <2>2, <3>1, <3>2, <3>3
  <2> QED BY <2>1, <2>2
<1>7. F = [s \in SUBSET S |-> IF s = {} THEN 0 ELSE g[AnyOf(s)] + F[s \ {AnyOf(s)}]]
  <2>1. F = [s \in SUBSET S |-> F[s]]
    BY <1>5
  <2> QED BY <1>6, <2>1
<1> QED BY <1>7 DEF IsSum

LEMMA SumUnique ==
    ASSUME NEW S, IsFiniteSet(S), NEW T, S \subseteq T, NEW g, NEW k,
           \A x \in S : g[x] = k[x],
           NEW F, IsSum(F, g, S), NEW G, IsSum(G, k, T)
    PROVE  \A s \in SUBSET S : F[s] = G[s]
<1> DEFINE Q == {n \in Nat : \A s \in SUBSET S : Cardinality(s) = n => F[s] = G[s]}
<1>0. \A A \in SUBSET S : IsFiniteSet(A) /\ Cardinality(A) \in Nat
  BY FS_Subset, FS_CardinalityType
<1>a. \A s \in SUBSET S :
        /\ F[s] = IF s = {} THEN 0 ELSE g[AnyOf(s)] + F[s \ {AnyOf(s)}]
        /\ G[s] = IF s = {} THEN 0 ELSE k[AnyOf(s)] + G[s \ {AnyOf(s)}]
  <2> SUFFICES ASSUME NEW s \in SUBSET S
               PROVE  /\ F[s] = IF s = {} THEN 0 ELSE g[AnyOf(s)] + F[s \ {AnyOf(s)}]
                      /\ G[s] = IF s = {} THEN 0 ELSE k[AnyOf(s)] + G[s \ {AnyOf(s)}]
    OBVIOUS
  <2>1. s \in SUBSET T
    OBVIOUS
  <2>2. F[s] = IF s = {} THEN 0 ELSE g[AnyOf(s)] + F[s \ {AnyOf(s)}]
    BY DEF IsSum
  <2>3. G[s] = IF s = {} THEN 0 ELSE k[AnyOf(s)] + G[s \ {AnyOf(s)}]
    BY <2>1 DEF IsSum
  <2> QED BY <2>2, <2>3
<1>1. 0 \in Q
  BY <1>0, <1>a, FS_EmptySet
<1>2. ASSUME NEW n \in Q PROVE n + 1 \in Q
  <2> SUFFICES ASSUME NEW s \in SUBSET S, Cardinality(s) = n + 1 PROVE F[s] = G[s]
    OBVIOUS
  <2>1. s # {}
    BY <1>0, FS_EmptySet
  <2>2. AnyOf(s) \in s
    BY <2>1 DEF AnyOf
  <2>3. Cardinality(s \ {AnyOf(s)}) = (n + 1) - 1
    <3>1. PICK x \in s : x = AnyOf(s)
      BY <2>2
    <3>2. IsFiniteSet(s)
      BY <1>0
    <3>3. Cardinality(s \ {x}) = Cardinality(s) - 1
      BY <3>1, <3>2, FS_RemoveElement
    <3> QED BY <3>1, <3>3
  <2>4. F[s \ {AnyOf(s)}] = G[s \ {AnyOf(s)}]
    BY <2>3
  <2>5. g[AnyOf(s)] = k[AnyOf(s)]
    BY <2>2
  <2> QED BY <1>a, <2>1, <2>4, <2>5
<1>3. Q = Nat
  <2>1. Q \in SUBSET Nat
    OBVIOUS
  <2> HIDE DEF Q
  <2> QED BY <1>1, <1>2, <2>1, NatInductionSet
<1> QED BY <1>0, <1>3

(* Total is the value of the sum function; so are the sums over a field.   *)
LEMMA TotalIs ==
    ASSUME NEW S, IsFiniteSet(S), NEW g, \A x \in S : g[x] \in Int
    PROVE  \E F \in [SUBSET S -> Int] : IsSum(F, g, S) /\ Total(g, S) = F[S]
<1>1. PICK F \in [SUBSET S -> Int] : IsSum(F, g, S)
  BY SumExists
<1> DEFINE C == CHOOSE f : f = [s \in SUBSET S |->
                     IF s = {} THEN 0 ELSE g[CHOOSE x \in s : TRUE] + f[s \ {CHOOSE x \in s : TRUE}]]
<1>2. Total(g, S) = C[S]
  BY DEF Total, MapThenSumSet, MapThenFoldSet
<1>3. C = [s \in SUBSET S |->
              IF s = {} THEN 0 ELSE g[CHOOSE x \in s : TRUE] + C[s \ {CHOOSE x \in s : TRUE}]]
  BY <1>1 DEF IsSum, AnyOf
<1> HIDE DEF C
<1>4. IsSum(C, g, S)
  BY <1>3 DEF IsSum, AnyOf
<1>5. C[S] = F[S]
  BY <1>1, <1>4, SumUnique
<1> QED BY <1>1, <1>2, <1>5

LEMMA CountTotal ==
    ASSUME NEW S, IsFiniteSet(S), NEW g, \A r \in S : r.count \in Int /\ g[r] = r.count
    PROVE  MapThenSumSet(LAMBDA r : r.count, S) = Total(g, S)
<1>1. PICK F \in [SUBSET S -> Int] : IsSum(F, g, S) /\ Total(g, S) = F[S]
  <2>1. \A x \in S : g[x] \in Int
    OBVIOUS
  <2> QED BY <2>1, TotalIs
<1> DEFINE Eq(G) == G = [s \in SUBSET S |-> IF s = {} THEN 0
                           ELSE (CHOOSE x \in s : TRUE).count + G[s \ {CHOOSE x \in s : TRUE}]]
           C == CHOOSE G : Eq(G)
<1>2. MapThenSumSet(LAMBDA r : r.count, S) = C[S]
  BY DEF MapThenSumSet, MapThenFoldSet
<1>3. ASSUME NEW G
      PROVE  IsSum(G, g, S) <=> Eq(G)
  <2>1. \A s \in (SUBSET S) \ {{}} : AnyOf(s) \in S /\ AnyOf(s) = CHOOSE x \in s : TRUE
    BY DEF AnyOf
  <2>2. \A s \in (SUBSET S) \ {{}} : g[AnyOf(s)] = (CHOOSE x \in s : TRUE).count
    BY <2>1
  <2>3. [s \in SUBSET S |-> IF s = {} THEN 0 ELSE g[AnyOf(s)] + G[s \ {AnyOf(s)}]]
        = [s \in SUBSET S |->
             IF s = {} THEN 0 ELSE (CHOOSE x \in s : TRUE).count + G[s \ {CHOOSE x \in s : TRUE}]]
    BY <2>1, <2>2
  <2> QED BY <2>3 DEF IsSum
<1> HIDE DEF Eq
<1>4. IsSum(C, g, S)
  <2>1. Eq(F)
    BY <1>1, <1>3
  <2>2. Eq(C)
    BY <2>1
  <2> QED BY <1>3, <2>2
<1> HIDE DEF C
<1>5. C[S] = F[S]
  BY <1>1, <1>4, SumUnique
<1> QED BY <1>1, <1>2, <1>5
LEMMA ValueSumTotal ==
    ASSUME NEW S, IsFiniteSet(S), NEW g, \A r \in S : r.value_sum \in Int /\ g[r] = r.value_sum
    PROVE  MapThenSumSet(LAMBDA r : r.value_sum, S) = Total(g, S)
<1>1. PICK F \in [SUBSET S -> Int] : IsSum(F, g, S) /\ Total(g, S) = F[S]
  <2>1. \A x \in S : g[x] \in Int
    OBVIOUS
  <2> QED BY <2>1, TotalIs
<1> DEFINE Eq(G) == G = [s \in SUBSET S |-> IF s = {} THEN 0
                           ELSE (CHOOSE x \in s : TRUE).value_sum + G[s \ {CHOOSE x \in s : TRUE}]]
           C == CHOOSE G : Eq(G)
<1>2. MapThenSumSet(LAMBDA r : r.value_sum, S) = C[S]
  BY DEF MapThenSumSet, MapThenFoldSet
<1>3. ASSUME NEW G
      PROVE  IsSum(G, g, S) <=> Eq(G)
  <2>1. \A s \in (SUBSET S) \ {{}} : AnyOf(s) \in S /\ AnyOf(s) = CHOOSE x \in s : TRUE
    BY DEF AnyOf
  <2>2. \A s \in (SUBSET S) \ {{}} : g[AnyOf(s)] = (CHOOSE x \in s : TRUE).value_sum
    BY <2>1
  <2>3. [s \in SUBSET S |-> IF s = {} THEN 0 ELSE g[AnyOf(s)] + G[s \ {AnyOf(s)}]]
        = [s \in SUBSET S |->
             IF s = {} THEN 0 ELSE (CHOOSE x \in s : TRUE).value_sum + G[s \ {CHOOSE x \in s : TRUE}]]
    BY <2>1, <2>2
  <2> QED BY <2>3 DEF IsSum
<1> HIDE DEF Eq
<1>4. IsSum(C, g, S)
  <2>1. Eq(F)
    BY <1>1, <1>3
  <2>2. Eq(C)
    BY <2>1
  <2> QED BY <1>3, <2>2
<1> HIDE DEF C
<1>5. C[S] = F[S]
  BY <1>1, <1>4, SumUnique
<1> QED BY <1>1, <1>2, <1>5

(* The totals of the subsets of T, whatever order they were taken in.      *)
AreTotals(F, g, T) ==
    /\ F \in [SUBSET T -> Int]
    /\ F[{}] = 0
    /\ \A A \in SUBSET T : Total(g, A) = F[A]
    /\ \A A \in SUBSET T : \A x \in T \ A : F[A \cup {x}] = g[x] + F[A]

LEMMA Totals ==
    ASSUME NEW T, IsFiniteSet(T), NEW g, \A x \in T : g[x] \in Int
    PROVE  \E F : AreTotals(F, g, T)
<1>1. PICK F \in [SUBSET T -> Int] : IsSum(F, g, T)
  BY SumExists
<1>0. \A A \in SUBSET T : IsFiniteSet(A) /\ Cardinality(A) \in Nat
  BY FS_Subset, FS_CardinalityType
<1>2. ASSUME NEW A \in SUBSET T PROVE Total(g, A) = F[A]
  <2>1. IsFiniteSet(A) /\ \A x \in A : g[x] \in Int
    BY <1>0
  <2>2. PICK G \in [SUBSET A -> Int] : IsSum(G, g, A) /\ Total(g, A) = G[A]
    BY <2>1, TotalIs
  <2>3. G[A] = F[A]
    <3>1. A \subseteq T /\ A \in SUBSET A /\ \A x \in A : g[x] = g[x]
      OBVIOUS
    <3>2. \A s \in SUBSET A : G[s] = F[s]
      BY ONLY <1>1, <2>1, <2>2, <3>1, SumUnique
    <3> QED BY <3>1, <3>2
  <2> QED BY <2>2, <2>3
<1>3. \A s \in SUBSET T : F[s] = IF s = {} THEN 0 ELSE g[AnyOf(s)] + F[s \ {AnyOf(s)}]
  <2> SUFFICES ASSUME NEW s \in SUBSET T
               PROVE  F[s] = IF s = {} THEN 0 ELSE g[AnyOf(s)] + F[s \ {AnyOf(s)}]
    OBVIOUS
  <2> QED BY <1>1 DEF IsSum
<1> DEFINE Adds(A) == \A x \in T \ A : F[A \cup {x}] = g[x] + F[A]
           Q == {n \in Nat : \A A \in SUBSET T : Cardinality(A) = n => Adds(A)}
<1>4. ASSUME NEW A \in SUBSET T, NEW x \in T \ A, AnyOf(A \cup {x}) = x
      PROVE  F[A \cup {x}] = g[x] + F[A]
  <2>1. A \cup {x} \in SUBSET T /\ A \cup {x} # {} /\ (A \cup {x}) \ {x} = A
    OBVIOUS
  <2> QED BY <1>3, <1>4, <2>1
<1>5. ASSUME NEW A \in SUBSET T, NEW x \in T \ A
      PROVE  AnyOf(A \cup {x}) \in A \cup {x}
  BY DEF AnyOf
<1>6. 0 \in Q
  <2> SUFFICES ASSUME NEW A \in SUBSET T, Cardinality(A) = 0, NEW x \in T \ A
               PROVE  F[A \cup {x}] = g[x] + F[A]
    OBVIOUS
  <2>1. A = {}
    BY <1>0, FS_EmptySet
  <2>2. AnyOf(A \cup {x}) = x
    BY <1>5, <2>1
  <2> QED BY <1>4, <2>2
<1>7. ASSUME NEW n \in Q PROVE n + 1 \in Q
  <2> SUFFICES ASSUME NEW A \in SUBSET T, Cardinality(A) = n + 1, NEW x \in T \ A,
                      NEW c \in A, AnyOf(A \cup {x}) = c
               PROVE  F[A \cup {x}] = g[x] + F[A]
    BY <1>4, <1>5
  <2> DEFINE B == A \ {c}
  <2>1. /\ B \in SUBSET T /\ c \in T \ B /\ x \in T \ B /\ B \cup {c} = A
        /\ (A \cup {x}) \ {c} = B \cup {x} /\ A \cup {x} # {} /\ A \cup {x} \in SUBSET T
        /\ B \cup {x} \in SUBSET T
    OBVIOUS
  <2>2. Cardinality(B) = (n + 1) - 1
    <3>1. IsFiniteSet(A)
      BY <1>0
    <3>2. Cardinality(A \ {c}) = Cardinality(A) - 1
      BY ONLY c \in A, <3>1, FS_RemoveElement
    <3> QED BY <3>2
  <2>3. Adds(B)
    <3>1. Cardinality(B) = n
      BY <2>2
    <3> HIDE DEF B
    <3> QED BY <2>1, <3>1
  <2> HIDE DEF B
  <2>4. F[B \cup {x}] = g[x] + F[B] /\ F[A] = g[c] + F[B]
    BY <2>1, <2>3
  <2>5. F[A \cup {x}] = g[c] + F[B \cup {x}]
    BY <1>3, <2>1
  <2>6. g[c] \in Int /\ g[x] \in Int /\ F[B] \in Int
    BY <1>1, <2>1
  <2> QED BY <2>4, <2>5, <2>6
<1>8. Q = Nat
  <2>1. Q \in SUBSET Nat
    OBVIOUS
  <2> HIDE DEF Q
  <2> QED BY <1>6, <1>7, <2>1, NatInductionSet
<1>9. \A A \in SUBSET T : Adds(A)
  <2> HIDE DEF Adds
  <2> QED BY <1>0, <1>8
<1>10. F[{}] = 0
  BY <1>3
<1> QED BY <1>1, <1>2, <1>9, <1>10 DEF AreTotals

(* The total over S is the total of the totals over the groups of S.       *)
LEMMA TotalByGroup ==
    ASSUME NEW S, IsFiniteSet(S), NEW g, \A x \in S : g[x] \in Int,
           NEW K, NEW key, \A x \in S : key[x] \in K, IsFiniteSet(K),
           NEW grp, \A k \in K : grp[k] \in SUBSET S /\ \A x \in S : x \in grp[k] <=> key[x] = k,
           NEW h, \A k \in K : h[k] = Total(g, grp[k])
    PROVE  Total(h, K) = Total(g, S)
<1>1. PICK F : AreTotals(F, g, S)
  BY Totals
<1>a. /\ F \in [SUBSET S -> Int] /\ F[{}] = 0
      /\ \A A \in SUBSET S : Total(g, A) = F[A]
      /\ \A A \in SUBSET S : \A x \in S \ A : F[A \cup {x}] = g[x] + F[A]
  BY <1>1 DEF AreTotals
<1>2. \A k \in K : h[k] = F[grp[k]] /\ h[k] \in Int
  BY <1>a
<1>3. PICK H : AreTotals(H, h, K)
  <2>1. \A k \in K : h[k] \in Int
    BY <1>2
  <2> QED BY <2>1, Totals
<1>b. /\ H \in [SUBSET K -> Int] /\ H[{}] = 0
      /\ \A A \in SUBSET K : Total(h, A) = H[A]
      /\ \A A \in SUBSET K : \A x \in K \ A : H[A \cup {x}] = h[x] + H[A]
  BY <1>3 DEF AreTotals
<1>4. ASSUME NEW A \in SUBSET S, NEW B \in SUBSET S, A \cap B = {}
      PROVE  F[A \cup B] = F[A] + F[B]
  <2> DEFINE P == {C \in SUBSET B : F[A \cup C] = F[A] + F[C]}
  <2>1. IsFiniteSet(B) /\ P \in SUBSET (SUBSET B)
    BY FS_Subset
  <2>2. {} \in P
    <3>1. A \cup {} = A /\ {} \in SUBSET B /\ F[A] \in Int
      BY <1>a
    <3> QED BY <1>a, <3>1
  <2>3. ASSUME NEW C \in P, NEW x \in B \ C PROVE C \cup {x} \in P
    <3>1. /\ C \in SUBSET S /\ x \in S \ C /\ A \cup C \in SUBSET S /\ x \in S \ (A \cup C)
          /\ A \cup (C \cup {x}) = (A \cup C) \cup {x} /\ C \cup {x} \in SUBSET B
      BY <1>4
    <3>2. F[(A \cup C) \cup {x}] = g[x] + F[A \cup C] /\ F[C \cup {x}] = g[x] + F[C]
      BY <1>a, <3>1
    <3>3. F[A \cup C] = F[A] + F[C]
      OBVIOUS
    <3>4. F[A] \in Int /\ F[C] \in Int /\ g[x] \in Int
      BY <1>a, <3>1
    <3>5. F[A \cup (C \cup {x})] = F[A] + F[C \cup {x}]
      <4>1. F[A \cup (C \cup {x})] = g[x] + (F[A] + F[C])
        BY <3>1, <3>2, <3>3
      <4>2. F[A] + F[C \cup {x}] = F[A] + (g[x] + F[C])
        BY <3>2
      <4>3. \A a, b, c \in Int : a + (b + c) = b + (a + c)
        OBVIOUS
      <4> QED BY ONLY <3>4, <4>1, <4>2, <4>3
    <3> QED BY <3>1, <3>5
  <2>4. P = SUBSET B
    <3> HIDE DEF P
    <3> QED BY <2>1, <2>2, <2>3, SetInduction
  <2>5. B \in P
    BY <2>4
  <2> QED BY <2>5
<1> DEFINE In(A) == {x \in S : key[x] \in A}
           P == {A \in SUBSET K : H[A] = F[In(A)]}
<1>5. {} \in P
  <2>1. In({}) = {}
    OBVIOUS
  <2> QED BY <1>a, <1>b, <2>1
<1>6. ASSUME NEW A \in P, NEW k \in K \ A PROVE A \cup {k} \in P
  <2> DEFINE G == grp[k]
  <2>1. /\ In(A) \in SUBSET S /\ G \in SUBSET S /\ In(A) \cap G = {}
        /\ In(A \cup {k}) = In(A) \cup G
    OBVIOUS
  <2>2. h[k] = F[G]
    BY <1>2
  <2>3. A \in SUBSET K /\ H[A] = F[In(A)]
    OBVIOUS
  <2> HIDE DEF G, In
  <2>4. F[In(A) \cup G] = F[In(A)] + F[G]
    BY <1>4, <2>1
  <2>5. H[A \cup {k}] = h[k] + H[A]
    BY <1>b, <2>3
  <2>6. F[G] \in Int /\ F[In(A)] \in Int
    BY <1>a, <2>1
  <2>7. H[A \cup {k}] = F[In(A \cup {k})]
    <3>1. H[A \cup {k}] = F[G] + F[In(A)] /\ F[In(A \cup {k})] = F[In(A)] + F[G]
      BY <2>1, <2>2, <2>3, <2>4, <2>5
    <3>2. \A a, b \in Int : a + b = b + a
      OBVIOUS
    <3> QED BY ONLY <2>6, <3>1, <3>2
  <2> QED BY <2>3, <2>7
<1>7. P = SUBSET K
  <2>1. P \in SUBSET (SUBSET K)
    OBVIOUS
  <2> HIDE DEF P
  <2> QED BY <1>5, <1>6, <2>1, SetInduction
<1>8. H[K] = F[In(K)]
  <2>1. K \in SUBSET K
    OBVIOUS
  <2>2. K \in P
    <3> HIDE DEF P
    <3> QED BY <1>7, <2>1
  <2> QED BY <2>2
<1>9. In(K) = S
  OBVIOUS
<1> QED BY <1>a, <1>b, <1>8, <1>9

(* A total does not depend on what the elements are called.                *)
LEMMA TotalRenamed ==
    ASSUME NEW K, IsFiniteSet(K), NEW d, \A k, l \in K : d[k] = d[l] => k = l,
           NEW h, \A k \in K : h[k] \in Int,
           NEW g, \A k \in K : g[d[k]] = h[k]
    PROVE  /\ IsFiniteSet({d[k] : k \in K}) /\ Cardinality({d[k] : k \in K}) = Cardinality(K)
           /\ Total(g, {d[k] : k \in K}) = Total(h, K)
<1> DEFINE D == {d[k] : k \in K}
           f == [k \in K |-> d[k]]
<1>1. f \in Bijection(K, D)
  BY DEF Bijection, Injection, IsInjective, Surjection
<1>2. IsFiniteSet(D) /\ Cardinality(D) = Cardinality(K)
  <2>1. ExistsBijection(K, D)
    BY <1>1 DEF ExistsBijection
  <2> HIDE DEF D
  <2> QED BY <2>1, FS_Bijection
<1>3. \A x \in D : g[x] \in Int
  OBVIOUS
<1>4. PICK F : AreTotals(F, g, D)
  <2> HIDE DEF D
  <2> QED BY <1>2, <1>3, Totals
<1>5. PICK H : AreTotals(H, h, K)
  BY Totals
<1>a. /\ F \in [SUBSET D -> Int] /\ F[{}] = 0
      /\ \A A \in SUBSET D : Total(g, A) = F[A]
      /\ \A A \in SUBSET D : \A x \in D \ A : F[A \cup {x}] = g[x] + F[A]
  BY <1>4 DEF AreTotals
<1>b. /\ H \in [SUBSET K -> Int] /\ H[{}] = 0
      /\ \A A \in SUBSET K : Total(h, A) = H[A]
      /\ \A A \in SUBSET K : \A x \in K \ A : H[A \cup {x}] = h[x] + H[A]
  BY <1>5 DEF AreTotals
<1> DEFINE Img(A) == {d[k] : k \in A}
           P == {A \in SUBSET K : F[Img(A)] = H[A]}
<1>6. {} \in P
  <2>1. Img({}) = {}
    OBVIOUS
  <2> QED BY <1>a, <1>b, <2>1
<1>7. ASSUME NEW A \in P, NEW k \in K \ A PROVE A \cup {k} \in P
  <2>1. /\ Img(A) \in SUBSET D /\ d[k] \in D \ Img(A) /\ Img(A \cup {k}) = Img(A) \cup {d[k]}
        /\ g[d[k]] = h[k]
    OBVIOUS
  <2>2. A \in SUBSET K /\ F[Img(A)] = H[A] /\ A \cup {k} \in SUBSET K
    OBVIOUS
  <2> HIDE DEF Img, D
  <2>3. F[Img(A) \cup {d[k]}] = g[d[k]] + F[Img(A)]
    BY <1>a, <2>1
  <2>4. H[A \cup {k}] = h[k] + H[A]
    BY <1>b, <2>2
  <2> QED BY <2>1, <2>2, <2>3, <2>4
<1>8. P = SUBSET K
  <2>1. P \in SUBSET (SUBSET K)
    OBVIOUS
  <2> HIDE DEF P
  <2> QED BY <1>6, <1>7, <2>1, SetInduction
<1>9. F[Img(K)] = H[K]
  <2>1. K \in P
    <3> HIDE DEF P
    <3> QED BY <1>8
  <2> QED BY <2>1
<1>10. Total(g, D) = F[D] /\ Total(h, K) = H[K]
  <2>1. D \in SUBSET D /\ K \in SUBSET K
    OBVIOUS
  <2> HIDE DEF D
  <2> QED BY <1>a, <1>b, <2>1
<1> QED BY <1>2, <1>9, <1>10

-----------------------------------------------------------------------------
(* The numbers of a finite set in ascending order are all of them, once.   *)
LEMMA AscendingFacts ==
    ASSUME NEW K \in SUBSET Int, IsFiniteSet(K)
    PROVE  /\ Cardinality(K) \in Nat
           /\ Ascending(K) \in [1 .. Cardinality(K) -> K]
           /\ IsInjective(Ascending(K)) /\ Range(Ascending(K)) = K
<1> DEFINE N == Cardinality(K)
           Below(k) == {j \in K : j < k}
           rank == [k \in K |-> Cardinality(Below(k))]
<1>0. N \in Nat /\ \A k \in K : IsFiniteSet(Below(k)) /\ Cardinality(Below(k)) \in Nat
  BY FS_Subset, FS_CardinalityType
<1>1. ASSUME NEW k \in K PROVE Cardinality(Below(k)) \in 0 .. (N - 1)
  <2>1. Below(k) \in SUBSET (K \ {k})
    OBVIOUS
  <2>2. IsFiniteSet(K \ {k}) /\ Cardinality(K \ {k}) = N - 1
    BY FS_RemoveElement
  <2>3. Cardinality(Below(k)) <= N - 1
    <3> HIDE DEF Below
    <3> QED BY <2>1, <2>2, FS_Subset
  <2> QED BY <1>0, <2>3
<1>2. ASSUME NEW k \in K, NEW l \in K, k < l
      PROVE  Cardinality(Below(k)) < Cardinality(Below(l))
  <2>1. Below(k) \cup {k} \in SUBSET Below(l) /\ k \notin Below(k)
    <3>1. \A j \in K : j < k => j < l
      BY <1>2
    <3>2. ~(k < k)
      OBVIOUS
    <3> QED BY <1>2, <3>1, <3>2
  <2>2. IsFiniteSet(Below(k)) /\ IsFiniteSet(Below(l))
    BY <1>0
  <2> HIDE DEF Below
  <2>3. Cardinality(Below(k) \cup {k}) = Cardinality(Below(k)) + 1
    <3>1. PICK B : B = Below(k)
      OBVIOUS
    <3>2. IsFiniteSet(B) /\ k \notin B
      BY <2>1, <2>2, <3>1
    <3>3. Cardinality(B \cup {k}) = Cardinality(B) + 1
      BY ONLY <3>2, FS_AddElement
    <3> QED BY <3>1, <3>3
  <2>4. Cardinality(Below(k) \cup {k}) <= Cardinality(Below(l))
    BY <2>1, <2>2, FS_Subset
  <2> QED BY <1>0, <2>3, <2>4
<1>3. \A k, l \in K : Cardinality(Below(k)) = Cardinality(Below(l)) => k = l
  <2> SUFFICES ASSUME NEW k \in K, NEW l \in K, k # l
               PROVE  Cardinality(Below(k)) # Cardinality(Below(l))
    OBVIOUS
  <2>1. k < l \/ l < k
    OBVIOUS
  <2> QED BY <1>0, <1>2, <2>1
<1>4. \A n \in 1 .. N : \E k \in K : Cardinality(Below(k)) = n - 1
  <2> HIDE DEF Below, N
  <2>1. rank \in Injection(K, 0 .. (N - 1))
    BY <1>1, <1>3 DEF Injection, IsInjective
  <2>2. IsFiniteSet(0 .. (N - 1)) /\ Cardinality(0 .. (N - 1)) = N
    <3>1. N - 1 \in Int /\ 0 \in Int
      BY <1>0
    <3>2. /\ IsFiniteSet(0 .. (N - 1))
          /\ Cardinality(0 .. (N - 1)) = IF 0 > N - 1 THEN 0 ELSE (N - 1) - 0 + 1
      BY <3>1, FS_Interval
    <3> QED BY <1>0, <3>2
  <2>3. rank \in Surjection(K, 0 .. (N - 1))
    <3> HIDE DEF rank
    <3> QED BY <2>1, <2>2, FS_Injection DEF N
  <2>4. \A m \in 0 .. (N - 1) : \E k \in K : Cardinality(Below(k)) = m
    BY <2>3 DEF Surjection
  <2>5. \A n \in 1 .. N : n - 1 \in 0 .. (N - 1)
    BY <1>0
  <2> QED BY <2>4, <2>5
<1> DEFINE a == Ascending(K)
<1>5. a = [n \in 1 .. N |-> CHOOSE k \in K : Cardinality(Below(k)) = n - 1]
  BY DEF Ascending
<1> HIDE DEF Below, N, a
<1>6. \A n \in 1 .. N : a[n] \in K /\ Cardinality(Below(a[n])) = n - 1
  <2> SUFFICES ASSUME NEW n \in 1 .. N PROVE a[n] \in K /\ Cardinality(Below(a[n])) = n - 1
    OBVIOUS
  <2>1. a[n] = CHOOSE k \in K : Cardinality(Below(k)) = n - 1
    BY <1>5
  <2>2. \E k \in K : Cardinality(Below(k)) = n - 1
    BY <1>4
  <2> QED BY <2>1, <2>2
<1>7. a \in [1 .. N -> K]
  BY <1>5, <1>6
<1>8. IsInjective(a)
  <2> SUFFICES ASSUME NEW m \in 1 .. N, NEW n \in 1 .. N, a[m] = a[n] PROVE m = n
    BY <1>7 DEF IsInjective
  <2>1. m - 1 = n - 1
    BY <1>6
  <2> QED BY <1>0, <2>1
<1>9. ASSUME NEW k \in K PROVE \E n \in 1 .. N : a[n] = k
  <2>1. PICK n \in 1 .. N : n - 1 = Cardinality(Below(k))
    <3>1. PICK c : c = Cardinality(Below(k))
      OBVIOUS
    <3>2. c \in 0 .. (N - 1)
      BY <1>1, <3>1
    <3>3. c + 1 \in 1 .. N /\ (c + 1) - 1 = c
      BY <1>0, <3>2
    <3> QED BY <3>1, <3>3
  <2> QED BY <1>3, <1>6, <2>1
<1>10. Range(a) = K
  BY <1>7, <1>9 DEF Range
<1> QED BY <1>0, <1>7, <1>8, <1>10 DEF N, a

(* The fields of Collect.                                                  *)
CountOf(S)    == MapThenSumSet(LAMBDA r : r.count, S)
ValueSumOf(S) == MapThenSumSet(LAMBDA r : r.value_sum, S)
MinsOf(S)     == {r.value_min : r \in S}
MaxsOf(S)     == {r.value_max : r \in S}

LEMMA CollectFields ==
    ASSUME NEW S
    PROVE  /\ Collect(S).count = CountOf(S)
           /\ Collect(S).value_sum = ValueSumOf(S)
           /\ Collect(S).value_avg =
                IF CountOf(S) = 0 THEN 0 ELSE Quotient(ValueSumOf(S), CountOf(S))
           /\ Collect(S).value_min = IF CountOf(S) = 0 THEN 0 ELSE Min(MinsOf(S))
           /\ Collect(S).value_max = IF CountOf(S) = 0 THEN 0 ELSE Max(MaxsOf(S))
           /\ DOMAIN Collect(S) = {"timestamp", "tag", "count", "value_sum", "value_avg",
                                   "value_min", "value_max", "value_p50"}
<1> DEFINE p50 == MapThenSumSet(LAMBDA r : r.value_p50, S)
<1>1. Collect(S) =
        [timestamp |-> 0,
         tag       |-> 0,
         count     |-> CountOf(S),
         value_sum |-> ValueSumOf(S),
         value_avg |-> IF CountOf(S) = 0 THEN 0 ELSE Quotient(ValueSumOf(S), CountOf(S)),
         value_min |-> IF CountOf(S) = 0 THEN 0 ELSE Min(MinsOf(S)),
         value_max |-> IF CountOf(S) = 0 THEN 0 ELSE Max(MaxsOf(S)),
         value_p50 |-> IF CountOf(S) = 0 THEN 0 ELSE Quotient(p50, Cardinality(S))]
  BY Zenon DEF Collect, CountOf, ValueSumOf, MinsOf, MaxsOf
<1> HIDE DEF p50
<1> QED BY <1>1

(* What the provers need to know of the rows that are collected.           *)
Collectable(S) ==
    /\ IsFiniteSet(S)
    /\ \A r \in S : /\ r.timestamp \in Int /\ r.tag \in Int /\ r.count \in Nat \ {0}
                    /\ r.value_sum \in Int /\ r.value_min \in Int /\ r.value_max \in Int

KeysOf(S, by) == {r[by] : r \in S}

Group(S, by, k) == {r \in S : r[by] = k}

GroupInfo(S, by, k) == [Collect(Group(S, by, k)) EXCEPT ![by] = k]

LEMMA KeysFinite ==
    ASSUME NEW S, Collectable(S), NEW by \in {"timestamp", "tag"}
    PROVE  IsFiniteSet(KeysOf(S, by)) /\ KeysOf(S, by) \in SUBSET Int
<1> DEFINE f == [r \in S |-> r[by]]
<1>1. f \in Surjection(S, KeysOf(S, by))
  BY DEF Surjection, KeysOf
<1>2. IsFiniteSet(S)
  BY DEF Collectable
<1>3. IsFiniteSet(KeysOf(S, by))
  <2> HIDE DEF f
  <2> QED BY <1>1, <1>2, FS_Surjection
<1>4. KeysOf(S, by) \in SUBSET Int
  BY DEF Collectable, KeysOf
<1> QED BY <1>3, <1>4

LEMMA GroupInfoFields ==
    ASSUME NEW S, NEW by \in {"timestamp", "tag"}, NEW k
    PROVE  /\ GroupInfo(S, by, k)[by] = k
           /\ GroupInfo(S, by, k).count = CountOf(Group(S, by, k))
           /\ GroupInfo(S, by, k).value_sum = ValueSumOf(Group(S, by, k))
           /\ GroupInfo(S, by, k).value_min = Collect(Group(S, by, k)).value_min
           /\ GroupInfo(S, by, k).value_max = Collect(Group(S, by, k)).value_max
           /\ GroupInfo(S, by, k).value_avg = Collect(Group(S, by, k)).value_avg
<1>1. PICK c : c = Collect(Group(S, by, k))
  OBVIOUS
<1>2. /\ DOMAIN c = {"timestamp", "tag", "count", "value_sum", "value_avg",
                     "value_min", "value_max", "value_p50"}
      /\ c.count = CountOf(Group(S, by, k)) /\ c.value_sum = ValueSumOf(Group(S, by, k))
  BY <1>1, CollectFields
<1>3. GroupInfo(S, by, k) = [c EXCEPT ![by] = k]
  BY <1>1 DEF GroupInfo
<1>4. /\ [c EXCEPT ![by] = k][by] = k
      /\ \A x \in {"count", "value_sum", "value_avg", "value_min", "value_max"} :
            [c EXCEPT ![by] = k][x] = c[x]
  BY <1>2
<1> QED BY <1>1, <1>2, <1>3, <1>4

(* The details are the groups, each once.                                  *)
LEMMA DetailsAre ==
    ASSUME NEW S, Collectable(S), NEW by \in {"timestamp", "tag"}
    PROVE  /\ Cardinality(KeysOf(S, by)) \in Nat
           /\ DOMAIN Details(S, by) = 1 .. Cardinality(KeysOf(S, by))
           /\ Details(S, by) \in Seq(Range(Details(S, by)))
           /\ Len(Details(S, by)) = Cardinality(KeysOf(S, by))
           /\ IsInjective(Details(S, by))
           /\ Range(Details(S, by)) = {GroupInfo(S, by, k) : k \in KeysOf(S, by)}
           /\ IsFiniteSet(Range(Details(S, by)))
           /\ Cardinality(Range(Details(S, by))) = Cardinality(KeysOf(S, by))
<1> DEFINE K == KeysOf(S, by)
           N == Cardinality(K)
           a == Ascending(K)
           d == Details(S, by)
           G == {GroupInfo(S, by, k) : k \in K}
<1>1. IsFiniteSet(K) /\ K \in SUBSET Int
  BY KeysFinite
<1>2. N \in Nat /\ a \in [1 .. N -> K] /\ IsInjective(a) /\ Range(a) = K
  BY <1>1, AscendingFacts
<1>3. d = [n \in DOMAIN a |-> GroupInfo(S, by, a[n])]
  BY DEF Details, GroupInfo, Group, KeysOf
<1>4. \A k, l \in K : GroupInfo(S, by, k) = GroupInfo(S, by, l) => k = l
  BY GroupInfoFields
<1> HIDE DEF K, N, a, d
<1>5. DOMAIN a = 1 .. N
  BY <1>2
<1>6. DOMAIN d = 1 .. N /\ \A n \in 1 .. N : d[n] = GroupInfo(S, by, a[n])
  BY <1>3, <1>5
<1>7. Range(d) = G
  <2>1. \A n \in 1 .. N : d[n] \in G
    BY <1>2, <1>6
  <2>2. \A k \in K : \E n \in 1 .. N : d[n] = GroupInfo(S, by, k)
    BY <1>2, <1>6 DEF Range
  <2> QED BY <1>6, <2>1, <2>2 DEF Range
<1>8. IsInjective(d)
  <2> SUFFICES ASSUME NEW m \in 1 .. N, NEW n \in 1 .. N, d[m] = d[n] PROVE m = n
    BY <1>6 DEF IsInjective
  <2>1. a[m] = a[n]
    BY <1>2, <1>4, <1>6
  <2> QED BY <1>2, <1>5, <2>1 DEF IsInjective
<1>9. d \in Seq(Range(d)) /\ Len(d) = N
  <2>1. d \in [1 .. N -> Range(d)]
    <3>1. d = [n \in 1 .. N |-> d[n]]
      BY <1>3, <1>5, <1>6
    <3> QED BY <1>6, <3>1 DEF Range
  <2> QED BY <1>2, <2>1
<1>10. IsFiniteSet(G) /\ Cardinality(G) = N
  <2> DEFINE f == [k \in K |-> GroupInfo(S, by, k)]
  <2>1. f \in Bijection(K, G)
    BY <1>4 DEF Bijection, Injection, IsInjective, Surjection
  <2>2. ExistsBijection(K, G)
    BY <2>1 DEF ExistsBijection
  <2> HIDE DEF G
  <2> QED BY <1>1, <2>2, FS_Bijection DEF N
<1> QED BY <1>2, <1>6, <1>7, <1>8, <1>9, <1>10 DEF K, N, d

(* Smallest and largest elements.                                          *)
LEMMA MinMaxFacts ==
    ASSUME NEW A \in SUBSET Int, IsFiniteSet(A), A # {}
    PROVE  /\ Min(A) \in A /\ \A y \in A : Min(A) <= y
           /\ Max(A) \in A /\ \A y \in A : Max(A) >= y
<1> DEFINE HasBoth(B) ==
             /\ \E x \in B : \A y \in B : x <= y
             /\ \E x \in B : \A y \in B : x >= y
           P == {B \in SUBSET A : B # {} => HasBoth(B)}
<1>1. {} \in P /\ P \in SUBSET (SUBSET A)
  OBVIOUS
<1>2. ASSUME NEW B \in P, NEW z \in A \ B PROVE B \cup {z} \in P
  <2>1. B \in SUBSET Int /\ z \in Int
    OBVIOUS
  <2>2. CASE B = {}
    <3>1. B \cup {z} = {z} /\ z <= z /\ z >= z
      BY <2>1, <2>2
    <3> QED BY <3>1
  <2>3. CASE B # {}
    <3>1. PICK lo \in B : \A y \in B : lo <= y
      BY <2>3
    <3>2. PICK hi \in B : \A y \in B : hi >= y
      BY <2>3
    <3>3. \E x \in B \cup {z} : \A y \in B \cup {z} : x <= y
      <4>1. CASE z <= lo
        <5>1. \A y \in B \cup {z} : z <= y
          BY <2>1, <3>1, <4>1
        <5> QED BY <5>1
      <4>2. CASE ~(z <= lo)
        <5>1. \A y \in B \cup {z} : lo <= y
          BY <2>1, <3>1, <4>2
        <5> QED BY <5>1
      <4> QED BY <4>1, <4>2
    <3>4. \E x \in B \cup {z} : \A y \in B \cup {z} : x >= y
      <4>1. CASE z >= hi
        <5>1. \A y \in B \cup {z} : z >= y
          BY <2>1, <3>2, <4>1
        <5> QED BY <5>1
      <4>2. CASE ~(z >= hi)
        <5>1. \A y \in B \cup {z} : hi >= y
          BY <2>1, <3>2, <4>2
        <5> QED BY <5>1
      <4> QED BY <4>1, <4>2
    <3> QED BY <3>3, <3>4
  <2> QED BY <2>2, <2>3
<1>3. P = SUBSET A
  <2> HIDE DEF P
  <2> QED BY <1>1, <1>2, SetInduction
<1>4. HasBoth(A)
  BY <1>3
<1> QED BY <1>4 DEF Min, Max

(* Every row counts at least one event.                                    *)
LEMMA CountsArePositive ==
    ASSUME NEW S, Collectable(S)
    PROVE  /\ CountOf(S) \in Nat /\ ValueSumOf(S) \in Int
           /\ CountOf(S) = 0 <=> S = {}
           /\ S = {} => ValueSumOf(S) = 0
<1> DEFINE c == [r \in S |-> r.count]
           v == [r \in S |-> r.value_sum]
<1>0. IsFiniteSet(S) /\ \A r \in S : r.count \in Nat \ {0} /\ r.value_sum \in Int
  BY DEF Collectable
<1>1. CountOf(S) = Total(c, S)
  <2>1. \A r \in S : r.count \in Int /\ c[r] = r.count
    BY <1>0
  <2> HIDE DEF c
  <2> QED BY <1>0, <2>1, CountTotal DEF CountOf
<1>2. ValueSumOf(S) = Total(v, S)
  <2>1. \A r \in S : r.value_sum \in Int /\ v[r] = r.value_sum
    BY <1>0
  <2> HIDE DEF v
  <2> QED BY <1>0, <2>1, ValueSumTotal DEF ValueSumOf
<1>3. PICK F : AreTotals(F, c, S)
  <2>1. \A r \in S : c[r] \in Int
    BY <1>0
  <2> HIDE DEF c
  <2> QED BY <1>0, <2>1, Totals
<1>4. PICK G : AreTotals(G, v, S)
  <2>1. \A r \in S : v[r] \in Int
    BY <1>0
  <2> HIDE DEF v
  <2> QED BY <1>0, <2>1, Totals
<1>5. /\ F[{}] = 0
      /\ Total(c, S) = F[S]
      /\ \A A \in SUBSET S : \A x \in S \ A : F[A \cup {x}] = c[x] + F[A]
  BY <1>3 DEF AreTotals
<1>6. ValueSumOf(S) \in Int /\ S = {} => ValueSumOf(S) = 0
  <2> HIDE DEF v
  <2> QED BY <1>2, <1>4 DEF AreTotals
<1>d. ValueSumOf(S) \in Int
  <2> HIDE DEF v
  <2>1. S \in SUBSET S /\ G \in [SUBSET S -> Int] /\ Total(v, S) = G[S]
    BY <1>4 DEF AreTotals
  <2> QED BY <1>2, <2>1
<1> DEFINE P == {A \in SUBSET S : F[A] \in Nat /\ (F[A] = 0 <=> A = {})}
<1>7. {} \in P /\ P \in SUBSET (SUBSET S)
  BY <1>5
<1>8. ASSUME NEW A \in P, NEW x \in S \ A PROVE A \cup {x} \in P
  <2>1. F[A \cup {x}] = c[x] + F[A] /\ F[A] \in Nat
    BY <1>5
  <2>2. c[x] \in Nat \ {0}
    BY <1>0
  <2> HIDE DEF c
  <2>3. F[A \cup {x}] \in Nat /\ F[A \cup {x}] # 0
    BY <2>1, <2>2
  <2> QED BY <2>3
<1>9. P = SUBSET S
  <2> HIDE DEF P
  <2> QED BY <1>0, <1>7, <1>8, SetInduction
<1>10. F[S] \in Nat /\ (F[S] = 0 <=> S = {})
  BY <1>9
<1> QED BY <1>1, <1>5, <1>6, <1>d, <1>10

(* Counts and sums of the groups add up to those of the rows.              *)
LEMMA GroupCollectable ==
    ASSUME NEW S, Collectable(S), NEW by, NEW k
    PROVE  Collectable(Group(S, by, k)) /\ Group(S, by, k) \subseteq S
<1>1. Group(S, by, k) \in SUBSET S /\ IsFiniteSet(S)
  BY DEF Group, Collectable
<1>2. IsFiniteSet(Group(S, by, k))
  BY <1>1, FS_Subset
<1> QED BY <1>1, <1>2 DEF Collectable

LEMMA GroupCounts ==
    ASSUME NEW S, Collectable(S), NEW by \in {"timestamp", "tag"}
    PROVE  CountOf({GroupInfo(S, by, k) : k \in KeysOf(S, by)}) = CountOf(S)
<1> DEFINE K   == KeysOf(S, by)
           D   == {GroupInfo(S, by, k) : k \in K}
           g   == [r \in S |-> r.count]
           key == [r \in S |-> r[by]]
           grp == [k \in K |-> Group(S, by, k)]
           h   == [k \in K |-> CountOf(Group(S, by, k))]
           d   == [k \in K |-> GroupInfo(S, by, k)]
           e   == [x \in D |-> x.count]
<1>0. IsFiniteSet(S) /\ IsFiniteSet(K)
  BY KeysFinite DEF Collectable
<1>1. \A r \in S : r.count \in Int /\ g[r] = r.count /\ key[r] \in K
  BY DEF Collectable, KeysOf
<1>a. \A k \in K : grp[k] \in SUBSET S /\ \A x \in S : x \in grp[k] <=> key[x] = k
  BY DEF Group
<1>2. \A k \in K : h[k] = Total(g, grp[k]) /\ h[k] \in Int
  <2> SUFFICES ASSUME NEW k \in K
               PROVE  h[k] = Total(g, grp[k]) /\ h[k] \in Int
    OBVIOUS
  <2>1. grp[k] = Group(S, by, k)
    OBVIOUS
  <2>2. Collectable(Group(S, by, k)) /\ Group(S, by, k) \subseteq S
    BY GroupCollectable
  <2>3. h[k] = CountOf(Group(S, by, k))
    OBVIOUS
  <2>4. CountOf(Group(S, by, k)) \in Int
    BY <2>2, CountsArePositive
  <2>5. IsFiniteSet(Group(S, by, k)) /\ \A r \in Group(S, by, k) : r.count \in Int /\ g[r] = r.count
    BY <1>1, <2>2 DEF Collectable
  <2> HIDE DEF g, h, key, grp
  <2>6. CountOf(Group(S, by, k)) = Total(g, Group(S, by, k))
    BY <2>5, CountTotal DEF CountOf
  <2> QED BY <2>1, <2>3, <2>4, <2>6
<1>3. Total(h, K) = Total(g, S)
  <2>1. \A r \in S : g[r] \in Int
    BY <1>1
  <2>2. \A r \in S : key[r] \in K
    BY <1>1
  <2>3. \A k \in K : h[k] = Total(g, grp[k])
    BY <1>2
  <2> HIDE DEF g, h, key, K, grp
  <2> QED BY ONLY <1>0, <1>a, <2>1, <2>2, <2>3, TotalByGroup
<1>4. Total(g, S) = CountOf(S)
  <2> HIDE DEF g, key
  <2> QED BY <1>0, <1>1, CountTotal DEF CountOf
<1>5. \A k \in K : d[k] = GroupInfo(S, by, k) /\ d[k] \in D /\ e[d[k]] = h[k] /\ d[k].count = h[k]
  BY GroupInfoFields
<1>6. \A k, l \in K : d[k] = d[l] => k = l
  BY GroupInfoFields
<1>7. D = {d[k] : k \in K}
  OBVIOUS
<1>8. \A x \in D : x.count \in Int /\ e[x] = x.count
  <2>1. \A x \in D : \E k \in K : x = d[k]
    BY <1>7
  <2>2. \A x \in D : e[x] = x.count
    OBVIOUS
  <2>3. \A k \in K : d[k].count \in Int
    <3> HIDE DEF g, h, d, e, D, K, grp
    <3> QED BY <1>2, <1>5
  <2> HIDE DEF g, h, d, e, D, K, grp
  <2> QED BY <2>1, <2>2, <2>3
<1> HIDE DEF g, h, key, K, d, e, D
<1>9. IsFiniteSet({d[k] : k \in K}) /\ Total(e, {d[k] : k \in K}) = Total(h, K)
  <2>1. /\ IsFiniteSet(K) /\ \A k, l \in K : d[k] = d[l] => k = l
        /\ \A k \in K : h[k] \in Int /\ e[d[k]] = h[k]
    BY <1>0, <1>2, <1>5, <1>6
  <2> QED BY ONLY <2>1, TotalRenamed
<1>10. CountOf(D) = Total(e, D)
  <2>1. IsFiniteSet(D)
    BY <1>7, <1>9
  <2> QED BY <1>8, <2>1, CountTotal DEF CountOf
<1>11. CountOf(D) = CountOf(S)
  BY <1>3, <1>4, <1>7, <1>9, <1>10
<1> QED BY <1>11 DEF D, K
LEMMA GroupValueSums ==
    ASSUME NEW S, Collectable(S), NEW by \in {"timestamp", "tag"}
    PROVE  ValueSumOf({GroupInfo(S, by, k) : k \in KeysOf(S, by)}) = ValueSumOf(S)
<1> DEFINE K   == KeysOf(S, by)
           D   == {GroupInfo(S, by, k) : k \in K}
           g   == [r \in S |-> r.value_sum]
           key == [r \in S |-> r[by]]
           grp == [k \in K |-> Group(S, by, k)]
           h   == [k \in K |-> ValueSumOf(Group(S, by, k))]
           d   == [k \in K |-> GroupInfo(S, by, k)]
           e   == [x \in D |-> x.value_sum]
<1>0. IsFiniteSet(S) /\ IsFiniteSet(K)
  BY KeysFinite DEF Collectable
<1>1. \A r \in S : r.value_sum \in Int /\ g[r] = r.value_sum /\ key[r] \in K
  BY DEF Collectable, KeysOf
<1>a. \A k \in K : grp[k] \in SUBSET S /\ \A x \in S : x \in grp[k] <=> key[x] = k
  BY DEF Group
<1>2. \A k \in K : h[k] = Total(g, grp[k]) /\ h[k] \in Int
  <2> SUFFICES ASSUME NEW k \in K
               PROVE  h[k] = Total(g, grp[k]) /\ h[k] \in Int
    OBVIOUS
  <2>1. grp[k] = Group(S, by, k)
    OBVIOUS
  <2>2. Collectable(Group(S, by, k)) /\ Group(S, by, k) \subseteq S
    BY GroupCollectable
  <2>3. h[k] = ValueSumOf(Group(S, by, k))
    OBVIOUS
  <2>4. ValueSumOf(Group(S, by, k)) \in Int
    BY <2>2, CountsArePositive
  <2>5. IsFiniteSet(Group(S, by, k)) /\ \A r \in Group(S, by, k) : r.value_sum \in Int /\ g[r] = r.value_sum
    BY <1>1, <2>2 DEF Collectable
  <2> HIDE DEF g, h, key, grp
  <2>6. ValueSumOf(Group(S, by, k)) = Total(g, Group(S, by, k))
    BY <2>5, ValueSumTotal DEF ValueSumOf
  <2> QED BY <2>1, <2>3, <2>4, <2>6
<1>3. Total(h, K) = Total(g, S)
  <2>1. \A r \in S : g[r] \in Int
    BY <1>1
  <2>2. \A r \in S : key[r] \in K
    BY <1>1
  <2>3. \A k \in K : h[k] = Total(g, grp[k])
    BY <1>2
  <2> HIDE DEF g, h, key, K, grp
  <2> QED BY ONLY <1>0, <1>a, <2>1, <2>2, <2>3, TotalByGroup
<1>4. Total(g, S) = ValueSumOf(S)
  <2> HIDE DEF g, key
  <2> QED BY <1>0, <1>1, ValueSumTotal DEF ValueSumOf
<1>5. \A k \in K : d[k] = GroupInfo(S, by, k) /\ d[k] \in D /\ e[d[k]] = h[k] /\ d[k].value_sum = h[k]
  BY GroupInfoFields
<1>6. \A k, l \in K : d[k] = d[l] => k = l
  BY GroupInfoFields
<1>7. D = {d[k] : k \in K}
  OBVIOUS
<1>8. \A x \in D : x.value_sum \in Int /\ e[x] = x.value_sum
  <2>1. \A x \in D : \E k \in K : x = d[k]
    BY <1>7
  <2>2. \A x \in D : e[x] = x.value_sum
    OBVIOUS
  <2>3. \A k \in K : d[k].value_sum \in Int
    <3> HIDE DEF g, h, d, e, D, K, grp
    <3> QED BY <1>2, <1>5
  <2> HIDE DEF g, h, d, e, D, K, grp
  <2> QED BY <2>1, <2>2, <2>3
<1> HIDE DEF g, h, key, K, d, e, D
<1>9. IsFiniteSet({d[k] : k \in K}) /\ Total(e, {d[k] : k \in K}) = Total(h, K)
  <2>1. /\ IsFiniteSet(K) /\ \A k, l \in K : d[k] = d[l] => k = l
        /\ \A k \in K : h[k] \in Int /\ e[d[k]] = h[k]
    BY <1>0, <1>2, <1>5, <1>6
  <2> QED BY ONLY <2>1, TotalRenamed
<1>10. ValueSumOf(D) = Total(e, D)
  <2>1. IsFiniteSet(D)
    BY <1>7, <1>9
  <2> QED BY <1>8, <2>1, ValueSumTotal DEF ValueSumOf
<1>11. ValueSumOf(D) = ValueSumOf(S)
  BY <1>3, <1>4, <1>7, <1>9, <1>10
<1> QED BY <1>11 DEF D, K

(* The extremes of the rows are extremes of some group.                    *)
LEMMA FieldValues ==
    ASSUME NEW S, IsFiniteSet(S), NEW field, \A r \in S : r[field] \in Int
    PROVE  IsFiniteSet({r[field] : r \in S}) /\ {r[field] : r \in S} \in SUBSET Int
<1> DEFINE V == {r[field] : r \in S}
           f == [r \in S |-> r[field]]
<1>1. f \in Surjection(S, V)
  BY DEF Surjection
<1>2. V \in SUBSET Int
  OBVIOUS
<1> HIDE DEF f, V
<1>3. IsFiniteSet(V)
  BY <1>1, FS_Surjection
<1> QED BY <1>2, <1>3 DEF V

LEMMA GroupExtremes ==
    ASSUME NEW S, Collectable(S), NEW by \in {"timestamp", "tag"}, S # {},
           NEW G, G = Range(Details(S, by))
    PROVE  Min(MinsOf(G)) = Min(MinsOf(S)) /\ Max(MaxsOf(G)) = Max(MaxsOf(S))
<1> DEFINE K      == KeysOf(S, by)
           Lo(T)  == MinsOf(T)
           Hi(T)  == MaxsOf(T)
           gr(k)  == Group(S, by, k)
<1>0. G = {GroupInfo(S, by, k) : k \in K}
  BY DetailsAre
<1>1. \A k \in K : Collectable(gr(k)) /\ gr(k) \subseteq S /\ gr(k) # {}
  <2> SUFFICES ASSUME NEW k \in K PROVE Collectable(gr(k)) /\ gr(k) \subseteq S /\ gr(k) # {}
    OBVIOUS
  <2>1. Group(S, by, k) # {}
    BY DEF Group, KeysOf
  <2> QED BY <2>1, GroupCollectable
<1>2. \A T : Collectable(T) /\ T # {} =>
        /\ Min(Lo(T)) \in Lo(T) /\ \A y \in Lo(T) : Min(Lo(T)) <= y
        /\ Max(Hi(T)) \in Hi(T) /\ \A y \in Hi(T) : Max(Hi(T)) >= y
        /\ Lo(T) \in SUBSET Int /\ Hi(T) \in SUBSET Int
        /\ IsFiniteSet(Lo(T)) /\ IsFiniteSet(Hi(T))
  <2> SUFFICES ASSUME NEW T, Collectable(T), T # {}
               PROVE  /\ Min(Lo(T)) \in Lo(T) /\ \A y \in Lo(T) : Min(Lo(T)) <= y
                      /\ Max(Hi(T)) \in Hi(T) /\ \A y \in Hi(T) : Max(Hi(T)) >= y
                      /\ Lo(T) \in SUBSET Int /\ Hi(T) \in SUBSET Int
                      /\ IsFiniteSet(Lo(T)) /\ IsFiniteSet(Hi(T))
    OBVIOUS
  <2>1. IsFiniteSet(T) /\ \A r \in T : r["value_min"] \in Int /\ r["value_max"] \in Int
    BY DEF Collectable
  <2>2. IsFiniteSet({r["value_min"] : r \in T}) /\ {r["value_min"] : r \in T} \in SUBSET Int
    BY <2>1, FieldValues
  <2>3. IsFiniteSet({r["value_max"] : r \in T}) /\ {r["value_max"] : r \in T} \in SUBSET Int
    BY <2>1, FieldValues
  <2>4. Lo(T) # {} /\ Hi(T) # {}
    BY DEF MinsOf, MaxsOf
  <2>5. IsFiniteSet(Lo(T)) /\ IsFiniteSet(Hi(T)) /\ Lo(T) \in SUBSET Int /\ Hi(T) \in SUBSET Int
    BY <2>2, <2>3 DEF MinsOf, MaxsOf
  <2> HIDE DEF Lo, Hi
  <2> QED BY <2>4, <2>5, MinMaxFacts
<1>3. \A k \in K : /\ GroupInfo(S, by, k).value_min = Min(Lo(gr(k)))
                   /\ GroupInfo(S, by, k).value_max = Max(Hi(gr(k)))
  <2> SUFFICES ASSUME NEW k \in K
               PROVE  /\ GroupInfo(S, by, k).value_min = Min(Lo(gr(k)))
                      /\ GroupInfo(S, by, k).value_max = Max(Hi(gr(k)))
    OBVIOUS
  <2>1. CountOf(gr(k)) # 0
    BY <1>1, CountsArePositive
  <2>2. /\ Collect(gr(k)).value_min = Min(Lo(gr(k)))
        /\ Collect(gr(k)).value_max = Max(Hi(gr(k)))
    BY <2>1, CollectFields
  <2> QED BY <2>2, GroupInfoFields
<1>4. /\ \A k \in K : Lo(gr(k)) \subseteq Lo(S) /\ Hi(gr(k)) \subseteq Hi(S)
      /\ \A y \in Lo(S) : \E k \in K : y \in Lo(gr(k))
      /\ \A y \in Hi(S) : \E k \in K : y \in Hi(gr(k))
  BY DEF Group, KeysOf, MinsOf, MaxsOf
<1>5. /\ Lo(G) = {Min(Lo(gr(k))) : k \in K}
      /\ Hi(G) = {Max(Hi(gr(k))) : k \in K}
  <2>1. \A x \in G : \E k \in K : x = GroupInfo(S, by, k)
    BY <1>0
  <2>2. \A k \in K : \E x \in G : x = GroupInfo(S, by, k)
    BY <1>0
  <2>3. Lo(G) \subseteq {Min(Lo(gr(k))) : k \in K} /\ Hi(G) \subseteq {Max(Hi(gr(k))) : k \in K}
    <3>1. ASSUME NEW x \in G
          PROVE  \E k \in K : x.value_min = Min(Lo(gr(k))) /\ x.value_max = Max(Hi(gr(k)))
      BY <1>3, <2>1
    <3>2. Lo(G) = {x.value_min : x \in G} /\ Hi(G) = {x.value_max : x \in G}
      BY DEF MinsOf, MaxsOf
    <3> HIDE DEF Lo, Hi, gr, K
    <3> QED BY <3>1, <3>2
  <2>4. {Min(Lo(gr(k))) : k \in K} \subseteq Lo(G) /\ {Max(Hi(gr(k))) : k \in K} \subseteq Hi(G)
    BY <1>3, <2>2 DEF MinsOf, MaxsOf
  <2> QED BY <2>3, <2>4
<1> HIDE DEF K, Lo, Hi, gr
<1>6. /\ Lo(S) \in SUBSET Int /\ Hi(S) \in SUBSET Int /\ IsFiniteSet(Lo(S)) /\ IsFiniteSet(Hi(S))
      /\ Min(Lo(S)) \in Lo(S) /\ \A y \in Lo(S) : Min(Lo(S)) <= y
      /\ Max(Hi(S)) \in Hi(S) /\ \A y \in Hi(S) : Max(Hi(S)) >= y
  BY <1>2
<1>7. /\ \A k \in K : Min(Lo(gr(k))) \in Lo(gr(k)) /\ \A y \in Lo(gr(k)) : Min(Lo(gr(k))) <= y
      /\ \A k \in K : Max(Hi(gr(k))) \in Hi(gr(k)) /\ \A y \in Hi(gr(k)) : Max(Hi(gr(k))) >= y
  BY <1>1, <1>2
<1>8. Min(Lo(S)) \in Lo(G) /\ Lo(G) \in SUBSET Lo(S)
  <2>1. PICK k \in K : Min(Lo(S)) \in Lo(gr(k))
    BY <1>4, <1>6
  <2>2. Min(Lo(gr(k))) = Min(Lo(S))
    <3>1. Min(Lo(gr(k))) <= Min(Lo(S)) /\ Min(Lo(S)) <= Min(Lo(gr(k)))
      BY <1>4, <1>6, <1>7, <2>1
    <3>2. Min(Lo(gr(k))) \in Int /\ Min(Lo(S)) \in Int
      BY <1>4, <1>6, <1>7
    <3> QED BY <3>1, <3>2
  <2>3. Lo(G) \in SUBSET Lo(S)
    BY <1>4, <1>5, <1>7
  <2>4. Min(Lo(gr(k))) \in Lo(G)
    BY <1>5
  <2> QED BY <2>2, <2>3, <2>4
<1>9. Max(Hi(S)) \in Hi(G) /\ Hi(G) \in SUBSET Hi(S)
  <2>1. PICK k \in K : Max(Hi(S)) \in Hi(gr(k))
    BY <1>4, <1>6
  <2>2. Max(Hi(gr(k))) = Max(Hi(S))
    <3>1. Max(Hi(gr(k))) >= Max(Hi(S)) /\ Max(Hi(S)) >= Max(Hi(gr(k)))
      BY <1>4, <1>6, <1>7, <2>1
    <3>2. Max(Hi(gr(k))) \in Int /\ Max(Hi(S)) \in Int
      BY <1>4, <1>6, <1>7
    <3> QED BY <3>1, <3>2
  <2>3. Hi(G) \in SUBSET Hi(S)
    BY <1>4, <1>5, <1>7
  <2>4. Max(Hi(gr(k))) \in Hi(G)
    BY <1>5
  <2> QED BY <2>2, <2>3, <2>4
<1>10. Min(Lo(G)) = Min(Lo(S))
  <2>1. Lo(G) \in SUBSET Int /\ Lo(G) # {} /\ IsFiniteSet(Lo(G))
    BY <1>6, <1>8, FS_Subset
  <2>2. Min(Lo(G)) \in Lo(G) /\ \A y \in Lo(G) : Min(Lo(G)) <= y
    BY <2>1, MinMaxFacts
  <2>3. Min(Lo(G)) <= Min(Lo(S)) /\ Min(Lo(S)) <= Min(Lo(G))
    BY <1>6, <1>8, <2>2
  <2>4. Min(Lo(G)) \in Int /\ Min(Lo(S)) \in Int
    BY <1>6, <2>1, <2>2
  <2> QED BY <2>3, <2>4
<1>11. Max(Hi(G)) = Max(Hi(S))
  <2>1. Hi(G) \in SUBSET Int /\ Hi(G) # {} /\ IsFiniteSet(Hi(G))
    BY <1>6, <1>9, FS_Subset
  <2>2. Max(Hi(G)) \in Hi(G) /\ \A y \in Hi(G) : Max(Hi(G)) >= y
    BY <2>1, MinMaxFacts
  <2>3. Max(Hi(G)) >= Max(Hi(S)) /\ Max(Hi(S)) >= Max(Hi(G))
    BY <1>6, <1>9, <2>2
  <2>4. Max(Hi(G)) \in Int /\ Max(Hi(S)) \in Int
    BY <1>6, <2>1, <2>2
  <2> QED BY <2>3, <2>4
<1> QED BY <1>10, <1>11 DEF Lo, Hi

(* Every way to put a finite set into a sequence.                          *)
LEMMA SeqsOfSet ==
    ASSUME NEW X, IsFiniteSet(X), NEW s \in SetToSeqs(X)
    PROVE  /\ s \in Seq(X) /\ Len(s) = Cardinality(X) /\ DOMAIN s = 1 .. Cardinality(X)
           /\ IsInjective(s) /\ Range(s) = X
<1>1. Cardinality(X) \in Nat
  BY FS_CardinalityType
<1>2. PICK n \in Nat : n = Cardinality(X)
  BY <1>1
<1>3. s \in [1 .. n -> X] /\ \A i, j \in 1 .. n : i # j => s[i] # s[j]
  BY <1>2 DEF SetToSeqs
<1>4. s \in Seq(X) /\ Len(s) = n /\ DOMAIN s = 1 .. n
  BY <1>3
<1>5. IsInjective(s)
  BY <1>3, <1>4 DEF IsInjective
<1>6. Range(s) = X
  <2>1. s \in Injection(1 .. n, X)
    BY <1>3, <1>5 DEF Injection
  <2>2. Cardinality(1 .. n) = n
    <3>1. Cardinality(1 .. n) = IF 1 > n THEN 0 ELSE n - 1 + 1
      BY FS_Interval
    <3> QED BY <3>1
  <2>3. s \in Surjection(1 .. n, X)
    BY <1>2, <2>1, <2>2, FS_Injection
  <2> QED BY <1>3, <2>3 DEF Surjection, Range
<1> QED BY <1>2, <1>4, <1>5, <1>6

LEMMA ReverseFacts ==
    ASSUME NEW X, NEW s \in Seq(X)
    PROVE  /\ Len(Reverse(s)) = Len(s) /\ DOMAIN Reverse(s) = 1 .. Len(s)
           /\ Reverse(s) \in Seq(X) /\ Range(Reverse(s)) = Range(s)
           /\ IsInjective(s) => IsInjective(Reverse(s))
<1>1. PICK n \in Nat : n = Len(s) /\ DOMAIN s = 1 .. n
  OBVIOUS
<1>2. Reverse(s) = [i \in 1 .. n |-> s[(n - i) + 1]]
  BY <1>1 DEF Reverse
<1>3. \A i \in 1 .. n : (n - i) + 1 \in 1 .. n /\ (n - ((n - i) + 1)) + 1 = i
  OBVIOUS
<1>4. Reverse(s) \in [1 .. n -> X]
  BY <1>1, <1>2, <1>3
<1>5. Range(Reverse(s)) = Range(s)
  <2>1. \A i \in 1 .. n : \E j \in 1 .. n : Reverse(s)[j] = s[i]
    <3> SUFFICES ASSUME NEW i \in 1 .. n PROVE \E j \in 1 .. n : Reverse(s)[j] = s[i]
      OBVIOUS
    <3>1. PICK j \in 1 .. n : j = (n - i) + 1 /\ (n - j) + 1 = i
      BY <1>3
    <3>2. Reverse(s)[j] = s[(n - j) + 1]
      BY <1>2
    <3> QED BY <3>1, <3>2
  <2>2. \A i \in 1 .. n : \E j \in 1 .. n : Reverse(s)[i] = s[j]
    BY <1>2, <1>3
  <2>3. DOMAIN Reverse(s) = 1 .. n /\ DOMAIN s = 1 .. n
    BY <1>1, <1>2
  <2>4. PICK r : r = Reverse(s)
    OBVIOUS
  <2>5. Range(r) \subseteq Range(s)
    BY <2>2, <2>3, <2>4 DEF Range
  <2>6. Range(s) \subseteq Range(r)
    BY <2>1, <2>3, <2>4 DEF Range
  <2> QED BY <2>4, <2>5, <2>6
<1>6. ASSUME IsInjective(s) PROVE IsInjective(Reverse(s))
  <2> SUFFICES ASSUME NEW i \in 1 .. n, NEW j \in 1 .. n, Reverse(s)[i] = Reverse(s)[j]
               PROVE  i = j
    BY <1>2 DEF IsInjective
  <2>1. PICK k \in 1 .. n : k = (n - i) + 1
    BY <1>3
  <2>2. PICK l \in 1 .. n : l = (n - j) + 1
    BY <1>3
  <2>3. s[k] = s[l]
    BY <1>2, <2>1, <2>2
  <2>4. k = l
    BY <1>1, <1>6, <2>3 DEF IsInjective
  <2> QED BY <2>1, <2>2, <2>4
<1> QED BY <1>1, <1>4, <1>5, <1>6

-----------------------------------------------------------------------------
(* EventStore *)

(* A thread that opens a database has the one of this month; the cache is  *)
(* not ahead of the clock, and no thread is ahead of the cache.            *)
CacheInStep ==
    \A t \in Threads :
        /\ thr[t].pc = "create" => /\ store_ = "leveldb"
                                  /\ thr[t].suffix = get_table_suffix(now)
        /\ store_ = "leveldb" /\ thr[t].pc = "ready" =>
                levelDBs_ \in Months /\ thr[t].suffix <= levelDBs_

CacheNotAhead == levelDBs_ \in Months => levelDBs_ <= get_table_suffix(now)

(* A thread that is not idle has a row or a condition.                     *)
AtWork == \A t \in Threads : thr[t].pc # "idle" => thr[t].op \in Rows \cup Conds

(* No database is ahead of the clock.  A row of SQL is in the table of its *)
(* month; LevelDB has it in a database that is not older, as it may have   *)
(* been inserted late.                                                     *)
RightMonth(time, m) ==
    IF store_ = "sql" THEN get_table_suffix(time) = m ELSE get_table_suffix(time) <= m

RowsInPlace ==
    \A m \in DOMAIN dbs : /\ m <= get_table_suffix(now)
                          /\ \A r \in dbs[m] : RightMonth(r.timestamp, m)

(* So will be the row that a thread is about to insert, and a select reads *)
(* the month of its start time, or a later one.                            *)
ThreadsInPlace ==
    \A t \in Threads :
        /\ thr[t].suffix <= get_table_suffix(now)
        /\ RightMonth(thr[t].upto, thr[t].suffix)
        /\ thr[t].op \in Rows => thr[t].upto = thr[t].op.timestamp

StoreInv ==
    /\ TypeOK /\ CacheInStep /\ CacheNotAhead /\ AtWork /\ OpenOnce
    /\ RowsInPlace /\ ThreadsInPlace

(* Months do not run backwards.                                            *)
LEMMA SuffixMonotone ==
    ASSUME NEW x \in Nat, NEW y \in Nat, x <= y
    PROVE  /\ get_table_suffix(x) \in Nat /\ get_table_suffix(y) \in Nat
           /\ get_table_suffix(x) <= get_table_suffix(y)
<1> DEFINE p == get_table_suffix(x)
           q == get_table_suffix(y)
<1>1. /\ p \in Int /\ x = MonthLen * p + (x % MonthLen) /\ x % MonthLen \in 0 .. (MonthLen - 1)
      /\ q \in Int /\ y = MonthLen * q + (y % MonthLen) /\ y % MonthLen \in 0 .. (MonthLen - 1)
  BY StoreAssumption DEF get_table_suffix
<1>2. p >= 0 /\ q >= 0
  BY StoreAssumption DEF get_table_suffix
<1>3. p <= q
  BY StoreAssumption DEF get_table_suffix
<1> QED BY <1>1, <1>2, <1>3

LEMMA SuffixInMonths ==
    ASSUME NEW x \in Nat, x <= MaxTime
    PROVE  get_table_suffix(x) \in Months
BY SuffixMonotone, StoreAssumption DEF Months

(* A select looks back from a time that is Linger seconds old.             *)
LEMMA StartsInThePast ==
    ASSUME TypeOK, NEW c \in Conds
    PROVE  RealStart(c) \in Nat /\ RealStart(c) <= now - Linger
BY StoreAssumption DEF RealStart, TypeOK, IsCond

(* A row keeps its fields when it is stored, but for the empty tag.        *)
LEMMA StoredRowIsRow ==
    ASSUME NEW r \in Rows
    PROVE  /\ IsRow(StoredRow(r)) /\ StoredRow(r).timestamp = r.timestamp
           /\ StoredRow(r).tag # 0
<1>1. IsRow(r)
  BY StoreAssumption
<1>2. CASE r.tag = 0
  BY <1>1, <1>2 DEF StoredRow, IsRow
<1>3. CASE r.tag # 0
  BY <1>1, <1>3 DEF StoredRow, IsRow
<1> QED BY <1>2, <1>3

LEMMA FirstMonth == get_table_suffix(0) = 0
<1>1. /\ get_table_suffix(0) \in Nat
      /\ 0 = MonthLen * get_table_suffix(0) + (0 % MonthLen) /\ 0 % MonthLen \in 0 .. (MonthLen - 1)
  BY StoreAssumption DEF get_table_suffix
<1> QED BY <1>1, StoreAssumption

LEMMA StoreInitial == Init => StoreInv
<1> SUFFICES ASSUME Init PROVE StoreInv
  OBVIOUS
<1> USE StoreAssumption DEF Init
<1>1. 0 \in Months
  BY SuffixMonotone DEF Months
<1>2. thr \in [Threads -> [pc : {"idle", "create", "ready"}, suffix : Months,
                         op : Rows \cup Conds \cup {None}, upto : Nat]]
  BY <1>1 DEF Idle
<1>3. DOMAIN dbs = {}
  OBVIOUS
<1>4. \A t \in Threads : thr[t].upto <= now - Linger
  BY DEF Idle
<1>5. store_ \in StoreTypes /\ now \in InitTime .. MaxTime /\ levelDBs_ = None /\ openFailed = FALSE
  OBVIOUS
<1>6. TypeOK
  BY ONLY <1>2, <1>3, <1>4, <1>5 DEF TypeOK
<1>7. now \in Nat /\ 0 <= now
  BY <1>5
<1>8. RowsInPlace
  BY <1>3 DEF RowsInPlace
<1>9. ThreadsInPlace
  <2>1. RightMonth(0, 0)
    BY FirstMonth DEF RightMonth
  <2>2. 0 <= get_table_suffix(now)
    BY <1>7, SuffixMonotone
  <2>3. \A t \in Threads : thr[t].suffix = 0 /\ thr[t].upto = 0 /\ thr[t].op \notin Rows
    BY DEF Idle
  <2> QED BY <2>1, <2>2, <2>3 DEF ThreadsInPlace
<1> QED BY <1>6, <1>8, <1>9 DEF StoreInv, CacheInStep, CacheNotAhead, AtWork, OpenOnce, Idle

(* The databases keep their type when one of them is written.              *)
LEMMA WithType ==
    ASSUME TypeOK, NEW s \in Months, NEW S \in SUBSET {StoredRow(r) : r \in Rows}
    PROVE  /\ DOMAIN With(s, S) \subseteq Months
           /\ \A m \in DOMAIN With(s, S) : With(s, S)[m] \subseteq {StoredRow(r) : r \in Rows}
BY DEF TypeOK, With

LEMMA RowsOfType ==
    ASSUME TypeOK, NEW s
    PROVE  RowsOf(s) \subseteq {StoredRow(r) : r \in Rows}
BY DEF TypeOK, RowsOf

(* A database is written with rows that belong there.                      *)
LEMMA RowsStayInPlace ==
    ASSUME TypeOK, RowsInPlace, NEW s \in Months, NEW S, s <= get_table_suffix(now),
           \A r \in S : RightMonth(r.timestamp, s),
           dbs' = With(s, S), UNCHANGED <<store_, now>>
    PROVE  RowsInPlace'
BY DEF RowsInPlace, With, RightMonth, TypeOK

(* So are the threads, when those that change their place are.             *)
LEMMA ThreadsStayInPlace ==
    ASSUME ThreadsInPlace, NEW t \in Threads, UNCHANGED <<store_, now>>,
           \A u \in Threads : u # t => thr'[u] = thr[u],
           \/ thr'[t] = Idle /\ now \in Nat
           \/ /\ thr'[t].suffix = thr[t].suffix /\ thr'[t].upto = thr[t].upto
              /\ thr'[t].op = thr[t].op
           \/ /\ thr'[t].suffix <= get_table_suffix(now)
              /\ RightMonth(thr'[t].upto, thr'[t].suffix)
              /\ thr'[t].op \in Rows => thr'[t].upto = thr'[t].op.timestamp
    PROVE  ThreadsInPlace'
<1>1. ASSUME thr'[t] = Idle, now \in Nat
      PROVE  /\ thr'[t].suffix <= get_table_suffix(now)
             /\ RightMonth(thr'[t].upto, thr'[t].suffix)
             /\ thr'[t].op \notin Rows
  <2>1. 0 <= get_table_suffix(now) /\ 0 \in Nat /\ 0 <= now
    BY <1>1, SuffixMonotone
  <2>2. RightMonth(0, 0)
    BY FirstMonth DEF RightMonth
  <2> QED BY <1>1, <2>1, <2>2, StoreAssumption DEF Idle
<1>2. /\ thr'[t].suffix <= get_table_suffix(now)
      /\ RightMonth(thr'[t].upto, thr'[t].suffix)
      /\ thr'[t].op \in Rows => thr'[t].upto = thr'[t].op.timestamp
  BY <1>1 DEF ThreadsInPlace
<1> QED BY <1>2 DEF ThreadsInPlace, RightMonth

LEMMA StoreStep == StoreInv /\ [Next]_vars => StoreInv'
<1> SUFFICES ASSUME StoreInv, [Next]_vars PROVE StoreInv'
  OBVIOUS
<1> USE StoreAssumption
<1>0. TypeOK /\ CacheInStep /\ CacheNotAhead /\ AtWork /\ OpenOnce /\ RowsInPlace /\ ThreadsInPlace
  BY DEF StoreInv
<1>a. now \in Nat /\ Linger \in Nat /\ Linger <= now /\ now <= MaxTime
  BY <1>0 DEF TypeOK
<1>b. get_table_suffix(now) \in Nat
  BY <1>a, SuffixMonotone
<1>1. CASE Tick
  <2>1. now \in Nat /\ now' = now + 1 /\ now' \in InitTime .. MaxTime
    BY <1>0, <1>1 DEF Tick, TypeOK
  <2>2. get_table_suffix(now) <= get_table_suffix(now') /\ get_table_suffix(now) \in Int
        /\ get_table_suffix(now') \in Int
    BY <2>1, SuffixMonotone
  <2>3. TypeOK'
    BY <1>0, <1>1, <2>1 DEF Tick, TypeOK
  <2>4. CacheInStep'
    BY <1>0, <1>1 DEF Tick, CacheInStep
  <2>5. CacheNotAhead'
    BY <1>0, <1>1, <2>2 DEF Tick, CacheNotAhead, Months
  <2>6. RowsInPlace'
    BY <1>0, <1>1, <2>2 DEF Tick, RowsInPlace, RightMonth, TypeOK, Months
  <2>7. ThreadsInPlace'
    <3>1. \A t \in Threads : thr[t].suffix \in Int
      BY <1>0 DEF TypeOK, Months
    <3> QED BY <1>0, <1>1, <2>2, <3>1 DEF Tick, ThreadsInPlace, RightMonth
  <2> QED BY <1>0, <1>1, <2>3, <2>4, <2>5, <2>6, <2>7 DEF Tick, StoreInv, AtWork, OpenOnce
<1>2. ASSUME NEW t \in Threads, NEW op \in Rows \cup Conds, Begin(t, op) PROVE StoreInv'
  <2>1. PICK upto \in Nat : /\ upto = IF op \in Conds THEN RealStart(op) ELSE op.timestamp
                            /\ upto <= now - Linger
    <3>1. CASE op \in Conds
      BY <3>1, <1>0, StartsInThePast
    <3>2. CASE op \in Rows
      <4>1. op \notin Conds /\ op.timestamp \in Nat /\ op.timestamp + Linger < now /\ now \in Nat
        BY <1>0, <1>2, <3>2 DEF Begin, TypeOK, IsRow
      <4> QED BY <4>1
    <3> QED BY <3>1, <3>2
  <2>2. now \in Nat /\ now <= MaxTime /\ upto <= MaxTime
    BY <1>0, <2>1 DEF TypeOK
  <2>3. PICK s \in Months : s = get_table_suffix(IF store_ = "leveldb" THEN now ELSE upto)
    BY <2>1, <2>2, SuffixInMonths
  <2>4. PICK pc \in {"create", "ready"} :
           pc = IF store_ = "sql" \/ levelDBs_ = s THEN "ready" ELSE "create"
    OBVIOUS
  <2>5. /\ thr' = [thr EXCEPT ![t] = [pc |-> pc, suffix |-> s, op |-> op, upto |-> upto]]
        /\ UNCHANGED <<store_, now, levelDBs_, dbs, openFailed>>
    BY <1>2, <2>1, <2>3, <2>4 DEF Begin
  <2>6. TypeOK'
    BY <1>0, <2>1, <2>5 DEF TypeOK
  <2>7. CacheInStep'
    <3>1. pc = "create" => store_ = "leveldb" /\ s = get_table_suffix(now)
      BY <1>0, <2>3, <2>4 DEF TypeOK
    <3>2. store_ = "leveldb" /\ pc = "ready" => levelDBs_ \in Months /\ s <= levelDBs_
      BY <2>4 DEF Months
    <3> QED BY <1>0, <2>5, <3>1, <3>2 DEF CacheInStep, TypeOK
  <2>8. ThreadsInPlace'
    <3>1. /\ thr'[t].suffix = s /\ thr'[t].upto = upto /\ thr'[t].op = op
          /\ \A u \in Threads : u # t => thr'[u] = thr[u]
      BY <1>0, <2>5 DEF TypeOK
    <3>2. upto <= now /\ get_table_suffix(upto) \in Nat
          /\ get_table_suffix(upto) <= get_table_suffix(now)
      BY <1>a, <2>1, SuffixMonotone
    <3>3. s <= get_table_suffix(now) /\ RightMonth(upto, s)
      BY <1>0, <1>b, <2>3, <3>2 DEF RightMonth, TypeOK
    <3>4. op \in Rows => upto = op.timestamp
      BY <2>1
    <3> QED BY <1>0, <2>5, <3>1, <3>3, <3>4, ThreadsStayInPlace
  <2>9. RowsInPlace'
    BY <1>0, <2>5 DEF RowsInPlace, RightMonth
  <2> QED BY <1>0, <2>5, <2>6, <2>7, <2>8, <2>9 DEF StoreInv, CacheNotAhead, AtWork, OpenOnce, TypeOK
<1>3. ASSUME NEW t \in Threads, get_leveldb_handler(t) PROVE StoreInv'
  <2>1. PICK s \in Months : s = thr[t].suffix /\ s = get_table_suffix(now) /\ thr[t].pc = "create"
    BY <1>0, <1>3 DEF get_leveldb_handler, CacheInStep, TypeOK
  <2>2. levelDBs_ # s => s \notin OpenDBs
    BY <1>0, <2>1 DEF OpenDBs, CacheInStep, CacheNotAhead, TypeOK, Months
  <2>3. /\ thr' = [thr EXCEPT ![t].pc = "ready"]
        /\ levelDBs_' = s
        /\ dbs' = dbs \/ dbs' = With(s, RowsOf(s))
        /\ UNCHANGED <<store_, now, openFailed>>
    BY <1>3, <2>1, <2>2 DEF get_leveldb_handler
  <2>4. TypeOK'
    BY <1>0, <2>1, <2>3, WithType, RowsOfType DEF TypeOK
  <2>5. CacheInStep'
    BY <1>0, <2>1, <2>3 DEF CacheInStep, CacheNotAhead, TypeOK, Months
  <2>6. RowsInPlace'
    <3>1. \A r \in RowsOf(s) : RightMonth(r.timestamp, s)
      BY <1>0 DEF RowsOf, RowsInPlace
    <3>2. s <= get_table_suffix(now)
      BY <1>b, <2>1
    <3>3. CASE dbs' = dbs
      BY <1>0, <2>3, <3>3 DEF RowsInPlace, RightMonth
    <3>4. CASE dbs' = With(s, RowsOf(s))
      BY <1>0, <2>3, <3>1, <3>2, <3>4, RowsStayInPlace
    <3> QED BY <2>3, <3>3, <3>4
  <2>7. ThreadsInPlace'
    <3>1. /\ thr'[t].suffix = thr[t].suffix /\ thr'[t].upto = thr[t].upto
          /\ thr'[t].op = thr[t].op
          /\ \A u \in Threads : u # t => thr'[u] = thr[u]
      BY <1>0, <2>3 DEF TypeOK
    <3> QED BY <1>0, <2>3, <3>1, ThreadsStayInPlace
  <2> QED BY <1>0, <2>1, <2>3, <2>4, <2>5, <2>6, <2>7
      DEF StoreInv, CacheNotAhead, AtWork, OpenOnce, TypeOK, Months
<1>4. ASSUME NEW t \in Threads, thr' = [thr EXCEPT ![t] = Idle],
             UNCHANGED <<store_, now, levelDBs_, openFailed>>,
             \/ UNCHANGED dbs
             \/ \E s \in Months : \E S \in SUBSET {StoredRow(r) : r \in Rows} :
                   /\ dbs' = With(s, S) /\ s <= get_table_suffix(now)
                   /\ \A r \in S : RightMonth(r.timestamp, s)
      PROVE  StoreInv'
  <2>1. 0 \in Months
    BY SuffixMonotone DEF Months
  <2>2. TypeOK'
    BY <1>0, <1>4, <2>1, WithType DEF TypeOK, Idle
  <2>3. CacheInStep' /\ AtWork'
    BY <1>0, <1>4 DEF CacheInStep, AtWork, TypeOK, Idle
  <2>4. RowsInPlace'
    <3>1. CASE dbs' = dbs
      BY <1>0, <1>4, <3>1 DEF RowsInPlace, RightMonth
    <3>2. CASE dbs' # dbs
      BY <1>0, <1>4, <3>2, RowsStayInPlace
    <3> QED BY <3>1, <3>2
  <2>5. ThreadsInPlace'
    <3>1. thr'[t] = Idle /\ \A u \in Threads : u # t => thr'[u] = thr[u]
      BY <1>0, <1>4 DEF TypeOK
    <3> QED BY <1>0, <1>4, <1>a, <3>1, ThreadsStayInPlace
  <2> QED BY <1>0, <1>4, <2>2, <2>3, <2>4, <2>5 DEF StoreInv, CacheNotAhead, OpenOnce
<1>5. ASSUME NEW t \in Threads, insert_ev_stat(t) PROVE StoreInv'
  <2>1. thr[t].op \in Rows /\ thr[t].suffix \in Months
    BY <1>0, <1>5 DEF insert_ev_stat, TypeOK
  <2>2. RowsOf(thr[t].suffix) \subseteq {StoredRow(r) : r \in Rows}
    BY <1>0, RowsOfType
  <2>3. PICK row : row = StoredRow(thr[t].op) /\ RightMonth(row.timestamp, thr[t].suffix)
    <3>1. StoredRow(thr[t].op).timestamp = thr[t].upto
      BY <1>0, <2>1, StoredRowIsRow DEF ThreadsInPlace
    <3> QED BY <1>0, <3>1 DEF ThreadsInPlace
  <2>4. \A r \in RowsOf(thr[t].suffix) : RightMonth(r.timestamp, thr[t].suffix)
    BY <1>0 DEF RowsOf, RowsInPlace
  <2>5. PICK S : /\ dbs' = With(thr[t].suffix, S)
                 /\ S \subseteq RowsOf(thr[t].suffix) \cup {row}
    BY <1>5, <2>3 DEF insert_ev_stat, Put
  <2>6. /\ S \in SUBSET {StoredRow(r) : r \in Rows}
        /\ \A r \in S : RightMonth(r.timestamp, thr[t].suffix)
    BY <2>1, <2>2, <2>3, <2>4, <2>5
  <2>7. thr[t].suffix <= get_table_suffix(now)
    BY <1>0 DEF ThreadsInPlace
  <2> QED BY <1>4, <1>5, <2>1, <2>5, <2>6, <2>7 DEF insert_ev_stat
<1>6. ASSUME NEW t \in Threads, OpenError(t) \/ select_ev_stat(t) PROVE StoreInv'
  BY <1>4, <1>6 DEF OpenError, select_ev_stat
<1>7. CASE UNCHANGED vars
  BY <1>0, <1>7 DEF vars, StoreInv, TypeOK, CacheInStep, CacheNotAhead, AtWork, OpenOnce,
                    RowsInPlace, ThreadsInPlace, RightMonth
<1> QED BY <1>1, <1>2, <1>3, <1>5, <1>6, <1>7 DEF Next

(* The times that lie between the keys of the iterator loop are those of   *)
(* the interval, although they are counted backwards.                      *)
LEMMA BackwardsIsTheSame ==
    ASSUME NEW time \in 1 .. Top, NEW upto \in Nat, NEW interval \in Nat, interval <= upto
    PROVE  /\ timestamp_exchange(upto) <= timestamp_exchange(time) <=> time <= upto
           /\ KeyBefore(timestamp_exchange(time), timestamp_exchange(upto - interval))
                <=> upto - interval < time
BY StoreAssumption DEF timestamp_exchange, KeyBefore

(* A row that is asked for within the month is where the select looks.     *)
LEMMA AskedInMonth ==
    ASSUME StoreInv, NEW t \in Threads, WithinMonth(t),
           NEW upto, upto = thr[t].upto, NEW interval \in Nat, interval = thr[t].op.tm_interval,
           interval <= upto,
           NEW r \in UNION {dbs[m] : m \in DOMAIN dbs},
           r.timestamp <= upto, interval = 0 \/ upto - interval < r.timestamp
    PROVE  r \in RowsOf(thr[t].suffix)
<1>0. upto \in Nat /\ now \in Nat /\ upto <= now
  BY StoreAssumption DEF StoreInv, TypeOK
<1>1. PICK m \in DOMAIN dbs : r \in dbs[m]
  OBVIOUS
<1>2. m \in Int /\ m <= get_table_suffix(now) /\ RightMonth(r.timestamp, m)
  BY <1>1 DEF StoreInv, RowsInPlace, TypeOK, Months
<1>3. PICK time \in Nat : time = r.timestamp /\ time >= 1
  BY <1>1, StoredRowIsRow DEF StoreInv, TypeOK, IsRow
<1>4. PICK first \in Nat : /\ first = IF interval = 0 THEN 1 ELSE upto - interval + 1
                          /\ first <= time
  BY <1>0, <1>3
<1>5. /\ get_table_suffix(first) = thr[t].suffix
      /\ store_ = "leveldb" => get_table_suffix(now) = thr[t].suffix
  BY <1>4 DEF WithinMonth
<1>6. /\ get_table_suffix(first) \in Nat /\ get_table_suffix(time) \in Nat
      /\ get_table_suffix(upto) \in Nat /\ get_table_suffix(now) \in Nat
      /\ get_table_suffix(first) <= get_table_suffix(time)
      /\ get_table_suffix(time) <= get_table_suffix(upto)
  BY <1>0, <1>3, <1>4, SuffixMonotone
<1>7. m = thr[t].suffix
  <2>1. CASE store_ = "sql"
    <3>1. get_table_suffix(upto) = thr[t].suffix /\ get_table_suffix(time) = m
      BY <1>2, <1>3, <2>1 DEF StoreInv, ThreadsInPlace, RightMonth
    <3> QED BY <1>5, <1>6, <3>1
  <2>2. CASE store_ = "leveldb"
    <3>1. get_table_suffix(time) <= m
      BY <1>2, <1>3, <2>2 DEF RightMonth
    <3> QED BY <1>2, <1>5, <1>6, <2>2, <3>1
  <2> QED BY <2>1, <2>2, StoreAssumption DEF StoreInv, TypeOK
<1> QED BY <1>1, <1>7 DEF RowsOf

LEMMA WindowFromInv == StoreInv => WindowIsExact
<1> SUFFICES ASSUME StoreInv, NEW t \in Threads, Selecting(t), Answers(t), WithinMonth(t),
                    thr[t].op.tm_interval <= thr[t].upto,
                    store_ = "sql" => thr[t].op.tm_interval > 0
             PROVE  Found(t) = Asked(t)
  BY DEF WindowIsExact
<1>1. PICK c \in Conds : c = thr[t].op
  BY DEF Selecting
<1>2. PICK upto \in Nat : upto = thr[t].upto
  BY DEF StoreInv, TypeOK
<1>3. PICK interval \in Nat : interval = c.tm_interval /\ interval <= upto
  BY <1>1, <1>2, StoreAssumption DEF IsCond
<1>4. PICK R : R = RowsOf(thr[t].suffix)
  OBVIOUS
<1>5. \A r \in R : r.timestamp \in 1 .. Top
  BY <1>4, RowsOfType, StoredRowIsRow DEF StoreInv, IsRow
<1>9. PICK All : All = UNION {dbs[m] : m \in DOMAIN dbs}
  OBVIOUS
<1>10. R \subseteq All
  BY <1>4, <1>9 DEF RowsOf
<1>11. ASSUME NEW r \in All, r.timestamp <= upto, interval = 0 \/ upto - interval < r.timestamp
       PROVE  r \in R
  BY <1>1, <1>2, <1>3, <1>4, <1>9, <1>11, AskedInMonth
<1>6. Asked(t) = {r \in R : /\ r.timestamp <= upto
                            /\ interval = 0 \/ upto - interval < r.timestamp
                            /\ Matches(r, c)}
  <2> DEFINE P(r) == /\ r.timestamp <= upto
                     /\ interval = 0 \/ upto - interval < r.timestamp
                     /\ Matches(r, c)
  <2>1. Asked(t) = {r \in All : P(r)}
    BY <1>1, <1>2, <1>3, <1>9, Zenon DEF Asked
  <2>2. \A r \in All : P(r) => r \in R
    BY <1>11
  <2>3. Asked(t) = {r \in R : P(r)}
    <3> HIDE DEF P
    <3> QED BY <1>10, <2>1, <2>2
  <2> QED BY <2>3
<1>7. CASE store_ = "leveldb"
  <2>1. Found(t) = {r \in R : /\ timestamp_exchange(upto) <= timestamp_exchange(r.timestamp)
                              /\ interval > 0 => KeyBefore(timestamp_exchange(r.timestamp),
                                                           timestamp_exchange(upto - interval))
                              /\ Matches(r, c)}
    BY <1>1, <1>2, <1>3, <1>4, <1>7 DEF Found, LevelDBSelected
  <2>2. ASSUME NEW r \in R
        PROVE  /\ timestamp_exchange(upto) <= timestamp_exchange(r.timestamp)
                    <=> r.timestamp <= upto
               /\ KeyBefore(timestamp_exchange(r.timestamp), timestamp_exchange(upto - interval))
                    <=> upto - interval < r.timestamp
    BY <1>3, <1>5, BackwardsIsTheSame
  <2>3. interval > 0 <=> interval # 0
    OBVIOUS
  <2> QED BY <1>6, <2>1, <2>2, <2>3
<1>8. CASE store_ # "leveldb"
  <2>1. store_ = "sql"
    BY <1>8, StoreAssumption DEF StoreInv, TypeOK
  <2>2. interval # 0
    BY <1>1, <1>3, <2>1
  <2>3. Found(t) = {r \in R : r.timestamp <= upto /\ r.timestamp > upto - interval /\ Matches(r, c)}
    BY <1>1, <1>2, <1>3, <1>4, <1>8 DEF Found, SqlSelected
  <2>4. \A r \in R : r.timestamp > upto - interval <=> upto - interval < r.timestamp
    BY <1>5
  <2> QED BY <1>6, <2>2, <2>3, <2>4
<1> QED BY <1>7, <1>8

(* LevelDB refuses to open a database twice in one process.  No thread is  *)
(* ever refused, although several may miss the cache at the turn of a      *)
(* month (get_leveldb_handler).                                            *)
THEOREM DatabasesOpenedOnce == Spec => []OpenOnce
<1>1. Spec => []StoreInv
  BY StoreInitial, StoreStep, PTL DEF Spec
<1>2. StoreInv => OpenOnce
  BY DEF StoreInv
<1> QED BY <1>1, <1>2, PTL

(* A select about a window within the month reads all the rows of its      *)
(* interval that are stored, in both stores, whenever they were inserted   *)
(* (select_ev_stat).                                                       *)
THEOREM SelectsReadTheirWindow == Spec => []WindowIsExact
<1>1. Spec => []StoreInv
  BY StoreInitial, StoreStep, PTL DEF Spec
<1> QED BY <1>1, WindowFromInv, PTL

(* Details and summary agree on every collectable set of rows.             *)
LEMMA DetailsAddUp ==
    ASSUME NEW S, Collectable(S), NEW by \in {"timestamp", "tag"},
           NEW G, G = Range(Details(S, by)),
           NEW sum, sum \in {Collect(S), Collect(G)}
    PROVE  /\ CountOf(G) = sum.count /\ ValueSumOf(G) = sum.value_sum
           /\ G # {} => /\ sum.value_min = Min(MinsOf(G))
                        /\ sum.value_max = Max(MaxsOf(G))
           /\ sum.count = Collect(S).count /\ sum.value_avg = Collect(S).value_avg
<1>1. G = {GroupInfo(S, by, k) : k \in KeysOf(S, by)}
  BY DetailsAre
<1>2. CountOf(G) = CountOf(S) /\ ValueSumOf(G) = ValueSumOf(S)
  BY <1>1, GroupCounts, GroupValueSums
<1>3. G = {} <=> S = {}
  BY <1>1 DEF KeysOf
<1>4. CountOf(S) = 0 <=> S = {}
  BY CountsArePositive
<1>5. S # {} => /\ Min(MinsOf(G)) = Min(MinsOf(S))
                /\ Max(MaxsOf(G)) = Max(MaxsOf(S))
  BY GroupExtremes
<1>6. /\ sum.count = CountOf(S) /\ sum.value_sum = ValueSumOf(S)
      /\ sum.value_avg = Collect(S).value_avg /\ sum.count = Collect(S).count
  <2>1. CASE sum = Collect(S)
    BY <2>1, CollectFields
  <2>2. CASE sum = Collect(G)
    <3>1. /\ sum.count = CountOf(S) /\ sum.value_sum = ValueSumOf(S)
          /\ sum.value_avg = IF CountOf(S) = 0 THEN 0 ELSE Quotient(ValueSumOf(S), CountOf(S))
      BY <1>2, <2>2, CollectFields
    <3> QED BY <3>1, CollectFields
  <2> QED BY <2>1, <2>2
<1>7. ASSUME G # {}
      PROVE  /\ sum.value_min = Min(MinsOf(G))
             /\ sum.value_max = Max(MaxsOf(G))
  <2>1. CountOf(S) # 0 /\ CountOf(G) # 0 /\ S # {}
    BY <1>2, <1>3, <1>4, <1>7
  <2>2. CASE sum = Collect(S)
    <3>1. /\ sum.value_min = Min(MinsOf(S))
          /\ sum.value_max = Max(MaxsOf(S))
      BY <2>1, <2>2, CollectFields
    <3> QED BY <1>5, <2>1, <3>1
  <2>3. CASE sum = Collect(G)
    BY <2>1, <2>3, CollectFields
  <2> QED BY <2>2, <2>3
<1> QED BY <1>2, <1>6, <1>7

(* The rows a select finds are rows of the database.                       *)
LEMMA StoredCollectable ==
    ASSUME NEW S \in SUBSET {StoredRow(r) : r \in Rows}
    PROVE  Collectable(S)
<1> DEFINE All == {StoredRow(r) : r \in Rows}
           f == [r \in Rows |-> StoredRow(r)]
<1>1. f \in Surjection(Rows, All)
  BY DEF Surjection
<1>2. IsFiniteSet(Rows)
  BY StoreAssumption
<1>3. IsFiniteSet(All)
  <2> HIDE DEF f, All
  <2> QED BY <1>1, <1>2, FS_Surjection
<1>4. IsFiniteSet(S)
  <2>1. S \in SUBSET All
    OBVIOUS
  <2> HIDE DEF All
  <2> QED BY <1>3, <2>1, FS_Subset
<1>5. ASSUME NEW r \in S
      PROVE  /\ r.timestamp \in Int /\ r.tag \in Int /\ r.count \in Nat \ {0}
             /\ r.value_sum \in Int /\ r.value_min \in Int /\ r.value_max \in Int
  <2>1. PICK q \in Rows : r = StoredRow(q)
    OBVIOUS
  <2>2. IsRow(r)
    BY <2>1, StoredRowIsRow
  <2> QED BY <2>2, StoreAssumption DEF IsRow
<1> QED BY <1>4, <1>5 DEF Collectable

LEMMA FoundIsStored ==
    ASSUME StoreInv, NEW t \in Threads
    PROVE  Found(t) \in SUBSET {StoredRow(r) : r \in Rows}
<1>1. RowsOf(thr[t].suffix) \subseteq {StoredRow(r) : r \in Rows}
  BY RowsOfType DEF StoreInv
<1>2. Found(t) \subseteq RowsOf(thr[t].suffix)
  BY DEF Found, LevelDBSelected, SqlSelected
<1> QED BY <1>1, <1>2

(* An uncut result has every group once.                                   *)
LEMMA UncutInfos ==
    ASSUME NEW S, Collectable(S), NEW c \in Conds, c.groupby # "none",
           NEW res,
           \/ (c.orderby = "none" \/ c.limit = 0) /\ res \in LevelDBInfos(S, c)
           \/ (c.orderby = "none" \/ c.limit # 0) /\ res \in SqlInfos(S, c)
    PROVE  /\ Range(res) = Range(Details(S, c.groupby)) /\ IsInjective(res)
           /\ res \in Seq(Range(res))
           /\ Len(res) = Cardinality(Range(res))
<1>1. c.groupby \in {"timestamp", "tag"}
  BY StoreAssumption DEF IsCond, GroupBy
<1>2. PICK d : d = Details(S, c.groupby)
  OBVIOUS
<1>3. /\ d \in Seq(Range(d)) /\ IsInjective(d) /\ Len(d) = Cardinality(Range(d))
      /\ IsFiniteSet(Range(d))
  BY <1>1, <1>2, DetailsAre
<1>4. CASE res = d
  BY <1>2, <1>3, <1>4
<1>5. CASE res = Reverse(d)
  BY <1>2, <1>3, <1>5, ReverseFacts
<1>6. CASE res \in SetToSeqs(Range(d))
  BY <1>2, <1>3, <1>6, SeqsOfSet
<1>7. ASSUME c.orderby = "none" \/ c.limit = 0, res \in LevelDBInfos(S, c)
      PROVE  res = d
  BY <1>2, <1>7 DEF LevelDBInfos
<1>8. ASSUME c.orderby = "none" \/ c.limit # 0, res \in SqlInfos(S, c)
      PROVE  res = Reverse(d) \/ res \in SetToSeqs(Range(d))
  <2>1. res \in SqlResults(S, c)
    BY <1>8 DEF SqlInfos
  <2> QED BY <1>1, <1>2, <2>1 DEF SqlResults
<1> QED BY <1>4, <1>5, <1>6, <1>7, <1>8

LEMMA AddUpFromInv == StoreInv => GroupsAddUp
<1> SUFFICES ASSUME StoreInv, NEW t \in Threads, Selecting(t), Answers(t), Uncut(t),
                    NEW res \in Infos(t)
             PROVE  /\ Cardinality(Range(res)) = Len(res)
                    /\ MapThenSumSet(LAMBDA g : g.count, Range(res)) = Summary(t).count
                    /\ MapThenSumSet(LAMBDA g : g.value_sum, Range(res)) = Summary(t).value_sum
                    /\ Range(res) # {} =>
                         /\ Summary(t).value_min = Min({g.value_min : g \in Range(res)})
                         /\ Summary(t).value_max = Max({g.value_max : g \in Range(res)})
  BY Zenon DEF GroupsAddUp
<1>1. PICK c \in Conds : c = thr[t].op
  BY DEF Selecting
<1>2. PICK S : S = Found(t)
  OBVIOUS
<1>3. Collectable(S)
  BY <1>2, FoundIsStored, StoredCollectable
<1>4. c.groupby \in {"timestamp", "tag"} /\ c.groupby # "none"
  BY <1>1, StoreAssumption DEF Uncut, IsCond, GroupBy
<1>5. store_ = "leveldb" \/ store_ = "sql"
  BY StoreAssumption DEF StoreInv, TypeOK
<1>6. \/ (c.orderby = "none" \/ c.limit = 0) /\ res \in LevelDBInfos(S, c)
      \/ (c.orderby = "none" \/ c.limit # 0) /\ res \in SqlInfos(S, c)
  BY <1>1, <1>2, <1>5 DEF Uncut, Infos
<1>7. Range(res) = Range(Details(S, c.groupby)) /\ Len(res) = Cardinality(Range(res))
  BY <1>3, <1>4, <1>6, UncutInfos
<1>8. Summary(t) \in {Collect(S), Collect(Range(res))}
  BY <1>1, <1>2, <1>7 DEF Summary
<1>9. /\ CountOf(Range(res)) = Summary(t).count /\ ValueSumOf(Range(res)) = Summary(t).value_sum
      /\ Range(res) # {} =>
           /\ Summary(t).value_min = Min(MinsOf(Range(res)))
           /\ Summary(t).value_max = Max(MaxsOf(Range(res)))
  <2>1. PICK G : G = Range(res)
    OBVIOUS
  <2>2. PICK sum : sum = Summary(t)
    OBVIOUS
  <2>3. PICK by \in {"timestamp", "tag"} : by = c.groupby
    BY <1>4
  <2>4. G = Range(Details(S, by)) /\ sum \in {Collect(S), Collect(G)}
    BY <1>7, <1>8, <2>1, <2>2, <2>3
  <2>5. /\ CountOf(G) = sum.count /\ ValueSumOf(G) = sum.value_sum
        /\ G # {} => /\ sum.value_min = Min(MinsOf(G))
                     /\ sum.value_max = Max(MaxsOf(G))
    BY ONLY <1>3, <2>3, <2>4, DetailsAddUp
  <2> QED BY <2>1, <2>2, <2>5
<1> QED BY <1>7, <1>9, Zenon DEF CountOf, ValueSumOf, MinsOf, MaxsOf

(* The details of a select and its summary tell the same story: every row  *)
(* is in one group, and the groups add up to the summary (select_ev_stat   *)
(* of both stores, which collect them in different ways).                  *)
THEOREM DetailsAgreeWithSummary == Spec => []GroupsAddUp
<1>1. Spec => []StoreInv
  BY StoreInitial, StoreStep, PTL DEF Spec
<1> QED BY <1>1, AddUpFromInv, PTL

-----------------------------------------------------------------------------
(* Query *)

(* What a thread of the application asks for was not refused, and a thread *)
(* of the server works for a thread of the application, or for nobody.     *)
Accepted == {c \in Calls : ~Refused(c)}

QueryBase ==
    /\ app \in [Apps -> [at : {"idle", "init", "call", "sent", "taken", "ignored", "answered"},
                         cond : Accepted \cup {None}]]
    /\ server \in [Threads -> Apps \cup {None}]

LEMMA QueryBaseInitial == QueryInit => QueryBase
BY DEF QueryInit, QueryBase, Away

LEMMA QueryBaseStep == QueryBase /\ [QueryNext]_queryVars => QueryBase'
<1> SUFFICES ASSUME QueryBase, [QueryNext]_queryVars PROVE QueryBase'
  OBVIOUS
<1>1. ASSUME NEW a \in Apps, CallInit(a) \/ CallSelect(a) PROVE QueryBase'
  BY <1>1 DEF CallInit, CallSelect, QueryBase, Accepted
<1>2. ASSUME NEW a \in Apps, init(a) \/ SendRequest(a) PROVE QueryBase'
  BY <1>2 DEF init, SendRequest, QueryBase, Away
<1>3. ASSUME NEW a \in Apps, CallReturns(a) \/ CallFails(a) PROVE QueryBase'
  BY <1>3 DEF CallReturns, CallFails, Return, QueryBase, Away
<1>4. ASSUME NEW a \in Apps, ReadOpsAnswers(a) PROVE QueryBase'
  BY <1>4 DEF ReadOpsAnswers, QueryBase
<1>5. ASSUME NEW a \in Apps, NEW t \in Threads, ReadOpsSelects(a, t) PROVE QueryBase'
  BY <1>5 DEF ReadOpsSelects, QueryBase
<1>6. ASSUME NEW t \in Threads, NEW ok, ReadOpsReplies(t, ok) PROVE QueryBase'
  <2>1. server' = [server EXCEPT ![t] = None]
    BY <1>6 DEF ReadOpsReplies
  <2>2. CASE server[t] = None
    BY <1>6, <2>1, <2>2 DEF ReadOpsReplies, QueryBase
  <2>3. CASE server[t] # None
    <3>1. server[t] \in Apps
      BY <2>3 DEF QueryBase
    <3>2. \E x \in {"answered", "ignored"} : app' = [app EXCEPT ![server[t]].at = x]
      BY <1>6, <2>3 DEF ReadOpsReplies
    <3> QED BY <2>1, <3>1, <3>2 DEF QueryBase
  <2> QED BY <2>2, <2>3
<1>7. CASE UNCHANGED clientVars
  BY <1>7 DEF clientVars, QueryBase
<1>8. ASSUME NEW t \in Threads, StoreOpens(t) \/ StoreSelects(t) PROVE QueryBase'
  BY <1>6, <1>7, <1>8 DEF StoreOpens, StoreSelects
<1>9. ASSUME NEW t \in Threads, StoreInserts(t) PROVE QueryBase'
  BY <1>7, <1>9 DEF StoreInserts
<1>10. CASE UNCHANGED queryVars
  BY <1>7, <1>10 DEF queryVars
<1> QED BY <1>1, <1>2, <1>3, <1>4, <1>5, <1>7, <1>8, <1>9, <1>10
    DEF QueryNext, ServerStep, AppStep

(* Each step of a query is a step of the store or leaves it alone.         *)
LEMMA QueryIsStoreStep == QueryBase /\ [QueryNext]_queryVars => [Next]_vars
<1> SUFFICES ASSUME QueryBase, [QueryNext]_queryVars PROVE [Next]_vars
  OBVIOUS
<1>1. ASSUME NEW a \in Apps, \/ CallInit(a) \/ CallSelect(a) \/ init(a) \/ SendRequest(a)
                             \/ CallReturns(a) \/ CallFails(a) \/ ReadOpsAnswers(a)
      PROVE  UNCHANGED vars
  BY <1>1 DEF CallInit, CallSelect, init, SendRequest, CallReturns, CallFails, ReadOpsAnswers,
              storeVars
<1>2. ASSUME NEW a \in Apps, NEW t \in Threads, ReadOpsSelects(a, t) PROVE Next
  <2>1. app[a].cond \in Conds
    BY <1>2, QueryAssumption DEF ReadOpsSelects, QueryBase, Accepted
  <2> QED BY <1>2, <2>1 DEF ReadOpsSelects, Next
<1>3. ASSUME NEW t \in Threads, StoreOpens(t) \/ StoreSelects(t) \/ StoreInserts(t) PROVE Next
  BY <1>3 DEF StoreOpens, StoreSelects, StoreInserts, Next
<1>4. CASE UNCHANGED queryVars
  BY <1>4 DEF queryVars
<1>5. CASE Tick
  BY <1>5 DEF Next
<1> QED BY <1>1, <1>2, <1>3, <1>4, <1>5 DEF QueryNext, ServerStep, AppStep

(* The calls of the client library and read_ops_impl use the store only as *)
(* EventStore says: what is shown of the store by itself holds for it      *)
(* behind the server.                                                      *)
THEOREM QueryUsesStore == QuerySpec => Spec
<1>1. QueryInit => Init
  BY DEF QueryInit
<1> QED BY <1>1, QueryBaseInitial, QueryBaseStep, QueryIsStoreStep, PTL DEF QuerySpec, Spec
-----------------------------------------------------------------------------
(* The answer of a select, from the store to the application.              *)

StoredRows == {StoredRow(r) : r \in Rows}

IntervalsFit == \A t \in Threads : thr[t].op \in Conds => thr[t].op.tm_interval <= thr[t].upto

(* A thread of the server that works for one of the application works on   *)
(* its condition, and no other thread works for it.                        *)
ServerInv ==
    /\ \A t \in Threads : server[t] # None =>
          /\ thr[t].pc # "idle" /\ thr[t].op = app[server[t]].cond
          /\ app[server[t]].at = "taken" /\ thr[t].op \in Conds
    /\ \A t, u \in Threads : server[t] = server[u] /\ server[t] # None => t = u

(* What the server may answer to condition c when S are the rows asked for.*)
AnswerTo(st, S, c, ans) ==
    /\ ans.asked = S
    /\ st = "sql" => c.groupby # "none"
    /\ ans.info \in (IF st = "leveldb" THEN LevelDBInfos(S, c) ELSE SqlInfos(S, c))
    /\ ans.summary = IF st = "leveldb" THEN Collect(S) ELSE Collect(Range(Details(S, c.groupby)))

AnswerOk(a) ==
    app[a].at = "answered" /\ app[a].cond # None /\ answer[a].code = 0 =>
        /\ app[a].cond \in Conds
        /\ answer[a].whole /\ (store_ = "sql" => app[a].cond.tm_interval > 0) =>
               \E S \in SUBSET StoredRows : AnswerTo(store_, S, app[a].cond, answer[a])

QueryInv ==
    /\ StoreInv /\ QueryBase /\ IntervalsFit /\ ServerInv
    /\ DOMAIN answer = Apps
    /\ \A a \in Apps : AnswerOk(a)

-----------------------------------------------------------------------------
LEMMA MinOfTwo ==
    ASSUME NEW a \in Int, NEW b \in Int
    PROVE  Min({a, b}) = IF a < b THEN a ELSE b
BY DEF Min

(* Cutting an ordered sequence keeps its first elements.                   *)
IsCut(r, s, limit) ==
    /\ Len(r) = Min({limit, Len(s)}) /\ Len(r) <= Len(s)
    /\ \A i \in DOMAIN r : i \in DOMAIN s /\ r[i] = s[i]
    /\ \A i \in DOMAIN s : i \notin DOMAIN r => Len(r) < i
    /\ IsInjective(r) /\ Range(r) \subseteq Range(s)

LEMMA ShortenFacts ==
    ASSUME NEW X, NEW s \in Seq(X), IsInjective(s), NEW limit \in Nat,
           NEW r, r = Shorten(s, limit)
    PROVE  r \in Seq(X) /\ IsCut(r, s, limit)
<1>1. PICK n \in Nat : n = Len(s) /\ DOMAIN s = 1 .. n
  OBVIOUS
<1>2. PICK m \in Nat : m = (IF n > limit THEN limit ELSE n) /\ m <= n
  OBVIOUS
<1>3. r = SubSeq(s, 1, m)
  BY <1>1, <1>2 DEF Shorten
<1>4. r \in Seq(X) /\ Len(r) = m /\ DOMAIN r = 1 .. m /\ \A i \in 1 .. m : r[i] = s[i]
  BY <1>1, <1>2, <1>3
<1>5. m = Min({limit, n})
  BY <1>2, MinOfTwo
<1>6. \A i \in 1 .. m : i \in 1 .. n
  BY <1>2
<1>7. IsInjective(r)
  BY <1>1, <1>4, <1>6 DEF IsInjective
<1>8. Range(r) \subseteq Range(s)
  BY <1>1, <1>4, <1>6 DEF Range
<1> QED BY <1>1, <1>2, <1>4, <1>5, <1>6, <1>7, <1>8 DEF IsCut

(* The field that is not copied is empty anyway.                           *)
LEMMA ReceivedIsSent ==
    ASSUME NEW S, Collectable(S), NEW c, c.groupby \in {"timestamp", "tag"},
           NEW X, NEW res \in Seq(X), Range(res) \subseteq Range(Details(S, c.groupby))
    PROVE  Received(c, res) = res
<1>1. PICK by \in {"timestamp", "tag"} : by = c.groupby
  OBVIOUS
<1> DEFINE cut(x) == IF by = "tag" THEN [x EXCEPT !.timestamp = 0] ELSE [x EXCEPT !.tag = 0]
<1>2. ASSUME NEW k \in KeysOf(S, by)
      PROVE  cut(GroupInfo(S, by, k)) = GroupInfo(S, by, k)
  <2>1. PICK x : x = Collect(Group(S, by, k))
    OBVIOUS
  <2>2. x = [f \in DOMAIN x |-> x[f]] /\ x.timestamp = 0 /\ x.tag = 0
    BY <2>1, Zenon DEF Collect
  <2>3. GroupInfo(S, by, k) = [x EXCEPT ![by] = k]
    BY <2>1 DEF GroupInfo
  <2> QED BY <2>2, <2>3
<1>3. \A n \in DOMAIN res : cut(res[n]) = res[n]
  <2> SUFFICES ASSUME NEW n \in DOMAIN res PROVE cut(res[n]) = res[n]
    OBVIOUS
  <2>1. res[n] \in {GroupInfo(S, by, k) : k \in KeysOf(S, by)}
    <3>1. res[n] \in Range(Details(S, by))
      BY <1>1 DEF Range
    <3> QED BY <3>1, DetailsAre
  <2> QED BY <1>2, <2>1
<1>4. Received(c, res) = [n \in DOMAIN res |-> cut(res[n])]
  BY <1>1 DEF Received
<1> HIDE DEF cut
<1>5. Received(c, res) = [n \in DOMAIN res |-> res[n]]
  BY <1>3, <1>4
<1> QED BY <1>5

(* What the properties ask of the groups that reach the application.       *)
GroupsAre(res, all, c) ==
    /\ Len(res) = IF c.orderby = "none" \/ c.limit = 0
                  THEN Cardinality(all)
                  ELSE Min({c.limit, Cardinality(all)})
    /\ IsInjective(res) /\ Range(res) \subseteq all
    /\ c.orderby # "none" =>
         /\ \A m, n \in DOMAIN res : m < n => InOrder(res[m], res[n], c)
         /\ \A x \in Range(res) : \A y \in all \ Range(res) : InOrder(x, y, c)

LEMMA SortedGroups ==
    ASSUME NEW X, NEW d \in Seq(X), IsFiniteSet(Range(d)),
           NEW c, Sortable(d, c), NEW s \in do_sort(d, c)
    PROVE  /\ s \in Seq(Range(d)) /\ Len(s) = Cardinality(Range(d))
           /\ IsInjective(s) /\ Range(s) = Range(d)
           /\ \A m, n \in DOMAIN s : m < n => InOrder(s[m], s[n], c)
<1>1. s \in SetToSeqs(Range(d)) /\ \A m, n \in DOMAIN s : m < n => InOrder(s[m], s[n], c)
  BY DEF do_sort, Before, InOrder
<1>2. PICK Y : Y = Range(d)
  OBVIOUS
<1>3. s \in Seq(Y) /\ Len(s) = Cardinality(Y) /\ IsInjective(s) /\ Range(s) = Y
  BY <1>1, <1>2, SeqsOfSet
<1> QED BY <1>1, <1>2, <1>3

LEMMA ResultsAreRight ==
    ASSUME NEW S, Collectable(S), NEW c \in Conds, c.groupby # "none",
           NEW st \in {"leveldb", "sql"}, st = "sql" => c.orderby = "none",
           c.orderby # "none" => Sortable(Details(S, c.groupby), c),
           NEW ans, AnswerTo(st, S, c, ans),
           NEW all, all = Range(Details(S, c.groupby)),
           NEW got, got = Received(c, ans.info),
           NEW res, IF SortHere(c, got) THEN res \in do_sort(got, c) ELSE res = got
    PROVE  GroupsAre(res, all, c)
<1>0. /\ c.groupby \in {"timestamp", "tag"} /\ c.limit \in Nat
  BY StoreAssumption DEF IsCond, GroupBy
<1>1. PICK d : d = Details(S, c.groupby)
  OBVIOUS
<1>2. /\ d \in Seq(all) /\ IsInjective(d) /\ Len(d) = Cardinality(all) /\ Range(d) = all
      /\ IsFiniteSet(all)
  <2>1. PICK by \in {"timestamp", "tag"} : by = c.groupby
    BY <1>0
  <2> QED BY <1>1, <2>1, DetailsAre
<1>3. Cardinality(all) \in Nat
  BY <1>2, FS_CardinalityType
<1>4. CASE st = "sql" \/ c.orderby = "none" \/ c.limit = 0
  <2>1. \/ (c.orderby = "none" \/ c.limit = 0) /\ ans.info \in LevelDBInfos(S, c)
        \/ (c.orderby = "none" \/ c.limit # 0) /\ ans.info \in SqlInfos(S, c)
    BY <1>4 DEF AnswerTo
  <2>2. PICK i : i = ans.info
    OBVIOUS
  <2>3. /\ Range(i) = all /\ IsInjective(i) /\ i \in Seq(Range(i)) /\ Len(i) = Cardinality(Range(i))
    BY <2>1, <2>2, UncutInfos
  <2>4. got = i
    BY <1>0, <2>2, <2>3, ReceivedIsSent
  <2>5. CASE SortHere(c, got)
    <3>1. res \in do_sort(i, c)
      BY <2>4, <2>5
    <3>2. st = "leveldb" /\ c.orderby # "none" /\ c.limit = 0
      BY <2>5 DEF SortHere
    <3>3. i = d
      BY <1>0, <1>1, <2>2, <3>2 DEF AnswerTo, LevelDBInfos
    <3>4. Sortable(i, c)
      BY <1>1, <3>2, <3>3
    <3>5. /\ Len(res) = Cardinality(Range(i)) /\ IsInjective(res) /\ Range(res) = Range(i)
          /\ \A m, n \in DOMAIN res : m < n => InOrder(res[m], res[n], c)
      BY <1>2, <3>1, <3>3, <3>4, SortedGroups
    <3> QED BY <2>3, <3>2, <3>5 DEF GroupsAre
  <2>6. CASE ~SortHere(c, got)
    <3>1. res = i
      BY <2>4, <2>6
    <3>2. c.orderby = "none" \/ i = <<>>
      BY <1>4, <2>4, <2>6 DEF SortHere
    <3>3. CASE c.orderby = "none"
      BY <2>3, <3>1, <3>3 DEF GroupsAre
    <3>4. CASE i = <<>> /\ c.orderby # "none"
      <4>1. Range(i) = {} /\ DOMAIN i = {}
        BY <3>4 DEF Range
      <4>2. c.limit = 0
        BY <1>4, <3>4
      <4> QED BY <2>3, <3>1, <4>1, <4>2 DEF GroupsAre
    <3> QED BY <3>2, <3>3, <3>4
  <2> QED BY <2>5, <2>6
<1>5. CASE st = "leveldb" /\ c.orderby # "none" /\ c.limit # 0
  <2>1. PICK s \in do_sort(d, c) : ans.info = Shorten(s, c.limit)
    BY <1>0, <1>1, <1>5 DEF AnswerTo, LevelDBInfos
  <2>2. /\ s \in Seq(all) /\ Len(s) = Cardinality(all) /\ IsInjective(s) /\ Range(s) = all
        /\ \A m, n \in DOMAIN s : m < n => InOrder(s[m], s[n], c)
    BY <1>1, <1>2, <1>5, SortedGroups
  <2>3. PICK i : i = ans.info
    OBVIOUS
  <2>4. /\ i \in Seq(all) /\ Len(i) = Min({c.limit, Len(s)}) /\ Len(i) <= Len(s)
        /\ \A k \in DOMAIN i : k \in DOMAIN s /\ i[k] = s[k]
        /\ \A k \in DOMAIN s : k \notin DOMAIN i => Len(i) < k
        /\ IsInjective(i) /\ Range(i) \subseteq Range(s)
    <3>1. PICK limit \in Nat : limit = c.limit
      BY <1>0
    <3>2. i = Shorten(s, limit)
      BY <2>1, <2>3, <3>1
    <3>3. s \in Seq(all) /\ IsInjective(s)
      BY <2>2
    <3>4. i \in Seq(all) /\ IsCut(i, s, limit)
      BY ONLY <3>1, <3>2, <3>3, ShortenFacts
    <3> QED BY <3>1, <3>4 DEF IsCut
  <2>5. got = i
    BY <1>0, <2>2, <2>3, <2>4, ReceivedIsSent
  <2>6. res = i
    BY <1>5, <2>5 DEF SortHere
  <2>7. \A m, n \in DOMAIN i : m < n => InOrder(i[m], i[n], c)
    BY <2>2, <2>4
  <2>8. ASSUME NEW x \in Range(i), NEW y \in all \ Range(i) PROVE InOrder(x, y, c)
    <3>1. PICK k \in DOMAIN i : x = i[k]
      BY DEF Range
    <3>2. PICK l \in DOMAIN s : y = s[l]
      BY <2>2 DEF Range
    <3>3. l \notin DOMAIN i
      BY <2>4, <2>8, <3>2 DEF Range
    <3>4. k < l
      <4>1. k \in 1 .. Len(i) /\ Len(i) \in Nat /\ l \in Nat
        BY <2>2, <2>4
      <4>2. Len(i) < l
        BY <2>4, <3>3
      <4> QED BY <4>1, <4>2
    <3> QED BY <2>2, <2>4, <3>1, <3>2, <3>4
  <2> QED BY <1>5, <2>2, <2>4, <2>6, <2>7, <2>8 DEF GroupsAre
<1> QED BY <1>4, <1>5

-----------------------------------------------------------------------------
LEMMA IntervalsStep ==
    NoneReachesBack /\ StoreInv /\ IntervalsFit /\ [Next]_vars => IntervalsFit'
<1> SUFFICES ASSUME NoneReachesBack, StoreInv, IntervalsFit, [Next]_vars
             PROVE  IntervalsFit'
  OBVIOUS
<1>0. thr \in [Threads -> [pc : {"idle", "create", "ready"}, suffix : Months,
                           op : Rows \cup Conds \cup {None}, upto : Nat]]
  BY DEF StoreInv, TypeOK
<1>1. ASSUME NEW t \in Threads, thr' = [thr EXCEPT ![t] = Idle] PROVE IntervalsFit'
  BY <1>0, <1>1, StoreAssumption DEF IntervalsFit, Idle
<1>2. ASSUME NEW t \in Threads, thr' = [thr EXCEPT ![t].pc = "ready"] PROVE IntervalsFit'
  BY <1>0, <1>2 DEF IntervalsFit
<1>3. ASSUME NEW t \in Threads, NEW op \in Rows \cup Conds, Begin(t, op) PROVE IntervalsFit'
  <2>1. op \in Conds => op.tm_interval <= RealStart(op)
    <3> SUFFICES ASSUME op \in Conds PROVE op.tm_interval <= RealStart(op)
      OBVIOUS
    <3>1. /\ op.tm_interval \in Nat /\ op.tm_start \in Int
          /\ op.tm_interval <= InitTime - Linger
          /\ op.tm_start > 0 => op.tm_interval <= op.tm_start
      BY StoreAssumption DEF IsCond, NoneReachesBack
    <3>2. /\ now \in Int /\ InitTime <= now /\ Linger \in Nat /\ InitTime \in Nat
      BY StoreAssumption DEF StoreInv, TypeOK
    <3> QED BY <3>1, <3>2 DEF RealStart
  <2>2. PICK pc, s :
          thr' = [thr EXCEPT ![t] =
                    [pc |-> pc, suffix |-> s, op |-> op,
                     upto |-> IF op \in Conds THEN RealStart(op) ELSE op.timestamp]]
    BY <1>3 DEF Begin
  <2> QED BY <1>0, <2>1, <2>2 DEF IntervalsFit
<1>4. ASSUME UNCHANGED thr PROVE IntervalsFit'
  BY <1>4 DEF IntervalsFit
<1>5. ASSUME NEW t \in Threads, get_leveldb_handler(t) PROVE IntervalsFit'
  BY <1>1, <1>2, <1>5 DEF get_leveldb_handler
<1>6. ASSUME NEW t \in Threads, OpenError(t) \/ insert_ev_stat(t) \/ select_ev_stat(t)
      PROVE  IntervalsFit'
  BY <1>1, <1>6 DEF OpenError, insert_ev_stat, select_ev_stat
<1>7. CASE Tick
  BY <1>4, <1>7 DEF Tick
<1>8. CASE UNCHANGED vars
  BY <1>4, <1>8 DEF vars
<1> QED BY <1>3, <1>5, <1>6, <1>7, <1>8 DEF Next

(* What becomes of the threads in the steps of the store.                  *)
LEMMA ThreadsStep ==
    ASSUME StoreInv, NEW t \in Threads
    PROVE  /\ (get_leveldb_handler(t) \/ OpenError(t)) =>
                /\ thr[t].pc = "create" /\ store_' = store_
                /\ \A u \in Threads : u # t => thr'[u] = thr[u]
                /\ thr'[t] = Idle \/ (thr'[t].pc = "ready" /\ thr'[t].op = thr[t].op)
           /\ (insert_ev_stat(t) \/ select_ev_stat(t)) =>
                /\ thr[t].pc = "ready" /\ store_' = store_
                /\ insert_ev_stat(t) => thr[t].op \in Rows
                /\ select_ev_stat(t) => thr[t].op \in Conds
                /\ \A u \in Threads : u # t => thr'[u] = thr[u]
                /\ thr'[t] = Idle
           /\ \A op : Begin(t, op) =>
                /\ thr[t].pc = "idle" /\ store_' = store_
                /\ thr'[t].op = op /\ thr'[t].pc # "idle"
                /\ \A u \in Threads : u # t => thr'[u] = thr[u]
<1>0. thr \in [Threads -> [pc : {"idle", "create", "ready"}, suffix : Months,
                           op : Rows \cup Conds \cup {None}, upto : Nat]]
  BY DEF StoreInv, TypeOK
<1>1. ASSUME get_leveldb_handler(t) \/ OpenError(t)
      PROVE  /\ thr[t].pc = "create" /\ store_' = store_
             /\ \A u \in Threads : u # t => thr'[u] = thr[u]
             /\ thr'[t] = Idle \/ (thr'[t].pc = "ready" /\ thr'[t].op = thr[t].op)
  <2>1. /\ thr[t].pc = "create" /\ store_' = store_
        /\ thr' = [thr EXCEPT ![t] = Idle] \/ thr' = [thr EXCEPT ![t].pc = "ready"]
    BY <1>1 DEF get_leveldb_handler, OpenError
  <2> QED BY <1>0, <2>1
<1>2. ASSUME insert_ev_stat(t) \/ select_ev_stat(t)
      PROVE  /\ thr[t].pc = "ready" /\ store_' = store_
             /\ insert_ev_stat(t) => thr[t].op \in Rows
             /\ select_ev_stat(t) => thr[t].op \in Conds
             /\ \A u \in Threads : u # t => thr'[u] = thr[u]
             /\ thr'[t] = Idle
  BY <1>0, <1>2 DEF insert_ev_stat, select_ev_stat, Selecting
<1>3. ASSUME NEW op, Begin(t, op)
      PROVE  /\ thr[t].pc = "idle" /\ store_' = store_
             /\ thr'[t].op = op /\ thr'[t].pc # "idle"
             /\ \A u \in Threads : u # t => thr'[u] = thr[u]
  <2>1. thr[t].pc = "idle" /\ store_' = store_
    BY <1>3 DEF Begin
  <2>2. PICK b, s, upto :
          thr' = [thr EXCEPT ![t] = [pc |-> IF b THEN "ready" ELSE "create",
                                     suffix |-> s, op |-> op, upto |-> upto]]
    BY <1>3 DEF Begin
  <2> QED BY <1>0, <2>1, <2>2
<1> QED BY <1>1, <1>2, <1>3

LEMMA AnswerKept ==
    ASSUME NEW b, AnswerOk(b), app'[b] = app[b], answer'[b] = answer[b], store_' = store_
    PROVE  AnswerOk(b)'
BY DEF AnswerOk

(* A thread of the server is done with the store (ReadOpsReplies).         *)
LEMMA ReplyStep ==
    ASSUME QueryInv, NEW t \in Threads, NEW ok, ReadOpsReplies(t, ok), ok \in BOOLEAN,
           thr'[t] = Idle, \A u \in Threads : u # t => thr'[u] = thr[u], store_' = store_,
           ok => Selecting(t) /\ Answers(t)
    PROVE  ServerInv' /\ \A b \in Apps : AnswerOk(b)'
<1>0. /\ app \in [Apps -> [at : {"idle", "init", "call", "sent", "taken", "ignored", "answered"},
                           cond : Accepted \cup {None}]]
      /\ server \in [Threads -> Apps \cup {None}]
  BY DEF QueryInv, QueryBase
<1>1. server' = [server EXCEPT ![t] = None]
  BY DEF ReadOpsReplies
<1>2. CASE server[t] = None
  <2>1. UNCHANGED <<app, answer>>
    BY <1>2 DEF ReadOpsReplies
  <2>2. \A b \in Apps : AnswerOk(b)'
    BY <2>1, AnswerKept DEF QueryInv
  <2>3. \A u \in Threads : server'[u] = server[u] /\ (server[u] # None => u # t)
    BY <1>0, <1>1, <1>2
  <2>4. ServerInv'
    BY <2>1, <2>3 DEF QueryInv, ServerInv
  <2> QED BY <2>2, <2>4
<1>3. CASE server[t] # None
  <2>1. PICK a \in Apps : a = server[t]
    BY <1>0, <1>3
  <2>2. /\ app[a].at = "taken" /\ app[a].cond = thr[t].op /\ thr[t].op \in Conds
        /\ \A u \in Threads : server[u] = a => u = t
    BY <1>3, <2>1 DEF QueryInv, ServerInv
  <2>3. app' = [app EXCEPT ![a].at = IF ok THEN "answered" ELSE "ignored"]
    BY <1>3, <2>1 DEF ReadOpsReplies
  <2>4. \A b \in Apps : b # a => app'[b] = app[b]
    BY <2>3
  <2>5. app'[a].at = (IF ok THEN "answered" ELSE "ignored") /\ app'[a].cond = thr[t].op
    BY <1>0, <2>2, <2>3
  <2>6. ServerInv'
    <3>1. \A u \in Threads : server'[u] # None =>
            u # t /\ server'[u] = server[u] /\ server[u] # a /\ server[u] \in Apps
      BY <1>0, <1>1, <2>2
    <3> QED BY <2>4, <3>1 DEF QueryInv, ServerInv
  <2>7. CASE ~ok
    <3>1. UNCHANGED answer
      BY <1>3, <2>1, <2>7 DEF ReadOpsReplies
    <3>2. AnswerOk(a)'
      BY <2>5, <2>7 DEF AnswerOk
    <3>3. \A b \in Apps : b # a => AnswerOk(b)'
      BY <2>4, <3>1, AnswerKept DEF QueryInv
    <3> QED BY <2>6, <3>2, <3>3
  <2>8. CASE ok
    <3>1. PICK res \in Infos(t) :
            answer' = [answer EXCEPT ![a] =
                         [code |-> 0, info |-> res, summary |-> Summary(t), asked |-> Asked(t),
                          whole |-> WithinMonth(t)]]
      BY <1>3, <2>1, <2>8 DEF ReadOpsReplies
    <3>2. \A b \in Apps : b # a => AnswerOk(b)'
      <4>1. \A b \in Apps : b # a => answer'[b] = answer[b]
        BY <3>1 DEF QueryInv
      <4> QED BY <2>4, <4>1, AnswerKept DEF QueryInv
    <3>3. answer'[a] = [code |-> 0, info |-> res, summary |-> Summary(t), asked |-> Asked(t),
                        whole |-> WithinMonth(t)]
      BY <3>1 DEF QueryInv
    <3>4. PICK c \in Conds : c = thr[t].op
      BY <2>2
    <3>5. store_ = "sql" => c.groupby # "none"
      BY <2>8, <3>4 DEF Answers, QueryOk
    <3>6. ASSUME answer'[a].whole, store_ = "sql" => c.tm_interval > 0
          PROVE  AnswerTo(store_, Found(t), c, answer'[a])
      <4>1. Found(t) = Asked(t)
        BY <2>8, <3>3, <3>4, <3>6, WindowFromInv DEF WindowIsExact, QueryInv, IntervalsFit
      <4> QED BY <3>3, <3>4, <3>5, <4>1 DEF AnswerTo, Infos, Summary
    <3>7. Found(t) \in SUBSET StoredRows
      BY FoundIsStored DEF QueryInv, StoredRows
    <3>8. AnswerOk(a)'
      <4>1. app'[a].cond = c
        BY <2>5, <3>4
      <4> QED BY <3>4, <3>6, <3>7, <4>1 DEF AnswerOk, StoredRows
    <3> QED BY <2>6, <3>2, <3>8
  <2> QED BY <2>7, <2>8
<1> QED BY <1>2, <1>3

LEMMA QueryInvInitial == QueryInit => QueryInv
<1> SUFFICES ASSUME QueryInit PROVE QueryInv
  OBVIOUS
<1>1. StoreInv /\ QueryBase
  BY StoreInitial, QueryBaseInitial DEF QueryInit
<1>2. IntervalsFit
  BY StoreAssumption DEF QueryInit, Init, Idle, IntervalsFit
<1>3. ServerInv
  BY DEF QueryInit, ServerInv
<1>4. DOMAIN answer = Apps /\ \A a \in Apps : AnswerOk(a)
  BY DEF QueryInit, AnswerOk, Away
<1> QED BY <1>1, <1>2, <1>3, <1>4 DEF QueryInv

(* Steps in which a thread of the application is served by nobody.         *)
LEMMA AppOnlyStep ==
    ASSUME QueryInv, NEW a \in Apps, app[a].at # "taken",
           \A b \in Apps : b # a => app'[b] = app[b] /\ answer'[b] = answer[b],
           UNCHANGED <<thr, store_, server>>,
           app'[a].at = "answered" => answer'[a].code # 0 \/ app'[a].cond = None
    PROVE  ServerInv' /\ \A b \in Apps : AnswerOk(b)'
<1>1. \A t \in Threads : server[t] # None => server[t] \in Apps /\ server[t] # a
  BY DEF QueryInv, ServerInv, QueryBase
<1>2. ServerInv'
  BY <1>1 DEF QueryInv, ServerInv
<1>3. \A b \in Apps : b # a => AnswerOk(b)'
  BY AnswerKept DEF QueryInv
<1>4. AnswerOk(a)'
  BY DEF AnswerOk
<1> QED BY <1>2, <1>3, <1>4

LEMMA QueryInvStep == NoneReachesBack /\ QueryInv /\ [QueryNext]_queryVars => QueryInv'
<1> SUFFICES ASSUME NoneReachesBack, QueryInv, [QueryNext]_queryVars PROVE QueryInv'
  OBVIOUS
<1>0. /\ app \in [Apps -> [at : {"idle", "init", "call", "sent", "taken", "ignored", "answered"},
                           cond : Accepted \cup {None}]]
      /\ server \in [Threads -> Apps \cup {None}] /\ DOMAIN answer = Apps
      /\ StoreInv /\ ServerInv /\ \A b \in Apps : AnswerOk(b)
  BY DEF QueryInv, QueryBase
<1>1. [Next]_vars
  BY QueryIsStoreStep DEF QueryInv
<1>2. StoreInv' /\ QueryBase' /\ IntervalsFit'
  BY <1>1, StoreStep, QueryBaseStep, IntervalsStep DEF QueryInv
<1>3. DOMAIN answer' = Apps
  BY <1>0 DEF QueryNext, ServerStep, AppStep, queryVars, clientVars, CallInit, CallSelect, init,
     SendRequest, CallReturns, CallFails, Return, ReadOpsAnswers, ReadOpsSelects, StoreOpens,
     StoreInserts, StoreSelects, ReadOpsReplies
<1> DEFINE Goal == ServerInv' /\ \A b \in Apps : AnswerOk(b)'
<1>4. ASSUME NEW a \in Apps, CallInit(a) \/ CallSelect(a) PROVE Goal
  <2>1. app[a].at = "idle" /\ UNCHANGED <<thr, store_, server, answer>>
    BY <1>4 DEF CallInit, CallSelect, Away, storeVars, vars
  <2>2. /\ \A b \in Apps : b # a => app'[b] = app[b]
        /\ app'[a].at # "answered"
    BY <1>0, <1>4, <2>1 DEF CallInit, CallSelect
  <2> HIDE DEF Goal
  <2> QED BY <2>1, <2>2, AppOnlyStep DEF Goal
<1>5. ASSUME NEW a \in Apps, init(a) \/ SendRequest(a) PROVE Goal
  <2>1. app[a].at \in {"init", "call"} /\ UNCHANGED <<thr, store_, server, answer>>
    BY <1>5 DEF init, SendRequest, storeVars, vars
  <2>2. /\ \A b \in Apps : b # a => app'[b] = app[b]
        /\ app'[a].at # "answered"
    BY <1>0, <1>5 DEF init, SendRequest, Away
  <2> HIDE DEF Goal
  <2> QED BY <2>1, <2>2, AppOnlyStep DEF Goal
<1>6. ASSUME NEW a \in Apps, CallReturns(a) PROVE Goal
  <2>1. app[a].at = "answered" /\ UNCHANGED <<thr, store_, server>>
    BY <1>6 DEF CallReturns, storeVars, vars
  <2>2. /\ \A b \in Apps : b # a => app'[b] = app[b] /\ answer'[b] = answer[b]
        /\ app'[a].at # "answered"
    BY <1>0, <1>6 DEF CallReturns, Return, Away
  <2> HIDE DEF Goal
  <2> QED BY <2>1, <2>2, AppOnlyStep DEF Goal
<1>7. ASSUME NEW a \in Apps, CallFails(a) PROVE Goal
  <2>1. /\ \A b \in Apps : b # a => app'[b] = app[b] /\ answer'[b] = answer[b]
        /\ app'[a].at # "answered" /\ UNCHANGED <<thr, store_>>
    BY <1>0, <1>7 DEF CallFails, Return, Away, storeVars, vars
  <2>2. \A t \in Threads : server'[t] = IF server[t] = a THEN None ELSE server[t]
    BY <1>7 DEF CallFails
  <2>3. \A t \in Threads : server'[t] # None =>
            server'[t] = server[t] /\ server[t] \in Apps /\ server[t] # a
    BY <1>0, <2>2
  <2>4. ServerInv'
    BY <1>0, <2>1, <2>3 DEF ServerInv
  <2>5. \A b \in Apps : b # a => AnswerOk(b)'
    BY <1>0, <2>1, AnswerKept
  <2>6. AnswerOk(a)'
    BY <2>1 DEF AnswerOk
  <2> QED BY <2>4, <2>5, <2>6
<1>8. ASSUME NEW a \in Apps, ReadOpsAnswers(a) PROVE Goal
  <2>1. app[a].at = "sent" /\ UNCHANGED <<thr, store_, server>>
    BY <1>8 DEF ReadOpsAnswers, storeVars, vars
  <2>2. /\ \A b \in Apps : b # a => app'[b] = app[b] /\ answer'[b] = answer[b]
        /\ app'[a].cond = app[a].cond
        /\ app[a].cond # None => answer'[a].code = -1
    <3>1. /\ app' = [app EXCEPT ![a].at = "answered"]
          /\ answer' = [answer EXCEPT ![a].code = IF app[a].cond = None THEN 0 ELSE -1]
      BY <1>8 DEF ReadOpsAnswers
    <3>2. DOMAIN answer[a] = {"code", "info", "summary", "asked", "whole"}
             => answer'[a].code = IF app[a].cond = None THEN 0 ELSE -1
      BY <1>0, <3>1
    <3> QED BY <1>0, <3>1, <3>2
  <2> HIDE DEF Goal
  <2> QED BY <2>1, <2>2, AppOnlyStep DEF Goal

<1>9. ASSUME NEW a \in Apps, NEW t \in Threads, ReadOpsSelects(a, t) PROVE Goal
  <2>1. PICK c \in Conds : c = app[a].cond
    BY <1>0, <1>9, QueryAssumption DEF ReadOpsSelects, Accepted
  <2>2. /\ app[a].at = "sent" /\ Begin(t, c)
        /\ server' = [server EXCEPT ![t] = a]
        /\ app' = [app EXCEPT ![a].at = "taken"] /\ answer' = answer
    BY <1>9, <2>1 DEF ReadOpsSelects
  <2>3. /\ thr[t].pc = "idle" /\ store_' = store_
        /\ thr'[t].op = c /\ thr'[t].pc # "idle"
        /\ \A u \in Threads : u # t => thr'[u] = thr[u]
    BY <1>0, <2>2, ThreadsStep
  <2>4. /\ app'[a].at = "taken" /\ app'[a].cond = c
        /\ \A b \in Apps : b # a => app'[b] = app[b]
    BY <1>0, <2>1, <2>2
  <2>5. /\ server'[t] = a /\ \A u \in Threads : u # t => server'[u] = server[u]
        /\ \A u \in Threads : server[u] # None => server[u] \in Apps /\ server[u] # a
    BY <1>0, <2>2 DEF ServerInv
  <2>6. ServerInv'
    BY <1>0, <2>3, <2>4, <2>5 DEF ServerInv
  <2>7. \A b \in Apps : b # a => AnswerOk(b)'
    BY <1>0, <2>2, <2>3, <2>4, AnswerKept
  <2>8. AnswerOk(a)'
    BY <2>4 DEF AnswerOk
  <2> QED BY <2>6, <2>7, <2>8
<1>10. ASSUME UNCHANGED clientVars, store_' = store_,
              \A u \in Threads : server[u] # None => thr'[u].pc # "idle" /\ thr'[u].op = thr[u].op
       PROVE  Goal
  <2>1. UNCHANGED <<app, answer, server>>
    BY <1>10 DEF clientVars
  <2>2. ServerInv'
    BY <1>0, <1>10, <2>1 DEF ServerInv
  <2>3. \A b \in Apps : AnswerOk(b)'
    BY <1>0, <1>10, <2>1, AnswerKept
  <2> QED BY <2>2, <2>3
<1>11. ASSUME NEW t \in Threads, StoreOpens(t) PROVE Goal
  <2>1. /\ store_' = store_ /\ \A u \in Threads : u # t => thr'[u] = thr[u]
        /\ thr'[t] = Idle \/ (thr'[t].pc = "ready" /\ thr'[t].op = thr[t].op)
    BY <1>0, <1>11, ThreadsStep DEF StoreOpens
  <2>2. CASE thr'[t] = Idle
    <3>1. ReadOpsReplies(t, FALSE)
      <4>1. thr'[t].pc = "idle"
        BY <2>2 DEF Idle
      <4> QED BY <1>11, <4>1 DEF StoreOpens
    <3> HIDE DEF Goal
    <3> QED BY <2>1, <2>2, <3>1, ReplyStep DEF Goal
  <2>3. CASE thr'[t].pc = "ready" /\ thr'[t].op = thr[t].op
    <3>1. UNCHANGED clientVars
      BY <1>11, <2>3 DEF StoreOpens
    <3>2. \A u \in Threads : server[u] # None => thr'[u].pc # "idle" /\ thr'[u].op = thr[u].op
      BY <1>0, <2>1, <2>3 DEF ServerInv
    <3> HIDE DEF Goal
    <3> QED BY <1>10, <2>1, <3>1, <3>2
  <2> QED BY <2>1, <2>2, <2>3
<1>12. ASSUME NEW t \in Threads, StoreInserts(t) PROVE Goal
  <2>1. UNCHANGED clientVars
    BY <1>12 DEF StoreInserts
  <2>2. /\ store_' = store_ /\ \A u \in Threads : u # t => thr'[u] = thr[u]
        /\ thr[t].pc = "idle" \/ thr[t].op \in Rows
    <3>1. CASE insert_ev_stat(t)
      BY <1>0, <3>1, ThreadsStep
    <3>2. CASE \E r \in Rows : Begin(t, r)
      BY <1>0, <3>2, ThreadsStep
    <3> QED BY <1>12, <3>1, <3>2 DEF StoreInserts
  <2>3. server[t] = None
    BY <1>0, <2>2, StoreAssumption DEF ServerInv
  <2>4. \A u \in Threads : server[u] # None => thr'[u].pc # "idle" /\ thr'[u].op = thr[u].op
    BY <1>0, <2>2, <2>3 DEF ServerInv
  <2> HIDE DEF Goal
  <2> QED BY <1>10, <2>1, <2>2, <2>4
<1>13. ASSUME NEW t \in Threads, StoreSelects(t) PROVE Goal
  <2>1. select_ev_stat(t) /\ ReadOpsReplies(t, Answers(t))
    BY <1>13 DEF StoreSelects
  <2>2. /\ store_' = store_ /\ thr'[t] = Idle
        /\ \A u \in Threads : u # t => thr'[u] = thr[u]
    BY <1>0, <2>1, ThreadsStep
  <2>3. Selecting(t)
    BY <2>1 DEF select_ev_stat
  <2>4. PICK ok : ok = Answers(t)
    OBVIOUS
  <2>5. ok \in BOOLEAN
    BY <2>4 DEF Answers
  <2>6. ReadOpsReplies(t, ok)
    BY <2>1, <2>4
  <2>7. ok => Selecting(t) /\ Answers(t)
    BY <2>3, <2>4
  <2> HIDE DEF Goal
  <2> QED BY <2>2, <2>5, <2>6, <2>7, ReplyStep DEF Goal
<1>14. ASSUME (Tick /\ UNCHANGED clientVars) \/ UNCHANGED queryVars PROVE Goal
  <2>1. store_' = store_ /\ thr' = thr /\ UNCHANGED clientVars
    BY <1>14 DEF Tick, queryVars, vars
  <2>2. \A u \in Threads : server[u] # None => thr'[u].pc # "idle" /\ thr'[u].op = thr[u].op
    BY <1>0, <2>1 DEF ServerInv
  <2> HIDE DEF Goal
  <2> QED BY <1>10, <2>1, <2>2
<1>15. Goal
  <2> HIDE DEF Goal
  <2>1. ASSUME NEW t \in Threads, ServerStep(t) \/ StoreInserts(t) PROVE Goal
    BY <1>11, <1>12, <1>13, <2>1 DEF ServerStep
  <2>2. ASSUME NEW a \in Apps, CallInit(a) \/ CallSelect(a) \/ AppStep(a) \/ CallFails(a)
        PROVE  Goal
    BY <1>4, <1>5, <1>6, <1>7, <1>8, <1>9, <2>2 DEF AppStep
  <2> QED BY <1>14, <2>1, <2>2 DEF QueryNext
<1> QED BY <1>2, <1>3, <1>15 DEF QueryInv

(* What reaches the application, in the states of the invariant.           *)
LEMMA EndFromInv == QueryInv => SelectEndToEnd
<1> SUFFICES ASSUME QueryInv, NEW a \in Apps, Answered(a), Orderable(a),
                    store_ = "sql" => app[a].cond.orderby = "none" /\ app[a].cond.tm_interval > 0
             PROVE  /\ answer[a].summary.count = Collect(answer[a].asked).count
                    /\ answer[a].summary.value_avg = Collect(answer[a].asked).value_avg
                    /\ \A res \in Results(a) :
                         IF app[a].cond.groupby = "none" THEN res = <<>>
                         ELSE GroupsAre(res, Range(Details(answer[a].asked, app[a].cond.groupby)),
                                        app[a].cond)
  BY Zenon DEF SelectEndToEnd, AsAskedFor, GroupsAre
<1>c. PICK c : c = app[a].cond
  OBVIOUS
<1>a. PICK all : all = Range(Details(answer[a].asked, c.groupby))
  OBVIOUS
<1>1. PICK S \in SUBSET StoredRows : AnswerTo(store_, S, c, answer[a])
  BY <1>c DEF QueryInv, AnswerOk, Answered
<1>2. c \in Conds
  BY <1>c DEF QueryInv, AnswerOk, Answered
<1>3. c.groupby = "none" \/ c.groupby \in {"timestamp", "tag"}
  BY <1>2, StoreAssumption DEF IsCond, GroupBy
<1>4. answer[a].asked = S
  BY <1>1 DEF AnswerTo
<1>5. Collectable(S)
  BY <1>1, StoredCollectable DEF StoredRows
<1>6. store_ \in {"leveldb", "sql"}
  BY StoreAssumption DEF QueryInv, StoreInv, TypeOK
<1>7. /\ answer[a].summary.count = Collect(S).count
      /\ answer[a].summary.value_avg = Collect(S).value_avg
  <2>1. PICK sum : sum = answer[a].summary
    OBVIOUS
  <2>2. sum = IF store_ = "leveldb" THEN Collect(S) ELSE Collect(Range(Details(S, c.groupby)))
    BY <1>1, <2>1 DEF AnswerTo
  <2>3. CASE store_ = "leveldb"
    BY <2>1, <2>2, <2>3
  <2>4. CASE store_ = "sql"
    <3>1. c.groupby # "none"
      BY <1>1, <2>4 DEF AnswerTo
    <3>2. PICK by \in {"timestamp", "tag"} : by = c.groupby
      BY <1>3, <3>1
    <3>3. PICK G : G = Range(Details(S, by))
      OBVIOUS
    <3>4. sum = Collect(G)
      BY <2>2, <2>4, <3>2, <3>3
    <3>5. sum.count = Collect(S).count /\ sum.value_avg = Collect(S).value_avg
      BY <1>5, <3>3, <3>4, DetailsAddUp
    <3> QED BY <2>1, <3>5
  <2> QED BY <1>6, <2>3, <2>4
<1>8. ASSUME c.groupby = "none", NEW res \in Results(a) PROVE res = <<>>
  <2>1. Received(c, answer[a].info) = <<>>
    BY <1>8 DEF Received
  <2> QED BY <1>8, <1>c, <2>1 DEF Results, SortHere
<1>9. ASSUME c.groupby # "none", NEW res \in Results(a) PROVE GroupsAre(res, all, c)
  <2>1. PICK got : got = Received(c, answer[a].info)
    OBVIOUS
  <2>2. IF SortHere(c, got) THEN res \in do_sort(got, c) ELSE res = got
    BY <1>c, <2>1, Zenon DEF Results
  <2>3. PICK ans : ans = answer[a]
    OBVIOUS
  <2>4. PICK st \in {"leveldb", "sql"} : st = store_
    BY <1>6
  <2>5. AnswerTo(st, S, c, ans) /\ (st = "sql" => c.orderby = "none") /\ got = Received(c, ans.info)
    BY <1>1, <1>c, <2>1, <2>3, <2>4
  <2>6. all = Range(Details(S, c.groupby))
    BY <1>4, <1>a
  <2>7. c.orderby # "none" => Sortable(Details(S, c.groupby), c)
    BY <1>4, <1>9, <1>c DEF Orderable
  <2> QED BY ONLY <1>2, <1>5, <1>9, <2>2, <2>4, <2>5, <2>6, <2>7, ResultsAreRight
<1> QED BY <1>4, <1>7, <1>8, <1>9, <1>a, <1>c

(* A select returns to the application what its condition asks for, of all *)
(* the rows that are stored, after the store, the wire and the sorting on  *)
(* one of the two sides (StoreLevelDB.cpp, StoreSql.cpp, Sort.h,           *)
(* read_ops_impl, rpc_event_select and the select_stat calls), whatever    *)
(* other threads of the application and the server do meanwhile; for a     *)
(* window within the month, when std::sort is defined, and of SQL without  *)
(* an order and with a lower bound.                                        *)
THEOREM SelectsAreRightEndToEnd == NoneReachesBack => (QuerySpec => []SelectEndToEnd)
<1> SUFFICES ASSUME NoneReachesBack PROVE QuerySpec => []SelectEndToEnd
  OBVIOUS
<1>1. QueryInv /\ [QueryNext]_queryVars => QueryInv'
  BY QueryInvStep
<1> QED BY <1>1, QueryInvInitial, EndFromInv, PTL DEF QuerySpec

-----------------------------------------------------------------------------
(* EventStat *)

(* The sum of the values at some positions of d.                           *)
DataSum(d, S) == MapThenSumSet(LAMBDA i : d[i].value, S)

LEMMA DataTotal ==
    ASSUME NEW S, IsFiniteSet(S), NEW d, NEW g,
           \A i \in S : d[i].value \in Int /\ g[i] = d[i].value
    PROVE  DataSum(d, S) = Total(g, S)
<1>1. PICK F \in [SUBSET S -> Int] : IsSum(F, g, S) /\ Total(g, S) = F[S]
  <2>1. \A x \in S : g[x] \in Int
    OBVIOUS
  <2> QED BY <2>1, TotalIs
<1> DEFINE Eq(G) == G = [s \in SUBSET S |-> IF s = {} THEN 0
                           ELSE d[CHOOSE x \in s : TRUE].value + G[s \ {CHOOSE x \in s : TRUE}]]
           C == CHOOSE G : Eq(G)
<1>2. DataSum(d, S) = C[S]
  BY DEF DataSum, MapThenSumSet, MapThenFoldSet
<1>3. ASSUME NEW G
      PROVE  IsSum(G, g, S) <=> Eq(G)
  <2>1. \A s \in (SUBSET S) \ {{}} : AnyOf(s) \in S /\ AnyOf(s) = CHOOSE x \in s : TRUE
    BY DEF AnyOf
  <2>2. \A s \in (SUBSET S) \ {{}} : g[AnyOf(s)] = d[CHOOSE x \in s : TRUE].value
    BY <2>1
  <2>3. [s \in SUBSET S |-> IF s = {} THEN 0 ELSE g[AnyOf(s)] + G[s \ {AnyOf(s)}]]
        = [s \in SUBSET S |->
             IF s = {} THEN 0 ELSE d[CHOOSE x \in s : TRUE].value + G[s \ {CHOOSE x \in s : TRUE}]]
    BY <2>1, <2>2
  <2> QED BY <2>3 DEF IsSum
<1> HIDE DEF Eq
<1>4. IsSum(C, g, S)
  <2>1. Eq(F)
    BY <1>1, <1>3
  <2>2. Eq(C)
    BY <2>1
  <2> QED BY <1>3, <2>2
<1> HIDE DEF C
<1>5. C[S] = F[S]
  BY <1>1, <1>4, SumUnique
<1> QED BY <1>1, <1>2, <1>5

(* A fold from the left takes out the largest position first.              *)
LEMMA UpTo ==
    ASSUME NEW n \in Nat
    PROVE  /\ IsFiniteSet(1 .. n)
           /\ \A s \in (SUBSET (1 .. n)) \ {{}} : Max(s) \in s
           /\ \A k \in 1 .. n : /\ 1 .. k \in SUBSET (1 .. n) /\ 1 .. k # {}
                                /\ Max(1 .. k) = k /\ (1 .. k) \ {k} = 1 .. (k - 1)
<1>1. IsFiniteSet(1 .. n)
  BY FS_Interval
<1>2. ASSUME NEW s \in (SUBSET (1 .. n)) \ {{}}
      PROVE  Max(s) \in s /\ \A y \in s : Max(s) >= y
  <2>1. s \in SUBSET Int /\ s # {}
    OBVIOUS
  <2>2. IsFiniteSet(s)
    BY <1>1, FS_Subset
  <2> QED BY <2>1, <2>2, MinMaxFacts
<1>3. ASSUME NEW k \in 1 .. n
      PROVE  /\ 1 .. k \in SUBSET (1 .. n) /\ 1 .. k # {}
             /\ Max(1 .. k) = k /\ (1 .. k) \ {k} = 1 .. (k - 1)
  <2>1. 1 .. k \in (SUBSET (1 .. n)) \ {{}} /\ k \in 1 .. k
    OBVIOUS
  <2>2. PICK s : s = 1 .. k
    OBVIOUS
  <2>3. Max(s) \in s /\ Max(s) >= k
    BY <1>2, <2>1, <2>2
  <2>4. Max(s) = k
    BY <2>2, <2>3
  <2> QED BY <2>1, <2>2, <2>4
<1> QED BY <1>1, <1>2, <1>3

(* There is a fold over 1 .. n.                                            *)
IsFoldUpTo(F, h, b, n) ==
    F = [s \in SUBSET (1 .. n) |-> IF s = {} THEN b ELSE h[<<Max(s), F[s \ {Max(s)}]>>]]

LEMMA FoldUpTo ==
    ASSUME NEW n \in Nat, NEW V, NEW b \in V, NEW h \in [(1 .. n) \X V -> V]
    PROVE  \E F \in [SUBSET (1 .. n) -> V] : IsFoldUpTo(F, h, b, n)
<1> DEFINE S == 1 .. n
           ch == [s \in SUBSET S |-> Max(s)]
<1>1. \A s \in (SUBSET S) \ {{}} : ch[s] \in s
  BY UpTo
<1>2. \A s \in SUBSET S : ch[s] = Max(s)
  OBVIOUS
<1>3. IsFiniteSet(S) /\ h \in [S \X V -> V]
  BY UpTo
<1> HIDE DEF S, ch
<1>4. PICK F \in [SUBSET S -> V] : IsFold(F, h, b, ch, S)
  BY <1>1, <1>3, FoldExists
<1>5. \A s \in SUBSET S : F[s] = IF s = {} THEN b ELSE h[<<Max(s), F[s \ {Max(s)}]>>]
  BY <1>2, <1>4 DEF IsFold
<1>6. F = [s \in SUBSET S |-> IF s = {} THEN b ELSE h[<<Max(s), F[s \ {Max(s)}]>>]]
  BY <1>4, <1>5
<1> QED BY <1>4, <1>6 DEF S, IsFoldUpTo

(* The values that fit the narrow type have no gaps.                       *)
LEMMA NarrowFacts ==
    \E lo, hi \in Int : \A v \in Int : Narrow(v) \in Int /\ (Fits(v) <=> lo <= v /\ v < hi)
<1>1. PICK m \in Nat \ {0} : m = 2 ^ IntBits
  BY IntBitsAssumption
<1>2. PICK hi \in Int : hi = m \div 2
  OBVIOUS
<1>3. PICK lo \in Int : lo = hi - m
  OBVIOUS
<1>4. ASSUME NEW v \in Int PROVE Narrow(v) \in Int /\ (Fits(v) <=> lo <= v /\ v < hi)
  <2>1. PICK u \in Int : u = v % m
    OBVIOUS
  <2>2. Narrow(v) = IF u < hi THEN u ELSE u - m
    BY <1>1, <1>2, <2>1 DEF Narrow
  <2> QED BY <1>1, <1>2, <1>3, <2>1, <2>2 DEF Fits
<1> QED BY <1>4

StatInfos == [count : Nat, value_sum : Int, values : Seq(Int)]
InfoMaps(T) == UNION {[A -> StatInfos] : A \in SUBSET T}

(* x is m with item added.                                                 *)
IsAdded(x, m, item) ==
    /\ DOMAIN x = DOMAIN m \cup {item.tag}
    /\ \A t \in DOMAIN m : t # item.tag => x[t] = m[t]
    /\ x[item.tag] = LET old == IF item.tag \in DOMAIN m THEN m[item.tag] ELSE EmptyInfo
                     IN  [count     |-> old.count + 1,
                          value_sum |-> old.value_sum + item.value,
                          values    |-> Append(old.values, Narrow(item.value))]

LEMMA AggregateType ==
    ASSUME NEW T, NEW m \in InfoMaps(T), NEW item, item.tag \in T, item.value \in Int
    PROVE  /\ IsAdded(aggregate_by_tag(m, item), m, item)
           /\ aggregate_by_tag(m, item) \in InfoMaps(T)
<1>1. PICK A \in SUBSET T : m \in [A -> StatInfos]
  BY DEF InfoMaps
<1> DEFINE old == IF item.tag \in DOMAIN m THEN m[item.tag] ELSE EmptyInfo
           new == [count     |-> old.count + 1,
                   value_sum |-> old.value_sum + item.value,
                   values    |-> Append(old.values, Narrow(item.value))]
<1>2. Narrow(item.value) \in Int
  BY NarrowFacts
<1>3. old \in StatInfos
  <2>1. EmptyInfo \in StatInfos
    BY DEF EmptyInfo, StatInfos
  <2> QED BY <1>1, <2>1
<1>4. new \in StatInfos
  <2> HIDE DEF old
  <2> QED BY <1>2, <1>3 DEF StatInfos
<1>5. aggregate_by_tag(m, item) =
        [t \in DOMAIN m \cup {item.tag} |-> IF t = item.tag THEN new ELSE m[t]]
  BY DEF aggregate_by_tag
<1>6. new = LET o == IF item.tag \in DOMAIN m THEN m[item.tag] ELSE EmptyInfo
            IN  [count     |-> o.count + 1,
                 value_sum |-> o.value_sum + item.value,
                 values    |-> Append(o.values, Narrow(item.value))]
  OBVIOUS
<1> HIDE DEF new
<1>7. aggregate_by_tag(m, item) \in [A \cup {item.tag} -> StatInfos]
  BY <1>1, <1>4, <1>5
<1>8. A \cup {item.tag} \in SUBSET T
  OBVIOUS
<1>9. aggregate_by_tag(m, item) \in InfoMaps(T)
  BY <1>7, <1>8 DEF InfoMaps
<1> QED BY <1>5, <1>6, <1>9 DEF IsAdded

(* c is what for_each has made of the first items of D, none at first.     *)
IsAggregation(c, D) ==
    /\ c[0] = <<>> /\ c[Len(D)] = FoldLeft(aggregate_by_tag, <<>>, D)
    /\ \A k \in 1 .. Len(D) : c[k] = aggregate_by_tag(c[k - 1], D[k])

LEMMA AggregateFold ==
    ASSUME NEW D, D \in Seq(Range(D)), \A i \in DOMAIN D : D[i].value \in Int
    PROVE  \E c : IsAggregation(c, D)
<1> DEFINE n == Len(D)
           T == {D[i].tag : i \in DOMAIN D}
           V == InfoMaps(T)
           h == [p \in (1 .. n) \X V |-> aggregate_by_tag(p[2], D[p[1]])]
           Eq(F) == F = [s \in SUBSET (1 .. n) |->
                            IF s = {} THEN <<>> ELSE aggregate_by_tag(F[s \ {Max(s)}], D[Max(s)])]
           C == CHOOSE F : Eq(F)
<1>1. n \in Nat /\ DOMAIN D = 1 .. n
  OBVIOUS
<1>2. <<>> \in V
  <2>1. <<>> \in [{} -> StatInfos] /\ {} \in SUBSET T
    OBVIOUS
  <2> QED BY <2>1 DEF InfoMaps
<1>3. h \in [(1 .. n) \X V -> V]
  <2>1. \A k \in 1 .. n : \A m \in V : aggregate_by_tag(m, D[k]) \in V
    <3> SUFFICES ASSUME NEW k \in 1 .. n, NEW m \in V PROVE aggregate_by_tag(m, D[k]) \in V
      OBVIOUS
    <3>1. D[k].tag \in T /\ D[k].value \in Int
      BY <1>1
    <3> HIDE DEF T
    <3> QED BY <3>1, AggregateType
  <2> HIDE DEF V
  <2> QED BY <2>1
<1>4. \A k \in 1 .. n : \A m \in V : h[<<k, m>>] = aggregate_by_tag(m, D[k])
  OBVIOUS
<1> HIDE DEF V, h
<1>5. PICK F \in [SUBSET (1 .. n) -> V] : IsFoldUpTo(F, h, <<>>, n)
  <2> HIDE DEF n
  <2> QED BY <1>1, <1>2, <1>3, FoldUpTo
<1> HIDE DEF n
<1>6. Eq(F)
  <2>1. \A s \in (SUBSET (1 .. n)) \ {{}} :
          h[<<Max(s), F[s \ {Max(s)}]>>] = aggregate_by_tag(F[s \ {Max(s)}], D[Max(s)])
    <3> SUFFICES ASSUME NEW s \in (SUBSET (1 .. n)) \ {{}}
                 PROVE  h[<<Max(s), F[s \ {Max(s)}]>>] = aggregate_by_tag(F[s \ {Max(s)}], D[Max(s)])
      OBVIOUS
    <3>1. Max(s) \in 1 .. n
      BY <1>1, UpTo
    <3>2. F[s \ {Max(s)}] \in V
      OBVIOUS
    <3> QED BY <1>4, <3>1, <3>2
  <2> QED BY <1>5, <2>1 DEF IsFoldUpTo
<1>7. C = [s \in SUBSET (1 .. n) |->
              IF s = {} THEN <<>> ELSE aggregate_by_tag(C[s \ {Max(s)}], D[Max(s)])]
  <2> HIDE DEF Eq
  <2>1. Eq(C)
    BY <1>6
  <2> QED BY <2>1 DEF Eq
<1>8. FoldLeft(aggregate_by_tag, <<>>, D) = C[1 .. n]
  BY <1>1 DEF FoldLeft, MapThenFoldSet
<1> HIDE DEF C
<1>9. \A k \in 1 .. n : C[1 .. k] = aggregate_by_tag(C[1 .. (k - 1)], D[k])
  <2> SUFFICES ASSUME NEW k \in 1 .. n PROVE C[1 .. k] = aggregate_by_tag(C[1 .. (k - 1)], D[k])
    OBVIOUS
  <2>1. /\ 1 .. k \in SUBSET (1 .. n) /\ 1 .. k # {}
        /\ Max(1 .. k) = k /\ (1 .. k) \ {k} = 1 .. (k - 1)
    BY <1>1, UpTo
  <2> QED BY <1>7, <2>1
<1>10. C[1 .. 0] = <<>>
  BY <1>7
<1> DEFINE c == [k \in 0 .. n |-> C[1 .. k]]
<1>11. c[0] = <<>> /\ c[n] = C[1 .. n] /\ \A k \in 1 .. n : c[k] = aggregate_by_tag(c[k - 1], D[k])
  BY <1>1, <1>9, <1>10
<1> QED BY <1>8, <1>11 DEF n, IsAggregation

(* vals are the values at the positions A of d, in some order.             *)
Fills(vals, d, A) ==
    /\ vals \in Seq(Int)
    /\ \E r \in Bijection(1 .. Len(vals), A) :
         \A j \in 1 .. Len(vals) : vals[j] = Narrow(d[r[j]].value)

TagsAt(d, A)     == {d[p].tag : p \in A}
WithTag(d, A, t) == {p \in A : d[p].tag = t}

InfoFor(x, d, A, F) ==
    /\ x \in StatInfos /\ x.count = Len(x.values) /\ x.value_sum = F[A] /\ Fills(x.values, d, A)

(* m is what aggregate_by_tag has made of the positions A of d.            *)
Aggregated(m, d, A, F) ==
    /\ DOMAIN m = TagsAt(d, A)
    /\ \A t \in DOMAIN m : InfoFor(m[t], d, WithTag(d, A, t), F)

LEMMA FillsEmpty == ASSUME NEW d PROVE Fills(<<>>, d, {})
<1>1. 1 .. Len(<<>>) = {} /\ <<>> \in Seq(Int)
  OBVIOUS
<1>2. [x \in {} |-> x] \in Bijection({}, {})
  BY DEF Bijection, Injection, IsInjective, Surjection
<1> QED BY <1>1, <1>2 DEF Fills

(* A numbering of A goes on with one more element.                         *)
GoesOn(q, r, n, p) == q[n + 1] = p /\ \A j \in 1 .. n : q[j] = r[j]

LEMMA OneMore ==
    ASSUME NEW n \in Nat, NEW A, NEW r \in Bijection(1 .. n, A), NEW p, p \notin A
    PROVE  \E q \in Bijection(1 .. (n + 1), A \cup {p}) : GoesOn(q, r, n, p)
<1> DEFINE q == [j \in 1 .. (n + 1) |-> IF j = n + 1 THEN p ELSE r[j]]
<1>1. /\ r \in [1 .. n -> A] /\ \A a \in A : \E j \in 1 .. n : r[j] = a
      /\ \A i, j \in 1 .. n : r[i] = r[j] => i = j
  BY DEF Bijection, Injection, IsInjective, Surjection
<1>2. /\ q[n + 1] = p /\ \A j \in 1 .. n : q[j] = r[j]
      /\ \A j \in 1 .. (n + 1) : j = n + 1 \/ j \in 1 .. n
      /\ DOMAIN q = 1 .. (n + 1)
  OBVIOUS
<1>3. q \in [1 .. (n + 1) -> A \cup {p}]
  BY <1>1
<1> HIDE DEF q
<1>4. \A a \in A \cup {p} : \E j \in 1 .. (n + 1) : q[j] = a
  <2> SUFFICES ASSUME NEW a \in A \cup {p} PROVE \E j \in 1 .. (n + 1) : q[j] = a
    OBVIOUS
  <2>1. CASE a = p
    BY <1>2, <2>1
  <2>2. CASE a # p
    <3>1. PICK j \in 1 .. n : r[j] = a
      BY <1>1, <2>2
    <3> QED BY <1>2, <3>1
  <2> QED BY <2>1, <2>2
<1>5. \A i, j \in 1 .. (n + 1) : q[i] = q[j] => i = j
  BY <1>1, <1>2
<1>6. q \in Bijection(1 .. (n + 1), A \cup {p})
  BY <1>3, <1>4, <1>5 DEF Bijection, Injection, IsInjective, Surjection
<1> QED BY <1>2, <1>6 DEF GoesOn

LEMMA FillsMore ==
    ASSUME NEW d, NEW A, NEW vals, Fills(vals, d, A), NEW p, p \notin A, d[p].value \in Int
    PROVE  Fills(Append(vals, Narrow(d[p].value)), d, A \cup {p})
<1>1. vals \in Seq(Int)
  BY DEF Fills
<1>2. PICK n \in Nat : n = Len(vals)
  BY <1>1
<1>3. PICK r \in Bijection(1 .. n, A) : \A j \in 1 .. n : vals[j] = Narrow(d[r[j]].value)
  BY <1>2 DEF Fills
<1>4. PICK v \in Int : v = Narrow(d[p].value)
  BY NarrowFacts
<1>5. PICK w : w = Append(vals, v)
  OBVIOUS
<1>6. w \in Seq(Int) /\ Len(w) = n + 1 /\ w[n + 1] = v /\ \A j \in 1 .. n : w[j] = vals[j]
  BY <1>1, <1>2, <1>5
<1>7. PICK q \in Bijection(1 .. (n + 1), A \cup {p}) : GoesOn(q, r, n, p)
  BY <1>3, OneMore
<1>8. \A j \in 1 .. (n + 1) : w[j] = Narrow(d[q[j]].value)
  BY <1>3, <1>4, <1>6, <1>7 DEF GoesOn
<1> QED BY <1>4, <1>5, <1>6, <1>7, <1>8 DEF Fills

LEMMA AggregatedStep ==
    ASSUME NEW d, NEW K, \A i \in K : d[i].value \in Int,
           NEW g, \A i \in K : g[i] = d[i].value, NEW F, AreTotals(F, g, K),
           NEW A \in SUBSET K, NEW p \in K \ A,
           NEW m \in InfoMaps(TagsAt(d, K)), Aggregated(m, d, A, F)
    PROVE  /\ aggregate_by_tag(m, d[p]) \in InfoMaps(TagsAt(d, K))
           /\ Aggregated(aggregate_by_tag(m, d[p]), d, A \cup {p}, F)
<1> DEFINE tag == d[p].tag
           B == A \cup {p}
<1>0. tag \in TagsAt(d, K) /\ d[p].value \in Int
  BY DEF TagsAt
<1>1. PICK old : old = IF tag \in DOMAIN m THEN m[tag] ELSE EmptyInfo
  OBVIOUS
<1>2. PICK new : new = [count     |-> old.count + 1,
                        value_sum |-> old.value_sum + d[p].value,
                        values    |-> Append(old.values, Narrow(d[p].value))]
  OBVIOUS
<1>3. PICK x : x = aggregate_by_tag(m, d[p])
  OBVIOUS
<1>4. /\ DOMAIN x = DOMAIN m \cup {tag} /\ x[tag] = new
      /\ \A t \in DOMAIN m : t # tag => x[t] = m[t]
      /\ x \in InfoMaps(TagsAt(d, K))
  <2>1. PICK T : T = TagsAt(d, K)
    OBVIOUS
  <2>2. PICK item : item = d[p]
    OBVIOUS
  <2>3. m \in InfoMaps(T) /\ item.tag \in T /\ item.value \in Int
    BY <1>0, <2>1, <2>2
  <2>4. x = aggregate_by_tag(m, item)
    BY <1>3, <2>2
  <2>5. IsAdded(x, m, item) /\ x \in InfoMaps(T)
    BY ONLY <2>3, <2>4, AggregateType
  <2> QED BY <1>1, <1>2, <2>1, <2>2, <2>5 DEF IsAdded
<1>5. InfoFor(old, d, WithTag(d, A, tag), F)
  <2>1. CASE tag \in DOMAIN m
    BY <1>1, <2>1 DEF Aggregated
  <2>2. CASE tag \notin DOMAIN m
    <3>1. WithTag(d, A, tag) = {}
      BY <2>2 DEF Aggregated, TagsAt, WithTag
    <3>2. old = EmptyInfo /\ F[{}] = 0
      BY <1>1, <2>2 DEF AreTotals
    <3>3. EmptyInfo \in StatInfos /\ EmptyInfo.count = Len(EmptyInfo.values)
          /\ EmptyInfo.value_sum = 0 /\ EmptyInfo.values = <<>>
      BY DEF EmptyInfo, StatInfos
    <3> QED BY <3>1, <3>2, <3>3, FillsEmpty DEF InfoFor
  <2> QED BY <2>1, <2>2
<1>6. InfoFor(new, d, WithTag(d, B, tag), F)
  <2>1. PICK W \in SUBSET A : W = WithTag(d, A, tag)
    BY DEF WithTag
  <2>2. WithTag(d, B, tag) = W \cup {p} /\ p \notin W /\ p \in K \ W /\ W \in SUBSET K
    BY <2>1 DEF WithTag
  <2>3. /\ old \in StatInfos /\ old.count = Len(old.values)
        /\ old.value_sum = F[W] /\ Fills(old.values, d, W)
    BY <1>5, <2>1 DEF InfoFor
  <2>4. PICK v \in Int : v = Narrow(d[p].value)
    BY <1>0, NarrowFacts
  <2>5. new \in StatInfos /\ new.count = Len(new.values)
    BY <1>0, <1>2, <2>3, <2>4 DEF StatInfos
  <2>6. F[W \cup {p}] = d[p].value + F[W] /\ F[W] \in Int
    BY <2>2 DEF AreTotals
  <2>7. new.value_sum = F[W \cup {p}]
    BY <1>0, <1>2, <2>3, <2>6
  <2>8. Fills(Append(old.values, Narrow(d[p].value)), d, W \cup {p})
    BY <1>0, <2>2, <2>3, FillsMore
  <2> QED BY <1>2, <2>2, <2>5, <2>7, <2>8 DEF InfoFor
<1>7. DOMAIN x = TagsAt(d, B)
  BY <1>4 DEF Aggregated, TagsAt
<1>8. ASSUME NEW t \in DOMAIN x PROVE InfoFor(x[t], d, WithTag(d, B, t), F)
  <2>1. CASE t = tag
    BY <1>4, <1>6, <2>1
  <2>2. CASE t # tag
    <3>1. t \in DOMAIN m /\ x[t] = m[t]
      BY <1>4, <2>2
    <3>2. WithTag(d, B, t) = WithTag(d, A, t)
      BY <2>2 DEF WithTag
    <3> QED BY <3>1, <3>2 DEF Aggregated
  <2> QED BY <2>1, <2>2
<1> QED BY <1>3, <1>4, <1>7, <1>8 DEF Aggregated

(* What aggregate_by_tag makes of D, the items at the positions K of d in  *)
(* some order.                                                             *)
LEMMA AggregatedAll ==
    ASSUME NEW d, NEW K, IsFiniteSet(K), \A i \in K : d[i].value \in Int,
           NEW g, \A i \in K : g[i] = d[i].value, NEW F, AreTotals(F, g, K),
           NEW D, D \in Seq(Range(D)), NEW pos \in Bijection(1 .. Len(D), K),
           \A i \in 1 .. Len(D) : D[i] = d[pos[i]]
    PROVE  Aggregated(FoldLeft(aggregate_by_tag, <<>>, D), d, K, F)
<1>1. PICK n \in Nat : n = Len(D) /\ DOMAIN D = 1 .. n
  OBVIOUS
<1>2. /\ pos \in [1 .. n -> K] /\ \A a \in K : \E j \in 1 .. n : pos[j] = a
      /\ \A i, j \in 1 .. n : pos[i] = pos[j] => i = j
  BY <1>1 DEF Bijection, Injection, IsInjective, Surjection
<1>3. \A i \in DOMAIN D : D[i].value \in Int
  BY <1>1, <1>2
<1>4. PICK c : /\ c[0] = <<>> /\ c[n] = FoldLeft(aggregate_by_tag, <<>>, D)
               /\ \A k \in 1 .. n : c[k] = aggregate_by_tag(c[k - 1], D[k])
  <2>1. PICK c : IsAggregation(c, D)
    BY <1>3, AggregateFold
  <2> QED BY <1>1, <2>1 DEF IsAggregation
<1> DEFINE Seen(k) == {pos[i] : i \in 1 .. k}
           Ok(k) == c[k] \in InfoMaps(TagsAt(d, K)) /\ Aggregated(c[k], d, Seen(k), F)
           P == {k \in Nat : k <= n => Ok(k)}
<1>5. Ok(0)
  <2>1. Seen(0) = {}
    OBVIOUS
  <2>2. <<>> \in InfoMaps(TagsAt(d, K))
    <3>1. <<>> \in [{} -> StatInfos] /\ {} \in SUBSET TagsAt(d, K)
      OBVIOUS
    <3> QED BY <3>1 DEF InfoMaps
  <2>3. Aggregated(<<>>, d, {}, F)
    BY DEF Aggregated, TagsAt
  <2> HIDE DEF Seen
  <2> QED BY <1>4, <2>1, <2>2, <2>3
<1>6. ASSUME NEW k \in P PROVE k + 1 \in P
  <2> SUFFICES ASSUME k + 1 <= n PROVE Ok(k + 1)
    OBVIOUS
  <2>1. Ok(k) /\ k + 1 \in 1 .. n /\ (k + 1) - 1 = k /\ k \in Nat
    OBVIOUS
  <2>2. PICK p : p = pos[k + 1]
    OBVIOUS
  <2>3. PICK A : A = Seen(k)
    OBVIOUS
  <2>4. A \in SUBSET K /\ p \in K \ A
    BY <1>2, <2>1, <2>2, <2>3
  <2>5. Seen(k + 1) = A \cup {p}
    <3>1. \A i \in 1 .. (k + 1) : i = k + 1 \/ i \in 1 .. k
      BY <2>1
    <3>2. \A i \in 1 .. k : i \in 1 .. (k + 1)
      BY <2>1
    <3> QED BY <2>1, <2>2, <2>3, <3>1, <3>2
  <2>6. c[k + 1] = aggregate_by_tag(c[k], d[p])
    BY <1>1, <1>4, <2>1, <2>2
  <2>7. PICK m : m = c[k]
    OBVIOUS
  <2>8. m \in InfoMaps(TagsAt(d, K)) /\ Aggregated(m, d, A, F)
    BY <2>1, <2>3, <2>7
  <2>9. /\ aggregate_by_tag(m, d[p]) \in InfoMaps(TagsAt(d, K))
        /\ Aggregated(aggregate_by_tag(m, d[p]), d, A \cup {p}, F)
    BY <2>4, <2>8, AggregatedStep
  <2> HIDE DEF Seen
  <2> QED BY <2>5, <2>6, <2>7, <2>9
<1>7. 0 \in P /\ P \in SUBSET Nat
  <2> HIDE DEF Ok
  <2> QED BY <1>5
<1>8. P = Nat
  <2> HIDE DEF P
  <2> QED BY <1>6, <1>7, NatInductionSet
<1>9. Ok(n)
  <2> HIDE DEF Ok
  <2> QED BY <1>8
<1>10. Seen(n) = K
  BY <1>2
<1> HIDE DEF Seen
<1> QED BY <1>4, <1>9, <1>10

(* The loop of Dedup, as a step on the two variables it changes.           *)
CopyOnce(acc, item) ==
    IF item.msgid \in acc.ids
    THEN [new |-> Append(acc.new, item), ids |-> acc.ids \ {item.msgid}]
    ELSE acc

IdsOf(d) == {d[i].msgid : i \in DOMAIN d}

(* c is what the loop has made of the first items of d.                    *)
IsCopying(c, d) ==
    /\ c[0] = [new |-> <<>>, ids |-> IdsOf(d)]
    /\ \A k \in 1 .. Len(d) : c[k] = CopyOnce(c[k - 1], d[k])
    /\ Dedup(d) = IF Cardinality(IdsOf(d)) # Len(d) THEN c[Len(d)].new ELSE d

LEMMA DedupFold ==
    ASSUME NEW d, d \in Seq(Range(d)) PROVE \E c : IsCopying(c, d)
<1> DEFINE n == Len(d)
           b == [new |-> <<>>, ids |-> IdsOf(d)]
           V == [new : Seq(Range(d)), ids : SUBSET IdsOf(d)]
           h == [p \in (1 .. n) \X V |-> CopyOnce(p[2], d[p[1]])]
           Eq(F) == F = [s \in SUBSET (1 .. n) |->
                            IF s = {} THEN b ELSE CopyOnce(F[s \ {Max(s)}], d[Max(s)])]
           C == CHOOSE F : Eq(F)
<1>1. n \in Nat /\ DOMAIN d = 1 .. n
  OBVIOUS
<1>2. b \in V
  OBVIOUS
<1>3. h \in [(1 .. n) \X V -> V]
  <2>1. ASSUME NEW k \in 1 .. n, NEW m \in V PROVE CopyOnce(m, d[k]) \in V
    <3>1. PICK x \in Range(d) : x = d[k]
      BY <1>1 DEF Range
    <3>2. Append(m.new, x) \in Seq(Range(d))
      OBVIOUS
    <3> QED BY <3>1, <3>2 DEF CopyOnce
  <2> HIDE DEF V
  <2> QED BY <2>1
<1>4. \A k \in 1 .. n : \A m \in V : h[<<k, m>>] = CopyOnce(m, d[k])
  OBVIOUS
<1> HIDE DEF V, h, b
<1>5. PICK F \in [SUBSET (1 .. n) -> V] : IsFoldUpTo(F, h, b, n)
  <2> HIDE DEF n
  <2> QED BY <1>1, <1>2, <1>3, FoldUpTo
<1> HIDE DEF n
<1>6. Eq(F)
  <2>1. \A s \in (SUBSET (1 .. n)) \ {{}} :
          h[<<Max(s), F[s \ {Max(s)}]>>] = CopyOnce(F[s \ {Max(s)}], d[Max(s)])
    <3> SUFFICES ASSUME NEW s \in (SUBSET (1 .. n)) \ {{}}
                 PROVE  h[<<Max(s), F[s \ {Max(s)}]>>] = CopyOnce(F[s \ {Max(s)}], d[Max(s)])
      OBVIOUS
    <3>1. Max(s) \in 1 .. n
      BY <1>1, UpTo
    <3>2. F[s \ {Max(s)}] \in V
      OBVIOUS
    <3> QED BY <1>4, <3>1, <3>2
  <2> QED BY <1>5, <2>1 DEF IsFoldUpTo
<1>7. C = [s \in SUBSET (1 .. n) |->
              IF s = {} THEN b ELSE CopyOnce(C[s \ {Max(s)}], d[Max(s)])]
  <2> HIDE DEF Eq
  <2>1. Eq(C)
    BY <1>6
  <2> QED BY <2>1 DEF Eq
<1>8. Dedup(d) = IF Cardinality(IdsOf(d)) # n THEN C[1 .. n].new ELSE d
  BY <1>1 DEF Dedup, FoldLeft, MapThenFoldSet, CopyOnce, IdsOf, b, n
<1> HIDE DEF C
<1>9. \A k \in 1 .. n : C[1 .. k] = CopyOnce(C[1 .. (k - 1)], d[k])
  <2> SUFFICES ASSUME NEW k \in 1 .. n PROVE C[1 .. k] = CopyOnce(C[1 .. (k - 1)], d[k])
    OBVIOUS
  <2>1. /\ 1 .. k \in SUBSET (1 .. n) /\ 1 .. k # {}
        /\ Max(1 .. k) = k /\ (1 .. k) \ {k} = 1 .. (k - 1)
    BY <1>1, UpTo
  <2> QED BY <1>7, <2>1
<1>10. C[1 .. 0] = b
  BY <1>7
<1> DEFINE c == [k \in 0 .. n |-> C[1 .. k]]
<1>11. c[0] = b /\ c[n] = C[1 .. n] /\ \A k \in 1 .. n : c[k] = CopyOnce(c[k - 1], d[k])
  BY <1>1, <1>9, <1>10
<1> QED BY <1>8, <1>11 DEF n, b, IsCopying

(* w are the items at the positions A of d, in some order.                 *)
CopiesOf(w, d, A) ==
    /\ w \in Seq(Range(d))
    /\ \E r \in Bijection(1 .. Len(w), A) : \A j \in 1 .. Len(w) : w[j] = d[r[j]]

LEMMA CopiesMore ==
    ASSUME NEW d, NEW A, NEW w, CopiesOf(w, d, A), NEW p, p \notin A, d[p] \in Range(d)
    PROVE  CopiesOf(Append(w, d[p]), d, A \cup {p})
<1>1. w \in Seq(Range(d))
  BY DEF CopiesOf
<1>2. PICK n \in Nat : n = Len(w)
  BY <1>1
<1>3. PICK r \in Bijection(1 .. n, A) : \A j \in 1 .. n : w[j] = d[r[j]]
  BY <1>2 DEF CopiesOf
<1>4. PICK x : x = Append(w, d[p])
  OBVIOUS
<1>5. /\ x \in Seq(Range(d)) /\ Len(x) = n + 1 /\ x[n + 1] = d[p]
      /\ \A j \in 1 .. n : x[j] = w[j]
  BY <1>1, <1>2, <1>4
<1>6. PICK q \in Bijection(1 .. (n + 1), A \cup {p}) : GoesOn(q, r, n, p)
  BY <1>3, OneMore
<1>7. \A j \in 1 .. (n + 1) : x[j] = d[q[j]]
  BY <1>3, <1>5, <1>6 DEF GoesOn
<1> QED BY <1>4, <1>5, <1>6, <1>7 DEF CopiesOf

(* The copies are the items that Kept names.                               *)
LEMMA DedupIs ==
    ASSUME NEW d, d \in Seq(Range(d)), \A i, j \in DOMAIN d : d[i].metric = d[j].metric
    PROVE  CopiesOf(Dedup(d), d, Kept(d))
<1>1. PICK n \in Nat : n = Len(d) /\ DOMAIN d = 1 .. n
  OBVIOUS
<1>2. PICK c : IsCopying(c, d)
  BY DedupFold
<1>3. /\ c[0] = [new |-> <<>>, ids |-> IdsOf(d)]
      /\ \A k \in 1 .. n : c[k] = CopyOnce(c[k - 1], d[k])
      /\ Dedup(d) = IF Cardinality(IdsOf(d)) # n THEN c[n].new ELSE d
  BY <1>1, <1>2 DEF IsCopying
<1>4. Kept(d) = {i \in 1 .. n : \A j \in 1 .. (i - 1) : d[j].msgid # d[i].msgid}
  <2>1. \A i \in 1 .. n : \A j \in 1 .. (i - 1) : d[j].metric = d[i].metric
    BY <1>1
  <2> QED BY <1>1, <2>1 DEF Kept
<1> DEFINE First(k) == {i \in Kept(d) : i <= k}
           Seen(k)  == {d[i].msgid : i \in 1 .. k}
           Ok(k) == /\ c[k].ids = IdsOf(d) \ Seen(k)
                    /\ CopiesOf(c[k].new, d, First(k))
           P == {k \in Nat : k <= n => Ok(k)}
<1>5. Ok(0)
  <2>1. First(0) = {} /\ Seen(0) = {}
    BY <1>4
  <2>2. CopiesOf(<<>>, d, {})
    <3>1. 1 .. Len(<<>>) = {} /\ <<>> \in Seq(Range(d))
      OBVIOUS
    <3>2. [x \in {} |-> x] \in Bijection({}, {})
      BY DEF Bijection, Injection, IsInjective, Surjection
    <3> QED BY <3>1, <3>2 DEF CopiesOf
  <2>3. c[0].ids = IdsOf(d) /\ c[0].new = <<>>
    BY <1>3
  <2> HIDE DEF First, Seen
  <2> QED BY <2>1, <2>2, <2>3
<1>6. ASSUME NEW k \in P PROVE k + 1 \in P
  <2> SUFFICES ASSUME k + 1 <= n PROVE Ok(k + 1)
    OBVIOUS
  <2>1. Ok(k) /\ k + 1 \in 1 .. n /\ (k + 1) - 1 = k /\ k \in Nat
    OBVIOUS
  <2>2. PICK p \in 1 .. n : p = k + 1
    BY <2>1
  <2>3. c[p] = CopyOnce(c[k], d[p])
    BY <1>3, <2>1, <2>2
  <2>4. d[p].msgid \in IdsOf(d) /\ d[p] \in Range(d)
    BY <1>1 DEF IdsOf, Range
  <2>5. p \in Kept(d) <=> d[p].msgid \in c[k].ids
    BY <1>4, <2>1, <2>2, <2>4
  <2>6. Seen(p) = Seen(k) \cup {d[p].msgid}
    BY <2>1, <2>2
  <2>7. p \notin First(k)
    BY <2>1, <2>2
  <2>8. CASE p \in Kept(d)
    <3>1. First(p) = First(k) \cup {p}
      BY <1>4, <2>1, <2>2, <2>8
    <3>2. c[p] = [new |-> Append(c[k].new, d[p]), ids |-> c[k].ids \ {d[p].msgid}]
      BY <2>3, <2>5, <2>8 DEF CopyOnce
    <3>3. CopiesOf(Append(c[k].new, d[p]), d, First(k) \cup {p})
      <4>1. CopiesOf(c[k].new, d, First(k))
        BY <2>1
      <4> HIDE DEF First
      <4> QED BY <2>4, <2>7, <4>1, CopiesMore
    <3>4. c[p].ids = IdsOf(d) \ Seen(p)
      <4>1. c[k].ids = IdsOf(d) \ Seen(k)
        BY <2>1
      <4> HIDE DEF Seen
      <4> QED BY <2>6, <3>2, <4>1
    <3>5. c[p].new = Append(c[k].new, d[p])
      BY <3>2
    <3>6. CopiesOf(c[p].new, d, First(p))
      <4> HIDE DEF First
      <4> QED BY <3>1, <3>3, <3>5
    <3> HIDE DEF First, Seen
    <3> QED BY <2>2, <3>4, <3>6
  <2>9. CASE p \notin Kept(d)
    <3>1. First(p) = First(k)
      <4>1. \A i \in Kept(d) : i \in 1 .. n /\ i # p
        BY <1>4, <2>9
      <4> QED BY <2>1, <2>2, <4>1
    <3>2. c[p] = c[k] /\ d[p].msgid \notin c[k].ids
      BY <2>3, <2>5, <2>9 DEF CopyOnce
    <3>3. c[p].ids = IdsOf(d) \ Seen(p)
      <4>1. c[k].ids = IdsOf(d) \ Seen(k)
        BY <2>1
      <4> HIDE DEF Seen
      <4> QED BY <2>6, <3>2, <4>1
    <3>4. CopiesOf(c[p].new, d, First(p))
      BY <2>1, <3>1, <3>2
    <3> HIDE DEF First, Seen
    <3> QED BY <2>2, <3>3, <3>4
  <2> QED BY <2>8, <2>9
<1>7. 0 \in P /\ P \in SUBSET Nat
  <2> HIDE DEF Ok
  <2> QED BY <1>5
<1>8. P = Nat
  <2> HIDE DEF P
  <2> QED BY <1>6, <1>7, NatInductionSet
<1>9. CopiesOf(c[n].new, d, Kept(d))
  <2>1. Ok(n)
    <3> HIDE DEF Ok
    <3> QED BY <1>8
  <2>2. First(n) = Kept(d)
    BY <1>4
  <2> QED BY <2>1, <2>2
<1>10. ASSUME Cardinality(IdsOf(d)) = n PROVE CopiesOf(d, d, Kept(d))
  <2> DEFINE id == [i \in 1 .. n |-> d[i].msgid]
  <2>1. id \in Surjection(1 .. n, IdsOf(d))
    BY <1>1 DEF Surjection, IdsOf
  <2>2. IsFiniteSet(1 .. n) /\ Cardinality(1 .. n) = n
    BY FS_Interval
  <2> HIDE DEF id
  <2>3. IsFiniteSet(IdsOf(d)) /\ id \in Injection(1 .. n, IdsOf(d))
    <3>1. IsFiniteSet(IdsOf(d))
      BY <2>1, <2>2, FS_Surjection
    <3> QED BY <1>10, <2>1, <2>2, <3>1, FS_SurjSameCardinalityImpliesInj
  <2>4. \A i, j \in 1 .. n : d[i].msgid = d[j].msgid => i = j
    BY <2>3 DEF id, Injection, IsInjective
  <2>5. Kept(d) = 1 .. n
    BY <1>4, <2>4
  <2>6. [i \in 1 .. n |-> i] \in Bijection(1 .. n, 1 .. n)
    BY DEF Bijection, Injection, IsInjective, Surjection
  <2> QED BY <1>1, <2>5, <2>6 DEF CopiesOf
<1> QED BY <1>3, <1>9, <1>10

StatInv == data \in Inputs /\ (done => info = calc_event_info_each_metric(data))

LEMMA StatInvariant == StatSpec => []StatInv
<1>1. StatInit => StatInv
  BY DEF StatInit, StatInv
<1>2. StatInv /\ [Calc]_statVars => StatInv'
  BY DEF StatInv, Calc, statVars
<1> QED BY <1>1, <1>2, PTL DEF StatSpec

(* What is behind the statistics of a vector of items: by tag, the values  *)
(* of the items that were kept.                                            *)
IsAggregate(m, d, F) ==
    /\ IsFiniteSet(Kept(d)) /\ F \in [SUBSET Kept(d) -> Int] /\ F[{}] = 0
    /\ \A S \in SUBSET Kept(d) : /\ F[S] = DataSum(d, S)
                                 /\ \A p \in Kept(d) \ S : F[S \cup {p}] = d[p].value + F[S]
    /\ Aggregated(m, d, Kept(d), F)
    /\ calc_event_info_each_metric(d) = [t \in DOMAIN m |-> Stat(m[t])]

LEMMA CalcIs ==
    ASSUME NEW d \in Inputs
    PROVE  \E m, F : IsAggregate(m, d, F)
<1>1. /\ d \in Seq(Range(d)) /\ \A i \in DOMAIN d : d[i].value \in Int
      /\ \A i, j \in DOMAIN d : d[i].metric = d[j].metric
  BY InputsAssumption
<1>2. PICK n \in Nat : n = Len(d) /\ DOMAIN d = 1 .. n
  BY <1>1
<1>3. PICK K : K = Kept(d)
  OBVIOUS
<1>4. K \in SUBSET (1 .. n) /\ \A i \in K : d[i].value \in Int
  BY <1>1, <1>2, <1>3 DEF Kept
<1>5. IsFiniteSet(K)
  <2>1. IsFiniteSet(1 .. n)
    BY FS_Interval
  <2> QED BY <1>4, <2>1, FS_Subset
<1>6. PICK g : g = [i \in K |-> d[i].value]
  OBVIOUS
<1>7. \A i \in K : g[i] = d[i].value /\ g[i] \in Int
  BY <1>4, <1>6
<1>8. PICK F : AreTotals(F, g, K)
  BY <1>5, <1>7, Totals
<1>9. ASSUME NEW S \in SUBSET K
      PROVE  F[S] = DataSum(d, S) /\ \A p \in K \ S : F[S \cup {p}] = d[p].value + F[S]
  <2>1. IsFiniteSet(S)
    BY <1>5, FS_Subset
  <2>2. DataSum(d, S) = Total(g, S)
    BY <1>4, <1>7, <2>1, DataTotal
  <2> QED BY <1>7, <1>8, <2>2 DEF AreTotals
<1>10. PICK D : D = Dedup(d)
  OBVIOUS
<1>11. CopiesOf(D, d, K)
  BY <1>1, <1>3, <1>10, DedupIs
<1>12. PICK pos \in Bijection(1 .. Len(D), K) : \A i \in 1 .. Len(D) : D[i] = d[pos[i]]
  BY <1>11 DEF CopiesOf
<1>13. D \in Seq(Range(D))
  BY <1>11 DEF CopiesOf, Range
<1>14. PICK m : m = FoldLeft(aggregate_by_tag, <<>>, D)
  OBVIOUS
<1>15. Aggregated(m, d, K, F)
  BY <1>4, <1>5, <1>7, <1>8, <1>12, <1>13, <1>14, AggregatedAll
<1>16. calc_event_info_each_metric(d) = [t \in DOMAIN m |-> Stat(m[t])]
  BY <1>10, <1>14 DEF calc_event_info_each_metric
<1>17. F \in [SUBSET K -> Int] /\ F[{}] = 0
  BY <1>8 DEF AreTotals
<1>18. \A S \in SUBSET K : F[S] = DataSum(d, S) /\ \A p \in K \ S : F[S \cup {p}] = d[p].value + F[S]
  BY <1>9
<1>19. IsAggregate(m, d, F)
  BY <1>3, <1>5, <1>15, <1>16, <1>17, <1>18 DEF IsAggregate
<1> QED BY <1>19

(* The number of values is the number of positions.                        *)
LEMMA FillsCount ==
    ASSUME NEW vals, NEW d, NEW A, Fills(vals, d, A)
    PROVE  Cardinality(A) = Len(vals)
<1>1. PICK n \in Nat : n = Len(vals)
  BY DEF Fills
<1>2. ExistsBijection(1 .. n, A)
  BY <1>1 DEF Fills, ExistsBijection
<1>3. IsFiniteSet(1 .. n) /\ Cardinality(1 .. n) = n
  BY FS_Interval
<1> QED BY <1>1, <1>2, <1>3, FS_Bijection

LEMMA CountsFromInv == StatInv => CountsTheKept
<1> SUFFICES ASSUME StatInv, done PROVE CountsTheKept
  BY DEF CountsTheKept
<1>1. PICK d \in Inputs : d = data
  BY DEF StatInv
<1>2. PICK m, F : IsAggregate(m, d, F)
  BY CalcIs
<1>3. info = [t \in DOMAIN m |-> Stat(m[t])]
  BY <1>1, <1>2 DEF StatInv, IsAggregate
<1>4. Aggregated(m, d, Kept(d), F)
  BY <1>2 DEF IsAggregate
<1>5. DOMAIN info = TagsAt(d, Kept(d))
  BY <1>3, <1>4 DEF Aggregated
<1>6. ASSUME NEW t \in DOMAIN info
      PROVE  /\ info[t].count = Cardinality(TagItems(t))
             /\ info[t].value_sum = DataSum(data, TagItems(t))
  <2>1. PICK W \in SUBSET Kept(d) : W = WithTag(d, Kept(d), t)
    BY DEF WithTag
  <2>2. TagItems(t) = W
    BY <1>1, <2>1 DEF TagItems, WithTag
  <2>3. InfoFor(m[t], d, W, F) /\ t \in DOMAIN m
    BY <1>3, <1>4, <2>1 DEF Aggregated
  <2>4. info[t].count = m[t].count /\ info[t].value_sum = m[t].value_sum
    <3>1. info[t] = Stat(m[t])
      BY <1>3, <2>3
    <3>2. Stat(m[t]).count = m[t].count /\ Stat(m[t]).value_sum = m[t].value_sum
      BY DEF Stat
    <3> QED BY <3>1, <3>2
  <2>5. m[t].count = Len(m[t].values) /\ m[t].value_sum = F[W] /\ Fills(m[t].values, d, W)
    BY <2>3 DEF InfoFor
  <2>6. Cardinality(W) = Len(m[t].values)
    BY <2>5, FillsCount
  <2>7. F[W] = DataSum(d, W)
    BY <1>2, <2>1 DEF IsAggregate
  <2> QED BY <1>1, <2>2, <2>4, <2>5, <2>6, <2>7
<1>7. TagsAt(d, Kept(d)) = {data[i].tag : i \in Kept(data)}
  BY <1>1 DEF TagsAt
<1> QED BY <1>5, <1>6, <1>7, Zenon DEF CountsTheKept, DataSum

(* The counts and sums of a slot are those of the items that are kept      *)
(* (aggregate_by_tag after the loop over the message ids).                 *)
THEOREM StatCountsTheKept == StatSpec => []CountsTheKept
BY StatInvariant, CountsFromInv, PTL

(* The element of rank n, counted from 0.                                  *)
Below(vals, v)  == {i \in DOMAIN vals : vals[i] < v}
AtMost(vals, v) == {i \in DOMAIN vals : vals[i] <= v}

IsNth(v, vals, n) ==
    /\ v \in Range(vals)
    /\ Cardinality(Below(vals, v)) <= n /\ n < Cardinality(AtMost(vals, v))

LEMMA PartsFinite ==
    ASSUME NEW vals \in Seq(Int), NEW v \in Int
    PROVE  /\ IsFiniteSet(DOMAIN vals) /\ Cardinality(DOMAIN vals) = Len(vals)
           /\ IsFiniteSet(Below(vals, v)) /\ Cardinality(Below(vals, v)) \in Nat
           /\ IsFiniteSet(AtMost(vals, v)) /\ Cardinality(AtMost(vals, v)) \in Nat
<1>1. PICK n \in Nat : n = Len(vals) /\ DOMAIN vals = 1 .. n
  OBVIOUS
<1>2. IsFiniteSet(DOMAIN vals) /\ Cardinality(DOMAIN vals) = n
  <2>1. IsFiniteSet(1 .. n) /\ Cardinality(1 .. n) = n
    BY FS_Interval
  <2> QED BY <1>1, <2>1
<1>3. Below(vals, v) \in SUBSET (DOMAIN vals) /\ AtMost(vals, v) \in SUBSET (DOMAIN vals)
  BY DEF Below, AtMost
<1> QED BY <1>1, <1>2, <1>3, FS_Subset, FS_CardinalityType

LEMMA NthExists ==
    ASSUME NEW vals \in Seq(Int), NEW n \in Nat, n < Len(vals)
    PROVE  IsNth(nth_element(vals, n), vals, n)
<1> DEFINE R == Range(vals)
           G == {w \in R : n < Cardinality(AtMost(vals, w))}
<1>1. R \in SUBSET Int /\ R # {} /\ \A i \in DOMAIN vals : vals[i] \in R
  <2>1. 1 \in DOMAIN vals
    OBVIOUS
  <2> QED BY <2>1 DEF Range
<1>2. IsFiniteSet(R)
  <2>1. vals \in Surjection(DOMAIN vals, R)
    BY DEF Surjection, Range
  <2>2. IsFiniteSet(DOMAIN vals)
    BY PartsFinite
  <2> HIDE DEF R
  <2> QED BY <2>1, <2>2, FS_Surjection
<1>3. Max(R) \in G
  <2>1. Max(R) \in R /\ \A y \in R : Max(R) >= y
    <3> HIDE DEF R
    <3> QED BY <1>1, <1>2, MinMaxFacts
  <2>2. AtMost(vals, Max(R)) = DOMAIN vals
    <3> HIDE DEF R
    <3> QED BY <1>1, <2>1 DEF AtMost
  <2>3. Cardinality(DOMAIN vals) = Len(vals)
    BY PartsFinite
  <2> HIDE DEF R
  <2> QED BY <2>1, <2>2, <2>3
<1>4. G \in SUBSET Int /\ IsFiniteSet(G) /\ G # {}
  <2>1. G \in SUBSET R
    OBVIOUS
  <2> HIDE DEF R, G
  <2> QED BY <1>1, <1>2, <1>3, <2>1, FS_Subset
<1>5. PICK v : v = Min(G)
  OBVIOUS
<1>6. v \in G /\ \A y \in G : v <= y
  <2> HIDE DEF G
  <2> QED BY <1>4, <1>5, MinMaxFacts
<1>7. v \in R /\ v \in Int /\ n < Cardinality(AtMost(vals, v))
  BY <1>1, <1>6
<1>8. Cardinality(Below(vals, v)) <= n
  <2> DEFINE L == {w \in R : w < v}
  <2>1. CASE L = {}
    <3>1. Below(vals, v) = {}
      BY <1>1, <2>1 DEF Below
    <3> QED BY <3>1, FS_EmptySet
  <2>2. CASE L # {}
    <3>1. L \in SUBSET Int /\ IsFiniteSet(L)
      <4>1. L \in SUBSET R
        OBVIOUS
      <4> HIDE DEF R, L
      <4> QED BY <1>1, <1>2, <4>1, FS_Subset
    <3>2. PICK w : w = Max(L)
      OBVIOUS
    <3>3. w \in L /\ \A y \in L : w >= y
      <4> HIDE DEF L
      <4> QED BY <2>2, <3>1, <3>2, MinMaxFacts
    <3>4. w \in R /\ w \in Int /\ w < v
      BY <1>1, <3>3
    <3>5. Below(vals, v) = AtMost(vals, w)
      <4>1. \A i \in DOMAIN vals : vals[i] \in Int
        OBVIOUS
      <4>2. \A i \in DOMAIN vals : vals[i] < v => w >= vals[i]
        BY <1>1, <3>3
      <4> HIDE DEF R, G, L
      <4> QED BY <1>7, <3>4, <4>1, <4>2 DEF Below, AtMost
    <3>6. w \notin G
      <4> HIDE DEF R, G, L
      <4> QED BY <1>6, <1>7, <3>4
    <3>7. ~(n < Cardinality(AtMost(vals, w)))
      BY <3>4, <3>6
    <3>8. Cardinality(AtMost(vals, w)) \in Nat
      BY <3>4, PartsFinite
    <3> HIDE DEF R, G, L
    <3> QED BY <3>5, <3>7, <3>8
  <2> QED BY <2>1, <2>2
<1>9. IsNth(v, vals, n)
  BY <1>7, <1>8 DEF IsNth
<1>10. nth_element(vals, n) = CHOOSE w \in R : IsNth(w, vals, n)
  BY DEF nth_element, IsNth, Below, AtMost
<1> HIDE DEF R, G
<1> QED BY <1>7, <1>9, <1>10

LEMMA NthOrdered ==
    ASSUME NEW vals \in Seq(Int), NEW n \in Nat, NEW m \in Nat, n <= m, m < Len(vals)
    PROVE  nth_element(vals, n) <= nth_element(vals, m)
<1>1. PICK v : v = nth_element(vals, n)
  OBVIOUS
<1>2. PICK w : w = nth_element(vals, m)
  OBVIOUS
<1>3. IsNth(v, vals, n) /\ IsNth(w, vals, m)
  BY <1>1, <1>2, NthExists
<1>4. v \in Int /\ w \in Int
  BY <1>3 DEF IsNth, Range
<1>5. ASSUME w < v PROVE FALSE
  <2>1. AtMost(vals, w) \in SUBSET Below(vals, v)
    BY <1>4, <1>5 DEF AtMost, Below
  <2>2. IsFiniteSet(Below(vals, v)) /\ Cardinality(Below(vals, v)) \in Nat
        /\ Cardinality(AtMost(vals, w)) \in Nat
    BY <1>4, PartsFinite
  <2>3. Cardinality(AtMost(vals, w)) <= Cardinality(Below(vals, v))
    BY <2>1, <2>2, FS_Subset
  <2> QED BY <1>3, <2>2, <2>3 DEF IsNth
<1> QED BY <1>1, <1>2, <1>4, <1>5

(* How many of the values lie below v can be counted at their positions.   *)
ItemsBelow(d, A, v)  == {p \in A : d[p].value < v}
ItemsAtMost(d, A, v) == {p \in A : d[p].value <= v}

LEMMA FillsParts ==
    ASSUME NEW vals, NEW d, NEW A, Fills(vals, d, A), \A p \in A : Fits(d[p].value),
           NEW v \in Int
    PROVE  /\ Cardinality(ItemsBelow(d, A, v)) = Cardinality(Below(vals, v))
           /\ Cardinality(ItemsAtMost(d, A, v)) = Cardinality(AtMost(vals, v))
<1>1. vals \in Seq(Int)
  BY DEF Fills
<1>2. PICK n \in Nat : n = Len(vals) /\ DOMAIN vals = 1 .. n
  BY <1>1
<1>3. PICK r \in Bijection(1 .. n, A) : \A j \in 1 .. n : vals[j] = Narrow(d[r[j]].value)
  BY <1>2 DEF Fills
<1>4. /\ r \in [1 .. n -> A] /\ \A a \in A : \E j \in 1 .. n : r[j] = a
      /\ \A i, j \in 1 .. n : r[i] = r[j] => i = j
  BY DEF Bijection, Injection, IsInjective, Surjection
<1>5. \A j \in 1 .. n : vals[j] = d[r[j]].value
  BY <1>3, <1>4 DEF Fits
<1>6. ASSUME NEW B \in SUBSET (1 .. n), IsFiniteSet(B), NEW C \in SUBSET A,
             \A j \in 1 .. n : j \in B <=> r[j] \in C
      PROVE  Cardinality(C) = Cardinality(B)
  <2> DEFINE f == [j \in B |-> r[j]]
  <2>1. f \in [B -> C]
    BY <1>4, <1>6
  <2>2. \A c \in C : \E j \in B : f[j] = c
    <3> SUFFICES ASSUME NEW c \in C PROVE \E j \in B : f[j] = c
      OBVIOUS
    <3>1. PICK j \in 1 .. n : r[j] = c
      BY <1>4
    <3>2. j \in B
      BY <1>6, <3>1
    <3> QED BY <3>1, <3>2
  <2>3. \A i, j \in B : f[i] = f[j] => i = j
    BY <1>4
  <2> HIDE DEF f
  <2>4. f \in Bijection(B, C)
    BY <2>1, <2>2, <2>3 DEF Bijection, Injection, IsInjective, Surjection
  <2>5. ExistsBijection(B, C)
    BY <2>4 DEF ExistsBijection
  <2> QED BY <1>6, <2>5, FS_Bijection
<1>7. IsFiniteSet(Below(vals, v)) /\ IsFiniteSet(AtMost(vals, v))
  BY <1>1, PartsFinite
<1>8. Cardinality(ItemsBelow(d, A, v)) = Cardinality(Below(vals, v))
  <2>1. PICK C \in SUBSET A : C = {p \in A : d[p].value < v}
    OBVIOUS
  <2>2. PICK B \in SUBSET (1 .. n) : B = Below(vals, v)
    BY <1>2 DEF Below
  <2>3. \A j \in 1 .. n : j \in B <=> r[j] \in C
    BY <1>2, <1>4, <1>5, <2>1, <2>2 DEF Below
  <2> QED BY <1>6, <1>7, <2>1, <2>2, <2>3 DEF ItemsBelow
<1>9. Cardinality(ItemsAtMost(d, A, v)) = Cardinality(AtMost(vals, v))
  <2>1. PICK C \in SUBSET A : C = {p \in A : d[p].value <= v}
    OBVIOUS
  <2>2. PICK B \in SUBSET (1 .. n) : B = AtMost(vals, v)
    BY <1>2 DEF AtMost
  <2>3. \A j \in 1 .. n : j \in B <=> r[j] \in C
    BY <1>2, <1>4, <1>5, <2>1, <2>2 DEF AtMost
  <2> QED BY <1>6, <1>7, <2>1, <2>2, <2>3 DEF ItemsAtMost
<1> QED BY <1>8, <1>9

(* The first and the last rank are the smallest and the largest value.     *)
LEMMA NthExtremes ==
    ASSUME NEW vals \in Seq(Int), 0 < Len(vals)
    PROVE  \A i \in DOMAIN vals : /\ nth_element(vals, 0) <= vals[i]
                                  /\ vals[i] <= nth_element(vals, Len(vals) - 1)
<1>1. PICK n \in Nat : n = Len(vals) /\ DOMAIN vals = 1 .. n
  OBVIOUS
<1>2. PICK v : v = nth_element(vals, 0)
  OBVIOUS
<1>3. PICK w : w = nth_element(vals, n - 1)
  OBVIOUS
<1>4. IsNth(v, vals, 0) /\ IsNth(w, vals, n - 1)
  <2>1. 0 \in Nat /\ n - 1 \in Nat /\ n - 1 < Len(vals)
    BY <1>1
  <2> QED BY <1>2, <1>3, <2>1, NthExists
<1>5. v \in Int /\ w \in Int
  BY <1>4 DEF IsNth, Range
<1>6. Below(vals, v) = {}
  <2>1. IsFiniteSet(Below(vals, v)) /\ Cardinality(Below(vals, v)) \in Nat
    BY <1>5, PartsFinite
  <2>2. Cardinality(Below(vals, v)) = 0
    BY <1>4, <2>1 DEF IsNth
  <2> QED BY <2>1, <2>2, FS_EmptySet
<1>7. AtMost(vals, w) = DOMAIN vals
  <2>1. /\ IsFiniteSet(DOMAIN vals) /\ Cardinality(DOMAIN vals) = n
        /\ Cardinality(AtMost(vals, w)) \in Nat
    BY <1>1, <1>5, PartsFinite
  <2>2. AtMost(vals, w) \in SUBSET (DOMAIN vals)
    BY DEF AtMost
  <2>3. Cardinality(AtMost(vals, w)) <= n
    BY <2>1, <2>2, FS_Subset
  <2>4. Cardinality(AtMost(vals, w)) = n
    BY <1>4, <2>1, <2>3 DEF IsNth
  <2> QED BY <2>1, <2>2, <2>4, FS_Subset
<1>8. ASSUME NEW i \in DOMAIN vals PROVE v <= vals[i] /\ vals[i] <= w
  <2>1. vals[i] \in Int
    OBVIOUS
  <2> QED BY <1>5, <1>6, <1>7, <2>1 DEF Below, AtMost
<1> QED BY <1>1, <1>2, <1>3, <1>8

(* Division towards zero stays between the bounds, also below zero.        *)
LEMMA QuotientBetween ==
    ASSUME NEW a \in Int, NEW n \in Nat \ {0}, NEW lo \in Int, NEW hi \in Int,
           lo * n <= a, a <= hi * n
    PROVE  Quotient(a, n) \in Int /\ lo <= Quotient(a, n) /\ Quotient(a, n) <= hi
<1>1. ASSUME NEW b \in Nat, NEW l \in Int, NEW h \in Int, l * n <= b, b <= h * n
      PROVE  b \div n \in Int /\ l <= b \div n /\ b \div n <= h
  BY <1>1
<1>2. CASE a < 0
  <2>1. PICK b \in Nat : b = -a
    BY <1>2
  <2>2. PICK l \in Int : l = -hi
    OBVIOUS
  <2>3. PICK h \in Int : h = -lo
    OBVIOUS
  <2>4. l * n <= b /\ b <= h * n
    BY <2>1, <2>2, <2>3
  <2>5. b \div n \in Int /\ l <= b \div n /\ b \div n <= h
    BY <1>1, <2>4
  <2>6. Quotient(a, n) = -(b \div n)
    BY <1>2, <2>1 DEF Quotient
  <2> QED BY <2>2, <2>3, <2>5, <2>6
<1>3. CASE ~(a < 0)
  BY <1>1, <1>3 DEF Quotient
<1> QED BY <1>2, <1>3

(* A sum of values lies between as many smallest and largest values.       *)
LEMMA SumBetween ==
    ASSUME NEW d, NEW A, IsFiniteSet(A), NEW F \in [SUBSET A -> Int], F[{}] = 0,
           \A S \in SUBSET A : \A p \in A \ S : F[S \cup {p}] = d[p].value + F[S],
           NEW lo \in Int, NEW hi \in Int,
           \A p \in A : d[p].value \in Int /\ lo <= d[p].value /\ d[p].value <= hi
    PROVE  lo * Cardinality(A) <= F[A] /\ F[A] <= hi * Cardinality(A)
<1> DEFINE Ok(S) == lo * Cardinality(S) <= F[S] /\ F[S] <= hi * Cardinality(S)
           P == {S \in SUBSET A : Ok(S)}
<1>1. {} \in P /\ P \in SUBSET (SUBSET A)
  BY FS_EmptySet
<1>2. ASSUME NEW S \in P, NEW p \in A \ S PROVE S \cup {p} \in P
  <2>1. S \in SUBSET A /\ S \cup {p} \in SUBSET A /\ F[S] \in Int
    OBVIOUS
  <2>2. IsFiniteSet(S)
    BY <2>1, FS_Subset
  <2>3. PICK k \in Nat : k = Cardinality(S)
    BY <2>2, FS_CardinalityType
  <2>4. Cardinality(S \cup {p}) = k + 1
    BY <2>2, <2>3, FS_AddElement
  <2>5. F[S \cup {p}] = d[p].value + F[S]
    OBVIOUS
  <2>6. d[p].value \in Int /\ lo <= d[p].value /\ d[p].value <= hi
    OBVIOUS
  <2>7. lo * k <= F[S] /\ F[S] <= hi * k
    BY <2>3
  <2>8. lo * (k + 1) = lo * k + lo /\ hi * (k + 1) = hi * k + hi
    OBVIOUS
  <2>9. PICK x \in Int : x = lo * k
    OBVIOUS
  <2>10. PICK y \in Int : y = hi * k
    OBVIOUS
  <2>11. x + lo <= d[p].value + F[S] /\ d[p].value + F[S] <= y + hi
    BY ONLY <2>1, <2>6, <2>7, <2>9, <2>10, x \in Int, y \in Int, lo \in Int, hi \in Int
  <2> QED BY <2>1, <2>4, <2>5, <2>8, <2>9, <2>10, <2>11
<1>3. P = SUBSET A
  <2> HIDE DEF P
  <2> QED BY <1>1, <1>2, SetInduction
<1> QED BY <1>3

(* The values of a tag, when all of them fit, and what Stat makes of them. *)
LEMMA AverageBetween ==
    ASSUME NEW d, NEW A, IsFiniteSet(A), NEW F \in [SUBSET A -> Int], F[{}] = 0,
           \A S \in SUBSET A : \A p \in A \ S : F[S \cup {p}] = d[p].value + F[S],
           \A p \in A : d[p].value \in Int /\ Fits(d[p].value),
           NEW x, InfoFor(x, d, A, F), A # {}
    PROVE  /\ Stat(x).value_min <= Stat(x).value_avg
           /\ Stat(x).value_avg <= Stat(x).value_max
<1>1. PICK vals \in Seq(Int) : vals = x.values
  BY DEF InfoFor, Fills
<1>2. Fills(vals, d, A) /\ x.count = Len(vals) /\ x.value_sum = F[A]
  BY <1>1 DEF InfoFor
<1>3. PICK n \in Nat : n = Len(vals) /\ DOMAIN vals = 1 .. n
  OBVIOUS
<1>4. Cardinality(A) = n
  BY <1>2, <1>3, FillsCount
<1>5. n # 0
  BY <1>4, FS_EmptySet
<1>6. PICK lo : lo = nth_element(vals, 0)
  OBVIOUS
<1>7. PICK hi : hi = nth_element(vals, n - 1)
  OBVIOUS
<1>8. lo \in Range(vals) /\ hi \in Range(vals)
  <2>1. 0 \in Nat /\ 0 < Len(vals) /\ n - 1 \in Nat /\ n - 1 < Len(vals)
    BY <1>3, <1>5
  <2>2. IsNth(lo, vals, 0) /\ IsNth(hi, vals, n - 1)
    BY <1>6, <1>7, <2>1, NthExists
  <2> QED BY <2>2 DEF IsNth
<1>9. PICK r \in Bijection(1 .. n, A) : \A j \in 1 .. n : vals[j] = Narrow(d[r[j]].value)
  BY <1>2, <1>3 DEF Fills
<1>10. /\ \A p \in A : \E j \in 1 .. n : d[p].value = vals[j]
       /\ \A j \in 1 .. n : Fits(vals[j])
  <2>1. r \in [1 .. n -> A] /\ \A a \in A : \E j \in 1 .. n : r[j] = a
    BY <1>9 DEF Bijection, Injection, Surjection
  <2>2. \A j \in 1 .. n : vals[j] = d[r[j]].value /\ r[j] \in A
    BY <1>9, <2>1 DEF Fits
  <2>3. \A p \in A : \E j \in 1 .. n : d[p].value = vals[j]
    <3> SUFFICES ASSUME NEW p \in A PROVE \E j \in 1 .. n : d[p].value = vals[j]
      OBVIOUS
    <3>1. PICK j \in 1 .. n : r[j] = p
      BY <2>1
    <3> QED BY <2>2, <3>1
  <2>4. \A j \in 1 .. n : Fits(vals[j])
    <3> SUFFICES ASSUME NEW j \in 1 .. n PROVE Fits(vals[j])
      OBVIOUS
    <3>1. Fits(d[r[j]].value) /\ vals[j] = d[r[j]].value
      BY <2>2
    <3> QED BY <3>1
  <2> QED BY <2>3, <2>4
<1>11. lo \in Int /\ hi \in Int /\ Fits(lo) /\ Fits(hi)
  BY <1>3, <1>8, <1>10 DEF Range
<1>12. \A j \in 1 .. n : lo <= vals[j] /\ vals[j] <= hi
  <2>1. 0 < Len(vals)
    BY <1>3, <1>5
  <2> QED BY <1>3, <1>6, <1>7, <2>1, NthExtremes
<1>13. \A p \in A : d[p].value \in Int /\ lo <= d[p].value /\ d[p].value <= hi
  BY <1>10, <1>12
<1>14. lo * n <= F[A] /\ F[A] <= hi * n /\ F[A] \in Int
  BY <1>4, <1>11, <1>13, SumBetween
<1>15. PICK q : q = Quotient(F[A], n)
  OBVIOUS
<1>16. q \in Int /\ lo <= q /\ q <= hi
  <2>1. PICK a \in Int : a = F[A]
    BY <1>14
  <2>2. n \in Nat \ {0} /\ lo * n <= a /\ a <= hi * n
    BY <1>5, <1>14, <2>1
  <2> QED BY <1>11, <1>15, <2>1, <2>2, QuotientBetween
<1>17. Fits(q)
  <2>1. PICK first, last \in Int : \A v \in Int : Fits(v) <=> first <= v /\ v < last
    BY NarrowFacts
  <2> QED BY <1>11, <1>16, <2>1
<1>18. /\ Stat(x).value_avg = Narrow(Quotient(x.value_sum, x.count))
       /\ Stat(x).value_min = nth_element(x.values, 0)
       /\ Stat(x).value_max = nth_element(x.values, Len(x.values) - 1)
  BY DEF Stat
<1> QED BY <1>1, <1>2, <1>3, <1>6, <1>7, <1>15, <1>16, <1>17, <1>18 DEF Fits

(* The ranks of the quantiles.                                             *)
LEMMA QuantileRanks ==
    ASSUME NEW d, NEW A, \A p \in A : d[p].value \in Int /\ Fits(d[p].value),
           NEW vals, Fills(vals, d, A), NEW q \in Nat, NEW n \in Nat, n < Len(vals),
           10 * n <= q * Len(vals), q * Len(vals) < 10 * (n + 1),
           NEW v, v = nth_element(vals, n)
    PROVE  /\ 10 * Cardinality(ItemsBelow(d, A, v)) <= q * Cardinality(A)
           /\ q * Cardinality(A) < 10 * Cardinality(ItemsAtMost(d, A, v))
<1>1. vals \in Seq(Int) /\ Cardinality(A) = Len(vals)
  <2>1. Cardinality(A) = Len(vals)
    BY FillsCount
  <2> QED BY <2>1 DEF Fills
<1>2. IsNth(v, vals, n)
  BY <1>1, NthExists
<1>3. v \in Int
  BY <1>1, <1>2 DEF IsNth, Range
<1>4. PICK below \in Nat : below = Cardinality(Below(vals, v))
  BY <1>1, <1>3, PartsFinite
<1>5. PICK upTo \in Nat : upTo = Cardinality(AtMost(vals, v))
  BY <1>1, <1>3, PartsFinite
<1>6. below <= n /\ n < upTo
  BY <1>2, <1>4, <1>5 DEF IsNth
<1>7. /\ Cardinality(ItemsBelow(d, A, v)) = below
      /\ Cardinality(ItemsAtMost(d, A, v)) = upTo
  BY <1>3, <1>4, <1>5, FillsParts
<1>8. PICK x \in Nat : x = q * Len(vals)
  BY <1>1
<1>9. 10 * below <= x /\ x < 10 * upTo
  BY <1>6, <1>8
<1> QED BY <1>1, <1>7, <1>8, <1>9

LEMMA QuantilesFromInv == StatInv => QuantilesInOrder
<1> SUFFICES ASSUME StatInv, done, AllFit PROVE QuantilesInOrder
  BY DEF QuantilesInOrder
<1>1. PICK d \in Inputs : d = data
  BY DEF StatInv
<1>2. PICK m, F : IsAggregate(m, d, F)
  BY CalcIs
<1>3. info = [t \in DOMAIN m |-> Stat(m[t])]
  BY <1>1, <1>2 DEF StatInv, IsAggregate
<1>4. Aggregated(m, d, Kept(d), F)
  BY <1>2 DEF IsAggregate
<1>5. \A p \in Kept(d) : d[p].value \in Int /\ Fits(d[p].value)
  BY <1>1, InputsAssumption DEF AllFit, Kept
<1>6. ASSUME NEW t \in DOMAIN info
      PROVE  /\ IsQuantile(info[t].value_p10, 1, t)
             /\ IsQuantile(info[t].value_p50, 5, t)
             /\ IsQuantile(info[t].value_p90, 9, t)
             /\ info[t].value_min <= info[t].value_p10
             /\ info[t].value_p10 <= info[t].value_p50
             /\ info[t].value_p50 <= info[t].value_p90
             /\ info[t].value_p90 <= info[t].value_max
             /\ info[t].value_min <= info[t].value_avg
             /\ info[t].value_avg <= info[t].value_max
  <2>1. PICK A \in SUBSET Kept(d) : A = WithTag(d, Kept(d), t)
    BY DEF WithTag
  <2>2. TagItems(t) = A /\ \A p \in A : d[p].value \in Int /\ Fits(d[p].value)
    BY <1>1, <1>5, <2>1 DEF TagItems, WithTag
  <2>3. PICK x : x = m[t]
    OBVIOUS
  <2>4. InfoFor(x, d, A, F) /\ t \in DOMAIN m /\ A # {}
    BY <1>3, <1>4, <2>1, <2>3 DEF Aggregated, TagsAt, WithTag
  <2>5. info[t] = Stat(x)
    BY <1>3, <2>3, <2>4
  <2>6. PICK vals : vals = x.values
    OBVIOUS
  <2>7. Fills(vals, d, A) /\ vals \in Seq(Int)
    BY <2>4, <2>6 DEF InfoFor, Fills
  <2>8. PICK n \in Nat : n = Len(vals)
    BY <2>7
  <2>9. n # 0
    <3>1. Cardinality(A) = n
      BY <2>7, <2>8, FillsCount
    <3>2. IsFiniteSet(A)
      BY <1>2, FS_Subset DEF IsAggregate
    <3> QED BY <2>4, <3>1, <3>2, FS_EmptySet
  <2>10. PICK i \in Nat : i = n \div 10
    OBVIOUS
  <2>11. PICK j \in Nat : j = n \div 2
    OBVIOUS
  <2>12. PICK k \in Nat : k = (9 * n) \div 10
    OBVIOUS
  <2>13. /\ 10 * i <= n /\ n < 10 * (i + 1) /\ 2 * j <= n /\ n < 2 * (j + 1)
         /\ 10 * k <= 9 * n /\ 9 * n < 10 * (k + 1)
    BY <2>10, <2>11, <2>12
  <2>14. 0 <= i /\ i <= j /\ j <= k /\ k <= n - 1 /\ n - 1 \in Nat /\ n - 1 < n
    BY <2>9, <2>13
  <2>15. /\ Stat(x).value_min = nth_element(vals, 0)
         /\ Stat(x).value_p10 = nth_element(vals, i)
         /\ Stat(x).value_p50 = nth_element(vals, j)
         /\ Stat(x).value_p90 = nth_element(vals, k)
         /\ Stat(x).value_max = nth_element(vals, n - 1)
    BY <2>6, <2>8, <2>10, <2>11, <2>12 DEF Stat
  <2>16. /\ nth_element(vals, 0) <= nth_element(vals, i)
         /\ nth_element(vals, i) <= nth_element(vals, j)
         /\ nth_element(vals, j) <= nth_element(vals, k)
         /\ nth_element(vals, k) <= nth_element(vals, n - 1)
    BY <2>7, <2>8, <2>14, NthOrdered
  <2>17. ASSUME NEW q \in Nat, NEW rank \in Nat, rank < n,
                10 * rank <= q * n, q * n < 10 * (rank + 1)
         PROVE  IsQuantile(nth_element(vals, rank), q, t)
    <3>1. PICK v : v = nth_element(vals, rank)
      OBVIOUS
    <3>2. /\ 10 * Cardinality(ItemsBelow(d, A, v)) <= q * Cardinality(A)
          /\ q * Cardinality(A) < 10 * Cardinality(ItemsAtMost(d, A, v))
      BY <2>2, <2>7, <2>8, <2>17, <3>1, QuantileRanks
    <3> QED BY <1>1, <2>2, <3>1, <3>2 DEF IsQuantile, ItemsBelow, ItemsAtMost
  <2>18. /\ IsQuantile(nth_element(vals, i), 1, t)
         /\ IsQuantile(nth_element(vals, j), 5, t)
         /\ IsQuantile(nth_element(vals, k), 9, t)
    BY <2>13, <2>14, <2>17
  <2>19. Stat(x).value_min <= Stat(x).value_avg /\ Stat(x).value_avg <= Stat(x).value_max
    <3>1. PICK f : f = [S \in SUBSET A |-> F[S]]
      OBVIOUS
    <3>2. F \in [SUBSET Kept(d) -> Int] /\ F[{}] = 0 /\ IsFiniteSet(Kept(d))
          /\ \A S \in SUBSET Kept(d) : \A p \in Kept(d) \ S : F[S \cup {p}] = d[p].value + F[S]
      BY <1>2 DEF IsAggregate
    <3>3. IsFiniteSet(A)
      BY <3>2, FS_Subset
    <3>4. f \in [SUBSET A -> Int] /\ f[{}] = 0
      BY <3>1, <3>2
    <3>5. \A S \in SUBSET A : \A p \in A \ S : f[S \cup {p}] = d[p].value + f[S]
      BY <3>1, <3>2
    <3>6. InfoFor(x, d, A, f)
      <4>1. f[A] = F[A]
        BY <3>1
      <4> QED BY <2>4, <4>1 DEF InfoFor
    <3> QED BY ONLY A \in SUBSET Kept(d), <2>2, <2>4, <3>3, <3>4, <3>5, <3>6, AverageBetween
  <2> QED BY <2>5, <2>15, <2>16, <2>18, <2>19
<1> QED BY <1>6 DEF QuantilesInOrder

(* The columns of a row are what their names say: the quantiles and the    *)
(* average of the values that were kept, between the smallest and the      *)
(* largest of them (calc_event_info_each_metric), for every number of      *)
(* values and every order in which they arrive.                            *)
THEOREM StatQuantilesInOrder == StatSpec => []QuantilesInOrder
BY StatInvariant, QuantilesFromInv, PTL

=============================================================================
