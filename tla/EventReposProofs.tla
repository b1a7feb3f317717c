-------------------------- MODULE EventReposProofs --------------------------
(* Theorems about EventRepos, for every value of its constants. *)
EXTENDS EventRepos, WellFoundedInduction, TLAPS

(* The types the argument needs.                                           *)
ReposType ==
    /\ DOMAIN handlers_ = Identities /\ made \in [Identities -> Nat]
    /\ store \in [StoreTypes -> Nat]
    /\ at \in [Workers -> {"idle", "copy", "find", "use", "create", "init", "conf", "store",
                           "store_lock", "store_conf", "store_init", "start", "insert"}]
    /\ request \in [Workers -> Requests \cup {Nothing}]
    /\ DOMAIN handler = Workers /\ DOMAIN wanted = Workers

OpeningStore(w) == at[w] \in {"store", "store_lock", "store_conf", "store_init"}

(* A thread that makes a handler; it has lock_ of EventRepos.              *)
Making(w) ==
    \/ at[w] \in {"init", "conf", "start", "insert"}
    \/ OpeningStore(w) /\ request[w].op = "event"

(* Who has which mutex.                                                    *)
LocksHeld ==
    /\ \A w \in Workers : Making(w) <=> repos_lock = w
    /\ \A w \in Workers : at[w] \in {"store_conf", "store_init"} <=> init_lock = w
    /\ conf_lock = Reload <=> reload \notin {"idle", "load", "unreadable"}
    /\ \A w \in Workers : Making(w) \/ at[w] = "create" =>
          request[w] \in {Event(i) : i \in Identities}

(* Whoever has init_lock_ is about to open a store that is not open.       *)
StoreNotYet ==
    /\ \A t \in StoreTypes : store[t] <= 1
    /\ \A w \in Workers : at[w] \in {"store_conf", "store_init"} /\ Head(wanted[w]) \in StoreTypes =>
          store[Head(wanted[w])] = 0

First(i) == [identity |-> i, nth |-> 1]

(* The table has the first handler of an identity or none, and a thread    *)
(* that makes one is the first to do so.                                   *)
FirstOnly ==
    /\ \A i \in Identities : handlers_[i] # NoHandler => handlers_[i] = First(i) /\ made[i] = 1
    /\ \A i \in Identities : handlers_[i] = NoHandler =>
          made[i] = 0 \/ \E w \in Workers : at[w] = "insert" /\ request[w].identity = i
    /\ \A w \in Workers : Making(w) => handlers_[request[w].identity] = NoHandler
    /\ \A w \in Workers : at[w] = "insert" =>
          handler[w] = First(request[w].identity) /\ made[request[w].identity] = 1

(* What a thread uses is in the table.                                     *)
InUse ==
    \A w \in Workers : at[w] = "use" =>
        \E i \in Identities : /\ handler[w] = First(i) /\ handlers_[i] = First(i)
                              /\ request[w].op = "event" => request[w].identity = i

(* While the reload walks the table, a thread that makes a handler has not *)
(* got past the lock of ConfHelper.                                        *)
WalkBlocks ==
    reload = "walk" => \A w \in Workers : Making(w) => at[w] \in {"init", "conf"}

ReposInv == ReposType /\ LocksHeld /\ StoreNotYet /\ FirstOnly /\ InUse /\ WalkBlocks

-----------------------------------------------------------------------------
(* A counter of a table goes from 0 to 1.                                  *)
LEMMA CountOne ==
    ASSUME NEW S, NEW f \in [S -> Nat], NEW x \in S, f[x] = 0,
           NEW g, g = [f EXCEPT ![x] = @ + 1]
    PROVE  g \in [S -> Nat] /\ g[x] = 1 /\ \A y \in S : y # x => g[y] = f[y]
<1>1. g \in [S -> Nat] /\ g[x] = f[x] + 1 /\ \A y \in S : y # x => g[y] = f[y]
  OBVIOUS
<1> QED BY <1>1

(* The kinds of requests.                                                  *)
LEMMA RequestKinds ==
    /\ \A r \in Requests :
          \/ r.op = "services"
          \/ r.op = "event" /\ r.identity \in Identities /\ r = Event(r.identity)
          \/ r.op = "metrics" /\ r.service \in DOMAIN BeginsWith
                              /\ BeginsWith[r.service] \subseteq Identities
    /\ \A i \in Identities : Event(i).op = "event" /\ Event(i).identity = i
    /\ Nothing.op = "none"
    /\ \A i \in Identities : First(i) # NoHandler /\ First(i).identity = i
    /\ Reload \notin Workers /\ Nobody \notin Workers /\ Reload # Nobody
<1>1. \A r \in Requests : \/ r = ListAll
                          \/ r \in {Event(i) : i \in Identities}
                          \/ r \in {Metrics(s) : s \in DOMAIN BeginsWith}
  BY ReposAssumption
<1>2. \A i \in Identities : Event(i).op = "event" /\ Event(i).identity = i
  BY DEF Event
<1>3. \A s \in DOMAIN BeginsWith : Metrics(s).op = "metrics" /\ Metrics(s).service = s
                                   /\ BeginsWith[s] \subseteq Identities
  BY ReposAssumption DEF Metrics
<1>4. ListAll.op = "services" /\ Nothing.op = "none"
  BY DEF ListAll, Nothing
<1>5. \A i \in Identities : First(i) # NoHandler /\ First(i).identity = i
  BY DEF First, NoHandler
<1>6. Reload \notin Workers /\ Nobody \notin Workers /\ Reload # Nobody
  BY ReposAssumption DEF Reload, Nobody
<1> QED BY <1>1, <1>2, <1>3, <1>4, <1>5, <1>6

LEMMA InitRepos == Init => ReposInv
<1> SUFFICES ASSUME Init PROVE ReposInv
  OBVIOUS
<1>1. ReposType
  BY DEF Init, ReposType
<1>2. \A w \in Workers : at[w] = "idle" /\ request[w] = Nothing
  BY DEF Init
<1>3. LocksHeld
  BY <1>2, RequestKinds DEF Init, LocksHeld, Making, OpeningStore
<1>4. StoreNotYet /\ InUse /\ WalkBlocks
  BY <1>2 DEF Init, StoreNotYet, InUse, WalkBlocks
<1>5. FirstOnly
  BY <1>2 DEF Init, FirstOnly, Making, OpeningStore
<1> QED BY <1>1, <1>3, <1>4, <1>5 DEF ReposInv

(* A step of a thread that has no lock and gets none, in all that matters  *)
(* to the invariant.                                                       *)
LEMMA QuietStep ==
    ASSUME ReposInv, NEW w \in Workers, ~Making(w), at[w] \notin {"store_conf", "store_init"},
           UNCHANGED <<handlers_, made, store, repos_lock, conf_lock, init_lock, reload>>,
           NEW p \in {"idle", "copy", "find", "use", "create", "store", "store_lock"},
           at' = [at EXCEPT ![w] = p],
           request' \in [Workers -> Requests \cup {Nothing}],
           DOMAIN handler' = Workers, DOMAIN wanted' = Workers,
           \A u \in Workers : u # w => request'[u] = request[u] /\ handler'[u] = handler[u]
                                       /\ wanted'[u] = wanted[u],
           p \in {"store", "store_lock"} => request'[w].op # "event",
           p = "create" => request'[w] \in {Event(i) : i \in Identities},
           p = "use" => \E i \in Identities :
               /\ handler'[w] = First(i) /\ handlers_[i] = First(i)
               /\ request'[w].op = "event" => request'[w].identity = i
    PROVE  ReposInv'
<1> USE DEF ReposInv
<1>1. at'[w] = p /\ \A u \in Workers : u # w => at'[u] = at[u]
  BY DEF ReposType
<1>2. ReposType'
  BY DEF ReposType
<1>3. ~Making(w)' /\ \A u \in Workers : u # w => (Making(u)' <=> Making(u))
  BY <1>1 DEF Making, OpeningStore
<1>4. LocksHeld'
  BY <1>1, <1>3 DEF LocksHeld
<1>5. StoreNotYet'
  BY <1>1 DEF StoreNotYet
<1>6. FirstOnly'
  <2>1. \A u \in Workers : at[u] = "insert" \/ Making(u)' => u # w
    BY <1>1, <1>3 DEF Making
  <2>2. \A u \in Workers : at'[u] = "insert" <=> at[u] = "insert"
    BY <1>1, <2>1
  <2> QED BY <1>1, <1>3, <2>1, <2>2 DEF FirstOnly
<1>7. InUse'
  BY <1>1 DEF InUse
<1>8. WalkBlocks'
  BY <1>1, <1>3 DEF WalkBlocks
<1> QED BY <1>2, <1>4, <1>5, <1>6, <1>7, <1>8

(* A thread that makes a handler goes on to do so.                         *)
LEMMA MakingStep ==
    ASSUME ReposInv, NEW w \in Workers, Making(w),
           at[w] \in {"init", "conf", "store", "store_lock"},
           UNCHANGED <<handlers_, made, store, repos_lock, conf_lock, init_lock, reload,
                       request, handler>>,
           NEW p \in {"conf", "store", "store_lock", "start"},
           at' = [at EXCEPT ![w] = p], reload = "walk" => p = "conf",
           DOMAIN wanted' = Workers,
           \A u \in Workers : u # w => wanted'[u] = wanted[u]
    PROVE  ReposInv'
<1> USE DEF ReposInv
<1>1. at'[w] = p /\ \A u \in Workers : u # w => at'[u] = at[u]
  BY DEF ReposType
<1>2. ReposType'
  BY DEF ReposType
<1>3. request[w].op = "event"
  BY RequestKinds DEF LocksHeld
<1>4. \A u \in Workers : Making(u)' <=> Making(u)
  BY <1>1, <1>3 DEF Making, OpeningStore
<1>5. LocksHeld'
  BY <1>1, <1>4 DEF LocksHeld
<1>6. StoreNotYet'
  BY <1>1 DEF StoreNotYet
<1>7. FirstOnly'
  <2>1. \A u \in Workers : at'[u] = "insert" <=> at[u] = "insert"
    BY <1>1
  <2> QED BY <1>4, <2>1 DEF FirstOnly
<1>8. InUse'
  BY <1>1 DEF InUse
<1>9. WalkBlocks'
  BY <1>1, <1>4 DEF WalkBlocks
<1> QED BY <1>2, <1>5, <1>6, <1>7, <1>8, <1>9

(* A thread takes a request, looks for its handler and uses it.            *)
LEMMA LookupKeeps ==
    ASSUME ReposInv, NEW w \in Workers,
           TakeRequest(w) \/ CopyTable(w) \/ FindHandler(w) \/ FindAnyHandler(w) \/ UseHandler(w)
    PROVE  ReposInv'
<1> USE DEF ReposInv
<1>1. UNCHANGED <<handlers_, made, store, repos_lock, conf_lock, init_lock, reload>>
  BY DEF TakeRequest, CopyTable, FindHandler, FindAnyHandler, UseHandler, lockVars, tableVars,
     reloadVars
<1>2. ~Making(w) /\ at[w] \notin {"store_conf", "store_init"}
  BY DEF Making, OpeningStore, TakeRequest, CopyTable, FindHandler, FindAnyHandler, UseHandler
<1>3. ASSUME Answer(w) PROVE ReposInv'
  <2>1. /\ at' = [at EXCEPT ![w] = "idle"]
        /\ request' = [request EXCEPT ![w] = Nothing]
        /\ handler' = [handler EXCEPT ![w] = NoHandler]
        /\ wanted'  = [wanted EXCEPT ![w] = <<>>]
    BY <1>3 DEF Answer, GoTo
  <2>2. /\ request' \in [Workers -> Requests \cup {Nothing}]
        /\ DOMAIN handler' = Workers /\ DOMAIN wanted' = Workers
        /\ \A u \in Workers : u # w => request'[u] = request[u] /\ handler'[u] = handler[u]
                                       /\ wanted'[u] = wanted[u]
    BY <2>1 DEF ReposType
  <2> QED BY <1>1, <1>2, <2>1, <2>2, QuietStep
<1>4. CASE TakeRequest(w)
  <2>1. PICK r \in Requests :
           /\ request' = [request EXCEPT ![w] = r]
           /\ IF r.op = "event"
              THEN at' = [at EXCEPT ![w] = "copy"] /\ UNCHANGED wanted
              ELSE /\ at' = [at EXCEPT ![w] = "store"]
                   /\ wanted' = [wanted EXCEPT ![w] = <<"mysql", "redis", "leveldb">>]
    BY <1>4 DEF TakeRequest, GoTo
  <2>2. PICK p \in {"copy", "store"} :
           at' = [at EXCEPT ![w] = p] /\ (p = "store" => r.op # "event")
    BY <2>1
  <2>3. /\ request' \in [Workers -> Requests \cup {Nothing}] /\ request'[w] = r
        /\ DOMAIN handler' = Workers /\ DOMAIN wanted' = Workers
        /\ \A u \in Workers : u # w => request'[u] = request[u] /\ handler'[u] = handler[u]
                                       /\ wanted'[u] = wanted[u]
    BY <1>4, <2>1 DEF ReposType, TakeRequest
  <2> QED BY <1>1, <1>2, <2>2, <2>3, QuietStep
<1>5. CASE CopyTable(w)
  <2>1. at' = [at EXCEPT ![w] = "find"] /\ UNCHANGED <<request, handler, wanted>>
    BY <1>5 DEF CopyTable, GoTo, workVars
  <2> QED BY <1>1, <1>2, <2>1, QuietStep DEF ReposType
<1>6. CASE FindHandler(w)
  <2>1. request[w].op = "event" /\ UNCHANGED <<request, wanted>>
    BY <1>6 DEF FindHandler
  <2>2. PICK h \in MapFind(request[w].identity) :
           /\ handler' = [handler EXCEPT ![w] = h]
           /\ at' = [at EXCEPT ![w] = IF h = NoHandler THEN "create" ELSE "use"]
    BY <1>6 DEF FindHandler, GoTo
  <2>3. request[w].identity \in Identities /\ request[w] = Event(request[w].identity)
    BY <2>1, RequestKinds DEF ReposType
  <2>4. h # NoHandler => h = handlers_[request[w].identity] /\ h = First(request[w].identity)
    BY <2>2, <2>3 DEF MapFind, FirstOnly
  <2>5. PICK p \in {"create", "use"} : at' = [at EXCEPT ![w] = p] /\ (p = "use" => h # NoHandler)
    BY <2>2
  <2>6. handler'[w] = h /\ DOMAIN handler' = Workers
        /\ \A u \in Workers : u # w => handler'[u] = handler[u]
    BY <2>2 DEF ReposType
  <2>7. p = "create" => request'[w] \in {Event(i) : i \in Identities}
    BY <2>1, <2>3
  <2>8. p = "use" => \E i \in Identities :
               /\ handler'[w] = First(i) /\ handlers_[i] = First(i)
               /\ request'[w].op = "event" => request'[w].identity = i
    BY <2>1, <2>3, <2>4, <2>5, <2>6
  <2>9. /\ request' \in [Workers -> Requests \cup {Nothing}] /\ DOMAIN wanted' = Workers
        /\ p \notin {"store", "store_lock"}
        /\ \A u \in Workers : u # w => request'[u] = request[u] /\ handler'[u] = handler[u]
                                        /\ wanted'[u] = wanted[u]
    BY <2>1, <2>5, <2>6 DEF ReposType
  <2> QED BY <1>1, <1>2, <2>5, <2>6, <2>7, <2>8, <2>9, QuietStep
<1>7. CASE FindAnyHandler(w)
  <2>1. CASE Answer(w)
    BY <1>3, <2>1
  <2>2. ASSUME ~Answer(w) PROVE ReposInv'
    <3>1. /\ request[w].op = "metrics" /\ UNCHANGED <<request, wanted>>
          /\ at' = [at EXCEPT ![w] = "use"]
      BY <1>7, <2>2 DEF FindAnyHandler, GoTo
    <3>2. PICK h \in FirstMatch(request[w].service) : handler' = [handler EXCEPT ![w] = h]
      BY <1>7, <2>2 DEF FindAnyHandler
    <3>3. BeginsWith[request[w].service] \subseteq Identities
      BY <3>1, RequestKinds DEF ReposType
    <3>4. PICK i \in Identities : handlers_[i] # NoHandler /\ h = handlers_[i]
      BY <3>2, <3>3 DEF FirstMatch
    <3>5. h = First(i) /\ handlers_[i] = First(i)
      BY <3>4 DEF FirstOnly
    <3>6. handler'[w] = h /\ DOMAIN handler' = Workers
          /\ \A u \in Workers : u # w => handler'[u] = handler[u]
      BY <3>2 DEF ReposType
    <3> QED BY <1>1, <1>2, <3>1, <3>5, <3>6, QuietStep DEF ReposType
  <2> QED BY <2>1, <2>2
<1>8. CASE UseHandler(w)
  BY <1>3, <1>8 DEF UseHandler
<1> QED BY <1>4, <1>5, <1>6, <1>7, <1>8

(* The double check: a thread that finds nothing has lock_, and nobody     *)
(* else makes a handler then.                                              *)
LEMMA DoubleCheckKeeps ==
    ASSUME ReposInv, NEW w \in Workers, DoubleCheck(w)
    PROVE  ReposInv'
<1> USE DEF ReposInv
<1> PICK i : i = request[w].identity
  OBVIOUS
<1>1. /\ at[w] = "create" /\ repos_lock = Nobody
      /\ UNCHANGED <<handlers_, made, store, conf_lock, init_lock, reload, request, wanted>>
  BY DEF DoubleCheck, tableVars, reloadVars
<1>2. request[w] \in {Event(j) : j \in Identities} /\ i \in Identities /\ request[w].op = "event"
  BY <1>1, RequestKinds DEF LocksHeld
<1>3. ~Making(w) /\ \A u \in Workers : ~Making(u)
  BY <1>1, RequestKinds DEF LocksHeld
<1>4. CASE handlers_[i] # NoHandler
  <2>1. /\ handler' = [handler EXCEPT ![w] = handlers_[i]] /\ at' = [at EXCEPT ![w] = "use"]
        /\ UNCHANGED repos_lock
    BY <1>4 DEF DoubleCheck, GoTo
  <2>2. handlers_[i] = First(i)
    BY <1>2, <1>4 DEF FirstOnly
  <2>3. handler'[w] = First(i) /\ DOMAIN handler' = Workers
        /\ \A u \in Workers : u # w => handler'[u] = handler[u]
    BY <2>1, <2>2 DEF ReposType
  <2> QED BY <1>1, <1>2, <1>3, <2>1, <2>2, <2>3, QuietStep DEF ReposType
<1>5. CASE handlers_[i] = NoHandler
  <2>1. repos_lock' = w /\ at' = [at EXCEPT ![w] = "init"] /\ UNCHANGED handler
    BY <1>5 DEF DoubleCheck, GoTo
  <2>2. at'[w] = "init" /\ \A u \in Workers : u # w => at'[u] = at[u]
    BY <2>1 DEF ReposType
  <2>3. Making(w)' /\ \A u \in Workers : u # w => ~Making(u)'
    BY <1>1, <1>3, <2>2 DEF Making, OpeningStore
  <2>4. ReposType'
    BY <1>1, <2>1 DEF ReposType
  <2>5. LocksHeld'
    BY <1>1, <1>2, <2>1, <2>2, <2>3 DEF LocksHeld
  <2>6. StoreNotYet' /\ InUse'
    BY <1>1, <2>1, <2>2 DEF StoreNotYet, InUse
  <2>7. FirstOnly'
    <3>1. \A u \in Workers : at'[u] = "insert" <=> at[u] = "insert"
      BY <1>1, <2>2
    <3> QED BY <1>1, <1>5, <2>1, <2>3, <3>1 DEF FirstOnly
  <2>8. WalkBlocks'
    BY <2>2, <2>3 DEF WalkBlocks
  <2> QED BY <2>4, <2>5, <2>6, <2>7, <2>8
<1> QED BY <1>4, <1>5

(* EventHandler::init up to the store: it waits for the lock of ConfHelper *)
(* while a reload is under way.                                            *)
LEMMA ReadConfKeeps ==
    ASSUME ReposInv, NEW w \in Workers, CopyDefault(w) \/ ReadOwnSection(w)
    PROVE  ReposInv'
<1> USE DEF ReposInv
<1>1. UNCHANGED <<handlers_, made, store, repos_lock, conf_lock, init_lock, reload, request, handler>>
  BY DEF CopyDefault, ReadOwnSection, lockVars, reloadVars, tableVars
<1>2. CASE CopyDefault(w)
  <2>1. at[w] = "init" /\ at' = [at EXCEPT ![w] = "conf"] /\ UNCHANGED wanted
    BY <1>2 DEF CopyDefault, GoTo
  <2> QED BY <1>1, <2>1, MakingStep DEF ReposType, Making
<1>3. CASE ReadOwnSection(w)
  <2>1. /\ at[w] = "conf" /\ conf_lock = Nobody /\ at' = [at EXCEPT ![w] = "store"]
        /\ \E c : wanted' = [wanted EXCEPT ![w] = c]
    BY <1>3 DEF ReadOwnSection, GoTo, get_conf
  <2>2. reload # "walk"
    BY <2>1, RequestKinds DEF LocksHeld
  <2> QED BY <1>1, <2>1, <2>2, MakingStep DEF ReposType, Making
<1> QED BY <1>2, <1>3

(* StoreFactory returns to its caller, with init_lock_ released if it had  *)
(* been taken.                                                             *)
LEMMA ReturnKeeps ==
    ASSUME ReposInv, NEW w \in Workers, OpeningStore(w), NEW ok \in BOOLEAN, StoreReturns(w, ok),
           UNCHANGED <<handlers_, made, conf_lock, reload>>,
           init_lock' = IF at[w] \in {"store_conf", "store_init"} THEN Nobody ELSE init_lock,
           store' \in [StoreTypes -> Nat], \A t \in StoreTypes : store'[t] <= 1,
           store' = store \/ at[w] = "store_init"
    PROVE  ReposInv'
<1> USE DEF ReposInv
<1>1. PICK p \in {"start", "idle", "copy", "store"} :
         /\ at' = [at EXCEPT ![w] = p]
         /\ \/ UNCHANGED <<request, handler>> /\ (p = "start" <=> request[w].op = "event")
                                              /\ p # "idle" /\ UNCHANGED repos_lock
            \/ /\ request' = [request EXCEPT ![w] = Nothing]
               /\ handler' = [handler EXCEPT ![w] = NoHandler]
               /\ p = "idle"
               /\ repos_lock' = IF request[w].op = "event" THEN Nobody ELSE repos_lock
         /\ \E c : wanted' = [wanted EXCEPT ![w] = c]
  <2> DEFINE rest == Tail(wanted[w])
  <2> HIDE DEF rest
  <2>1. CASE request[w].op = "event" /\ ok
    BY <2>1 DEF StoreReturns, Answer, GoTo
  <2>2. CASE request[w].op = "event" /\ ~ok
    BY <2>2 DEF StoreReturns, Answer, GoTo
  <2>3. CASE request[w].op # "event"
    <3>1. PICK one \in BOOLEAN :
             IF one THEN Answer(w)
             ELSE /\ at' \in {[at EXCEPT ![w] = "copy"], [at EXCEPT ![w] = "store"]}
                  /\ wanted' = [wanted EXCEPT ![w] = Tail(wanted[w])]
                  /\ UNCHANGED <<request, handler>>
      BY <2>3 DEF StoreReturns, GoTo
    <3>2. UNCHANGED repos_lock
      BY <2>3 DEF StoreReturns
    <3> QED BY <2>3, <3>1, <3>2 DEF Answer, GoTo
  <2> QED BY <2>1, <2>2, <2>3
<1>2. at'[w] = p /\ \A u \in Workers : u # w => at'[u] = at[u]
  BY <1>1 DEF ReposType
<1>3. /\ request' \in [Workers -> Requests \cup {Nothing}]
      /\ DOMAIN handler' = Workers /\ DOMAIN wanted' = Workers
      /\ \A u \in Workers : u # w => request'[u] = request[u] /\ handler'[u] = handler[u]
                                     /\ wanted'[u] = wanted[u]
  BY <1>1 DEF ReposType
<1>4. ReposType'
  BY <1>1, <1>3 DEF ReposType
<1>5. /\ Making(w) <=> request[w].op = "event"
      /\ Making(w)' <=> p = "start"
      /\ \A u \in Workers : u # w => (Making(u)' <=> Making(u))
  BY <1>1, <1>2, <1>3, RequestKinds DEF Making, OpeningStore, ReposType
<1>6. LocksHeld'
  <2>1. \A u \in Workers : Making(u)' <=> repos_lock' = u
    <3>1. CASE p = "start"
      BY <1>1, <1>5, <3>1 DEF LocksHeld
    <3>2. CASE p # "start" /\ request[w].op = "event"
      BY <1>1, <1>5, <3>2, RequestKinds DEF LocksHeld
    <3>3. CASE p # "start" /\ request[w].op # "event"
      BY <1>1, <1>5, <3>3 DEF LocksHeld
    <3> QED BY <3>1, <3>2, <3>3
  <2>2. \A u \in Workers : at'[u] \in {"store_conf", "store_init"} <=> init_lock' = u
    BY <1>1, <1>2, RequestKinds DEF LocksHeld
  <2>3. \A u \in Workers : Making(u)' \/ at'[u] = "create" =>
           request'[u] \in {Event(i) : i \in Identities}
    BY <1>1, <1>2, <1>3, <1>5 DEF LocksHeld
  <2> QED BY <2>1, <2>2, <2>3 DEF LocksHeld
<1>7. StoreNotYet'
  BY <1>1, <1>2, <1>3 DEF StoreNotYet, LocksHeld
<1>8. FirstOnly'
  <2>1. \A u \in Workers : at'[u] = "insert" \/ at[u] = "insert" => u # w
    BY <1>1, <1>2 DEF OpeningStore
  <2>2. \A u \in Workers : Making(u)' => Making(u) /\ request'[u] = request[u]
    BY <1>1, <1>3, <1>5
  <2>3. \A u \in Workers : at'[u] = "insert" <=> at[u] = "insert"
    BY <1>2, <2>1
  <2> QED BY <1>3, <2>1, <2>2, <2>3 DEF FirstOnly
<1>9. InUse'
  BY <1>1, <1>2, <1>3 DEF InUse
<1>10. WalkBlocks'
  BY <1>1, <1>2, <1>5 DEF WalkBlocks, OpeningStore
<1> QED BY <1>4, <1>6, <1>7, <1>8, <1>9, <1>10

(* StoreFactory: a store is opened by the holder of init_lock_ who has     *)
(* seen that it is not open.                                               *)
LEMMA OpenStoreKeeps ==
    ASSUME ReposInv, NEW w \in Workers, OpenStore(w)
    PROVE  ReposInv'
<1> USE DEF ReposInv
<1> PICK type : type = Head(wanted[w])
  OBVIOUS
<1>1. UNCHANGED <<handlers_, made, conf_lock, reload>> /\ OpeningStore(w)
  BY DEF OpenStore, StoreFactory, StoreCheckAgain, StoreConf, StoreInit, lockVars, reloadVars,
     tableVars, OpeningStore
<1>2. store \in [StoreTypes -> Nat] /\ \A t \in StoreTypes : store[t] <= 1
  BY DEF ReposType, StoreNotYet
<1>3. CASE StoreFactory(w)
  <2>1. at[w] = "store" /\ UNCHANGED <<init_lock, store>>
    BY <1>3 DEF StoreFactory
  <2>2. ASSUME StoreReturns(w, store[type] > 0) PROVE ReposInv'
    <3>1. (store[type] > 0) \in BOOLEAN
      OBVIOUS
    <3> QED BY <1>1, <1>2, <2>1, <2>2, <3>1, ReturnKeeps
  <2>3. CASE at' = [at EXCEPT ![w] = "store_lock"] /\ UNCHANGED <<workVars, repos_lock>>
    <3>1. UNCHANGED <<request, handler, wanted, repos_lock>>
      BY <2>3 DEF workVars
    <3>2. CASE Making(w)
      <4>1. reload # "walk"
        BY <2>1, <3>2 DEF WalkBlocks
      <4> QED BY <1>1, <2>1, <2>3, <3>1, <3>2, <4>1, MakingStep DEF ReposType
    <3>3. CASE ~Making(w)
      <4>1. request[w].op # "event"
        BY <2>1, <3>3 DEF Making, OpeningStore
      <4> QED BY <1>1, <2>1, <2>3, <3>1, <3>3, <4>1, QuietStep DEF ReposType
    <3> QED BY <3>2, <3>3
  <2> QED BY <1>3, <2>2, <2>3 DEF StoreFactory, GoTo
<1>4. CASE StoreCheckAgain(w)
  <2>1. at[w] = "store_lock" /\ init_lock = Nobody /\ UNCHANGED store
    BY <1>4 DEF StoreCheckAgain
  <2>2. CASE store[type] > 0
    <3>1. StoreReturns(w, TRUE) /\ UNCHANGED init_lock
      BY <1>4, <2>2 DEF StoreCheckAgain
    <3> QED BY <1>1, <1>2, <2>1, <3>1, ReturnKeeps
  <2>3. CASE ~(store[type] > 0)
    <3>1. /\ init_lock' = w /\ at' = [at EXCEPT ![w] = "store_conf"]
          /\ UNCHANGED <<request, handler, wanted, repos_lock>>
      BY <1>4, <2>3 DEF StoreCheckAgain, GoTo, workVars
    <3>2. at'[w] = "store_conf" /\ \A u \in Workers : u # w => at'[u] = at[u]
      BY <3>1 DEF ReposType
    <3>3. \A u \in Workers : Making(u)' <=> Making(u)
      BY <2>1, <3>1, <3>2 DEF Making, OpeningStore
    <3>4. ReposType'
      BY <1>1, <2>1, <3>1 DEF ReposType
    <3>5. LocksHeld'
      BY <1>1, <2>1, <3>1, <3>2, <3>3, RequestKinds DEF LocksHeld
    <3>6. StoreNotYet'
      <4>1. type \in StoreTypes => store[type] = 0
        BY <1>2, <2>3
      <4> QED BY <2>1, <3>1, <3>2, <4>1, RequestKinds DEF StoreNotYet, LocksHeld
    <3>7. FirstOnly' /\ InUse'
      <4>1. \A u \in Workers : /\ at'[u] = "insert" <=> at[u] = "insert"
                               /\ at'[u] = "use" <=> at[u] = "use"
        BY <2>1, <3>2
      <4>2. FirstOnly'
        BY <1>1, <3>1, <3>3, <4>1 DEF FirstOnly
      <4>3. InUse'
        BY <1>1, <3>1, <4>1 DEF InUse
      <4> QED BY <4>2, <4>3
    <3>8. WalkBlocks'
      BY <1>1, <2>1, <3>2, <3>3 DEF WalkBlocks
    <3> QED BY <3>4, <3>5, <3>6, <3>7, <3>8
  <2> QED BY <2>2, <2>3
<1>5. CASE StoreConf(w)
  <2>1. /\ at[w] = "store_conf" /\ at' = [at EXCEPT ![w] = "store_init"]
        /\ UNCHANGED <<request, handler, wanted, repos_lock, init_lock, store>>
    BY <1>5 DEF StoreConf, GoTo, workVars, lockVars
  <2>2. at'[w] = "store_init" /\ \A u \in Workers : u # w => at'[u] = at[u]
    BY <2>1 DEF ReposType
  <2>3. \A u \in Workers : Making(u)' <=> Making(u)
    BY <2>1, <2>2 DEF Making, OpeningStore
  <2>4. ReposType'
    BY <1>1, <2>1 DEF ReposType
  <2>5. LocksHeld' /\ WalkBlocks'
    BY <1>1, <2>1, <2>2, <2>3 DEF LocksHeld, WalkBlocks
  <2>6. StoreNotYet'
    BY <2>1, <2>2 DEF StoreNotYet
  <2>7. FirstOnly' /\ InUse'
    <3>1. \A u \in Workers : /\ at'[u] = "insert" <=> at[u] = "insert"
                             /\ at'[u] = "use" <=> at[u] = "use"
      BY <2>1, <2>2
    <3>2. FirstOnly'
      BY <1>1, <2>1, <2>3, <3>1 DEF FirstOnly
    <3>3. InUse'
      BY <1>1, <2>1, <3>1 DEF InUse
    <3> QED BY <3>2, <3>3
  <2> QED BY <2>4, <2>5, <2>6, <2>7
<1>6. CASE StoreInit(w)
  <2>1. at[w] = "store_init" /\ init_lock' = Nobody
    BY <1>6 DEF StoreInit
  <2>2. PICK ok \in BOOLEAN :
           /\ StoreReturns(w, ok)
           /\ store' = store \/ store' = [store EXCEPT ![type] = @ + 1]
    BY <1>6 DEF StoreInit
  <2>3. store' \in [StoreTypes -> Nat] /\ \A t \in StoreTypes : store'[t] <= 1
    <3>1. type \in StoreTypes => store[type] = 0
      BY <2>1 DEF StoreNotYet
    <3>2. CASE store' = store
      BY <1>2, <3>2
    <3>3. CASE store' = [store EXCEPT ![type] = @ + 1]
      <4>1. CASE type \in StoreTypes
        <5>1. store' \in [StoreTypes -> Nat] /\ store'[type] = 1
              /\ \A t \in StoreTypes : t # type => store'[t] = store[t]
          BY <1>2, <3>1, <3>3, <4>1, CountOne
        <5> QED BY <1>2, <5>1
      <4>2. CASE type \notin StoreTypes
        <5>1. store' = store
          BY <1>2, <3>3, <4>2
        <5> QED BY <1>2, <5>1
      <4> QED BY <4>1, <4>2
    <3> QED BY <2>2, <3>2, <3>3
  <2> QED BY <1>1, <2>1, <2>2, <2>3, ReturnKeeps
<1> QED BY <1>3, <1>4, <1>5, <1>6 DEF OpenStore

(* The handler starts to work, and is put into the table.                  *)
LEMMA InsertKeeps ==
    ASSUME ReposInv, NEW w \in Workers, StartHandler(w) \/ InsertHandler(w)
    PROVE  ReposInv'
<1> USE DEF ReposInv
<1> PICK i : i = request[w].identity
  OBVIOUS
<1>1. UNCHANGED <<store, conf_lock, init_lock, reload, request, wanted>>
  BY DEF StartHandler, InsertHandler, lockVars, reloadVars
<1>2. /\ at[w] \in {"start", "insert"} /\ Making(w) /\ repos_lock = w
      /\ \A u \in Workers : u # w => ~Making(u)
  BY DEF StartHandler, InsertHandler, Making, LocksHeld
<1>3. i \in Identities /\ request[w] = Event(i) /\ handlers_[i] = NoHandler
      /\ request[w].op = "event"
  BY <1>2, RequestKinds DEF LocksHeld, FirstOnly
<1>4. \A u \in Workers : u # w => at[u] # "insert"
  BY <1>2 DEF Making
<1>5. CASE StartHandler(w)
  <2>1. /\ at[w] = "start" /\ at' = [at EXCEPT ![w] = "insert"]
        /\ made' = [made EXCEPT ![i] = @ + 1]
        /\ handler' = [handler EXCEPT ![w] = [identity |-> i, nth |-> made[i] + 1]]
        /\ UNCHANGED <<handlers_, repos_lock>>
    BY <1>5 DEF StartHandler, GoTo, lockVars
  <2>2. at'[w] = "insert" /\ \A u \in Workers : u # w => at'[u] = at[u]
    BY <2>1 DEF ReposType
  <2>3. made[i] = 0
    BY <1>3, <1>4, <2>1 DEF FirstOnly
  <2>4. made'[i] = 1 /\ made' \in [Identities -> Nat]
        /\ \A j \in Identities : j # i => made'[j] = made[j]
    <3>1. made \in [Identities -> Nat] /\ made' = [made EXCEPT ![i] = @ + 1]
      BY <2>1 DEF ReposType
    <3>2. i \in Identities /\ made[i] = 0
      BY <1>3, <2>3
    <3>3. /\ made' \in [Identities -> Nat] /\ made'[i] = 1
          /\ \A j \in Identities : j # i => made'[j] = made[j]
      BY <3>1, <3>2, CountOne
    <3> QED BY <3>3
  <2>5. handler'[w] = First(i) /\ DOMAIN handler' = Workers
        /\ \A u \in Workers : u # w => handler'[u] = handler[u]
    BY <2>1, <2>3 DEF First, ReposType
  <2>6. ReposType'
    BY <1>1, <2>1, <2>4, <2>5 DEF ReposType
  <2>7. \A u \in Workers : Making(u)' <=> Making(u)
    BY <1>1, <2>1, <2>2 DEF Making, OpeningStore
  <2>8. LocksHeld' /\ WalkBlocks'
    BY <1>1, <2>1, <2>2, <2>7 DEF LocksHeld, WalkBlocks
  <2>9. StoreNotYet' /\ InUse'
    BY <1>1, <2>1, <2>2, <2>5 DEF StoreNotYet, InUse
  <2>10. FirstOnly'
    <3>1. \A j \in Identities : handlers_[j] # NoHandler => j # i
      BY <1>3
    <3>2. \A j \in Identities : handlers_'[j] # NoHandler =>
                                   handlers_'[j] = First(j) /\ made'[j] = 1
      BY <2>1, <2>4, <3>1 DEF FirstOnly
    <3>3. \A j \in Identities : handlers_'[j] = NoHandler =>
             made'[j] = 0 \/ \E u \in Workers : at'[u] = "insert" /\ request'[u].identity = j
      <4>1. \A j \in Identities : handlers_[j] = NoHandler => made[j] = 0
        BY <1>4, <2>1 DEF FirstOnly
      <4> QED BY <1>1, <1>3, <2>1, <2>2, <2>4, <4>1
    <3>4. \A u \in Workers : Making(u)' => handlers_'[request'[u].identity] = NoHandler
      BY <1>1, <2>1, <2>7 DEF FirstOnly
    <3>5. \A u \in Workers : at'[u] = "insert" =>
             handler'[u] = First(request'[u].identity) /\ made'[request'[u].identity] = 1
      BY <1>1, <1>4, <2>2, <2>4, <2>5
    <3> QED BY <3>2, <3>3, <3>4, <3>5 DEF FirstOnly
  <2> QED BY <2>6, <2>8, <2>9, <2>10
<1>6. CASE InsertHandler(w)
  <2>1. /\ at[w] = "insert" /\ at' = [at EXCEPT ![w] = "use"] /\ repos_lock' = Nobody
        /\ handlers_' = [handlers_ EXCEPT ![i] = handler[w]]
        /\ UNCHANGED <<made, handler>>
    BY <1>6 DEF InsertHandler, GoTo
  <2>2. at'[w] = "use" /\ \A u \in Workers : u # w => at'[u] = at[u]
    BY <2>1 DEF ReposType
  <2>3. handler[w] = First(i) /\ made[i] = 1
    BY <2>1 DEF FirstOnly
  <2>4. handlers_'[i] = First(i) /\ DOMAIN handlers_' = Identities
        /\ \A j \in Identities : j # i => handlers_'[j] = handlers_[j]
    BY <1>3, <2>1, <2>3 DEF ReposType
  <2>5. ReposType'
    BY <1>1, <2>1, <2>4 DEF ReposType
  <2>6. \A u \in Workers : ~Making(u)'
    BY <1>1, <1>2, <2>2 DEF Making, OpeningStore
  <2>7. LocksHeld' /\ WalkBlocks'
    BY <1>1, <2>1, <2>2, <2>6, RequestKinds DEF LocksHeld, WalkBlocks
  <2>8. StoreNotYet'
    BY <1>1, <2>1, <2>2 DEF StoreNotYet
  <2>9. FirstOnly'
    <3>1. \A j \in Identities : handlers_'[j] # NoHandler =>
                                   handlers_'[j] = First(j) /\ made'[j] = 1
      BY <2>1, <2>3, <2>4 DEF FirstOnly
    <3>2. \A j \in Identities : handlers_'[j] = NoHandler => made'[j] = 0
      <4>1. \A j \in Identities : handlers_'[j] = NoHandler => j # i /\ handlers_[j] = NoHandler
        BY <1>3, <2>4, RequestKinds
      <4>2. \A u \in Workers : at[u] = "insert" => request[u].identity = i
        BY <1>4
      <4>3. \A j \in Identities : handlers_[j] = NoHandler => made[j] = 0 \/ j = i
        BY <4>2 DEF FirstOnly
      <4> QED BY <2>1, <4>1, <4>3
    <3>3. \A u \in Workers : at'[u] # "insert"
      BY <1>4, <2>2
    <3> QED BY <2>6, <3>1, <3>2, <3>3 DEF FirstOnly
  <2>10. InUse'
    <3> SUFFICES ASSUME NEW u \in Workers, at'[u] = "use"
                 PROVE  \E j \in Identities :
                           /\ handler'[u] = First(j) /\ handlers_'[j] = First(j)
                           /\ request'[u].op = "event" => request'[u].identity = j
      BY DEF InUse
    <3>1. CASE u = w
      BY <1>1, <1>3, <2>1, <2>3, <2>4, <3>1
    <3>2. CASE u # w
      <4>1. PICK j \in Identities : /\ handler[u] = First(j) /\ handlers_[j] = First(j)
                                    /\ request[u].op = "event" => request[u].identity = j
        BY <2>2, <3>2 DEF InUse
      <4>2. j # i
        BY <1>3, <4>1, RequestKinds
      <4> QED BY <1>1, <2>1, <2>4, <4>1, <4>2
    <3> QED BY <3>1, <3>2
  <2> QED BY <2>5, <2>7, <2>8, <2>9, <2>10
<1> QED BY <1>5, <1>6

(* The reload: it has the lock of ConfHelper from the swap to the end, and *)
(* begins to walk when nobody makes a handler.                             *)
LEMMA ReloadKeeps ==
    ASSUME ReposInv, LoadFile \/ update_runtime_conf
    PROVE  ReposInv'
<1> USE DEF ReposInv
<1>1. UNCHANGED <<handlers_, made, store, at, request, handler, wanted, repos_lock, init_lock>>
  BY DEF LoadFile, update_runtime_conf, LoadFails, SwapConf, UpdateDefaults, UpdateDefault,
     CopyHandlers, WalkHandlers, ReloadEnds, lockVars, tableVars, workVars
<1>2. /\ conf_lock' = Reload <=> reload' \notin {"idle", "load", "unreadable"}
      /\ reload' = "walk" => reload = "walk" \/ repos_lock = Nobody
  <2>1. CASE LoadFile
    BY <2>1, RequestKinds DEF LoadFile, LocksHeld, lockVars
  <2>2. CASE LoadFails
    BY <2>2, RequestKinds DEF LoadFails, LocksHeld, lockVars
  <2>3. CASE SwapConf
    BY <2>3 DEF SwapConf
  <2>4. CASE UpdateDefaults
    <3>1. /\ reload \in {"event_linger", "event_step", "additional_process_step_size"}
          /\ reload' \in {"event_step", "additional_process_step_size", "handlers"}
          /\ UNCHANGED conf_lock
      BY <2>4 DEF UpdateDefaults, UpdateDefault, lockVars
    <3> QED BY <3>1 DEF LocksHeld
  <2>5. CASE CopyHandlers
    BY <2>5 DEF CopyHandlers, LocksHeld, lockVars
  <2>6. CASE WalkHandlers
    BY <2>6 DEF WalkHandlers, LocksHeld, lockVars
  <2>7. CASE ReloadEnds
    BY <2>7, RequestKinds DEF ReloadEnds
  <2> QED BY <2>1, <2>2, <2>3, <2>4, <2>5, <2>6, <2>7 DEF update_runtime_conf
<1>3. \A w \in Workers : Making(w)' <=> Making(w)
  BY <1>1 DEF Making, OpeningStore
<1>4. ReposType' /\ StoreNotYet' /\ InUse'
  BY <1>1 DEF ReposType, StoreNotYet, InUse
<1>5. LocksHeld' /\ FirstOnly'
  BY <1>1, <1>2, <1>3 DEF LocksHeld, FirstOnly
<1>6. WalkBlocks'
  BY <1>1, <1>2, <1>3, RequestKinds DEF WalkBlocks, LocksHeld
<1> QED BY <1>4, <1>5, <1>6

LEMMA NextRepos == ReposInv /\ [Next]_vars => ReposInv'
<1> SUFFICES ASSUME ReposInv, [Next]_vars PROVE ReposInv'
  OBVIOUS
<1>1. ASSUME NEW w \in Workers, TakeRequest(w) \/ WorkerStep(w) PROVE ReposInv'
  BY <1>1, LookupKeeps, DoubleCheckKeeps, ReadConfKeeps, OpenStoreKeeps, InsertKeeps
     DEF WorkerStep, Create
<1>2. CASE UNCHANGED vars
  <2>1. UNCHANGED <<handlers_, made, store, at, request, handler, wanted, repos_lock, conf_lock,
                    init_lock, reload>>
    BY <1>2 DEF vars, lockVars, reloadVars, tableVars, workVars
  <2>2. \A w \in Workers : Making(w)' <=> Making(w)
    BY <2>1 DEF Making, OpeningStore
  <2>3. ReposType' /\ StoreNotYet' /\ InUse'
    BY <2>1 DEF ReposInv, ReposType, StoreNotYet, InUse
  <2>4. LocksHeld' /\ FirstOnly' /\ WalkBlocks'
    BY <2>1, <2>2 DEF ReposInv, LocksHeld, FirstOnly, WalkBlocks
  <2> QED BY <2>3, <2>4 DEF ReposInv
<1> QED BY <1>1, <1>2, ReloadKeeps DEF Next

(* An identity never gets two handlers, every request is given to the one  *)
(* in the table, and no store is opened twice, however the threads of the  *)
(* executor race each other (find_create_event_handler, StoreFactory).     *)
THEOREM OneHandlerEach == Spec => []OneHandler
<1>1. ReposInv => OneHandler
  <2> SUFFICES ASSUME ReposInv PROVE OneHandler
    OBVIOUS
  <2> USE DEF ReposInv
  <2>1. \A i \in Identities : made[i] <= 1
    <3> SUFFICES ASSUME NEW i \in Identities PROVE made[i] <= 1
      OBVIOUS
    <3>1. CASE handlers_[i] # NoHandler
      BY <3>1 DEF FirstOnly
    <3>2. CASE handlers_[i] = NoHandler
      BY <3>2 DEF FirstOnly
    <3> QED BY <3>1, <3>2
  <2>2. \A w \in Workers : at[w] = "use" =>
           /\ handler[w] = handlers_[handler[w].identity]
           /\ request[w].op = "event" => handler[w].identity = request[w].identity
    BY RequestKinds DEF InUse
  <2> QED BY <2>1, <2>2 DEF OneHandler, StoreNotYet
<1> QED BY <1>1, InitRepos, NextRepos, PTL DEF Spec

(* The walk of a reload through the table, without lock_, meets no thread  *)
(* that changes it (module_runtime, find_create_event_handler).            *)
THEOREM WalkIsUndisturbed == Spec => []WalkUndisturbed
<1>1. ReposInv => WalkUndisturbed
  BY DEF ReposInv, WalkBlocks, WalkUndisturbed, Inserting, Making
<1> QED BY <1>1, InitRepos, NextRepos, PTL DEF Spec

-----------------------------------------------------------------------------
(* The configuration of the handlers, for files that are WellKept.  *)

(* Handler i of a service has the linger of the sections that have         *)
(* the service's name, or of those that have both of its names.            *)
Linger(section, c) == section.event_linger # {} => c.event_linger_ \in section.event_linger

AsWalked(i, c) ==
    \A s \in Range(conf_ptr_) : s.service_name = ServiceOf[i] => Linger(s, c)

AsRead(i, c) ==
    \A s \in Range(conf_ptr_) :
        s.service_name = ServiceOf[i] /\ s.instance_name = ServiceOf[i] => Linger(s, c)

IsConf(c) == DOMAIN c = {"event_linger_", "event_step_", "additional_process_step_size_",
                         "store_type_"}

ConfType ==
    /\ walked \in Nat /\ reloads \in Nat
    /\ born \in [Identities -> Nat] /\ \A i \in Identities : born[i] <= reloads
    /\ conf_ptr_ \in Confs \cup {InitConf} /\ loaded \in Confs \cup {InitConf}
    /\ DOMAIN conf_ = Identities /\ \A i \in Identities : IsConf(conf_[i])
    /\ DOMAIN making = Workers /\ \A w \in Workers : IsConf(making[w])
    /\ IsConf(default_conf_)

(* Between reloads: as the section says, by service_name for a handler     *)
(* that a reload has met.                                                  *)
HandlersCurrent ==
    conf_lock = Nobody => \A i \in Identities : handlers_[i] # NoHandler =>
        /\ AsRead(i, conf_[i])
        /\ born[i] < reloads => AsWalked(i, conf_[i])

(* The handlers that the walk has passed.                                  *)
WalkedCurrent ==
    reload = "walk" => \A i \in Identities : handlers_[i] # NoHandler /\ i <= walked =>
        AsWalked(i, conf_[i])

HasRead(w) == Making(w) /\ at[w] \notin {"init", "conf"}

(* A thread that makes a handler and has read its section: the file is     *)
(* still the same, or a reload has begun that has not yet walked.          *)
ReadersCurrent ==
    \A w \in Workers : HasRead(w) =>
        \/ conf_lock = Reload /\ reload # "walk" /\ born[request[w].identity] < reloads
        \/ born[request[w].identity] = reloads /\ AsRead(request[w].identity, making[w])

ConfInv == ConfType /\ HandlersCurrent /\ WalkedCurrent /\ ReadersCurrent

-----------------------------------------------------------------------------
(* In a list that is well kept, a loop that looks for the name of a        *)
(* section finds that section.                                             *)
LEMMA NamedFinds ==
    ASSUME NEW conf \in Seq(Sections), WellKept(conf), NEW m \in DOMAIN conf,
           NEW key \in {"service_name", "instance_name"}, conf[m][key] \in Services
    PROVE  /\ Named(conf, key, conf[m][key]) # {}
           /\ The(Named(conf, key, conf[m][key])) = conf[m]
<1>1. \A n \in DOMAIN conf : conf[n][key] = conf[m][key] => n = m
  BY DEF WellKept
<1>2. DOMAIN conf = 1 .. Len(conf) /\ Len(conf) \in Nat
  OBVIOUS
<1>3. \A k \in 1 .. (m - 1) : k \in DOMAIN conf /\ k # m
  BY <1>2
<1>4. \A k \in 1 .. (m - 1) : conf[k][key] # conf[m][key]
  BY <1>1, <1>3
<1>5. conf[m] \in Named(conf, key, conf[m][key])
  BY <1>4 DEF Named
<1>6. \A s \in Named(conf, key, conf[m][key]) : s = conf[m]
  BY <1>1 DEF Named
<1> QED BY <1>5, <1>6 DEF The

(* What a handler takes from a section that asks for a positive linger,    *)
(* when it is made and at a reload.                                        *)
LEMMA TakesLinger ==
    ASSUME NEW section, \A v \in section.event_linger : v > 0
    PROVE  /\ \A c, g : Linger(section, Overridden(c, section, g))
           /\ \A c : IsConf(c) => Linger(section, Refreshed(c, section))
<1> SUFFICES ASSUME section.event_linger # {}
             PROVE  /\ \A c, g : Overridden(c, section, g).event_linger_ \in section.event_linger
                    /\ \A c : IsConf(c) =>
                          Refreshed(c, section).event_linger_ \in section.event_linger
  BY DEF Linger
<1> PICK v : v = The(section.event_linger)
  OBVIOUS
<1>1. v \in section.event_linger /\ v > 0
  BY DEF The
<1>2. \A g : lookupValue(section.event_linger, g) = v
  BY DEF lookupValue
<1>3. \A old : Positive(v, old) = v
  BY <1>1 DEF Positive
<1>4. \A g : ReadInts(section, g)[1] = v
  BY <1>2 DEF ReadInts
<1>5. \A c, g : Overridden(c, section, g).event_linger_ = v
  BY <1>3, <1>4 DEF Overridden
<1>6. \A old : Update(section.event_linger, old) = v
  BY <1>2, <1>3 DEF Update
<1>7. \A c : IsConf(c) => Refreshed(c, section).event_linger_ = v
  BY <1>6 DEF Refreshed, IsConf
<1> QED BY <1>1, <1>5, <1>7

LEMMA StaysConf ==
    /\ \A c, section, g : IsConf(Overridden(c, section, g))
    /\ \A c, section : IsConf(c) => IsConf(Refreshed(c, section))
    /\ \A c, s : IsConf(c) => IsConf(UpdatedConf(c, s))
    /\ IsConf(InitDefault)
<1>1. \A c, section, g : IsConf(Overridden(c, section, g))
  BY DEF IsConf, Overridden
<1>2. \A c, section : IsConf(c) => IsConf(Refreshed(c, section))
  BY DEF IsConf, Refreshed
<1>3. \A c, s : IsConf(c) => IsConf(UpdatedConf(c, s))
  BY <1>2 DEF UpdatedConf
<1>4. IsConf(InitDefault)
  BY DEF IsConf, InitDefault
<1> QED BY <1>1, <1>2, <1>3, <1>4

(* The sections of a service in the list that is loaded.                   *)
LEMMA SectionsFound ==
    ASSUME FilesWellKept, ConfType, NEW i \in Identities,
           NEW s \in Range(conf_ptr_), s.service_name = ServiceOf[i]
    PROVE  /\ \A v \in s.event_linger : v > 0
           /\ Named(conf_ptr_, "service_name", ServiceOf[i]) # {}
           /\ The(Named(conf_ptr_, "service_name", ServiceOf[i])) = s
           /\ s.instance_name = ServiceOf[i] =>
                 OwnSection(ServiceOf[i]) # {} /\ The(OwnSection(ServiceOf[i])) = s
<1>1. conf_ptr_ \in Seq(Sections) /\ WellKept(conf_ptr_)
  BY ReposAssumption DEF FilesWellKept, ConfType
<1>2. PICK m \in DOMAIN conf_ptr_ : s = conf_ptr_[m]
  BY DEF Range
<1>3. ServiceOf[i] \in Services
  BY DEF Services, Range, Identities
<1>4. \A v \in s.event_linger : v > 0
  BY <1>1, <1>2, <1>3 DEF WellKept
<1>5. s["service_name"] = ServiceOf[i] /\ (s.instance_name = s["instance_name"])
  OBVIOUS
<1>6. /\ Named(conf_ptr_, "service_name", ServiceOf[i]) # {}
      /\ The(Named(conf_ptr_, "service_name", ServiceOf[i])) = s
  BY <1>1, <1>2, <1>3, <1>5, NamedFinds
<1>7. s.instance_name = ServiceOf[i] =>
         OwnSection(ServiceOf[i]) # {} /\ The(OwnSection(ServiceOf[i])) = s
  BY <1>1, <1>2, <1>3, <1>5, NamedFinds DEF OwnSection
<1> QED BY <1>4, <1>6, <1>7

(* The walk goes to the next handler of the table.                         *)
LEMMA NextInTable ==
    ASSUME ConfType, Ahead # {}
    PROVE  /\ Min(Ahead) \in Identities /\ Min(Ahead) > walked
           /\ handlers_[Min(Ahead)] # NoHandler
           /\ \A j \in Identities : handlers_[j] # NoHandler /\ j <= Min(Ahead) =>
                 j = Min(Ahead) \/ j <= walked
<1>1. walked \in Nat /\ Ahead \subseteq Identities /\ Identities \subseteq Nat
  BY DEF ConfType, Ahead, Identities
<1>2. PICK t \in Ahead : \A u \in Ahead : t <= u
  <2> DEFINE less == OpToRel(<, Nat)
  <2>1. IsWellFoundedOn(less, Nat)
    BY NatLessThanWellFounded
  <2>2. PICK t \in Ahead : \A u \in Ahead : ~(<<u, t>> \in less)
    <3> HIDE DEF less
    <3> QED BY <1>1, <2>1, WFMin
  <2>3. \A u \in Ahead : ~(u < t)
    BY <1>1, <2>2 DEF OpToRel
  <2> QED BY <1>1, <2>3
<1>3. Min(Ahead) \in Ahead /\ \A u \in Ahead : Min(Ahead) <= u
  BY <1>2 DEF Min
<1>4. Min(Ahead) \in Identities /\ Min(Ahead) > walked /\ handlers_[Min(Ahead)] # NoHandler
  BY <1>3 DEF Ahead
<1>5. ASSUME NEW j \in Identities, handlers_[j] # NoHandler, j <= Min(Ahead), ~(j <= walked)
      PROVE  j = Min(Ahead)
  <2>1. j \in Ahead
    BY <1>1, <1>5 DEF Ahead
  <2>2. Min(Ahead) <= j /\ j \in Nat /\ Min(Ahead) \in Nat
    BY <1>1, <1>3, <2>1
  <2> QED BY <1>5, <2>2
<1> QED BY <1>4, <1>5

LEMMA InitConfInv == Init => ConfInv
<1> SUFFICES ASSUME Init PROVE ConfInv
  OBVIOUS
<1>1. \A w \in Workers : at[w] = "idle"
  BY DEF Init
<1>2. \A i \in Identities : handlers_[i] = NoHandler /\ born[i] = 0
  BY DEF Init
<1>3. ConfType
  BY <1>2, StaysConf DEF Init, ConfType
<1>4. HandlersCurrent /\ WalkedCurrent
  BY <1>2 DEF HandlersCurrent, WalkedCurrent
<1>5. ReadersCurrent
  BY <1>1 DEF ReadersCurrent, HasRead, Making, OpeningStore
<1> QED BY <1>3, <1>4, <1>5 DEF ConfInv

(* A step that leaves the table, the file and the handlers being made as   *)
(* they are.                                                               *)
LEMMA ConfUntouched ==
    ASSUME ConfInv,
           UNCHANGED <<handlers_, conf_, born, conf_ptr_, default_conf_, loaded, walked, reloads,
                       reload, conf_lock>>,
           DOMAIN making' = Workers, \A w \in Workers : IsConf(making'[w]),
           \A w \in Workers : HasRead(w)' =>
               HasRead(w) /\ request'[w] = request[w] /\ making'[w] = making[w]
    PROVE  ConfInv'
<1> USE DEF ConfInv
<1>1. ConfType'
  BY DEF ConfType
<1>2. HandlersCurrent' /\ WalkedCurrent'
  BY DEF HandlersCurrent, WalkedCurrent, AsRead, AsWalked
<1>3. ReadersCurrent'
  BY DEF ReadersCurrent, AsRead
<1> QED BY <1>1, <1>2, <1>3

(* What a thread does outside EventHandler::init and the table.            *)
LEMMA WorkKeepsConf ==
    ASSUME ReposInv, ConfInv, NEW w \in Workers,
           \/ TakeRequest(w) \/ CopyTable(w) \/ FindHandler(w) \/ FindAnyHandler(w)
           \/ UseHandler(w) \/ DoubleCheck(w) \/ CopyDefault(w) \/ OpenStore(w) \/ StartHandler(w)
    PROVE  ConfInv'
<1>1. UNCHANGED <<handlers_, conf_, born, conf_ptr_, default_conf_, loaded, walked, reloads,
                  reload, conf_lock>>
  BY DEF TakeRequest, CopyTable, FindHandler, FindAnyHandler, UseHandler, DoubleCheck, CopyDefault,
     OpenStore, StoreFactory, StoreCheckAgain, StoreConf, StoreInit, StartHandler, lockVars,
     confVars, reloadVars, tableVars
<1>2. /\ DOMAIN making = Workers /\ \A u \in Workers : IsConf(making[u])
      /\ IsConf(default_conf_) /\ IsConf(InitDefault)
  BY StaysConf DEF ConfInv, ConfType
<1>3. /\ DOMAIN at = Workers /\ DOMAIN request = Workers
  BY DEF ReposInv, ReposType
<1>4. SUFFICES /\ \/ making' = making
                  \/ \E c : IsConf(c) /\ making' = [making EXCEPT ![w] = c]
               /\ \A u \in Workers : u # w => at'[u] = at[u] /\ request'[u] = request[u]
               /\ HasRead(w)' => HasRead(w) /\ request'[w] = request[w] /\ making'[w] = making[w]
  <2>1. DOMAIN making' = Workers /\ \A u \in Workers : IsConf(making'[u])
    BY <1>2, <1>4
  <2>2. \A u \in Workers : u # w => making'[u] = making[u]
    BY <1>2, <1>4
  <2>3. \A u \in Workers : u # w => (HasRead(u)' <=> HasRead(u))
    BY <1>4 DEF HasRead, Making, OpeningStore
  <2>4. \A u \in Workers : HasRead(u)' =>
               HasRead(u) /\ request'[u] = request[u] /\ making'[u] = making[u]
    BY <1>4, <2>2, <2>3
  <2> QED BY <1>1, <2>1, <2>4, ConfUntouched
<1>5. ASSUME Answer(w) PROVE /\ \E c : IsConf(c) /\ making' = [making EXCEPT ![w] = c]
                             /\ \A u \in Workers : u # w => at'[u] = at[u] /\ request'[u] = request[u]
                             /\ ~HasRead(w)'
  BY <1>2, <1>3, <1>5 DEF Answer, GoTo, HasRead, Making, OpeningStore
<1>6. CASE TakeRequest(w)
  <2>1. making' = making
    BY <1>6 DEF TakeRequest
  <2>2. PICK r \in Requests : /\ request' = [request EXCEPT ![w] = r]
                              /\ \/ r.op # "event" /\ at' = [at EXCEPT ![w] = "store"]
                                 \/ at' = [at EXCEPT ![w] = "copy"]
    BY <1>6 DEF TakeRequest, GoTo
  <2> QED BY <1>3, <2>1, <2>2 DEF HasRead, Making, OpeningStore
<1>7. CASE CopyTable(w)
  BY <1>3, <1>7 DEF CopyTable, GoTo, workVars, HasRead, Making, OpeningStore
<1>8. CASE FindHandler(w)
  <2>1. UNCHANGED <<making, request>>
    BY <1>8 DEF FindHandler
  <2>2. PICK p \in {"create", "use"} : at' = [at EXCEPT ![w] = p]
    BY <1>8 DEF FindHandler, GoTo
  <2> QED BY <1>3, <2>1, <2>2 DEF HasRead, Making, OpeningStore
<1>9. CASE FindAnyHandler(w)
  <2>1. CASE Answer(w)
    BY <1>5, <2>1
  <2>2. CASE ~Answer(w)
    <3>1. UNCHANGED <<making, request>> /\ at' = [at EXCEPT ![w] = "use"]
      BY <1>9, <2>2 DEF FindAnyHandler, GoTo
    <3> QED BY <1>3, <3>1 DEF HasRead, Making, OpeningStore
  <2> QED BY <2>1, <2>2
<1>10. CASE UseHandler(w)
  BY <1>5, <1>10 DEF UseHandler
<1>11. CASE DoubleCheck(w)
  <2>1. UNCHANGED <<making, request>>
    BY <1>11 DEF DoubleCheck
  <2>2. PICK p \in {"init", "use"} : at' = [at EXCEPT ![w] = p]
    BY <1>11 DEF DoubleCheck, GoTo
  <2> QED BY <1>3, <2>1, <2>2 DEF HasRead, Making, OpeningStore
<1>12. CASE CopyDefault(w)
  BY <1>2, <1>3, <1>12 DEF CopyDefault, GoTo, HasRead
<1>13. CASE OpenStore(w)
  <2>1. OpeningStore(w)
    BY <1>13 DEF OpenStore, StoreFactory, StoreCheckAgain, StoreConf, StoreInit, OpeningStore
  <2>2. CASE Answer(w)
    BY <1>5, <2>2
  <2> DEFINE GoesOn ==
        /\ UNCHANGED <<making, request>>
        /\ \E p \in {"start", "copy", "store", "store_lock", "store_conf", "store_init"} :
              at' = [at EXCEPT ![w] = p] /\ (p = "start" => request[w].op = "event")
  <2>3. ASSUME ~Answer(w) PROVE GoesOn
    <3>1. ASSUME NEW ok, StoreReturns(w, ok) PROVE GoesOn
      BY <2>3, <3>1 DEF StoreReturns, GoTo
    <3>2. CASE StoreFactory(w)
      BY <3>1, <3>2 DEF StoreFactory, GoTo, workVars
    <3>3. CASE StoreCheckAgain(w)
      BY <3>1, <3>3 DEF StoreCheckAgain, GoTo, workVars
    <3>4. CASE StoreConf(w)
      BY <3>4 DEF StoreConf, GoTo, workVars
    <3>5. CASE StoreInit(w)
      BY <3>1, <3>5 DEF StoreInit
    <3> QED BY <1>13, <3>2, <3>3, <3>4, <3>5 DEF OpenStore
  <2>4. ~Answer(w) /\ HasRead(w)' => HasRead(w)
    BY <1>3, <2>1, <2>3 DEF HasRead, Making, OpeningStore
  <2> QED BY <1>3, <2>2, <2>3, <2>4
<1>14. CASE StartHandler(w)
  BY <1>3, <1>14 DEF StartHandler, GoTo, HasRead, Making
<1> QED BY <1>6, <1>7, <1>8, <1>9, <1>10, <1>11, <1>12, <1>13, <1>14

(* EventHandler::init reads the section of the service, while no reload is *)
(* between the swap and the end.                                           *)
LEMMA ReadSectionKeepsConf ==
    ASSUME FilesWellKept, ReposInv, ConfInv, NEW w \in Workers, ReadOwnSection(w)
    PROVE  ConfInv'
<1> USE DEF ReposInv, ConfInv
<1> PICK i : i = request[w].identity
  OBVIOUS
<1>1. /\ at[w] = "conf" /\ conf_lock = Nobody /\ at' = [at EXCEPT ![w] = "store"]
      /\ born' = [born EXCEPT ![i] = reloads]
      /\ UNCHANGED <<handlers_, conf_, conf_ptr_, default_conf_, loaded, walked, reloads, reload,
                     conf_lock, request>>
  BY DEF ReadOwnSection, get_conf, GoTo, lockVars, confVars, reloadVars
<1>2. Making(w) /\ \A u \in Workers : u # w => ~Making(u)
  BY <1>1 DEF Making, LocksHeld
<1>3. i \in Identities /\ handlers_[i] = NoHandler /\ request[w].op = "event"
  BY <1>2, RequestKinds DEF LocksHeld, FirstOnly
<1>4. PICK c : /\ making' = [making EXCEPT ![w] = c]
               /\ c \in IF OwnSection(ServiceOf[i]) = {} THEN {making[w]}
                        ELSE {Overridden(making[w], The(OwnSection(ServiceOf[i])), g) : g \in Garbage}
  BY DEF ReadOwnSection
<1>5. IsConf(c)
  BY <1>4, StaysConf DEF ConfType
<1>6. AsRead(i, c)
  <2> SUFFICES ASSUME NEW s \in Range(conf_ptr_), s.service_name = ServiceOf[i],
                      s.instance_name = ServiceOf[i]
               PROVE  Linger(s, c)
    BY DEF AsRead
  <2>1. /\ \A v \in s.event_linger : v > 0
        /\ OwnSection(ServiceOf[i]) # {} /\ The(OwnSection(ServiceOf[i])) = s
    BY <1>3, SectionsFound
  <2>2. PICK g \in Garbage : c = Overridden(making[w], s, g)
    BY <1>4, <2>1
  <2> QED BY <2>1, <2>2, TakesLinger
<1>7. /\ making'[w] = c /\ DOMAIN making' = Workers
      /\ \A u \in Workers : IsConf(making'[u])
  BY <1>4, <1>5 DEF ConfType
<1>8. born'[i] = reloads /\ \A j \in Identities : j # i => born'[j] = born[j]
  BY <1>1, <1>3 DEF ConfType
<1>9. ConfType'
  BY <1>1, <1>3, <1>7, <1>8 DEF ConfType
<1>10. HandlersCurrent'
  BY <1>1, <1>3, <1>8 DEF HandlersCurrent, AsRead, AsWalked
<1>11. WalkedCurrent'
  BY <1>1 DEF WalkedCurrent, AsWalked
<1>12. ReadersCurrent'
  <2>1. \A u \in Workers : HasRead(u)' => u = w
    BY <1>1, <1>2 DEF HasRead, Making, OpeningStore, ReposType
  <2>2. AsRead(i, c)'
    BY <1>1, <1>6 DEF AsRead
  <2> QED BY <1>1, <1>7, <1>8, <2>1, <2>2 DEF ReadersCurrent
<1> QED BY <1>9, <1>10, <1>11, <1>12

(* A new handler in the table has read the file that is loaded, unless a   *)
(* reload is under way that will come to it.                               *)
LEMMA InsertKeepsConf ==
    ASSUME ReposInv, ConfInv, NEW w \in Workers, InsertHandler(w)
    PROVE  ConfInv'
<1> USE DEF ReposInv, ConfInv
<1> PICK i : i = request[w].identity
  OBVIOUS
<1>1. /\ at[w] = "insert" /\ at' = [at EXCEPT ![w] = "use"]
      /\ conf_' = [conf_ EXCEPT ![i] = making[w]]
      /\ handlers_' = [handlers_ EXCEPT ![i] = handler[w]]
      /\ making' = [making EXCEPT ![w] = InitDefault]
      /\ UNCHANGED <<born, conf_ptr_, default_conf_, loaded, walked, reloads, reload, conf_lock,
                     request>>
  BY DEF InsertHandler, GoTo, confVars, reloadVars
<1>2. HasRead(w) /\ Making(w) /\ \A u \in Workers : u # w => ~Making(u)
  BY <1>1 DEF HasRead, Making, LocksHeld
<1>3. i \in Identities
  BY <1>2, RequestKinds DEF LocksHeld
<1>4. reload # "walk"
  BY <1>1, <1>2 DEF WalkBlocks
<1>5. conf_lock = Nobody => born[i] = reloads /\ AsRead(i, making[w])
  BY <1>2, RequestKinds DEF ReadersCurrent
<1>6. /\ conf_'[i] = making[w] /\ DOMAIN conf_' = Identities
      /\ \A j \in Identities : j # i => conf_'[j] = conf_[j] /\ handlers_'[j] = handlers_[j]
      /\ DOMAIN making' = Workers
      /\ \A u \in Workers : making'[u] = making[u] \/ making'[u] = InitDefault
  BY <1>1, <1>3 DEF ConfType, ReposType
<1>7. ConfType'
  <2>1. \A j \in Identities : IsConf(conf_'[j])
    BY <1>3, <1>6 DEF ConfType
  <2>2. \A u \in Workers : IsConf(making'[u])
    BY <1>6, StaysConf DEF ConfType
  <2> QED BY <1>1, <1>6, <2>1, <2>2 DEF ConfType
<1>8. HandlersCurrent'
  <2>1. ASSUME conf_lock = Nobody, NEW j \in Identities, handlers_'[j] # NoHandler
        PROVE  AsRead(j, conf_'[j]) /\ (born[j] < reloads => AsWalked(j, conf_'[j]))
    <3>1. CASE j = i
      <4>1. ~(born[i] < reloads)
        BY <1>3, <1>5, <2>1 DEF ConfType
      <4> QED BY <1>5, <1>6, <2>1, <3>1, <4>1
    <3>2. CASE j # i
      BY <1>6, <2>1, <3>2 DEF HandlersCurrent
    <3> QED BY <3>1, <3>2
  <2> QED BY <1>1, <2>1 DEF HandlersCurrent, AsRead, AsWalked
<1>9. WalkedCurrent'
  BY <1>1, <1>4 DEF WalkedCurrent
<1>10. ReadersCurrent'
  <2>1. \A u \in Workers : ~HasRead(u)'
    BY <1>1, <1>2 DEF HasRead, Making, OpeningStore, ReposType
  <2> QED BY <2>1 DEF ReadersCurrent
<1> QED BY <1>7, <1>8, <1>9, <1>10

(* The reload: the swap makes every handler one that the walk must come    *)
(* to, and the walk comes to all of them.                                  *)
LEMMA ReloadKeepsConf ==
    ASSUME FilesWellKept, ReposInv, ConfInv, LoadFile \/ update_runtime_conf
    PROVE  ConfInv'
<1> USE DEF ReposInv, ConfInv
<1>1. UNCHANGED <<handlers_, born, at, request, making>>
  BY DEF LoadFile, update_runtime_conf, LoadFails, SwapConf, UpdateDefaults, UpdateDefault,
     CopyHandlers, WalkHandlers, ReloadEnds, tableVars, workVars
<1>2. \A w \in Workers : HasRead(w)' <=> HasRead(w)
  BY <1>1 DEF HasRead, Making, OpeningStore
<1>3. CASE LoadFile \/ LoadFails
  <2>1. /\ UNCHANGED <<conf_, conf_ptr_, default_conf_, walked, reloads, conf_lock>>
        /\ loaded' \in Confs \cup {InitConf}
        /\ reload \in {"idle", "unreadable"} /\ reload' \in {"idle", "load", "unreadable"}
    BY <1>3 DEF LoadFile, LoadFails, lockVars, confVars, tableVars, ConfType
  <2>2. ConfType'
    BY <1>1, <2>1 DEF ConfType
  <2>3. HandlersCurrent' /\ WalkedCurrent'
    BY <1>1, <2>1 DEF HandlersCurrent, WalkedCurrent, AsRead, AsWalked
  <2>4. ReadersCurrent'
    BY <1>1, <1>2, <2>1 DEF ReadersCurrent, AsRead
  <2> QED BY <2>2, <2>3, <2>4
<1>4. CASE SwapConf
  <2>1. /\ conf_lock' = Reload /\ conf_ptr_' = loaded /\ reload' = "event_linger"
        /\ reloads' = reloads + 1 /\ UNCHANGED <<conf_, default_conf_, walked, loaded>>
    BY <1>4 DEF SwapConf, tableVars
  <2>2. ConfType'
    BY <1>1, <2>1 DEF ConfType
  <2>3. HandlersCurrent' /\ WalkedCurrent'
    BY <2>1, RequestKinds DEF HandlersCurrent, WalkedCurrent
  <2>4. \A i \in Identities : born'[i] < reloads'
    BY <1>1, <2>1 DEF ConfType
  <2>5. \A w \in Workers : HasRead(w) => request[w].identity \in Identities
    BY RequestKinds DEF HasRead, LocksHeld
  <2>6. ReadersCurrent'
    BY <1>1, <1>2, <2>1, <2>4, <2>5 DEF ReadersCurrent
  <2> QED BY <2>2, <2>3, <2>6
<1>5. CASE UpdateDefaults \/ CopyHandlers
  <2>1. /\ UNCHANGED <<conf_, conf_ptr_, loaded, reloads, conf_lock>>
        /\ walked' \in Nat /\ (reload' = "walk" => walked' = 0)
        /\ reload \notin {"idle", "load", "unreadable"}
        /\ reload' = "walk" => repos_lock = Nobody
    BY <1>5 DEF UpdateDefaults, UpdateDefault, CopyHandlers, lockVars, confVars, tableVars, ConfType
  <2>2. IsConf(default_conf_')
    <3>1. \/ default_conf_' = default_conf_
          \/ \E field, x : default_conf_' = [default_conf_ EXCEPT ![field] = x]
      BY <1>5 DEF UpdateDefaults, UpdateDefault, CopyHandlers, confVars
    <3> QED BY <3>1 DEF ConfType, IsConf
  <2>3. ConfType'
    BY <1>1, <2>1, <2>2 DEF ConfType
  <2>4. conf_lock' = Reload
    BY <2>1 DEF LocksHeld
  <2>5. HandlersCurrent'
    BY <2>4, RequestKinds DEF HandlersCurrent
  <2>6. WalkedCurrent'
    <3>1. \A i \in Identities : ~(i <= 0)
      BY DEF Identities
    <3> QED BY <2>1, <3>1 DEF WalkedCurrent
  <2>7. ReadersCurrent'
    <3>1. \A w \in Workers : HasRead(w) => reload' # "walk"
      BY <2>1, RequestKinds DEF HasRead, LocksHeld
    <3> QED BY <1>1, <1>2, <2>1, <3>1 DEF ReadersCurrent, AsRead
  <2> QED BY <2>3, <2>5, <2>6, <2>7
<1>6. CASE WalkHandlers
  <2>1. /\ reload = "walk" /\ Ahead # {}
        /\ UNCHANGED <<conf_ptr_, default_conf_, loaded, reload, reloads, conf_lock>>
    BY <1>6 DEF WalkHandlers, lockVars, confVars
  <2> PICK n : n = Min(Ahead)
    OBVIOUS
  <2>2. walked' = n /\ conf_' = [conf_ EXCEPT ![n] = UpdatedConf(conf_[n], ServiceOf[n])]
    BY <1>6 DEF WalkHandlers
  <2>3. /\ n \in Identities /\ n \in Nat
        /\ \A j \in Identities : handlers_[j] # NoHandler /\ j <= n => j = n \/ j <= walked
    BY <2>1, NextInTable DEF Identities
  <2>4. /\ conf_'[n] = UpdatedConf(conf_[n], ServiceOf[n]) /\ DOMAIN conf_' = Identities
        /\ \A j \in Identities : j # n => conf_'[j] = conf_[j]
    BY <2>2, <2>3 DEF ConfType
  <2>5. \A j \in Identities : IsConf(conf_'[j])
    BY <2>3, <2>4, StaysConf DEF ConfType
  <2>6. ConfType'
    BY <1>1, <2>1, <2>2, <2>3, <2>4, <2>5 DEF ConfType
  <2>7. HandlersCurrent'
    BY <2>1, RequestKinds DEF HandlersCurrent, LocksHeld
  <2>8. AsWalked(n, conf_'[n])
    <3> SUFFICES ASSUME NEW s \in Range(conf_ptr_), s.service_name = ServiceOf[n]
                 PROVE  Linger(s, conf_'[n])
      BY DEF AsWalked
    <3>1. /\ \A v \in s.event_linger : v > 0
          /\ Named(conf_ptr_, "service_name", ServiceOf[n]) # {}
          /\ The(Named(conf_ptr_, "service_name", ServiceOf[n])) = s
      BY <2>3, SectionsFound
    <3>2. conf_'[n] = Refreshed(conf_[n], s)
      BY <2>4, <3>1 DEF UpdatedConf
    <3>3. IsConf(conf_[n])
      BY <2>3 DEF ConfType
    <3> QED BY <3>1, <3>2, <3>3, TakesLinger
  <2>9. \A j \in Identities : handlers_[j] # NoHandler /\ j <= n => AsWalked(j, conf_'[j])
    BY <2>1, <2>3, <2>4, <2>8 DEF WalkedCurrent
  <2>10. WalkedCurrent'
    BY <1>1, <2>1, <2>2, <2>9 DEF WalkedCurrent, AsWalked
  <2>11. ReadersCurrent'
    BY <1>1, <1>2, <2>1 DEF ReadersCurrent, AsRead
  <2> QED BY <2>6, <2>7, <2>10, <2>11
<1>7. CASE ReloadEnds
  <2>1. /\ reload = "walk" /\ Ahead = {} /\ reload' = "idle" /\ walked' = 0 /\ loaded' = InitConf
        /\ UNCHANGED <<conf_, conf_ptr_, default_conf_, reloads>>
    BY <1>7 DEF ReloadEnds, confVars, tableVars
  <2>2. ConfType'
    BY <1>1, <2>1 DEF ConfType
  <2>3. \A i \in Identities : handlers_[i] # NoHandler => i <= walked
    <3>1. \A i \in Identities : handlers_[i] # NoHandler => ~(i > walked)
      BY <2>1 DEF Ahead
    <3> QED BY <3>1 DEF ConfType, Identities
  <2>4. \A i \in Identities : handlers_[i] # NoHandler => AsWalked(i, conf_[i]) /\ AsRead(i, conf_[i])
    BY <2>1, <2>3 DEF WalkedCurrent, AsWalked, AsRead
  <2>5. HandlersCurrent' /\ WalkedCurrent'
    BY <1>1, <2>1, <2>4 DEF HandlersCurrent, WalkedCurrent, AsWalked, AsRead
  <2>6. \A w \in Workers : ~HasRead(w)
    BY <2>1 DEF WalkBlocks, HasRead
  <2>7. ReadersCurrent'
    BY <1>2, <2>6 DEF ReadersCurrent
  <2> QED BY <2>2, <2>5, <2>7
<1> QED BY <1>3, <1>4, <1>5, <1>6, <1>7 DEF update_runtime_conf

LEMMA NextConf == FilesWellKept /\ ReposInv /\ ConfInv /\ [Next]_vars => ConfInv'
<1> SUFFICES ASSUME FilesWellKept, ReposInv, ConfInv, [Next]_vars PROVE ConfInv'
  OBVIOUS
<1>1. ASSUME NEW w \in Workers, TakeRequest(w) \/ WorkerStep(w) PROVE ConfInv'
  BY <1>1, WorkKeepsConf, ReadSectionKeepsConf, InsertKeepsConf DEF WorkerStep, Create
<1>2. CASE UNCHANGED vars
  <2>1. UNCHANGED <<handlers_, conf_, born, conf_ptr_, default_conf_, loaded, walked, reloads,
                    reload, conf_lock, at, request, making>>
    BY <1>2 DEF vars, lockVars, confVars, reloadVars, tableVars, workVars
  <2>2. \A w \in Workers : HasRead(w)' => HasRead(w)
    BY <2>1 DEF HasRead, Making, OpeningStore
  <2>3. DOMAIN making' = Workers /\ \A w \in Workers : IsConf(making'[w])
    BY <2>1 DEF ConfInv, ConfType
  <2> QED BY <2>1, <2>2, <2>3, ConfUntouched
<1> QED BY <1>1, <1>2, ReloadKeepsConf DEF Next

(* No reload and no new handler miss each other: when the files are well   *)
(* kept, then between reloads every handler works with the linger of its   *)
(* section in the file that is loaded, whichever of EventHandler::init and *)
(* module_runtime came first to which of the locks.                        *)
THEOREM ConfIsCurrent == FilesWellKept => (Spec => []ConfCurrent)
<1> SUFFICES ASSUME FilesWellKept PROVE Spec => []ConfCurrent
  OBVIOUS
<1>1. ConfInv => ConfCurrent
  <2> SUFFICES ASSUME ConfInv, conf_lock = Nobody, NEW i \in Identities, NEW s \in Range(conf_ptr_),
                      handlers_[i] # NoHandler, s.service_name = ServiceOf[i],
                      s.instance_name = ServiceOf[i] \/ born[i] < reloads, s.event_linger # {}
               PROVE  conf_[i].event_linger_ \in s.event_linger
    BY DEF ConfCurrent
  <2>1. AsRead(i, conf_[i]) /\ (born[i] < reloads => AsWalked(i, conf_[i]))
    BY DEF ConfInv, HandlersCurrent
  <2> QED BY <2>1 DEF AsRead, AsWalked, Linger
<1>2. Init => ReposInv /\ ConfInv
  BY InitRepos, InitConfInv
<1>3. ReposInv /\ ConfInv /\ [Next]_vars => ReposInv' /\ ConfInv'
  BY NextRepos, NextConf
<1> QED BY <1>1, <1>2, <1>3, PTL DEF Spec
=============================================================================
