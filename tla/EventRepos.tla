----------------------------- MODULE EventRepos -----------------------------
(***************************************************************************)
(* EventRepos (Business/EventRepos.cpp): the table of event handlers that  *)
(* the threads of the executor look up and extend, what a new handler does *)
(* in EventHandler::init, the stores that StoreFactory opens on demand,    *)
(* and ConfHelper::update_runtime_conf, which the signal handler runs in   *)
(* the main thread while the others work.                                  *)
(*                                                                         *)
(* Three mutexes are involved, EventRepos::lock_, ConfHelper::lock_ and    *)
(* init_lock_ of StoreFactory; what is read without one is read in a step  *)
(* of its own.  A handler's own work is in module EventHandler.            *)
(*                                                                         *)
(* Identities (service and entity) are numbered in the order of their      *)
(* strings, the order in which std::map walks them.  An optional setting   *)
(* is a set: {} when the file has none, {v} when it has the value v.       *)
(***************************************************************************)
EXTENDS Integers, Sequences, FiniteSets, SequencesExt

CONSTANTS
    Workers,        \* threads of the executor of MonitorTaskService
    ServiceOf,      \* sequence: the service of each identity
    BeginsWith,     \* BeginsWith[s]: the identities whose string begins with s
    Requests,       \* the requests that clients send
    MaxRequests,    \* bound: requests taken by a thread
    InitConf,       \* rpc.business.services at the start
    Confs,          \* what the file may hold later; <<>>: no such list
    MaxReloads,     \* bound: SIGHUP signals
    MayFail,        \* stores whose init may fail
    Garbage         \* what an uninitialised int may hold

Identities == 1 .. Len(ServiceOf)
Services   == Range(ServiceOf)
StoreTypes == {"mysql", "redis", "leveldb"}
Reload     == "reload"          \* the main thread, as the holder of a lock
Nobody     == "nobody"
Nothing    == [op |-> "none"]
NoHandler  == [identity |-> 0, nth |-> 0]

(* construct_identity.                                                     *)
Event(i)   == [op |-> "event", identity |-> i]
Metrics(s) == [op |-> "metrics", service |-> s]
ListAll    == [op |-> "services"]

(* A member of rpc.business.services.                                      *)
Sections ==
    [service_name : Services \cup {"[default]", ""},
     instance_name : Services \cup {""},
     event_linger : SUBSET Int, event_step : SUBSET Int,
     additional_process_step_size : SUBSET Int, store_type : SUBSET StoreTypes]

(* The section that a loop over the list stops at, the first with that     *)
(* name; {} when there is none.                                            *)
Named(conf, key, name) ==
    {conf[n] : n \in {m \in DOMAIN conf : /\ conf[m][key] = name
                                         /\ \A k \in 1 .. (m - 1) : conf[k][key] # name}}

(* The only member of a set.                                               *)
The(S) == CHOOSE x \in S : TRUE

(* lookupValue leaves the variable alone when the setting is not there.    *)
lookupValue(setting, old) ==
    IF setting = {} THEN old ELSE The(setting)

(* The three integers as EventRepos::init and EventHandler::init read      *)
(* them, through one value_i that is not initialised and never cleared.    *)
ReadInts(section, g) ==
    LET a == lookupValue(section.event_linger, g)
        b == lookupValue(section.event_step, a)
    IN  <<a, b, lookupValue(section.additional_process_step_size, b)>>

Default(conf) == The(Named(conf, "service_name", "[default]"))

ASSUME ReposAssumption ==
    /\ IsFiniteSet(Workers) /\ {Reload, Nobody} \cap Workers = {}
    /\ \A r \in Requests : \/ r = ListAll
                           \/ r \in {Event(i) : i \in Identities}
                           \/ r \in {Metrics(s) : s \in DOMAIN BeginsWith}
    /\ \A s \in DOMAIN BeginsWith : BeginsWith[s] \subseteq Identities
    /\ MaxRequests \in Nat /\ MaxReloads \in Nat
    /\ \A c \in Confs \cup {InitConf} : c \in Seq(Sections)
    /\ Garbage # {} /\ Garbage \subseteq Int
    /\ Named(InitConf, "service_name", "[default]") # {}
    /\ Default(InitConf).event_linger # {}
    /\ \A n \in Range(ReadInts(Default(InitConf), 0)) : n > 0

InitDefault ==
    LET n == ReadInts(Default(InitConf), 0)
    IN  [event_linger_ |-> n[1], event_step_ |-> n[2],
         additional_process_step_size_ |-> n[3],
         store_type_ |-> lookupValue(Default(InitConf).store_type, "")]

VARIABLES
    handlers_,          \* the table: a pointer, the nth handler of an identity
    made,               \* per identity: how many handlers have started work
    conf_,              \* per identity: conf_ of the handler in the table
    born,               \* per identity: the reloads before it read the file
    default_conf_,      \* default_handler_conf_
    store,              \* per type: how many stores StoreFactory has opened
    conf_ptr_, reload, loaded, walked, reloads,
    repos_lock, conf_lock, init_lock,   \* who holds each mutex
    at, request, taken, \* per thread: where it is, on which request
    handler,            \* the handler it found or is making
    making,             \* conf_ of the handler it is making
    wanted              \* the stores it has still to ask StoreFactory for

lockVars   == <<repos_lock, conf_lock, init_lock>>
confVars   == <<conf_ptr_, default_conf_>>
reloadVars == <<reload, loaded, walked, reloads>>
tableVars  == <<handlers_, made, conf_, born>>
workVars   == <<request, taken, handler, making, wanted>>
vars == <<lockVars, confVars, reloadVars, tableVars, workVars, store, at>>

(* EventRepos::init: the default configuration, the default store.         *)
Init ==
    /\ handlers_ = [i \in Identities |-> NoHandler]
    /\ made = [i \in Identities |-> 0]
    /\ conf_ptr_ = InitConf
    /\ default_conf_ = InitDefault
    /\ conf_ = [i \in Identities |-> default_conf_]
    /\ born = [i \in Identities |-> 0]
    /\ store = [t \in StoreTypes |->
                  IF t = default_conf_.store_type_ THEN 1 ELSE 0]
    /\ reload = "idle" /\ loaded = InitConf /\ walked = 0 /\ reloads = 0
    /\ repos_lock = Nobody /\ conf_lock = Nobody /\ init_lock = Nobody
    /\ at = [w \in Workers |-> "idle"]
    /\ request = [w \in Workers |-> Nothing]
    /\ taken = [w \in Workers |-> 0]
    /\ handler = [w \in Workers |-> NoHandler]
    /\ making = [w \in Workers |-> default_conf_]
    /\ wanted = [w \in Workers |-> <<>>]

GoTo(w, place) == at' = [at EXCEPT ![w] = place]

(* The thread is done with its request, whatever the answer.               *)
Answer(w) ==
    /\ GoTo(w, "idle")
    /\ request' = [request EXCEPT ![w] = Nothing]
    /\ handler' = [handler EXCEPT ![w] = NoHandler]
    /\ wanted'  = [wanted EXCEPT ![w] = <<>>]
    /\ making'  = [making EXCEPT ![w] = InitDefault]
    /\ UNCHANGED taken

-----------------------------------------------------------------------------
(* MonitorTaskService calls add_event or get_event, get_metrics and then   *)
(* get_service_conf, or get_services.                                      *)
TakeRequest(w) ==
    /\ at[w] = "idle" /\ taken[w] < MaxRequests
    /\ taken' = [taken EXCEPT ![w] = @ + 1]
    /\ \E r \in Requests :
         /\ request' = [request EXCEPT ![w] = r]
         /\ IF r.op = "event"
            THEN GoTo(w, "copy") /\ UNCHANGED wanted
            ELSE /\ GoTo(w, "store")
                 /\ wanted' = [wanted EXCEPT ![w] = <<"mysql", "redis", "leveldb">>]
    /\ UNCHANGED <<lockVars, confVars, reloadVars, tableVars, store, handler, making>>

(* handlers = handlers_, under lock_, in find_create_event_handler and in  *)
(* find_event_handler.                                                     *)
CopyTable(w) ==
    /\ at[w] = "copy" /\ repos_lock = Nobody
    /\ GoTo(w, "find")
    /\ UNCHANGED <<lockVars, confVars, reloadVars, tableVars, workVars, store>>

(* A thread that links a new node into the table that others search.       *)
Inserting == \E w \in Workers : at[w] = "insert"

(* std::map::find without the lock: it may miss what is there while a node *)
(* is linked in and the tree turned.                                       *)
MapFind(i) ==
    {h \in {handlers_[i]} : h # NoHandler}
        \cup {h \in {NoHandler} : handlers_[i] = NoHandler \/ Inserting}

(* find_create_event_handler, the search without lock_.                    *)
FindHandler(w) ==
    /\ at[w] = "find" /\ request[w].op = "event"
    /\ \E h \in MapFind(request[w].identity) :
         /\ handler' = [handler EXCEPT ![w] = h]
         /\ GoTo(w, IF h = NoHandler THEN "create" ELSE "use")
    /\ UNCHANGED <<lockVars, confVars, reloadVars, tableVars, store, request,
                   taken, making, wanted>>

(* What the loop of find_event_handler may stop at: the first handler      *)
(* whose identity begins with the name of the service.                     *)
FirstMatch(s) ==
    LET there == {i \in BeginsWith[s] : handlers_[i] # NoHandler}
    IN  {handlers_[i] : i \in {i \in there : Inserting \/ \A j \in there : i <= j}}

(* find_event_handler, for get_service_conf.                               *)
FindAnyHandler(w) ==
    /\ at[w] = "find" /\ request[w].op = "metrics"
    /\ LET found == FirstMatch(request[w].service)
       IN  IF found = {}
           THEN Answer(w)
           ELSE /\ handler' \in {[handler EXCEPT ![w] = h] : h \in found}
                /\ GoTo(w, "use")
                /\ UNCHANGED <<request, taken, making, wanted>>
    /\ UNCHANGED <<lockVars, confVars, reloadVars, tableVars, store>>

(* The handler's add_event, get_event or get_handler_conf.                 *)
UseHandler(w) ==
    /\ at[w] = "use"
    /\ Answer(w)
    /\ UNCHANGED <<lockVars, confVars, reloadVars, tableVars, store>>

-----------------------------------------------------------------------------
(* find_create_event_handler from the double check on, under lock_. *)

(* lock_, and the table once more.                                         *)
DoubleCheck_No(w) ==
    /\ at[w] = "create" /\ repos_lock = Nobody
    /\ repos_lock' = w /\ GoTo(w, "init")
    /\ UNCHANGED <<workVars, conf_lock, init_lock, confVars, reloadVars,
                   tableVars, store>>

DoubleCheck(w) ==
    /\ at[w] = "create" /\ repos_lock = Nobody
    /\ LET h == handlers_[request[w].identity]
       IN  IF h # NoHandler
           THEN /\ handler' = [handler EXCEPT ![w] = h]
                /\ GoTo(w, "use")
                /\ UNCHANGED repos_lock
           ELSE /\ repos_lock' = w
                /\ GoTo(w, "init")
                /\ UNCHANGED handler
    /\ UNCHANGED <<conf_lock, init_lock, confVars, reloadVars, tableVars,
                   store, request, taken, making, wanted>>

(* EventHandler::init copies the default configuration, without a lock on  *)
(* it.                                                                     *)
CopyDefault(w) ==
    /\ at[w] = "init"
    /\ making' = [making EXCEPT ![w] = default_conf_]
    /\ GoTo(w, "conf")
    /\ UNCHANGED <<lockVars, confVars, reloadVars, tableVars, store, request,
                   taken, handler, wanted>>

(* ConfHelper::get_conf: the file is read and forgotten, the pointer is    *)
(* copied under ConfHelper::lock_.                                         *)
get_conf_Unlocked == TRUE
get_conf == conf_lock = Nobody

Positive(n, old) == IF n > 0 THEN n ELSE old

(* The section of the service: looked up by instance_name.                 *)
OwnSection(s) == Named(conf_ptr_, "instance_name", s)

(* What the handler takes from it; g is what value_i held before.          *)
Overridden(conf, section, g) ==
    LET n == ReadInts(section, g)
    IN  [event_linger_ |-> Positive(n[1], conf.event_linger_),
         event_step_   |-> Positive(n[2], conf.event_step_),
         additional_process_step_size_ |->
             Positive(n[3], conf.additional_process_step_size_),
         store_type_   |-> lookupValue(section.store_type, conf.store_type_)]

ReadOwnSection(w) ==
    /\ at[w] = "conf" /\ get_conf
    /\ LET own == OwnSection(ServiceOf[request[w].identity])
       IN  \E c \in IF own = {} THEN {making[w]}
                    ELSE {Overridden(making[w], The(own), g) : g \in Garbage} :
             /\ making' = [making EXCEPT ![w] = c]
             /\ wanted' = [wanted EXCEPT ![w] = <<c.store_type_>>]
    /\ born' = [born EXCEPT ![request[w].identity] = reloads]
    /\ GoTo(w, "store")
    /\ UNCHANGED <<lockVars, confVars, reloadVars, handlers_, made, conf_, store,
                   request, taken, handler>>

-----------------------------------------------------------------------------
(* StoreFactory, in EventHandler::init, in get_metrics and get_services. *)

StoreReturns_Held(w, ok) ==
    LET rest == Tail(wanted[w])
    IN  IF request[w].op = "event"
        THEN IF ok
             THEN /\ GoTo(w, "start")
                  /\ wanted' = [wanted EXCEPT ![w] = rest]
                  /\ UNCHANGED <<request, taken, handler, making, repos_lock>>
             ELSE Answer(w) /\ UNCHANGED repos_lock
        ELSE /\ UNCHANGED repos_lock
             /\ IF rest = <<>> /\ request[w].op = "services"
                THEN Answer(w)
                ELSE /\ GoTo(w, IF rest = <<>> THEN "copy" ELSE "store")
                     /\ wanted' = [wanted EXCEPT ![w] = rest]
                     /\ UNCHANGED <<request, taken, handler, making>>

(* On with the store, or with the null pointer, in the caller.             *)
StoreReturns(w, ok) ==
    LET rest == Tail(wanted[w])
    IN  IF request[w].op = "event"
        THEN IF ok
             THEN /\ GoTo(w, "start")
                  /\ wanted' = [wanted EXCEPT ![w] = rest]
                  /\ UNCHANGED <<request, taken, handler, making, repos_lock>>
             ELSE Answer(w) /\ repos_lock' = Nobody
        ELSE /\ UNCHANGED repos_lock
             /\ IF rest = <<>> /\ request[w].op = "services"
                THEN Answer(w)
                ELSE /\ GoTo(w, IF rest = <<>> THEN "copy" ELSE "store")
                     /\ wanted' = [wanted EXCEPT ![w] = rest]
                     /\ UNCHANGED <<request, taken, handler, making>>

(* The pointer is read without init_lock_; there is no redis store.        *)
StoreFactory(w) ==
    /\ at[w] = "store"
    /\ LET type == Head(wanted[w])
       IN  IF store[type] > 0 \/ type = "redis"
           THEN StoreReturns(w, store[type] > 0)
           ELSE GoTo(w, "store_lock") /\ UNCHANGED <<workVars, repos_lock>>
    /\ UNCHANGED <<conf_lock, init_lock, confVars, reloadVars, tableVars, store>>

StoreCheckAgain(w) ==
    /\ at[w] = "store_lock" /\ init_lock = Nobody
    /\ IF store[Head(wanted[w])] > 0
       THEN StoreReturns(w, TRUE) /\ UNCHANGED init_lock
       ELSE /\ init_lock' = w
            /\ GoTo(w, "store_conf")
            /\ UNCHANGED <<workVars, repos_lock>>
    /\ UNCHANGED <<conf_lock, confVars, reloadVars, tableVars, store>>

StoreConf(w) ==
    /\ at[w] = "store_conf" /\ get_conf
    /\ GoTo(w, "store_init")
    /\ UNCHANGED <<lockVars, confVars, reloadVars, tableVars, store, workVars>>

(* StoreSql::init or StoreLevelDB::init, and the swap.                     *)
StoreInit(w) ==
    /\ at[w] = "store_init"
    /\ LET type == Head(wanted[w])
       IN  \/ /\ store' = [store EXCEPT ![type] = @ + 1]
              /\ StoreReturns(w, TRUE)
           \/ /\ type \in MayFail /\ UNCHANGED store
              /\ StoreReturns(w, FALSE)
    /\ init_lock' = Nobody
    /\ UNCHANGED <<conf_lock, confVars, reloadVars, tableVars>>

-----------------------------------------------------------------------------
(* The end of EventHandler::init starts the thread and the timer of the    *)
(* handler; then the table is changed.                                     *)
StartHandler(w) ==
    /\ at[w] = "start"
    /\ LET i == request[w].identity
       IN  /\ made' = [made EXCEPT ![i] = @ + 1]
           /\ handler' = [handler EXCEPT
                ![w] = [identity |-> i, nth |-> made[i] + 1]]
    /\ GoTo(w, "insert")
    /\ UNCHANGED <<lockVars, confVars, reloadVars, handlers_, conf_, born, store,
                   request, taken, making, wanted>>

InsertHandler(w) ==
    /\ at[w] = "insert"
    /\ LET i == request[w].identity
       IN  /\ handlers_' = [handlers_ EXCEPT ![i] = handler[w]]
           /\ conf_' = [conf_ EXCEPT ![i] = making[w]]
    /\ making' = [making EXCEPT ![w] = InitDefault]
    /\ repos_lock' = Nobody /\ GoTo(w, "use")
    /\ UNCHANGED <<conf_lock, init_lock, confVars, reloadVars, made, born, store,
                   request, taken, handler, wanted>>

-----------------------------------------------------------------------------
(* ConfHelper::update_runtime_conf and EventRepos::module_runtime. *)

(* The file is read before the lock is taken; one that cannot be read ends *)
(* the update.                                                             *)
LoadFile ==
    /\ reload = "idle" /\ reloads < MaxReloads
    /\ \/ reload' = "load" /\ loaded' \in Confs
       \/ reload' = "unreadable" /\ UNCHANGED loaded
    /\ UNCHANGED <<lockVars, confVars, walked, reloads, tableVars, store, at,
                   workVars>>

LoadFails ==
    /\ reload = "unreadable" /\ reload' = "idle"
    /\ UNCHANGED <<lockVars, confVars, loaded, walked, reloads, tableVars, store,
                   at, workVars>>

(* lock_ is taken and kept while the callbacks run.                        *)
SwapConf ==
    /\ reload = "load" /\ conf_lock = Nobody
    /\ conf_lock' = Reload
    /\ conf_ptr_' = loaded
    /\ reload' = "event_linger" /\ reloads' = reloads + 1
    /\ UNCHANGED <<repos_lock, init_lock, default_conf_, loaded, walked, tableVars,
                   store, at, workVars>>

(* A value that is there and positive replaces the old one.                *)
Update(setting, old) == Positive(lookupValue(setting, 0), old)

(* The fields of the default configuration, one after the other.           *)
UpdateDefault(setting, field, next) ==
    /\ reload = setting
    /\ default_conf_' =
         IF Named(conf_ptr_, "service_name", "[default]") = {} THEN default_conf_
         ELSE [default_conf_ EXCEPT
                ![field] = Update(Default(conf_ptr_)[setting], @)]
    /\ reload' = next
    /\ UNCHANGED <<lockVars, conf_ptr_, loaded, walked, reloads, tableVars, store,
                   at, workVars>>

UpdateDefaults ==
    \/ UpdateDefault("event_linger", "event_linger_", "event_step")
    \/ UpdateDefault("event_step", "event_step_", "additional_process_step_size")
    \/ UpdateDefault("additional_process_step_size",
                     "additional_process_step_size_", "handlers")

CopyHandlers ==
    /\ reload = "handlers" /\ repos_lock = Nobody
    /\ reload' = "walk" /\ walked' = 0
    /\ UNCHANGED <<lockVars, confVars, loaded, reloads, tableVars, store, at,
                   workVars>>

(* What a handler takes from a section at a reload; store_type is not      *)
(* looked at.                                                              *)
Refreshed(conf, section) ==
    [conf EXCEPT
      !.event_linger_ = Update(section.event_linger, @),
      !.event_step_   = Update(section.event_step, @),
      !.additional_process_step_size_ =
           Update(section.additional_process_step_size, @)]

UpdatedConf_ByInstance(conf, s) ==
    LET own == OwnSection(s)
    IN  IF own = {} THEN conf ELSE Refreshed(conf, The(own))

(* EventHandler::update_runtime_conf: the section is looked up by          *)
(* service_name.                                                           *)
UpdatedConf(conf, s) ==
    LET own == Named(conf_ptr_, "service_name", s)
    IN  IF own = {} THEN conf ELSE Refreshed(conf, The(own))

Ahead == {i \in Identities : i > walked /\ handlers_[i] # NoHandler}

WalkHandlers ==
    /\ reload = "walk" /\ Ahead # {}
    /\ walked' = Min(Ahead)
    /\ conf_' = [conf_ EXCEPT
                  ![walked'] = UpdatedConf(@, ServiceOf[walked'])]
    /\ UNCHANGED <<lockVars, confVars, reload, loaded, reloads, handlers_, made,
                   born, store, at, workVars>>

ReloadEnds ==
    /\ reload = "walk" /\ Ahead = {}
    /\ reload' = "idle" /\ walked' = 0 /\ loaded' = InitConf
    /\ conf_lock' = Nobody
    /\ UNCHANGED <<repos_lock, init_lock, confVars, reloads, tableVars, store, at,
                   workVars>>

-----------------------------------------------------------------------------
Create(w) ==
    \/ DoubleCheck(w) \/ CopyDefault(w) \/ ReadOwnSection(w)
    \/ StartHandler(w) \/ InsertHandler(w)

OpenStore(w) ==
    \/ StoreFactory(w) \/ StoreCheckAgain(w) \/ StoreConf(w) \/ StoreInit(w)

WorkerStep(w) ==
    \/ CopyTable(w) \/ FindHandler(w) \/ FindAnyHandler(w) \/ UseHandler(w)
    \/ Create(w) \/ OpenStore(w)

update_runtime_conf ==
    \/ LoadFails \/ SwapConf \/ UpdateDefaults \/ CopyHandlers
    \/ WalkHandlers \/ ReloadEnds

Next ==
    \/ \E w \in Workers : TakeRequest(w) \/ WorkerStep(w)
    \/ LoadFile \/ update_runtime_conf

Spec == Init /\ [][Next]_vars

(* A thread is never kept from running for ever, and no mutex is withheld  *)
(* for ever from the only thread that waits for it.                        *)
Fairness ==
    /\ \A w \in Workers : WF_vars(WorkerStep(w))
    /\ WF_vars(update_runtime_conf)

FairSpec == Spec /\ Fairness

-----------------------------------------------------------------------------
HandlerConf ==
    [event_linger_ : Int, event_step_ : Int,
     additional_process_step_size_ : Int, store_type_ : StoreTypes]

(* Every variable has its type.                                            *)
TypeOK ==
    /\ handlers_ \in [Identities -> [identity : 0 .. Len(ServiceOf), nth : Nat]]
    /\ made \in [Identities -> Nat]
    /\ conf_ \in [Identities -> HandlerConf]
    /\ born \in [Identities -> 0 .. MaxReloads]
    /\ default_conf_ \in HandlerConf
    /\ store \in [StoreTypes -> Nat]
    /\ conf_ptr_ \in Confs \cup {InitConf}
    /\ loaded \in Confs \cup {InitConf}
    /\ walked \in 0 .. Len(ServiceOf) /\ reloads \in 0 .. MaxReloads
    /\ reload \in {"idle", "load", "unreadable", "event_linger",
                   "event_step", "additional_process_step_size", "handlers", "walk"}
    /\ repos_lock \in Workers \cup {Nobody}
    /\ conf_lock \in {Reload, Nobody}
    /\ init_lock \in Workers \cup {Nobody}
    /\ at \in [Workers -> {"idle", "copy", "find", "use", "create", "init", "conf",
                           "store", "store_lock", "store_conf", "store_init",
                           "start", "insert"}]
    /\ request \in [Workers -> Requests \cup {Nothing}]
    /\ taken \in [Workers -> 0 .. MaxRequests]
    /\ handler \in [Workers -> [identity : 0 .. Len(ServiceOf), nth : Nat]]
    /\ making \in [Workers -> HandlerConf]
    /\ wanted \in [Workers -> Seq(StoreTypes)]

(* An identity has one handler at most, with one thread and one timer, and *)
(* every request for it is given to that handler: two of them would write  *)
(* two rows for the same key.  StoreFactory opens each store once at most, *)
(* whichever requests ask for it first: a second LevelDB would find its    *)
(* directory locked.                                                       *)
OneHandler ==
    /\ \A t \in StoreTypes : store[t] <= 1
    /\ \A i \in Identities : made[i] <= 1
    /\ \A w \in Workers : at[w] = "use" =>
         /\ handler[w] = handlers_[handler[w].identity]
         /\ request[w].op = "event" => handler[w].identity = request[w].identity

(* The reload walks the table without lock_, and yet no handler is put     *)
(* into the table meanwhile: whoever makes one waits for ConfHelper's lock *)
(* or is done before the walk begins.                                      *)
WalkUndisturbed == reload = "walk" => ~Inserting

(* Between reloads every handler works with the values that the loaded     *)
(* file has in the section of its service, when the section bears both     *)
(* names or the handler was there before the reload: no reload and no new  *)
(* handler miss each other.                                                *)
ConfCurrent ==
    conf_lock = Nobody =>
      \A i \in Identities : \A s \in Range(conf_ptr_) :
        (/\ handlers_[i] # NoHandler
         /\ s.service_name = ServiceOf[i]
         /\ s.instance_name = ServiceOf[i] \/ born[i] < reloads
         /\ s.event_linger # {})
        => conf_[i].event_linger_ \in s.event_linger

(* A list in which no two sections have the same name, and in which the    *)
(* section of a service asks for a linger that is positive, if for any.    *)
WellKept(conf) ==
    /\ \A m, n \in DOMAIN conf : \A key \in {"service_name", "instance_name"} :
         conf[m][key] = conf[n][key] /\ conf[m][key] \in Services => m = n
    /\ \A m \in DOMAIN conf : conf[m].service_name \in Services =>
         \A v \in conf[m].event_linger : v > 0

FilesWellKept == \A c \in Confs \cup {InitConf} : WellKept(c)

(* The one deadlock of the code: the reload has ConfHelper's lock and      *)
(* waits for lock_ of EventRepos, whose holder waits in get_conf for       *)
(* ConfHelper's lock, itself or behind the holder of init_lock_.           *)
Clinch ==
    /\ reload = "handlers" /\ repos_lock \in Workers
    /\ \/ at[repos_lock] \in {"conf", "store_conf"}
       \/ /\ at[repos_lock] = "store_lock" /\ init_lock \in Workers
          /\ at[init_lock] = "store_conf"

(* Every request is answered and every reload ends, unless the reload and  *)
(* the making of a handler have caught each other.                         *)
OnlyTheClinch ==
    /\ \A w \in Workers : (at[w] # "idle") ~> (at[w] = "idle" \/ Clinch)
    /\ (reload # "idle") ~> (reload = "idle" \/ Clinch)

=============================================================================
