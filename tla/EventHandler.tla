---------------------------- MODULE EventHandler ----------------------------
(***************************************************************************)
(* One EventHandler of the server (Business/EventHandler.{h,cpp}) with the *)
(* threads that meet in it:                                                *)
(*   - executor threads of the RPC layer, which call add_event;            *)
(*   - the timer, which calls linger_check_run every 500 ms;               *)
(*   - the handler's own thread, EventHandler::run;                        *)
(*   - the helper threads of the shared TinyTask (Utils/TinyTask.h), which *)
(*     run run_once_task on batches that run() hands over.                 *)
(* A slot is an events_by_time_t; its data_ is kept here as one sequence   *)
(* in arrival order, which is the order inside every metric's vector.      *)
(***************************************************************************)
EXTENDS EventItem, FiniteSets

CONSTANTS
    Service,        \* service_ of this handler
    Executors,      \* the threads that run add_event
    Items,          \* the items (event_data_t) that occur in reports
    Reports,        \* the reports (event_report_t) that may arrive
    InitConf,       \* conf_ after init()
    LingerUpdates, StepUpdates, SizeUpdates,    \* values update_runtime_conf may load
    MaxSpawn,       \* max_spawn_task_ of the TinyTask
    InitTime, MaxTime,  \* bounds of the clock
    MaxDelay,       \* clock ticks a thread may spend between the linger check
                    \* of add_event and the release of lock_
    NoReport, Free  \* "no report in hand", "lock_ not held"

Conf == [linger : Nat \ {0}, step : Nat \ {0}, size : Nat \ {0}]

(* EventRepos::add_event only passes reports with a positive time stamp    *)
(* and some data; EventRepos::init and update_runtime_conf only accept     *)
(* positive numbers.                                                       *)
ASSUME ConfAssumption ==
    /\ InitConf \in Conf
    /\ LingerUpdates \cup StepUpdates \cup SizeUpdates \subseteq Nat \ {0}
    /\ MaxSpawn \in Nat \ {0}
    /\ InitTime \in Nat /\ MaxTime \in Nat /\ MaxDelay \in Nat

ASSUME ReportsAssumption ==
    \A r \in Reports : /\ r.timestamp \in Nat \ {0}
                       /\ r.data \in Seq(Items) \ {<<>>}

ItemsIn(data) == {data[n] : n \in DOMAIN data}

(* An item stands for one event_data_t of one report: equal contents make  *)
(* two items, told apart by something the code does not look at.           *)
ASSUME ItemsAssumption ==
    /\ \A r \in Reports : \A m, n \in DOMAIN r.data : r.data[m] = r.data[n] => m = n
    /\ \A r, q \in Reports : r # q => ItemsIn(r.data) \cap ItemsIn(q.data) = {}

ASSUME HolderAssumption ==
    /\ NoReport \notin Reports
    /\ "timer" \notin Executors
    /\ Free \notin Executors \cup {"timer"}

Helpers == 1 .. MaxSpawn
Runner  == 0                        \* the handler's own thread
Workers == {Runner} \cup Helpers    \* the threads that run do_process_event

Slot == [timestamp : Nat, step : Nat, data : Seq(Items)]
Key  == {<<i.metric, i.tag>> : i \in Items}
Row  == [timestamp : Nat, step : 0 .. 255, key : Key, items : SUBSET Items]

VARIABLES
    now,            \* ::time(NULL)
    conf_,          \* EventHandlerConf, read without a lock
    lock_,          \* holder of lock_
    add,            \* per executor: where it is in add_event
    events_,        \* the open slots, a function from time stamps
    checkNow,       \* the local now of linger_check_run
    process_queue_, \* slots past their linger time
    runPc,          \* where run() is
    queue_size,     \* the local queue_size of run()
    tasks_,         \* batches waiting in the TinyTask
    vec,            \* per worker: the slots it still has to process
    left,           \* per worker: the rows of Head(vec) still to be inserted
    rows,           \* the rows the store accepted
    failed,         \* items of rows the store refused
    dups,           \* items thrown away by the duplicate check
    received,       \* reports that reached add_event
    accepted,       \* reports for which add_event returned 0
    flushed         \* time stamps of the slots linger_check_run pushed

slotVars  == <<lock_, events_, checkNow>>
runVars   == <<runPc, queue_size>>
workVars  == <<vec, left, rows, failed, dups>>
history   == <<received, accepted, flushed>>
vars == <<now, conf_, add, slotVars, process_queue_, runVars, tasks_, workVars, history>>

Idle == [pc |-> "idle", report |-> NoReport, at |-> 0, key |-> 0]

Init ==
    /\ now = InitTime
    /\ conf_ = InitConf
    /\ lock_ = Free
    /\ add = [e \in Executors |-> Idle]
    /\ events_ = <<>>
    /\ checkNow = 0
    /\ process_queue_ = <<>>
    /\ runPc = "top"
    /\ queue_size = InitConf.size
    /\ tasks_ = <<>>
    /\ vec = [w \in Workers |-> <<>>]
    /\ left = [w \in Workers |-> {}]
    /\ rows = {} /\ failed = {} /\ dups = {}
    /\ received = {} /\ accepted = {} /\ flushed = {}

-----------------------------------------------------------------------------
(* The clock.  MaxDelay is the one timing assumption: a thread inside      *)
(* add_event is not held up for more than MaxDelay ticks.                  *)
Tick ==
    /\ now < MaxTime
    /\ \A e \in Executors : add[e].pc # "idle" => now - add[e].at < MaxDelay
    /\ now' = now + 1
    /\ UNCHANGED <<conf_, add, slotVars, process_queue_, runVars, tasks_, workVars, history>>

-----------------------------------------------------------------------------
(* add_event: the two checks are made before lock_ is taken.               *)
TooOld(r) == now - r.timestamp > conf_.linger

AddEventReject(e, r) ==
    /\ add[e].pc = "idle"
    /\ r \notin received
    /\ r.service # Service \/ TooOld(r)
    /\ received' = received \cup {r}
    /\ UNCHANGED <<now, conf_, add, slotVars, process_queue_, runVars, tasks_, workVars, accepted, flushed>>

AddEventPass(e, r) ==
    /\ add[e].pc = "idle"
    /\ r \notin received
    /\ r.service = Service
    /\ ~TooOld(r)
    /\ add' = [add EXCEPT ![e] = [pc |-> "passed", report |-> r, at |-> now, key |-> 0]]
    /\ received' = received \cup {r}
    /\ UNCHANGED <<now, conf_, slotVars, process_queue_, runVars, tasks_, workVars, accepted, flushed>>

(* lock_guard, and the nice_step call at the head of do_add_event.         *)
AddEventLock(e) ==
    /\ add[e].pc = "passed"
    /\ lock_ = Free
    /\ lock_' = e
    /\ add' = [add EXCEPT ![e].pc = "locked",
                          ![e].key = nice_step(add[e].report.timestamp, conf_.step)]
    /\ UNCHANGED <<now, conf_, events_, checkNow, process_queue_, runVars, tasks_, workVars, history>>

(* The slot do_add_event finds for time k, or the one it makes: conf_.step *)
(* is read again here.                                                     *)
FindOrCreate(k) ==
    IF k \in DOMAIN events_ THEN events_[k]
                            ELSE [timestamp |-> k, step |-> conf_.step, data |-> <<>>]

do_add_event(e) ==
    LET k    == add[e].key
        slot == FindOrCreate(k)
    IN  /\ add[e].pc = "locked"
        /\ events_' = [t \in DOMAIN events_ \cup {k} |->
                          IF t = k
                          THEN [timestamp |-> slot.timestamp, step |-> slot.step,
                                data |-> slot.data \o add[e].report.data]
                          ELSE events_[t]]
        /\ accepted' = accepted \cup {add[e].report}
        /\ add' = [add EXCEPT ![e] = Idle]
        /\ lock_' = Free
        /\ UNCHANGED <<now, conf_, checkNow, process_queue_, runVars, tasks_, workVars, received, flushed>>

-----------------------------------------------------------------------------
(* linger_check_run: lock_ is held for the whole loop, but run() can take  *)
(* slots out of process_queue_ between two iterations.                     *)
LingerCheckLock ==
    /\ lock_ = Free
    /\ lock_' = "timer"
    /\ checkNow' = now
    /\ UNCHANGED <<now, conf_, add, events_, process_queue_, runVars, tasks_, workVars, history>>

First(k) == k \in DOMAIN events_ /\ \A o \in DOMAIN events_ : k <= o

(* Mutant: <= for <, so that a slot goes out while add_event still lets    *)
(* reports for it pass.                                                    *)
Expired_Early(k) == k + conf_.linger <= checkNow

Expired(k) == k + conf_.linger < checkNow

(* Mutant: the loop takes any slot that is due, not the earliest one.      *)
LingerFlush_AnyOrder(k) ==
    /\ lock_ = "timer"
    /\ k \in DOMAIN events_
    /\ Expired(k)
    /\ process_queue_' = Append(process_queue_, events_[k])
    /\ events_' = [t \in DOMAIN events_ \ {k} |-> events_[t]]
    /\ flushed' = flushed \cup {k}
    /\ UNCHANGED <<now, conf_, add, lock_, checkNow, runVars, tasks_, workVars, received, accepted>>

LingerFlush(k) ==
    /\ lock_ = "timer"
    /\ First(k)
    /\ Expired(k)
    /\ process_queue_' = Append(process_queue_, events_[k])
    /\ events_' = [t \in DOMAIN events_ \ {k} |-> events_[t]]
    /\ flushed' = flushed \cup {k}
    /\ UNCHANGED <<now, conf_, add, lock_, checkNow, runVars, tasks_, workVars, received, accepted>>

(* Mutant: the loop is left without giving lock_ back.                     *)
LingerCheckUnlock_KeepsLock ==
    /\ lock_ = "timer"
    /\ \A k \in DOMAIN events_ : First(k) => ~Expired(k)
    /\ checkNow' = 0
    /\ UNCHANGED <<now, conf_, add, lock_, events_, process_queue_, runVars, tasks_, workVars, history>>

LingerCheckUnlock ==
    /\ lock_ = "timer"
    /\ \A k \in DOMAIN events_ : First(k) => ~Expired(k)
    /\ lock_' = Free
    /\ checkNow' = 0
    /\ UNCHANGED <<now, conf_, add, events_, process_queue_, runVars, tasks_, workVars, history>>

-----------------------------------------------------------------------------
(* do_process_event: start on a slot, insert its rows one after the other. *)
(* The maps are walked in key order; the model allows any order.           *)
RowsToInsert(v) == IF v = <<>> THEN {} ELSE RowKeys(Head(v).data)
NewDups(v)      == IF v = <<>> THEN {} ELSE Duplicates(Head(v).data)

StatRow(s, k) ==
    [timestamp |-> s.timestamp, step |-> s.step % 256, key |-> k,
     items |-> KeptOfKey(s.data, k)]

InsertOk(w, k) ==
    /\ k \in left[w]
    /\ left' = [left EXCEPT ![w] = @ \ {k}]
    /\ rows' = rows \cup {StatRow(Head(vec[w]), k)}
    /\ UNCHANGED <<now, conf_, add, slotVars, process_queue_, runVars, tasks_, vec, failed, dups, history>>

(* insert_ev_stat failed: logged, nothing else.                            *)
InsertFailed(w, k) ==
    /\ k \in left[w]
    /\ left' = [left EXCEPT ![w] = @ \ {k}]
    /\ failed' = failed \cup KeptOfKey(Head(vec[w]).data, k)
    /\ UNCHANGED <<now, conf_, add, slotVars, process_queue_, runVars, tasks_, vec, rows, dups, history>>

(* run_once_task of a helper thread goes on to the next slot of its batch. *)
NextSlot(h) ==
    /\ vec[h] # <<>> /\ left[h] = {}
    /\ vec' = [vec EXCEPT ![h] = Tail(@)]
    /\ left' = [left EXCEPT ![h] = RowsToInsert(Tail(vec[h]))]
    /\ dups' = dups \cup NewDups(Tail(vec[h]))
    /\ UNCHANGED <<now, conf_, add, slotVars, process_queue_, runVars, tasks_, rows, failed, history>>

-----------------------------------------------------------------------------
(* EventHandler::run.                                                      *)

(* Mutant: the batch size is counted from zero.                            *)
RunTop_OffByOne ==
    /\ runPc = "top"
    /\ runPc' = "offload"
    /\ queue_size' = conf_.size - 1
    /\ UNCHANGED <<now, conf_, add, slotVars, process_queue_, tasks_, workVars, history>>

RunTop ==
    /\ runPc = "top"
    /\ runPc' = "offload"
    /\ queue_size' = conf_.size
    /\ UNCHANGED <<now, conf_, add, slotVars, process_queue_, tasks_, workVars, history>>

(* Mutant: drops the batch that POP took out of the queue.                 *)
RunOffload_DropsBatch ==
    /\ runPc = "offload"
    /\ Len(process_queue_) > 2 * queue_size
    /\ process_queue_' = SubSeq(process_queue_, queue_size + 1, Len(process_queue_))
    /\ UNCHANGED <<now, conf_, add, slotVars, tasks_, runVars, workVars, history>>

(* Too much has piled up: a batch of queue_size slots goes to the helpers. *)
RunOffload ==
    /\ runPc = "offload"
    /\ Len(process_queue_) > 2 * queue_size
    /\ tasks_' = Append(tasks_, SubSeq(process_queue_, 1, queue_size))
    /\ process_queue_' = SubSeq(process_queue_, queue_size + 1, Len(process_queue_))
    /\ UNCHANGED <<now, conf_, add, slotVars, runVars, workVars, history>>

RunOffloadDone ==
    /\ runPc = "offload"
    /\ Len(process_queue_) <= 2 * queue_size
    /\ runPc' = "pop"
    /\ UNCHANGED <<now, conf_, add, slotVars, process_queue_, queue_size, tasks_, workVars, history>>

RunPop ==
    /\ runPc = "pop"
    /\ process_queue_ # <<>>
    /\ vec' = [vec EXCEPT ![Runner] = <<Head(process_queue_)>>]
    /\ left' = [left EXCEPT ![Runner] = RowKeys(Head(process_queue_).data)]
    /\ dups' = dups \cup Duplicates(Head(process_queue_).data)
    /\ process_queue_' = Tail(process_queue_)
    /\ runPc' = "process"
    /\ UNCHANGED <<now, conf_, add, slotVars, queue_size, tasks_, rows, failed, history>>

(* POP gave up after 1000 ms.                                              *)
RunPopTimeout ==
    /\ runPc = "pop"
    /\ process_queue_ = <<>>
    /\ runPc' = "top"
    /\ UNCHANGED <<now, conf_, add, slotVars, process_queue_, queue_size, tasks_, workVars, history>>

RunProcessed ==
    /\ runPc = "process"
    /\ left[Runner] = {}
    /\ vec' = [vec EXCEPT ![Runner] = <<>>]
    /\ runPc' = "top"
    /\ UNCHANGED <<now, conf_, add, slotVars, process_queue_, queue_size, tasks_, left, rows, failed, dups, history>>

-----------------------------------------------------------------------------
(* TinyTask::run: one thread for each of at most MaxSpawn batches, then    *)
(* join_all; the next batches are popped when all of them are done.        *)
HelpersSpawn ==
    /\ tasks_ # <<>>
    /\ \A h \in Helpers : vec[h] = <<>>
    /\ LET n == IF Len(tasks_) < MaxSpawn THEN Len(tasks_) ELSE MaxSpawn
           batch(w) == IF w \in 1 .. n THEN tasks_[w] ELSE vec[w]
       IN  /\ vec' = [w \in Workers |-> batch(w)]
           /\ left' = [w \in Workers |->
                          IF w \in 1 .. n THEN RowsToInsert(tasks_[w]) ELSE left[w]]
           /\ dups' = dups \cup UNION {NewDups(tasks_[w]) : w \in 1 .. n}
           /\ tasks_' = SubSeq(tasks_, n + 1, Len(tasks_))
    /\ UNCHANGED <<now, conf_, add, slotVars, process_queue_, runVars, rows, failed, history>>

-----------------------------------------------------------------------------
(* update_runtime_conf assigns the fields one after the other, unlocked.   *)
UpdateLinger(v) ==
    /\ conf_' = [conf_ EXCEPT !.linger = v]
    /\ UNCHANGED <<now, add, slotVars, process_queue_, runVars, tasks_, workVars, history>>

UpdateStep(v) ==
    /\ conf_' = [conf_ EXCEPT !.step = v]
    /\ UNCHANGED <<now, add, slotVars, process_queue_, runVars, tasks_, workVars, history>>

UpdateSize(v) ==
    /\ conf_' = [conf_ EXCEPT !.size = v]
    /\ UNCHANGED <<now, add, slotVars, process_queue_, runVars, tasks_, workVars, history>>

-----------------------------------------------------------------------------
AddEvent(e) ==
    \/ \E r \in Reports : AddEventReject(e, r) \/ AddEventPass(e, r)
    \/ AddEventLock(e)
    \/ do_add_event(e)

linger_check_run ==
    \/ LingerCheckLock
    \/ \E k \in DOMAIN events_ : LingerFlush(k)
    \/ LingerCheckUnlock

Insert(w) == \E k \in left[w] : InsertOk(w, k) \/ InsertFailed(w, k)

run == RunTop \/ RunOffload \/ RunOffloadDone \/ RunPop \/ RunPopTimeout \/ RunProcessed

Next ==
    \/ Tick
    \/ \E e \in Executors : AddEvent(e)
    \/ linger_check_run
    \/ run
    \/ HelpersSpawn
    \/ \E w \in Workers : Insert(w)
    \/ \E h \in Helpers : NextSlot(h)
    \/ \E v \in LingerUpdates : UpdateLinger(v)
    \/ \E v \in StepUpdates : UpdateStep(v)
    \/ \E v \in SizeUpdates : UpdateSize(v)

(* Every thread keeps running and the clock keeps going.  lock_ is shared  *)
(* by the executors and a timer that comes back for ever: a thread that    *)
(* waits for it gets it in the end (strong fairness), as the lock is only  *)
(* held for short loops every 500 ms.                                      *)
Fairness ==
    /\ WF_vars(Tick)
    /\ \A e \in Executors : SF_vars(AddEventLock(e)) /\ WF_vars(do_add_event(e))
    /\ SF_vars(LingerCheckLock)
    /\ WF_vars(\E k \in DOMAIN events_ : LingerFlush(k))
    /\ WF_vars(LingerCheckUnlock)
    /\ WF_vars(run)
    /\ WF_vars(HelpersSpawn)
    /\ \A w \in Workers : WF_vars(Insert(w))
    /\ \A h \in Helpers : WF_vars(NextSlot(h))

Spec == Init /\ [][Next]_vars
FairSpec == Spec /\ Fairness

-----------------------------------------------------------------------------
(* Properties                                                              *)

AddState == [pc : {"idle", "passed", "locked"}, report : Reports \cup {NoReport},
             at : Nat, key : Nat]

(* Every variable has its type.                                            *)
TypeOK ==
    /\ now \in Nat
    /\ conf_ \in Conf
    /\ lock_ \in Executors \cup {"timer", Free}
    /\ add \in [Executors -> AddState]
    /\ DOMAIN events_ \subseteq Nat /\ events_ \in [DOMAIN events_ -> Slot]
    /\ checkNow \in Nat
    /\ process_queue_ \in Seq(Slot)
    /\ runPc \in {"top", "offload", "pop", "process"}
    /\ queue_size \in Nat \ {0}
    /\ tasks_ \in Seq(Seq(Slot))
    /\ vec \in [Workers -> Seq(Slot)]
    /\ left \in [Workers -> SUBSET Key]
    /\ rows \subseteq Row
    /\ failed \subseteq Items /\ dups \subseteq Items
    /\ received \subseteq Reports /\ accepted \subseteq Reports
    /\ flushed \subseteq Nat

(* The items of worker w's current slot that are not in a row yet.         *)
Unwritten(w) == UNION {KeptOfKey(Head(vec[w]).data, k) : k \in left[w]}

(* The number of places that hold item i.                                  *)
Places(i) ==
      Cardinality({k \in DOMAIN events_ : i \in ItemsIn(events_[k].data)})
    + Cardinality({n \in DOMAIN process_queue_ : i \in ItemsIn(process_queue_[n].data)})
    + Cardinality({p \in UNION {{n} \X DOMAIN tasks_[n] : n \in DOMAIN tasks_} :
                      i \in ItemsIn(tasks_[p[1]][p[2]].data)})
    + Cardinality({p \in UNION {{w} \X (DOMAIN vec[w] \ {1}) : w \in Workers} :
                      i \in ItemsIn(vec[p[1]][p[2]].data)})
    + Cardinality({w \in Workers : i \in Unwritten(w)})
    + Cardinality({r \in rows : i \in r.items})
    + Cardinality({S \in {<<1, failed>>, <<2, dups>>} : i \in S[2]})

(* An item of a report that add_event accepted is at every moment in       *)
(* exactly one place - an open slot, the process queue, a batch of the     *)
(* TinyTask, the unfinished work of a thread, a row, or the items given up *)
(* by a failed insert or the duplicate check - and an item of any other    *)
(* report is nowhere: nothing is lost or counted twice on the way through  *)
(* do_add_event, linger_check_run, run and run_once_task.                  *)
EveryItemOnce ==
    \A r \in Reports : \A i \in ItemsIn(r.data) :
        Places(i) = IF r \in accepted THEN 1 ELSE 0

(* linger_check_run hands a slot over only when no report for it can pass  *)
(* the age check any more: an open slot is later than every slot that was  *)
(* pushed, so no slot is ever opened a second time.  Needs MaxDelay <= 1   *)
(* and an event_linger that is not changed at run time.                    *)
OpenAfterFlushed == \A k \in DOMAIN events_ : \A f \in flushed : f < k

(* The slots wait in process_queue_ in the order of their time stamps, so  *)
(* run() and the batches it hands over see the oldest slots first.         *)
QueueInOrder ==
    \A m, n \in DOMAIN process_queue_ :
        m < n => process_queue_[m].timestamp < process_queue_[n].timestamp

(* A row counts everything it stands for: an item accepted for the same    *)
(* slot, metric and tag is in the row or was dropped as a duplicate, and   *)
(* none is accepted later.  Needs a configuration that does not change.    *)
RowsComplete ==
    \A row \in rows : \A r \in accepted : \A i \in ItemsIn(r.data) :
        (/\ nice_step(r.timestamp, row.step) = row.timestamp
         /\ <<i.metric, i.tag>> = row.key) => i \in row.items \cup dups

(* Every item of an accepted report ends up in a row, or is given up by a  *)
(* failed insert or the duplicate check.                                   *)
Settled(r) == ItemsIn(r.data) \subseteq (UNION {row.items : row \in rows}) \cup failed \cup dups
AcceptedIsSettled == \A r \in Reports : r \in accepted ~> Settled(r)

=============================================================================
