------------------------- MODULE EventHandlerProofs -------------------------
(* Theorems about EventHandler, for every value of its constants. *)
EXTENDS EventHandler, FiniteSetTheorems, TLAPS

(* What the duplicate check returns is a set of positions of its argument. *)
LEMMA KeptType ==
    ASSUME NEW data \in Seq(Items)
    PROVE  /\ Kept(data) \subseteq DOMAIN data
           /\ \A k : KeptOfKey(data, k) \subseteq Items
           /\ RowKeys(data) \subseteq Key
           /\ Duplicates(data) \subseteq Items
<1>1. Kept(data) \subseteq DOMAIN data
  BY DEF Kept
<1>2. \A i \in DOMAIN data : data[i] \in Items
  OBVIOUS
<1>3. ASSUME NEW k PROVE KeptOfKey(data, k) \subseteq Items
  BY <1>1, <1>2 DEF KeptOfKey
<1>4. RowKeys(data) \subseteq Key
  BY <1>1, <1>2 DEF RowKeys, Key
<1>5. Duplicates(data) \subseteq Items
  BY <1>2 DEF Duplicates
<1> QED BY <1>1, <1>3, <1>4, <1>5

(* The slot of a time stamp is strictly later than the time stamp. *)
LEMMA NiceStepLater ==
    ASSUME NEW t \in Nat, NEW step \in Nat \ {0}
    PROVE  nice_step(t, step) \in Nat /\ nice_step(t, step) > t
<1>1. t % step \in 0 .. (step - 1)
  OBVIOUS
<1> QED BY <1>1 DEF nice_step

(* A batch of consecutive elements of a sequence is a sequence over the    *)
(* same elements.                                                          *)
LEMMA SubSeqType ==
    ASSUME NEW S, NEW s \in Seq(S), NEW m \in Nat \ {0}, NEW n \in Nat, n <= Len(s)
    PROVE  SubSeq(s, m, n) \in Seq(S)
  OBVIOUS

LEMMA DropFirst ==
    ASSUME NEW S, NEW s \in Seq(S), NEW n \in Nat, n <= Len(s)
    PROVE  /\ SubSeq(s, n + 1, Len(s)) \in Seq(S)
           /\ Len(SubSeq(s, n + 1, Len(s))) = Len(s) - n
           /\ \A i \in 1 .. (Len(s) - n) : SubSeq(s, n + 1, Len(s))[i] = s[i + n]
  OBVIOUS

(* The rows and the duplicates of the first slot of a batch.               *)
LEMMA BatchType ==
    ASSUME NEW v \in Seq(Slot)
    PROVE  /\ RowsToInsert(v) \subseteq Key
           /\ NewDups(v) \subseteq Items
           /\ RowsToInsert(v) # {} => v # <<>>
<1>1. CASE v = <<>>
  BY <1>1 DEF RowsToInsert, NewDups
<1>2. CASE v # <<>>
  <2>1. Head(v).data \in Seq(Items)
    <3>1. Head(v) \in Slot
      BY <1>2
    <3> QED BY <3>1 DEF Slot
  <2> QED BY <1>2, <2>1, KeptType DEF RowsToInsert, NewDups
<1> QED BY <1>1, <1>2

-----------------------------------------------------------------------------
(* TypeOK is not inductive: an executor between the check and the insert   *)
(* has a report in hand, and a worker with rows to insert has a slot.      *)
InHand ==
    /\ \A e \in Executors : add[e].pc # "idle" => add[e].report \in Reports
    /\ \A w \in Workers : left[w] # {} => vec[w] # <<>>

TypeInv == TypeOK /\ InHand

LEMMA InitType == Init => TypeInv
  BY ConfAssumption DEF Init, TypeInv, TypeOK, InHand, Idle, AddState, Conf

LEMMA NextType == TypeInv /\ [Next]_vars => TypeInv'
<1> SUFFICES ASSUME TypeInv, [Next]_vars PROVE TypeInv'
  OBVIOUS
<1> USE DEF TypeInv
<1>1. CASE Tick
  BY <1>1 DEF TypeOK, InHand, Tick, slotVars, runVars, workVars, history
<1>2. ASSUME NEW e \in Executors, NEW r \in Reports, AddEventReject(e, r)
      PROVE  TypeInv'
  BY <1>2 DEF TypeOK, InHand, AddEventReject, slotVars, runVars, workVars
<1>3. ASSUME NEW e \in Executors, NEW r \in Reports, AddEventPass(e, r)
      PROVE  TypeInv'
  BY <1>3 DEF TypeOK, InHand, AddEventPass, AddState, slotVars, runVars, workVars
<1>4. ASSUME NEW e \in Executors, AddEventLock(e) PROVE TypeInv'
  <2>1. nice_step(add[e].report.timestamp, conf_.step) \in Nat
    BY <1>4, NiceStepLater, ReportsAssumption DEF AddEventLock, TypeOK, InHand, Conf
  <2>2. PICK k \in Nat : add' = [add EXCEPT ![e].pc = "locked", ![e].key = k]
    BY <1>4, <2>1 DEF AddEventLock
  <2>3. /\ add' \in [Executors -> AddState]
        /\ \A f \in Executors : add'[f].report = add[f].report
        /\ \A f \in Executors : add[f].pc = "idle" => add'[f].pc = "idle"
    <3>1. add[e].pc # "idle" /\ add \in [Executors -> AddState]
      BY <1>4 DEF AddEventLock, TypeOK
    <3> QED BY <2>2, <3>1 DEF AddState
  <2> QED BY <1>4, <2>3 DEF TypeOK, InHand, AddEventLock, runVars, workVars, history
<1>5. ASSUME NEW e \in Executors, do_add_event(e) PROVE TypeInv'
  <2> DEFINE k == add[e].key
             slot == FindOrCreate(k)
             new == [timestamp |-> slot.timestamp, step |-> slot.step,
                     data |-> slot.data \o add[e].report.data]
  <2>1. k \in Nat /\ add[e].report \in Reports
    BY <1>5 DEF do_add_event, TypeOK, InHand, AddState
  <2>2. slot \in Slot
    BY <2>1 DEF FindOrCreate, TypeOK, Slot, Conf
  <2>3. add[e].report.data \in Seq(Items)
    BY <2>1, ReportsAssumption
  <2>4. new \in Slot
    BY <2>2, <2>3 DEF Slot
  <2>5. /\ DOMAIN events_' = DOMAIN events_ \cup {k}
        /\ \A t \in DOMAIN events_' : events_'[t] = IF t = k THEN new ELSE events_[t]
        /\ events_' = [t \in DOMAIN events_' |-> events_'[t]]
    BY <1>5 DEF do_add_event
  <2>6. DOMAIN events_' \subseteq Nat /\ events_' \in [DOMAIN events_' -> Slot]
    BY <2>1, <2>4, <2>5 DEF TypeOK
  <2>7. add' \in [Executors -> AddState]
    BY <1>5 DEF do_add_event, TypeOK, AddState, Idle
  <2>8. \A x \in Executors : add'[x].pc # "idle" => add'[x].report \in Reports
    BY <1>5 DEF do_add_event, InHand, Idle, TypeOK
  <2> QED
    BY <1>5, <2>1, <2>6, <2>7, <2>8 DEF TypeOK, InHand, do_add_event, runVars, workVars
<1>6. CASE LingerCheckLock
  BY <1>6 DEF TypeOK, InHand, LingerCheckLock, runVars, workVars, history
<1>7. ASSUME NEW k \in DOMAIN events_, LingerFlush(k) PROVE TypeInv'
  BY <1>7 DEF TypeOK, InHand, LingerFlush, First, runVars, workVars
<1>8. CASE LingerCheckUnlock
  BY <1>8 DEF TypeOK, InHand, LingerCheckUnlock, runVars, workVars, history
<1>9. CASE RunTop
  BY <1>9 DEF TypeOK, InHand, RunTop, Conf, slotVars, workVars, history
<1>10. CASE RunOffload
  <2>1. /\ queue_size \in Nat \ {0} /\ process_queue_ \in Seq(Slot)
        /\ Len(process_queue_) \in Nat /\ queue_size <= Len(process_queue_)
    BY <1>10 DEF RunOffload, TypeOK
  <2>2. /\ SubSeq(process_queue_, 1, queue_size) \in Seq(Slot)
        /\ SubSeq(process_queue_, queue_size + 1, Len(process_queue_)) \in Seq(Slot)
    BY <2>1, SubSeqType
  <2>a. PICK b \in Seq(Slot) : b = SubSeq(process_queue_, 1, queue_size)
    BY <2>2
  <2>b. tasks_' = Append(tasks_, b) /\ tasks_ \in Seq(Seq(Slot))
    BY <1>10, <2>a DEF RunOffload, TypeOK
  <2>c. tasks_' \in Seq(Seq(Slot))
    BY ONLY <2>b, b \in Seq(Slot)
  <2>3. tasks_' \in Seq(Seq(Slot)) /\ process_queue_' \in Seq(Slot)
    BY <1>10, <2>2, <2>c DEF RunOffload
  <2> QED BY <1>10, <2>3 DEF TypeOK, InHand, RunOffload, slotVars, runVars, workVars, history
<1>11. CASE RunOffloadDone
  BY <1>11 DEF TypeOK, InHand, RunOffloadDone, slotVars, workVars, history
<1>12. CASE RunPop
  <2>1. Head(process_queue_) \in Slot /\ Tail(process_queue_) \in Seq(Slot)
    BY <1>12 DEF RunPop, TypeOK
  <2>2. Head(process_queue_).data \in Seq(Items)
    BY <2>1 DEF Slot
  <2>3. /\ RowKeys(Head(process_queue_).data) \subseteq Key
        /\ Duplicates(Head(process_queue_).data) \subseteq Items
    BY <2>2, KeptType
  <2>4. Runner \in Workers
    BY DEF Workers
  <2> QED BY <1>12, <2>1, <2>3, <2>4 DEF TypeOK, InHand, RunPop, slotVars, history
<1>13. CASE RunPopTimeout
  BY <1>13 DEF TypeOK, InHand, RunPopTimeout, slotVars, workVars, history
<1>14. CASE RunProcessed
  <2>1. vec' \in [Workers -> Seq(Slot)]
    <3>1. <<>> \in Seq(Slot)
      OBVIOUS
    <3> QED BY <1>14, <3>1 DEF TypeOK, RunProcessed
  <2>2. \A w \in Workers : left'[w] # {} => vec'[w] # <<>>
    BY <1>14 DEF TypeOK, InHand, RunProcessed
  <2> QED BY <1>14, <2>1, <2>2 DEF TypeOK, InHand, RunProcessed, slotVars, history
<1>15. CASE HelpersSpawn
  <2> DEFINE n == IF Len(tasks_) < MaxSpawn THEN Len(tasks_) ELSE MaxSpawn
  <2>1. /\ Len(tasks_) \in Nat /\ n \in Nat /\ n <= Len(tasks_)
        /\ \A w \in 1 .. n : tasks_[w] \in Seq(Slot)
    BY ConfAssumption DEF TypeOK
  <2>2. tasks_' \in Seq(Seq(Slot))
    <3>1. SubSeq(tasks_, n + 1, Len(tasks_)) \in Seq(Seq(Slot))
      BY <2>1, SubSeqType DEF TypeOK
    <3> QED BY <1>15, <3>1 DEF HelpersSpawn
  <2>3. vec' \in [Workers -> Seq(Slot)]
    BY <1>15, <2>1 DEF HelpersSpawn, TypeOK
  <2>4. /\ \A w \in 1 .. n : RowsToInsert(tasks_[w]) \subseteq Key
        /\ \A w \in 1 .. n : NewDups(tasks_[w]) \subseteq Items
        /\ \A w \in 1 .. n : RowsToInsert(tasks_[w]) # {} => tasks_[w] # <<>>
    BY <2>1, BatchType
  <2>5. left' \in [Workers -> SUBSET Key]
    BY <1>15, <2>4 DEF HelpersSpawn, TypeOK
  <2>6. dups' \subseteq Items
    BY <1>15, <2>4 DEF HelpersSpawn, TypeOK
  <2>7. \A w \in Workers : left'[w] # {} => vec'[w] # <<>>
    BY <1>15, <2>4 DEF HelpersSpawn, InHand
  <2> QED
    BY <1>15, <2>2, <2>3, <2>5, <2>6, <2>7 DEF HelpersSpawn, TypeOK, InHand, slotVars, runVars, history
<1>16. ASSUME NEW w \in Workers, NEW k \in left[w], InsertOk(w, k) PROVE TypeInv'
  <2>1. Head(vec[w]) \in Slot
    BY <1>16 DEF InsertOk, TypeOK, InHand
  <2>2. StatRow(Head(vec[w]), k) \in Row
    <3>1. Head(vec[w]).data \in Seq(Items) /\ Head(vec[w]).step % 256 \in 0 .. 255
      <4>1. Head(vec[w]).data \in Seq(Items) /\ Head(vec[w]).step \in Nat
        BY <2>1 DEF Slot
      <4>2. \A n \in Nat : n % 256 \in 0 .. 255
        OBVIOUS
      <4> QED BY <4>1, <4>2
    <3>2. KeptOfKey(Head(vec[w]).data, k) \subseteq Items
      BY <3>1, KeptType
    <3>3. k \in Key
      BY DEF TypeOK
    <3> QED BY <2>1, <3>1, <3>2, <3>3 DEF StatRow, Row, Slot
  <2> QED BY <1>16, <2>2 DEF TypeOK, InHand, InsertOk, slotVars, runVars, history
<1>17. ASSUME NEW w \in Workers, NEW k \in left[w], InsertFailed(w, k) PROVE TypeInv'
  <2>1. Head(vec[w]) \in Slot
    BY <1>17 DEF InsertFailed, TypeOK, InHand
  <2>2. KeptOfKey(Head(vec[w]).data, k) \subseteq Items
    BY <2>1, KeptType DEF Slot
  <2> QED BY <1>17, <2>2 DEF TypeOK, InHand, InsertFailed, slotVars, runVars, history
<1>18. ASSUME NEW h \in Helpers, NextSlot(h) PROVE TypeInv'
  <2>1. h \in Workers /\ vec[h] \in Seq(Slot) /\ vec[h] # <<>>
    BY <1>18 DEF NextSlot, TypeOK, Workers
  <2>2. Tail(vec[h]) \in Seq(Slot)
    BY <2>1
  <2>3. /\ RowsToInsert(Tail(vec[h])) \subseteq Key
        /\ NewDups(Tail(vec[h])) \subseteq Items
        /\ RowsToInsert(Tail(vec[h])) # {} => Tail(vec[h]) # <<>>
    BY <2>2, BatchType
  <2>4. \A w \in Workers : left'[w] # {} => vec'[w] # <<>>
    BY <1>18, <2>1, <2>3 DEF NextSlot, TypeOK, InHand
  <2> QED
    BY <1>18, <2>1, <2>2, <2>3, <2>4 DEF TypeOK, InHand, NextSlot, slotVars, runVars, history
<1>19. ASSUME NEW v \in LingerUpdates \cup StepUpdates \cup SizeUpdates,
              UpdateLinger(v) \/ UpdateStep(v) \/ UpdateSize(v)
       PROVE  TypeInv'
  BY <1>19, ConfAssumption DEF TypeOK, InHand, UpdateLinger, UpdateStep, UpdateSize, Conf,
                               slotVars, runVars, workVars, history
<1>20. CASE UNCHANGED vars
  BY <1>20 DEF TypeOK, InHand, vars, slotVars, runVars, workVars, history
<1> QED
  BY <1>1, <1>2, <1>3, <1>4, <1>5, <1>6, <1>7, <1>8, <1>9, <1>10, <1>11, <1>12, <1>13,
     <1>14, <1>15, <1>16, <1>17, <1>18, <1>19, <1>20
     DEF Next, AddEvent, linger_check_run, run, Insert

(* Every variable of the handler keeps its type, whatever the executors,   *)
(* the timer, run(), the helpers and update_runtime_conf do.               *)
THEOREM TypeCorrect == Spec => []TypeOK
<1>1. TypeInv => TypeOK
  BY DEF TypeInv
<1> QED BY <1>1, InitType, NextType, PTL DEF Spec

-----------------------------------------------------------------------------
(* Why no slot is opened twice.  A slot f that was pushed satisfies        *)
(* f + linger < now.  A report that passed the age check satisfies         *)
(* at - timestamp <= linger, its slot is at least timestamp + 1, and at    *)
(* most one tick has gone by since: its slot k satisfies k + linger >= now. *)
CheckedInTime ==
    \A e \in Executors : add[e].pc # "idle" =>
        /\ now <= add[e].at + MaxDelay
        /\ add[e].at <= add[e].report.timestamp + conf_.linger
        /\ add[e].pc = "locked" => add[e].report.timestamp < add[e].key

FlushedWereDue == checkNow <= now /\ \A f \in flushed : f + conf_.linger < now

QueueWasFlushed ==
    /\ \A k \in DOMAIN events_ : events_[k].timestamp = k
    /\ \A n \in DOMAIN process_queue_ : process_queue_[n].timestamp \in flushed

FlushInv == CheckedInTime /\ FlushedWereDue /\ QueueWasFlushed /\ OpenAfterFlushed /\ QueueInOrder

LEMMA InitFlush == Init => FlushInv
  BY ConfAssumption DEF Init, FlushInv, CheckedInTime, FlushedWereDue, QueueWasFlushed,
       OpenAfterFlushed, QueueInOrder, Idle

(* Taking elements from the front of the queue keeps what is left in order *)
(* and among the flushed slots.                                            *)
LEMMA QueueSuffix ==
    ASSUME TypeOK, QueueWasFlushed, QueueInOrder,
           NEW m \in Nat, m <= Len(process_queue_),
           process_queue_' = SubSeq(process_queue_, m + 1, Len(process_queue_)),
           UNCHANGED <<events_, flushed>>
    PROVE  QueueWasFlushed' /\ QueueInOrder'
<1>1. process_queue_ \in Seq(Slot) /\ Len(process_queue_) \in Nat
  BY DEF TypeOK
<1>2. /\ DOMAIN process_queue_' = 1 .. (Len(process_queue_) - m)
      /\ \A n \in DOMAIN process_queue_' :
             n + m \in DOMAIN process_queue_ /\ process_queue_'[n] = process_queue_[n + m]
  BY <1>1
<1>3. \A a, b \in DOMAIN process_queue_' : a < b => a + m < b + m
  BY <1>2
<1> QED BY <1>2, <1>3 DEF QueueWasFlushed, QueueInOrder

LEMMA NextFlush ==
    ASSUME LingerUpdates = {}, MaxDelay <= 1
    PROVE  TypeInv /\ FlushInv /\ [Next]_vars => FlushInv'
<1> SUFFICES ASSUME TypeInv, FlushInv, [Next]_vars PROVE FlushInv'
  OBVIOUS
<1> USE DEF FlushInv
<1>0. /\ now \in Nat /\ conf_ \in Conf /\ conf_.linger \in Nat /\ MaxDelay \in Nat /\ checkNow \in Nat
      /\ \A e \in Executors : add[e].at \in Nat /\ add[e].key \in Nat
      /\ flushed \subseteq Nat /\ DOMAIN events_ \subseteq Nat
      /\ process_queue_ \in Seq(Slot) /\ Len(process_queue_) \in Nat
  <2>1. conf_ \in Conf
    BY DEF TypeInv, TypeOK
  <2>2. conf_.linger \in Nat
    BY <2>1 DEF Conf
  <2>3. \A e \in Executors : add[e].at \in Nat /\ add[e].key \in Nat
    BY DEF TypeInv, TypeOK, AddState
  <2> QED BY <2>1, <2>2, <2>3, ConfAssumption DEF TypeInv, TypeOK
<1>t. \A e \in Executors : add[e].pc # "idle" => add[e].report.timestamp \in Nat
  BY ReportsAssumption DEF TypeInv, InHand
<1>1. CASE Tick
  <2>1. CheckedInTime'
    BY <1>1, <1>0, <1>t DEF Tick, CheckedInTime
  <2>2. FlushedWereDue'
    BY <1>1, <1>0 DEF Tick, FlushedWereDue, slotVars, history
  <2> QED BY <1>1, <2>1, <2>2 DEF Tick, QueueWasFlushed, OpenAfterFlushed, QueueInOrder, slotVars, history
<1>2. ASSUME NEW e \in Executors, NEW r \in Reports, AddEventReject(e, r)
      PROVE  FlushInv'
  BY <1>2 DEF AddEventReject, CheckedInTime, FlushedWereDue, QueueWasFlushed,
              OpenAfterFlushed, QueueInOrder, slotVars
<1>3. ASSUME NEW e \in Executors, NEW r \in Reports, AddEventPass(e, r)
      PROVE  FlushInv'
  <2>1. CheckedInTime'
    BY <1>3, <1>0, <1>t, ReportsAssumption DEF AddEventPass, TooOld, CheckedInTime, TypeInv, TypeOK
  <2> QED BY <1>3, <2>1 DEF AddEventPass, FlushedWereDue, QueueWasFlushed,
                            OpenAfterFlushed, QueueInOrder, slotVars
<1>4. ASSUME NEW e \in Executors, AddEventLock(e) PROVE FlushInv'
  <2>1. add[e].report.timestamp < nice_step(add[e].report.timestamp, conf_.step)
    BY <1>4, <1>0, <1>t, NiceStepLater DEF AddEventLock, Conf
  <2>2. CheckedInTime'
    BY <1>4, <1>0, <1>t, <2>1 DEF AddEventLock, CheckedInTime, TypeInv, TypeOK, AddState
  <2> QED BY <1>4, <2>2 DEF AddEventLock, FlushedWereDue, QueueWasFlushed,
                            OpenAfterFlushed, QueueInOrder, history
<1>5. ASSUME NEW e \in Executors, do_add_event(e) PROVE FlushInv'
  <2>1. CheckedInTime'
    BY <1>5, <1>0 DEF do_add_event, CheckedInTime, TypeInv, TypeOK, Idle
  <2>2. \A f \in flushed : f < add[e].key
    <3>1. now <= add[e].at + 1 /\ add[e].at < add[e].key + conf_.linger
      BY <1>5, <1>0, <1>t DEF do_add_event, CheckedInTime
    <3>2. ASSUME NEW f \in flushed PROVE f < add[e].key
      <4>1. f \in Nat /\ f + conf_.linger < now
        BY <1>0 DEF FlushedWereDue
      <4> QED BY <1>0, <3>1, <4>1
    <3> QED BY <3>2
  <2>3. DOMAIN events_' = DOMAIN events_ \cup {add[e].key}
    BY <1>5 DEF do_add_event
  <2>4. \A k \in DOMAIN events_' : events_'[k].timestamp = k
    BY <1>5, <2>3 DEF do_add_event, FindOrCreate, QueueWasFlushed
  <2> QED BY <1>5, <2>1, <2>2, <2>3, <2>4 DEF do_add_event, FlushedWereDue, QueueWasFlushed,
                            OpenAfterFlushed, QueueInOrder
<1>6. CASE LingerCheckLock
  BY <1>6, <1>0 DEF LingerCheckLock, CheckedInTime, FlushedWereDue, QueueWasFlushed,
              OpenAfterFlushed, QueueInOrder, history
<1>7. ASSUME NEW k \in DOMAIN events_, LingerFlush(k) PROVE FlushInv'
  <2>1. k \in Nat /\ k + conf_.linger < now
    BY <1>7, <1>0 DEF LingerFlush, Expired, FlushedWereDue
  <2>2. FlushedWereDue'
    BY <1>7, <2>1 DEF LingerFlush, FlushedWereDue
  <2>3. OpenAfterFlushed'
    <3>1. /\ DOMAIN events_' = DOMAIN events_ \ {k}
          /\ flushed' = flushed \cup {k}
      BY <1>7 DEF LingerFlush
    <3>2. \A o \in DOMAIN events_' : o \in Nat /\ k < o
      BY <1>7, <1>0, <2>1, <3>1 DEF LingerFlush, First
    <3> QED BY <3>1, <3>2 DEF OpenAfterFlushed
  <2>4. /\ DOMAIN process_queue_' = 1 .. (Len(process_queue_) + 1)
        /\ \A n \in DOMAIN process_queue_ : process_queue_'[n] = process_queue_[n]
        /\ process_queue_'[Len(process_queue_) + 1].timestamp = k
    BY <1>7, <1>0 DEF LingerFlush, QueueWasFlushed
  <2>5. QueueWasFlushed'
    BY <1>7, <1>0, <2>4 DEF LingerFlush, QueueWasFlushed
  <2>6. \A n \in DOMAIN process_queue_ : process_queue_[n].timestamp < k
    BY <1>0 DEF QueueWasFlushed, OpenAfterFlushed
  <2>7. QueueInOrder'
    BY <1>0, <2>4, <2>6 DEF QueueInOrder
  <2> QED BY <1>7, <2>2, <2>3, <2>5, <2>7 DEF LingerFlush, CheckedInTime
<1>8. CASE LingerCheckUnlock
  BY <1>8, <1>0 DEF LingerCheckUnlock, CheckedInTime, FlushedWereDue, QueueWasFlushed,
              OpenAfterFlushed, QueueInOrder, history
<1>9. CASE RunTop \/ RunOffloadDone \/ RunPopTimeout \/ RunProcessed
  BY <1>9 DEF RunTop, RunOffloadDone, RunPopTimeout, RunProcessed, CheckedInTime, FlushedWereDue,
              QueueWasFlushed, OpenAfterFlushed, QueueInOrder, slotVars, history
<1>10. CASE RunOffload
  <2>1. queue_size \in Nat /\ queue_size <= Len(process_queue_)
    BY <1>10, <1>0 DEF RunOffload, TypeInv, TypeOK
  <2>2. QueueWasFlushed' /\ QueueInOrder'
    BY <1>10, <2>1, QueueSuffix DEF RunOffload, TypeInv, slotVars, history
  <2> QED BY <1>10, <2>2 DEF RunOffload, CheckedInTime, FlushedWereDue, OpenAfterFlushed,
                             slotVars, history
<1>11. CASE RunPop
  <2>1. 1 <= Len(process_queue_) /\ process_queue_' = SubSeq(process_queue_, 1 + 1, Len(process_queue_))
    BY <1>11, <1>0 DEF RunPop
  <2>2. QueueWasFlushed' /\ QueueInOrder'
    BY <1>11, <2>1, QueueSuffix DEF RunPop, TypeInv, slotVars, history
  <2> QED BY <1>11, <2>2 DEF RunPop, CheckedInTime, FlushedWereDue, OpenAfterFlushed,
                             slotVars, history
<1>12. CASE HelpersSpawn
  BY <1>12 DEF HelpersSpawn, CheckedInTime, FlushedWereDue,
              QueueWasFlushed, OpenAfterFlushed, QueueInOrder, slotVars, history
<1>13. ASSUME NEW w \in Workers, NEW k \in left[w], InsertOk(w, k) \/ InsertFailed(w, k)
       PROVE  FlushInv'
  BY <1>13 DEF InsertOk, InsertFailed, CheckedInTime, FlushedWereDue,
              QueueWasFlushed, OpenAfterFlushed, QueueInOrder, slotVars, history
<1>14. ASSUME NEW h \in Helpers, NextSlot(h) PROVE FlushInv'
  BY <1>14 DEF NextSlot, CheckedInTime, FlushedWereDue,
              QueueWasFlushed, OpenAfterFlushed, QueueInOrder, slotVars, history
<1>15. ASSUME NEW v, UpdateStep(v) \/ UpdateSize(v) PROVE FlushInv'
  <2>1. conf_'.linger = conf_.linger
    BY <1>15, <1>0 DEF UpdateStep, UpdateSize, Conf
  <2> QED BY <1>15, <2>1 DEF UpdateStep, UpdateSize, CheckedInTime, FlushedWereDue,
              QueueWasFlushed, OpenAfterFlushed, QueueInOrder, slotVars, history
<1>16. CASE UNCHANGED vars
  BY <1>16 DEF vars, CheckedInTime, FlushedWereDue,
              QueueWasFlushed, OpenAfterFlushed, QueueInOrder, slotVars, history
<1> QED
  BY <1>1, <1>2, <1>3, <1>4, <1>5, <1>6, <1>7, <1>8, <1>9, <1>10, <1>11, <1>12, <1>13,
     <1>14, <1>15, <1>16
     DEF Next, AddEvent, linger_check_run, run, Insert

(* With event_linger fixed and no thread held up for more than one tick    *)
(* between the age check and the insert, no slot that linger_check_run     *)
(* handed over is opened again, for any reports, threads, clock and step   *)
(* or batch size changes.                                                  *)
THEOREM SlotsFlushedOnce ==
    ASSUME LingerUpdates = {}, MaxDelay <= 1
    PROVE  Spec => []OpenAfterFlushed
<1>1. FlushInv => OpenAfterFlushed
  BY DEF FlushInv
<1> QED BY <1>1, InitType, NextType, InitFlush, NextFlush, PTL DEF Spec

(* Under the same conditions process_queue_ is ordered by time stamp.      *)
THEOREM QueueOrdered ==
    ASSUME LingerUpdates = {}, MaxDelay <= 1
    PROVE  Spec => []QueueInOrder
<1>1. FlushInv => QueueInOrder
  BY DEF FlushInv
<1> QED BY <1>1, InitType, NextType, InitFlush, NextFlush, PTL DEF Spec

-----------------------------------------------------------------------------
(* Why every item is in one place.  The places an item can be in, as sets  *)
(* of positions: of a queue or of the open slots, of the batches of the    *)
(* TinyTask, of the slots that the workers have not begun, of the workers  *)
(* that have it in a row still to be inserted.                             *)
Holding(q, i) == {n \in DOMAIN q : i \in ItemsIn(q[n].data)}

InBatches(T, i) ==
    {p \in UNION {{n} \X DOMAIN T[n] : n \in DOMAIN T} : i \in ItemsIn(T[p[1]][p[2]].data)}

Waiting(V, i) ==
    {p \in UNION {{w} \X (DOMAIN V[w] \ {1}) : w \in Workers} : i \in ItemsIn(V[p[1]][p[2]].data)}

HasRow(v, l, i) == \E k \in l : i \in KeptOfKey(Head(v).data, k)
Working(V, L, i) == {w \in Workers : HasRow(V[w], L[w], i)}
Written(R, i) == {r \in R : i \in r.items}

(* The size of a set as far as it matters: none, one, or more.             *)
Size(S) == IF S = {} THEN 0 ELSE IF \E x \in S : S = {x} THEN 1 ELSE 2
Flag(x, S) == IF x \in S THEN 1 ELSE 0

Total(i) ==
    Size(Holding(events_, i)) + Size(Holding(process_queue_, i)) + Size(InBatches(tasks_, i))
        + Size(Waiting(vec, i)) + Size(Working(vec, left, i)) + Size(Written(rows, i))
        + Flag(i, failed) + Flag(i, dups)

(* A slot in which no item occurs twice: the duplicate check then sends    *)
(* each item to one row or to dups.                                        *)
Apart(data) == \A m, n \in DOMAIN data : data[m] = data[n] => m = n
CleanSlot == {s \in Slot : Apart(s.data)}

SlotsClean ==
    /\ \A k \in DOMAIN events_ : events_[k] \in CleanSlot
    /\ process_queue_ \in Seq(CleanSlot)
    /\ tasks_ \in Seq(Seq(CleanSlot))
    /\ vec \in [Workers -> Seq(CleanSlot)]

(* A report is accepted once: it is in one executor's hand, and then in    *)
(* accepted.                                                               *)
AcceptOnce ==
    /\ accepted \subseteq received
    /\ \A e \in Executors : add[e].pc # "idle" => add[e].report \in received \ accepted
    /\ \A e, f \in Executors :
           add[e].pc # "idle" /\ add[f].pc # "idle" /\ add[e].report = add[f].report => e = f

(* run() works on one slot at a time and has finished it when it goes back *)
(* to the queue.                                                           *)
RunnerHasOne == vec[Runner] = <<>> \/ (runPc = "process" /\ Len(vec[Runner]) = 1)

PlacesAddUp ==
    \A r \in Reports : \A i \in ItemsIn(r.data) : Total(i) = Flag(r, accepted)

ItemInv == SlotsClean /\ AcceptOnce /\ RunnerHasOne /\ PlacesAddUp

LEMMA SizeFacts ==
    ASSUME NEW S
    PROVE  /\ Size(S) \in {0, 1, 2}
           /\ Size(S) = 0 <=> S = {}
           /\ Size(S) = 1 <=> \E x : S = {x}
  BY DEF Size

(* The sizes of two sets that exchange elements still add up, when there   *)
(* was at most one element.                                                *)
Moved(A, B, C, D) ==
    /\ A = {} /\ B = {} => C = {} /\ D = {}
    /\ \A x : A = {x} /\ B = {} => Size(C) + Size(D) = 1
    /\ \A x : A = {} /\ B = {x} => Size(C) + Size(D) = 1

LEMMA SizesMove ==
    ASSUME NEW A, NEW B, NEW C, NEW D, Moved(A, B, C, D), Size(A) + Size(B) <= 1
    PROVE  Size(C) + Size(D) = Size(A) + Size(B)
<1> USE DEF Moved
<1>1. /\ Size(A) \in {0, 1, 2} /\ Size(B) \in {0, 1, 2}
      /\ Size(A) = 0 <=> A = {}
      /\ Size(B) = 0 <=> B = {}
      /\ Size(C) = 0 <=> C = {}
      /\ Size(D) = 0 <=> D = {}
      /\ Size(A) = 1 => \E x : A = {x}
      /\ Size(B) = 1 => \E x : B = {x}
  BY SizeFacts
<1>2. CASE Size(A) = 0 /\ Size(B) = 0
  BY <1>1, <1>2
<1>3. CASE Size(A) = 1 /\ Size(B) = 0
  BY <1>1, <1>3
<1>4. CASE Size(A) = 0 /\ Size(B) = 1
  BY <1>1, <1>4
<1> QED BY <1>1, <1>2, <1>3, <1>4

LEMMA SizeOne == ASSUME NEW x PROVE Size({x}) = 1 /\ Size({}) = 0
  BY SizeFacts

(* With no item twice in a slot, the duplicate check sends every item of   *)
(* the slot either to dups or to one of the rows.                          *)
LEMMA KeptOrDuplicate ==
    ASSUME NEW data \in Seq(Items), Apart(data), NEW i
    PROVE  /\ i \notin ItemsIn(data) =>
                 /\ i \notin Duplicates(data)
                 /\ \A k : i \notin KeptOfKey(data, k)
           /\ i \in ItemsIn(data) =>
                 \/ /\ i \in Duplicates(data)
                    /\ \A k : i \notin KeptOfKey(data, k)
                 \/ /\ i \notin Duplicates(data)
                    /\ \E k \in RowKeys(data) : i \in KeptOfKey(data, k)
<1>1. Kept(data) \subseteq DOMAIN data
  BY DEF Kept
<1>2. CASE i \notin ItemsIn(data)
  BY <1>1, <1>2 DEF ItemsIn, Duplicates, KeptOfKey
<1>3. ASSUME NEW p \in DOMAIN data, i = data[p]
      PROVE  \/ /\ i \in Duplicates(data)
                /\ \A k : i \notin KeptOfKey(data, k)
             \/ /\ i \notin Duplicates(data)
                /\ \E k \in RowKeys(data) : i \in KeptOfKey(data, k)
  <2>1. \A n \in DOMAIN data : data[n] = i => n = p
    BY <1>3 DEF Apart
  <2>2. CASE p \in Kept(data)
    BY <1>1, <1>3, <2>1, <2>2 DEF Duplicates, KeptOfKey, RowKeys
  <2>3. CASE p \notin Kept(data)
    BY <1>1, <1>3, <2>1, <2>3 DEF Duplicates, KeptOfKey
  <2> QED BY <2>2, <2>3
<1> QED BY <1>2, <1>3 DEF ItemsIn

(* An item is in the row of its own key only.                              *)
LEMMA OneRow ==
    ASSUME NEW data, NEW i, NEW j, NEW k, i \in KeptOfKey(data, j), i \in KeptOfKey(data, k)
    PROVE  j = k
  BY DEF KeptOfKey

-----------------------------------------------------------------------------
(* The steps that move slots, each as a fact about the sizes of the places. *)

Less(E, k)  == [t \in DOMAIN E \ {k} |-> E[t]]
Put(q, x)   == Append(q, x)
Front(q, n) == SubSeq(q, 1, n)
Back(q, n)  == SubSeq(q, n + 1, Len(q))

(* linger_check_run moves slot k of the open ones to the end of the queue. *)
LEMMA FlushMoves ==
    ASSUME NEW E, NEW Q \in Seq(Slot), NEW i, NEW k \in DOMAIN E,
           E[k] \in Slot,
           NEW E2, E2 = Less(E, k),
           NEW Q2, Q2 = Put(Q, E[k]),
           Size(Holding(E, i)) + Size(Holding(Q, i)) <= 1
    PROVE  Size(Holding(E2, i)) + Size(Holding(Q2, i)) = Size(Holding(E, i)) + Size(Holding(Q, i))
<1>1. Holding(E2, i) = Holding(E, i) \ {k}
  BY DEF Holding, Less
<1>2. /\ DOMAIN Q2 = DOMAIN Q \cup {Len(Q) + 1} /\ Len(Q) + 1 \notin DOMAIN Q
      /\ \A n \in DOMAIN Q : Q2[n] = Q[n]
      /\ Q2[Len(Q) + 1] = E[k]
  BY DEF Put
<1>3. Holding(Q2, i) = IF k \in Holding(E, i) THEN Holding(Q, i) \cup {Len(Q) + 1} ELSE Holding(Q, i)
  BY <1>2 DEF Holding
<1>4. CASE k \in Holding(E, i)
  <2>1. \A x : Holding(E, i) = {x} => x = k
    BY <1>4
  <2>2. Holding(E, i) = {k} /\ Holding(Q, i) = {}
    BY <1>4, <2>1, SizeFacts
  <2>3. Holding(E2, i) = {} /\ Holding(Q2, i) = {Len(Q) + 1}
    BY <1>1, <1>3, <2>2
  <2>4. Size({k}) = 1 /\ Size({Len(Q) + 1}) = 1 /\ Size({}) = 0
    BY SizeOne
  <2> QED BY ONLY <2>2, <2>3, <2>4
<1>5. CASE k \notin Holding(E, i)
  <2>1. Holding(E2, i) = Holding(E, i) /\ Holding(Q2, i) = Holding(Q, i)
    BY <1>1, <1>3, <1>5
  <2> QED BY <2>1
<1> QED BY <1>4, <1>5

(* Two sets of pairs with the same pairs.                                  *)
LEMMA PairSets ==
    ASSUME NEW A, NEW B,
           \A p \in A : p = <<p[1], p[2]>>,
           \A p \in B : p = <<p[1], p[2]>>,
           \A n, m : <<n, m>> \in A <=> <<n, m>> \in B
    PROVE  A = B
<1>1. ASSUME NEW p \in A PROVE p \in B
  <2>1. p = <<p[1], p[2]>> /\ (<<p[1], p[2]>> \in A => <<p[1], p[2]>> \in B)
    OBVIOUS
  <2> QED BY ONLY <2>1, p \in A
<1>2. ASSUME NEW p \in B PROVE p \in A
  <2>1. p = <<p[1], p[2]>> /\ (<<p[1], p[2]>> \in B => <<p[1], p[2]>> \in A)
    OBVIOUS
  <2> QED BY ONLY <2>1, p \in B
<1> QED BY ONLY <1>1, <1>2

LEMMA NoPairs ==
    ASSUME NEW A, \A p \in A : p = <<p[1], p[2]>>, \A n, m : <<n, m>> \notin A
    PROVE  A = {}
<1>1. ASSUME NEW p \in A PROVE FALSE
  <2>1. p = <<p[1], p[2]>> /\ <<p[1], p[2]>> \notin A
    OBVIOUS
  <2> QED BY ONLY <2>1, p \in A
<1> QED BY <1>1

LEMMA OnePair ==
    ASSUME NEW A, \A p \in A : p = <<p[1], p[2]>>, NEW a, NEW b, <<a, b>> \in A,
           \A n, m : <<n, m>> \in A => <<n, m>> = <<a, b>>
    PROVE  A = {<<a, b>>}
<1>1. ASSUME NEW p \in A PROVE p = <<a, b>>
  <2>1. p = <<p[1], p[2]>> /\ (<<p[1], p[2]>> \in A => <<p[1], p[2]>> = <<a, b>>)
    OBVIOUS
  <2> QED BY ONLY <2>1, p \in A
<1> QED BY ONLY <1>1, <<a, b>> \in A

LEMMA InBatchesAt ==
    ASSUME NEW T, NEW i
    PROVE  /\ \A n, m : <<n, m>> \in InBatches(T, i) <=>
                            n \in DOMAIN T /\ m \in Holding(T[n], i)
           /\ \A p \in InBatches(T, i) : p = <<p[1], p[2]>>
  BY DEF InBatches, Holding

LEMMA WaitingAt ==
    ASSUME NEW V, NEW i
    PROVE  /\ \A w, m : <<w, m>> \in Waiting(V, i) <=>
                            w \in Workers /\ m # 1 /\ m \in Holding(V[w], i)
           /\ \A p \in Waiting(V, i) : p = <<p[1], p[2]>>
  BY DEF Waiting, Holding

(* run() hands the first m slots of the queue to the TinyTask.             *)
LEMMA OffloadMoves ==
    ASSUME NEW Q \in Seq(Slot), NEW T \in Seq(Seq(Slot)), NEW i, NEW q \in Nat, q <= Len(Q),
           NEW Q2, Q2 = Back(Q, q),
           NEW T2, T2 = Put(T, Front(Q, q)),
           Size(Holding(Q, i)) + Size(InBatches(T, i)) <= 1
    PROVE  Size(Holding(Q2, i)) + Size(InBatches(T2, i)) = Size(Holding(Q, i)) + Size(InBatches(T, i))
<1> DEFINE B == Front(Q, q)
           z == Len(T) + 1
<1>1. Len(Q) \in Nat /\ Len(T) \in Nat
  OBVIOUS
<1>2. /\ DOMAIN Q2 = 1 .. (Len(Q) - q)
      /\ \A n \in DOMAIN Q2 : n + q \in DOMAIN Q /\ Q2[n] = Q[n + q]
  BY <1>1 DEF Back
<1>3. /\ DOMAIN B = 1 .. q
      /\ \A n \in DOMAIN B : n \in DOMAIN Q /\ B[n] = Q[n]
  BY <1>1 DEF Front
<1>4. /\ DOMAIN T2 = DOMAIN T \cup {z} /\ z \notin DOMAIN T
      /\ \A n \in DOMAIN T : T2[n] = T[n]
      /\ T2[z] = B
  <2>1. B \in Seq(Slot)
    BY <1>1, SubSeqType DEF Front
  <2>2. T2 = Append(T, B)
    BY DEF Put
  <2> HIDE DEF B
  <2> QED BY <1>1, <2>1, <2>2
<1>5. \A n : n \in Holding(Q2, i) <=> n \in 1 .. (Len(Q) - q) /\ n + q \in Holding(Q, i)
  BY <1>2 DEF Holding
<1>6. \A n : n \in Holding(B, i) <=> n \in 1 .. q /\ n \in Holding(Q, i)
  BY <1>3 DEF Holding
<1>7. \A n, m : <<n, m>> \in InBatches(T2, i) <=>
          \/ <<n, m>> \in InBatches(T, i)
          \/ n = z /\ m \in Holding(B, i)
  BY <1>4, InBatchesAt
<1>8. \A n \in Holding(Q, i) : n \in 1 .. Len(Q)
  BY DEF Holding
<1>9. /\ \A p \in InBatches(T, i) : p = <<p[1], p[2]>>
      /\ \A p \in InBatches(T2, i) : p = <<p[1], p[2]>>
  BY InBatchesAt
<1>10. Holding(Q, i) = {} /\ InBatches(T, i) = {} => Holding(Q2, i) = {} /\ InBatches(T2, i) = {}
  BY <1>5, <1>6, <1>7, <1>9
<1>11. ASSUME NEW x, Holding(Q, i) = {x}, InBatches(T, i) = {}
       PROVE  Size(Holding(Q2, i)) + Size(InBatches(T2, i)) = 1
  <2>1. x \in 1 .. Len(Q)
    BY <1>8, <1>11
  <2>2. CASE x <= q
    <3>1. Holding(Q2, i) = {}
      BY <1>1, <1>5, <1>11, <2>1, <2>2
    <3>2. Holding(B, i) = {x}
      <4>0. x \in 1 .. q
        BY <1>1, <2>1, <2>2
      <4>1. x \in Holding(B, i)
        BY ONLY <1>6, <1>11, <4>0
      <4>2. \A n \in Holding(B, i) : n = x
        BY <1>6, <1>11
      <4> QED BY <4>1, <4>2
    <3>3. <<z, x>> \in InBatches(T2, i)
      BY <1>7, <3>2
    <3>4. \A p \in InBatches(T2, i) : p = <<z, x>>
      BY <1>7, <1>9, <1>11, <3>2
    <3>5. InBatches(T2, i) = {<<z, x>>}
      BY <3>3, <3>4
    <3>6. Size({<<z, x>>}) = 1 /\ Size({}) = 0
      BY SizeOne
    <3> QED BY ONLY <3>1, <3>5, <3>6
  <2>3. CASE x > q
    <3>1. Holding(Q2, i) = {x - q}
      <4>1. x - q \in 1 .. (Len(Q) - q) /\ (x - q) + q = x
        BY <1>1, <2>1, <2>3
      <4>2. x - q \in Holding(Q2, i)
        BY <1>5, <1>11, <4>1
      <4>3. \A n \in Holding(Q2, i) : n = x - q
        <5> SUFFICES ASSUME NEW n \in Holding(Q2, i) PROVE n = x - q
          OBVIOUS
        <5>1. n \in 1 .. (Len(Q) - q) /\ n + q = x
          BY <1>5, <1>11
        <5> QED BY <1>1, <2>1, <5>1
      <4> QED BY <4>2, <4>3
    <3>2. Holding(B, i) = {}
      BY <1>1, <1>6, <1>11, <2>1, <2>3
    <3>3. InBatches(T2, i) = {}
      BY <1>7, <1>9, <1>11, <3>2
    <3>4. Size({x - q}) = 1 /\ Size({}) = 0
      BY SizeOne
    <3> QED BY ONLY <3>1, <3>3, <3>4
  <2> QED BY <1>1, <2>1, <2>2, <2>3
<1>12. ASSUME NEW x, Holding(Q, i) = {}, InBatches(T, i) = {x}
       PROVE  Size(Holding(Q2, i)) + Size(InBatches(T2, i)) = 1
  <2>1. Holding(Q2, i) = {} /\ Holding(B, i) = {}
    BY <1>5, <1>6, <1>12
  <2>2. InBatches(T2, i) = InBatches(T, i)
    <3>1. \A n, m : <<n, m>> \in InBatches(T2, i) <=> <<n, m>> \in InBatches(T, i)
      BY <1>7, <2>1
    <3> QED BY ONLY <1>9, <3>1, PairSets
  <2>3. Size({x}) = 1 /\ Size({}) = 0
    BY SizeOne
  <2> QED BY ONLY <1>12, <2>1, <2>2, <2>3
<1>13. Moved(Holding(Q, i), InBatches(T, i), Holding(Q2, i), InBatches(T2, i))
  BY ONLY <1>10, <1>11, <1>12 DEF Moved
<1> QED BY <1>13, SizesMove

LEMMA SizeMember ==
    ASSUME NEW S, NEW x \in S, Size(S) <= 1
    PROVE  S = {x} /\ Size(S) = 1
  BY SizeFacts

LEMMA FlagFacts ==
    ASSUME NEW x, NEW S
    PROVE  Flag(x, S) \in {0, 1} /\ (Flag(x, S) = 1 <=> x \in S) /\ (Flag(x, S) = 0 <=> x \notin S)
  BY DEF Flag

(* A worker that begins with the first slot of v: what the slot holds is   *)
(* now among the rows to insert or among the duplicates.                   *)
LEMMA BeginSlot ==
    ASSUME NEW v \in Seq(CleanSlot), NEW i
    PROVE  /\ 1 \notin Holding(v, i) => ~HasRow(v, RowsToInsert(v), i) /\ i \notin NewDups(v)
           /\ 1 \in Holding(v, i) =>
                 \/ HasRow(v, RowsToInsert(v), i) /\ i \notin NewDups(v)
                 \/ ~HasRow(v, RowsToInsert(v), i) /\ i \in NewDups(v)
<1>1. CASE v = <<>>
  BY <1>1 DEF RowsToInsert, NewDups, HasRow, Holding
<1>2. CASE v # <<>>
  <2>1. 1 \in DOMAIN v /\ v[1] = Head(v) /\ Head(v) \in CleanSlot
    BY <1>2
  <2>2. Head(v).data \in Seq(Items) /\ Apart(Head(v).data)
    BY <2>1 DEF CleanSlot, Slot
  <2>3. 1 \in Holding(v, i) <=> i \in ItemsIn(Head(v).data)
    BY <2>1 DEF Holding
  <2>4. RowsToInsert(v) = RowKeys(Head(v).data) /\ NewDups(v) = Duplicates(Head(v).data)
    BY <1>2 DEF RowsToInsert, NewDups
  <2> QED BY <2>2, <2>3, <2>4, KeptOrDuplicate DEF HasRow
<1> QED BY <1>1, <1>2

LEMMA CleanIsSlot == CleanSlot \subseteq Slot /\ Seq(CleanSlot) \subseteq Seq(Slot)
<1>1. CleanSlot \subseteq Slot
  BY DEF CleanSlot
<1> QED BY <1>1

(* Without its first slot a batch holds an item one position earlier.      *)
LEMMA TailHolds ==
    ASSUME NEW v \in Seq(CleanSlot), v # <<>>, NEW i
    PROVE  /\ Tail(v) \in Seq(CleanSlot)
           /\ \A n : n \in Holding(Tail(v), i) => n \in Nat \ {0}
           /\ \A n \in Nat \ {0} : n \in Holding(Tail(v), i) <=> n + 1 \in Holding(v, i)
<1>1. /\ Tail(v) \in Seq(CleanSlot) /\ Len(v) \in Nat
      /\ DOMAIN v = 1 .. Len(v)
      /\ DOMAIN Tail(v) = 1 .. (Len(v) - 1)
      /\ \A n \in 1 .. (Len(v) - 1) : Tail(v)[n] = v[n + 1]
  OBVIOUS
<1>2. \A n \in Nat \ {0} : n \in 1 .. (Len(v) - 1) <=> n + 1 \in 1 .. Len(v)
  BY <1>1
<1> QED BY <1>1, <1>2 DEF Holding

(* run() takes the first slot of the queue and begins with it.             *)
Pops(Q, V, L, D, Q2, V2, L2, D2) ==
    /\ Q \in Seq(CleanSlot) /\ Q # <<>>
    /\ V \in [Workers -> Seq(CleanSlot)] /\ V[Runner] = <<>>
    /\ DOMAIN L = Workers /\ L[Runner] = {}
    /\ Q2 = Tail(Q)
    /\ V2 = [V EXCEPT ![Runner] = <<Head(Q)>>]
    /\ L2 = [L EXCEPT ![Runner] = RowKeys(Head(Q).data)]
    /\ D2 = D \cup Duplicates(Head(Q).data)

LEMMA PopMoves ==
    ASSUME NEW i, NEW Q, NEW V, NEW L, NEW D, NEW Q2, NEW V2, NEW L2, NEW D2,
           Pops(Q, V, L, D, Q2, V2, L2, D2),
           Size(Holding(Q, i)) + Size(Working(V, L, i)) + Flag(i, D) <= 1
    PROVE  /\ Waiting(V2, i) = Waiting(V, i)
           /\ Size(Holding(Q2, i)) + Size(Working(V2, L2, i)) + Flag(i, D2)
                 = Size(Holding(Q, i)) + Size(Working(V, L, i)) + Flag(i, D)
<1>0. /\ Q \in Seq(CleanSlot) /\ Q # <<>>
      /\ V \in [Workers -> Seq(CleanSlot)] /\ V[Runner] = <<>>
      /\ DOMAIN L = Workers /\ L[Runner] = {}
      /\ Q2 = Tail(Q)
      /\ V2 = [V EXCEPT ![Runner] = <<Head(Q)>>]
      /\ L2 = [L EXCEPT ![Runner] = RowKeys(Head(Q).data)]
      /\ D2 = D \cup Duplicates(Head(Q).data)
  BY DEF Pops
<1> DEFINE u == <<Head(Q)>>
<1>1. /\ u \in Seq(CleanSlot) /\ u # <<>> /\ Head(u) = Head(Q) /\ DOMAIN u = {1} /\ u[1] = Q[1]
      /\ 1 \in DOMAIN Q
  BY <1>0
<1>2. RowsToInsert(u) = RowKeys(Head(Q).data) /\ NewDups(u) = Duplicates(Head(Q).data)
  BY <1>1 DEF RowsToInsert, NewDups
<1>3. 1 \in Holding(u, i) <=> 1 \in Holding(Q, i)
  BY <1>1 DEF Holding
<1> HIDE DEF u
<1>4. /\ Runner \in Workers /\ DOMAIN V = Workers /\ DOMAIN V2 = Workers
      /\ V2[Runner] = u /\ L2[Runner] = RowsToInsert(u)
      /\ \A w \in Workers \ {Runner} : V2[w] = V[w] /\ L2[w] = L[w]
  BY <1>0, <1>2 DEF u, Workers
<1>5. Waiting(V2, i) = Waiting(V, i)
  <2>1. Holding(V[Runner], i) = {} /\ \A m \in Holding(u, i) : m = 1
    BY <1>0, <1>1 DEF Holding
  <2>w. /\ \A w, m : <<w, m>> \in Waiting(V, i) <=>
                        w \in Workers /\ m # 1 /\ m \in Holding(V[w], i)
        /\ \A w, m : <<w, m>> \in Waiting(V2, i) <=>
                        w \in Workers /\ m # 1 /\ m \in Holding(V2[w], i)
        /\ \A p \in Waiting(V, i) : p = <<p[1], p[2]>>
        /\ \A p \in Waiting(V2, i) : p = <<p[1], p[2]>>
    BY WaitingAt
  <2>2. \A w, m : <<w, m>> \in Waiting(V2, i) <=> <<w, m>> \in Waiting(V, i)
    <3> SUFFICES ASSUME NEW w, NEW m PROVE <<w, m>> \in Waiting(V2, i) <=> <<w, m>> \in Waiting(V, i)
      OBVIOUS
    <3>1. CASE w = Runner
      <4>1. m \notin Holding(V[w], i) /\ (m \in Holding(V2[w], i) => m = 1)
        BY ONLY <1>4, <2>1, <3>1
      <4> QED BY ONLY <2>w, <4>1
    <3>2. CASE w # Runner
      BY ONLY <1>4, <2>w, <3>2
    <3> QED BY <3>1, <3>2
  <2>3. /\ \A p \in Waiting(V, i) : p = <<p[1], p[2]>>
        /\ \A p \in Waiting(V2, i) : p = <<p[1], p[2]>>
    BY WaitingAt
  <2> QED BY ONLY <2>2, <2>3, PairSets
<1>6. /\ Runner \notin Working(V, L, i)
      /\ Runner \in Working(V2, L2, i) <=> HasRow(u, RowsToInsert(u), i)
      /\ \A w \in Workers \ {Runner} : w \in Working(V2, L2, i) <=> w \in Working(V, L, i)
      /\ Working(V, L, i) \subseteq Workers /\ Working(V2, L2, i) \subseteq Workers
  <2>1. ~HasRow(V[Runner], L[Runner], i)
    BY <1>0 DEF HasRow
  <2> QED BY <1>4, <2>1 DEF Working
<1>7. i \in D2 <=> i \in D \/ i \in NewDups(u)
  BY <1>0, <1>2
<1>8. /\ \A n \in Holding(Q2, i) : n \in Nat \ {0}
      /\ \A n \in Nat \ {0} : n \in Holding(Q2, i) <=> n + 1 \in Holding(Q, i)
      /\ \A n \in Holding(Q, i) : n \in Nat \ {0}
  BY <1>0, TailHolds DEF Holding
<1>9. CASE 1 \in Holding(Q, i)
  <2>1. /\ Size(Holding(Q, i)) \in {0, 1, 2} /\ Size(Working(V, L, i)) \in {0, 1, 2}
        /\ Flag(i, D) \in {0, 1}
        /\ Size(Holding(Q, i)) # 0
        /\ Size(Working(V, L, i)) = 0 => Working(V, L, i) = {}
        /\ Flag(i, D) = 0 => i \notin D
    BY <1>9, SizeFacts, FlagFacts
  <2>2. /\ Size(Holding(Q, i)) = 1 /\ Working(V, L, i) = {} /\ i \notin D
        /\ Size(Working(V, L, i)) = 0 /\ Flag(i, D) = 0
    BY <2>1
  <2>3. Holding(Q, i) = {1}
    BY <1>9, <2>2, SizeMember
  <2>4. Holding(Q2, i) = {}
    BY <1>8, <2>3
  <2>5. Size(Holding(Q2, i)) = 0
    BY <2>4, SizeFacts
  <2>6. CASE HasRow(u, RowsToInsert(u), i) /\ i \notin NewDups(u)
    <3>1. Working(V2, L2, i) = {Runner} /\ i \notin D2
      BY <1>4, <1>6, <1>7, <2>2, <2>6
    <3>2. Size(Working(V2, L2, i)) = 1
      BY ONLY <3>1, SizeFacts
    <3>3. Flag(i, D2) = 0
      BY ONLY <3>1, FlagFacts
    <3> QED BY <1>5, <2>2, <2>5, <3>2, <3>3
  <2>7. CASE ~HasRow(u, RowsToInsert(u), i) /\ i \in NewDups(u)
    <3>1. Working(V2, L2, i) = {} /\ i \in D2
      BY <1>4, <1>6, <1>7, <2>2, <2>7
    <3>2. Size(Working(V2, L2, i)) = 0
      BY ONLY <3>1, SizeFacts
    <3>3. Flag(i, D2) = 1
      BY ONLY <3>1, FlagFacts
    <3> QED BY <1>5, <2>2, <2>5, <3>2, <3>3
  <2> QED BY <1>1, <1>3, <1>9, <2>6, <2>7, BeginSlot
<1>10. CASE 1 \notin Holding(Q, i)
  <2>1. ~HasRow(u, RowsToInsert(u), i) /\ i \notin NewDups(u)
    BY <1>1, <1>3, <1>10, BeginSlot
  <2>2. Working(V2, L2, i) = Working(V, L, i) /\ (i \in D2 <=> i \in D)
    <3>1. \A w \in Workers : w \in Working(V2, L2, i) <=> w \in Working(V, L, i)
      BY <1>6, <2>1
    <3>2. Working(V2, L2, i) = Working(V, L, i)
      BY ONLY <1>6, <3>1
    <3> QED BY <1>7, <2>1, <3>2
  <2>3. Flag(i, D2) = Flag(i, D)
    BY <2>2 DEF Flag
  <2>4. /\ Size(Holding(Q, i)) \in {0, 1, 2} /\ Size(Working(V, L, i)) \in {0, 1, 2}
        /\ Flag(i, D) \in {0, 1}
        /\ Size(Holding(Q, i)) = 0 => Holding(Q, i) = {}
        /\ Size(Holding(Q, i)) = 1 => \E x : Holding(Q, i) = {x}
    BY SizeFacts, FlagFacts
  <2>5. CASE Size(Holding(Q, i)) = 0
    <3>1. Holding(Q2, i) = {}
      BY <1>8, <2>4, <2>5
    <3>2. Size(Holding(Q2, i)) = 0
      BY <3>1, SizeFacts
    <3> QED BY <1>5, <2>2, <2>3, <2>5, <3>2
  <2>6. CASE Size(Holding(Q, i)) = 1
    <3>1. PICK x : Holding(Q, i) = {x}
      BY <2>4, <2>6
    <3>2. x \in Nat \ {0} /\ x # 1
      BY <1>8, <1>10, <3>1
    <3>3. x - 1 \in Nat \ {0} /\ (x - 1) + 1 = x
      BY <3>2
    <3>4. x - 1 \in Holding(Q2, i)
      BY <1>8, <3>1, <3>3
    <3>5. \A n \in Holding(Q2, i) : n = x - 1
      <4> SUFFICES ASSUME NEW n \in Holding(Q2, i) PROVE n = x - 1
        OBVIOUS
      <4>1. n \in Nat \ {0} /\ n + 1 = x
        BY <1>8, <3>1
      <4> QED BY <3>2, <4>1
    <3>6. Holding(Q2, i) = {x - 1}
      BY <3>4, <3>5
    <3>7. Size(Holding(Q2, i)) = 1
      BY <3>6, SizeFacts
    <3> QED BY <1>5, <2>2, <2>3, <2>6, <3>7
  <2> QED BY <2>4, <2>5, <2>6
<1> QED BY <1>9, <1>10

(* A helper that has inserted all rows of a slot begins with the next one. *)
GoesOn(h, V, L, D, V2, L2, D2) ==
    /\ V2 = [V EXCEPT ![h] = Tail(@)]
    /\ L2 = [L EXCEPT ![h] = RowsToInsert(Tail(V[h]))]
    /\ D2 = D \cup NewDups(Tail(V[h]))

LEMMA NextSlotMoves ==
    ASSUME NEW i, NEW h \in Workers,
           NEW V \in [Workers -> Seq(CleanSlot)], V[h] # <<>>,
           NEW L, DOMAIN L = Workers, L[h] = {},
           NEW D, NEW V2, NEW L2, NEW D2, GoesOn(h, V, L, D, V2, L2, D2),
           Size(Waiting(V, i)) + Size(Working(V, L, i)) + Flag(i, D) <= 1
    PROVE  Size(Waiting(V2, i)) + Size(Working(V2, L2, i)) + Flag(i, D2)
              = Size(Waiting(V, i)) + Size(Working(V, L, i)) + Flag(i, D)
<1> USE DEF GoesOn
<1> DEFINE u == Tail(V[h])
<1>1. V[h] \in Seq(CleanSlot)
  OBVIOUS
<1>2. /\ u \in Seq(CleanSlot)
      /\ \A n : n \in Holding(u, i) => n \in Nat \ {0}
      /\ \A n \in Nat \ {0} : n \in Holding(u, i) <=> n + 1 \in Holding(V[h], i)
  BY <1>1, TailHolds
<1>3. /\ V2[h] = u /\ L2[h] = RowsToInsert(u)
      /\ \A w \in Workers \ {h} : V2[w] = V[w] /\ L2[w] = L[w]
      /\ D2 = D \cup NewDups(u)
  OBVIOUS
<1> HIDE DEF u
<1>4. 1 \in Holding(u, i) <=> <<h, 2>> \in Waiting(V, i)
  <2>1. 1 \in Holding(u, i) <=> 2 \in Holding(V[h], i)
    <3>1. 1 \in Nat \ {0} /\ 1 + 1 = 2
      OBVIOUS
    <3> QED BY <1>2, <3>1
  <2> QED BY <2>1, WaitingAt
<1>5. /\ \A w, m : w # h => (<<w, m>> \in Waiting(V2, i) <=> <<w, m>> \in Waiting(V, i))
      /\ \A m : <<h, m>> \in Waiting(V2, i) <=> m \in Holding(u, i) /\ m # 1
      /\ \A m : <<h, m>> \in Waiting(V, i) <=> m \in Holding(V[h], i) /\ m # 1
      /\ \A p \in Waiting(V, i) : p = <<p[1], p[2]>>
      /\ \A p \in Waiting(V2, i) : p = <<p[1], p[2]>>
  BY <1>3, WaitingAt
<1>6. /\ h \notin Working(V, L, i)
      /\ h \in Working(V2, L2, i) <=> HasRow(u, RowsToInsert(u), i)
      /\ \A w \in Workers \ {h} : w \in Working(V2, L2, i) <=> w \in Working(V, L, i)
      /\ Working(V, L, i) \subseteq Workers /\ Working(V2, L2, i) \subseteq Workers
  <2>1. ~HasRow(V[h], L[h], i)
    BY DEF HasRow
  <2> QED BY <1>3, <2>1 DEF Working
<1>7. i \in D2 <=> i \in D \/ i \in NewDups(u)
  BY <1>3
<1>8. /\ Size(Waiting(V, i)) \in {0, 1, 2} /\ Size(Working(V, L, i)) \in {0, 1, 2}
      /\ Flag(i, D) \in {0, 1}
  BY SizeFacts, FlagFacts
<1>9. CASE 1 \in Holding(u, i)
  <2>1. Size(Waiting(V, i)) # 0
    BY <1>4, <1>9, SizeFacts
  <2>2. Size(Waiting(V, i)) = 1 /\ Size(Working(V, L, i)) = 0 /\ Flag(i, D) = 0
    BY <1>8, <2>1
  <2>3. Waiting(V, i) = {<<h, 2>>}
    <3>1. <<h, 2>> \in Waiting(V, i)
      BY <1>4, <1>9
    <3>2. Size(Waiting(V, i)) <= 1
      BY <2>2
    <3> QED BY ONLY <3>1, <3>2, SizeMember
  <2>4. Working(V, L, i) = {} /\ i \notin D
    BY <2>2, SizeFacts, FlagFacts
  <2>5. Waiting(V2, i) = {}
    <3>1. ASSUME NEW w, NEW m, <<w, m>> \in Waiting(V2, i) PROVE FALSE
      <4>1. CASE w # h
        BY <1>5, <2>3, <3>1, <4>1
      <4>2. CASE w = h
        <5>1. m \in Nat \ {0} /\ m # 1 /\ m + 1 \in Holding(V[h], i)
          BY <1>2, <1>5, <3>1, <4>2
        <5>2. <<h, m + 1>> \in Waiting(V, i)
          BY <1>5, <5>1
        <5>3. m + 1 # 2
          BY <5>1
        <5>4. <<h, m + 1>> = <<h, 2>>
          BY ONLY <2>3, <5>2
        <5> QED BY ONLY <5>3, <5>4
      <4> QED BY <4>1, <4>2
    <3> QED BY ONLY <1>5, <3>1, NoPairs
  <2>6. Size(Waiting(V2, i)) = 0
    BY ONLY <2>5, SizeFacts
  <2>7. CASE HasRow(u, RowsToInsert(u), i) /\ i \notin NewDups(u)
    <3>1. Working(V2, L2, i) = {h} /\ i \notin D2
      BY <1>6, <1>7, <2>4, <2>7
    <3>2. Size(Working(V2, L2, i)) = 1
      BY ONLY <3>1, SizeFacts
    <3>3. Flag(i, D2) = 0
      BY ONLY <3>1, FlagFacts
    <3> QED BY <2>2, <2>6, <3>2, <3>3
  <2>8. CASE ~HasRow(u, RowsToInsert(u), i) /\ i \in NewDups(u)
    <3>1. Working(V2, L2, i) = {} /\ i \in D2
      BY <1>6, <1>7, <2>4, <2>8
    <3>2. Size(Working(V2, L2, i)) = 0
      BY ONLY <3>1, SizeFacts
    <3>3. Flag(i, D2) = 1
      BY ONLY <3>1, FlagFacts
    <3> QED BY <2>2, <2>6, <3>2, <3>3
  <2> QED BY <1>2, <1>9, <2>7, <2>8, BeginSlot
<1>10. CASE 1 \notin Holding(u, i)
  <2>1. ~HasRow(u, RowsToInsert(u), i) /\ i \notin NewDups(u)
    BY <1>2, <1>10, BeginSlot
  <2>2. Working(V2, L2, i) = Working(V, L, i)
    <3>1. \A w \in Workers : w \in Working(V2, L2, i) <=> w \in Working(V, L, i)
      BY <1>6, <2>1
    <3> QED BY ONLY <1>6, <3>1
  <2>3. Flag(i, D2) = Flag(i, D)
    BY <1>7, <2>1 DEF Flag
  <2>4. CASE Size(Waiting(V, i)) = 0
    <3>1. Waiting(V, i) = {}
      BY <2>4, SizeFacts
    <3>2. ASSUME NEW w, NEW m, <<w, m>> \in Waiting(V2, i) PROVE FALSE
      <4>1. CASE w # h
        BY <1>5, <3>1, <3>2, <4>1
      <4>2. CASE w = h
        <5>1. m \in Nat \ {0} /\ m # 1 /\ m + 1 \in Holding(V[h], i)
          BY <1>2, <1>5, <3>2, <4>2
        <5>2. <<h, m + 1>> \in Waiting(V, i)
          BY <1>5, <5>1
        <5> QED BY <3>1, <5>2
      <4> QED BY <4>1, <4>2
    <3>3. Waiting(V2, i) = {}
      BY ONLY <1>5, <3>2, NoPairs
    <3>4. Size(Waiting(V2, i)) = 0
      BY ONLY <3>3, SizeFacts
    <3> QED BY <2>2, <2>3, <2>4, <3>4
  <2>5. CASE Size(Waiting(V, i)) = 1
    <3>1. PICK x : Waiting(V, i) = {x}
      BY <2>5, SizeFacts
    <3>2. PICK w, m : x = <<w, m>>
      BY <1>5, <3>1
    <3>3. CASE w # h
      <4>1. <<w, m>> \in Waiting(V2, i)
        BY <1>5, <3>1, <3>2, <3>3
      <4>2. ASSUME NEW a, NEW b, <<a, b>> \in Waiting(V2, i) PROVE <<a, b>> = <<w, m>>
        <5>1. CASE a # h
          BY <1>5, <3>1, <3>2, <4>2, <5>1
        <5>2. CASE a = h
          <6>1. b \in Nat \ {0} /\ b # 1 /\ b + 1 \in Holding(V[h], i)
            BY <1>2, <1>5, <4>2, <5>2
          <6>2. <<h, b + 1>> \in Waiting(V, i)
            BY <1>5, <6>1
          <6> QED BY <3>1, <3>2, <3>3, <6>2
        <5> QED BY <5>1, <5>2
      <4>3. Waiting(V2, i) = {<<w, m>>}
        <5>1. \A p \in Waiting(V2, i) : p = <<p[1], p[2]>>
          BY <1>5
        <5>2. \A a, b : <<a, b>> \in Waiting(V2, i) => <<a, b>> = <<w, m>>
          BY <4>2
        <5> QED BY ONLY <4>1, <5>1, <5>2, OnePair
      <4>4. Size(Waiting(V2, i)) = 1
        BY ONLY <4>3, SizeFacts
      <4> QED BY <2>2, <2>3, <2>5, <4>4
    <3>4. CASE w = h
      <4>1. m \in Holding(V[h], i) /\ m # 1 /\ m # 2
        BY <1>4, <1>5, <1>10, <3>1, <3>2, <3>4
      <4>2. m \in Nat \ {0}
        BY <1>1, <4>1 DEF Holding
      <4>3. m - 1 \in Nat \ {0} /\ m - 1 # 1 /\ (m - 1) + 1 = m
        BY <4>1, <4>2
      <4>4. m - 1 \in Holding(u, i)
        BY <1>2, <4>1, <4>3
      <4>5. <<h, m - 1>> \in Waiting(V2, i)
        BY <1>5, <4>3, <4>4
      <4>6. ASSUME NEW a, NEW b, <<a, b>> \in Waiting(V2, i) PROVE <<a, b>> = <<h, m - 1>>
        <5>1. CASE a # h
          BY <1>5, <3>1, <3>2, <3>4, <4>6, <5>1
        <5>2. CASE a = h
          <6>1. b \in Nat \ {0} /\ b # 1 /\ b + 1 \in Holding(V[h], i)
            BY <1>2, <1>5, <4>6, <5>2
          <6>2. <<h, b + 1>> \in Waiting(V, i)
            BY <1>5, <6>1
          <6>3. b + 1 = m
            BY <3>1, <3>2, <6>2
          <6>4. b = m - 1
            BY <4>2, <6>1, <6>3
          <6> QED BY <5>2, <6>4
        <5> QED BY <5>1, <5>2
      <4>7. Waiting(V2, i) = {<<h, m - 1>>}
        BY ONLY <1>5, <4>5, <4>6, OnePair
      <4>8. Size(Waiting(V2, i)) = 1
        BY ONLY <4>7, SizeFacts
      <4> QED BY <2>2, <2>3, <2>5, <4>8
    <3> QED BY <3>3, <3>4
  <2> QED BY <1>8, <2>4, <2>5
<1> QED BY <1>9, <1>10

(* The helpers, all of them idle, begin with the first n batches.          *)
Spawns(n, T, V, L, D, T2, V2, L2, D2) ==
    /\ T \in Seq(Seq(CleanSlot)) /\ n \in Nat /\ n <= Len(T) /\ 1 .. n \subseteq Workers
    /\ V \in [Workers -> Seq(CleanSlot)]
    /\ \A w \in 1 .. n : V[w] = <<>> /\ L[w] = {}
    /\ T2 = SubSeq(T, n + 1, Len(T))
    /\ V2 = [w \in Workers |-> IF w \in 1 .. n THEN T[w] ELSE V[w]]
    /\ L2 = [w \in Workers |-> IF w \in 1 .. n THEN RowsToInsert(T[w]) ELSE L[w]]
    /\ D2 = D \cup UNION {NewDups(T[w]) : w \in 1 .. n}

LEMMA SpawnMoves ==
    ASSUME NEW i, NEW n, NEW T, NEW V, NEW L, NEW D, NEW T2, NEW V2, NEW L2, NEW D2,
           Spawns(n, T, V, L, D, T2, V2, L2, D2),
           Size(InBatches(T, i)) + Size(Waiting(V, i)) + Size(Working(V, L, i)) + Flag(i, D) <= 1
    PROVE  Size(InBatches(T2, i)) + Size(Waiting(V2, i)) + Size(Working(V2, L2, i)) + Flag(i, D2)
              = Size(InBatches(T, i)) + Size(Waiting(V, i)) + Size(Working(V, L, i)) + Flag(i, D)
<1>0. /\ T \in Seq(Seq(CleanSlot)) /\ n \in Nat /\ n <= Len(T) /\ 1 .. n \subseteq Workers
      /\ V \in [Workers -> Seq(CleanSlot)]
      /\ \A w \in 1 .. n : V[w] = <<>> /\ L[w] = {}
      /\ T2 = SubSeq(T, n + 1, Len(T))
      /\ V2 = [w \in Workers |-> IF w \in 1 .. n THEN T[w] ELSE V[w]]
      /\ L2 = [w \in Workers |-> IF w \in 1 .. n THEN RowsToInsert(T[w]) ELSE L[w]]
      /\ D2 = D \cup UNION {NewDups(T[w]) : w \in 1 .. n}
  BY DEF Spawns
<1>n. n \in Nat
  BY <1>0
<1>1. /\ Len(T) \in Nat /\ DOMAIN T = 1 .. Len(T) /\ 1 .. n \subseteq DOMAIN T
      /\ \A w \in 1 .. n : T[w] \in Seq(CleanSlot)
  BY <1>0
<1>2. /\ DOMAIN T2 = 1 .. (Len(T) - n)
      /\ \A b \in DOMAIN T2 : b + n \in DOMAIN T /\ T2[b] = T[b + n]
  <2>1. /\ T \in Seq(Seq(CleanSlot)) /\ n \in Nat /\ n <= Len(T)
        /\ T2 = SubSeq(T, n + 1, Len(T))
    BY <1>0
  <2>2. T2 \in Seq(Seq(CleanSlot)) /\ Len(T2) = Len(T) - n
    BY ONLY <2>1, DropFirst
  <2>3. \A b \in 1 .. (Len(T) - n) : T2[b] = T[b + n]
    BY ONLY <2>1, DropFirst
  <2>4. \A l \in Nat : \A b \in 1 .. (l - n) : b + n \in 1 .. l
    BY ONLY n \in Nat
  <2>5. DOMAIN T2 = 1 .. (Len(T) - n)
    BY ONLY <2>2
  <2> QED BY ONLY <1>1, <2>3, <2>4, <2>5
<1>3. /\ \A w \in 1 .. n : V2[w] = T[w] /\ L2[w] = RowsToInsert(T[w])
      /\ \A w \in Workers \ (1 .. n) : V2[w] = V[w] /\ L2[w] = L[w]
  BY <1>0
<1>4. /\ \A b, m : <<b, m>> \in InBatches(T, i) <=> b \in DOMAIN T /\ m \in Holding(T[b], i)
      /\ \A b, m : <<b, m>> \in InBatches(T2, i) <=> b \in DOMAIN T2 /\ <<b + n, m>> \in InBatches(T, i)
      /\ \A p \in InBatches(T, i) : p = <<p[1], p[2]>>
      /\ \A p \in InBatches(T2, i) : p = <<p[1], p[2]>>
  BY <1>2, InBatchesAt
<1>5. /\ \A w, m : w \notin 1 .. n => (<<w, m>> \in Waiting(V2, i) <=> <<w, m>> \in Waiting(V, i))
      /\ \A w, m : w \in 1 .. n => (<<w, m>> \in Waiting(V2, i) <=> <<w, m>> \in InBatches(T, i) /\ m # 1)
      /\ \A w, m : w \in 1 .. n => <<w, m>> \notin Waiting(V, i)
      /\ \A p \in Waiting(V, i) : p = <<p[1], p[2]>>
      /\ \A p \in Waiting(V2, i) : p = <<p[1], p[2]>>
  <2>1. \A w \in 1 .. n : Holding(V[w], i) = {}
    BY <1>0 DEF Holding
  <2>2. 1 .. n \subseteq Workers
    BY <1>0
  <2>w. /\ \A w, m : <<w, m>> \in Waiting(V, i) <=>
                        w \in Workers /\ m # 1 /\ m \in Holding(V[w], i)
        /\ \A w, m : <<w, m>> \in Waiting(V2, i) <=>
                        w \in Workers /\ m # 1 /\ m \in Holding(V2[w], i)
        /\ \A p \in Waiting(V, i) : p = <<p[1], p[2]>>
        /\ \A p \in Waiting(V2, i) : p = <<p[1], p[2]>>
    BY WaitingAt
  <2>3. \A w, m : w \notin 1 .. n => (<<w, m>> \in Waiting(V2, i) <=> <<w, m>> \in Waiting(V, i))
    BY ONLY <1>3, <2>w
  <2>4. \A w, m : w \in 1 .. n => (<<w, m>> \in Waiting(V2, i) <=> <<w, m>> \in InBatches(T, i) /\ m # 1)
    BY ONLY <1>1, <1>3, <1>4, <2>2, <2>w
  <2>5. \A w, m : w \in 1 .. n => <<w, m>> \notin Waiting(V, i)
    BY ONLY <2>1, <2>w
  <2> QED BY ONLY <2>3, <2>4, <2>5, <2>w
<1>6. /\ \A w \in 1 .. n : w \notin Working(V, L, i)
      /\ \A w \in 1 .. n : w \in Working(V2, L2, i) <=> HasRow(T[w], RowsToInsert(T[w]), i)
      /\ \A w \in Workers \ (1 .. n) : w \in Working(V2, L2, i) <=> w \in Working(V, L, i)
      /\ Working(V, L, i) \subseteq Workers /\ Working(V2, L2, i) \subseteq Workers
  <2>1. \A w \in 1 .. n : ~HasRow(V[w], L[w], i)
    BY <1>0 DEF HasRow
  <2>2. 1 .. n \subseteq Workers
    BY <1>0
  <2> QED BY <1>3, <2>1, <2>2 DEF Working
<1>7. i \in D2 <=> i \in D \/ \E w \in 1 .. n : i \in NewDups(T[w])
  BY <1>0
<1>8. /\ Size(InBatches(T, i)) \in {0, 1, 2} /\ Size(Waiting(V, i)) \in {0, 1, 2}
      /\ Size(Working(V, L, i)) \in {0, 1, 2} /\ Flag(i, D) \in {0, 1}
  BY SizeFacts, FlagFacts
<1>9. \A w \in 1 .. n : 1 \notin Holding(T[w], i) =>
          ~HasRow(T[w], RowsToInsert(T[w]), i) /\ i \notin NewDups(T[w])
  BY <1>1, BeginSlot
<1>10. ASSUME NEW b \in 1 .. n, 1 \in Holding(T[b], i)
       PROVE  Size(InBatches(T2, i)) + Size(Waiting(V2, i)) + Size(Working(V2, L2, i)) + Flag(i, D2)
                 = Size(InBatches(T, i)) + Size(Waiting(V, i)) + Size(Working(V, L, i)) + Flag(i, D)
  <2>1. <<b, 1>> \in InBatches(T, i)
    BY <1>1, <1>4, <1>10
  <2>2. Size(InBatches(T, i)) # 0
    BY <2>1, SizeFacts
  <2>3. /\ Size(InBatches(T, i)) = 1 /\ Size(Waiting(V, i)) = 0
        /\ Size(Working(V, L, i)) = 0 /\ Flag(i, D) = 0
    BY <1>8, <2>2
  <2>4. InBatches(T, i) = {<<b, 1>>}
    <3>1. Size(InBatches(T, i)) <= 1
      BY <2>3
    <3> QED BY ONLY <2>1, <3>1, SizeMember
  <2>5. Waiting(V, i) = {} /\ Working(V, L, i) = {} /\ i \notin D
    BY <2>3, SizeFacts, FlagFacts
  <2>6. \A a, m : <<a, m>> \in InBatches(T, i) => a = b /\ m = 1
    BY ONLY <2>4
  <2>7. InBatches(T2, i) = {}
    <3>1. ASSUME NEW a, NEW m, <<a, m>> \in InBatches(T2, i) PROVE FALSE
      <4>1. a \in 1 .. (Len(T) - n) /\ a + n = b
        BY <1>2, <1>4, <2>6, <3>1
      <4> QED BY <1>n, <1>1, <4>1
    <3> QED BY ONLY <1>4, <3>1, NoPairs
  <2>8. Waiting(V2, i) = {}
    <3>1. ASSUME NEW a, NEW m, <<a, m>> \in Waiting(V2, i) PROVE FALSE
      BY ONLY <1>5, <2>5, <2>6, <3>1
    <3> QED BY ONLY <1>5, <3>1, NoPairs
  <2>9. \A w \in 1 .. n : w # b => 1 \notin Holding(T[w], i)
    BY <1>1, <1>4, <2>6
  <2>10. Size(InBatches(T2, i)) = 0 /\ Size(Waiting(V2, i)) = 0
    BY ONLY <2>7, <2>8, SizeFacts
  <2>11. CASE HasRow(T[b], RowsToInsert(T[b]), i) /\ i \notin NewDups(T[b])
    <3>1. Working(V2, L2, i) = {b}
      <4>1. b \in Working(V2, L2, i)
        BY <1>6, <2>11
      <4>2. \A w \in Working(V2, L2, i) : w = b
        BY <1>6, <1>9, <2>5, <2>9
      <4> QED BY ONLY <4>1, <4>2
    <3>2. i \notin D2
      BY <1>7, <1>9, <2>5, <2>9, <2>11
    <3>3. Size(Working(V2, L2, i)) = 1
      BY ONLY <3>1, SizeFacts
    <3>4. Flag(i, D2) = 0
      BY ONLY <3>2, FlagFacts
    <3> QED BY <2>3, <2>10, <3>3, <3>4
  <2>12. CASE ~HasRow(T[b], RowsToInsert(T[b]), i) /\ i \in NewDups(T[b])
    <3>1. Working(V2, L2, i) = {}
      <4>1. \A w \in Working(V2, L2, i) : FALSE
        BY <1>6, <1>9, <2>5, <2>9, <2>12
      <4> QED BY ONLY <4>1
    <3>2. i \in D2
      BY <1>7, <2>12
    <3>3. Size(Working(V2, L2, i)) = 0
      BY ONLY <3>1, SizeFacts
    <3>4. Flag(i, D2) = 1
      BY ONLY <3>2, FlagFacts
    <3> QED BY <2>3, <2>10, <3>3, <3>4
  <2> QED BY <1>1, <1>10, <2>11, <2>12, BeginSlot
<1>11. ASSUME \A b \in 1 .. n : 1 \notin Holding(T[b], i)
       PROVE  Size(InBatches(T2, i)) + Size(Waiting(V2, i)) + Size(Working(V2, L2, i)) + Flag(i, D2)
                 = Size(InBatches(T, i)) + Size(Waiting(V, i)) + Size(Working(V, L, i)) + Flag(i, D)
  <2>1. Working(V2, L2, i) = Working(V, L, i)
    <3>1. \A w \in Workers : w \in Working(V2, L2, i) <=> w \in Working(V, L, i)
      BY <1>6, <1>9, <1>11
    <3> QED BY ONLY <1>6, <3>1
  <2>2. Flag(i, D2) = Flag(i, D)
    BY <1>7, <1>9, <1>11 DEF Flag
  <2>3. \A b, m : b \in 1 .. n /\ <<b, m>> \in InBatches(T, i) => m # 1
    BY <1>4, <1>11
  <2>4. InBatches(T, i) = {} /\ Waiting(V, i) = {} => InBatches(T2, i) = {} /\ Waiting(V2, i) = {}
    <3> SUFFICES ASSUME InBatches(T, i) = {}, Waiting(V, i) = {}
                 PROVE  InBatches(T2, i) = {} /\ Waiting(V2, i) = {}
      OBVIOUS
    <3>1. \A a, m : <<a, m>> \notin InBatches(T2, i)
      BY <1>4
    <3>2. \A a, m : <<a, m>> \notin Waiting(V2, i)
      BY <1>5
    <3>3. InBatches(T2, i) = {}
      BY ONLY <1>4, <3>1, NoPairs
    <3>4. Waiting(V2, i) = {}
      BY ONLY <1>5, <3>2, NoPairs
    <3> QED BY <3>3, <3>4
  <2>5. ASSUME NEW x, InBatches(T, i) = {x}, Waiting(V, i) = {}
        PROVE  Size(InBatches(T2, i)) + Size(Waiting(V2, i)) = 1
    <3>1. PICK b, m : x = <<b, m>>
      BY <1>4, <2>5
    <3>2. \A a, c : <<a, c>> \in InBatches(T, i) <=> a = b /\ c = m
      BY ONLY <2>5, <3>1
    <3>3. b \in 1 .. Len(T)
      BY <1>1, <1>4, <3>2
    <3>4. CASE b \in 1 .. n
      <4>1. \A a, c : <<a, c>> \notin InBatches(T2, i)
        <5>1. ASSUME NEW a, NEW c, <<a, c>> \in InBatches(T2, i) PROVE FALSE
          <6>1. a \in 1 .. (Len(T) - n) /\ a + n = b
            BY <1>2, <1>4, <3>2, <5>1
          <6> QED BY <1>n, <1>1, <3>4, <6>1
        <5> QED BY <5>1
      <4>2. InBatches(T2, i) = {}
        BY ONLY <1>4, <4>1, NoPairs
      <4>3. <<b, m>> \in Waiting(V2, i)
        BY <1>5, <2>3, <3>2, <3>4
      <4>4. \A a, c : <<a, c>> \in Waiting(V2, i) => <<a, c>> = <<b, m>>
        BY <1>5, <2>5, <3>2
      <4>5. \A p \in Waiting(V2, i) : p = <<p[1], p[2]>>
        BY <1>5
      <4>6. Waiting(V2, i) = {<<b, m>>}
        BY ONLY <4>3, <4>4, <4>5, OnePair
      <4>7. Size(InBatches(T2, i)) = 0
        BY ONLY <4>2, SizeFacts
      <4>8. Size(Waiting(V2, i)) = 1
        BY ONLY <4>6, SizeFacts
      <4> QED BY ONLY <4>7, <4>8
    <3>5. CASE b \notin 1 .. n
      <4>1. b - n \in 1 .. (Len(T) - n) /\ (b - n) + n = b
        BY <1>n, <1>1, <3>3, <3>5
      <4>2. <<b - n, m>> \in InBatches(T2, i)
        BY <1>2, <1>4, <3>2, <4>1
      <4>3. ASSUME NEW a, NEW c, <<a, c>> \in InBatches(T2, i) PROVE <<a, c>> = <<b - n, m>>
        <5>1. a \in 1 .. (Len(T) - n) /\ a + n = b /\ c = m
          BY <1>2, <1>4, <3>2, <4>3
        <5>2. a = b - n
          <6>1. a \in Int /\ b \in Int /\ n \in Int
            BY <1>n, <1>1, <3>3, <5>1
          <6> QED BY ONLY <5>1, <6>1
        <5> QED BY <5>1, <5>2
      <4>4. \A p \in InBatches(T2, i) : p = <<p[1], p[2]>>
        BY <1>4
      <4>5. InBatches(T2, i) = {<<b - n, m>>}
        <5>1. \A a, c : <<a, c>> \in InBatches(T2, i) => <<a, c>> = <<b - n, m>>
          BY <4>3
        <5> QED BY ONLY <4>2, <4>4, <5>1, OnePair
      <4>6. \A a, c : <<a, c>> \notin Waiting(V2, i)
        BY <1>5, <2>5, <3>2, <3>5
      <4>7. Waiting(V2, i) = {}
        BY ONLY <1>5, <4>6, NoPairs
      <4>8. Size(InBatches(T2, i)) = 1
        BY ONLY <4>5, SizeFacts
      <4>9. Size(Waiting(V2, i)) = 0
        BY ONLY <4>7, SizeFacts
      <4> QED BY ONLY <4>8, <4>9
    <3> QED BY <3>4, <3>5
  <2>6. ASSUME NEW x, InBatches(T, i) = {}, Waiting(V, i) = {x}
        PROVE  Size(InBatches(T2, i)) + Size(Waiting(V2, i)) = 1
    <3>1. \A a, m : <<a, m>> \notin InBatches(T2, i)
      BY <1>4, <2>6
    <3>2. InBatches(T2, i) = {}
      BY ONLY <1>4, <3>1, NoPairs
    <3>3. \A a, m : <<a, m>> \in Waiting(V2, i) <=> <<a, m>> \in Waiting(V, i)
      BY <1>5, <2>6
    <3>4. Waiting(V2, i) = Waiting(V, i)
      BY ONLY <1>5, <3>3, PairSets
    <3>5. Size(InBatches(T2, i)) = 0
      BY ONLY <3>2, SizeFacts
    <3>6. Size(Waiting(V2, i)) = 1
      BY ONLY <2>6, <3>4, SizeFacts
    <3> QED BY ONLY <3>5, <3>6
  <2>7. Moved(InBatches(T, i), Waiting(V, i), InBatches(T2, i), Waiting(V2, i))
    BY ONLY <2>4, <2>5, <2>6 DEF Moved
  <2>8. Size(InBatches(T, i)) + Size(Waiting(V, i)) <= 1
    BY <1>8
  <2>9. Size(InBatches(T2, i)) + Size(Waiting(V2, i)) = Size(InBatches(T, i)) + Size(Waiting(V, i))
    BY ONLY <2>7, <2>8, SizesMove
  <2>10. Size(InBatches(T2, i)) \in {0, 1, 2} /\ Size(Waiting(V2, i)) \in {0, 1, 2}
    BY SizeFacts
  <2> QED BY ONLY <1>8, <2>1, <2>2, <2>9, <2>10
<1> QED BY <1>10, <1>11

(* A row goes out: what it counts leaves the worker.                       *)
Without(L, w, k) == [L EXCEPT ![w] = @ \ {k}]

LEMMA InsertMoves ==
    ASSUME NEW i, NEW V, NEW L, DOMAIN L = Workers, NEW w \in Workers, NEW k \in L[w],
           NEW L2, L2 = Without(L, w, k)
    PROVE  /\ i \in KeptOfKey(Head(V[w]).data, k) =>
                 w \in Working(V, L, i) /\ Working(V, L2, i) = Working(V, L, i) \ {w}
           /\ i \notin KeptOfKey(Head(V[w]).data, k) => Working(V, L2, i) = Working(V, L, i)
<1>1. L2[w] = L[w] \ {k} /\ \A x \in Workers \ {w} : L2[x] = L[x]
  BY DEF Without
<1>2. \A x \in Workers \ {w} : x \in Working(V, L2, i) <=> x \in Working(V, L, i)
  BY <1>1 DEF Working
<1>3. Working(V, L, i) \subseteq Workers /\ Working(V, L2, i) \subseteq Workers
  BY DEF Working
<1>4. CASE i \in KeptOfKey(Head(V[w]).data, k)
  <2>1. HasRow(V[w], L[w], i)
    BY <1>4 DEF HasRow
  <2>2. ~HasRow(V[w], L2[w], i)
    BY <1>1, <1>4, OneRow DEF HasRow
  <2>3. w \in Working(V, L, i) /\ w \notin Working(V, L2, i)
    BY <2>1, <2>2 DEF Working
  <2>4. Working(V, L2, i) = Working(V, L, i) \ {w}
    BY ONLY <1>2, <1>3, <2>3
  <2> QED BY <1>4, <2>3, <2>4
<1>5. CASE i \notin KeptOfKey(Head(V[w]).data, k)
  <2>1. HasRow(V[w], L2[w], i) <=> HasRow(V[w], L[w], i)
    BY <1>1, <1>5 DEF HasRow
  <2>2. w \in Working(V, L2, i) <=> w \in Working(V, L, i)
    BY <2>1 DEF Working
  <2>3. Working(V, L2, i) = Working(V, L, i)
    BY ONLY <1>2, <1>3, <2>2
  <2> QED BY <1>5, <2>3
<1> QED BY <1>4, <1>5

(* It is in the store, ...                                                 *)
LEMMA StoredMoves ==
    ASSUME NEW i, NEW V, NEW L, DOMAIN L = Workers, NEW w \in Workers, NEW k \in L[w],
           NEW L2, L2 = Without(L, w, k),
           NEW R, NEW row, row.items = KeptOfKey(Head(V[w]).data, k),
           NEW R2, R2 = R \cup {row},
           Size(Working(V, L, i)) + Size(Written(R, i)) <= 1
    PROVE  Size(Working(V, L2, i)) + Size(Written(R2, i)) = Size(Working(V, L, i)) + Size(Written(R, i))
<1>1. CASE i \in KeptOfKey(Head(V[w]).data, k)
  <2>1. w \in Working(V, L, i) /\ Working(V, L2, i) = Working(V, L, i) \ {w}
    BY <1>1, InsertMoves
  <2>2. Size(Working(V, L, i)) \in {0, 1, 2} /\ Size(Written(R, i)) \in {0, 1, 2} /\ Size(Working(V, L, i)) # 0
    BY <2>1, SizeFacts
  <2>3. Size(Working(V, L, i)) = 1 /\ Size(Written(R, i)) = 0 /\ Size(Working(V, L, i)) <= 1
    BY <2>2
  <2>4. Working(V, L, i) = {w}
    BY ONLY <2>1, <2>3, SizeMember
  <2>5. Written(R, i) = {}
    BY ONLY <2>3, SizeFacts
  <2>6. Working(V, L2, i) = {}
    BY <2>1, <2>4
  <2>7. Written(R2, i) = {row}
    BY <1>1, <2>5 DEF Written
  <2>8. Size(Working(V, L2, i)) = 0
    BY ONLY <2>6, SizeFacts
  <2>9. Size(Written(R2, i)) = 1
    BY ONLY <2>7, SizeFacts
  <2> QED BY ONLY <2>3, <2>8, <2>9
<1>2. CASE i \notin KeptOfKey(Head(V[w]).data, k)
  <2>1. Working(V, L2, i) = Working(V, L, i)
    BY <1>2, InsertMoves
  <2>2. Written(R2, i) = Written(R, i)
    BY <1>2 DEF Written
  <2> QED BY ONLY <2>1, <2>2
<1> QED BY <1>1, <1>2

(* ... or given up.                                                        *)
LEMMA FailedMoves ==
    ASSUME NEW i, NEW V, NEW L, DOMAIN L = Workers, NEW w \in Workers, NEW k \in L[w],
           NEW L2, L2 = Without(L, w, k),
           NEW F, NEW F2, F2 = F \cup KeptOfKey(Head(V[w]).data, k),
           Size(Working(V, L, i)) + Flag(i, F) <= 1
    PROVE  Size(Working(V, L2, i)) + Flag(i, F2) = Size(Working(V, L, i)) + Flag(i, F)
<1>1. CASE i \in KeptOfKey(Head(V[w]).data, k)
  <2>1. w \in Working(V, L, i) /\ Working(V, L2, i) = Working(V, L, i) \ {w}
    BY <1>1, InsertMoves
  <2>2. Size(Working(V, L, i)) \in {0, 1, 2} /\ Flag(i, F) \in {0, 1} /\ Size(Working(V, L, i)) # 0
    BY <2>1, SizeFacts, FlagFacts
  <2>3. Size(Working(V, L, i)) = 1 /\ Flag(i, F) = 0 /\ Size(Working(V, L, i)) <= 1
    BY <2>2
  <2>4. Working(V, L, i) = {w}
    BY ONLY <2>1, <2>3, SizeMember
  <2>5. Working(V, L2, i) = {}
    BY <2>1, <2>4
  <2>6. Size(Working(V, L2, i)) = 0
    BY ONLY <2>5, SizeFacts
  <2>7. Flag(i, F2) = 1
    BY <1>1 DEF Flag
  <2> QED BY ONLY <2>3, <2>6, <2>7
<1>2. CASE i \notin KeptOfKey(Head(V[w]).data, k)
  <2>1. Working(V, L2, i) = Working(V, L, i)
    BY <1>2, InsertMoves
  <2>2. Flag(i, F2) = Flag(i, F)
    BY <1>2 DEF Flag
  <2> QED BY ONLY <2>1, <2>2
<1> QED BY <1>1, <1>2

(* run() is done with its one slot.                                        *)
LEMMA ProcessedMoves ==
    ASSUME NEW i, NEW V \in [Workers -> Seq(CleanSlot)], V[Runner] = <<>> \/ Len(V[Runner]) = 1,
           NEW L, L[Runner] = {},
           NEW V2, V2 = [V EXCEPT ![Runner] = <<>>]
    PROVE  Waiting(V2, i) = Waiting(V, i) /\ Working(V2, L, i) = Working(V, L, i)
<1>1. /\ Runner \in Workers /\ V2[Runner] = <<>>
      /\ \A w \in Workers \ {Runner} : V2[w] = V[w]
      /\ V[Runner] \in Seq(CleanSlot)
  BY DEF Workers
<1>2. \A m : m \in Holding(V[Runner], i) \cup Holding(V2[Runner], i) => m = 1
  <2>1. \A m \in DOMAIN V[Runner] : m = 1
    BY <1>1
  <2> QED BY <1>1, <2>1 DEF Holding
<1>3. \A w, m : <<w, m>> \in Waiting(V2, i) <=> <<w, m>> \in Waiting(V, i)
  BY <1>1, <1>2, WaitingAt
<1>4. /\ \A p \in Waiting(V, i) : p = <<p[1], p[2]>>
      /\ \A p \in Waiting(V2, i) : p = <<p[1], p[2]>>
  BY WaitingAt
<1>5. Waiting(V2, i) = Waiting(V, i)
  BY ONLY <1>3, <1>4, PairSets
<1>6. Working(V2, L, i) = Working(V, L, i)
  BY <1>1 DEF Working, HasRow
<1> QED BY <1>5, <1>6

-----------------------------------------------------------------------------
(* The steps of the handler.                                               *)

LEMMA Joined ==
    ASSUME NEW a \in Seq(Items), NEW b \in Seq(Items)
    PROVE  /\ a \o b \in Seq(Items)
           /\ ItemsIn(a \o b) = ItemsIn(a) \cup ItemsIn(b)
           /\ Apart(a) /\ Apart(b) /\ ItemsIn(a) \cap ItemsIn(b) = {} => Apart(a \o b)
<1> DEFINE c == a \o b
<1>1. /\ Len(a) \in Nat /\ Len(b) \in Nat /\ c \in Seq(Items)
      /\ DOMAIN a = 1 .. Len(a) /\ DOMAIN b = 1 .. Len(b)
      /\ DOMAIN c = 1 .. (Len(a) + Len(b))
      /\ \A n \in 1 .. Len(a) : c[n] = a[n]
      /\ \A n \in (Len(a) + 1) .. (Len(a) + Len(b)) : c[n] = b[n - Len(a)]
  OBVIOUS
<1> HIDE DEF c
<1>2. \A n \in DOMAIN a : n \in DOMAIN c /\ c[n] = a[n]
  BY <1>1
<1>3. \A n \in DOMAIN b : n + Len(a) \in DOMAIN c /\ c[n + Len(a)] = b[n]
  <2> SUFFICES ASSUME NEW n \in DOMAIN b PROVE n + Len(a) \in DOMAIN c /\ c[n + Len(a)] = b[n]
    OBVIOUS
  <2>1. n \in 1 .. Len(b)
    BY <1>1
  <2>2. n + Len(a) \in (Len(a) + 1) .. (Len(a) + Len(b)) /\ (n + Len(a)) - Len(a) = n
    BY <1>1, <2>1
  <2>3. n + Len(a) \in DOMAIN c
    BY <1>1, <2>1
  <2> QED BY ONLY <1>1, <2>2, <2>3
<1>4. \A n \in DOMAIN c : n \in DOMAIN a \/ (n > Len(a) /\ n - Len(a) \in DOMAIN b /\ c[n] = b[n - Len(a)])
  BY <1>1
<1>5. ItemsIn(c) = ItemsIn(a) \cup ItemsIn(b)
  <2>1. ItemsIn(c) \subseteq ItemsIn(a) \cup ItemsIn(b)
    BY <1>2, <1>4 DEF ItemsIn
  <2>2. ItemsIn(a) \subseteq ItemsIn(c)
    BY <1>2 DEF ItemsIn
  <2>3. ItemsIn(b) \subseteq ItemsIn(c)
    BY <1>3 DEF ItemsIn
  <2> QED BY <2>1, <2>2, <2>3
<1>6. ASSUME Apart(a), Apart(b), ItemsIn(a) \cap ItemsIn(b) = {},
             NEW m \in DOMAIN c, NEW n \in DOMAIN c, c[m] = c[n]
      PROVE  m = n
  <2>1. \A x \in DOMAIN a, y \in DOMAIN b : a[x] # b[y]
    BY <1>6 DEF ItemsIn
  <2>2. m \in Int /\ n \in Int
    BY <1>1
  <2>3. CASE m \in DOMAIN a /\ n \in DOMAIN a
    BY <1>2, <1>6, <2>3 DEF Apart
  <2>4. CASE m \notin DOMAIN a /\ n \notin DOMAIN a
    <3>1. /\ m - Len(a) \in DOMAIN b /\ n - Len(a) \in DOMAIN b
          /\ b[m - Len(a)] = b[n - Len(a)]
      BY <1>4, <1>6, <2>4
    <3>2. m - Len(a) = n - Len(a)
      BY <1>6, <3>1 DEF Apart
    <3> QED BY <1>1, <2>2, <3>2
  <2>5. CASE m \in DOMAIN a /\ n \notin DOMAIN a
    BY <1>2, <1>4, <1>6, <2>1, <2>5
  <2>6. CASE m \notin DOMAIN a /\ n \in DOMAIN a
    BY <1>2, <1>4, <1>6, <2>1, <2>6
  <2> QED BY <2>3, <2>4, <2>5, <2>6
<1>7. Apart(a) /\ Apart(b) /\ ItemsIn(a) \cap ItemsIn(b) = {} => Apart(c)
  BY <1>6 DEF Apart
<1> QED BY <1>1, <1>5, <1>7 DEF c

LEMMA SizeNat == \A S : Size(S) \in Nat
  BY SizeFacts

LEMMA FlagNat == \A x, S : Flag(x, S) \in Nat
  BY FlagFacts

LEMMA Parts ==
    ASSUME NEW i
    PROVE  /\ Size(Holding(events_, i)) \in Nat /\ Size(Holding(process_queue_, i)) \in Nat
           /\ Size(InBatches(tasks_, i)) \in Nat /\ Size(Waiting(vec, i)) \in Nat
           /\ Size(Working(vec, left, i)) \in Nat /\ Size(Written(rows, i)) \in Nat
           /\ Flag(i, failed) \in Nat /\ Flag(i, dups) \in Nat
  BY SizeNat, FlagNat

(* An item of a report that is not accepted is nowhere; any item is in at  *)
(* most one place.                                                         *)
LEMMA AtMostOne ==
    ASSUME PlacesAddUp, NEW r \in Reports, NEW i \in ItemsIn(r.data)
    PROVE  Total(i) <= 1 /\ Total(i) \in Nat /\ (r \notin accepted => Total(i) = 0)
<1>1. Total(i) = Flag(r, accepted)
  BY DEF PlacesAddUp
<1> QED BY <1>1, FlagFacts

(* The report that do_add_event files: it was not accepted before, and the *)
(* slot it goes to, old or new, has none of its items.                     *)
LEMMA Filing ==
    ASSUME TypeInv, ItemInv, NEW e \in Executors, do_add_event(e)
    PROVE  LET r == add[e].report
               k == add[e].key
               slot == FindOrCreate(k)
           IN  /\ r \in Reports \ accepted /\ r.data \in Seq(Items)
               /\ slot \in CleanSlot /\ ItemsIn(slot.data) \cap ItemsIn(r.data) = {}
               /\ \A i : i \in ItemsIn(slot.data) <=> k \in Holding(events_, i)
               /\ DOMAIN events_' = DOMAIN events_ \cup {k}
               /\ events_'[k] = [timestamp |-> slot.timestamp, step |-> slot.step,
                                 data |-> slot.data \o r.data]
               /\ \A t \in DOMAIN events_ \ {k} : events_'[t] = events_[t]
               /\ accepted' = accepted \cup {r}
<1> DEFINE r == add[e].report
           k == add[e].key
           slot == FindOrCreate(k)
<1>1. add[e].pc = "locked" /\ k \in Nat
  BY DEF do_add_event, TypeInv, TypeOK, AddState
<1>2. r \in Reports \ accepted
  BY <1>1 DEF TypeInv, InHand, ItemInv, AcceptOnce
<1>3. r.data \in Seq(Items)
  BY <1>2, ReportsAssumption
<1>4. ASSUME k \in DOMAIN events_
      PROVE  /\ slot \in CleanSlot /\ ItemsIn(slot.data) \cap ItemsIn(r.data) = {}
             /\ \A i : i \in ItemsIn(slot.data) <=> k \in Holding(events_, i)
  <2>1. slot = events_[k]
    BY <1>4 DEF FindOrCreate
  <2>2. slot \in CleanSlot
    BY <1>4, <2>1 DEF ItemInv, SlotsClean
  <2>3. \A i : i \in ItemsIn(slot.data) <=> k \in Holding(events_, i)
    BY <1>4, <2>1 DEF Holding
  <2>4. ASSUME NEW i \in ItemsIn(r.data) PROVE i \notin ItemsIn(slot.data)
    <3>1. Total(i) = 0
      BY <1>2, AtMostOne DEF ItemInv
    <3>2. Size(Holding(events_, i)) = 0
      <4>1. /\ Size(Holding(events_, i)) \in Nat /\ Size(Holding(process_queue_, i)) \in Nat
            /\ Size(InBatches(tasks_, i)) \in Nat /\ Size(Waiting(vec, i)) \in Nat
            /\ Size(Working(vec, left, i)) \in Nat /\ Size(Written(rows, i)) \in Nat
            /\ Flag(i, failed) \in Nat /\ Flag(i, dups) \in Nat
        BY Parts
      <4> QED BY ONLY <3>1, <4>1 DEF Total
    <3>3. Holding(events_, i) = {}
      BY ONLY <3>2, SizeFacts
    <3> QED BY <2>3, <3>3
  <2> QED BY <2>2, <2>3, <2>4
<1>5. ASSUME k \notin DOMAIN events_
      PROVE  /\ slot \in CleanSlot /\ ItemsIn(slot.data) \cap ItemsIn(r.data) = {}
             /\ \A i : i \in ItemsIn(slot.data) <=> k \in Holding(events_, i)
  <2>1. slot = [timestamp |-> k, step |-> conf_.step, data |-> <<>>]
    BY <1>5 DEF FindOrCreate
  <2>2. slot \in Slot /\ slot.data = <<>>
    BY <1>1, <2>1 DEF Slot, TypeInv, TypeOK, Conf
  <2>3. slot \in CleanSlot /\ ItemsIn(slot.data) = {}
    BY <2>2 DEF CleanSlot, Apart, ItemsIn
  <2>4. \A i : k \notin Holding(events_, i)
    BY <1>5 DEF Holding
  <2> QED BY <2>3, <2>4
<1>6. /\ slot \in CleanSlot /\ ItemsIn(slot.data) \cap ItemsIn(r.data) = {}
      /\ \A i : i \in ItemsIn(slot.data) <=> k \in Holding(events_, i)
  BY <1>4, <1>5
<1> HIDE DEF slot, k, r
<1>7. /\ DOMAIN events_' = DOMAIN events_ \cup {k}
      /\ events_'[k] = [timestamp |-> slot.timestamp, step |-> slot.step,
                        data |-> slot.data \o r.data]
      /\ \A t \in DOMAIN events_ \ {k} : events_'[t] = events_[t]
      /\ accepted' = accepted \cup {r}
  BY DEF do_add_event, slot, k, r
<1> QED BY <1>2, <1>3, <1>6, <1>7 DEF slot, k, r

LEMMA QuietItems ==
    ASSUME ItemInv,
           UNCHANGED <<events_, process_queue_, tasks_, vec, left, rows, failed, dups, accepted>>
    PROVE  SlotsClean' /\ PlacesAddUp'
<1>1. SlotsClean'
  BY DEF ItemInv, SlotsClean
<1>2. \A i : Total(i)' = Total(i)
  BY DEF Total
<1> QED BY <1>1, <1>2 DEF ItemInv, PlacesAddUp

(* A step that accepts nothing keeps PlacesAddUp when it keeps the sum for *)
(* every item that is in at most one place.                                *)
LEMMA AddUpKept ==
    ASSUME PlacesAddUp, UNCHANGED accepted,
           \A i : Total(i) \in Nat /\ Total(i) <= 1 => Total(i)' = Total(i)
    PROVE  PlacesAddUp'
<1> SUFFICES ASSUME NEW r \in Reports, NEW i \in ItemsIn(r.data) PROVE Total(i)' = Flag(r, accepted')
  BY DEF PlacesAddUp
<1>1. Total(i) = Flag(r, accepted) /\ Total(i) \in Nat /\ Total(i) <= 1
  BY AtMostOne DEF PlacesAddUp
<1> QED BY <1>1

LEMMA AddItems ==
    ASSUME TypeInv, ItemInv, NEW e \in Executors, do_add_event(e)
    PROVE  ItemInv'
<1> DEFINE r == add[e].report
           k == add[e].key
           slot == FindOrCreate(k)
<1>1. /\ r \in Reports \ accepted /\ r.data \in Seq(Items)
      /\ slot \in CleanSlot /\ ItemsIn(slot.data) \cap ItemsIn(r.data) = {}
      /\ \A i : i \in ItemsIn(slot.data) <=> k \in Holding(events_, i)
      /\ DOMAIN events_' = DOMAIN events_ \cup {k}
      /\ events_'[k] = [timestamp |-> slot.timestamp, step |-> slot.step,
                        data |-> slot.data \o r.data]
      /\ \A t \in DOMAIN events_ \ {k} : events_'[t] = events_[t]
      /\ accepted' = accepted \cup {r}
  BY Filing
<1> HIDE DEF slot, k, r
<1>2. slot \in Slot /\ slot.data \in Seq(Items) /\ Apart(slot.data)
  BY <1>1 DEF CleanSlot, Slot
<1>3. Apart(r.data)
  BY <1>1, ItemsAssumption DEF Apart
<1>4. /\ slot.data \o r.data \in Seq(Items)
      /\ Apart(slot.data \o r.data)
      /\ ItemsIn(slot.data \o r.data) = ItemsIn(slot.data) \cup ItemsIn(r.data)
  BY <1>1, <1>2, <1>3, Joined
<1>5. UNCHANGED <<process_queue_, tasks_, vec, left, rows, failed, dups, received, runPc>>
  BY DEF do_add_event, workVars, runVars
<1> DEFINE d == slot.data \o r.data
<1>d. /\ events_'[k] = [timestamp |-> slot.timestamp, step |-> slot.step, data |-> d]
      /\ events_'[k].data = d
      /\ d \in Seq(Items) /\ Apart(d) /\ ItemsIn(d) = ItemsIn(slot.data) \cup ItemsIn(r.data)
  <2>1. d \in Seq(Items) /\ Apart(d) /\ ItemsIn(d) = ItemsIn(slot.data) \cup ItemsIn(r.data)
    BY ONLY <1>4
  <2>2. events_'[k] = [timestamp |-> slot.timestamp, step |-> slot.step, data |-> d]
    BY ONLY <1>1
  <2> HIDE DEF d
  <2>3. events_'[k].data = d
    BY ONLY <2>2
  <2> QED BY ONLY <2>1, <2>2, <2>3
<1> HIDE DEF d
<1>e. slot.timestamp \in Nat /\ slot.step \in Nat
  BY <1>2 DEF Slot
<1>6. SlotsClean'
  <2>1. events_'[k] \in CleanSlot
    BY <1>d, <1>e DEF CleanSlot, Slot
  <2>2. \A t \in DOMAIN events_' : events_'[t] \in CleanSlot
    BY <1>1, <2>1 DEF ItemInv, SlotsClean
  <2> QED BY <1>5, <2>2 DEF ItemInv, SlotsClean
<1>7. AcceptOnce'
  <2>1. /\ add[e].pc # "idle" /\ r = add[e].report
        /\ add' = [add EXCEPT ![e] = Idle] /\ DOMAIN add = Executors
    BY DEF do_add_event, r, TypeInv, TypeOK
  <2>2. add'[e].pc = "idle" /\ \A x \in Executors \ {e} : add'[x] = add[x]
    BY <2>1 DEF Idle
  <2>3. r \in received
    BY <2>1 DEF ItemInv, AcceptOnce
  <2>4. \A x \in Executors \ {e} : add[x].pc # "idle" => add[x].report # r
    BY <2>1 DEF ItemInv, AcceptOnce
  <2> QED BY <1>1, <1>5, <2>2, <2>3, <2>4 DEF ItemInv, AcceptOnce
<1>8. RunnerHasOne'
  BY <1>5 DEF ItemInv, RunnerHasOne
<1>9. PlacesAddUp'
  <2> SUFFICES ASSUME NEW q \in Reports, NEW i \in ItemsIn(q.data) PROVE Total(i)' = Flag(q, accepted')
    BY DEF PlacesAddUp
  <2>1. \A t : t \in Holding(events_', i) <=>
            \/ t # k /\ t \in Holding(events_, i)
            \/ t = k /\ i \in ItemsIn(slot.data) \cup ItemsIn(r.data)
    BY <1>1, <1>d DEF Holding
  <2>2. Total(i) = Flag(q, accepted)
    BY DEF ItemInv, PlacesAddUp
  <2>3. CASE q = r
    <3>1. Flag(q, accepted) = 0 /\ Flag(q, accepted') = 1
      BY <1>1, <2>3 DEF Flag
    <3>2. /\ Size(Holding(events_, i)) \in Nat /\ Size(Holding(process_queue_, i)) \in Nat
          /\ Size(InBatches(tasks_, i)) \in Nat /\ Size(Waiting(vec, i)) \in Nat
          /\ Size(Working(vec, left, i)) \in Nat /\ Size(Written(rows, i)) \in Nat
          /\ Flag(i, failed) \in Nat /\ Flag(i, dups) \in Nat
      BY Parts
    <3>3. Size(Holding(events_, i)) = 0
      BY ONLY <2>2, <3>1, <3>2 DEF Total
    <3>4. Holding(events_, i) = {}
      BY ONLY <3>3, SizeFacts
    <3>5. Holding(events_', i) = {k}
      BY <2>1, <2>3, <3>4
    <3>6. Size(Holding(events_', i)) = 1
      BY ONLY <3>5, SizeFacts
    <3>7. Total(i)' = Total(i) + 1
      BY ONLY <1>5, <3>2, <3>3, <3>6 DEF Total
    <3> QED BY <2>2, <3>1, <3>7
  <2>4. CASE q # r
    <3>1. i \notin ItemsIn(r.data)
      BY <1>1, <2>4, ItemsAssumption
    <3>2. Holding(events_', i) = Holding(events_, i)
      BY <1>1, <2>1, <3>1
    <3>3. Total(i)' = Total(i)
      BY ONLY <1>5, <3>2 DEF Total
    <3>4. Flag(q, accepted') = Flag(q, accepted)
      BY <1>1, <2>4 DEF Flag
    <3> QED BY <2>2, <3>3, <3>4
  <2> QED BY <2>3, <2>4
<1> QED BY <1>6, <1>7, <1>8, <1>9 DEF ItemInv

LEMMA FlushItems ==
    ASSUME TypeInv, ItemInv, NEW k \in DOMAIN events_, LingerFlush(k)
    PROVE  SlotsClean' /\ PlacesAddUp'
<1>1. /\ UNCHANGED <<tasks_, vec, left, rows, failed, dups, accepted>>
      /\ events_' = Less(events_, k)
      /\ process_queue_' = Put(process_queue_, events_[k])
  BY DEF LingerFlush, workVars, Less, Put
<1>2. events_[k] \in CleanSlot /\ process_queue_ \in Seq(CleanSlot)
  BY DEF ItemInv, SlotsClean
<1>3. process_queue_' \in Seq(CleanSlot)
  BY <1>1, <1>2 DEF Put
<1>4. SlotsClean'
  BY <1>1, <1>3 DEF Less, ItemInv, SlotsClean
<1>5. ASSUME NEW i, Total(i) \in Nat, Total(i) <= 1 PROVE Total(i)' = Total(i)
  <2>1. /\ Size(Holding(events_, i)) \in Nat /\ Size(Holding(process_queue_, i)) \in Nat
        /\ Size(InBatches(tasks_, i)) \in Nat /\ Size(Waiting(vec, i)) \in Nat
        /\ Size(Working(vec, left, i)) \in Nat /\ Size(Written(rows, i)) \in Nat
        /\ Flag(i, failed) \in Nat /\ Flag(i, dups) \in Nat
    BY Parts
  <2>2. Size(Holding(events_, i)) + Size(Holding(process_queue_, i)) <= 1
    BY ONLY <1>5, <2>1 DEF Total
  <2>3. events_[k] \in Slot /\ process_queue_ \in Seq(Slot)
    BY <1>2, CleanIsSlot
  <2>4. Size(Holding(events_', i)) + Size(Holding(process_queue_', i))
            = Size(Holding(events_, i)) + Size(Holding(process_queue_, i))
    BY ONLY <1>1, <2>2, <2>3, k \in DOMAIN events_, FlushMoves
  <2>5. Size(Holding(events_', i)) \in Nat /\ Size(Holding(process_queue_', i)) \in Nat
    BY SizeNat
  <2> QED BY ONLY <1>1, <2>1, <2>4, <2>5 DEF Total
<1> QED BY <1>1, <1>4, <1>5, AddUpKept DEF ItemInv

LEMMA OffloadItems ==
    ASSUME TypeInv, ItemInv, RunOffload
    PROVE  SlotsClean' /\ PlacesAddUp'
<1>1. /\ UNCHANGED <<events_, vec, left, rows, failed, dups, accepted>>
      /\ tasks_' = Put(tasks_, Front(process_queue_, queue_size))
      /\ process_queue_' = Back(process_queue_, queue_size)
  BY DEF RunOffload, slotVars, workVars, history, Put, Front, Back
<1>2. process_queue_ \in Seq(CleanSlot) /\ tasks_ \in Seq(Seq(CleanSlot))
  BY DEF ItemInv, SlotsClean
<1>3. /\ queue_size \in Nat \ {0} /\ queue_size + 1 \in Nat \ {0}
      /\ Len(process_queue_) \in Nat /\ queue_size <= Len(process_queue_)
  BY <1>2 DEF RunOffload, TypeInv, TypeOK
<1>4. /\ Front(process_queue_, queue_size) \in Seq(CleanSlot)
      /\ Back(process_queue_, queue_size) \in Seq(CleanSlot)
  BY <1>2, <1>3, SubSeqType DEF Front, Back
<1>5. process_queue_' \in Seq(CleanSlot) /\ tasks_' \in Seq(Seq(CleanSlot))
  BY <1>1, <1>2, <1>4 DEF Put
<1>6. SlotsClean'
  BY <1>1, <1>5 DEF ItemInv, SlotsClean
<1>7. ASSUME NEW i, Total(i) \in Nat, Total(i) <= 1 PROVE Total(i)' = Total(i)
  <2>1. /\ Size(Holding(events_, i)) \in Nat /\ Size(Holding(process_queue_, i)) \in Nat
        /\ Size(InBatches(tasks_, i)) \in Nat /\ Size(Waiting(vec, i)) \in Nat
        /\ Size(Working(vec, left, i)) \in Nat /\ Size(Written(rows, i)) \in Nat
        /\ Flag(i, failed) \in Nat /\ Flag(i, dups) \in Nat
    BY Parts
  <2>2. Size(Holding(process_queue_, i)) + Size(InBatches(tasks_, i)) <= 1
    BY ONLY <1>7, <2>1 DEF Total
  <2>3. process_queue_ \in Seq(Slot) /\ tasks_ \in Seq(Seq(Slot)) /\ queue_size \in Nat
    BY <1>3 DEF TypeInv, TypeOK
  <2>4. Size(Holding(process_queue_', i)) + Size(InBatches(tasks_', i))
            = Size(Holding(process_queue_, i)) + Size(InBatches(tasks_, i))
    BY ONLY <1>1, <1>3, <2>2, <2>3, OffloadMoves
  <2>5. Size(Holding(process_queue_', i)) \in Nat /\ Size(InBatches(tasks_', i)) \in Nat
    BY SizeNat
  <2> QED BY ONLY <1>1, <2>1, <2>4, <2>5 DEF Total
<1> QED BY <1>1, <1>6, <1>7, AddUpKept DEF ItemInv

LEMMA PopItems ==
    ASSUME TypeInv, ItemInv, RunPop
    PROVE  SlotsClean' /\ PlacesAddUp'
<1>1. UNCHANGED <<events_, tasks_, rows, failed, accepted>>
  BY DEF RunPop, slotVars, history
<1>2. /\ process_queue_ # <<>> /\ process_queue_' = Tail(process_queue_)
      /\ vec' = [vec EXCEPT ![Runner] = <<Head(process_queue_)>>]
      /\ left' = [left EXCEPT ![Runner] = RowKeys(Head(process_queue_).data)]
      /\ dups' = dups \cup Duplicates(Head(process_queue_).data)
  BY DEF RunPop
<1>3. process_queue_ \in Seq(CleanSlot) /\ vec \in [Workers -> Seq(CleanSlot)]
  BY DEF ItemInv, SlotsClean
<1>4. vec[Runner] = <<>> /\ left[Runner] = {} /\ DOMAIN left = Workers
  <2>1. Runner \in Workers /\ DOMAIN left = Workers
    BY DEF Workers, TypeInv, TypeOK
  <2>2. vec[Runner] = <<>>
    BY DEF RunPop, ItemInv, RunnerHasOne
  <2> QED BY <2>1, <2>2 DEF TypeInv, InHand
<1>p. Pops(process_queue_, vec, left, dups, process_queue_', vec', left', dups')
  BY ONLY <1>2, <1>3, <1>4 DEF Pops
<1>5. process_queue_' \in Seq(CleanSlot) /\ vec' \in [Workers -> Seq(CleanSlot)]
  <2>1. Head(process_queue_) \in CleanSlot /\ Tail(process_queue_) \in Seq(CleanSlot)
    BY <1>2, <1>3
  <2>2. <<Head(process_queue_)>> \in Seq(CleanSlot)
    BY <2>1
  <2> QED BY <1>2, <1>3, <2>1, <2>2
<1>6. SlotsClean'
  BY <1>1, <1>5 DEF ItemInv, SlotsClean
<1>7. ASSUME NEW i, Total(i) \in Nat, Total(i) <= 1 PROVE Total(i)' = Total(i)
  <2>1. /\ Size(Holding(events_, i)) \in Nat /\ Size(Holding(process_queue_, i)) \in Nat
        /\ Size(InBatches(tasks_, i)) \in Nat /\ Size(Waiting(vec, i)) \in Nat
        /\ Size(Working(vec, left, i)) \in Nat /\ Size(Written(rows, i)) \in Nat
        /\ Flag(i, failed) \in Nat /\ Flag(i, dups) \in Nat
    BY Parts
  <2>2. Size(Holding(process_queue_, i)) + Size(Working(vec, left, i)) + Flag(i, dups) <= 1
    BY ONLY <1>7, <2>1 DEF Total
  <2>3. /\ Waiting(vec', i) = Waiting(vec, i)
        /\ Size(Holding(process_queue_', i)) + Size(Working(vec', left', i)) + Flag(i, dups')
              = Size(Holding(process_queue_, i)) + Size(Working(vec, left, i)) + Flag(i, dups)
    BY ONLY <1>p, <2>2, PopMoves
  <2>4. /\ Size(Holding(process_queue_', i)) \in Nat /\ Size(Working(vec', left', i)) \in Nat
        /\ Flag(i, dups') \in Nat
    BY SizeNat, FlagNat
  <2> QED BY ONLY <1>1, <2>1, <2>3, <2>4 DEF Total
<1> QED BY <1>1, <1>6, <1>7, AddUpKept DEF ItemInv

LEMMA ProcessedItems ==
    ASSUME TypeInv, ItemInv, RunProcessed
    PROVE  SlotsClean' /\ PlacesAddUp'
<1>1. UNCHANGED <<events_, process_queue_, tasks_, left, rows, failed, dups, accepted>>
  BY DEF RunProcessed, slotVars, history
<1>2. vec' = [vec EXCEPT ![Runner] = <<>>] /\ left[Runner] = {}
  BY DEF RunProcessed
<1>3. vec \in [Workers -> Seq(CleanSlot)] /\ <<>> \in Seq(CleanSlot)
  BY DEF ItemInv, SlotsClean
<1>4. vec[Runner] = <<>> \/ Len(vec[Runner]) = 1
  BY DEF ItemInv, RunnerHasOne
<1>5. vec' \in [Workers -> Seq(CleanSlot)]
  BY <1>2, <1>3
<1>6. SlotsClean'
  BY <1>1, <1>5 DEF ItemInv, SlotsClean
<1>7. ASSUME NEW i PROVE Total(i)' = Total(i)
  <2>1. Waiting(vec', i) = Waiting(vec, i) /\ Working(vec', left, i) = Working(vec, left, i)
    BY ONLY <1>2, <1>3, <1>4, ProcessedMoves
  <2> QED BY ONLY <1>1, <2>1 DEF Total
<1> QED BY <1>1, <1>6, <1>7, AddUpKept DEF ItemInv

LEMMA SpawnItems ==
    ASSUME TypeInv, ItemInv, HelpersSpawn
    PROVE  SlotsClean' /\ PlacesAddUp'
<1> DEFINE n == IF Len(tasks_) < MaxSpawn THEN Len(tasks_) ELSE MaxSpawn
<1>1. UNCHANGED <<events_, process_queue_, rows, failed, accepted>>
  BY DEF HelpersSpawn, slotVars, history
<1>2. /\ tasks_' = SubSeq(tasks_, n + 1, Len(tasks_))
      /\ vec' = [w \in Workers |-> IF w \in 1 .. n THEN tasks_[w] ELSE vec[w]]
      /\ left' = [w \in Workers |-> IF w \in 1 .. n THEN RowsToInsert(tasks_[w]) ELSE left[w]]
      /\ dups' = dups \cup UNION {NewDups(tasks_[w]) : w \in 1 .. n}
  BY DEF HelpersSpawn
<1>3. tasks_ \in Seq(Seq(CleanSlot)) /\ vec \in [Workers -> Seq(CleanSlot)]
  BY DEF ItemInv, SlotsClean
<1>4. n \in Nat /\ n <= Len(tasks_) /\ 1 .. n \subseteq Helpers
  BY <1>3, ConfAssumption DEF Helpers
<1>5. 1 .. n \subseteq Workers
  BY <1>4 DEF Workers
<1>6. \A w \in 1 .. n : vec[w] = <<>> /\ left[w] = {}
  BY <1>4, <1>5 DEF HelpersSpawn, TypeInv, InHand
<1> HIDE DEF n
<1>s. Spawns(n, tasks_, vec, left, dups, tasks_', vec', left', dups')
  BY ONLY <1>2, <1>3, <1>4, <1>5, <1>6 DEF Spawns
<1>7. tasks_' \in Seq(Seq(CleanSlot))
  BY <1>2, <1>3, <1>4, SubSeqType
<1>8. vec' \in [Workers -> Seq(CleanSlot)]
  BY <1>2, <1>3, <1>4
<1>9. SlotsClean'
  BY <1>1, <1>7, <1>8 DEF ItemInv, SlotsClean
<1>10. ASSUME NEW i, Total(i) \in Nat, Total(i) <= 1 PROVE Total(i)' = Total(i)
  <2>1. /\ Size(Holding(events_, i)) \in Nat /\ Size(Holding(process_queue_, i)) \in Nat
        /\ Size(InBatches(tasks_, i)) \in Nat /\ Size(Waiting(vec, i)) \in Nat
        /\ Size(Working(vec, left, i)) \in Nat /\ Size(Written(rows, i)) \in Nat
        /\ Flag(i, failed) \in Nat /\ Flag(i, dups) \in Nat
    BY Parts
  <2>2. Size(InBatches(tasks_, i)) + Size(Waiting(vec, i)) + Size(Working(vec, left, i)) + Flag(i, dups) <= 1
    BY ONLY <1>10, <2>1 DEF Total
  <2>3. Size(InBatches(tasks_', i)) + Size(Waiting(vec', i)) + Size(Working(vec', left', i)) + Flag(i, dups')
            = Size(InBatches(tasks_, i)) + Size(Waiting(vec, i)) + Size(Working(vec, left, i)) + Flag(i, dups)
    BY ONLY <1>s, <2>2, SpawnMoves
  <2>4. /\ Size(InBatches(tasks_', i)) \in Nat /\ Size(Waiting(vec', i)) \in Nat
        /\ Size(Working(vec', left', i)) \in Nat /\ Flag(i, dups') \in Nat
    BY SizeNat, FlagNat
  <2> QED BY ONLY <1>1, <2>1, <2>3, <2>4 DEF Total
<1> QED BY <1>1, <1>9, <1>10, AddUpKept DEF ItemInv

LEMMA InsertItems ==
    ASSUME TypeInv, ItemInv, NEW w \in Workers, NEW k \in left[w], InsertOk(w, k) \/ InsertFailed(w, k)
    PROVE  SlotsClean' /\ PlacesAddUp'
<1>1. UNCHANGED <<events_, process_queue_, tasks_, vec, dups, accepted>>
  BY DEF InsertOk, InsertFailed, slotVars, history
<1>2. left' = Without(left, w, k) /\ DOMAIN left = Workers
  BY DEF InsertOk, InsertFailed, Without, TypeInv, TypeOK
<1>3. \/ /\ failed' = failed
         /\ \E row : row.items = KeptOfKey(Head(vec[w]).data, k) /\ rows' = rows \cup {row}
      \/ rows' = rows /\ failed' = failed \cup KeptOfKey(Head(vec[w]).data, k)
  <2>1. StatRow(Head(vec[w]), k).items = KeptOfKey(Head(vec[w]).data, k)
    BY DEF StatRow
  <2> QED BY <2>1 DEF InsertOk, InsertFailed
<1>4. SlotsClean'
  BY <1>1 DEF ItemInv, SlotsClean
<1>5. ASSUME NEW i, Total(i) \in Nat, Total(i) <= 1 PROVE Total(i)' = Total(i)
  <2>1. /\ Size(Holding(events_, i)) \in Nat /\ Size(Holding(process_queue_, i)) \in Nat
        /\ Size(InBatches(tasks_, i)) \in Nat /\ Size(Waiting(vec, i)) \in Nat
        /\ Size(Working(vec, left, i)) \in Nat /\ Size(Written(rows, i)) \in Nat
        /\ Flag(i, failed) \in Nat /\ Flag(i, dups) \in Nat
    BY Parts
  <2>2. /\ Size(Working(vec, left, i)) + Size(Written(rows, i)) <= 1
        /\ Size(Working(vec, left, i)) + Flag(i, failed) <= 1
    BY ONLY <1>5, <2>1 DEF Total
  <2>3. /\ Size(Working(vec, left', i)) \in Nat /\ Size(Written(rows', i)) \in Nat
        /\ Flag(i, failed') \in Nat
    BY SizeNat, FlagNat
  <2>4. CASE /\ failed' = failed
             /\ \E row : row.items = KeptOfKey(Head(vec[w]).data, k) /\ rows' = rows \cup {row}
    <3>1. PICK row : row.items = KeptOfKey(Head(vec[w]).data, k) /\ rows' = rows \cup {row}
      BY <2>4
    <3>2. Size(Working(vec, left', i)) + Size(Written(rows', i))
              = Size(Working(vec, left, i)) + Size(Written(rows, i))
      BY ONLY w \in Workers, k \in left[w], <1>2, <2>2, <3>1, StoredMoves
    <3> QED BY ONLY <1>1, <2>1, <2>3, <2>4, <3>2 DEF Total
  <2>5. CASE rows' = rows /\ failed' = failed \cup KeptOfKey(Head(vec[w]).data, k)
    <3>1. Size(Working(vec, left', i)) + Flag(i, failed')
              = Size(Working(vec, left, i)) + Flag(i, failed)
      BY ONLY w \in Workers, k \in left[w], <1>2, <2>2, <2>5, FailedMoves
    <3>2. rows' = rows
      BY <2>5
    <3> QED BY ONLY <1>1, <2>1, <2>3, <3>1, <3>2 DEF Total
  <2> QED BY <1>3, <2>4, <2>5
<1> QED BY <1>1, <1>4, <1>5, AddUpKept DEF ItemInv

LEMMA NextSlotItems ==
    ASSUME TypeInv, ItemInv, NEW h \in Helpers, NextSlot(h)
    PROVE  SlotsClean' /\ PlacesAddUp'
<1>1. UNCHANGED <<events_, process_queue_, tasks_, rows, failed, accepted>>
  BY DEF NextSlot, slotVars, history
<1>2. /\ vec[h] # <<>> /\ left[h] = {}
      /\ vec' = [vec EXCEPT ![h] = Tail(@)]
      /\ left' = [left EXCEPT ![h] = RowsToInsert(Tail(vec[h]))]
      /\ dups' = dups \cup NewDups(Tail(vec[h]))
  BY DEF NextSlot
<1>3. vec \in [Workers -> Seq(CleanSlot)] /\ h \in Workers /\ DOMAIN left = Workers
  BY DEF ItemInv, SlotsClean, Workers, TypeInv, TypeOK
<1>g. vec[h] # <<>> /\ left[h] = {} /\ GoesOn(h, vec, left, dups, vec', left', dups')
  BY <1>2 DEF GoesOn
<1>4. vec' \in [Workers -> Seq(CleanSlot)]
  <2>1. Tail(vec[h]) \in Seq(CleanSlot)
    BY <1>2, <1>3
  <2> QED BY <1>2, <1>3, <2>1
<1>5. SlotsClean'
  BY <1>1, <1>4 DEF ItemInv, SlotsClean
<1>6. ASSUME NEW i, Total(i) \in Nat, Total(i) <= 1 PROVE Total(i)' = Total(i)
  <2>1. /\ Size(Holding(events_, i)) \in Nat /\ Size(Holding(process_queue_, i)) \in Nat
        /\ Size(InBatches(tasks_, i)) \in Nat /\ Size(Waiting(vec, i)) \in Nat
        /\ Size(Working(vec, left, i)) \in Nat /\ Size(Written(rows, i)) \in Nat
        /\ Flag(i, failed) \in Nat /\ Flag(i, dups) \in Nat
    BY Parts
  <2>2. Size(Waiting(vec, i)) + Size(Working(vec, left, i)) + Flag(i, dups) <= 1
    BY ONLY <1>6, <2>1 DEF Total
  <2>3. Size(Waiting(vec', i)) + Size(Working(vec', left', i)) + Flag(i, dups')
            = Size(Waiting(vec, i)) + Size(Working(vec, left, i)) + Flag(i, dups)
    BY ONLY <1>3, <1>g, <2>2, NextSlotMoves
  <2>4. /\ Size(Waiting(vec', i)) \in Nat /\ Size(Working(vec', left', i)) \in Nat
        /\ Flag(i, dups') \in Nat
    BY SizeNat, FlagNat
  <2> QED BY ONLY <1>1, <2>1, <2>3, <2>4 DEF Total
<1> QED BY <1>1, <1>5, <1>6, AddUpKept DEF ItemInv

(* A report comes in once and is in one hand.                              *)
LEMMA AcceptNext == TypeInv /\ ItemInv /\ [Next]_vars => AcceptOnce'
<1> SUFFICES ASSUME TypeInv, ItemInv, [Next]_vars PROVE AcceptOnce'
  OBVIOUS
<1>0. AcceptOnce /\ DOMAIN add = Executors
  BY DEF ItemInv, TypeInv, TypeOK
<1>1. ASSUME UNCHANGED <<add, received, accepted>> PROVE AcceptOnce'
  BY <1>0, <1>1 DEF AcceptOnce
<1>2. ASSUME NEW e \in Executors, NEW r \in Reports, AddEventReject(e, r) PROVE AcceptOnce'
  BY <1>0, <1>2 DEF AddEventReject, AcceptOnce
<1>3. ASSUME NEW e \in Executors, NEW r \in Reports, AddEventPass(e, r) PROVE AcceptOnce'
  <2>1. /\ r \notin received /\ received' = received \cup {r} /\ accepted' = accepted
        /\ add'[e].pc = "passed" /\ add'[e].report = r
        /\ \A x \in Executors \ {e} : add'[x] = add[x]
    BY <1>0, <1>3 DEF AddEventPass
  <2> QED BY <1>0, <2>1 DEF AcceptOnce
<1>4. ASSUME NEW e \in Executors, AddEventLock(e) PROVE AcceptOnce'
  <2>1. add[e] \in AddState
    BY DEF TypeInv, TypeOK
  <2>2. /\ add[e].pc # "idle" /\ add'[e].report = add[e].report
        /\ \A x \in Executors \ {e} : add'[x] = add[x]
        /\ received' = received /\ accepted' = accepted
    BY <1>0, <1>4, <2>1 DEF AddEventLock, AddState, history
  <2> QED BY <1>0, <2>2 DEF AcceptOnce
<1>5. ASSUME NEW e \in Executors, do_add_event(e) PROVE AcceptOnce'
  BY <1>5, AddItems DEF ItemInv
<1>6. CASE Tick \/ LingerCheckLock \/ LingerCheckUnlock \/ RunTop \/ RunOffload \/ RunOffloadDone
            \/ RunPop \/ RunPopTimeout \/ RunProcessed \/ HelpersSpawn \/ UNCHANGED vars
  <2>1. UNCHANGED <<add, received, accepted>>
    BY <1>6 DEF Tick, LingerCheckLock, LingerCheckUnlock, RunTop, RunOffload, RunOffloadDone,
         RunPop, RunPopTimeout, RunProcessed, HelpersSpawn, vars, history
  <2> QED BY <1>1, <2>1
<1>7. ASSUME NEW k \in DOMAIN events_, LingerFlush(k) PROVE AcceptOnce'
  BY <1>1, <1>7 DEF LingerFlush
<1>8. ASSUME NEW w \in Workers, NEW k \in left[w], InsertOk(w, k) \/ InsertFailed(w, k) PROVE AcceptOnce'
  BY <1>1, <1>8 DEF InsertOk, InsertFailed, history
<1>9. ASSUME NEW h \in Helpers, NextSlot(h) PROVE AcceptOnce'
  BY <1>1, <1>9 DEF NextSlot, history
<1>10. ASSUME NEW v, UpdateLinger(v) \/ UpdateStep(v) \/ UpdateSize(v) PROVE AcceptOnce'
  BY <1>1, <1>10 DEF UpdateLinger, UpdateStep, UpdateSize, history
<1> QED
  BY <1>2, <1>3, <1>4, <1>5, <1>6, <1>7, <1>8, <1>9, <1>10
     DEF Next, AddEvent, linger_check_run, run, Insert

(* The handler's own thread has one slot in hand.                          *)
LEMMA RunnerNext == TypeInv /\ ItemInv /\ [Next]_vars => RunnerHasOne'
<1> SUFFICES ASSUME TypeInv, ItemInv, [Next]_vars PROVE RunnerHasOne'
  OBVIOUS
<1>0. RunnerHasOne /\ Runner \in Workers /\ Runner \notin Helpers /\ DOMAIN vec = Workers
  <2>1. Runner \notin Helpers
    BY ConfAssumption DEF Runner, Helpers
  <2> QED BY <2>1 DEF ItemInv, TypeInv, TypeOK, Workers
<1>1. ASSUME vec'[Runner] = vec[Runner], runPc' = runPc PROVE RunnerHasOne'
  BY <1>0, <1>1 DEF RunnerHasOne
<1>2. CASE Tick \/ LingerCheckLock \/ LingerCheckUnlock \/ RunOffload \/ UNCHANGED vars
  BY <1>1, <1>2 DEF Tick, LingerCheckLock, LingerCheckUnlock, RunOffload, vars, runVars, workVars
<1>3. CASE RunTop \/ RunOffloadDone \/ RunPopTimeout
  BY <1>0, <1>3 DEF RunTop, RunOffloadDone, RunPopTimeout, workVars, RunnerHasOne
<1>4. CASE RunPop
  <2>1. vec'[Runner] = <<Head(process_queue_)>> /\ runPc' = "process"
    BY <1>0, <1>4 DEF RunPop
  <2> QED BY <2>1 DEF RunnerHasOne
<1>5. CASE RunProcessed
  BY <1>0, <1>5 DEF RunProcessed, RunnerHasOne
<1>6. CASE HelpersSpawn
  <2>1. vec'[Runner] = vec[Runner] /\ runPc' = runPc
    BY <1>0, <1>6 DEF HelpersSpawn, Runner, runVars
  <2> QED BY <1>1, <2>1
<1>7. ASSUME NEW h \in Helpers, NextSlot(h) PROVE RunnerHasOne'
  BY <1>0, <1>1, <1>7 DEF NextSlot, runVars
<1>8. ASSUME NEW e \in Executors, AddEvent(e) PROVE RunnerHasOne'
  BY <1>1, <1>8 DEF AddEvent, AddEventReject, AddEventPass, AddEventLock, do_add_event, runVars, workVars
<1>9. ASSUME NEW k \in DOMAIN events_, LingerFlush(k) PROVE RunnerHasOne'
  BY <1>1, <1>9 DEF LingerFlush, runVars, workVars
<1>10. ASSUME NEW w \in Workers, NEW k \in left[w], InsertOk(w, k) \/ InsertFailed(w, k) PROVE RunnerHasOne'
  BY <1>1, <1>10 DEF InsertOk, InsertFailed, runVars
<1>11. ASSUME NEW v, UpdateLinger(v) \/ UpdateStep(v) \/ UpdateSize(v) PROVE RunnerHasOne'
  BY <1>1, <1>11 DEF UpdateLinger, UpdateStep, UpdateSize, runVars, workVars
<1> QED
  BY <1>2, <1>3, <1>4, <1>5, <1>6, <1>7, <1>8, <1>9, <1>10, <1>11
     DEF Next, linger_check_run, run, Insert

LEMMA ItemNext == TypeInv /\ ItemInv /\ [Next]_vars => ItemInv'
<1> SUFFICES ASSUME TypeInv, ItemInv, [Next]_vars PROVE SlotsClean' /\ PlacesAddUp'
  BY AcceptNext, RunnerNext DEF ItemInv
<1>1. CASE Tick \/ LingerCheckLock \/ LingerCheckUnlock \/ RunTop \/ RunOffloadDone
            \/ RunPopTimeout \/ UNCHANGED vars
  <2>1. UNCHANGED <<events_, process_queue_, tasks_, vec, left, rows, failed, dups, accepted>>
    BY <1>1 DEF Tick, LingerCheckLock, LingerCheckUnlock, RunTop, RunOffloadDone, RunPopTimeout,
         vars, slotVars, workVars, history
  <2> QED BY <2>1, QuietItems
<1>2. ASSUME NEW e \in Executors, NEW r \in Reports, AddEventReject(e, r) \/ AddEventPass(e, r)
      PROVE  SlotsClean' /\ PlacesAddUp'
  BY <1>2, QuietItems DEF AddEventReject, AddEventPass, slotVars, workVars
<1>3. ASSUME NEW e \in Executors, AddEventLock(e) PROVE SlotsClean' /\ PlacesAddUp'
  BY <1>3, QuietItems DEF AddEventLock, workVars, history
<1>4. ASSUME NEW e \in Executors, do_add_event(e) PROVE SlotsClean' /\ PlacesAddUp'
  BY <1>4, AddItems DEF ItemInv
<1>5. ASSUME NEW k \in DOMAIN events_, LingerFlush(k) PROVE SlotsClean' /\ PlacesAddUp'
  BY <1>5, FlushItems
<1>6. CASE RunOffload
  BY <1>6, OffloadItems
<1>7. CASE RunPop
  BY <1>7, PopItems
<1>8. CASE RunProcessed
  BY <1>8, ProcessedItems
<1>9. CASE HelpersSpawn
  BY <1>9, SpawnItems
<1>10. ASSUME NEW w \in Workers, NEW k \in left[w], InsertOk(w, k) \/ InsertFailed(w, k)
       PROVE  SlotsClean' /\ PlacesAddUp'
  BY <1>10, InsertItems
<1>11. ASSUME NEW h \in Helpers, NextSlot(h) PROVE SlotsClean' /\ PlacesAddUp'
  BY <1>11, NextSlotItems
<1>12. ASSUME NEW v, UpdateLinger(v) \/ UpdateStep(v) \/ UpdateSize(v)
       PROVE  SlotsClean' /\ PlacesAddUp'
  BY <1>12, QuietItems DEF UpdateLinger, UpdateStep, UpdateSize, slotVars, workVars, history
<1> QED
  BY <1>1, <1>2, <1>3, <1>4, <1>5, <1>6, <1>7, <1>8, <1>9, <1>10, <1>11, <1>12
     DEF Next, AddEvent, linger_check_run, run, Insert

LEMMA ItemInit == Init => ItemInv
<1> SUFFICES ASSUME Init PROVE ItemInv
  OBVIOUS
<1>1. /\ <<>> \in Seq(CleanSlot) /\ <<>> \in Seq(Seq(CleanSlot)) /\ Runner \in Workers
      /\ DOMAIN <<>> = {}
  BY DEF Workers
<1>2. SlotsClean
  BY <1>1 DEF Init, SlotsClean
<1>3. AcceptOnce /\ RunnerHasOne
  BY <1>1 DEF Init, AcceptOnce, RunnerHasOne, Idle
<1>4. ASSUME NEW i PROVE Total(i) = 0
  <2>1. Holding(events_, i) = {} /\ Holding(process_queue_, i) = {}
    BY <1>1 DEF Init, Holding
  <2>2. InBatches(tasks_, i) = {}
    BY <1>1 DEF Init, InBatches
  <2>3. Waiting(vec, i) = {}
    <3>1. \A w \in Workers : Holding(vec[w], i) = {}
      BY <1>1 DEF Init, Holding
    <3>2. \A w, m : <<w, m>> \notin Waiting(vec, i)
      BY <3>1, WaitingAt
    <3>3. \A p \in Waiting(vec, i) : p = <<p[1], p[2]>>
      BY WaitingAt
    <3> QED BY ONLY <3>2, <3>3, NoPairs
  <2>4. Working(vec, left, i) = {} /\ Written(rows, i) = {}
    BY DEF Init, Working, HasRow, Written
  <2>5. Flag(i, failed) = 0 /\ Flag(i, dups) = 0
    BY DEF Init, Flag
  <2>6. Size({}) = 0
    BY SizeOne
  <2> QED BY ONLY <2>1, <2>2, <2>3, <2>4, <2>5, <2>6 DEF Total
<1>5. PlacesAddUp
  BY <1>4 DEF Init, PlacesAddUp, Flag
<1> QED BY <1>2, <1>3, <1>5 DEF ItemInv

LEMMA SizeIsCardinality ==
    ASSUME NEW S, Size(S) <= 1
    PROVE  Cardinality(S) = Size(S)
<1>1. CASE S = {}
  BY <1>1, SizeFacts, FS_EmptySet
<1>2. CASE \E x : S = {x}
  <2>1. PICK x : S = {x}
    BY <1>2
  <2>2. Cardinality({x}) = 1
    BY FS_Singleton
  <2> QED BY <2>1, <2>2, SizeFacts
<1> QED BY <1>1, <1>2, SizeFacts

(* Every item of an accepted report is in exactly one place at every       *)
(* moment, and an item of any other report is nowhere, for any number of   *)
(* executors, helpers, reports and items, any delay of the threads and any *)
(* change of the configuration while slots are open.                       *)
THEOREM ItemsCountedOnce == Spec => []EveryItemOnce
<1>1. ItemInv => EveryItemOnce
  <2> SUFFICES ASSUME ItemInv, NEW r \in Reports, NEW i \in ItemsIn(r.data)
               PROVE  Places(i) = IF r \in accepted THEN 1 ELSE 0
    BY DEF EveryItemOnce
  <2>1. Total(i) = Flag(r, accepted) /\ Total(i) <= 1
    BY AtMostOne DEF ItemInv, PlacesAddUp
  <2>2. /\ Size(Holding(events_, i)) \in Nat /\ Size(Holding(process_queue_, i)) \in Nat
        /\ Size(InBatches(tasks_, i)) \in Nat /\ Size(Waiting(vec, i)) \in Nat
        /\ Size(Working(vec, left, i)) \in Nat /\ Size(Written(rows, i)) \in Nat
        /\ Flag(i, failed) \in Nat /\ Flag(i, dups) \in Nat
    BY Parts
  <2>3. /\ Size(Holding(events_, i)) <= 1 /\ Size(Holding(process_queue_, i)) <= 1
        /\ Size(InBatches(tasks_, i)) <= 1 /\ Size(Waiting(vec, i)) <= 1
        /\ Size(Working(vec, left, i)) <= 1 /\ Size(Written(rows, i)) <= 1
        /\ Flag(i, failed) + Flag(i, dups) <= 1
    BY ONLY <2>1, <2>2 DEF Total
  <2>4. Cardinality({k \in DOMAIN events_ : i \in ItemsIn(events_[k].data)}) = Size(Holding(events_, i))
    BY ONLY <2>3, SizeIsCardinality DEF Holding
  <2>5. Cardinality({n \in DOMAIN process_queue_ : i \in ItemsIn(process_queue_[n].data)})
            = Size(Holding(process_queue_, i))
    BY ONLY <2>3, SizeIsCardinality DEF Holding
  <2>6. Cardinality({p \in UNION {{n} \X DOMAIN tasks_[n] : n \in DOMAIN tasks_} :
                        i \in ItemsIn(tasks_[p[1]][p[2]].data)}) = Size(InBatches(tasks_, i))
    BY ONLY <2>3, SizeIsCardinality DEF InBatches
  <2>7. Cardinality({p \in UNION {{w} \X (DOMAIN vec[w] \ {1}) : w \in Workers} :
                        i \in ItemsIn(vec[p[1]][p[2]].data)}) = Size(Waiting(vec, i))
    BY ONLY <2>3, SizeIsCardinality DEF Waiting
  <2>8. Cardinality({w \in Workers : i \in Unwritten(w)}) = Size(Working(vec, left, i))
    <3>1. {w \in Workers : i \in Unwritten(w)} = Working(vec, left, i)
      BY DEF Working, HasRow, Unwritten
    <3> QED BY ONLY <2>3, <3>1, SizeIsCardinality
  <2>9. Cardinality({x \in rows : i \in x.items}) = Size(Written(rows, i))
    BY ONLY <2>3, SizeIsCardinality DEF Written
  <2>10. Cardinality({S \in {<<1, failed>>, <<2, dups>>} : i \in S[2]}) = Flag(i, failed) + Flag(i, dups)
    <3> DEFINE G == {S \in {<<1, failed>>, <<2, dups>>} : i \in S[2]}
    <3>1. CASE i \in failed
      <4>1. i \notin dups /\ Flag(i, failed) + Flag(i, dups) = 1
        BY <2>3, <3>1 DEF Flag
      <4>2. G = {<<1, failed>>}
        BY <3>1, <4>1
      <4>3. Cardinality({<<1, failed>>}) = 1
        BY FS_Singleton
      <4> QED BY <4>1, <4>2, <4>3
    <3>2. CASE i \notin failed /\ i \in dups
      <4>1. Flag(i, failed) + Flag(i, dups) = 1
        BY <3>2 DEF Flag
      <4>2. G = {<<2, dups>>}
        BY <3>2
      <4>3. Cardinality({<<2, dups>>}) = 1
        BY FS_Singleton
      <4> QED BY <4>1, <4>2, <4>3
    <3>3. CASE i \notin failed /\ i \notin dups
      <4>1. Flag(i, failed) + Flag(i, dups) = 0
        BY <3>3 DEF Flag
      <4>2. G = {}
        BY <3>3
      <4> QED BY <4>1, <4>2, FS_EmptySet
    <3> QED BY <3>1, <3>2, <3>3
  <2>11. Places(i) = Total(i)
    BY ONLY <2>2, <2>4, <2>5, <2>6, <2>7, <2>8, <2>9, <2>10 DEF Places, Total
  <2> QED BY <2>1, <2>11 DEF Flag
<1> QED BY <1>1, InitType, NextType, ItemInit, ItemNext, PTL DEF Spec

-----------------------------------------------------------------------------
(* Why a row is complete.  A slot that is on its way through the queue and *)
(* the workers holds every item that was ever accepted for its time, and   *)
(* no report for that time is accepted any more.                           *)
SlotOf(r) == nice_step(r.timestamp, conf_.step)

Complete(s) ==
    /\ s.step = conf_.step
    /\ \A r \in accepted : SlotOf(r) = s.timestamp => ItemsIn(r.data) \subseteq ItemsIn(s.data)

ClosedSlot == {s \in Slot : s.timestamp \in flushed /\ Complete(s)}

SlotsComplete ==
    /\ \A k \in DOMAIN events_ : Complete(events_[k])
    /\ process_queue_ \in Seq(ClosedSlot)
    /\ tasks_ \in Seq(Seq(ClosedSlot))
    /\ vec \in [Workers -> Seq(ClosedSlot)]

(* The duplicates of a slot are set aside before its first row.            *)
DupsFirst == \A w \in Workers : left[w] # {} => Duplicates(Head(vec[w]).data) \subseteq dups

(* Where an accepted report went, and where one under lock_ is going.      *)
Filed ==
    /\ \A r \in accepted : SlotOf(r) \in DOMAIN events_ \cup flushed
    /\ \A e \in Executors : add[e].pc = "locked" => add[e].key = SlotOf(add[e].report)

RowsClosed == \A row \in rows : row.timestamp \in flushed /\ row.step = conf_.step

RowInv == conf_.step < 256 /\ SlotsComplete /\ DupsFirst /\ Filed /\ RowsClosed /\ RowsComplete

LEMMA SeqGrows ==
    ASSUME NEW A, NEW B, A \subseteq B
    PROVE  /\ Seq(A) \subseteq Seq(B)
           /\ Seq(Seq(A)) \subseteq Seq(Seq(B))
           /\ [Workers -> Seq(A)] \subseteq [Workers -> Seq(B)]
<1>1. Seq(A) \subseteq Seq(B)
  OBVIOUS
<1>2. Seq(Seq(A)) \subseteq Seq(Seq(B))
  BY <1>1
<1>3. [Workers -> Seq(A)] \subseteq [Workers -> Seq(B)]
  BY <1>1
<1> QED BY <1>1, <1>2, <1>3

LEMMA RowInit == ASSUME InitConf.step < 256 PROVE Init => RowInv
<1> SUFFICES ASSUME Init PROVE RowInv
  OBVIOUS
<1>1. /\ <<>> \in Seq(ClosedSlot) /\ <<>> \in Seq(Seq(ClosedSlot)) /\ DOMAIN <<>> = {}
  OBVIOUS
<1>2. SlotsComplete
  BY <1>1 DEF Init, SlotsComplete
<1>3. DupsFirst /\ Filed /\ RowsClosed /\ RowsComplete
  BY DEF Init, DupsFirst, Filed, RowsClosed, RowsComplete, Idle
<1> QED BY <1>2, <1>3 DEF RowInv, Init

(* As long as the step is not changed and nothing is accepted, a slot that *)
(* is complete stays complete.                                             *)
LEMMA ClosedStays ==
    ASSUME conf_'.step = conf_.step, accepted' = accepted, flushed \subseteq flushed'
    PROVE  /\ \A r : SlotOf(r)' = SlotOf(r)
           /\ \A s : Complete(s) => Complete(s)'
           /\ ClosedSlot \subseteq ClosedSlot'
<1>1. \A r : SlotOf(r)' = SlotOf(r)
  BY DEF SlotOf
<1>2. \A s : Complete(s) => Complete(s)'
  BY <1>1 DEF Complete
<1>3. ClosedSlot \subseteq ClosedSlot'
  BY <1>2 DEF ClosedSlot
<1> QED BY <1>1, <1>2, <1>3

(* What RowsComplete needs of a step that stores and accepts nothing.      *)
LEMMA RowsStay ==
    ASSUME RowInv, conf_'.step = conf_.step, UNCHANGED <<accepted, rows>>,
           flushed \subseteq flushed', dups \subseteq dups'
    PROVE  conf_'.step < 256 /\ RowsClosed' /\ RowsComplete'
<1>1. RowsClosed'
  BY DEF RowInv, RowsClosed
<1>2. RowsComplete'
  BY DEF RowInv, RowsComplete
<1> QED BY <1>1, <1>2 DEF RowInv

(* A step that moves no slot.                                              *)
LEMMA RowQuiet ==
    ASSUME RowInv, conf_'.step = conf_.step,
           UNCHANGED <<events_, process_queue_, tasks_, vec, left, rows, dups, accepted, flushed>>,
           \A e \in Executors : add'[e].pc = "locked" => add'[e].key = SlotOf(add'[e].report)
    PROVE  RowInv'
<1>1. /\ \A r : SlotOf(r)' = SlotOf(r)
      /\ \A s : Complete(s) => Complete(s)'
      /\ ClosedSlot \subseteq ClosedSlot'
  BY ClosedStays
<1>2. SlotsComplete'
  <2>1. \A k \in DOMAIN events_ : Complete(events_[k])'
    BY <1>1 DEF RowInv, SlotsComplete
  <2>2. process_queue_ \in Seq(ClosedSlot') /\ tasks_ \in Seq(Seq(ClosedSlot'))
        /\ vec \in [Workers -> Seq(ClosedSlot')]
    BY <1>1, SeqGrows DEF RowInv, SlotsComplete
  <2> QED BY <2>1, <2>2 DEF SlotsComplete
<1>3. DupsFirst'
  BY DEF RowInv, DupsFirst
<1>4. Filed'
  BY <1>1 DEF RowInv, Filed
<1>5. conf_'.step < 256 /\ RowsClosed' /\ RowsComplete'
  BY RowsStay
<1> QED BY <1>2, <1>3, <1>4, <1>5 DEF RowInv

(* A step of run() or of the helpers, which moves slots on.                *)
LEMMA RowMove ==
    ASSUME RowInv, UNCHANGED <<conf_, add, events_, rows, accepted, flushed>>, dups \subseteq dups',
           process_queue_' \in Seq(ClosedSlot), tasks_' \in Seq(Seq(ClosedSlot)),
           vec' \in [Workers -> Seq(ClosedSlot)], DupsFirst'
    PROVE  RowInv'
<1>1. /\ \A r : SlotOf(r)' = SlotOf(r)
      /\ \A s : Complete(s) => Complete(s)'
      /\ ClosedSlot \subseteq ClosedSlot'
  BY ClosedStays
<1>2. SlotsComplete'
  <2>1. \A k \in DOMAIN events_ : Complete(events_[k])'
    BY <1>1 DEF RowInv, SlotsComplete
  <2>2. process_queue_' \in Seq(ClosedSlot') /\ tasks_' \in Seq(Seq(ClosedSlot'))
        /\ vec' \in [Workers -> Seq(ClosedSlot')]
    BY <1>1, SeqGrows
  <2> QED BY <2>1, <2>2 DEF SlotsComplete
<1>3. Filed'
  BY <1>1 DEF RowInv, Filed
<1>4. conf_'.step < 256 /\ RowsClosed' /\ RowsComplete'
  BY RowsStay
<1> QED BY <1>2, <1>3, <1>4 DEF RowInv

(* Reports accepted for an open slot go into it; the slots that are closed *)
(* get no further report, since the one being filed has its slot open.     *)
LEMMA RowAdd ==
    ASSUME TypeInv, ItemInv, FlushInv, FlushInv', RowInv, NEW e \in Executors, do_add_event(e)
    PROVE  RowInv'
<1> DEFINE r == add[e].report
           k == add[e].key
           slot == FindOrCreate(k)
           d == slot.data \o r.data
<1>1. /\ r \in Reports \ accepted /\ r.data \in Seq(Items)
      /\ slot \in CleanSlot
      /\ DOMAIN events_' = DOMAIN events_ \cup {k}
      /\ events_'[k] = [timestamp |-> slot.timestamp, step |-> slot.step, data |-> d]
      /\ \A t \in DOMAIN events_ \ {k} : events_'[t] = events_[t]
      /\ accepted' = accepted \cup {r}
  BY Filing
<1>2. /\ UNCHANGED <<conf_, process_queue_, tasks_, vec, left, rows, dups, flushed>>
      /\ add' = [add EXCEPT ![e] = Idle]
  BY DEF do_add_event, workVars
<1>3. k = SlotOf(r)
  BY DEF do_add_event, RowInv, Filed
<1>4. k \notin flushed
  <2>1. \A f \in flushed : f < k
    BY <1>1, <1>2 DEF FlushInv, OpenAfterFlushed
  <2>2. k \in Nat /\ ~(k < k)
    BY DEF TypeInv, TypeOK, AddState
  <2> QED BY <2>1, <2>2
<1>5. slot.timestamp = k /\ slot.step = conf_.step
  BY DEF FindOrCreate, FlushInv, QueueWasFlushed, RowInv, SlotsComplete, Complete
<1>6. ItemsIn(d) = ItemsIn(slot.data) \cup ItemsIn(r.data)
  BY <1>1, Joined DEF CleanSlot, Slot
<1>7. k \in DOMAIN events_ => slot = events_[k]
  BY DEF FindOrCreate
<1> HIDE DEF d, slot, k, r
<1>8. events_'[k].timestamp = k /\ events_'[k].step = conf_.step /\ events_'[k].data = d
  BY <1>1, <1>5
<1>9. \A q : SlotOf(q)' = SlotOf(q)
  BY <1>2 DEF SlotOf
<1>10. ASSUME NEW s \in ClosedSlot PROVE s \in ClosedSlot'
  <2>1. s \in Slot /\ s.timestamp \in flushed /\ Complete(s)
    BY DEF ClosedSlot
  <2>2. SlotOf(r) # s.timestamp
    BY <1>3, <1>4, <2>1
  <2>3. Complete(s)'
    BY <1>1, <1>2, <1>9, <2>1, <2>2 DEF Complete
  <2> QED BY <1>2, <2>1, <2>3 DEF ClosedSlot
<1>11. ASSUME NEW q \in accepted, SlotOf(q) = k PROVE ItemsIn(q.data) \subseteq ItemsIn(d)
  <2>1. k \in DOMAIN events_
    BY <1>4, <1>11 DEF RowInv, Filed
  <2>2. Complete(events_[k]) /\ events_[k].timestamp = k
    BY <2>1 DEF RowInv, SlotsComplete, FlushInv, QueueWasFlushed
  <2>3. ItemsIn(q.data) \subseteq ItemsIn(slot.data)
    BY <1>7, <1>11, <2>1, <2>2 DEF Complete
  <2> QED BY <1>6, <2>3
<1>12. SlotsComplete'
  <2>1. ASSUME NEW t \in DOMAIN events_' PROVE Complete(events_[t])'
    <3>1. CASE t = k
      <4>1. \A q \in accepted' : SlotOf(q) = k => ItemsIn(q.data) \subseteq ItemsIn(d)
        BY <1>1, <1>6, <1>11
      <4> QED BY <1>2, <1>8, <1>9, <3>1, <4>1 DEF Complete
    <3>2. CASE t # k
      <4>1. t \in DOMAIN events_ /\ events_'[t] = events_[t]
        BY <1>1, <3>2
      <4>2. Complete(events_[t]) /\ events_[t].timestamp = t
        BY <4>1 DEF RowInv, SlotsComplete, FlushInv, QueueWasFlushed
      <4>3. SlotOf(r) # t
        BY <1>3, <3>2
      <4> QED BY <1>1, <1>2, <1>9, <4>1, <4>2, <4>3 DEF Complete
    <3> QED BY <3>1, <3>2
  <2>2. process_queue_ \in Seq(ClosedSlot') /\ tasks_ \in Seq(Seq(ClosedSlot'))
        /\ vec \in [Workers -> Seq(ClosedSlot')]
    BY <1>10, SeqGrows DEF RowInv, SlotsComplete
  <2> QED BY <1>2, <2>1, <2>2 DEF SlotsComplete
<1>13. DupsFirst'
  BY <1>2 DEF RowInv, DupsFirst
<1>14. Filed'
  <2>1. \A q \in accepted' : SlotOf(q) \in DOMAIN events_' \cup flushed
    BY <1>1, <1>3 DEF RowInv, Filed
  <2>2. \A x \in Executors : add'[x].pc = "locked" => add'[x].key = SlotOf(add'[x].report)
    BY <1>2 DEF RowInv, Filed, Idle, TypeInv, TypeOK
  <2> QED BY <1>2, <1>9, <2>1, <2>2 DEF Filed
<1>15. RowsClosed'
  BY <1>2 DEF RowInv, RowsClosed
<1>16. RowsComplete'
  <2> SUFFICES ASSUME NEW row \in rows, NEW q \in accepted', NEW i \in ItemsIn(q.data),
                      nice_step(q.timestamp, row.step) = row.timestamp,
                      <<i.metric, i.tag>> = row.key
               PROVE  i \in row.items \cup dups
    BY <1>2 DEF RowsComplete
  <2>1. row.timestamp \in flushed /\ row.step = conf_.step
    BY DEF RowInv, RowsClosed
  <2>2. q # r
    BY <1>3, <1>4, <2>1 DEF SlotOf
  <2>3. q \in accepted
    BY <1>1, <2>2
  <2> QED BY <2>3 DEF RowInv, RowsComplete
<1> QED BY <1>2, <1>12, <1>13, <1>14, <1>15, <1>16 DEF RowInv

(* linger_check_run closes a slot that has all there is for its time.      *)
LEMMA RowFlush ==
    ASSUME TypeInv, FlushInv, RowInv, NEW k \in DOMAIN events_, LingerFlush(k)
    PROVE  RowInv'
<1>1. /\ UNCHANGED <<conf_, add, tasks_, vec, left, rows, dups, accepted>>
      /\ flushed' = flushed \cup {k}
      /\ process_queue_' = Append(process_queue_, events_[k])
      /\ events_' = [t \in DOMAIN events_ \ {k} |-> events_[t]]
  BY DEF LingerFlush, workVars
<1>2. /\ \A r : SlotOf(r)' = SlotOf(r)
      /\ \A s : Complete(s) => Complete(s)'
      /\ ClosedSlot \subseteq ClosedSlot'
  BY <1>1, ClosedStays
<1>3. events_[k] \in Slot /\ events_[k].timestamp = k /\ Complete(events_[k])
  BY DEF TypeInv, TypeOK, FlushInv, QueueWasFlushed, RowInv, SlotsComplete
<1>4. ASSUME NEW s, s = events_[k] PROVE s \in ClosedSlot'
  <2>1. s \in Slot /\ s.timestamp \in flushed'
    BY <1>1, <1>3, <1>4
  <2>2. Complete(s)'
    BY <1>2, <1>3, <1>4
  <2> QED BY <2>1, <2>2 DEF ClosedSlot
<1>5. SlotsComplete'
  <2>1. ASSUME NEW t \in DOMAIN events_' PROVE Complete(events_[t])'
    <3>1. t \in DOMAIN events_ /\ events_'[t] = events_[t]
      BY <1>1
    <3>2. Complete(events_[t])
      BY <3>1 DEF RowInv, SlotsComplete
    <3> QED BY <1>1, <1>2, <3>1, <3>2 DEF Complete
  <2>2. process_queue_ \in Seq(ClosedSlot') /\ tasks_ \in Seq(Seq(ClosedSlot'))
        /\ vec \in [Workers -> Seq(ClosedSlot')]
    BY <1>2, SeqGrows DEF RowInv, SlotsComplete
  <2>3. process_queue_' \in Seq(ClosedSlot')
    BY <1>1, <1>4, <2>2
  <2> QED BY <1>1, <2>1, <2>2, <2>3 DEF SlotsComplete
<1>6. DupsFirst'
  BY <1>1 DEF RowInv, DupsFirst
<1>7. Filed'
  <2>1. DOMAIN events_ \cup flushed \subseteq DOMAIN events_' \cup flushed'
    BY <1>1
  <2> QED BY <1>1, <1>2, <2>1 DEF RowInv, Filed
<1>8. conf_'.step < 256 /\ RowsClosed' /\ RowsComplete'
  BY <1>1, RowsStay
<1> QED BY <1>5, <1>6, <1>7, <1>8 DEF RowInv

(* The row of a complete slot counts all items of its key, but for the     *)
(* duplicates.                                                             *)
LEMMA RowStored ==
    ASSUME TypeInv, RowInv, NEW w \in Workers, NEW k \in left[w], InsertOk(w, k)
    PROVE  RowInv'
<1> DEFINE s == Head(vec[w])
           row == StatRow(s, k)
<1>1. /\ UNCHANGED <<conf_, add, events_, process_queue_, tasks_, vec, dups, accepted, flushed>>
      /\ rows' = rows \cup {row} /\ left' = [left EXCEPT ![w] = @ \ {k}]
  BY DEF InsertOk, slotVars, history
<1>2. vec[w] \in Seq(ClosedSlot) /\ vec[w] # <<>>
  BY DEF RowInv, SlotsComplete, TypeInv, InHand
<1>3. s \in ClosedSlot
  BY <1>2
<1>4. s \in Slot /\ s.timestamp \in flushed /\ Complete(s)
  BY <1>3 DEF ClosedSlot
<1>5. Duplicates(s.data) \subseteq dups
  BY DEF RowInv, DupsFirst
<1> HIDE DEF s
<1>6. conf_.step \in Nat /\ conf_.step < 256 /\ s.step = conf_.step
  BY <1>4 DEF TypeInv, TypeOK, Conf, RowInv, Complete
<1>7. /\ row.timestamp = s.timestamp /\ row.key = k /\ row.items = KeptOfKey(s.data, k)
      /\ row.step = conf_.step
  <2>1. conf_.step % 256 = conf_.step
    BY <1>6
  <2> QED BY <1>6, <2>1 DEF StatRow
<1> HIDE DEF row
<1>8. /\ \A r : SlotOf(r)' = SlotOf(r)
      /\ \A x : Complete(x) => Complete(x)'
      /\ ClosedSlot \subseteq ClosedSlot'
  BY <1>1, ClosedStays
<1>9. SlotsComplete'
  <2>1. \A t \in DOMAIN events_ : Complete(events_[t])'
    BY <1>1, <1>8 DEF RowInv, SlotsComplete
  <2>2. process_queue_ \in Seq(ClosedSlot') /\ tasks_ \in Seq(Seq(ClosedSlot'))
        /\ vec \in [Workers -> Seq(ClosedSlot')]
    BY <1>8, SeqGrows DEF RowInv, SlotsComplete
  <2> QED BY <1>1, <2>1, <2>2 DEF SlotsComplete
<1>10. DupsFirst'
  BY <1>1 DEF RowInv, DupsFirst, TypeInv, TypeOK
<1>11. Filed'
  BY <1>1, <1>8 DEF RowInv, Filed
<1>12. RowsClosed'
  BY <1>1, <1>4, <1>7 DEF RowInv, RowsClosed
<1>13. RowsComplete'
  <2>1. ASSUME NEW q \in accepted, NEW i \in ItemsIn(q.data),
               nice_step(q.timestamp, row.step) = row.timestamp,
               <<i.metric, i.tag>> = row.key
        PROVE  i \in row.items \cup dups
    <3>1. SlotOf(q) = s.timestamp
      BY <1>7, <2>1 DEF SlotOf
    <3>2. i \in ItemsIn(s.data)
      BY <1>4, <3>1 DEF Complete
    <3>3. PICK p \in DOMAIN s.data : i = s.data[p]
      BY <3>2 DEF ItemsIn
    <3>4. CASE p \in Kept(s.data)
      BY <1>7, <2>1, <3>3, <3>4 DEF KeptOfKey
    <3>5. CASE p \notin Kept(s.data)
      BY <1>5, <3>3, <3>5 DEF Duplicates
    <3> QED BY <3>4, <3>5
  <2> QED BY <1>1, <2>1 DEF RowInv, RowsComplete
<1> QED BY <1>1, <1>6, <1>9, <1>10, <1>11, <1>12, <1>13 DEF RowInv

(* The steps that move closed slots on.                                    *)
LEMMA RowRun ==
    ASSUME TypeInv, RowInv,
           \/ RunOffload \/ RunPop \/ RunProcessed \/ HelpersSpawn
           \/ \E h \in Helpers : NextSlot(h)
           \/ \E w \in Workers : \E k \in left[w] : InsertFailed(w, k)
    PROVE  RowInv'
<1>0. /\ process_queue_ \in Seq(ClosedSlot) /\ tasks_ \in Seq(Seq(ClosedSlot))
      /\ vec \in [Workers -> Seq(ClosedSlot)] /\ DupsFirst
      /\ DOMAIN left = Workers /\ DOMAIN vec = Workers
      /\ <<>> \in Seq(ClosedSlot)
  BY DEF RowInv, SlotsComplete, TypeInv, TypeOK
<1>1. CASE RunOffload
  <2>1. UNCHANGED <<conf_, add, events_, rows, accepted, flushed, dups, vec, left>>
    BY <1>1 DEF RunOffload, slotVars, workVars, history
  <2>2. /\ queue_size \in Nat \ {0} /\ queue_size + 1 \in Nat \ {0}
        /\ Len(process_queue_) \in Nat /\ queue_size <= Len(process_queue_)
    BY <1>0, <1>1 DEF RunOffload, TypeInv, TypeOK
  <2>3. /\ SubSeq(process_queue_, 1, queue_size) \in Seq(ClosedSlot)
        /\ SubSeq(process_queue_, queue_size + 1, Len(process_queue_)) \in Seq(ClosedSlot)
    BY <1>0, <2>2, SubSeqType
  <2>4. process_queue_' \in Seq(ClosedSlot) /\ tasks_' \in Seq(Seq(ClosedSlot))
    BY <1>0, <1>1, <2>3 DEF RunOffload
  <2>5. DupsFirst'
    BY <1>0, <2>1 DEF DupsFirst
  <2> QED BY <1>0, <2>1, <2>4, <2>5, RowMove
<1>2. CASE RunPop
  <2>1. UNCHANGED <<conf_, add, events_, rows, accepted, flushed, tasks_>>
    BY <1>2 DEF RunPop, slotVars, history
  <2>2. Runner \in Workers /\ Head(process_queue_) \in ClosedSlot /\ Tail(process_queue_) \in Seq(ClosedSlot)
    BY <1>0, <1>2 DEF RunPop, Workers
  <2>3. <<Head(process_queue_)>> \in Seq(ClosedSlot)
    BY <2>2
  <2>4. process_queue_' \in Seq(ClosedSlot) /\ vec' \in [Workers -> Seq(ClosedSlot)]
    BY <1>0, <1>2, <2>2, <2>3 DEF RunPop
  <2>5. /\ vec'[Runner] = <<Head(process_queue_)>>
        /\ \A w \in Workers \ {Runner} : vec'[w] = vec[w] /\ left'[w] = left[w]
        /\ dups' = dups \cup Duplicates(Head(process_queue_).data)
    BY <1>0, <1>2, <2>2 DEF RunPop
  <2>6. Head(vec'[Runner]) = Head(process_queue_)
    BY <2>5
  <2>7. DupsFirst'
    BY <1>0, <2>5, <2>6 DEF DupsFirst
  <2>8. dups \subseteq dups'
    BY <2>5
  <2> QED BY <1>0, <2>1, <2>4, <2>7, <2>8, RowMove
<1>3. CASE RunProcessed
  <2>1. UNCHANGED <<conf_, add, events_, rows, accepted, flushed, process_queue_, tasks_, left, dups>>
    BY <1>3 DEF RunProcessed, slotVars, history
  <2>2. vec' = [vec EXCEPT ![Runner] = <<>>] /\ left[Runner] = {} /\ Runner \in Workers
    BY <1>3 DEF RunProcessed, Workers
  <2>3. vec' \in [Workers -> Seq(ClosedSlot)]
    BY <1>0, <2>2
  <2>4. DupsFirst'
    BY <1>0, <2>1, <2>2 DEF DupsFirst
  <2> QED BY <1>0, <2>1, <2>3, <2>4, RowMove
<1>4. CASE HelpersSpawn
  <2> DEFINE n == IF Len(tasks_) < MaxSpawn THEN Len(tasks_) ELSE MaxSpawn
  <2>1. UNCHANGED <<conf_, add, events_, rows, accepted, flushed, process_queue_>>
    BY <1>4 DEF HelpersSpawn, slotVars, history
  <2>2. n \in Nat /\ n <= Len(tasks_) /\ \A w \in 1 .. n : tasks_[w] \in Seq(ClosedSlot)
    BY <1>0, ConfAssumption
  <2>3. /\ tasks_' = SubSeq(tasks_, n + 1, Len(tasks_))
        /\ vec' = [w \in Workers |-> IF w \in 1 .. n THEN tasks_[w] ELSE vec[w]]
        /\ left' = [w \in Workers |-> IF w \in 1 .. n THEN RowsToInsert(tasks_[w]) ELSE left[w]]
        /\ dups' = dups \cup UNION {NewDups(tasks_[w]) : w \in 1 .. n}
    BY <1>4 DEF HelpersSpawn
  <2> HIDE DEF n
  <2>4. tasks_' \in Seq(Seq(ClosedSlot))
    BY <1>0, <2>2, <2>3, SubSeqType
  <2>5. vec' \in [Workers -> Seq(ClosedSlot)]
    BY <1>0, <2>2, <2>3
  <2>6. dups \subseteq dups' /\ \A w \in 1 .. n : NewDups(tasks_[w]) \subseteq dups'
    BY <2>3
  <2>7. DupsFirst'
    <3>1. ASSUME NEW w \in Workers, left'[w] # {} PROVE Duplicates(Head(vec'[w]).data) \subseteq dups'
      <4>1. CASE w \in 1 .. n
        <5>1. vec'[w] = tasks_[w] /\ left'[w] = RowsToInsert(tasks_[w])
          BY <2>3, <4>1
        <5>2. NewDups(tasks_[w]) = Duplicates(Head(tasks_[w]).data)
          BY <3>1, <5>1 DEF RowsToInsert, NewDups
        <5> QED BY <2>6, <4>1, <5>1, <5>2
      <4>2. CASE w \notin 1 .. n
        <5>1. vec'[w] = vec[w] /\ left'[w] = left[w]
          BY <2>3, <4>2
        <5> QED BY <1>0, <2>6, <3>1, <5>1 DEF DupsFirst
      <4> QED BY <4>1, <4>2
    <3> QED BY <3>1 DEF DupsFirst
  <2> QED BY <1>0, <2>1, <2>4, <2>5, <2>6, <2>7, RowMove
<1>5. ASSUME NEW h \in Helpers, NextSlot(h) PROVE RowInv'
  <2>1. UNCHANGED <<conf_, add, events_, rows, accepted, flushed, process_queue_, tasks_>>
    BY <1>5 DEF NextSlot, slotVars, history
  <2>2. /\ h \in Workers /\ vec[h] # <<>>
        /\ vec' = [vec EXCEPT ![h] = Tail(@)]
        /\ left' = [left EXCEPT ![h] = RowsToInsert(Tail(vec[h]))]
        /\ dups' = dups \cup NewDups(Tail(vec[h]))
    BY <1>5 DEF NextSlot, Workers
  <2>3. Tail(vec[h]) \in Seq(ClosedSlot)
    BY <1>0, <2>2
  <2>4. vec' \in [Workers -> Seq(ClosedSlot)]
    BY <1>0, <2>2, <2>3
  <2>5. dups \subseteq dups' /\ NewDups(Tail(vec[h])) \subseteq dups'
    BY <2>2
  <2>6. DupsFirst'
    <3>1. ASSUME NEW w \in Workers, left'[w] # {} PROVE Duplicates(Head(vec'[w]).data) \subseteq dups'
      <4>1. CASE w = h
        <5>1. vec'[w] = Tail(vec[h]) /\ left'[w] = RowsToInsert(Tail(vec[h]))
          BY <1>0, <2>2, <4>1
        <5>2. NewDups(Tail(vec[h])) = Duplicates(Head(Tail(vec[h])).data)
          BY <3>1, <5>1 DEF RowsToInsert, NewDups
        <5> QED BY <2>5, <5>1, <5>2
      <4>2. CASE w # h
        <5>1. vec'[w] = vec[w] /\ left'[w] = left[w]
          BY <1>0, <2>2, <4>2
        <5> QED BY <1>0, <2>5, <3>1, <5>1 DEF DupsFirst
      <4> QED BY <4>1, <4>2
    <3> QED BY <3>1 DEF DupsFirst
  <2> QED BY <1>0, <2>1, <2>4, <2>5, <2>6, RowMove
<1>6. ASSUME NEW w \in Workers, NEW k \in left[w], InsertFailed(w, k) PROVE RowInv'
  <2>1. UNCHANGED <<conf_, add, events_, rows, accepted, flushed, process_queue_, tasks_, vec, dups>>
    BY <1>6 DEF InsertFailed, slotVars, history
  <2>2. \A x \in Workers : left'[x] \subseteq left[x]
    BY <1>0, <1>6 DEF InsertFailed
  <2>3. DupsFirst'
    BY <1>0, <2>1, <2>2 DEF DupsFirst
  <2> QED BY <1>0, <2>1, <2>3, RowMove
<1> QED BY <1>1, <1>2, <1>3, <1>4, <1>5, <1>6

LEMMA RowNext ==
    ASSUME LingerUpdates = {}, StepUpdates = {}, MaxDelay <= 1
    PROVE  TypeInv /\ ItemInv /\ FlushInv /\ RowInv /\ [Next]_vars => RowInv'
<1> SUFFICES ASSUME TypeInv, ItemInv, FlushInv, RowInv, [Next]_vars PROVE RowInv'
  OBVIOUS
<1>0. \A e \in Executors : add[e].pc = "locked" => add[e].key = SlotOf(add[e].report)
  BY DEF RowInv, Filed
<1>1. CASE Tick \/ LingerCheckLock \/ LingerCheckUnlock \/ RunTop \/ RunOffloadDone
            \/ RunPopTimeout \/ UNCHANGED vars
  <2>1. UNCHANGED <<conf_, add, events_, process_queue_, tasks_, vec, left, rows, dups, accepted, flushed>>
    BY <1>1 DEF Tick, LingerCheckLock, LingerCheckUnlock, RunTop, RunOffloadDone, RunPopTimeout,
         vars, slotVars, workVars, history
  <2>2. \A e \in Executors : add'[e].pc = "locked" => add'[e].key = SlotOf(add'[e].report)
    BY <1>0, <2>1
  <2> QED BY <2>1, <2>2, RowQuiet
<1>2. ASSUME NEW e \in Executors, NEW r \in Reports, AddEventReject(e, r) \/ AddEventPass(e, r)
      PROVE  RowInv'
  <2>1. UNCHANGED <<conf_, events_, process_queue_, tasks_, vec, left, rows, dups, accepted, flushed>>
    BY <1>2 DEF AddEventReject, AddEventPass, slotVars, workVars
  <2>2. \A x \in Executors : add'[x].pc = "locked" => add'[x].key = SlotOf(add'[x].report)
    <3>1. \A x \in Executors : add'[x].pc = "passed" \/ add'[x] = add[x]
      BY <1>2 DEF AddEventReject, AddEventPass, TypeInv, TypeOK
    <3> QED BY <1>0, <3>1
  <2> QED BY <2>1, <2>2, RowQuiet
<1>3. ASSUME NEW e \in Executors, AddEventLock(e) PROVE RowInv'
  <2>1. UNCHANGED <<conf_, events_, process_queue_, tasks_, vec, left, rows, dups, accepted, flushed>>
    BY <1>3 DEF AddEventLock, workVars, history
  <2>2. \A x \in Executors : add'[x].pc = "locked" => add'[x].key = SlotOf(add'[x].report)
    <3>1. add[e] \in AddState
      BY DEF TypeInv, TypeOK
    <3>2. /\ add'[e].key = SlotOf(add[e].report) /\ add'[e].report = add[e].report
          /\ \A x \in Executors \ {e} : add'[x] = add[x]
      BY <1>3, <3>1 DEF AddEventLock, AddState, SlotOf, TypeInv, TypeOK
    <3> QED BY <1>0, <3>2
  <2> QED BY <2>1, <2>2, RowQuiet
<1>4. ASSUME NEW e \in Executors, do_add_event(e) PROVE RowInv'
  <2>1. FlushInv'
    BY NextFlush
  <2> QED BY <1>4, <2>1, RowAdd
<1>5. ASSUME NEW k \in DOMAIN events_, LingerFlush(k) PROVE RowInv'
  BY <1>5, RowFlush
<1>6. CASE RunOffload \/ RunPop \/ RunProcessed \/ HelpersSpawn
  BY <1>6, RowRun
<1>7. ASSUME NEW h \in Helpers, NextSlot(h) PROVE RowInv'
  BY <1>7, RowRun
<1>8. ASSUME NEW w \in Workers, NEW k \in left[w], InsertOk(w, k) PROVE RowInv'
  BY <1>8, RowStored
<1>9. ASSUME NEW w \in Workers, NEW k \in left[w], InsertFailed(w, k) PROVE RowInv'
  BY <1>9, RowRun
<1>10. ASSUME NEW v, UpdateSize(v) PROVE RowInv'
  <2>1. UNCHANGED <<add, events_, process_queue_, tasks_, vec, left, rows, dups, accepted, flushed>>
    BY <1>10 DEF UpdateSize, slotVars, workVars, history
  <2>2. conf_'.step = conf_.step
    BY <1>10 DEF UpdateSize, TypeInv, TypeOK, Conf
  <2>3. \A e \in Executors : add'[e].pc = "locked" => add'[e].key = SlotOf(add'[e].report)
    BY <1>0, <2>1
  <2> QED BY <2>1, <2>2, <2>3, RowQuiet
<1> QED
  BY <1>1, <1>2, <1>3, <1>4, <1>5, <1>6, <1>7, <1>8, <1>9, <1>10
     DEF Next, AddEvent, linger_check_run, run, Insert

(* With event_linger and event_step fixed, no thread held up for more than *)
(* one tick between the age check and the insert, and a step that fits in  *)
(* the byte of the row, every row counts all items that were ever accepted *)
(* for its slot, metric and tag, but for the duplicates, for any reports,  *)
(* threads, batches and changes of the batch size.                         *)
THEOREM RowsAreComplete ==
    ASSUME LingerUpdates = {}, StepUpdates = {}, MaxDelay <= 1, InitConf.step < 256
    PROVE  Spec => []RowsComplete
<1>1. RowInv => RowsComplete
  BY DEF RowInv
<1> QED BY <1>1, InitType, NextType, InitFlush, NextFlush, ItemInit, ItemNext, RowInit, RowNext,
           PTL DEF Spec
=============================================================================
