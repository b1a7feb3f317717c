--------------------------- MODULE ExecutorProofs ---------------------------
(* Theorems about Executor, for every value of its constants. *)
EXTENDS Executor, FiniteSetTheorems, WellFoundedInduction, TLAPS

Stopping == resize.at \in {"join", "test", "restore"}    \* in graceful_stop

(* The types the argument needs.                                           *)
PoolType ==
    /\ conf_ \in [Field -> Int] /\ conf_.number <= conf_.hard
    /\ lowest \in Nat
    /\ workers_ \subseteq Thread
    /\ status_ \in [Thread -> {"kInit", "kRunning", "kTerminating", "kDead"}]
    /\ at \in [Thread -> {"none", "wrapper", "test", "pop", "handle", "leave", "ended"}]
    /\ pushed \in Nat /\ rpc_queue_ \in Seq(Nat)
    /\ main \in {"starting", "serving", "stopping", "stopped"}
    /\ resize \in [at : {"idle", "spawn", "reduce", "join", "test", "restore", "done"},
                   goal : Int, tries : Int, victim : Int,
                   old : {"kInit", "kRunning", "kTerminating", "kDead"}]

(* A pool is made smaller only while it has more threads than the goal,    *)
(* and no goal is below the least size configured so far.                  *)
GoalInRange ==
    /\ lowest <= conf_.number
    /\ resize.at = "reduce" \/ Stopping => resize.goal >= lowest /\ Size > resize.goal

(* The thread that graceful_stop is about is the first of the table, and   *)
(* no other is told to end.                                                *)
FirstIsVictim ==
    /\ Stopping => /\ resize.victim \in workers_ /\ resize.old # "kTerminating"
                   /\ \A u \in workers_ : resize.victim <= u
    /\ \A t \in workers_ : status_[t] = "kTerminating" => Stopping /\ t = resize.victim

(* The threads that have left the loop for good and stay in the table, and *)
(* the one that may be about to.                                           *)
Lost == {t \in workers_ : at[t] \in {"leave", "ended"}}

Doomed == Lost \cup {t \in workers_ : Stopping /\ t = resize.victim}

Above(t) == {u \in Serving : u > t}

(* Behind every thread that is lost there are enough that serve: because   *)
(* reduce_task takes the first of the table, it never gets past a thread   *)
(* that it cannot remove, and never to those behind it.                    *)
EnoughBehind == \A t \in Doomed : Cardinality(Above(t)) >= lowest

Up == main \in {"starting", "serving"}

PoolInv ==
    /\ PoolType
    /\ timer # "running" \/ ~Up => resize.at = "idle"
    /\ Up => GoalInRange /\ FirstIsVictim /\ EnoughBehind /\ Cardinality(Serving) >= lowest

-----------------------------------------------------------------------------
(* Sets of threads are finite; a larger one has no fewer members.          *)
LEMMA CountThreads ==
    /\ \A S \in SUBSET Thread : IsFiniteSet(S) /\ Cardinality(S) \in Nat
    /\ \A S, T \in SUBSET Thread : S \subseteq T => Cardinality(S) <= Cardinality(T)
    /\ \A S \in SUBSET Thread : \A t \in S : Cardinality(S \ {t}) = Cardinality(S) - 1
<1>1. IsFiniteSet(Thread)
  BY FS_Interval, ExecutorAssumption DEF Thread
<1>2. \A S \in SUBSET Thread : IsFiniteSet(S) /\ Cardinality(S) \in Nat
  BY <1>1, FS_Subset, FS_CardinalityType
<1>3. \A S, T \in SUBSET Thread : S \subseteq T => Cardinality(S) <= Cardinality(T)
  BY <1>2, FS_Subset
<1>4. \A S \in SUBSET Thread : \A t \in S : Cardinality(S \ {t}) = Cardinality(S) - 1
  BY <1>2, FS_RemoveElement
<1> QED BY <1>2, <1>3, <1>4

(* reduce_task takes the first thread of the table.                        *)
LEMMA FirstOfTable ==
    ASSUME NEW W \in SUBSET Thread, W # {}
    PROVE  Begin(W) \in W /\ \A u \in W : Begin(W) <= u
<1>1. \E t \in W : \A u \in W : t <= u
  <2>1. W \subseteq Nat
    BY ExecutorAssumption DEF Thread
  <2> DEFINE less == OpToRel(<, Nat)
  <2>2. PICK t \in W : \A u \in W : ~(<<u, t>> \in less)
    <3>1. IsWellFoundedOn(less, Nat)
      BY NatLessThanWellFounded
    <3> HIDE DEF less
    <3> QED BY <2>1, <3>1, WFMin
  <2>3. \A u \in W : ~(u < t)
    BY <2>1, <2>2 DEF OpToRel
  <2> QED BY <2>1, <2>3
<1> QED BY <1>1 DEF Begin

(* A step that loses no serving thread and dooms no other keeps enough.    *)
LEMMA NobodyLost ==
    ASSUME PoolInv, Up, PoolType', lowest' <= lowest,
           Doomed' \subseteq Doomed, Serving \subseteq Serving'
    PROVE  EnoughBehind' /\ Cardinality(Serving)' >= lowest'
<1>1. Serving \in SUBSET Thread /\ Serving' \in SUBSET Thread /\ lowest \in Nat /\ lowest' \in Nat
  BY DEF PoolInv, PoolType, Serving
<1>2. \A t \in Doomed' : /\ Above(t) \subseteq Above(t)' /\ Above(t) \in SUBSET Thread
                         /\ Above(t)' \in SUBSET Thread
  BY <1>1 DEF Above
<1>3. \A t \in Doomed' : Cardinality(Above(t)') >= lowest'
  <2> SUFFICES ASSUME NEW t \in Doomed' PROVE Cardinality(Above(t)') >= lowest'
    OBVIOUS
  <2>1. Cardinality(Above(t)) >= lowest
    BY DEF PoolInv, EnoughBehind
  <2>2. /\ Cardinality(Above(t)) <= Cardinality(Above(t)')
        /\ Cardinality(Above(t)) \in Nat /\ Cardinality(Above(t)') \in Nat
    BY <1>2, CountThreads
  <2> QED BY <1>1, <2>1, <2>2
<1>4. Cardinality(Serving') >= lowest'
  <2>1. Cardinality(Serving) >= lowest
    BY DEF PoolInv
  <2>2. /\ Cardinality(Serving) <= Cardinality(Serving')
        /\ Cardinality(Serving) \in Nat /\ Cardinality(Serving') \in Nat
    BY <1>1, CountThreads
  <2> QED BY <1>1, <2>1, <2>2
<1> QED BY <1>3, <1>4 DEF EnoughBehind

-----------------------------------------------------------------------------
LEMMA InitPool == Init => PoolInv
<1> SUFFICES ASSUME Init PROVE PoolInv
  OBVIOUS
<1>1. PoolType
  <2>1. <<>> \in Seq(Nat)
    OBVIOUS
  <2>2. \A n \in Field : InitConf[n] \in Int
    BY ExecutorAssumption
  <2>3. InitConf.number \in Nat /\ InitConf \in [Field -> Int] /\ InitConf.number <= InitConf.hard
    BY <2>2, ExecutorAssumption DEF Field
  <2> QED BY <2>1, <2>3 DEF Init, PoolType, Idle, NoThread
<1>2. lowest \in Nat /\ lowest = conf_.number /\ Cardinality(workers_) = lowest
  BY <1>1 DEF Init, PoolType
<1>3. GoalInRange /\ ~Stopping
  BY <1>2 DEF Init, GoalInRange, Stopping, Idle
<1>4. \A t \in workers_ : at[t] = "wrapper" /\ status_[t] = "kInit"
  BY <1>1 DEF Init, PoolType
<1>5. Doomed = {} /\ Serving = workers_
  BY <1>3, <1>4 DEF Doomed, Lost, Serving
<1>6. resize.at = "idle"
  BY DEF Init, Idle
<1> QED BY <1>1, <1>2, <1>3, <1>4, <1>5, <1>6 DEF PoolInv, FirstIsVictim, EnoughBehind

(* A thread leaves the loop only when it is the victim.                    *)
LEMMA ThreadKeeps ==
    ASSUME PoolInv, NEW t \in Thread, ThreadStep(t)
    PROVE  PoolInv'
<1> USE DEF PoolInv
<1>1. /\ UNCHANGED <<conf_, lowest, timer, workers_, pushed, resize, main>>
      /\ \/ UNCHANGED status_ /\ at' \in {[at EXCEPT ![t] = p] : p \in {"test", "pop", "handle"}}
         \/ UNCHANGED status_ /\ at' = [at EXCEPT ![t] = "leave"] /\ status_[t] = "kTerminating"
         \/ /\ at[t] = "leave" /\ at' = [at EXCEPT ![t] = "ended"]
            /\ status_' = [status_ EXCEPT ![t] = "kDead"]
      /\ at[t] # "leave" \/ at' = [at EXCEPT ![t] = "ended"]
      /\ at[t] # "ended"
      /\ rpc_queue_' = rpc_queue_ \/ (rpc_queue_ # <<>> /\ rpc_queue_' = Tail(rpc_queue_))
  BY DEF ThreadStep, callable_wrapper, TestStatus, PopRequest, PopTimesOut, HandleRequest, Leave,
     confVars, queueVars
<1>2. rpc_queue_' \in Seq(Nat)
  <2>1. rpc_queue_ # <<>> => Tail(rpc_queue_) \in Seq(Nat)
    BY DEF PoolType
  <2> QED BY <1>1, <2>1 DEF PoolType
<1>3. PoolType'
  <2>1. at' \in [Thread -> {"none", "wrapper", "test", "pop", "handle", "leave", "ended"}]
    BY <1>1 DEF PoolType
  <2>2. status_' \in [Thread -> {"kInit", "kRunning", "kTerminating", "kDead"}]
    BY <1>1 DEF PoolType
  <2> QED BY <1>1, <1>2, <2>1, <2>2 DEF PoolType
<1>4. (GoalInRange => GoalInRange') /\ (Stopping <=> Stopping') /\ (Up <=> Up')
  BY <1>1 DEF GoalInRange, Stopping, Size, Up
<1>5. ASSUME Up PROVE FirstIsVictim'
  BY <1>1, <1>4, <1>5 DEF FirstIsVictim, PoolType
<1>6. ASSUME Up PROVE Doomed' \subseteq Doomed /\ Serving \subseteq Serving'
  <2>1. Serving \subseteq Serving'
    BY <1>1 DEF Serving, PoolType
  <2>2. \A u \in Lost' : u \in Lost \/ (u = t /\ status_[t] = "kTerminating")
    BY <1>1 DEF Lost, PoolType
  <2>3. \A u \in Lost' : u \in Doomed
    <3> SUFFICES ASSUME NEW u \in Lost', u \notin Lost PROVE u \in Doomed
      BY DEF Doomed
    <3>1. u = t /\ status_[t] = "kTerminating" /\ u \in workers_
      BY <1>1, <2>2 DEF Lost
    <3> QED BY <1>6, <3>1 DEF Doomed, FirstIsVictim
  <2> QED BY <1>1, <1>4, <2>1, <2>3 DEF Doomed
<1>7. ASSUME Up PROVE EnoughBehind' /\ Cardinality(Serving)' >= lowest'
  <2>1. lowest' <= lowest
    BY <1>1 DEF PoolType
  <2> QED BY <1>3, <1>6, <1>7, <2>1, NobodyLost
<1> QED BY <1>1, <1>3, <1>4, <1>5, <1>7

(* The timer picks a goal, spawns a thread, or ends: nobody is told to end *)
(* yet.                                                                    *)
LEMMA PlanKeeps ==
    ASSUME PoolInv, executor_threads_adjust \/ timer_run \/ \E t \in Thread : spawn_task(t)
    PROVE  PoolInv'
<1> USE DEF PoolInv
<1>1. CASE executor_threads_adjust
  <2> DEFINE q == Len(rpc_queue_)
             more == IF q > conf_.step THEN q \div conf_.step ELSE 0
             e == ExpectThread(conf_, q)
  <2>1. UNCHANGED <<conf_, lowest, workers_, status_, at, pushed, rpc_queue_, main>>
    BY <1>1 DEF executor_threads_adjust, confVars, threadVars, queueVars
  <2>2. ASSUME conf_.step > 0 PROVE e \in Int /\ e >= conf_.number
    <3>1. q \in Nat /\ conf_.step \in Int /\ conf_.number \in Int /\ conf_.hard \in Int
          /\ conf_.number <= conf_.hard
      BY DEF PoolType, Field
    <3>2. more \in Nat
      BY <2>2, <3>1
    <3>3. e = MinOf(conf_.hard, conf_.number + more)
      BY DEF ExpectThread
    <3> HIDE DEF more, e
    <3> QED BY <3>1, <3>2, <3>3 DEF MinOf
  <2>3. \/ resize' = [Idle EXCEPT !.at = "done"]
        \/ conf_.step > 0 /\ resize' = Plan(e)
    BY <1>1 DEF executor_threads_adjust
  <2> HIDE DEF e
  <2>0. Up
    BY <1>1 DEF executor_threads_adjust, Up
  <2>4. MaxTry \in Int /\ Size \in Nat /\ lowest \in Nat /\ lowest <= conf_.number
        /\ conf_.number \in Int
    BY <2>0, ExecutorAssumption, CountThreads DEF Size, PoolType, GoalInRange, Field
  <2>5. /\ resize' \in [at : {"spawn", "reduce", "done"}, goal : Int, tries : Int, victim : Int,
                        old : {"kInit"}]
        /\ resize'.at = "reduce" => resize'.goal >= lowest /\ Size > resize'.goal
    <3>1. CASE resize' = [Idle EXCEPT !.at = "done"]
      BY <3>1 DEF Idle, NoThread
    <3>2. CASE conf_.step > 0 /\ resize' = Plan(e)
      <4>1. e \in Int /\ e >= conf_.number
        BY <2>2, <3>2
      <4>2. PICK p \in {"spawn", "reduce", "done"} :
               /\ resize' = [at |-> p, goal |-> e, tries |-> MaxTry, victim |-> 0, old |-> "kInit"]
               /\ p = "reduce" => e # Size /\ ~(e > Size)
        BY <3>2 DEF Plan, Idle, NoThread
      <4>3. p = "reduce" => e >= lowest /\ Size > e
        BY <2>4, <4>1, <4>2
      <4> QED BY <2>4, <4>1, <4>2, <4>3
    <3> QED BY <2>3, <3>1, <3>2
  <2>6. PoolType' /\ (Up => GoalInRange') /\ ~Stopping' /\ timer' = "running"
    BY <1>1, <2>1, <2>4, <2>5 DEF PoolType, GoalInRange, Stopping, Size, executor_threads_adjust
  <2>7. ~Stopping
    BY <1>1 DEF executor_threads_adjust, Stopping
  <2>8. Doomed' = Doomed /\ Serving' = Serving /\ (Up <=> Up')
    BY <2>1, <2>6, <2>7 DEF Doomed, Lost, Serving, Up
  <2>9. Up => FirstIsVictim' /\ EnoughBehind' /\ Cardinality(Serving)' >= lowest'
    BY <2>1, <2>6, <2>7, <2>8 DEF FirstIsVictim, EnoughBehind, Above
  <2> QED BY <2>0, <2>6, <2>8, <2>9
<1>2. CASE timer_run
  <2>1. /\ UNCHANGED <<conf_, lowest, workers_, status_, at, pushed, rpc_queue_, main>>
        /\ resize.at = "done" /\ resize' = Idle
    BY <1>2 DEF timer_run, confVars, threadVars, queueVars
  <2>2. ~Stopping /\ ~Stopping' /\ resize'.at = "idle" /\ (Up <=> Up')
    BY <2>1 DEF Stopping, Idle, Up
  <2>3. PoolType'
    BY <2>1 DEF PoolType, Idle, NoThread
  <2>4. Doomed' = Doomed /\ Serving' = Serving
    BY <2>1, <2>2 DEF Doomed, Lost, Serving
  <2>5. Up => GoalInRange' /\ FirstIsVictim' /\ EnoughBehind' /\ Cardinality(Serving)' >= lowest'
    BY <2>1, <2>2, <2>4 DEF GoalInRange, FirstIsVictim, EnoughBehind, Above
  <2> QED BY <2>2, <2>3, <2>5
<1>3. ASSUME NEW t \in Thread, spawn_task(t) PROVE PoolInv'
  <2>1. /\ UNCHANGED <<conf_, lowest, timer, pushed, rpc_queue_, main>>
        /\ resize.at = "spawn" /\ t \notin workers_ /\ workers_' = workers_ \cup {t}
        /\ status_' = [status_ EXCEPT ![t] = "kRunning"] /\ at' = [at EXCEPT ![t] = "wrapper"]
        /\ resize' \in {[resize EXCEPT !.at = "done"], [resize EXCEPT !.at = "spawn"]}
    BY <1>3 DEF spawn_task, confVars, queueVars
  <2>2. PoolType'
    BY <2>1 DEF PoolType
  <2>3. ~Stopping /\ ~Stopping' /\ resize'.at \in {"done", "spawn"} /\ Up /\ Up'
        /\ timer' = "running"
    BY <2>1 DEF PoolType, Stopping, Up
  <2>4. Doomed' \subseteq Doomed /\ Serving \subseteq Serving'
    BY <2>1, <2>3 DEF Doomed, Lost, Serving, PoolType
  <2>5. Up => GoalInRange' /\ FirstIsVictim'
    BY <2>1, <2>3 DEF GoalInRange, FirstIsVictim, PoolType
  <2>6. lowest' <= lowest
    BY <2>1 DEF PoolType
  <2>7. Up => EnoughBehind' /\ Cardinality(Serving)' >= lowest'
    BY <2>2, <2>4, <2>6, NobodyLost
  <2> QED BY <2>2, <2>3, <2>5, <2>7
<1> QED BY <1>1, <1>2, <1>3

(* The first thread of the table is told to end.  If no thread is lost,    *)
(* all the others serve, and they are at least as many as the goal; else   *)
(* the first is in front of one that is lost, and so are not those behind  *)
(* it.                                                                     *)
LEMMA VictimKeeps ==
    ASSUME PoolInv, GracefulStop
    PROVE  PoolInv'
<1> USE DEF PoolInv
<1> PICK v : v = Begin(workers_)
  OBVIOUS
<1>1. /\ UNCHANGED <<conf_, lowest, timer, workers_, at, pushed, rpc_queue_, main>>
      /\ resize.at = "reduce" /\ status_' = [status_ EXCEPT ![v] = "kTerminating"]
      /\ resize' = [resize EXCEPT !.at = "join", !.victim = v, !.old = status_[v]]
  BY DEF GracefulStop, confVars, queueVars
<1>2. timer' = "running" /\ ~Stopping /\ Up /\ Up'
  BY <1>1 DEF Stopping, Up
<1>3. /\ lowest \in Nat /\ resize.goal \in Int /\ resize.goal >= lowest /\ Size > resize.goal
      /\ workers_ \in SUBSET Thread /\ Size \in Nat
  BY <1>1, <1>2, CountThreads DEF GoalInRange, PoolType, Size
<1>4. v \in workers_ /\ \A u \in workers_ : v <= u
  <2>1. workers_ # {}
    BY <1>3, FS_EmptySet DEF Size
  <2> QED BY <1>3, <2>1, FirstOfTable
<1>5. v \in Thread /\ Thread \subseteq Int /\ v \in Int
  BY <1>3, <1>4, ExecutorAssumption DEF Thread
<1>6. PoolType'
  BY <1>1, <1>5 DEF PoolType
<1>7. /\ resize'.at = "join" /\ resize'.victim = v /\ resize'.old = status_[v]
      /\ resize'.goal = resize.goal /\ Stopping'
  BY <1>1 DEF PoolType, Stopping
<1>8. GoalInRange'
  BY <1>1, <1>2, <1>3, <1>7 DEF GoalInRange, Size
<1>9. \A t \in workers_ : status_[t] # "kTerminating"
  BY <1>2 DEF FirstIsVictim
<1>10. FirstIsVictim'
  BY <1>1, <1>3, <1>4, <1>5, <1>7, <1>9 DEF FirstIsVictim, PoolType
<1>11. Lost' = Lost /\ Doomed' = Lost \cup {v} /\ Serving' = Serving \ {v}
  BY <1>1, <1>3, <1>4, <1>5, <1>7, <1>9 DEF Lost, Doomed, Serving, PoolType
<1>12. Serving \in SUBSET Thread /\ Serving' \in SUBSET Thread /\ Lost \in SUBSET Thread
  BY <1>3, <1>11 DEF Serving, Lost
<1>13. \A t \in Lost : Above(t)' = Above(t) /\ Cardinality(Above(t)) >= lowest
  <2>1. \A t \in Lost : Above(t)' = Above(t)
    BY <1>4, <1>5, <1>11, <1>12 DEF Above, Lost
  <2> QED BY <1>2, <2>1 DEF EnoughBehind, Doomed
<1>14. Cardinality(Above(v)') >= lowest
  <2>0. Above(v)' \in SUBSET Thread /\ Cardinality(Above(v)') \in Nat
    <3>1. Above(v)' \in SUBSET Thread
      BY <1>12 DEF Above
    <3> QED BY <3>1, CountThreads
  <2>1. CASE Lost = {}
    <3>1. Above(v)' = workers_ \ {v}
      <4>1. Serving = workers_
        BY <1>9, <2>1 DEF Serving, Lost
      <4>2. \A u \in workers_ : u # v => u > v
        BY <1>3, <1>4, <1>5
      <4> QED BY <1>5, <1>11, <4>1, <4>2 DEF Above
    <3>2. Cardinality(workers_ \ {v}) = Size - 1
      BY <1>3, <1>4, CountThreads DEF Size
    <3> QED BY <1>3, <3>1, <3>2
  <2>2. ASSUME NEW l \in Lost PROVE Cardinality(Above(v)') >= lowest
    <3>0. l \in Int /\ v <= l /\ Serving \subseteq Int
      BY <1>4, <1>5, <1>12 DEF Lost
    <3>a. \A u \in Serving : u > l => u \in Serving' /\ u > v
      BY <1>5, <1>11, <3>0
    <3>1. Above(l) \subseteq Above(v)' /\ Above(l) \in SUBSET Thread
      BY <1>12, <3>a DEF Above
    <3>2. Cardinality(Above(l)) <= Cardinality(Above(v)') /\ Cardinality(Above(l)) \in Nat
      BY <2>0, <3>1, CountThreads
    <3> QED BY <1>3, <1>13, <2>0, <3>2
  <2> QED BY <2>1, <2>2
<1>15. EnoughBehind'
  BY <1>1, <1>11, <1>13, <1>14 DEF EnoughBehind
<1>16. Cardinality(Serving)' >= lowest'
  <2>1. Above(v)' \subseteq Serving' /\ Above(v)' \in SUBSET Thread
    BY <1>12 DEF Above
  <2>2. /\ Cardinality(Above(v)') <= Cardinality(Serving')
        /\ Cardinality(Above(v)') \in Nat /\ Cardinality(Serving') \in Nat
    BY <1>12, <2>1, CountThreads
  <2> QED BY <1>1, <1>3, <1>14, <2>2
<1> QED BY <1>2, <1>6, <1>8, <1>10, <1>15, <1>16

(* The rest of graceful_stop: the victim is removed, or gets its status    *)
(* back.                                                                   *)
LEMMA StopKeeps ==
    ASSUME PoolInv, TryJoin \/ StopFailed \/ EraseWorker \/ RestoreStatus
    PROVE  PoolInv'
<1> USE DEF PoolInv
<1> PICK v : v = resize.victim
  OBVIOUS
<1>1. /\ UNCHANGED <<conf_, lowest, timer, at, pushed, rpc_queue_, main>>
      /\ Stopping /\ resize.at # "idle"
  BY DEF TryJoin, StopFailed, EraseWorker, RestoreStatus, confVars, queueVars, threadVars, Stopping
<1>2. Up /\ Up' /\ timer' = "running"
  BY <1>1 DEF Up
<1>3. /\ lowest \in Nat /\ resize.goal \in Int /\ resize.goal >= lowest /\ Size > resize.goal
      /\ workers_ \in SUBSET Thread /\ Size \in Nat /\ resize.tries \in Int
      /\ v \in workers_ /\ resize.old # "kTerminating"
      /\ \A u \in workers_ : v <= u
      /\ Thread \subseteq Int
  BY <1>1, <1>2, CountThreads, ExecutorAssumption DEF GoalInRange, PoolType, Size, FirstIsVictim, Thread
<1>0. lowest' <= lowest
  BY <1>1, <1>3
<1>a. v \in Int /\ \A u \in workers_ : u \in Int
  BY <1>3, Zenon
<1>4. CASE TryJoin \/ StopFailed
  <2>1. /\ UNCHANGED <<workers_, status_>>
        /\ resize' \in {[resize EXCEPT !.at = "test"], [resize EXCEPT !.at = "restore"]}
    BY <1>4 DEF TryJoin, StopFailed, threadVars
  <2>2. /\ PoolType' /\ Stopping' /\ resize'.victim = v /\ resize'.old = resize.old
        /\ resize'.goal = resize.goal /\ resize'.at # "idle"
    BY <1>1, <2>1 DEF PoolType, Stopping
  <2>3. GoalInRange' /\ FirstIsVictim'
    BY <1>1, <1>2, <2>1, <2>2 DEF GoalInRange, FirstIsVictim, Size
  <2>4. Doomed' = Doomed /\ Serving' = Serving
    BY <1>1, <2>1, <2>2 DEF Doomed, Lost, Serving
  <2> QED BY <1>0, <1>2, <2>2, <2>3, <2>4, NobodyLost
<1>5. ASSUME NEW size \in Int, resize' = AfterTry(size)
      PROVE  /\ resize'.at \in {"done", "reduce"} /\ resize'.goal = resize.goal
             /\ resize'.at = "reduce" => size > resize.goal
             /\ ~Stopping'
             /\ resize' \in [at : {"done", "reduce"}, goal : Int, tries : Int, victim : Int,
                   old : {"kInit", "kRunning", "kTerminating", "kDead"}]
  <2>1. PICK p \in {"done", "reduce"} :
           /\ resize' = [resize EXCEPT !.tries = @ - 1, !.at = p]
           /\ p = "reduce" => ~(size <= resize.goal)
    BY <1>5 DEF AfterTry
  <2>2. resize' \in [at : {"done", "reduce"}, goal : Int, tries : Int, victim : Int,
                   old : {"kInit", "kRunning", "kTerminating", "kDead"}]
        /\ resize'.at = p /\ resize'.goal = resize.goal
    <3>1. resize.tries - 1 \in Int
      BY <1>3
    <3> QED BY <2>1, <3>1 DEF PoolType
  <2> QED BY <1>3, <2>1, <2>2 DEF Stopping
<1>6. CASE EraseWorker
  <2>1. workers_' = workers_ \ {v} /\ UNCHANGED status_ /\ resize' = AfterTry(Size - 1)
    BY <1>6 DEF EraseWorker, threadVars
  <2>2. /\ resize'.at \in {"done", "reduce"} /\ resize'.goal = resize.goal
        /\ resize'.at = "reduce" => Size - 1 > resize.goal
        /\ ~Stopping'
        /\ resize' \in [at : {"done", "reduce"}, goal : Int, tries : Int, victim : Int,
                   old : {"kInit", "kRunning", "kTerminating", "kDead"}]
    <3>1. Size - 1 \in Int
      BY <1>3
    <3> QED BY <1>5, <2>1, <3>1
  <2>3. Size' = Size - 1
    BY <1>3, <2>1, CountThreads DEF Size
  <2>4. PoolType'
    BY <1>1, <2>1, <2>2 DEF PoolType
  <2>5. GoalInRange'
    BY <1>1, <1>2, <1>3, <2>2, <2>3 DEF GoalInRange, PoolType
  <2>6. FirstIsVictim'
    BY <1>2, <2>1, <2>2 DEF FirstIsVictim
  <2>7. Doomed' \subseteq Doomed /\ \A t \in Doomed' : t \in workers_ /\ t # v
    BY <1>1, <2>1, <2>2 DEF Doomed, Lost
  <2>8. Serving' = Serving \ {v} /\ Serving \in SUBSET Thread
    BY <1>1, <1>3, <2>1 DEF Serving
  <2>9. EnoughBehind'
    <3>0. \A t \in Doomed' : t \in Int /\ v \in Int /\ ~(v > t)
      BY <1>3, <1>a, <2>7
    <3>a. \A t \in Doomed' : \A u : u \in Serving' /\ u > t <=> u \in Serving /\ u > t
      <4>1. \A u : u \in Serving' <=> u \in Serving /\ u # v
        BY <2>8
      <4> QED BY <3>0, <4>1
    <3>1. \A t \in Doomed' : Above(t)' = Above(t)
      BY <3>a DEF Above
    <3> QED BY <1>1, <1>2, <2>7, <3>1 DEF EnoughBehind
  <2>10. Cardinality(Serving)' >= lowest'
    <3>1. Cardinality(Above(v)) >= lowest
      BY <1>1, <1>2, <1>3 DEF EnoughBehind, Doomed
    <3>0. v \in Int /\ ~(v > v)
      BY <1>a
    <3>a. \A u \in Serving : u > v => u \in Serving'
      <4>1. \A u : u \in Serving' <=> u \in Serving /\ u # v
        BY <2>8
      <4> QED BY <3>0, <4>1
    <3>2. Above(v) \subseteq Serving' /\ Above(v) \in SUBSET Thread /\ Serving' \in SUBSET Thread
      BY <2>8, <3>a DEF Above
    <3>3. /\ Cardinality(Above(v)) <= Cardinality(Serving')
          /\ Cardinality(Above(v)) \in Nat /\ Cardinality(Serving') \in Nat
      BY <3>2, CountThreads
    <3> QED BY <1>1, <1>3, <3>1, <3>3
  <2> QED BY <1>2, <2>4, <2>5, <2>6, <2>9, <2>10
<1>7. CASE RestoreStatus
  <2>1. /\ UNCHANGED workers_ /\ resize' = AfterTry(Size)
        /\ status_' = [status_ EXCEPT ![v] = resize.old]
    BY <1>7 DEF RestoreStatus
  <2>2. /\ resize'.at \in {"done", "reduce"} /\ resize'.goal = resize.goal
        /\ ~Stopping'
        /\ resize' \in [at : {"done", "reduce"}, goal : Int, tries : Int, victim : Int,
                   old : {"kInit", "kRunning", "kTerminating", "kDead"}]
    BY <1>3, <1>5, <2>1
  <2>3. PoolType'
    BY <1>1, <1>3, <2>1, <2>2 DEF PoolType
  <2>4. GoalInRange'
    BY <1>1, <1>2, <1>3, <2>1, <2>2 DEF GoalInRange, Size
  <2>5. FirstIsVictim'
    BY <1>2, <1>3, <2>1, <2>2 DEF FirstIsVictim, PoolType
  <2>6. Doomed' \subseteq Doomed /\ Serving \subseteq Serving'
    BY <1>1, <1>3, <2>1, <2>2 DEF Doomed, Lost, Serving, PoolType
  <2> QED BY <1>0, <1>2, <2>2, <2>3, <2>4, <2>5, <2>6, NobodyLost
<1> QED BY <1>4, <1>6, <1>7

(* A configuration that is accepted can only lower the least size, and one *)
(* that is refused changes nothing.                                        *)
LEMMA ConfKeeps ==
    ASSUME PoolInv, NEW s \in Settings, module_runtime(s)
    PROVE  PoolInv'
<1> USE DEF PoolInv
<1>1. PICK c \in Reads(s) :
         IF Valid(Raised(c)) THEN conf_' = Raised(c) /\ lowest' = MinOf(lowest, c.number)
                             ELSE UNCHANGED <<conf_, lowest>>
  BY DEF module_runtime
<1>2. UNCHANGED <<timer, workers_, status_, at, pushed, rpc_queue_, resize, main>>
  BY DEF module_runtime, threadVars, queueVars
<1>3. c \in [Field -> Int] /\ c.number \in Int /\ c.hard \in Int
  <2>1. (Garbage \cup {s[f] : f \in Field}) \ {Missing} \subseteq Int
    BY ExecutorAssumption
  <2>2. c \in [Field -> (Garbage \cup {s[f] : f \in Field}) \ {Missing}]
    BY DEF Reads
  <2> QED BY <2>1, <2>2 DEF Field
<1>4. /\ Raised(c) \in [Field -> Int] /\ Raised(c).number = c.number
      /\ Raised(c).number <= Raised(c).hard
  BY <1>3 DEF Raised, Field
<1>r. PICK d \in [Field -> Int] : d = Raised(c) /\ d.number = c.number /\ d.number <= d.hard
  BY <1>4
<1>5. /\ conf_' \in [Field -> Int] /\ conf_'.number <= conf_'.hard
      /\ lowest' \in Nat /\ lowest' <= lowest /\ (lowest <= conf_.number => lowest' <= conf_'.number)
  <2>1. CASE Valid(Raised(c)) /\ conf_' = Raised(c) /\ lowest' = MinOf(lowest, c.number)
    <3>1. conf_' = d /\ d.number > 0 /\ lowest \in Nat /\ d.number \in Int
          /\ lowest' = IF lowest < d.number THEN lowest ELSE d.number
      BY <1>3, <1>r, <2>1 DEF Valid, MinOf, PoolType
    <3>2. \A x \in Nat : \A y \in Int : y > 0 =>
            LET z == IF x < y THEN x ELSE y IN z \in Nat /\ z <= x /\ z <= y
      OBVIOUS
    <3> QED BY <1>r, <3>1, <3>2
  <2>2. CASE UNCHANGED <<conf_, lowest>>
    BY <2>2 DEF PoolType
  <2> QED BY <1>1, <2>1, <2>2
<1>6. PoolType'
  BY <1>2, <1>5 DEF PoolType
<1>7. UNCHANGED <<Up, Stopping, Size>> /\ Doomed' = Doomed /\ Serving' = Serving
  BY <1>2 DEF Up, Stopping, Size, Doomed, Lost, Serving
<1>8. Up => GoalInRange'
  BY <1>2, <1>5, <1>7 DEF GoalInRange, PoolType
<1>9. Up => FirstIsVictim'
  BY <1>2, <1>7 DEF FirstIsVictim
<1> QED BY <1>2, <1>5, <1>6, <1>7, <1>8, <1>9, NobodyLost

LEMMA NextPool == PoolInv /\ [Next]_vars => PoolInv'
<1> SUFFICES ASSUME PoolInv, [Next]_vars PROVE PoolInv'
  OBVIOUS
<1> USE DEF PoolInv
<1>1. CASE handle_RPC
  <2>1. /\ UNCHANGED <<conf_, lowest, timer, workers_, status_, at, resize, main>>
        /\ pushed' = pushed + 1 /\ rpc_queue_' = Append(rpc_queue_, pushed + 1)
    BY <1>1 DEF handle_RPC, confVars, threadVars
  <2>2. PoolType'
    BY <2>1 DEF PoolType
  <2>3. UNCHANGED <<Up, GoalInRange, FirstIsVictim, EnoughBehind, Serving>>
    BY <2>1 DEF Up, GoalInRange, FirstIsVictim, EnoughBehind, Serving, Doomed, Lost, Stopping,
       Size, Above
  <2> QED BY <2>1, <2>2, <2>3
<1>2. CASE start_tasks
  <2>1. /\ UNCHANGED <<conf_, lowest, timer, workers_, at, pushed, rpc_queue_, resize>>
        /\ main = "starting" /\ main' = "serving"
        /\ status_' = [t \in Thread |-> IF t \in workers_ THEN "kRunning" ELSE status_[t]]
    BY <1>2 DEF start_tasks, confVars, queueVars
  <2>2. PoolType' /\ Up /\ Up' /\ lowest' <= lowest
    BY <2>1 DEF PoolType, Up
  <2>3. GoalInRange' /\ FirstIsVictim'
    BY <2>1, <2>2 DEF GoalInRange, FirstIsVictim, Stopping, Size, PoolType
  <2>4. Doomed' \subseteq Doomed /\ Serving \subseteq Serving'
    BY <2>1 DEF Doomed, Lost, Serving, Stopping, PoolType
  <2> QED BY <2>1, <2>2, <2>3, <2>4, NobodyLost
<1>3. CASE graceful_stop_tasks
  <2>1. /\ UNCHANGED <<conf_, lowest, workers_, at, pushed, rpc_queue_, resize>>
        /\ timer # "running" /\ main' = "stopping"
        /\ status_' = [t \in Thread |-> IF t \in workers_ THEN "kTerminating" ELSE status_[t]]
    BY <1>3 DEF graceful_stop_tasks, confVars, queueVars
  <2>2. PoolType' /\ ~Up' /\ resize'.at = "idle"
    BY <2>1 DEF PoolType, Up
  <2> QED BY <2>2
<1>4. CASE JoinWorker
  <2>1. /\ UNCHANGED <<conf_, lowest, timer, status_, at, pushed, rpc_queue_, resize>>
        /\ main = "stopping" /\ main' \in {"stopping", "stopped"} /\ workers_' \subseteq workers_
    BY <1>4 DEF JoinWorker, confVars, threadVars, queueVars
  <2>2. PoolType' /\ ~Up /\ ~Up'
    BY <2>1 DEF PoolType, Up
  <2> QED BY <2>1, <2>2
<1>5. CASE UNCHANGED vars
  <2>1. UNCHANGED <<conf_, lowest, timer, workers_, status_, at, pushed, rpc_queue_, resize, main>>
    BY <1>5 DEF vars, confVars, threadVars, queueVars
  <2>2. PoolType'
    BY <2>1 DEF PoolType
  <2>3. UNCHANGED <<Up, GoalInRange, FirstIsVictim, EnoughBehind, Serving>>
    BY <2>1 DEF Up, GoalInRange, FirstIsVictim, EnoughBehind, Serving, Doomed, Lost, Stopping,
       Size, Above
  <2> QED BY <2>1, <2>2, <2>3
<1> QED BY <1>1, <1>2, <1>3, <1>4, <1>5, ThreadKeeps, PlanKeeps, VictimKeeps, StopKeeps, ConfKeeps
        DEF Next, AdjustStep, MainStep

(* The pool never has fewer threads at work than the smallest              *)
(* exec_thread_pool_size it was ever given, whatever threads do while      *)
(* graceful_stop writes their status back (reduce_task, graceful_stop).    *)
THEOREM PoolKeepsItsThreads == Spec => []KeepsItsThreads
<1>1. PoolInv => KeepsItsThreads
  BY DEF PoolInv, KeepsItsThreads, Up
<1> QED BY <1>1, InitPool, NextPool, PTL DEF Spec
=============================================================================
