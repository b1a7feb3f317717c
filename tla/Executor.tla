------------------------------ MODULE Executor ------------------------------
(***************************************************************************)
(* The executor of a service: a queue of requests, the threads of a        *)
(* ThreadPool that serve it, and the timer that has                        *)
(* executor_threads_adjust fit the number of threads to the queue and to   *)
(* the configuration (RPC/Executor.cpp, Utils/ThreadPool.cpp,              *)
(* Utils/Timer.cpp).                                                       *)
(*                                                                         *)
(* A ThreadObj has one word, status_, that the pool and the thread both    *)
(* write without a lock.  The table workers_ is ordered by the addresses   *)
(* of the threads: a new thread gets any free one, and reduce_task always  *)
(* takes the lowest.                                                       *)
(***************************************************************************)
EXTENDS Integers, Sequences, FiniteSets

CONSTANTS
    MaxThread,      \* bound: the addresses of threads are 1 .. MaxThread
    MaxTry,         \* max_try of reduce_task
    InitConf,       \* the ExecutorConf the service starts with
    Settings,       \* the sections of the service in later configurations
    Missing,        \* stands for a value that a section leaves out
    Garbage,        \* what an ExecutorConf that nobody initialised may hold
    MaxRequests,    \* bound: requests pushed
    MaxUpdates      \* bound: configurations loaded

Field == {"number", "hard", "step"}

ASSUME ExecutorAssumption ==
    /\ MaxThread \in Nat /\ MaxTry \in Nat \ {0}
    /\ MaxRequests \in Nat /\ MaxUpdates \in Nat
    /\ InitConf \in [Field -> Nat]
    /\ InitConf.number \in 1 .. MaxThread
    /\ InitConf.number <= InitConf.hard /\ InitConf.hard <= MaxThread
    /\ Garbage \subseteq Int /\ Missing \notin Int
    /\ Settings \subseteq [Field -> Int \cup {Missing}]
    /\ \A n \in Garbage \cup {s.hard : s \in Settings} \cup {s.number : s \in Settings} :
          n # Missing => n <= MaxThread

Thread == 1 .. MaxThread
NoThread == 0

VARIABLES
    conf_,
    timer,          \* "none", "armed", or "running": in its callback
    workers_,       \* the addresses in the table
    status_,        \* ThreadObj::status_, by thread
    at,             \* where the thread is
    request,        \* the request it handles, 0 if none
    rpc_queue_, pushed, handled,
    resize,         \* the resize the timer is in: its state and locals
    main,           \* "starting", "serving", "stopping", "stopped"
    updates,
    lowest          \* the least number of threads configured so far

confVars   == <<conf_, updates, lowest>>
threadVars == <<status_, at, request>>
queueVars  == <<rpc_queue_, pushed, handled>>
vars == <<confVars, timer, workers_, threadVars, queueVars, resize, main>>

Idle == [at |-> "idle", goal |-> 0, tries |-> 0, victim |-> NoThread, old |-> "kInit"]

MinOf(a, b) == IF a < b THEN a ELSE b
Begin(W) == CHOOSE t \in W : \A u \in W : t <= u    \* workers_.begin()
Size == Cardinality(workers_)

(* init(): a thread is born in callable_wrapper, its status kInit; the     *)
(* timer is added only if this first configuration lets the pool grow.     *)
Init ==
    /\ conf_ = InitConf
    /\ lowest = InitConf.number
    /\ updates = 0
    /\ timer = IF InitConf.hard > InitConf.number /\ InitConf.step > 0
                 THEN "armed" ELSE "none"
    /\ workers_ \in {W \in SUBSET Thread : Cardinality(W) = InitConf.number}
    /\ status_ = [t \in Thread |-> "kInit"]
    /\ at = [t \in Thread |-> IF t \in workers_ THEN "wrapper" ELSE "none"]
    /\ request = [t \in Thread |-> 0]
    /\ rpc_queue_ = <<>> /\ pushed = 0 /\ handled = {}
    /\ resize = Idle
    /\ main = "starting"

-----------------------------------------------------------------------------
(* The thread: callable_wrapper and executor_service_run. *)

callable_wrapper(t) ==
    /\ at[t] = "wrapper" /\ status_[t] # "kInit"
    /\ at' = [at EXCEPT ![t] = "test"]
    /\ UNCHANGED <<confVars, timer, workers_, status_, request, queueVars, resize, main>>

TestStatus(t) ==
    /\ at[t] = "test"
    /\ at' = [at EXCEPT ![t] = IF status_[t] = "kTerminating" THEN "leave" ELSE "pop"]
    /\ UNCHANGED <<confVars, timer, workers_, status_, request, queueVars, resize, main>>

(* Mutant: the status is tested once more, after the request was taken.    *)
PopRequest_ThenTest(t) ==
    /\ at[t] = "pop" /\ rpc_queue_ # <<>>
    /\ IF status_[t] = "kTerminating"
         THEN at' = [at EXCEPT ![t] = "leave"] /\ UNCHANGED request
         ELSE /\ at' = [at EXCEPT ![t] = "handle"]
              /\ request' = [request EXCEPT ![t] = Head(rpc_queue_)]
    /\ rpc_queue_' = Tail(rpc_queue_)
    /\ UNCHANGED <<confVars, timer, workers_, status_, pushed, handled, resize, main>>

PopRequest(t) ==
    /\ at[t] = "pop" /\ rpc_queue_ # <<>>
    /\ at' = [at EXCEPT ![t] = "handle"]
    /\ request' = [request EXCEPT ![t] = Head(rpc_queue_)]
    /\ rpc_queue_' = Tail(rpc_queue_)
    /\ UNCHANGED <<confVars, timer, workers_, status_, pushed, handled, resize, main>>

(* Mutant: the POP that waits without a limit.                             *)
PopTimesOut_Never(t) == FALSE

PopTimesOut(t) ==
    /\ at[t] = "pop" /\ rpc_queue_ = <<>>
    /\ at' = [at EXCEPT ![t] = "test"]
    /\ UNCHANGED <<confVars, timer, workers_, status_, request, queueVars, resize, main>>

HandleRequest(t) ==
    /\ at[t] = "handle"
    /\ handled' = handled \cup {request[t]}
    /\ request' = [request EXCEPT ![t] = 0]
    /\ at' = [at EXCEPT ![t] = "test"]
    /\ UNCHANGED <<confVars, timer, workers_, status_, rpc_queue_, pushed, resize, main>>

Leave(t) ==
    /\ at[t] = "leave"
    /\ status_' = [status_ EXCEPT ![t] = "kDead"]
    /\ at' = [at EXCEPT ![t] = "ended"]
    /\ UNCHANGED <<confVars, timer, workers_, request, queueVars, resize, main>>

ThreadStep(t) ==
    \/ callable_wrapper(t) \/ TestStatus(t) \/ PopRequest(t) \/ PopTimesOut(t)
    \/ HandleRequest(t) \/ Leave(t)

handle_RPC ==
    /\ main = "serving"
    /\ pushed < MaxRequests
    /\ pushed' = pushed + 1
    /\ rpc_queue_' = Append(rpc_queue_, pushed + 1)
    /\ UNCHANGED <<confVars, timer, workers_, threadVars, handled, resize, main>>

-----------------------------------------------------------------------------
(* The timer's thread: executor_threads_adjust.                            *)

ExpectThread(conf, queueSize) ==
    MinOf(conf.hard, conf.number + IF queueSize > conf.step
                                     THEN queueSize \div conf.step ELSE 0)

(* What resize_thread_pool is to do: nothing, reach goal, or come down to  *)
(* it (the size at which reduce_task has taken away as many as it should). *)
Plan(expect) ==
    [Idle EXCEPT !.at = IF expect = Size THEN "done"
                        ELSE IF expect > Size THEN "spawn" ELSE "reduce",
                 !.goal = expect, !.tries = MaxTry]

(* The timer may expire before the threads are started; with a step of 0   *)
(* the callback returns.                                                   *)
executor_threads_adjust ==
    /\ timer = "armed" /\ main \in {"starting", "serving"}
    /\ timer' = "running"
    /\ resize' = IF conf_.step > 0 THEN Plan(ExpectThread(conf_, Len(rpc_queue_)))
                                   ELSE [Idle EXCEPT !.at = "done"]
    /\ UNCHANGED <<confVars, workers_, threadVars, queueVars, main>>

(* One round of spawn_task.  The new status is written to kRunning before  *)
(* the thread looks at it a second time.                                   *)
spawn_task(t) ==
    /\ resize.at = "spawn" /\ t \in Thread \ workers_
    /\ workers_' = workers_ \cup {t}
    /\ status_' = [status_ EXCEPT ![t] = "kRunning"]
    /\ at' = [at EXCEPT ![t] = "wrapper"]
    /\ resize' = [resize EXCEPT !.at = IF Size + 1 = resize.goal THEN "done" ELSE "spawn"]
    /\ UNCHANGED <<confVars, timer, request, queueVars, main>>

(* graceful_stop, called by reduce_task for the first thread of the table: *)
(* its status becomes kTerminating ...                                     *)
GracefulStop ==
    /\ resize.at = "reduce"
    /\ LET t == Begin(workers_)
       IN  /\ status_' = [status_ EXCEPT ![t] = "kTerminating"]
           /\ resize' = [resize EXCEPT !.at = "join", !.victim = t, !.old = status_[t]]
    /\ UNCHANGED <<confVars, timer, workers_, at, request, queueVars, main>>

(* ... try_join_for returns when the thread has ended or ten seconds have  *)
(* passed ...                                                              *)
TryJoin ==
    /\ resize.at = "join"
    /\ resize' = [resize EXCEPT !.at = "test"]
    /\ UNCHANGED <<confVars, timer, workers_, threadVars, queueVars, main>>

(* Mutant: the loop ends when more than num threads are gone.              *)
AfterTry_OneMore(size) ==
    [resize EXCEPT !.tries = @ - 1,
                   !.at = IF size < resize.goal \/ resize.tries = 1
                            THEN "done" ELSE "reduce"]

(* ... after one more try, given the size of the table then ...            *)
AfterTry(size) ==
    [resize EXCEPT !.tries = @ - 1,
                   !.at = IF size <= resize.goal \/ resize.tries = 1
                            THEN "done" ELSE "reduce"]

IsDead(t) == status_[t] = "kDead"

(* ... a thread that is dead leaves the table ...                          *)
EraseWorker ==
    /\ resize.at = "test" /\ IsDead(resize.victim)
    /\ workers_' = workers_ \ {resize.victim}
    /\ resize' = AfterTry(Size - 1)
    /\ UNCHANGED <<confVars, timer, threadVars, queueVars, main>>

StopFailed ==
    /\ resize.at = "test" /\ ~IsDead(resize.victim)
    /\ resize' = [resize EXCEPT !.at = "restore"]
    /\ UNCHANGED <<confVars, timer, workers_, threadVars, queueVars, main>>

(* ... and one that was not, when status_ was read, gets its old status    *)
(* back, whatever it has written since.                                    *)
RestoreStatus ==
    /\ resize.at = "restore"
    /\ status_' = [status_ EXCEPT ![resize.victim] = resize.old]
    /\ resize' = AfterTry(Size)
    /\ UNCHANGED <<confVars, timer, workers_, at, request, queueVars, main>>

(* TimerObject::timer_run arms the timer again.                            *)
timer_run ==
    /\ resize.at = "done"
    /\ resize' = Idle
    /\ timer' = "armed"
    /\ UNCHANGED <<confVars, workers_, threadVars, queueVars, main>>

AdjustStep ==
    \/ executor_threads_adjust \/ timer_run
    \/ \E t \in Thread : spawn_task(t)
    \/ GracefulStop \/ TryJoin \/ EraseWorker \/ StopFailed \/ RestoreStatus

-----------------------------------------------------------------------------
(* RpcServiceBase::handle_rpc_service_conf: the configurations a section   *)
(* may be read as.  A value it leaves out is not initialised.              *)
Reads(s) ==
    {c \in [Field -> (Garbage \cup {s[f] : f \in Field}) \ {Missing}] :
        \A f \in Field : s[f] # Missing => c[f] = s[f]}

Raised(c) == [c EXCEPT !.hard = IF @ < c.number THEN c.number ELSE @]

Valid(c) == c.number > 0 /\ c.number <= 100 /\ c.hard <= 100 /\ c.step >= 0

(* Executor::module_runtime: a section that is refused changes nothing.    *)
module_runtime(s) ==
    /\ main = "serving" /\ updates < MaxUpdates
    /\ updates' = updates + 1
    /\ \E c \in Reads(s) :
          IF Valid(Raised(c))
            THEN /\ conf_' = Raised(c)
                 /\ lowest' = MinOf(lowest, c.number)
            ELSE UNCHANGED <<conf_, lowest>>
    /\ UNCHANGED <<timer, workers_, threadVars, queueVars, resize, main>>

(* start_tasks, called by Dispatcher::init.                                *)
start_tasks ==
    /\ main = "starting"
    /\ main' = "serving"
    /\ status_' = [t \in Thread |-> IF t \in workers_ THEN "kRunning" ELSE status_[t]]
    /\ UNCHANGED <<confVars, timer, workers_, at, request, queueVars, resize>>

(* graceful_stop_tasks, by the destructor of the pool.  The timer holds    *)
(* the Executor, so it has run its last callback by then.                  *)
graceful_stop_tasks ==
    /\ main = "serving" /\ timer # "running"
    /\ main' = "stopping"
    /\ timer' = "none"
    /\ status_' = [t \in Thread |-> IF t \in workers_ THEN "kTerminating" ELSE status_[t]]
    /\ UNCHANGED <<confVars, workers_, at, request, queueVars, resize>>

JoinWorker ==
    /\ main = "stopping" /\ workers_ # {}
    /\ at[Begin(workers_)] = "ended"
    /\ workers_' = workers_ \ {Begin(workers_)}
    /\ main' = IF workers_' = {} THEN "stopped" ELSE "stopping"
    /\ UNCHANGED <<confVars, timer, threadVars, queueVars, resize>>

MainStep == start_tasks \/ graceful_stop_tasks \/ JoinWorker

Next ==
    \/ \E t \in Thread : ThreadStep(t)
    \/ handle_RPC
    \/ AdjustStep
    \/ \E s \in Settings : module_runtime(s)
    \/ MainStep

(* A thread runs and the handlers return; the io_service of the Timer      *)
(* calls what is due.  Nobody has to stop the program or send requests.    *)
Fairness ==
    /\ \A t \in Thread : WF_vars(ThreadStep(t))
    /\ WF_vars(AdjustStep)
    /\ WF_vars(start_tasks) /\ WF_vars(JoinWorker)

Spec == Init /\ [][Next]_vars /\ Fairness

-----------------------------------------------------------------------------
(* Every variable has its type.                                            *)
TypeOK ==
    /\ conf_ \in [Field -> Int] /\ Valid(conf_) /\ conf_.number <= conf_.hard
    /\ updates \in 0 .. MaxUpdates /\ lowest \in Nat \ {0}
    /\ timer \in {"none", "armed", "running"}
    /\ workers_ \subseteq Thread
    /\ status_ \in [Thread -> {"kInit", "kRunning", "kTerminating", "kDead"}]
    /\ at \in [Thread -> {"none", "wrapper", "test", "pop", "handle", "leave", "ended"}]
    /\ pushed \in 0 .. MaxRequests
    /\ request \in [Thread -> 0 .. pushed]
    /\ rpc_queue_ \in Seq(1 .. pushed) /\ handled \subseteq 1 .. pushed
    /\ main \in {"starting", "serving", "stopping", "stopped"}
    /\ resize.victim \in Thread \cup {NoThread} /\ resize.tries \in 0 .. MaxTry
    /\ resize.at \in {"idle", "spawn", "reduce", "join", "test", "restore", "done"}

(* The threads that take requests now and go on doing so.                  *)
Serving ==
    {t \in workers_ : at[t] \notin {"leave", "ended"} /\ status_[t] # "kTerminating"}

(* However the sizes in the configuration change, however long threads     *)
(* take to answer graceful_stop, and although a thread that ends while its *)
(* status is written back stays in the table as if it ran, the pool never  *)
(* has fewer threads at work than the smallest exec_thread_pool_size it    *)
(* was ever given (reduce_task, graceful_stop).                            *)
KeepsItsThreads ==
    main \in {"starting", "serving"} => Cardinality(Serving) >= lowest

(* A request that was pushed is handled, even when the pool shrinks, grows *)
(* or is reconfigured meanwhile; only stopping the pool may leave it.      *)
RequestsServed ==
    \A r \in 1 .. MaxRequests :
        (pushed >= r) ~> (r \in handled \/ main \in {"stopping", "stopped"})

(* The destructor of the pool comes to an end.                             *)
StopEnds == (main = "stopping") ~> (main = "stopped")

=============================================================================
