----------------------------- MODULE NetServer ------------------------------
(***************************************************************************)
(* NetServer and NetConf (Network/NetServer.h, Network/NetServer.cpp): the *)
(* io_service with its threads, the acceptor and the three tests a client  *)
(* has to pass, the timer that refills the tokens of the speed limit, the  *)
(* reloading of the configuration by another thread, and the stopping.     *)
(*                                                                         *)
(* A handler bound to the token timer runs when its wait has expired or    *)
(* was cancelled: timed_feed_token_handler does not look which.  It works  *)
(* on the timer that timed_feed_token_ points to when it runs.  Setting    *)
(* that pointer destroys the old timer and so cancels its wait.            *)
(***************************************************************************)
EXTENDS Integers, FiniteSets

CONSTANTS
    IoThreads,
    MaxClients,         \* bound: clients, numbered in the order they connect
    Ip,                 \* their addresses
    InitConf, Confs,    \* the configuration at the start, those loaded later
    MaxUpdates          \* bound: configurations loaded

Clients == 1 .. MaxClients
NoClient == 0

NetConf == [safe_ip : SUBSET {Ip[c] : c \in Clients}, service_enabled : BOOLEAN,
            service_speed : Int, service_concurrency : Int]

ASSUME NetAssumption ==
    /\ IsFiniteSet(IoThreads) /\ IoThreads # {}
    /\ MaxClients \in Nat /\ DOMAIN Ip = Clients
    /\ InitConf \in NetConf
    /\ InitConf.service_speed >= 0 /\ InitConf.service_concurrency >= 0
    /\ Confs \subseteq NetConf
    /\ MaxUpdates \in Nat

VARIABLES
    conf_, service_token_,
    timed_feed_token_,  \* is the pointer set
    waiting,            \* waits pending on the timer it points to
    ready,              \* token handlers the io_service has to call
    accepting,          \* is an async_accept outstanding
    client,             \* what became of each client
    at, serving,        \* per thread: where it is, the client it accepts
    token,              \* the value of service_token_ it has read
    io_stopped,         \* the io_service is stopped
    main,               \* the thread that starts and stops the server;
                        \* "crashed": the program has followed a null pointer
    runtime, loaded,    \* where module_runtime is, its NetConf
    updates,
    granted,            \* tokens handed out in the current second
    speedKept           \* service_speed_ was never changed

tokenVars  == <<service_token_, timed_feed_token_, waiting, ready>>
acceptVars == <<accepting, client, serving, token>>
mainVars   == <<io_stopped, main>>
confVars   == <<conf_, runtime, loaded, updates, speedKept>>
vars == <<tokenVars, acceptVars, mainVars, confVars, at, granted>>

(* NetServer::init.  The wait of the timer is the only work that the       *)
(* io_service may have before service().                                   *)
Init ==
    /\ conf_ = InitConf
    /\ service_token_ = 0
    /\ timed_feed_token_ = (InitConf.service_speed # 0)
    /\ waiting = IF timed_feed_token_ THEN 1 ELSE 0
    /\ ready = 0
    /\ accepting = FALSE
    /\ client = [c \in Clients |-> "away"]
    /\ at = [t \in IoThreads |-> "wrapper"]
    /\ serving = [t \in IoThreads |-> NoClient]
    /\ token = [t \in IoThreads |-> 0]
    /\ io_stopped = FALSE /\ main = "init"
    /\ runtime = "idle" /\ loaded = InitConf /\ updates = 0
    /\ granted = 0 /\ speedKept = TRUE

GoTo(t, place) == at' = [at EXCEPT ![t] = place]

Connected == {c \in Clients : client[c] = "connected"}

(* TcpConnAsync::current_concurrency_, counted by constructor, destructor. *)
current_concurrency_ == Cardinality(Connected)

-----------------------------------------------------------------------------
(* The threads: io_service_run. *)

InHandler(t) == at[t] \notin {"wrapper", "loop", "run", "ended"}

(* Without work run() returns, and leaves the io_service stopped.          *)
HasWork ==
    \/ waiting > 0 \/ ready > 0 \/ accepting \/ Connected # {}
    \/ \E t \in IoThreads : InHandler(t)

callable_wrapper(t) ==
    /\ at[t] = "wrapper" /\ main # "init"
    /\ GoTo(t, "loop")
    /\ UNCHANGED <<tokenVars, acceptVars, mainVars, confVars, granted>>

io_service_run(t) ==
    /\ at[t] = "loop"
    /\ GoTo(t, IF main \in {"join", "down"} THEN "ended" ELSE "run")
    /\ UNCHANGED <<tokenVars, acceptVars, mainVars, confVars, granted>>

RunReturns(t) ==
    /\ at[t] = "run"
    /\ io_stopped \/ ~HasWork
    /\ io_stopped' = TRUE
    /\ GoTo(t, "loop")
    /\ UNCHANGED <<tokenVars, acceptVars, main, confVars, granted>>

CanRun(t) == at[t] = "run" /\ ~io_stopped

-----------------------------------------------------------------------------
(* The tokens. *)

(* The clock: a wait that is pending expires.                              *)
SecondPasses ==
    /\ ready' = ready + waiting
    /\ waiting' = 0
    /\ granted' = 0
    /\ UNCHANGED <<service_token_, timed_feed_token_, acceptVars, mainVars, confVars,
                   at>>

(* What resetting timed_feed_token_ does, to a new timer that waits or to  *)
(* none: the handler of the old timer's wait becomes ready.                *)
ResetTimer(new) ==
    /\ timed_feed_token_' = new
    /\ ready' = ready + waiting
    /\ waiting' = IF new THEN 1 ELSE 0

(* timed_feed_token_handler: the test of the speed ...                     *)
FeedTest(t) ==
    /\ CanRun(t) /\ ready > 0
    /\ ready' = ready - 1
    /\ GoTo(t, IF conf_.service_speed = 0 THEN "feed_reset" ELSE "feed_token")
    /\ UNCHANGED <<service_token_, timed_feed_token_, waiting,
                   acceptVars, mainVars, confVars, granted>>

FeedReset(t) ==
    /\ at[t] = "feed_reset"
    /\ ResetTimer(FALSE)
    /\ GoTo(t, "run")
    /\ UNCHANGED <<service_token_, acceptVars, mainVars, confVars, granted>>

(* ... and, later, the feeding.  expires_from_now cancels a wait that is   *)
(* pending on the timer; a null pointer ends the program.                  *)
FeedToken(t) ==
    /\ at[t] = "feed_token"
    /\ service_token_' = conf_.service_speed
    /\ IF timed_feed_token_
         THEN ResetTimer(TRUE) /\ GoTo(t, "run") /\ UNCHANGED <<main, runtime>>
         ELSE /\ main' = "crashed" /\ runtime' = "idle"
              /\ at' = [u \in IoThreads |-> "ended"]
              /\ UNCHANGED <<timed_feed_token_, waiting, ready>>
    /\ UNCHANGED <<acceptVars, io_stopped, conf_, loaded, updates, speedKept, granted>>

FeedStep(t) == FeedTest(t) \/ FeedReset(t) \/ FeedToken(t)

-----------------------------------------------------------------------------
(* The clients and accept_handler. *)

ClientConnects(c) ==
    /\ client[c] = "away" /\ main = "serving"
    /\ \A d \in Clients : d < c => client[d] # "away"
    /\ client' = [client EXCEPT ![c] = "backlog"]
    /\ UNCHANGED <<tokenVars, accepting, serving, token, mainVars, confVars, at, granted>>

ConnectionEnds(c) ==
    /\ client[c] = "connected"
    /\ client' = [client EXCEPT ![c] = "gone"]
    /\ UNCHANGED <<tokenVars, accepting, serving, token, mainVars, confVars, at, granted>>

(* Mutant: do_accept is called at the beginning of the handler.            *)
Decide_Early(t, c, passes, place, outcome) ==
    LET next == IF passes THEN place ELSE "run"
    IN  /\ GoTo(t, next)
        /\ client' = [client EXCEPT ![c] = IF passes THEN outcome ELSE "gone"]
        /\ accepting' = TRUE
        /\ serving' = [serving EXCEPT ![t] = IF next = "run" THEN NoClient ELSE c]

(* Mutant: the handler returns when the client is refused.                 *)
Decide_Return(t, c, passes, place, outcome) ==
    /\ GoTo(t, IF passes THEN place ELSE "run")
    /\ client' = [client EXCEPT ![c] = IF passes THEN outcome ELSE "gone"]
    /\ accepting' = (passes /\ place = "run")
    /\ serving' = [serving EXCEPT ![t] = IF passes /\ place # "run" THEN c ELSE NoClient]

(* A test of the client: it passes, or is refused and its socket closed.   *)
(* The handler is at its end then, and calls do_accept.                    *)
Decide(t, c, passes, place, outcome) ==
    LET next == IF passes THEN place ELSE "run"
    IN  /\ GoTo(t, next)
        /\ client' = [client EXCEPT ![c] = IF passes THEN outcome ELSE "gone"]
        /\ accepting' = (next = "run")
        /\ serving' = [serving EXCEPT ![t] = IF next = "run" THEN NoClient ELSE c]

check_safe_ip(c) == conf_.safe_ip = {} \/ Ip[c] \in conf_.safe_ip

(* accept_handler is called for the client that has waited longest; the    *)
(* connection may be broken already.                                       *)
accept_handler(t, c) ==
    /\ CanRun(t) /\ accepting /\ client[c] = "backlog"
    /\ \A d \in Clients : d < c => client[d] # "backlog"
    /\ \E broken \in BOOLEAN :
          Decide(t, c, ~broken /\ check_safe_ip(c), "accept_token", "accepted")
    /\ UNCHANGED <<tokenVars, token, mainVars, confVars, granted>>

HasToken(n) == n > 0

get_service_token(t) ==
    /\ at[t] = "accept_token"
    /\ LET limited == conf_.service_speed # 0
       IN  /\ Decide(t, serving[t],
                     conf_.service_enabled /\ (limited => HasToken(service_token_)),
                     IF limited THEN "accept_take" ELSE "accept_limit", "accepted")
           /\ token' = [token EXCEPT ![t] = IF limited THEN service_token_ ELSE 0]
    /\ UNCHANGED <<tokenVars, mainVars, confVars, granted>>

(* Mutant: the token is given back as soon as it is taken.                 *)
TakeToken_Withdraw(t) ==
    /\ at[t] = "accept_take"
    /\ token' = [token EXCEPT ![t] = 0]
    /\ granted' = granted + 1
    /\ GoTo(t, "accept_limit")
    /\ UNCHANGED <<tokenVars, accepting, client, serving, mainVars, confVars>>

(* -- service_token_, not atomic: a feed of another thread may get lost.   *)
TakeToken(t) ==
    /\ at[t] = "accept_take"
    /\ service_token_' = token[t] - 1
    /\ token' = [token EXCEPT ![t] = 0]
    /\ granted' = granted + 1
    /\ GoTo(t, "accept_limit")
    /\ UNCHANGED <<timed_feed_token_, waiting, ready, accepting, client, serving,
                   mainVars, confVars>>

TooMany(limit, current) == limit # 0 /\ limit < current

(* The last test looks at the connections there are without the new one.   *)
TestConcurrency(t) ==
    /\ at[t] = "accept_limit"
    /\ Decide(t, serving[t], ~TooMany(conf_.service_concurrency, current_concurrency_),
              "accept_new", "accepted")
    /\ UNCHANGED <<tokenVars, token, mainVars, confVars, granted>>

(* The new connection, which counts itself, its start() and do_accept.     *)
NewConnection(t) ==
    /\ at[t] = "accept_new"
    /\ Decide(t, serving[t], TRUE, "run", "connected")
    /\ UNCHANGED <<tokenVars, token, mainVars, confVars, granted>>

AcceptStep(t) ==
    \/ \E c \in Clients : accept_handler(t, c)
    \/ get_service_token(t) \/ TakeToken(t) \/ TestConcurrency(t) \/ NewConnection(t)

-----------------------------------------------------------------------------
(* The main thread: service(), io_service_stop_graceful(). *)

start_threads ==
    /\ main = "init" /\ main' = "service"
    /\ UNCHANGED <<tokenVars, acceptVars, io_stopped, confVars, at, granted>>

service ==
    /\ main = "service" /\ main' = "serving"
    /\ accepting' = TRUE
    /\ UNCHANGED <<tokenVars, client, serving, token, io_stopped, confVars, at, granted>>

(* Mutant: only the threads are told.                                      *)
io_service_stop_No == io_stopped

io_service_stop == TRUE

io_service_stop_graceful ==
    /\ main = "serving" /\ main' = "stop"
    /\ io_stopped' = io_service_stop
    /\ UNCHANGED <<tokenVars, acceptVars, confVars, at, granted>>

graceful_stop_threads ==
    /\ main = "stop" /\ main' = "join"
    /\ UNCHANGED <<tokenVars, acceptVars, io_stopped, confVars, at, granted>>

Joined ==
    /\ main = "join" /\ \A t \in IoThreads : at[t] = "ended"
    /\ main' = "down"
    /\ UNCHANGED <<tokenVars, acceptVars, io_stopped, confVars, at, granted>>

-----------------------------------------------------------------------------
(* module_runtime, called by the thread that reloads the configuration.    *)

(* NetConf::load_conf refuses a configuration.                             *)
load_conf(c) == c.service_speed >= 0 /\ c.service_concurrency >= 0

RuntimeLoad(c) ==
    /\ runtime = "idle" /\ main = "serving" /\ updates < MaxUpdates
    /\ IF load_conf(c)
         THEN /\ loaded' = c
              /\ conf_' = [conf_ EXCEPT !.safe_ip = c.safe_ip]
              /\ runtime' = "speed"
              /\ updates' = updates + 1
         ELSE UNCHANGED <<loaded, conf_, runtime, updates>>
    /\ UNCHANGED <<tokenVars, acceptVars, mainVars, speedKept, at, granted>>

RuntimeSpeed ==
    /\ runtime = "speed"
    /\ conf_' = [conf_ EXCEPT !.service_speed = loaded.service_speed]
    /\ runtime' = IF conf_.service_speed = loaded.service_speed THEN "limit" ELSE "timer"
    /\ speedKept' = (speedKept /\ conf_.service_speed = loaded.service_speed)
    /\ UNCHANGED <<tokenVars, acceptVars, mainVars, loaded, updates, at, granted>>

(* Mutant: a timer that was dropped is not made anew.                      *)
RuntimeTimer_Off ==
    /\ runtime = "timer"
    /\ ResetTimer(loaded.service_speed # 0 /\ timed_feed_token_)
    /\ runtime' = "limit"
    /\ UNCHANGED <<service_token_, acceptVars, mainVars, conf_, loaded, updates,
                   speedKept, at, granted>>

RuntimeTimer ==
    /\ runtime = "timer"
    /\ ResetTimer(loaded.service_speed # 0)
    /\ runtime' = "limit"
    /\ UNCHANGED <<service_token_, acceptVars, mainVars, conf_, loaded, updates,
                   speedKept, at, granted>>

RuntimeLimit ==
    /\ runtime = "limit" /\ runtime' = "idle"
    /\ conf_' = [conf_ EXCEPT !.service_concurrency = loaded.service_concurrency]
    /\ loaded' = InitConf
    /\ UNCHANGED <<tokenVars, acceptVars, mainVars, updates, speedKept, at, granted>>

module_runtime == RuntimeSpeed \/ RuntimeTimer \/ RuntimeLimit

-----------------------------------------------------------------------------
ThreadStep(t) == callable_wrapper(t) \/ io_service_run(t) \/ RunReturns(t)

(* What a thread does without waiting for something.                       *)
ThreadGoesOn(t) ==
    \/ ThreadStep(t) \/ FeedReset(t) \/ FeedToken(t)
    \/ get_service_token(t) \/ TakeToken(t) \/ TestConcurrency(t) \/ NewConnection(t)

MainStep ==
    start_threads \/ service \/ io_service_stop_graceful \/ graceful_stop_threads \/ Joined

Next ==
    \/ \E t \in IoThreads : ThreadStep(t) \/ FeedStep(t) \/ AcceptStep(t)
    \/ SecondPasses
    \/ \E c \in Clients : ClientConnects(c) \/ ConnectionEnds(c)
    \/ MainStep
    \/ \E c \in Confs : RuntimeLoad(c)
    \/ module_runtime

(* Time passes, threads run, and the io_service calls its handlers in the  *)
(* order in which they became ready, so that none of them starves.         *)
Fairness ==
    /\ WF_vars(SecondPasses)
    /\ WF_vars(module_runtime)
    /\ WF_vars(start_threads \/ service \/ graceful_stop_threads \/ Joined)
    /\ \A t \in IoThreads : WF_vars(ThreadGoesOn(t))
    /\ SF_vars(\E t \in IoThreads : FeedTest(t))
    /\ SF_vars(\E t \in IoThreads, c \in Clients : accept_handler(t, c))

Spec == Init /\ [][Next]_vars /\ Fairness

-----------------------------------------------------------------------------
Speeds == {InitConf.service_speed} \cup {c.service_speed : c \in Confs}

(* Every variable has its type.                                            *)
TypeOK ==
    /\ conf_ \in NetConf /\ load_conf(conf_)
    /\ service_token_ \in 0 .. CHOOSE n \in Speeds : \A m \in Speeds : m <= n
    /\ timed_feed_token_ \in BOOLEAN
    /\ waiting \in {0, 1} /\ ready \in 0 .. 1 + MaxUpdates
    /\ accepting \in BOOLEAN
    /\ client \in [Clients -> {"away", "backlog", "accepted", "connected", "gone"}]
    /\ serving \in [IoThreads -> Clients \cup {NoClient}]
    /\ io_stopped \in BOOLEAN
    /\ main \in {"init", "service", "serving", "stop", "join", "down", "crashed"}
    /\ runtime \in {"idle", "speed", "timer", "limit"}
    /\ loaded \in NetConf /\ updates \in 0 .. MaxUpdates

(* What accept_handler found out about the number of connections still     *)
(* holds when it makes the new one: no other thread has made one since,    *)
(* because do_accept comes last on every path of the handler.              *)
TestStillHolds ==
    [][\A t \in IoThreads :
          at[t] = "accept_new" /\ at'[t] = "accept_new" => Connected' \subseteq Connected]_vars

(* There are never more connections than service_concurrency, as long as   *)
(* it is not reloaded: "最大并发连接数的限制" (heracles_example.conf),     *)
(* "最大连接并发控制" (NetServer.h).                                       *)
ConcurrencyIsMaximum ==
    updates = 0 /\ conf_.service_concurrency # 0
        => current_concurrency_ <= conf_.service_concurrency

(* As long as service_speed is not changed, a second sees at most the      *)
(* tokens left over from the one before and those of one feed              *)
(* (timed_feed_token_handler, get_service_token).                          *)
SpeedLimit ==
    speedKept /\ conf_.service_speed # 0 => granted <= 2 * conf_.service_speed

(* The same for a speed that was changed: "每1sec允许服务的数目(tps)"      *)
(* (heracles_example.conf).                                                *)
ChangedSpeedLimit ==
    conf_.service_speed # 0 =>
        granted <= 2 * (CHOOSE n \in Speeds : \A m \in Speeds : m <= n)

(* The last client does not stay in the backlog: it is admitted, refused   *)
(* or found broken, whatever became of the clients before it               *)
(* (accept_handler has to call do_accept on every path), or the server     *)
(* stops.                                                                  *)
ClientsAnswered == []<>(client[MaxClients] # "backlog" \/ main # "serving")

(* When the tokens are used up they come back, also when the limit was     *)
(* switched off and on again while a handler of the old timer was on its   *)
(* way - unless the limit is off, the server stops, or the program has     *)
(* crashed: a token handler that has found a speed follows                 *)
(* timed_feed_token_ without looking, and module_runtime or another token  *)
(* handler may have reset the pointer since (NetServer.cpp:114-122).       *)
TokensRefilled ==
    []<>(service_token_ # 0 \/ conf_.service_speed = 0 \/ io_stopped \/ main = "crashed")

(* io_service_stop_graceful and the joining of the threads come to an end: *)
(* no thread stays in run() and no handler is cut off.                     *)
StopEnds == []<>(main \notin {"stop", "join"})
=============================================================================
