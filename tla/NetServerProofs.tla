-------------------------- MODULE NetServerProofs ---------------------------
(* Theorems about NetServer, for every value of its constants. *)
EXTENDS NetServer, TLAPS

(* The types the argument needs.                                           *)
NetType ==
    /\ conf_ \in NetConf /\ load_conf(conf_) /\ loaded \in NetConf /\ load_conf(loaded)
    /\ service_token_ \in Int /\ granted \in Nat /\ waiting \in Nat /\ ready \in Nat
    /\ speedKept \in BOOLEAN
    /\ DOMAIN client = Clients /\ DOMAIN at = IoThreads
    /\ DOMAIN serving = IoThreads /\ token \in [IoThreads -> Int]

Accepting(t) == at[t] \in {"accept_token", "accept_take", "accept_limit", "accept_new"}

(* One accept at a time: an async_accept is outstanding, or one thread is  *)
(* in accept_handler, or the server does not accept.                       *)
OneAccept ==
    /\ \A t \in IoThreads : Accepting(t) => ~accepting /\ serving[t] \in Clients
    /\ \A t, u \in IoThreads : Accepting(t) /\ Accepting(u) => t = u
    /\ main \in {"init", "service"} => ~accepting /\ \A t \in IoThreads : ~Accepting(t)

Feeding(t) == at[t] \in {"feed_token", "feed_reset"}

(* There is one token handler, which waits for the timer, is ready or      *)
(* runs, as long as the speed is not changed.                              *)
OneFeed ==
    speedKept =>
      /\ conf_.service_speed = InitConf.service_speed /\ runtime # "timer"
      /\ waiting + ready <= 1
      /\ \A t \in IoThreads : Feeding(t) => waiting = 0 /\ ready = 0
      /\ \A t, u \in IoThreads : Feeding(t) /\ Feeding(u) => t = u

(* The feed of this second is still to come.                               *)
FeedDue == ready > 0 \/ \E t \in IoThreads : Feeding(t)

(* What may still be granted this second when n tokens are left.           *)
Within(n) ==
    LET speed == conf_.service_speed
    IN  /\ n >= 0 /\ n <= speed /\ granted + n <= 2 * speed
        /\ FeedDue => granted + n <= speed

(* The tokens, and those a thread has read and is about to write back.     *)
TokensWithin ==
    speedKept /\ conf_.service_speed # 0 =>
      /\ Within(service_token_)
      /\ \A t \in IoThreads : at[t] = "accept_take" => Within(token[t]) /\ token[t] > 0

NetInv == NetType /\ OneAccept /\ OneFeed /\ TokensWithin

-----------------------------------------------------------------------------
LEMMA InitNet == Init => NetInv
<1> SUFFICES ASSUME Init PROVE NetInv
  OBVIOUS
<1>1. /\ InitConf \in NetConf /\ InitConf.service_speed \in Int
      /\ InitConf.service_concurrency \in Int
      /\ InitConf.service_speed >= 0 /\ InitConf.service_concurrency >= 0
  BY NetAssumption DEF NetConf
<1>2. NetType
  BY <1>1 DEF Init, NetType, load_conf
<1>3. /\ \A t \in IoThreads : at[t] = "wrapper"
      /\ waiting \in {0, 1} /\ ready = 0
  BY DEF Init
<1>4. OneAccept
  BY <1>3 DEF Init, OneAccept, Accepting
<1>5. OneFeed
  BY <1>3 DEF Init, OneFeed, Feeding
<1>6. TokensWithin
  <2>1. ~FeedDue
    BY <1>3 DEF FeedDue, Feeding
  <2> QED BY <1>1, <1>3, <2>1 DEF Init, TokensWithin, Within
<1> QED BY <1>2, <1>4, <1>5, <1>6 DEF NetInv

(* A step of threads that are in no handler.                               *)
LEMMA PlainStep ==
    ASSUME NetInv,
           UNCHANGED <<conf_, loaded, service_token_, granted, waiting, ready, speedKept,
                       client, serving, token, runtime>>,
           DOMAIN at' = IoThreads,
           \A t \in IoThreads : at'[t] = at[t] \/ (~Accepting(t)' /\ ~Feeding(t)'),
           main' \in {"init", "service"} => /\ main \in {"init", "service"}
                                            /\ UNCHANGED accepting,
           accepting' = accepting \/ (accepting' /\ \A t \in IoThreads : ~Accepting(t))
    PROVE  NetInv'
<1> USE DEF NetInv
<1>1. NetType'
  BY DEF NetType
<1>2. \A t \in IoThreads : /\ Accepting(t)' => Accepting(t)
                           /\ Feeding(t)' => Feeding(t)
                           /\ at'[t] = "accept_take" => at[t] = "accept_take"
  BY DEF Accepting, Feeding
<1>3. OneAccept'
  BY <1>2 DEF OneAccept
<1>4. OneFeed'
  BY <1>2 DEF OneFeed
<1>5. FeedDue' => FeedDue
  BY <1>2 DEF FeedDue
<1>6. \A n \in Int : Within(n) => Within(n)'
  BY <1>5 DEF Within
<1>7. TokensWithin'
  BY <1>2, <1>6 DEF TokensWithin, NetType
<1> QED BY <1>1, <1>3, <1>4, <1>7

LEMMA ThreadStepNet ==
    ASSUME NetInv, NEW t \in IoThreads, ThreadStep(t)
    PROVE  NetInv'
<1>1. /\ UNCHANGED <<conf_, loaded, service_token_, granted, waiting, ready, speedKept,
                     client, serving, token, runtime, accepting, main>>
      /\ ~Accepting(t) /\ ~Feeding(t)
      /\ \E place \in {"loop", "run", "ended"} : GoTo(t, place)
  BY DEF ThreadStep, callable_wrapper, io_service_run, RunReturns, tokenVars, acceptVars,
         mainVars, confVars, Accepting, Feeding
<1>2. DOMAIN at = IoThreads
  BY DEF NetInv, NetType
<1>3. PICK place \in {"loop", "run", "ended"} : at' = [at EXCEPT ![t] = place]
  BY <1>1 DEF GoTo
<1>4. DOMAIN at' = IoThreads
  BY <1>2, <1>3
<1>5. \A u \in IoThreads : at'[u] = at[u] \/ (~Accepting(u)' /\ ~Feeding(u)')
  BY <1>1, <1>2, <1>3 DEF Accepting, Feeding
<1> QED BY <1>1, <1>4, <1>5, PlainStep

LEMMA MainStepNet ==
    ASSUME NetInv, MainStep
    PROVE  NetInv'
<1>1. /\ UNCHANGED <<conf_, loaded, service_token_, granted, waiting, ready, speedKept,
                     client, serving, token, runtime, at>>
      /\ main' \in {"init", "service"} => main \in {"init", "service"} /\ UNCHANGED accepting
      /\ accepting' = accepting \/ (main = "service" /\ accepting' = TRUE)
  BY DEF MainStep, start_threads, service, io_service_stop_graceful, graceful_stop_threads,
         Joined, tokenVars, acceptVars, mainVars, confVars
<1>2. DOMAIN at' = IoThreads
  BY <1>1 DEF NetInv, NetType
<1>3. accepting' = accepting \/ (accepting' /\ \A t \in IoThreads : ~Accepting(t))
  BY <1>1 DEF NetInv, OneAccept
<1> QED BY <1>1, <1>2, <1>3, PlainStep

-----------------------------------------------------------------------------
(* The tokens.  What a step that leaves the speed and the acceptor alone   *)
(* has to show.                                                            *)
LEMMA TokenStep ==
    ASSUME NetInv,
           UNCHANGED <<acceptVars, conf_, loaded, speedKept>>,
           main' = main \/ main' = "crashed",
           service_token_' \in Int, granted' \in Nat, waiting' \in Nat, ready' \in Nat,
           DOMAIN at' = IoThreads,
           \A t \in IoThreads : at'[t] = at[t] \/ ~Accepting(t)',
           OneFeed',
           speedKept /\ conf_.service_speed # 0 =>
             /\ Within(service_token_)'
             /\ \A n \in Int : Within(n) => Within(n)'
    PROVE  NetInv'
<1> USE DEF NetInv, acceptVars
<1>1. NetType'
  BY DEF NetType
<1>2. \A t \in IoThreads : /\ Accepting(t)' => Accepting(t)
                           /\ at'[t] = "accept_take" => at[t] = "accept_take"
  BY DEF Accepting
<1>3. OneAccept'
  BY <1>2 DEF OneAccept
<1>4. TokensWithin'
  BY <1>2 DEF TokensWithin, NetType
<1> QED BY <1>1, <1>3, <1>4

LEMMA SecondPassesNet ==
    ASSUME NetInv, SecondPasses
    PROVE  NetInv'
<1> USE DEF NetInv, acceptVars, mainVars, confVars
<1>1. /\ UNCHANGED <<acceptVars, conf_, loaded, speedKept, main, runtime, at, service_token_>>
      /\ ready' = ready + waiting /\ waiting' = 0 /\ granted' = 0
  BY DEF SecondPasses
<1>2. /\ service_token_' \in Int /\ granted' \in Nat /\ waiting' \in Nat /\ ready' \in Nat
      /\ DOMAIN at' = IoThreads
      /\ \A t \in IoThreads : at'[t] = at[t]
      /\ conf_.service_speed \in Int
  BY <1>1 DEF NetType, NetConf
<1>3. \A t \in IoThreads : Feeding(t)' = Feeding(t)
  BY <1>1 DEF Feeding
<1>4. OneFeed'
  BY <1>1, <1>3 DEF OneFeed, NetType
<1>5. \A n \in Int : Within(n) => Within(n)'
  BY <1>1, <1>2 DEF Within
<1>6. speedKept /\ conf_.service_speed # 0 => Within(service_token_)'
  BY <1>1, <1>2, <1>5 DEF TokensWithin, NetType, Within
<1> QED BY <1>1, <1>2, <1>4, <1>5, <1>6, TokenStep

LEMMA FeedTestNet ==
    ASSUME NetInv, NEW t \in IoThreads, FeedTest(t)
    PROVE  NetInv'
<1> USE DEF NetInv, acceptVars, mainVars, confVars
<1>1. /\ UNCHANGED <<acceptVars, conf_, loaded, speedKept, main, runtime,
                     service_token_, waiting, granted>>
      /\ ready' = ready - 1 /\ ready > 0 /\ at[t] = "run"
  BY DEF FeedTest, CanRun
<1>2. PICK place \in {"feed_reset", "feed_token"} : at' = [at EXCEPT ![t] = place]
  BY DEF FeedTest, GoTo
<1>3. /\ service_token_' \in Int /\ granted' \in Nat /\ waiting' \in Nat /\ ready' \in Nat
      /\ DOMAIN at' = IoThreads
  BY <1>1, <1>2 DEF NetType
<1>4. \A u \in IoThreads : at'[u] = at[u] \/ ~Accepting(u)'
  BY <1>1, <1>2 DEF Accepting, NetType
<1>5. \A u \in IoThreads : Feeding(u)' => Feeding(u) \/ u = t
  BY <1>1, <1>2 DEF Feeding, NetType
<1>6. OneFeed'
  BY <1>1, <1>3, <1>5 DEF OneFeed, NetType
<1>7. \A n \in Int : Within(n) => Within(n)'
  BY <1>1 DEF Within, FeedDue
<1>8. speedKept /\ conf_.service_speed # 0 => Within(service_token_)'
  BY <1>1, <1>7 DEF TokensWithin, NetType, Within
<1> QED BY <1>1, <1>3, <1>4, <1>6, <1>7, <1>8, TokenStep

LEMMA FeedResetNet ==
    ASSUME NetInv, NEW t \in IoThreads, FeedReset(t)
    PROVE  NetInv'
<1> USE DEF NetInv, acceptVars, mainVars, confVars
<1>1. /\ UNCHANGED <<acceptVars, conf_, loaded, speedKept, main, runtime,
                     service_token_, granted>>
      /\ ready' = ready + waiting /\ waiting' = 0 /\ at[t] = "feed_reset"
      /\ at' = [at EXCEPT ![t] = "run"]
  BY DEF FeedReset, ResetTimer, GoTo
<1>2. /\ service_token_' \in Int /\ granted' \in Nat /\ waiting' \in Nat /\ ready' \in Nat
      /\ DOMAIN at' = IoThreads
  BY <1>1 DEF NetType
<1>3. \A u \in IoThreads : at'[u] = at[u] \/ ~Accepting(u)'
  BY <1>1 DEF Accepting, NetType
<1>4. \A u \in IoThreads : Feeding(u)' => Feeding(u)
  BY <1>1 DEF Feeding, NetType
<1>5. Feeding(t)
  BY <1>1 DEF Feeding
<1>6. OneFeed'
  BY <1>1, <1>2, <1>4, <1>5 DEF OneFeed, NetType
<1>7. \A n \in Int : Within(n) => Within(n)'
  BY <1>1, <1>4, <1>5 DEF Within, FeedDue
<1>8. speedKept /\ conf_.service_speed # 0 => Within(service_token_)'
  BY <1>1, <1>7 DEF TokensWithin, NetType, Within
<1> QED BY <1>1, <1>2, <1>3, <1>6, <1>7, <1>8, TokenStep

(* The feed: the tokens granted so far in this second were left over from  *)
(* the one before, and no other feed is to come.                           *)
LEMMA FeedTokenNet ==
    ASSUME NetInv, NEW t \in IoThreads, FeedToken(t)
    PROVE  NetInv'
<1> USE DEF NetInv, acceptVars, mainVars, confVars
<1>1. /\ UNCHANGED <<acceptVars, conf_, loaded, speedKept, granted>>
      /\ service_token_' = conf_.service_speed /\ at[t] = "feed_token"
      /\ conf_.service_speed \in Int /\ conf_.service_speed >= 0
  BY DEF FeedToken, NetType, NetConf, load_conf
<1>2. \/ /\ main' = "crashed" /\ runtime' = "idle" /\ UNCHANGED <<waiting, ready>>
         /\ at' = [u \in IoThreads |-> "ended"]
      \/ /\ UNCHANGED <<main, runtime>> /\ waiting' = 1 /\ ready' = ready + waiting
         /\ at' = [at EXCEPT ![t] = "run"]
  BY DEF FeedToken, ResetTimer, GoTo
<1>3. /\ service_token_' \in Int /\ granted' \in Nat /\ waiting' \in Nat /\ ready' \in Nat
      /\ DOMAIN at' = IoThreads
      /\ main' = main \/ main' = "crashed"
  BY <1>1, <1>2 DEF NetType
<1>4. \A u \in IoThreads : at'[u] = at[u] \/ ~Accepting(u)'
  BY <1>1, <1>2 DEF Accepting, NetType
<1>5. \A u \in IoThreads : Feeding(u)' => Feeding(u) /\ u # t
  BY <1>1, <1>2 DEF Feeding, NetType
<1>6. Feeding(t)
  BY <1>1 DEF Feeding
<1>7. OneFeed'
  <2> SUFFICES ASSUME speedKept
               PROVE  /\ conf_'.service_speed = InitConf.service_speed /\ runtime' # "timer"
                      /\ waiting' + ready' <= 1
                      /\ \A u \in IoThreads : ~Feeding(u)'
    BY <1>1 DEF OneFeed
  <2>1. waiting = 0 /\ ready = 0 /\ \A u \in IoThreads : Feeding(u) => u = t
    BY <1>6 DEF OneFeed
  <2>2. conf_'.service_speed = InitConf.service_speed /\ runtime' # "timer"
    BY <1>1, <1>2 DEF OneFeed
  <2>3. waiting' + ready' <= 1
    BY <1>2, <2>1
  <2>4. \A u \in IoThreads : ~Feeding(u)'
    BY <1>5, <2>1
  <2> QED BY <2>2, <2>3, <2>4
<1>8. ASSUME speedKept PROVE ~FeedDue'
  BY <1>2, <1>5, <1>6, <1>8 DEF OneFeed, FeedDue, NetType
<1>9. ASSUME speedKept, NEW n \in Int, Within(n) PROVE Within(n)'
  BY <1>1, <1>8, <1>9 DEF Within, NetType
<1>10. ASSUME speedKept, conf_.service_speed # 0 PROVE Within(service_token_)'
  <2>1. FeedDue
    BY <1>6 DEF FeedDue
  <2>2. Within(service_token_) /\ granted <= conf_.service_speed
    BY <1>1, <1>10, <2>1 DEF TokensWithin, Within, NetType
  <2> QED BY <1>1, <1>8, <1>10, <2>2 DEF Within, NetType
<1> QED BY <1>1, <1>3, <1>4, <1>7, <1>9, <1>10, TokenStep

-----------------------------------------------------------------------------
(* The clients.                                                            *)
LEMMA ClientStepNet ==
    ASSUME NetInv, NEW c \in Clients, ClientConnects(c) \/ ConnectionEnds(c)
    PROVE  NetInv'
<1> USE DEF NetInv, tokenVars, mainVars, confVars
<1>1. /\ UNCHANGED <<conf_, loaded, service_token_, granted, waiting, ready, speedKept,
                     serving, token, runtime, accepting, main, at>>
      /\ \E outcome \in {"backlog", "gone"} : client' = [client EXCEPT ![c] = outcome]
  BY DEF ClientConnects, ConnectionEnds
<1>2. PICK outcome \in {"backlog", "gone"} : client' = [client EXCEPT ![c] = outcome]
  BY <1>1
<1>3. NetType'
  BY <1>1, <1>2 DEF NetType
<1>4. OneAccept'
  BY <1>1 DEF OneAccept, Accepting
<1>5. OneFeed'
  BY <1>1 DEF OneFeed, Feeding
<1>6. TokensWithin'
  BY <1>1 DEF TokensWithin, Within, FeedDue, Feeding
<1> QED BY <1>3, <1>4, <1>5, <1>6

(* A step of accept_handler.  Only the thread that accepts may take it.    *)
LEMMA DecideStep ==
    ASSUME NetInv, NEW t \in IoThreads, NEW c \in Clients,
           NEW passes \in BOOLEAN, NEW place, NEW outcome,
           place \in {"accept_token", "accept_take", "accept_limit", "accept_new", "run"},
           Decide(t, c, passes, place, outcome),
           Accepting(t) \/ (accepting /\ at[t] = "run"),
           UNCHANGED <<tokenVars, mainVars, confVars, granted>>,
           token' \in [IoThreads -> Int],
           \A u \in IoThreads : u # t => token'[u] = token[u],
           speedKept /\ conf_.service_speed # 0 /\ at'[t] = "accept_take" =>
               Within(token'[t]) /\ token'[t] > 0
    PROVE  NetInv'
<1> USE DEF NetInv, tokenVars, mainVars, confVars
<1>1. PICK next : next = IF passes THEN place ELSE "run"
  OBVIOUS
<1>2. /\ next \in {"accept_token", "accept_take", "accept_limit", "accept_new", "run"}
      /\ at' = [at EXCEPT ![t] = next]
      /\ DOMAIN client' = DOMAIN client
      /\ accepting' = (next = "run")
      /\ serving' = [serving EXCEPT ![t] = IF next = "run" THEN NoClient ELSE c]
  BY <1>1 DEF Decide, GoTo
<1>3. NetType'
  BY <1>2 DEF NetType
<1>4. \A u \in IoThreads : u # t => ~Accepting(u)
  BY DEF OneAccept
<1>5. \A u \in IoThreads : u # t => ~Accepting(u)' /\ at'[u] = at[u]
  BY <1>2, <1>4 DEF Accepting, NetType
<1>6. at'[t] = next
  BY <1>2 DEF NetType
<1>7. Accepting(t)' => ~accepting' /\ serving'[t] \in Clients
  BY <1>2, <1>6 DEF Accepting, NetType
<1>8. main' \notin {"init", "service"}
  BY DEF OneAccept
<1>9. OneAccept'
  BY <1>5, <1>7, <1>8 DEF OneAccept
<1>10. \A u \in IoThreads : Feeding(u)' = Feeding(u)
  BY <1>2, <1>5, <1>6 DEF Feeding, Accepting
<1>11. OneFeed'
  BY <1>10 DEF OneFeed
<1>12. \A n \in Int : Within(n)' = Within(n)
  BY <1>10 DEF Within, FeedDue
<1>13. TokensWithin'
  BY <1>5, <1>12, <1>3 DEF TokensWithin, NetType, Accepting
<1> QED BY <1>3, <1>9, <1>11, <1>13

LEMMA AcceptHandlerNet ==
    ASSUME NetInv, NEW t \in IoThreads, NEW c \in Clients, accept_handler(t, c)
    PROVE  NetInv'
<1> USE DEF NetInv, tokenVars, mainVars, confVars
<1>1. PICK broken \in BOOLEAN :
          Decide(t, c, ~broken /\ check_safe_ip(c), "accept_token", "accepted")
  BY DEF accept_handler
<1>2. PICK passes \in BOOLEAN : passes = (~broken /\ check_safe_ip(c))
  BY DEF check_safe_ip
<1>3. Decide(t, c, passes, "accept_token", "accepted")
  BY <1>1, <1>2
<1>4. /\ accepting /\ at[t] = "run"
      /\ UNCHANGED <<tokenVars, mainVars, confVars, granted, token>>
  BY DEF accept_handler, CanRun
<1>5. token' \in [IoThreads -> Int] /\ \A u \in IoThreads : u # t => token'[u] = token[u]
  BY <1>4 DEF NetType
<1>6. at'[t] # "accept_take"
  BY <1>3 DEF Decide, GoTo, NetType
<1> QED BY <1>3, <1>4, <1>5, <1>6, DecideStep

LEMMA GetServiceTokenNet ==
    ASSUME NetInv, NEW t \in IoThreads, get_service_token(t)
    PROVE  NetInv'
<1> USE DEF NetInv, tokenVars, mainVars, confVars
<1>1. PICK limited \in BOOLEAN : limited = (conf_.service_speed # 0)
  OBVIOUS
<1>2. PICK passes \in BOOLEAN :
          passes = (conf_.service_enabled /\ (limited => HasToken(service_token_)))
  OBVIOUS
<1>3. PICK place : place = IF limited THEN "accept_take" ELSE "accept_limit"
  OBVIOUS
<1>4. /\ Decide(t, serving[t], passes, place, "accepted")
      /\ token' = [token EXCEPT ![t] = IF limited THEN service_token_ ELSE 0]
      /\ at[t] = "accept_token"
      /\ UNCHANGED <<tokenVars, mainVars, confVars, granted>>
  BY <1>1, <1>2, <1>3 DEF get_service_token
<1>5. Accepting(t) /\ serving[t] \in Clients
  BY <1>4 DEF Accepting, OneAccept
<1>6. /\ token' \in [IoThreads -> Int] /\ \A u \in IoThreads : u # t => token'[u] = token[u]
      /\ token'[t] = IF limited THEN service_token_ ELSE 0
  BY <1>4 DEF NetType
<1>7. at'[t] = IF passes THEN place ELSE "run"
  BY <1>4 DEF Decide, GoTo, NetType
<1>8. speedKept /\ conf_.service_speed # 0 /\ at'[t] = "accept_take" =>
           Within(token'[t]) /\ token'[t] > 0
  BY <1>1, <1>2, <1>3, <1>6, <1>7 DEF TokensWithin, HasToken
<1>9. place \in {"accept_token", "accept_take", "accept_limit", "run"}
  BY <1>3
<1> QED BY <1>4, <1>5, <1>6, <1>8, <1>9, DecideStep

(* A thread that writes back the value it has read hands out a token of    *)
(* the second it writes in.                                                *)
LEMMA TakeTokenNet ==
    ASSUME NetInv, NEW t \in IoThreads, TakeToken(t)
    PROVE  NetInv'
<1> USE DEF NetInv, mainVars, confVars
<1>1. /\ UNCHANGED <<waiting, ready, accepting, client, serving, main, conf_, loaded, runtime,
                     speedKept>>
      /\ at[t] = "accept_take" /\ at' = [at EXCEPT ![t] = "accept_limit"]
      /\ service_token_' = token[t] - 1 /\ token' = [token EXCEPT ![t] = 0]
      /\ granted' = granted + 1
  BY DEF TakeToken, GoTo
<1>2. NetType'
  BY <1>1 DEF NetType
<1>3. \A u \in IoThreads : u # t => ~Accepting(u)
  BY <1>1 DEF OneAccept, Accepting
<1>4. \A u \in IoThreads : u # t => at'[u] = at[u]
  BY <1>1 DEF NetType
<1>5. at'[t] = "accept_limit"
  BY <1>1 DEF NetType
<1>6. \A u \in IoThreads : Accepting(u)' = Accepting(u) /\ Feeding(u)' = Feeding(u)
  BY <1>1, <1>4, <1>5 DEF Accepting, Feeding
<1>7. OneAccept'
  BY <1>1, <1>6 DEF OneAccept
<1>8. OneFeed'
  BY <1>1, <1>6 DEF OneFeed
<1>9. \A u \in IoThreads : at'[u] # "accept_take"
  BY <1>3, <1>4, <1>5 DEF Accepting
<1>10. ASSUME speedKept, conf_.service_speed # 0 PROVE Within(service_token_)'
  <2>1. Within(token[t]) /\ token[t] > 0
    BY <1>1, <1>10 DEF TokensWithin
  <2>2. FeedDue' = FeedDue
    BY <1>1, <1>6 DEF FeedDue
  <2>3. token[t] \in Int /\ granted \in Nat /\ conf_.service_speed \in Int
    BY DEF NetType, NetConf
  <2> QED BY <1>1, <2>1, <2>2, <2>3 DEF Within
<1>11. TokensWithin'
  BY <1>1, <1>9, <1>10 DEF TokensWithin
<1> QED BY <1>2, <1>7, <1>8, <1>11

LEMMA TestConcurrencyNet ==
    ASSUME NetInv, NEW t \in IoThreads, TestConcurrency(t)
    PROVE  NetInv'
<1> USE DEF NetInv, tokenVars, mainVars, confVars
<1>1. PICK passes \in BOOLEAN :
          passes = ~TooMany(conf_.service_concurrency, current_concurrency_)
  BY DEF TooMany
<1>2. /\ Decide(t, serving[t], passes, "accept_new", "accepted")
      /\ at[t] = "accept_limit"
      /\ UNCHANGED <<tokenVars, token, mainVars, confVars, granted>>
  BY <1>1 DEF TestConcurrency
<1>3. Accepting(t) /\ serving[t] \in Clients
  BY <1>2 DEF Accepting, OneAccept
<1>4. at'[t] # "accept_take"
  BY <1>2 DEF Decide, GoTo, NetType
<1>5. token' \in [IoThreads -> Int] /\ \A u \in IoThreads : u # t => token'[u] = token[u]
  BY <1>2 DEF NetType
<1> QED BY <1>2, <1>3, <1>4, <1>5, DecideStep

LEMMA NewConnectionNet ==
    ASSUME NetInv, NEW t \in IoThreads, NewConnection(t)
    PROVE  NetInv'
<1> USE DEF NetInv, tokenVars, mainVars, confVars
<1>1. PICK passes \in BOOLEAN : passes = TRUE
  OBVIOUS
<1>2. /\ Decide(t, serving[t], passes, "run", "connected")
      /\ at[t] = "accept_new"
      /\ UNCHANGED <<tokenVars, token, mainVars, confVars, granted>>
  BY <1>1 DEF NewConnection
<1>3. Accepting(t) /\ serving[t] \in Clients
  BY <1>2 DEF Accepting, OneAccept
<1>4. at'[t] # "accept_take"
  BY <1>2 DEF Decide, GoTo, NetType
<1>5. token' \in [IoThreads -> Int] /\ \A u \in IoThreads : u # t => token'[u] = token[u]
  BY <1>2 DEF NetType
<1> QED BY <1>2, <1>3, <1>4, <1>5, DecideStep

-----------------------------------------------------------------------------
(* module_runtime.                                                         *)
LEMMA RuntimeLoadNet ==
    ASSUME NetInv, NEW c \in Confs, RuntimeLoad(c)
    PROVE  NetInv'
<1> USE DEF NetInv, tokenVars, acceptVars, mainVars
<1>1. c \in NetConf
  BY NetAssumption
<1>2. UNCHANGED <<service_token_, granted, waiting, ready, speedKept,
                  client, serving, token, accepting, main, at>>
  BY DEF RuntimeLoad
<1>3. /\ conf_' \in NetConf /\ load_conf(conf_)' /\ loaded' \in NetConf /\ load_conf(loaded)'
      /\ conf_'.service_speed = conf_.service_speed
      /\ conf_'.service_concurrency = conf_.service_concurrency
      /\ runtime' = "timer" => runtime = "timer"
  BY <1>1 DEF RuntimeLoad, NetType, NetConf, load_conf
<1>4. NetType'
  BY <1>2, <1>3 DEF NetType
<1>5. OneAccept'
  BY <1>2 DEF OneAccept, Accepting
<1>6. OneFeed'
  BY <1>2, <1>3 DEF OneFeed, Feeding
<1>7. TokensWithin'
  BY <1>2, <1>3 DEF TokensWithin, Within, FeedDue, Feeding
<1> QED BY <1>4, <1>5, <1>6, <1>7

LEMMA RuntimeSpeedNet ==
    ASSUME NetInv, RuntimeSpeed
    PROVE  NetInv'
<1> USE DEF NetInv, tokenVars, acceptVars, mainVars
<1>1. UNCHANGED <<service_token_, granted, waiting, ready, loaded,
                  client, serving, token, accepting, main, at>>
  BY DEF RuntimeSpeed
<1>2. /\ conf_' \in NetConf /\ load_conf(conf_)'
      /\ conf_'.service_concurrency = conf_.service_concurrency
      /\ speedKept' \in BOOLEAN
      /\ speedKept' => /\ speedKept /\ runtime' = "limit"
                       /\ conf_'.service_speed = conf_.service_speed
  BY DEF RuntimeSpeed, NetType, NetConf, load_conf
<1>3. NetType'
  BY <1>1, <1>2 DEF NetType, load_conf
<1>4. OneAccept'
  BY <1>1 DEF OneAccept, Accepting
<1>5. OneFeed'
  BY <1>1, <1>2 DEF OneFeed, Feeding
<1>6. TokensWithin'
  BY <1>1, <1>2 DEF TokensWithin, Within, FeedDue, Feeding
<1> QED BY <1>3, <1>4, <1>5, <1>6

(* The timer is only reset when the speed has changed.                     *)
LEMMA RuntimeTimerNet ==
    ASSUME NetInv, RuntimeTimer
    PROVE  NetInv'
<1> USE DEF NetInv, acceptVars, mainVars
<1>1. /\ UNCHANGED <<acceptVars, conf_, loaded, speedKept, main, at, service_token_, granted>>
      /\ ready' = ready + waiting /\ waiting' \in {0, 1}
  BY DEF RuntimeTimer, ResetTimer
<1>2. /\ service_token_' \in Int /\ granted' \in Nat /\ waiting' \in Nat /\ ready' \in Nat
      /\ DOMAIN at' = IoThreads
  BY <1>1 DEF NetType
<1>3. ~speedKept
  BY DEF RuntimeTimer, OneFeed
<1>4. OneFeed'
  BY <1>1, <1>3 DEF OneFeed
<1> QED BY <1>1, <1>2, <1>3, <1>4, TokenStep

LEMMA RuntimeLimitNet ==
    ASSUME NetInv, RuntimeLimit
    PROVE  NetInv'
<1> USE DEF NetInv, tokenVars, acceptVars, mainVars
<1>1. /\ UNCHANGED <<service_token_, granted, waiting, ready, speedKept,
                     client, serving, token, accepting, main, at>>
      /\ loaded' = InitConf /\ runtime' = "idle"
  BY DEF RuntimeLimit
<1>2. /\ conf_' \in NetConf /\ load_conf(conf_)'
      /\ conf_'.service_speed = conf_.service_speed
  BY DEF RuntimeLimit, NetType, NetConf, load_conf
<1>3. NetType'
  BY <1>1, <1>2, NetAssumption DEF NetType, load_conf
<1>4. OneAccept'
  BY <1>1 DEF OneAccept, Accepting
<1>5. OneFeed'
  BY <1>1, <1>2 DEF OneFeed, Feeding
<1>6. TokensWithin'
  BY <1>1, <1>2 DEF TokensWithin, Within, FeedDue, Feeding
<1> QED BY <1>3, <1>4, <1>5, <1>6

-----------------------------------------------------------------------------
LEMMA StutterNet ==
    ASSUME NetInv, UNCHANGED vars
    PROVE  NetInv'
BY DEF vars, tokenVars, acceptVars, mainVars, confVars, NetInv, NetType, OneAccept, Accepting,
       OneFeed, Feeding, TokensWithin, Within, FeedDue

LEMMA NextNet == NetInv /\ [Next]_vars => NetInv'
<1> SUFFICES ASSUME NetInv, Next PROVE NetInv'
  BY StutterNet
<1>1. ASSUME NEW t \in IoThreads, ThreadStep(t) \/ FeedStep(t) \/ AcceptStep(t) PROVE NetInv'
  BY <1>1, ThreadStepNet, FeedTestNet, FeedResetNet, FeedTokenNet, AcceptHandlerNet,
     GetServiceTokenNet, TakeTokenNet, TestConcurrencyNet, NewConnectionNet
  DEF FeedStep, AcceptStep
<1>2. CASE SecondPasses
  BY <1>2, SecondPassesNet
<1>3. ASSUME NEW c \in Clients, ClientConnects(c) \/ ConnectionEnds(c) PROVE NetInv'
  BY <1>3, ClientStepNet
<1>4. CASE MainStep
  BY <1>4, MainStepNet
<1>5. ASSUME NEW c \in Confs, RuntimeLoad(c) PROVE NetInv'
  BY <1>5, RuntimeLoadNet
<1>6. CASE module_runtime
  BY <1>6, RuntimeSpeedNet, RuntimeTimerNet, RuntimeLimitNet DEF module_runtime
<1> QED BY <1>1, <1>2, <1>3, <1>4, <1>5, <1>6 DEF Next

LEMMA NetInvariant == Spec => []NetInv
BY InitNet, NextNet, PTL DEF Spec

(* Only NewConnection makes a connection.                                  *)
LEMMA OnlyNewConnection ==
    ASSUME NetInv, [Next]_vars, ~(Connected' \subseteq Connected)
    PROVE  \E t \in IoThreads : NewConnection(t) /\ at'[t] = "run"
<1> USE DEF tokenVars, acceptVars, mainVars, confVars, vars
<1>1. client' # client
  BY DEF Connected
<1>2. DOMAIN client = Clients /\ DOMAIN at = IoThreads
  BY DEF NetInv, NetType
<1>3. \A t \in IoThreads : Accepting(t) => serving[t] \in Clients
  BY DEF NetInv, OneAccept
<1>4. ASSUME NEW t \in IoThreads, NEW c \in Clients, NEW passes, NEW place,
             Decide(t, c, passes, place, "accepted")
      PROVE  FALSE
  <2>1. client'[c] # "connected" /\ \A d \in Clients : d # c => client'[d] = client[d]
    BY <1>2, <1>4 DEF Decide
  <2> QED BY <2>1 DEF Connected
<1>5. ASSUME NEW t \in IoThreads, AcceptStep(t)
      PROVE  NewConnection(t) /\ at'[t] = "run"
  <2>1. ASSUME NEW c \in Clients, accept_handler(t, c) PROVE FALSE
    BY <1>4, <2>1 DEF accept_handler
  <2>2. CASE get_service_token(t)
    <3>1. serving[t] \in Clients
      BY <1>3, <2>2 DEF get_service_token, Accepting
    <3> QED BY <1>4, <2>2, <3>1 DEF get_service_token
  <2>3. CASE TakeToken(t)
    BY <1>1, <2>3 DEF TakeToken
  <2>4. CASE TestConcurrency(t)
    <3>1. serving[t] \in Clients
      BY <1>3, <2>4 DEF TestConcurrency, Accepting
    <3> QED BY <1>4, <2>4, <3>1 DEF TestConcurrency
  <2>5. CASE NewConnection(t)
    BY <1>2, <2>5 DEF NewConnection, Decide, GoTo
  <2> QED BY <1>5, <2>1, <2>2, <2>3, <2>4, <2>5 DEF AcceptStep
<1>6. ASSUME NEW t \in IoThreads, ThreadStep(t) \/ FeedStep(t) PROVE FALSE
  BY <1>1, <1>6 DEF ThreadStep, callable_wrapper, io_service_run, RunReturns, FeedStep,
     FeedTest, FeedReset, FeedToken
<1>7. ASSUME NEW c \in Clients, ClientConnects(c) \/ ConnectionEnds(c) PROVE FALSE
  <2>1. client'[c] # "connected" /\ \A d \in Clients : d # c => client'[d] = client[d]
    BY <1>2, <1>7 DEF ClientConnects, ConnectionEnds
  <2> QED BY <2>1 DEF Connected
<1>8. ~SecondPasses /\ ~MainStep /\ ~module_runtime /\ \A c \in Confs : ~RuntimeLoad(c)
  BY <1>1 DEF SecondPasses, MainStep, start_threads, service, io_service_stop_graceful,
     graceful_stop_threads, Joined, module_runtime, RuntimeSpeed, RuntimeTimer, RuntimeLimit,
     RuntimeLoad
<1> QED BY <1>1, <1>5, <1>6, <1>7, <1>8 DEF Next

(* However many threads run the io_service, connections end and limits are *)
(* reloaded, the number of connections that accept_handler has tested is   *)
(* not exceeded by another thread before it makes its own.                 *)
THEOREM TestIsKept == Spec => TestStillHolds
<1>1. ASSUME NetInv, [Next]_vars, NEW t \in IoThreads,
             at[t] = "accept_new", at'[t] = "accept_new"
      PROVE  Connected' \subseteq Connected
  <2> SUFFICES ASSUME ~(Connected' \subseteq Connected) PROVE FALSE
    OBVIOUS
  <2>1. PICK u \in IoThreads : NewConnection(u) /\ at'[u] = "run"
    BY <1>1, OnlyNewConnection
  <2>2. Accepting(t) /\ Accepting(u)
    BY <1>1, <2>1 DEF NewConnection, Accepting
  <2> QED BY <1>1, <2>1, <2>2 DEF NetInv, OneAccept
<1>2. NetInv /\ [Next]_vars =>
          [\A t \in IoThreads :
              at[t] = "accept_new" /\ at'[t] = "accept_new" => Connected' \subseteq Connected]_vars
  BY <1>1
<1> QED BY <1>2, NetInvariant, PTL DEF Spec, TestStillHolds

(* As long as service_speed is not changed, a second grants at most what   *)
(* was left and what one feed brought, although get_service_token writes   *)
(* back a value that it has read before.                                   *)
THEOREM SpeedIsKept == Spec => []SpeedLimit
<1>1. NetInv => SpeedLimit
  BY DEF NetInv, NetType, NetConf, TokensWithin, Within, SpeedLimit
<1> QED BY <1>1, NetInvariant, PTL
=============================================================================
