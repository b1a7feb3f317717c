# heracles: TLA+ verification

This directory holds TLA+ models of heracles (`src/`), the service that collects
events from applications, adds them up by time slot, metric and tag, and answers
queries about them. The models are checked with TLC on small instances; every safety
invariant that a run checks, and the refinement of the RPC client, is also proved with
TLAPS for every value of the constants. Liveness is model-checked only.

`PROJECT.json` lists the components, the runs, the mutants (changes to a mapped
definition, each of which has to break the property it is listed for), the source
lines behind every definition, the findings, the hazards and the theorems.

Run one model:    `tlc -workers 2 -config MCEventHandler_pipeline.cfg MCEventHandler`
Check the proofs: `for m in *Proofs.tla; do tlapm $m; done`

## 1. Inventory

```
 application threads                                 server process
 report_event ─► current_slot_ ─► submit_queue_      NetServer ─► TcpConnAsync (strand, timer)
                                      │ run()                          │ handle_RPC
                                      ▼                                ▼
                              RpcClientImpl ──── TCP ────►  Dispatcher ─► Executor.rpc_queue_
                                                                       │ executor threads
                                                                       ▼
      StoreLevelDB / StoreSql ◄─ run(), helpers ◄─ EventHandler ◄─ EventRepos ◄─ MonitorTaskService
```

| component | state | operations | hard about it | what makes it correct |
|---|---|---|---|---|
| EventHandler | open slots `events_`, `process_queue_`, batches of the TinyTask, `conf_` | `add_event` (executor threads), `linger_check_run` (timer, 500 ms), `run` and `run_once_task` (own and helper threads), `update_runtime_conf` | age check outside `lock_`; boundary of slot and linger time; batches under load; configuration that changes under open slots | every accepted item is counted once; a slot is flushed once; a row is complete; nothing is left behind |
| statistics | vectors of one metric | `calc_event_info_each_metric`, `aggregate_by_tag` | ranks, truncation, narrow integers, duplicate ids | the columns are what their names say |
| stores | rows by month, the cached open databases | `insert_ev_stat`, `select_ev_stat`, `get_leveldb_handler` | window by comparing strings, turn of the month, order and limit | a select sees its window, groups add up, the limit keeps the first, a database is opened once |
| HeraclesClient | `current_slot_`, `msgid_`, `submit_queue_`, `conf_` | `report_event` (any thread), `run`, `module_runtime`, destructor | the slot changes hands between threads and with the second; failing submits; queue limit; ids at 32 bits | no event lost or doubled, right second, ids apart, last slot is sent |
| TcpConnAsync | stat, receive buffer and header, send buffer, one timer | read and write handlers, time-out, close | framing over arbitrary pieces; handlers, timer and executors in different threads; lifetime | requests arrive whole and in order; no deaf connection; a closed one is released |
| Dispatcher, RpcInstance, Executor, MonitorTaskService | `services_`, `rpc_queue_`, weak pointer to the connection | `handle_RPC`, `reply_rpc_message`, `reject`, `read_ops_impl`, `write_ops_impl` | the connection may be gone; error paths without a reply | every request is handled once and answered |
| NetServer | `service_token_`, its timer, connection count, io_service threads | `service`, `accept_handler`, `timed_feed_token_handler`, `module_runtime`, `io_service_stop_graceful` | aborted timer handlers, limits, start-up order | the limits hold, the server goes on accepting, it can be stopped |
| Executor, ThreadPool | `rpc_queue_`, `workers_`, status words, `conf_` | `executor_service_run`, `executor_threads_adjust`, `resize_threads`, `graceful_stop`, `module_runtime` | two writers of a status, a stop that gives up after ten seconds | enough threads, every request served, an end |
| EventRepos, ConfHelper, StoreFactory | table of handlers, default configuration, the stores, the loaded file | `find_create_event_handler`, `get_*`, `update_runtime_conf` | three mutexes, lookups without them, reload during creation | one handler for each identity, configuration up to date, nobody stuck |
| RPC client | `conn_`, call timer, `call_mutex_` | `call_RPC` | a timer that outlives its call, lost and late replies | a reply belongs to its call, at most one execution |
| ConnPool, SqlConn | busy and idle connections | `request_scoped_conn`, `free_conn`, trimming, `sqlconn_execute_update` | waiting, capacity, broken connections, retry | no connection lent twice, waiters are woken |
| Status, protobuf, logging, RedisConn | – | – | plumbing, I/O or unused | not modelled, see section 8 |

Interactions: the client talks to the server over TCP only; inside the server calls
go down the picture, `rpc_queue_`, `process_queue_` and the TinyTask queue are the
points where work changes threads, and `ConfHelper` calls `module_runtime` of every
part from yet another thread while all of this is running.

## 2. Modules

| module | models | extends |
|---|---|---|
| `EventItem` | `nice_step`, the items of a report, which of them the duplicate check keeps, C++ division | – |
| `EventHandler` | `Business/EventHandler.{h,cpp}`, `TinyTask`, `EQueue` as used there | `EventItem` |
| `EventStat` | `calc_event_info_each_metric` and `aggregate_by_tag` as operators | `EventItem` |
| `EventRepos` | `EventRepos`, `EventHandler::init`, `StoreFactory`, `ConfHelper::update_runtime_conf` | – |
| `EventStore` | `StoreLevelDB`, `StoreSql`, `Sort.h` | `EventItem` |
| `Query` | a select from the application to the store and back: `HeraclesClient::select_stat*`, `MonitorRpcClientHelper`, `MonitorTaskService::read_ops_impl` | `EventStore` (composition) |
| `HeraclesClient` | `report_event` and the submit thread of `Client/HeraclesClient.cpp` | `EventItem` |
| `RpcCall` | what a caller of `call_RPC` is promised (abstract) | – |
| `RpcClient` | `RpcClientImpl`, `TcpConnSync`; implements `RpcCall` | instance of `RpcCall` |
| `RpcServer` | `TcpConnAsync`, `Dispatcher`, `RpcInstance`, the loop of `Executor`, the replies of `MonitorTaskService` | – |
| `NetServer` | `NetServer`, `NetConf`, its `ThreadPool` | – |
| `Executor` | `Executor`, `ThreadPool`, the periodic `Timer` | – |
| `ConnPool` | `ConnPool`, `SqlConn` and the insert of `StoreSql` that uses them | – |
| `EventHandlerProofs`, `HeraclesClientProofs`, `RpcServerProofs`, `RpcClientProofs`, `NetServerProofs`, `ExecutorProofs`, `EventReposProofs` | theorems, see section 6 | the module without `Proofs`, `TLAPS` |
| `StoreProofs` | theorems about what becomes of the items of a slot: statistics, pool, store, query | `EventStat`, `ConnPool`, `Query`, `TLAPS` |
| `MC*` | instances for TLC; `MCStatRows` composes two components | the module without `MC`; `EventStat`, `ConnPool` |

How code became actions:

* A thread is a program counter (`add[e].pc`, `runPc`, `pc`, `doWrite`) and the local
  variables that live across a point where another thread can come in. A stretch of
  code under a mutex is one step, except where it calls something that other threads
  see (`linger_check_run` pushes into `process_queue_` while it holds `lock_`). What
  is read outside a mutex and used later is a step of its own: the age check in
  `add_event`, `report_enabled_` in `report_event`, the queue limit in `run`, the
  length in `do_write`, the month in `get_leveldb_handler`.
* `event_handler_conf_`, `conf_` of the client and the step size are read where the
  code reads them; the update actions assign one field at a time because
  `update_runtime_conf` does so without a lock.
* `EventHandler.nice_step` is `(t / step + 1) * step`, `Expired` is
  `timestamp + linger < now`, `TooOld` is `now - timestamp > linger`: the two tests meet at
  the boundary, and whether they fit together is what `OpenAfterFlushed` is about.
* An insert fails or succeeds, a submit fails or succeeds, a read of the repository
  fails or succeeds: nondeterministic choices, each with the code's reaction.
* In `RpcServer` a byte is a unit `<<request, place>>`; an asynchronous read completes
  with any number of units between what it asked for and the block size; the client may
  go away after any unit. The life of the connection object is not a variable: `Alive(c)`
  says who holds a `shared_ptr` to it. `ops_cancel` followed by
  `sock_shutdown_and_close` is one step, as nobody treats `kError` and `kClosed`
  differently. The release of an aborted wait of the timer is immediate.
* In `EventStore` keys are tuples, and the order of the key strings, which count
  backwards from 9999999999, is `KeyBefore` on the exchanged time stamp, with the case of
  a bound that has one digit more. A month has `MonthLen` seconds.
* `do_sort` is `std::sort` with the comparators of `Sort.h` as they are (`Before`). Those of the
  descending orders are the negation of the ascending ones and true of equal elements,
  so the call is only defined when no two elements tie (`Sortable`), or when there are so few
  that libstdc++ orders them by insertion, which does not mind (`SortThreshold`, 16 there).
  Otherwise any record, or memory beside the vector (`Wild`), may end up anywhere.
* What a select is asked for (`Asked`) is taken from the rows of all databases and tables,
  not only of the one it reads.
* `Collect` gives the summary of a set of rows with empty group fields, as
  `select_ev_stat_by_none` does; `Details` has one record for each member of `Ascending`, the
  keys of the `std::map` in their order.
* `EventStat.nth_element` is the contract of `std::nth_element`, not its algorithm;
  `Narrow` is the conversion to `int32_t` with `IntBits` bits.
* In `NetServer` a handler of the token timer carries only that it is due, expired or
  cancelled alike, since `timed_feed_token_handler` does not look at its error code; it
  works on the timer that `timed_feed_token_` points to when it runs. Setting that
  pointer destroys the old timer and makes its handler due.
* In `Executor` the table of threads is ordered by address, as `std::map` of pointers is:
  a new thread gets any free address and `reduce_task` takes the lowest. `try_join_for`
  may return before or after the thread has ended. A setting that is missing in the file
  leaves an uninitialised value (`Garbage`), as `RpcServiceBase` reads it.
* In `EventRepos` each of the three mutexes is a variable with its holder. Identities are
  numbered in the order of their strings. A setting is the set of its values, none or
  one, and `Named` the set of the sections that a loop over the list stops at. `lookupValue`
  leaves `value_i` as it was when the setting is missing; what it holds at first is any
  member of `Garbage`.
* In `RpcClient` a reply comes in two pieces, header and body; a request that was sent
  may be executed at any later time, also after the connection has been closed. Nothing
  in a reply tells which request it answers, which is why `NoCrossTalk` is needed for
  `PromiseKept`. A callback of the timer that finds `conn_` reset follows a null pointer: the
  program ends there (`callback = "crashed"`), in the model as in the code.
* In `ConnPool` a statement may fail before or after the server has carried it out; the
  caller cannot tell. `UseThrows` is the exception of `USE` outside the `try` block.
* History variables (`received`, `accepted`, `flushed`, `failed`, `dups`, `lost`, `shrunk`,
  `ignored`, `dispatched`, `replied`, `unreplied`, `granted`, `lowest`, `made`, `born`,
  `executed`, `rows` of `ConnPool`) record what happened for the
  properties; no guard of a modelled operation reads them, but for `received`, which
  makes each report arrive once, and `dispatched`, whose last element is the message in
  hand.

## 3. Runs

| run | checks | shows |
|---|---|---|
| `pipeline` | `TypeOK EveryItemOnce OpenAfterFlushed QueueInOrder RowsComplete` | with a fixed configuration items are counted once, slots are flushed once and in order, and a row counts all its slot was given; with `EveryItemOnce` the last also gives one row for each key |
| `drain` | `AcceptedIsSettled` | `event_step`, `event_linger` and the batch size change under open slots, a report comes from the future and one for another service: every accepted item reaches a row or is given up knowingly |
| `rows` | `CountsTheKept QuantilesInOrder LentOnce StoredIsThere RequestsEnd` | the statistics of a metric against definitions that do not follow the loops, then its rows: three threads, two connections that break, are trimmed and cannot always be made |
| `client` | `EveryEventOnce ReportSize SentInOrder IdsDistinctInSlot ReportedIsSubmitted` | two application threads, the submit thread, failing submits, a full queue, ids at the limit, a configuration that changes, shutdown |
| `query` | `WindowIsExact GroupsAddUp OpenOnce SelectEndToEnd` | a select about a window within the month, from the application through the service to either store and back, around the end of a month, with lost calls, as far as `std::sort` is defined |
| `rpc` | `FramedInOrder WorkingReads EveryRequestOnce ClosedIsReleased Answered` | from the byte stream to the reply with two executors, time-outs and a vanishing client |
| `executor` | `KeepsItsThreads RequestsServed StopEnds` | a pool that is resized by load and by configuration, with stops that give up |
| `net` | `SpeedLimit TestStillHolds ClientsAnswered TokensRefilled StopEnds` | accepting under both limits while the configuration is reloaded, the speed switched off and on again, and the server is stopped |
| `net_limit` | violation of `ConcurrencyIsMaximum` | one connection more than `service_concurrency` is let in |
| `net_speed` | violation of `ChangedSpeedLimit` | a changed `service_speed` is not kept |
| `call` | `NoCrossTalk PromiseKept TimedCallReturns` | `call_RPC` implements `RpcCall`, with a timer that is left over from an earlier call |
| `repos` | `OneHandler WalkUndisturbed ConfCurrent OnlyTheClinch` | handlers and stores are made on demand while the file is loaded again; the only way to get stuck is the one deadlock described in section 5 |

`TypeOK` of the modules other than `EventHandler` (`QueryTypeOK` in `Query`) holds in the
same configurations; it is not among the listed properties. The inductive invariants of
section 6 were checked as invariants of these runs too, before they were proved.

Bounds, and why they are enough:

* `pipeline`: slots of two seconds and a linger time of one make every relation of
  report, slot boundary, check and linger occur; ten seconds of clock and five reports
  (one slot in two parts, two tags, two metrics, one duplicate id) are what it takes to
  have three slots waiting, which is the first length at which a batch of one goes to
  the helpers. `MaxDelay = 1` is the assumption discussed below.
* `drain`: small enough for liveness; step 2 to 3, linger 1 to 2, batch size 1 to 2; two
  reports that fall into one slot or into two, depending on the step. `MaxTime` is the
  first second at which the latest slot under the longest linger time is due.
* `rows`: `MCStatRows` composes `EventStat` and `ConnPool`. `IntBits = 4`; all vectors of up to
  three items and vectors of nine and more values, among them the first length at which
  10, 50 and 90 % differ from their neighbours and at which a product such as 10 * 0.1 is
  whole. The pool does not look at the statistics, so it goes on after one of the inputs
  only: three threads for two connections, four connections in all.
* `query`: `Top = 9` stands for 9999999999, so that a bound with one digit more occurs; a
  month of five seconds ends in the middle of the run; the rows tie in a count, share a
  key, and one has the empty tag; eight conditions cover grouping, order, limit and the
  refusals on either side. Three calls, one of them lost. `SortThreshold = 2` for
  the 16 of libstdc++, so that two groups that tie are ordered by insertion.
* `client`: reports of two events, lowered to one, a queue limit of one, lifted to none,
  three events, four seconds; `MaxMsgid` is reached.
* `rpc`: header of two units, blocks of three, bodies of 0, 1 and 4: a header in two
  pieces, a message with the start of the next in one block, a body over several blocks.
  Two pipelined requests on one connection reach every action; three requests with four
  kinds, and two connections with one request each, were also checked for the safety
  properties and are left out for their size. Connections share only the queue and
  the executors.
* `executor`: three addresses, two requests, two updates out of four sections (a larger
  pool, a missing size, no adjustment, a refused one); `MaxTry = 2` for the 50 of `reduce_task`
  (`ThreadPool.cpp:240`).
* `net`: two io_service threads, three clients of which one comes from another address,
  limits of one and two, two reloads, so that the speed goes off and on again; a refused
  reload changes nothing and is not counted. `net_speed`: two reloads, off and on.
  `net_limit`: the constants of `net`.
* `call`: two threads, three calls: a call that times out, one that meets its late timer
  or reply, and one after that.
* `repos`: two threads with two requests each, two services, one reload of a file that
  changes one section, adds one under `service_name` only and has a refused default.

`CHECK_DEADLOCK FALSE` is set where the system may come to rest: the statistics
(one step), a client, a pool or a server when no further event, call or request comes
within the bounds or after it was stopped, and `repos` because of the deadlock that
`OnlyTheClinch` names.

## 4. Assumptions on time and fairness

`MaxDelay` is the longest time an executor spends between the age check in `add_event` and
the end of `do_add_event`. With one second `OpenAfterFlushed` holds: a report that passes at
second `n` has a slot later than `n - linger`, so at `n + 1` it is not yet expired. With two
seconds it fails (set `MaxDelay = 2` in `MCEventHandler_pipeline.cfg`). The code has nothing
that enforces the bound; the properties that need it say so.

Fairness:

* weak fairness for every loop of a thread that the code never leaves, for the clock,
  for a started reload, and for outstanding operations of `io_service` once they can
  complete;
* strong fairness for taking `lock_` in `EventHandler`: it is free again and again but not
  continuously, since the timer callback returns every 500 ms; the lock is held for
  short loops only, so that a waiting thread is not overtaken for ever;
* strong fairness in `NetServer` for the handlers of the token timer and of accept: they
  wait in the one queue of the `io_service`, which is served in order, but only while some
  thread is between two handlers;
* in `ConnPool` a woken thread competes with the others for the mutex; `RequestsEnd` is
  stated for a bounded number of inserts;
* none for application threads, clients, servers of a call, configuration updates,
  failures or shutdown. `TimedCallReturns` needs no server: the timer alone has to end the
  call.

## 5. Findings and observations

Two runs expect a violation; the findings in `PROJECT.json` quote what says otherwise:

* `net_speed`: after `service_speed` has been switched off and on, two handlers of the token
  timer abort and start each other without waiting for a second, and the limit is not
  kept;
* `net_limit`: `accept_handler` compares `service_concurrency`, "the limit on the maximum number
  of concurrent connections", with the number without the new one (`NetServer.cpp:234`) and
  lets in one more.

What else came up while modelling, without a run of its own. The models contain these
behaviours, and the properties are stated so that they hold in spite of them:

* reload and creation deadlock (`repos`): `update_runtime_conf` holds `ConfHelper::lock_` and
  waits for `EventRepos::lock_`, `find_create_event_handler` holds the latter and waits in
  `get_conf` for the former, directly or behind `init_lock_`. `OnlyTheClinch` says that this
  is the only way to get stuck;
* `update_runtime_conf` runs in the handler of SIGHUP (`setup.cpp:32`) and takes mutexes
  there; in the model it runs in the main thread, which holds none of them;
* a report held up for two seconds in `add_event` opens a flushed slot again, although
  `heracles_example.conf:66` says that late reports are dropped; a raised `event_linger` does
  the same;
* lowering `size_per_report` under a fuller slot makes
  `assert(current_slot_.size() <= conf_.size_per_report_)` fail (`HeraclesClient.cpp:437`). The
  default build type, RelWithDebInfo (`CMakeLists.txt:22`), compiles it out and sends the
  fuller report; a build with `BUILD_DEBUG` ends there. The model has both outcomes;
* with `report_enabled` switched off the empty event is disabled too, and what is in
  `current_slot_` stays there (`ReportedIsSubmitted` excepts it);
* a queue limit lifted to 0 between test and use drops the whole submit queue;
* message ids that start again after a restart of the client are dropped as duplicates;
* `tm_interval` 0 is documented as "no limit" (`EventTypes.h:78`). LevelDB reads the database of
  this month only, and SQL asks for rows that are later than the start and not later
  (`StoreSql.cpp:190`), which none is;
* the comparators of the descending orders, the default, are no strict weak ordering
  (`Sort.h:152-190`), so `std::sort` is undefined on ties; libstdc++ orders up to 16 elements
  by insertion, beyond that its partition loop may leave the vector;
* `StoreSql::select_ev_stat` tests the limit the wrong way round (`StoreSql.cpp:326`, against
  `EventTypes.h:90-93`): it neither sorts nor cuts when a limit is given, nor does the client
  then; and it cuts everything off when an order is asked for without limit.
  `SelectEndToEnd` excepts these three;
* a window that begins in an earlier month than the database or table that is read is cut
  short at the month's end, with an interval too; `WindowIsExact` and `SelectEndToEnd` are
  about windows within the month;
* read and write of a connection share one timer and `write_handler` revokes it
  (`TcpConnAsync.cpp:339`): after the first reply an idle client has no time-out;
* a failing query is not answered (`MonitorTaskService.cpp:268`); the caller, which has no
  time-out in this program, holds the one connection of the library, and with it the
  reports;
* a token handler that has found a speed uses `timed_feed_token_` without looking
  (`NetServer.cpp:122`); when `module_runtime`, or the handler of another wait, has dropped the
  timer since, it follows a null pointer. `TokensRefilled` and `StopEnds` except this crash;
* with `service_speed = 0` at the start the `io_service` may run out of work between
  `start_threads` and `do_accept`, and is then never reset;
* a thread of a pool that ends while `graceful_stop` writes its status back stays in
  `workers_` as a running one: the pool may stay smaller than configured.
  `KeepsItsThreads` says that it never gets below the smallest size it was given;
* the timer of a call is not cancelled: it closes the connection under a later call, which
  then fails, and `was_timeout_` may be left over; a callback that comes after `conn_.reset()`
  dereferences a null pointer. `TimedCallReturns` excepts that;
* `MonitorTaskService::handle_rpc_service_conf` is a `bool` function and returns -1, that is
  true, when the section of the service is refused (`MonitorTaskService.cpp:95`): `init`
  reports success with the zeros of a fresh `DetailExecutorConf`, and outside BUILD_DEBUG
  (the `SAFE_ASSERT` of `Executor.cpp:25`) the executor starts without threads and serves
  nothing. `Executor.tla` assumes a section that is accepted at the start (`InitConf.number`
  is at least 1). `handle_rpc_service_runtime_conf` has the same -1 (`:147`), which
  `module_runtime` turns into 1;
* `value_i` is carried over from one setting to the next when one is missing: the example
  file has no `additional_process_step_size`, so `event_step` is taken for it;
* a new handler looks for its section under `instance_name`, the reload under
  `service_name`; `find_event_handler` compares prefixes, so that `srv` finds `srv2`; two
  pairs of service and entity may give the same identity when a name has a `#`;
* `safe_ip` is split at `;` while `heracles_example.conf:20` says comma; `service_enable` is
  not taken over by a reload;
* `ConnPool::expire` compares the time of day with the linger time, so that trimming takes
  all idle connections; the store passes 0 and never trims, the run uses 1;
* an INSERT whose answer was lost is made again, and the row is stored twice
  (`StoreSql.cpp:161`); `SqlConn::init` lets the exception of `USE` out while the pool's mutex
  is held, which ends the process;
* values of 2^31 and more wrap in the statistics.

## 6. What is proved

Eight modules hold the theorems: seven about the module they are named after, `StoreProofs`
about `EventStat`, `ConnPool`, `EventStore` and `Query`. They hold for every value of the
constants that the assumptions of these modules allow: any number of threads,
connections, reports, rows, events and requests, any sizes, any sequence of reloads. TLC
evaluates these assumptions in the runs. Each theorem rests on an inductive
invariant; it has one lemma for the initial states and one for a step, with a case for
each action.

| theorem | states | inductive invariant |
|---|---|---|
| `EventHandlerProofs!TypeCorrect` | `Spec => []TypeOK` | `TypeInv` |
| `EventHandlerProofs!SlotsFlushedOnce` | `[]OpenAfterFlushed`, if `LingerUpdates = {}` and `MaxDelay <= 1` | `FlushInv` |
| `EventHandlerProofs!QueueOrdered` | `[]QueueInOrder`, same hypotheses | `FlushInv` |
| `EventHandlerProofs!ItemsCountedOnce` | `Spec => []EveryItemOnce` | `ItemInv` |
| `EventHandlerProofs!RowsAreComplete` | `[]RowsComplete`, if also `StepUpdates = {}` and `InitConf.step < 256` | `RowInv` with the three above |
| `HeraclesClientProofs!ReportsFit` | `Spec => []ReportSize` | `BaseInv` |
| `HeraclesClientProofs!ReportsInOrder` | `Spec => []SentInOrder` | `OrderInv` with `BaseInv` |
| `HeraclesClientProofs!EventsAreNotLost` | `Spec => []EveryEventOnce` | `OnceInv` with `BaseInv` |
| `HeraclesClientProofs!IdsAreDistinct` | `Spec /\ []EnoughIds => []IdsDistinctInSlot` | `IdsInv` with `OrderInv` and `BaseInv` |
| `RpcServerProofs!AlwaysReads` | `Spec => []WorkingReads` | `WorkInv` |
| `RpcServerProofs!MessagesAreFramed` | `Spec => []FramedInOrder` | `FrameInv` |
| `RpcServerProofs!RequestsAreNotLost` | `Spec => []EveryRequestOnce` | `PlaceInv` with `FrameInv` |
| `RpcClientProofs!ConnectionIsClean` | `Spec => []NoCrossTalk` | `ClientInv` |
| `RpcClientProofs!CallKeepsPromise` | `Spec => PromiseKept` | `ClientInv` |
| `NetServerProofs!TestIsKept` | `Spec => TestStillHolds` | `NetInv` |
| `NetServerProofs!SpeedIsKept` | `Spec => []SpeedLimit` | `NetInv` |
| `ExecutorProofs!PoolKeepsItsThreads` | `Spec => []KeepsItsThreads` | `PoolInv` |
| `EventReposProofs!OneHandlerEach` | `Spec => []OneHandler` | `ReposInv` |
| `EventReposProofs!WalkIsUndisturbed` | `Spec => []WalkUndisturbed` | `ReposInv` |
| `EventReposProofs!ConfIsCurrent` | `Spec => []ConfCurrent`, if `FilesWellKept` | `ConfInv` with `ReposInv` |
| `StoreProofs!StatCountsTheKept` | `StatSpec => []CountsTheKept` | `StatInv` |
| `StoreProofs!StatQuantilesInOrder` | `StatSpec => []QuantilesInOrder` | `StatInv` |
| `StoreProofs!LentToOne` | `PoolSpec => []LentOnce` | `PoolInv` |
| `StoreProofs!StoredMeansStored` | `PoolSpec => []StoredIsThere` | `PoolInv` |
| `StoreProofs!DatabasesOpenedOnce` | `Spec => []OpenOnce` | `StoreInv` |
| `StoreProofs!SelectsReadTheirWindow` | `Spec => []WindowIsExact` | `StoreInv` |
| `StoreProofs!DetailsAgreeWithSummary` | `Spec => []GroupsAddUp` | `StoreInv` |
| `StoreProofs!QueryUsesStore` | `QuerySpec => Spec` | `QueryBase` |
| `StoreProofs!SelectsAreRightEndToEnd` | `QuerySpec => []SelectEndToEnd`, if `NoneReachesBack` | `QueryInv` |

### EventHandler

`TypeOK` alone is not inductive: an executor that is past the checks must have a report in
hand, or its time stamp has no type, and a worker with rows to insert must have a slot to
take them from. `TypeInv` adds both (`InHand`).

`FlushInv` is for the slots:

* `CheckedInTime`: the report in an executor's hand passed the age check at the
  recorded time, which is at most `MaxDelay` ago, and once it is under `lock_` the
  executor's slot key is later than the time stamp;
* `FlushedWereDue`: a slot that was pushed had expired, and the time the check works
  with is not in the future;
* `QueueWasFlushed`: what waits in `process_queue_` was pushed before, so that it lies
  below every open slot;
* `OpenAfterFlushed` and `QueueInOrder` themselves.

The argument: a slot opened by an executor lies after its report's time stamp
(`NiceStepLater`), the report was at most `linger` old at most one second ago, hence the
new slot is at least `now - linger`, while every pushed slot is below `checkNow - linger`.
`linger_check_run` takes the earliest slot, so what it pushes is above all that was pushed
before and below all that stays open; that keeps the queue sorted.

`ItemInv` is for the items, and needs neither a bound on the delay nor a fixed
configuration. An item may be in an open slot, in `process_queue_`, in a batch of the
TinyTask, in the slots a worker has not begun, in the rows it has yet to insert, in a
row, in a failed row or among the duplicates. `EveryItemOnce` counts with `Cardinality`;
`PlacesAddUp` says the same with sizes none, one and more (`Size`), which add up to one for
an item of an accepted report and to nothing otherwise. It is kept because a step moves a
set of items from one place to another, and with at most one element in all, what one
place loses the other gains (`Moved`). Around it: `SlotsClean` (no item twice in a slot),
`AcceptOnce` (a report is in one hand, and accepted after that) and `RunnerHasOne` (`run()`
has one slot at a time). `ItemsAssumption`, which says that an item belongs to one place of
one report, is what makes the question meaningful: equal events are two items.

`RowInv` is for the rows. A slot holds every item accepted for its time (`Complete`), and a
slot that was pushed is closed for good (`OpenAfterFlushed`), so nothing can be
accepted for it any more; the duplicates of a slot are set aside before its first
row (`DupsFirst`); an accepted report is filed under its slot (`Filed`). So a row, which
takes what the slot has for its key, is complete when it is written and stays so. The
hypotheses are needed. A change of `event_step` gives one second two slots, and a step of
256 or more does not fit the `uint8_t` of the row.

### HeraclesClient

Sent, in hand, in the queue: the reports are one line (`Line`). `run()` takes nothing from it
or a piece out of it: a failed report, or the front that `SHRINK_FRONT` drops (`Drops`).
`report_event` appends the slot at its end. What holds for all reports, for their order
and for the places of events is shown once for `Drops` and once for appending.

* `BaseInv`: types, a report is in hand exactly in `do_report` (`HandInv`), and slot and
  reports are within a configured size (`SizeInv`).
* `OrderInv`: the events of a report and of the slot have its time stamp, the line is
  sorted, no report is later than the slot and the slot not later than the clock.
* `OnceInv`: an event is in one of the places of `EveryEventOnce`, there once (`Distinct`,
  `SlotDistinct`, `CallsDistinct`).

* `IdsInv`: two entries of one slot of the server have different ids. The id of an entry
  differs from the counter by at most two for each call of `report_event` since
  (`Near`), before or after the counter has started again. How many calls there were
  can be told from the state (`CallsSince`): the events reported since, the calls of
  application threads that began before the entry was recorded and ended after it,
  and one empty event of `run()` for each second that has passed.

`IdsAreDistinct` has a hypothesis about the whole behaviour, `EnoughIds`: with an event in the
slot of the server that is still open, fewer than `MaxMsgid / 2` calls follow within this
slot. Without it the statement is false for any finite counter: a client that uses all
ids in one slot of the server uses the first one twice. With the 2^31 of the code and a slot of 255
seconds it takes more than four million events in every second to violate it. It counts
more generously than the code needs: `MaxMsgid` of the `client` run is too small for it, and
`IdsDistinctInSlot` holds there all the same, the wrap included.

The first attempt at `SizeInv` failed at a reload and at the destructor after the
assertion in `report_event` had failed: the model let the process go on then.
`UpdateConf` and `Terminate` now have the guard `~aborted`.

### RpcServer

* `WorkInv`: besides `WorkingReads`, a connection that was cancelled is closed.
* `FrameInv`: what a connection has yet to dispatch (`Rest`: the header in hand, the receive
  buffer, what is on the network) is a `Chain`: from a unit on the units of its message
  follow, then the first one of the next message; it starts where the dispatched messages
  end. As long as the client is there it goes on to the end of what was sent (`Whole`). The
  lemmas on `Chain` say that a prefix, the rest after a message and the stream with one more
  request are chains again; the handlers only move units between the parts of `Rest`, which
  changes nothing, or take a message off.
* `PlaceInv`: a dispatched request is in one of the places (`OnePlace`), once in the queue and
  with one executor only (`Alone`), and what is in the queue or with an executor was
  dispatched. It needs `FrameInv` where a message is dispatched, to know what was
  cut off the buffer.

### RpcClient

`ClientInv`: one caller has `call_mutex_` and makes the one pending call (`OneCall`); a
connection bears the number of the call that made it (`FreshConn`); a request is under way
once at most and not executed then (`SentOnce`, `ExecutedOnce`); and what is under way on
`conn_` belongs to the pending call, its request or what is left of its reply, never both
(`Conversation`). The last is `NoCrossTalk` in a form that is inductive: it says for each
point of `call_RPC` how much of the reply there can be.

`CallKeepsPromise` is the refinement. `Init` implies `RpcCall!Init`, and each step is a step of
`RpcCall` or leaves its variables alone (`StepIsPromised`): beginning a call, executing a
request, returning a reply or an error. With the invariant a reply that is read carries
the number of the call and its request has been executed.

### NetServer

`NetInv`: one accept at a time (`OneAccept`), so that between the test of the limit and
the new connection no other is made (`TestStillHolds`, since only `NewConnection` makes one);
as long as the speed is not changed there is one handler of the token timer, waiting, ready or running (`OneFeed`); and
`TokensWithin` bounds granted and remaining tokens, for `service_token_` and equally for
the value a thread has read and is about to write back. Before this second's feed they
are together at most one speed, after it at most two. `net_speed` (section 5) shows
that `OneFeed` is what a changed speed breaks.

### Executor

A thread that ends while `graceful_stop` writes its status back is lost and stays in
`workers_`, so that `Cardinality(Serving) >= lowest` cannot be inductive. `EnoughBehind` is what
keeps it: behind every thread that is lost, or is being stopped, there are at least
`lowest` threads that serve. `reduce_task` takes the first of the table, so it never gets past
a lost thread, which it fails to remove each time, and never to those behind it.
`FirstIsVictim` and `GoalInRange` say that the thread being stopped is the first, that no
other has been told to end, and that there are more threads than the goal. An
implementation that took another thread than the first would lose the property.

### EventRepos

`ReposInv`: `LocksHeld` says for each of the three mutexes at which points of the code it is
held. `FirstOnly`: while a thread makes a handler, which it does under
`EventRepos::lock_`, the table has none for this identity, so that the second look in
`find_create_event_handler` is still true when the handler is inserted. `StoreNotYet` is the
same for `init_lock_`, `InUse` for the requests that found a handler without the lock.
`WalkBlocks`: while the reload walks the table it has `ConfHelper::lock_`, and a thread that
makes a handler is still before its `get_conf`, where it waits for that lock. The walk is
undisturbed for the same reason for which the deadlock of section 5 is possible.

`ConfInv` is for what the handlers work with, and has three parts, since a handler passes
from one to the next. `ReadersCurrent`: a thread that has read its section and not yet inserted
its handler has the values of the file, or a reload has begun that cannot walk before it
is done. `WalkedCurrent`: the handlers the walk has passed have the values of the new
file. `HandlersCurrent`: all have them when no reload is going on. The hypothesis
`FilesWellKept` says of the files that a name stands for one section, and that the section
of a service asks for a linger time of more than 0 if it asks for one: the code takes the
first of two sections and ignores a value of 0, and `ConfCurrent` would then ask for what
nobody promises. The file of the `repos` run satisfies it (`MCFilesWellKept`).

### StoreProofs: induction over rows, items and values

What is to be shown of statistics and selects is about loops over any number of rows. The
induction theorems of the library take an operator as parameter, which the provers cannot
instantiate. `NatInductionSet` and `SetInduction` say the same of a set: a set of numbers
(of subsets of a finite set) that has the first one, and with each of its members the
next, has all. The numbers for which a claim holds are such a set, so no operator is
needed; both follow from `NatLessThanWellFounded`. They give:

* `MapThenSumSet` (`FoldExists`, `SumExists`, `SumUnique`): the community module defines it by
  a recursion over a `CHOOSE` of the next element. That the recursion has a solution, and
  that any function on the subsets that adds one element after the other is the sum;
* `TotalByGroup` and `TotalRenamed`: the sum over a set is the sum over its groups, and does
  not depend on what stands for the elements;
* `AscendingFacts`: every finite set of numbers can be listed in ascending order;
* `AggregateFold`, `DedupFold`: the loops of the code, folds over a sequence, as a sequence
  of intermediate results.

### EventStat

`StatInv` says only that `info` is what `calc_event_info_each_metric` computes, so the work
is in the operators. The loop over the items copies an item when its id is still in
the set of ids, and takes it out; after `p` of them the copy has those that were the first
with their id, each once (`CopyOnce`, `CopiesOf`). The loop over the copy files an item
under its tag (`IsAggregation`), so that the vector of a tag has each of its items once
(`Fills`) and the sum is the sum of their values: `CountsTheKept`. The sum is over the
values themselves, but the vector holds narrow ones; `QuantilesInOrder` therefore asks
that the values fit.

`nth_element` is a contract, so it has to be shown that something satisfies it: every vector
has a value with at most `n` below and more than `n` not above it (`NthExists`).
`QuantileRanks` then relates rank and fraction, with the rank cut off to a number; the
average needs that a sum lies between `n` times the least and `n` times the largest
value, and that truncation towards zero leaves it between them (`SumBetween`,
`QuotientBetween`), for negative values too. `InputsAssumption` says that the values are
integers and the items of one metric; `IntBitsAssumption` states that `2 ^ IntBits` is a
positive number, since the provers do not know what `^` is.

### ConnPool

`PoolInv`: a thread has a connection exactly while it works on its row
(`HoldsWhileAtWork`); the mutex is held by the thread that connects, and the room it found
is still there (`RoomIsKept`); connections are numbered as they are made (`KnownConns`), so a
new one is neither idle nor lent; a row was written only by the attempts made
(`RowsSoFar`).

### EventStore

`StoreInv`: a thread that is about to open a database has the current month, and one that
uses a cached set is not ahead of it (`CacheInStep`); the cache is not ahead of the clock
(`CacheNotAhead`); a thread that is not idle has a row or a condition (`AtWork`). So a thread
that opens finds a cache of an earlier month, and the databases it opens are not open.
That the clock does not pass the end of a month under a thread on its way into
`get_leveldb_handler` is the guard of `Tick` and is needed (section 8).

`WindowIsExact` is about the rows of all databases, so it needs to know where rows are. In
SQL a row is in the table of its month; in LevelDB it is in the database of the month in
which it was inserted, which is its own or a later one, and never one that has not begun
(`RowsInPlace`; `ThreadsInPlace` for the row that a thread is about to insert and for the month
that a select reads). So with a window that begins in the month that is read, and for
LevelDB ends there because the clock does, no row of it is elsewhere (`AskedInMonth`). What
is left compares keys: the time of a row and the bounds of the loop are subtracted from
`Top`, and for an interval that does not reach back before time 0 the shorter number is
also the earlier string. `GroupsAddUp` needs nothing of the past but types. It is the sum over groups, and that an ordering of the groups contains each
of them once.

### Query

Each step of `Query` is a step of `EventStore` or leaves its variables alone
(`QueryUsesStore`), so that the theorems about the store hold for it. `QueryInv` adds who
works for whom (`ServerInv`: a thread of the server that selects has the condition of the
application thread that waits for it, and no other thread does) and what has been
answered: `AnswerOk` says that an answer on its way is one the store may give to the
condition it belongs to, with the rows of its interval. `SelectEndToEnd` follows by the four
combinations of store and order: cutting an ordered sequence keeps the first ones, sorting
in the client keeps all. It is about windows within the month, answers of `std::sort` where it
is defined (`Orderable`) and, in SQL, conditions without order but with an interval (section 5
says what happens otherwise). `NoneReachesBack` is its hypothesis: the seconds since 1970 are more
than any interval that is asked for, and a select that names its start asks for no more
than that. `MCQuery` satisfies it.

## 7. What is only model-checked

* Liveness: `AcceptedIsSettled`, `ReportedIsSubmitted`, `ClosedIsReleased`, `Answered`,
  `RequestsServed`, `StopEnds`, `ClientsAnswered`, `TokensRefilled`, `TimedCallReturns`,
  `OnlyTheClinch`, `RequestsEnd`. They rest on fairness, and TLAPS has no rules for `ENABLED`
  and so none for `WF_` and `SF_`. `PromiseKept` has no fairness and is proved in full.
* `ChangedSpeedLimit` and `ConcurrencyIsMaximum` are violated (section 5).
* That the three hypotheses `EnoughIds`, `FilesWellKept` and `NoneReachesBack` hold: the first
  is about how much an application reports, the others about a configuration file and
  the clock. Nothing in the code enforces them.

No safety invariant that a run checks is left without a theorem.

## 8. What is not modelled, and limits of the models

* `RedisConn` (no store uses it), protobuf, `Status`, logging, the examples: wrappers of
  libraries or code without state that another part depends on. Of `Captain` only the
  stop, of `Timer` only its periodic callbacks.
* The composition of the components is by interface, not one large module: what
  `HeraclesClient` calls a submit that fails or succeeds is `RpcClient`; what `RpcClient` calls
  the server is `RpcServer`; `RpcServer`'s executors are `Executor`'s threads; the connection
  count of `NetServer` falls when a connection of `RpcServer` is released; `Query` composes the
  library, the service and the store.
* The send buffer of a connection is a length. `do_write` is two steps, so that two
  threads may be in it at once, but what the bytes on the wire then look like is not
  in the model.
* Data races on containers (`levelDBs_`, `handlers_`, the vectors of `Buffer`): the models
  take each operation on such an object as atomic.
* The text of keys and SQL: a `#` in a name, the width of printed numbers, escaping.
* Sorting: the order of elements that compare equal is left open where the code leaves
  it open, and where `std::sort` is undefined the result is any sequence of the records and
  one foreign record; that it may also end the process is the behaviour that stops. `EventStore` adds without bound where the code adds quantiles in `int32_t`.
* A thread held up in `get_leveldb_handler` across the end of a month
  (`StoreLevelDB.cpp:73`): the clock of `query` waits for it.
* Signals delivered to a thread that holds a lock, and two reloads at a time.
* `IntBits`, `MonthLen`, `Top`, `MaxMsgid`, `IoBlock` and `HeaderSize` stand for the
  constants of the code.

## 9. Plan

1. An abstract `EventLog` (reported, counted, given up) that `HeraclesClient` and
   `EventHandler` implement by refinement mappings, with `OnceInv` and `ItemInv` as the
   invariants of the two simulations.
2. The bytes of `send_bound_` under two writers, and a thread held up at the end of a month in
   `get_leveldb_handler`, each as a module of its own.
