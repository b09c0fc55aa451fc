# FMOFP in TLA+

FMOFP (`src/B20SS/FMOFP`) is a Python simulation of an aircraft's operational flight program: radar, flight
controls, engines and mission systems that talk to displays over a simulated MIL-STD-1553B bus, keep their data in
SQLite files, and run in one process on some dozens of threads. This directory specifies the parts of it where
threads meet: who may hold what, which message ends where, and what must happen in the end.

Paths below are relative to `src/B20SS/FMOFP` unless they start with `src/`.

## The system

| Component | State it keeps | Operations | Talks to |
|---|---|---|---|
| Connection pool, `storage/DBM.py` `ConnectionPool` | queue of idle handles, `connection_count`, `transaction_states` | `get_connection`, `return_connection`, `initialize`, `close_all` | every thread that queries |
| System database, `storage/DBM.py` `SystemDatabase` | `batch_queue`, query rate tracker, per-file write lock | `insert_into_table`, `add_to_batch`, `process_batch`, `execute_query`, `delete_*` | pool, shared executor |
| Asynchronous message handler, `local_messaging/routing/handlers/sync_handler/AsyncMessageHandler.py` | `_state`, `running`, workers, watchdog, buffer, priority queue, tracking, registered systems | `start`, `stop`, `add_message`, `register_system`, workers, watchdog, periodic tasks | system manager, the handlers of each system |
| Block transfers, `MIL_STD_1553B/…/RT_socket.py`, `BC_socket.py`, `BC_transfer_aggregator.py` | acknowledged requests, open connections, `data_received`, `pending_transfers` and their timeouts | `_send_large_message`, `handle_connection`, `register_message` | bus controller, response services |
| Block transfer manager, `MIL_STD_1553B/block_transfer_manager.py` | slots per request | `register_block`, `get_assembled_data`, `cleanup_stale_transfers` | bus controller |
| Bus sockets and adapter, `MIL_STD_1553B/bus_adapter.py`, `BC_socket.py`, `RT_socket.py` | listening socket, back-off, executors | `transmit`, accept loops, health | bus controller, remote terminal |
| Bus controller and remote terminal, `MIL_STD_1553B/Bus_Controller/BC.py`, `Remote_Terminal/RT.py` | queues of frames and messages, mode | `process_frame`, `route_message`, mode codes | routing, radar systems |
| Routing, `local_messaging/routing/*` | registry of routes, loop markers | resolve, dispatch, bridge radar to display | handlers, displays |
| System message handlers, response services | pending requests, stored responses | request, response, expiry | databases, displays |
| Loop prevention, `Utils/message_loop_prevention` | combinations of request and type seen, fingerprints of processed messages | `process_message`, expiry, pruning | routers, handlers |
| Operation tracker, `Utils/common/operation_tracker.py` | completed operations, claims in progress | `track_operation`, `is_operation_completed`, `mark_…`, `clear_…` | system manager, databases, schedule |
| Event bus, `core/event_driven_communication.py` | subscribers, event queue, processor thread | `subscribe`, `publish`, `start`, `stop` | all |
| Thread manager, health, retry, `Utils/common` | thread registry, failure counts, back-off | start, monitor, restart | system manager |
| System manager, state manager, `core`, `Utils/common/system_state_manager.py` | system states | boot, shut down, aggressive restart | all |
| Radar display coordinator, `Interfaces/userInterface/displays/radar` | data per display, time to live, backup | store, fetch, expire | displays |
| Scenario engine, mission planning, defensive service, engine and flight models | simulation state | timed events, target selection, cooldown | databases, bus |

The hard behaviours, and what makes each component correct:

* **Pool**: slots are reserved under the lock and filled outside it. Correct means: the counter accounts for every
  handle, the capacity holds, a handle is in one pair of hands, a waiting caller is answered.
* **Message handler**: callers, workers, watchdogs and restart threads share several non-reentrant locks, methods call each other with
  a lock held, and the state is read under a lock and used after its release. Correct means: a message is neither forgotten in the buffer nor
  lost on its way, only legal state transitions happen, former workers do not live on.
* **Batches**: a list shared without any lock by every inserting thread and the executor. Correct means: a full
  batch leaves, a row is written once, and to its table.
* **Block transfers**: one connection and one thread per chunk, so chunks are lost and overtake one another; retries
  share a request id; transfers break off. Correct means: chunks come out once, in order and complete, and what is
  broken off does not stay.
* **Database access**: systems that share a file have pools of their own, writers queue on a lock per file before they
  take a connection, two callers do not, and every statement may fail and be tried again. Correct means: waiting
  writers leave the pools alone, rows are stored at most once and nobody is told of rows that are not there, every call
  ends.
* **Retries**: two books under two locks decide what the watchdog queues again while workers still have it. Correct
  means: nothing finished comes back, no entry outlives its message, retrying ends.
* **Listener**: an accept loop, a thread per connection, a consumer and a stop on four kinds of threads. Correct
  means: what was accepted is processed, a stop ends it and leaves nobody receiving.
* **Event bus, loop prevention, operation tracker**: locked sections with gaps between them. Correct means: one
  processor, no event left behind and no subscriber passed over; loops end and not every copy is refused; an operation
  runs once and nobody takes a failure for a success.
* **The rest**: watch and restart of threads, slots filled out of order, time to live of displayed data.

`PROJECT.json` lists all components with their status and, under `hazards`, each of these at its line.

## Modules

| Module | Models | Properties |
|---|---|---|
| `HandleLoans` | what a pool promises: one handle per client, none lent twice, at most `MaxConn` lent | (abstract) |
| `ConnectionPool` | `ConnectionPool` of `DBM.py` | safety, liveness, implements `HandleLoans` |
| `ConnectionPool_proofs` | theorems about `ConnectionPool` | see *Proofs* |
| `AsyncHandler` | life cycle of `AsyncMessageHandler` | safety, transitions, liveness |
| `AsyncHandler_proofs` | theorems about `AsyncHandler` | see *Proofs* |
| `BatchQueue` | the insert batch of `SystemDatabase` | safety, liveness |
| `BatchQueue_proofs` | theorems about `BatchQueue` | see *Proofs* |
| `BlockTransfer` | a chunking sender, the bus, `BC_Listener` and the aggregator | safety, liveness |
| `StoredRows` | what a caller that stores rows is promised | (abstract) |
| `DatabaseAccess` | `SystemDatabase.get_connection`, `execute_query`, the transactions of `precipitation_data_handler.py` | safety, liveness, implements `StoredRows` |
| `DatabaseAccess_proofs` | theorems about `DatabaseAccess` | see *Proofs* |
| `MessageRetry` | `PriorityQueue`, message tracking and the watchdog's retries | safety, action property, liveness |
| `MessageRetry_proofs` | theorems about `MessageRetry` | see *Proofs* |
| `Listener` | `BC_Listener` with its connection threads, `start_listener` and `stop_listener` of `BC.py` | safety, liveness |
| `BusController_proofs` | theorems about `BlockTransfer` and `Listener` | see *Proofs* |
| `EventBus` | `EventBus` | safety, liveness |
| `LoopPrevention` | `process_message` with the tracking library and the registry | safety |
| `LoopPrevention_proofs` | theorems about `LoopPrevention` | see *Proofs* |
| `OperationTracker` | the operation tracker, completely | safety, liveness |
| `Services_proofs` | theorems about `EventBus` and `OperationTracker` | see *Proofs* |
| `MC…` | instances for TLC | |

Two proof modules are about two components each, whose models share no variable: the two sides of the bus controller's input, and
the two services of the process. So that both can be extended at once, `Listener` and `OperationTracker` name their specifications `ListenSpec` and `TrackSpec`.

A step of a module ends where the code releases or asks for a lock, calls out (SQLite, a socket, another thread),
or reads shared state again. Definitions whose comment begins *Faulty variant of* are no part of any `Next`: each is
the form a plausible bug would give the action it names, and shows that the properties notice it.

### ConnectionPool

`pool`, `count` and `txStates` are the attributes `pool`, `connection_count` and `transaction_states`; `dead` is the
set of handles `is_connection_valid()` would refuse; `conn[t]` is what thread `t` was handed. `get_connection()` is
`TakeFast` or `FindEmpty`, `Grow`, `CreateOk`/`CreateFails`, `Wake`/`WaitExpires`, `LastGrow`, `RaiseTimeout`;
`return_connection()` is `RollBack`/`RollBackRaises`, `PutBack`/`Discard`, `Uncount`, `RefillOk`/`RefillFails`. `lost`
is a history variable: the handles the outer `except` (line 272) drops without counting them out. The flags in
`txStates` say for what a handle was borrowed, not what SQLite has open on it: a transaction may be left in an idle
handle, which is a matter of `DatabaseAccess`. Not modelled:
`close_all()`, which only shutdown calls, and the per-system configuration.

### AsyncHandler

`lock` and `stateLock` hold the thread that owns `self.lock` and `self._state_lock`. A thread that asks for a lock it
already owns goes to `ownLock` or `ownStateLock` and stays there. `start()`, `stop()`, `add_message()`, the worker loop
and the watchdog loop are the five groups of actions. The buffer and the queue are sets, because no property here
tells priorities apart; a priority only decides which message is taken next, and the model allows each of them.
`started` is kept in step with the state by `_set_state()` and is therefore an operator. The watchdog looks at the
state ten seconds after its thread has started; `TenSecondsPass` lets it do so only after the `start()` that created
it has emptied the buffer, which takes milliseconds.

`SetState` is the whole of `_set_state()`: the redirected transitions (`Redirected`), the recovery of dead workers and the
watchdog it starts on RUNNING, the second write when a worker dies meanwhile (713-717), the flush on STOPPING. Every
transition goes through it but for that write.

Messages differ in what becomes of them: those of `WithoutId` come without a `message_id`, as line 1194 allows; those of
`NewSystem` are for a system that validation registers under `self.lock`; those of `Invalid` are refused by validation;
those of `ByType` have no handler under their command word, so that `stop()` drops them where a worker would not. `tracked`
is the set of messages with an entry in `_message_tracking`, and `Retry` puts one of them into the queue again wherever it is
by then; what the watchdog's two books decide is the subject of `MessageRetry`. `done` and `lost` say which messages were
handled and which were dropped.

An event loop may fail to be created (`LoopFails`): after an `OSError` the clause at 1516 reads `thread_name`, which is
unbound yet, before it sets the ready event, so that `start()` waits in vain; after anything else the event is set and the
worker dies without degrading the handler, since line 1567 reads that name too (`DegradeFails`).

`left` is a history variable: the workers whose join ended before they did, because a handler took longer than two
seconds or the worker waits for a lock `stop()` holds (`Stalled`).

Not modelled: the periodic task thread, the health check, a recovered worker whose thread does not start at all, and
the forced restart in `core/system_manager.py` 594, which writes the private state. `check_threads()`, `_set_legacy_state()` and the synchronous
`_handle_message()` have no callers. `get_Async_message_handler()` starts a handler that is STOPPED, which is `CallStart`.

### BatchQueue

`lists` holds every list object that `batch_queue['insert']` has been bound to, the last being the current one, since
threads go on using a list after it was replaced. `jobs` counts the submissions the executor has not begun;
`written` is a history variable, the tables each executor thread wrote a row to. The rows of
one query are read in two passes (`Placeholders`, `Params`) over a list that writers still append to; SQLite refuses a
query whose parameters do not match, and the `finally` clause resets the list then too. `ForceBatch` is the call in
`RadarResponseService.py`. Not modelled: `batch_update()`, the rate limit. Rows below the batch size stay in memory
until a forced batch: the interval of `dbConfig.xml` is parsed (`DBM.py` 1247) and used nowhere.

### BlockTransfer

A job is one call of `_send_large_message()`; `Begin` picks its request id, so that two jobs may have the same one.
`wire` holds the connections that the listener serves, each with its one message; `received` is `data_received`;
`pending` maps a request to the chunks collected for it; `routed` is a history variable, the chunks of a request in the
order in which its aggregated messages carried them. A chunk of more than `Flagged` frames does not fit with its
metadata into the 900 bytes of `_send_chunk()` and travels *bare*. With the
code's constants a full chunk (30 payload frames, 33 in all, about 24 bytes each) is always bare, whatever its
request id and message type, which is the assumption `FullChunksBare` (`Flagged < Payload`). `disturbed` is a history variable: a
message was refused, overtaken or given up, or a pending transfer expired. Clocks are replaced by choice: an
acknowledgement or a pending transfer may expire at any time its code looks. The init message is sent through `_send_message()`,
which rebuilds its metadata from a few keys (`RT_socket.py` 374-399) and drops `is_transfer_init`; the bus controller gets a message with
frames and without flags, which the aggregator collects like a bare chunk. It is chunk 0 of its job, and clears nothing
(`InitKind`). `received` has one consumer: the listener
that `BC.py` creates is not the module-level one which `BC_sender` and `Messaging.py` look at.

Not modelled: the decoding and typing of an aggregated message, messages that carry a `data` list or a status word,
the direction from controller to terminal.

### DatabaseAccess and StoredRows

A caller is a thread in one of the four ways the code uses a connection: a select (`Readers`) or any other query
(`Writers`) through `execute_query()`, the transaction of `extract_and_store_binary_data()` (`Storers`) and the update of
the link record after it (`Updaters`). Only writers queue on the file's write lock and are rolled back on return.
`fileLock`, `open` and `pending` are SQLite's: who may write to a file, which connections have a transaction, and
whose rows it holds. Every statement may fail; `TryAgain` is the loop over `retry_attempts`, and a pool timeout, which is no
`sqlite3.Error`, ends it. A storer that has committed counts its rows by a select through `execute_query()`, on any connection of its pool (`Verify`), and
is told what that found: the select may fail, and may read in an older transaction that was left on its connection. `OtherLocks` is another process in the file, which may stay there for ever. The inside of the
pool is `ConnectionPool`; here a pool lends any connection that is not lent. `StoredRows` is the promise to writers and
storers: rows get in at most once and before the answer, "ok" is only said of rows that are in, and the `Sure`
callers, the writers, are told "failed" only of rows that are not. `Rows` is the refinement mapping. Not modelled: rate limits and back-off (delays only), unmanaged
transactions, the branches for the test environment, `delete_*` with its count.

### MessageRetry

`tracked`, `tries` and `late` are `_message_tracking`, `retrying` and `due` the queue's `_retry_tracking`; `queue` has the
copies in order, by priority. The handler is RUNNING throughout, with the two watchdogs that a start leaves (710 and 1019): each
goes through its timeouts and then through the candidates it found, while the other, the workers and the producers work
on the same books. `_handle_message_async()` swallows what a handler
raises, so a message always ends as a success and the failure branch of `_process_single_message()` is unreachable:
it is not in the model. More than `MaxCopies` copies of a message in one queue are not told apart; further copies may be
with the workers.

### Listener

`accepting` is the loop of `start_listening()`, `conn[p]` the connection and worker thread of peer `p`, `controller` the
loop that takes messages from `data_received`, `stop` the caller of `stop_listener()`. Faults of bind and listen, or of
select and accept, come and go with `Turn`; `attempts` is the back-off policy's count, and the clock is replaced by the
number of failures that reach `give_up_after`. A worker may fail to start after it was registered, which makes a
join raise. `reached` is a history variable: the stop met a listener that had begun; one that had not sets `running`
after the stop cleared it, and the stop is lost.

### EventBus

`subscribers`, `queue`, `running`, `started` and `thread` are the attributes. `stop()` is three steps (`StopBegins`,
`StopJoins`, `StopEnds`), and a join may end while a callback still runs. A standard event is handled from a copy of the
list of callbacks, a 1553B message from the list itself, which is why `NobodySkipped` excuses an address whose
callbacks changed meanwhile. Counts for the health check are left out.

### LoopPrevention

`seen` and `registry` are the tracking library and the registry of one category; `expired` and `stale` say which entries
have passed their time. A delivery carries a message past the guards of its route, which all ask the same service, so
that it does not matter which guard asks. `Identify`, `Look`, `Record`, `Find`, `Mark` and `Tag` are the steps of one
`process_message()`: it works with the request id and the fingerprint it computed at its start (`request`, `print`), while other
deliveries may change what they were computed from. For the copy of an admitted message is shallow: the transaction id is
written to the metadata that the copy shares with the original (329-339, 353-364), and with every other delivery of that
object. `meta[d]` names the metadata, `tag` what is written there.

Six things tell messages apart. A status word or a completion (`Exempt`) is not looked up in the tracking library; one without a
timestamp (`Unstamped`) has a new fingerprint in each call; one without a request id (`Unrequested`) skips the tracking library in
its first call (154), and has the transaction id for a request from then on if it is a dict; a message that is an object
(`Objects`) gets a new transaction id at every guard, as the test for an old one (363) looks for an attribute of a dict. A message arrives
untagged, or is the very object that is being delivered already, and a handler goes on with the copy it was given.
`forgotten` is a history variable: what expiry or pruning dropped may pass again.

### OperationTracker

One action per section of `_file_lock`; `Enter` takes it, since a callback that asks the tracker needs it too. `over`
holds the callers whose event is set; `performed` and `known` are history variables, whose callback ran through since
the last clear and which operations were ever performed or marked.

## Runs

All bounds are the constants of the `.cfg` files.

| Run | Instance | States | Shows |
|---|---|---|---|
| `pool` | 3 threads, 2 handles, minimum 1, maximum 2 | 73 thousand | counter, capacity, exclusiveness, flags; the pool implements `HandleLoans`; every call ends |
| `handler_safety` | 2 controllers, 1 producer, 2 worker and 2 watchdog identities; a message without an id and without a handler of its own, and an invalid one for a new system; 1 retry, failing loops, handlers that outlast a join | 3.5 million | no message vanishes, or is in two places before it is retried; empty buffer while serving; no former worker but those a join gave up; legal transitions |
| `handler_live` | 2 controllers, 1 worker, a message without an id and one for a new system, 1 retry, failing loops, no stop | 78 thousand | every message is handled or dropped, every `start()` ends, unless the handler hangs itself or has no worker left |
| `handler_stopping` | 1 controller | | **violated**: `stop()` hangs when a message was buffered during it |
| `batch` | 2 writers, 2 executor threads, 3 rows, size 2, 1 forced batch | 0.13 million | a full batch leaves; no executor thread writes a row twice; written rows leave the batch |
| `bus` | a job of an init message and 2 full chunks, one of an init message and a short chunk, 2 requests, 2 connections, queue of 2 | 0.49 million | no chunk twice; at most one held back; an undisturbed transfer is neither lost nor reordered, and leaves nothing behind |
| `access` | a reader, 2 writers, a storer and a link update; 2 systems with a connection each, 1 file, 2 attempts | 1.2 million | one writer out at a time; rows stored at most once, nobody told of rows that are not there, no writer told of a failure with rows stored; every call ends |
| `retry` | a high, a normal and an invalid message, 2 workers, 2 watchdogs, 1 retry | 1.1 million | no entry without a copy; finished messages do not come back; retrying ends |
| `listen` | 2 peers, 1 connection at a time, 2 failures to give up | 70 thousand | silence after a stop; failing binds give up; messages are processed; a stop ends all |
| `events` | 2 controllers, 2 threads, a topic and an address, 2 callbacks, 2 events | 0.35 million | one processor, and a live one when the bus says so; nobody skipped; the queue drains |
| `loops` | 2 deliveries of 6 messages: dicts and objects, exempt or not, one without a timestamp, two without a request id; 4 guards, a registry of 3 | 0.71 million | the loops that are recognised end, after one guard or two; of recognised duplicates only overlapping ones pass; not every delivery is refused |
| `track` | 4 calls on 2 operations, a mark, a clear, 2 callbacks that ask the tracker | 0.15 million | an operation runs once; who returns finds it done; nobody waits for ever |

Every module of a component states its types in `TypeOK` (`ListenTypeOK`, `TrackTypeOK`), which is a theorem for each; the
runs spend their properties on behaviour.

Why the bounds are enough. *Pool*: the smallest pool that can grow, be full, be below its minimum and have a waiter
beside two holders. *Handler*: two controllers are needed for a stop against a start (the second also stands for the
restart thread of `add_message()`), two worker identities for a worker of a former life beside a new one; a start
creates two watchdogs. Where a third watchdog would be needed the start waits, so longer histories are cut there. `MaxRetries` is 1: a message may be in a second place, and its entry given up. Two
messages share the four kinds, since messages do not interact except by being in the same place; in the run without
`stop()` none is invalid, so that none ends before its system is registered.
Symmetry is used only in runs without liveness. *Batch*: two lists are at work and a third is current; the three rows
include two of the same shape for different tables and a wider one, so that both a wrong table and a refused query
happen. The forced batches come from the radar service, and the shared batch from the flight control database: the
instance combines them, as every `SystemDatabase` offers both. *Bus*: an init message and two full chunks
are the fewest that are cut with a chunk left over for the completion; two connections overtake and refuse. *Access*: one caller of
each kind and a second writer through another system, so that the pools are exhausted, the file is contended from two
pools, and what a link update leaves in a connection meets each of the others. *Retry*: a copy of a message may be
in each queue and with each of two workers, and two watchdogs hold the same candidates; one retry and the end of
retries both happen. *Listener*: one peer served while another waits
or is refused; the give-up bound is reached with a success in between. *Events*: the second thread is a restart beside
an abandoned processor. *Loops*: a delivery overlaps the other or comes after it, with the same object or one of its own; four guards are two more than a
recognised loop passes; the registry prunes at three.
*Tracker*: a claim, a waiter on it and a third who claims after a failure.

Deadlock is checked in `pool` and `retry`. In the other modules the system may stop: calls, transfers, rows, peers and
events are finite, and the handler's hanging threads are the subject of `handler_stopping`.

Fairness. Started calls run on (weak fairness per thread, or per program where every call has boundedly many steps): the
interpreter schedules every runnable thread, and every wait in the code has a timeout or a waker. Threads of the
handler compete for two locks that are taken and released over and over; `threading.Lock` hands a released lock to a
waiter, so their groups of actions have strong fairness. In `Listener` a peer that stays silent is closed by the idle timeout,
which runs on while the worker polls: strong fairness of `Hangup`. In `MessageRetry` the clock goes on, so that delays and
timeouts pass. No call, fault, expiry or overtaking is ever forced. In `BlockTransfer` a sender may give up forever, and
the liveness property excuses disturbed transfers for that reason.

## Where the code and its comments differ

`handler_stopping` shows one case: `_set_state(STOPPING)` flushes the buffer inside `_state_lock`, which the flush takes
again (`AsyncMessageHandler.py` 724). The first call is safe because `add_message()` buffers nothing while the handler
runs; the second, line 1084, is not, and `stop()` never returns.

The models contain more, which no run states separately; each was met while translating the lines named.

Databases (`storage/DBM.py` unless another file is named)
* 272: a rollback that raises anything but `OperationalError` leaves through the outer `except`, which drops the handle and
  not its count (`RollBackRaises`, history variable `lost`). A later timeout then does not mean that all of
  `max_connections` are checked out, as line 172 says.
* 654: `batch_insert()` writes all rows to the table of the first (`WithQuery`), but one batch collects the rows of all tables
  of a system; `ecu_data`, `surface_data` and `fcs_data` have the same columns and share one.
* 613: rows below the batch size wait for a forced batch; the interval of `dbConfig.xml` is parsed (1247) and not used.
* 137-142: "In-process writers are now serialized before they take a connection". The transaction at
  `precipitation_data_handler.py` 756 and the update at 927 take none of the write locks and compete inside SQLite.
* The update at `precipitation_data_handler.py` 927-935 is not rolled back when it raises, and the connection returns to the
  pool with its transaction open: the next `BEGIN` on it fails once, and a commit that failed may even keep the right to
  write, so that all writers of the file fail until somebody borrows that connection (`QueryFails`, `CommitFails`). `StoresRows`
  and `CallsEnd` hold nevertheless.
* `precipitation_data_handler.py` 880-892: the caller is answered by a select that follows the commit, on another pooled
  connection; it may fail, or read in a transaction that was left there, and then `extract_and_store_binary_data()` returns
  False with its rows stored (`Answers`).
* 855: `SELECT changes()` runs on another pooled connection than the `DELETE` it asks about.

Message handler (`AsyncMessageHandler.py`)
* 812: the watchdog calls `_set_state(RUNNING)` inside `_state_lock`, so that a degraded handler hangs instead of recovering
  (line 630 says it can).
* 1289: a message without `message_id` that a worker flushes from the buffer is dropped, since `put()` reads the id that
  `add_message()` supplies only behind the branch that buffers (the comment at 1194 says callers need not supply one).
* 1043: `start()` calls `stop()` from its `except` clause with `self.lock` held (`StartFails`); 1373: draining a message for an
  unknown system takes that lock again (`ReAddRegisters`): with 812 these are the `Hangs`
  that `EveryMessageHandled` and `StartEnds` except; 1019: a state transition and `start()` each create a watchdog;
  1222: a message may be queued after `stop()` has emptied the queue; 1088: a worker whose handler outlasts its join
  lives on, and a restart sets it running beside the new ones (`WorkersBounded` excepts exactly those).
* 1517 and 1567: the two clauses that are to report a worker whose event loop could not be created read `thread_name`, which is
  assigned after that (1401), and raise: the first before it sets the ready event (1519), so that `start()` fails after
  five seconds and hangs on its own lock; the second before it writes DEGRADED (1568), so that a RUNNING handler may have no live worker
  (`Unattended`). The connection error recorded at 1528, by which 652 would redirect a transition, is never recorded.
* 98: the buffer logs the id of a message it has just appended, and the `KeyError` of a message without one leaves
  `add_message()` before the restart: it stays buffered until somebody starts the handler (`Unannounced`).
* 926-933 and 643-668: what `start()` does about a handler that is started and not running, and the transitions that `_set_state()`
  redirects, never happen under these callers; `TransitionsValid` rests on the proof of that (`Phase`).
* 1058-1082: `stop()` handles what is left in the queue and keeps it in the books, so that a later start's watchdog may queue it
  again (`Retry`); it finds no handler that is registered by type only, and drops such a message.
* 889: the watchdog queues a due message again every tenth of a second, because `put()` does not refresh the time of the
  last attempt of a known message: copies are bounded only by how fast workers finish one, and two workers may handle
  the same message. `FinishedStayFinished` and `RetriesEnd` say that it stops once one of them is through.

Bus
* `RT_socket.py` 732: the init message of a transfer loses its flag in `_send_message()`, so that the aggregator's branch for it (108-128,
  "Clear any existing transfer with this ID") is never taken from here. What a broken-off transfer left is joined by the init message of the next.
* `BC_transfer_aggregator.py` 278: a full chunk travels without flags too, and the second such message of a request ends the
  transfer: the pieces of one are the init message with chunk 1, chunks 2 and 3, and so on (the manual,
  `11_Communication_Messaging.md` 199: "Data blocks reassembled into complete message"); the completion routes what is
  left over. A retry within five seconds sends no init message, and its first chunk joins what the former attempt left.
* `BC_socket.py` 668: each successful bind resets the back-off policy, so under a lasting fault of select or accept the
  listener rebuilds its socket forever; the docstring (652-656) says it gives up. `BindFaultEnds` is therefore about binds.
* `BC_socket.py` 658: a stop before the listener thread has begun is undone by `self.running = True`; 1127: a worker
  registered and not started makes the join at 1145 raise.
* `Messaging.py` 345-349: the load at 345 sets the flag whose absence line 348 requires, so the periodic rate loader is
  never added (not in a model).

Loop prevention
* `prevention.py` 159: the tracking library does not know who asks, so the guard of a handler refuses what the router
  recorded and forwarded (`vil_handler.py` 48 after `unified_router.py` 123).
* 329: "Create a copy to avoid modifying the original message". The copy shares the original's metadata, which gets the transaction id:
  an exempt message delivered again as the same object has a new fingerprint and passes.
* 363: whether an object has a transaction id is asked of its metadata dict with `hasattr`, which never finds one; each guard writes a new
  one, and an exempt object is never stopped. Nor is an exempt message without a timestamp.
* 154: a message without a request id skips the tracking library in its first call, and a dict without one passes two
  guards. An object without one is never stopped. `LoopsEnd` and `DuplicatesOverlap` claim nothing of these.

## Proofs

`ConnectionPool_proofs` proves, for any finite set of threads, any set of handles and any minimum and maximum that satisfy
`PoolAssumption`:

| Theorem | Statement |
|---|---|
| `TypeCorrect` | `Spec => []TypeOK` |
| `HandlesSafe` | `Spec => []HandlesExclusive`: a handle is held once or queued once |
| `FlagsFollowBorrowers` | `Spec => []FlagsFollowLoans`: flagged exactly while a borrower for a transaction works with it |
| `CountCorrect` | `Spec => []CountAccounted` |
| `CapacityKept` | `Spec => []WithinCapacity` |
| `PoolImplementsLoans` | `Spec => ImplementsLoans` |

The argument. `TypeOK` is not inductive alone, since a handle is queued from a thread's hands: it is proved together
with `HoldsWhenBorrowing`, a thread has a handle exactly where its code holds one (`TypeStep`). Nor is
`HandlesExclusive`: the strengthening `Places` adds `FlagsFollowLoans` and that a handle about to be queued
is unflagged (`UnflaggedWhenChecked`); every action preserves it (`PlacesStep`), with `PutLemma` and `GetLemma` for what
appending to the queue and taking from it do to its elements. `Accounts` is `CountAccounted` with the bound on the
counter; the number of occupying threads is followed through each change of one thread's place by `OccupiedEnter`,
`OccupiedLeave` and `OccupiedStay`, on finite cardinalities (`AccountsStep`). Capacity then follows from the count and from
the guard of a reservation (`RoomForOneMore`). For the refinement, each action either leaves `conn` alone, gives one thread
a handle no one else has while fewer than `MaxConn` are lent, or takes one back (`LoansStep`).

`DatabaseAccess_proofs` proves, for any sets of callers of the four kinds, any connections, systems and files and any number of
attempts that satisfy `AccessAssumption`:

| Theorem | Statement |
|---|---|
| `TypeCorrect` | `Spec => []TypeOK` |
| `WritersTakeTurns` | `Spec => []OneWriterOut` |
| `AccessStoresRows` | `Spec => StoresRows`: the retrying access refines `StoredRows` |

The argument. `Shape` is `TypeOK` with what it needs to be inductive: a caller has a connection exactly inside its `with`
block, no connection is lent twice, only writers queue (`TypeStep`). `LocksHeld` says that a writer past the lock has it and
that no two holders have the same file; with `Shape` it gives `OneWriterOut`. `Truth` relates transactions, rows and
answers: rows of a writer or storer are in the transaction of its own connection and only between its statement and
its commit, which is what a transaction left in the pool cannot disturb (`RowsPending`); rows are stored exactly from an
undisturbed commit on, through a storer's verification to its answer (`StoredMeansCommitted`), which stores nothing itself
(`VerifyingSelects`); a caller is answered exactly when it is done (`TruthStep`). Under it a commit is one `Store` step or none of
`StoredRows`, the end of a call one `Succeed` or `Fail` step, and every other step a stutter (`RowsStep`).

`Services_proofs` proves of `OperationTracker`, for any callers and operations that satisfy `TrackerAssumption`:

| Theorem | Statement |
|---|---|
| `TrackerTyped` | `TrackSpec => []TrackTypeOK` |
| `OperationsRunOnce` | `TrackSpec => []RunsOnce` |
| `ReturnsInformed` | `TrackSpec => []ReturnedIsDone` |

The argument. `TrackerShape` adds to the types that only calls of `track_operation()` reach its sections (`TrackerShapeStep`). `RunsOnce` speaks of two
callers and is not inductive: `Once` says that a caller is between claim and release exactly while `_in_progress` holds
its event (`Claimed`, `ClaimsFiled`), and that an operation that ran is recorded or about to be, with no claim left that could run
it again (`RunRecorded`); a second run would need a claim made while the first was neither in progress nor recorded
(`OnceStep`). `Informed` carries what is known to be done from the callback to the record, to those who wait and to the return
(`InformedStep`).

`AsyncHandler_proofs` proves, for any controllers, producers, workers, watchdogs and messages and any `NumWorkers` that satisfy
`HandlerAssumption` (the kinds of threads are disjoint, none is `NoThread`, the threads are finitely many):

| Theorem | Statement |
|---|---|
| `HandlerTyped` | `Spec => []TypeOK` |
| `TransitionsValid` | `Spec => OnlyValidTransitions` |
| `MessagesSafe` | `Spec => []MessagesConserved` |
| `BufferDrained` | `Spec => []ServingDrainsBuffer` |
| `CrewBounded` | `Spec => []WorkersBounded` |

The argument. `Lifecycle` is `TypeOK` with two facts: `self.lock` is held by exactly the controller that is inside `start()` or
`stop()`, hung there or not (`LockHeld`), and the place of that controller determines the state, as far as the second
write for a dying worker leaves it determined (`Phase`). What `_set_state()` enters is one of five states whatever is
redirected (`SetStateEnters`), and from `Phase` every change of the state is a transition of the table (`TransitionStep`).
`MessagesConserved` counts places, which a step of two threads could change unseen; `Conserved` says the same by sets:
the places of a message that was not retried exclude one another (`Separate`), only a thread that passes messages on has
some (`HandsEmpty`), and every message is somewhere (`Present`). It needs no life cycle, since no change of the state moves a
message (`StateSetCalm`). `Crew` adds to `WorkersBounded` that the handler knows no worker where it is about to create some, which
needs `Lifecycle`: no recovery happens in the middle of a start, and where it happens it creates no more workers than it
drops (`RecoverLemma`).

`Services_proofs` proves of `EventBus`, for any controllers, threads, keys, callbacks and bounds that satisfy `BusAssumption`:

| Theorem | Statement |
|---|---|
| `BusTyped` | `Spec => []TypeOK` |
| `ProcessorAlone` | `Spec => []OneProcessor` |
| `BusServed` | `Spec => []StartedIsServed` |
| `SubscribersServed` | `Spec => []NobodySkipped` |

The argument. A processor that lives is the one that `start()` created last (`LastOneLives`); together with `StartedIsServed`
this is inductive (`ServedStep`) and gives `OneProcessor`. For the subscribers, `OwedIsAhead` says that who is owed the event
in hand is at or after the loop's index in the list it walks, unless that is a live list that lost an entry
(`OwedStep`); a loop that ends has then nobody left to serve (`SkippedStep`). The types need it too, since a loop has an event.

`BatchQueue_proofs` proves, for any writers, executor threads, rows and tables and any size that satisfy `BatchAssumption`:

| Theorem | Statement |
|---|---|
| `BatchTyped` | `Spec => []TypeOK` |
| `BatchPending` | `Spec => []FullBatchPending` |
| `RowsWrittenOnce` | `Spec => []CopiesBounded` |
| `WrittenLeave` | `Spec => []WrittenRowsLeave` |

The argument. `FullBatchPending` is inductive under `TypeOK` (`PendingStep`). The two others are about the past: a row is in one
list or in one writer's hands (`OneList`), and what a worker wrote lies in lists before its `Horizon`, the first list it
may still write (`WrittenBefore`). The horizon only grows, since a worker that has reset a list takes a later one
(`WrittenStep`). `QueryFits` keeps the query of a list that grows between its two passes within the list.

`LoopPrevention_proofs` proves, for any deliveries and messages of any kinds, any number of passes and any size of the registry that satisfy
`PreventionAssumption`:

| Theorem | Statement |
|---|---|
| `ServiceTyped` | `Spec => []TypeOK` |
| `LoopsStop` | `Spec => []LoopsEnd` |
| `DuplicatesRefused` | `Spec => []DuplicatesOverlap` |
| `OneProceeds` | `Spec => []SomeDeliveryProceeds` |

The argument. What the libraries remember and what deliveries did are related both ways. Nothing is seen or registered
without a delivery that did it (`SeenHere`, `RegisteredHere`): who is refused was refused because of another, which gives
`SomeDeliveryProceeds` (`ProceedsStep`). And what a delivery did is remembered until it is forgotten: a message that is not
exempt and has a request id in the tracking library (`Recorded`), any other with a timestamp and a request id under its untagged
fingerprint in the registry (`Original`). A stamped dict whose metadata no other delivery shares is tagged by its first guard and
registered with its tag by its second (`Lonely`); with `Recorded` this gives `LoopsEnd`. `AfterTracked` and `AfterPrinted` are
`DuplicatesOverlap` with how far a later delivery gets: not past the look, or, being an object no admitted delivery has
tagged, not past the registry. What metadata is tagged at all is `Tagged`. The registry is a list that moves what is found again to
its end and drops its oldest entries: `RemoveLemma`, `WithLemma`, `FindDrops` and `MarkKeeps` say what stays in it.

`MessageRetry_proofs` proves, for any finite set of messages, any workers and watchdogs and any number of tries that satisfy `RetryAssumption`:

| Theorem | Statement |
|---|---|
| `RetryTyped` | `Spec => []TypeOK` |
| `EntriesServed` | `Spec => []EntriesHaveCopies` |
| `FinishedOver` | `Spec => FinishedStayFinished` |

The argument. `EntriesHaveCopies` is inductive under `TypeOK` (`EntriesStep`), and the action property needs only the types
(`FinishedStep`): both come down to what `put()` does to the number and the presence of copies in a queue (`PutLemma`, over
any order in which the watchdog puts its candidates, `OneAfterTheOther`) and what `get()` takes from it (`TakeLemma`).

`BusController_proofs` proves of `BlockTransfer`, for any jobs, requests, numbers of frames, capacity of the bus and length of the queue
that satisfy `TransferAssumption` and `FullChunksBare`:

| Theorem | Statement |
|---|---|
| `TransfersTyped` | `Spec => []TypeOK` |
| `OneHeldBack` | `Spec => []OneChunkHeldBack` |
| `ChunksRoutedOnce` | `Spec => []ChunksOnce` |
| `TransfersComplete` | `Spec => []NothingLost` |

The argument. The queue and the connections together are one sequence, `Line`, of the messages on their way. A sender appends
to it or, when the message is refused, leaves it alone (`Transmitted`); a connection that is read permutes it, and keeps the
messages of a job in order as long as none overtakes another (`Permutes`, `Permuted`); the aggregator takes its head
(`Registered`) and appends that chunk to what it has kept of the request, which is everything unless the transfer
expired (`Kept`). Each step is one of these three, begins a transfer, or touches none of them (`Steps`), so that the invariants are proved
over `Line` and `Handled` and never over the branches of the aggregator again. `Sent` says that whatever is on its way or handled
was sent by a job with that request, and that a chunk with metadata is its job's last (`SentStep`). Under it `OneChunkHeldBack` is
inductive: only a full chunk waits for another, and it leaves with the next one (`HeldStep`). `ChunksOnce` is inductive under it too,
since a new chunk has a higher number than every one of its job before (`OnceStep`). `NothingLost` is about a job that begins: its request was not acknowledged, because requests are acknowledged only for jobs that have
them (`Acknowledged`), so an undisturbed job begins with its own init message, chunk 0, which the aggregator keeps like
every other. `InOrder` states it over the places of `Line`; each of the three kinds of step preserves it (`LosslessSend`,
`LosslessMove`, `LosslessTake`), and so does the beginning of a transfer, before which nothing of the job exists (`LosslessBegin`).

`BusController_proofs` proves of `Listener`, for any number of connections ever made, of connections served at a time and of
failures to give up that satisfy `ListenerAssumption`:

| Theorem | Statement |
|---|---|
| `ListenerTypes` | `ListenSpec => []ListenTypeOK` |
| `StopQuiets` | `ListenSpec => []QuietAfterStop` |

The argument. `ListenerShape` is the part of the types that needs help to be inductive: a run of failures that was not given up is
short of the limit, and the worker about to be started is in the set of handlers already (`ListenerShapeStep`). `QuietAfterStop`
speaks of the end of a stop only. `StopHolds` follows the stop: once its flag met a running listener nothing sets the flag
again, and while it joins, every connection that still receives is among those to be joined. A worker created after the drain
listed the handlers is no exception, since it looks at the flag before it receives (`StopStep`). What makes the list complete is
`AliveKnown`: a living worker is in the set, although `Accept` prunes it of those that have ended.

Only model-checked: liveness (`CallsEnd`, `EveryMessageHandled`, `StartEnds`, `FullBatchLeaves`, `TransfersSettle`, `RetriesEnd`,
`BindFaultEnds`, `MessagesProcessed`, `StopEnds`, `Drained`), which needs fairness and is beyond the prover. Every safety
invariant, action property and refinement of the runs is a theorem.

## Plan

Done: `HandleLoans`, `ConnectionPool`, `AsyncHandler`, `BatchQueue`, `StoredRows`, `DatabaseAccess`, `MessageRetry`, `EventBus`,
`LoopPrevention`, `OperationTracker`, `BlockTransfer` and `Listener`, with the proofs of their safety and action properties. Next, in
this order:

1. Slot reassembly: `BlockTransferManager` and its two users, against an abstract transfer that delivers the data sent
   or nothing.
2. The radar display coordinator; pending requests of the system message handlers.
3. Thread manager, health checks and the system manager's restarts.

## Not modelled

Most of the repository's lines are not about the behaviours above. Displays (Qt widgets and painting), physical simulation of
aircraft systems, encoding and decoding of words and metadata, logging, configuration and command line tools have
little state that several actors share; a model of them would repeat their arithmetic or their layout line by line.
The system message handlers, response services and routers decode and forward: what is concurrent in them is the
queue, the guards and the database they use, which are modelled. Within the modelled components the omissions are named
above with each module, and in `PROJECT.json` with each component.
