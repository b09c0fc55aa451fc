---------------------------- MODULE AsyncHandler ----------------------------
(***************************************************************************)
(* sync_handler/AsyncMessageHandler.py: the life cycle of the message       *)
(* handler.  Controllers run start() and stop(), producers add_message(),   *)
(* workers _process_messages() and watchdogs _watchdog_loop(), all over the *)
(* same state, buffer and queue, under two non-reentrant locks: lock        *)
(* (self.lock) and stateLock (self._state_lock).  A step ends where a lock  *)
(* is taken or released or another thread can observe a change.            *)
(*                                                                         *)
(* Messages are opaque: priorities are left out, and copies of a message in *)
(* the queue are not told apart (MessageRetry does both).                   *)
(***************************************************************************)
EXTENDS Integers, FiniteSets

CONSTANTS
  Controllers,   \* threads that may call start(), and stop() when MayStop
  Producers,     \* threads that call add_message()
  Workers,       \* identities of worker threads
  Dogs,          \* identities of watchdog threads
  NumWorkers,    \* num_workers
  Msgs,          \* messages, each added once
  WithoutId,     \* messages whose sender supplies no message_id
  NewSystem,     \* messages for a system nobody has registered yet
  Invalid,       \* messages that do not pass _validate_message()
  ByType,        \* messages whose handler is registered by type only, or not
                 \* at all
  MaxRetries,    \* bound: how often the watchdog queues a message again
  MayStop,       \* whether the system manager calls stop()
  Faults,        \* what may go wrong: asyncio.new_event_loop() raises an
                 \* OSError ("noFiles") or something else ("noLoop"), a
                 \* message handler runs longer than a join waits ("stuck")
  NoThread

ASSUME HandlerAssumption ==
  /\ Controllers \cap (Producers \cup Workers \cup Dogs) = {}
  /\ Producers \cap (Workers \cup Dogs) = {}
  /\ Workers \cap Dogs = {}
  /\ NoThread \notin Controllers \cup Producers \cup Workers \cup Dogs
  /\ IsFiniteSet(Controllers \cup Producers \cup Workers \cup Dogs)
  /\ NumWorkers \in Nat \ {0}
  /\ WithoutId \subseteq Msgs
  /\ NewSystem \subseteq Msgs
  /\ Invalid \subseteq Msgs
  /\ ByType \subseteq Msgs
  /\ MaxRetries \in Nat
  /\ MayStop \in BOOLEAN
  /\ Faults \subseteq {"noFiles", "noLoop", "stuck"}

Threads == Controllers \cup Producers \cup Workers \cup Dogs

States  == {"STOPPED", "STARTING", "RUNNING", "STOPPING", "DEGRADED"}
Serving == {"RUNNING", "DEGRADED"}

VARIABLES
  state,       \* self._state
  running,     \* self.running, the loop condition of every thread
  lock,        \* holder of self.lock
  stateLock,   \* holder of self._state_lock
  pc,          \* where each thread is
  seen,        \* the state a worker read at the top of its loop, until it has
               \* acted on it
  workers,     \* self.workers
  watchdog,    \* self._watchdog_thread
  left,        \* history: live workers that outlasted the join of a stop()
  buffer,      \* messages in self._message_buffer
  queue,       \* messages in self.message_queue
  hand,        \* the messages a thread has taken and not yet passed on
  sent,        \* messages given to add_message()
  done,        \* messages a worker is through with, or stop() handled
  lost,        \* messages dropped without having been handled
  registered,  \* messages of NewSystem whose system is in self.systems by now
  tracked,     \* messages with an entry in self._message_tracking
  tries,       \* how often the watchdog queued each message again
  validationError   \* whether self._last_validation_error is set

locks   == <<lock, stateLock>>
crew    == <<workers, watchdog, left>>
threads == <<seen, crew>>
books   == <<registered, tracked, tries, validationError>>
msgs    == <<buffer, queue, hand, sent, done, lost, books>>
vars    == <<state, running, lock, stateLock, pc, seen, workers, watchdog, left, buffer,
             queue, hand, sent, done, lost, registered, tracked, tries, validationError>>

\* self.started, which every transition keeps in step with the state.
started == state # "STOPPED"

\* A thread that asks for a lock it holds itself never runs again.
Hung == {"ownLock", "ownStateLock"}

ControllerPCs == {"idle", "start", "again", "starting", "switchOn", "spawn", "verify",
                  "running", "dog", "drain", "readd", "stop", "stopping",
                  "empty", "stoppingAgain", "join", "stopped", "failed"}
ProducerPCs   == {"idle", "add", "restart", "put"}
WorkerPCs     == {"none", "init", "reborn", "unready", "failing", "dying", "loop", "read", "flush", "take",
                  "put", "dispatch", "wake", "high", "busyHigh", "get", "busy", "dead"}
DogPCs        == {"none", "young", "watch", "dead"}

TypeOK ==
  /\ state \in States
  /\ running \in BOOLEAN
  /\ lock \in Threads \cup {NoThread}
  /\ stateLock \in Threads \cup {NoThread}
  /\ pc \in [Threads -> Hung \cup ControllerPCs \cup ProducerPCs \cup WorkerPCs \cup DogPCs]
  /\ \A c \in Controllers : pc[c] \in Hung \cup ControllerPCs
  /\ \A p \in Producers : pc[p] \in ProducerPCs
  /\ \A w \in Workers : pc[w] \in Hung \cup WorkerPCs
  /\ \A d \in Dogs : pc[d] \in Hung \cup DogPCs
  /\ seen \in [Workers -> States]
  /\ workers \subseteq Workers
  /\ watchdog \in Dogs \cup {NoThread}
  /\ left \subseteq Workers
  /\ hand \in [Threads -> SUBSET sent]
  /\ buffer \cup queue \cup done \cup lost \cup registered \cup tracked \subseteq sent
  /\ sent \subseteq Msgs
  /\ tries \in [Msgs -> 0 .. MaxRetries]
  /\ validationError \in BOOLEAN

Init ==
  /\ state = "STOPPED"
  /\ running = FALSE
  /\ lock = NoThread
  /\ stateLock = NoThread
  /\ pc = [t \in Threads |-> IF t \in Controllers \cup Producers THEN "idle" ELSE "none"]
  /\ seen = [w \in Workers |-> "STOPPED"]
  /\ workers = {}
  /\ watchdog = NoThread
  /\ left = {}
  /\ buffer = {} /\ queue = {} /\ sent = {} /\ done = {} /\ lost = {}
  /\ registered = {} /\ tracked = {}
  /\ tries = [m \in Msgs |-> 0]
  /\ validationError = FALSE
  /\ hand = [t \in Threads |-> {}]

-----------------------------------------------------------------------------
\* Locks, threads and state changes

Goto(t, label) == pc' = [pc EXCEPT ![t] = label]

\* t enters and leaves a critical section of _state_lock in one step.
StateLockFree == stateLock = NoThread

Alive(t)  == pc[t] \notin {"none", "unready", "dead"}
Dead      == {w \in workers : ~Alive(w)}
Spare     == {w \in Workers \ workers : ~Alive(w)}
SpareDogs == {d \in Dogs : ~Alive(d)}

\* pc after t has gone to label, the threads of ws to their first statement
\* and the threads of ds to the watchdog loop.
Spawning(t, label, ws, ds) ==
  pc' = [u \in Threads |->
           IF u = t THEN label
           ELSE IF u \in ws THEN "init"
           ELSE IF u \in ds THEN "young" ELSE pc[u]]

\* t holds _state_lock and calls something that takes it again.
HangOnStateLock(t) ==
  /\ stateLock' = t
  /\ Goto(t, "ownStateLock")

\* _recover_workers(): a new thread for every dead one, and a wait until it is
\* ready; one that creates no event loop is not kept.
Replacements ==
  {ws \in SUBSET Spare :
     \/ Cardinality(ws) = Cardinality(Dead)
     \/ "noFiles" \in Faults /\ Cardinality(ws) <= Cardinality(Dead)}

\* t goes to label while ws take the place of the dead workers, the threads of
\* ds start to watch, and the workers of zs come to their end.
Recovering(t, label, ws, ds, zs) ==
  /\ workers' = (workers \ Dead) \cup ws
  /\ left' = left \ ws
  /\ pc' = [u \in Threads |->
              IF u = t THEN label
              ELSE IF u \in ws THEN "reborn"
              ELSE IF u \in ds THEN "young"
              ELSE IF u \in zs THEN "dead" ELSE pc[u]]

\* A living watchdog goes on; otherwise a new thread is started.
NextWatchdog ==
  IF watchdog # NoThread /\ Alive(watchdog) THEN {watchdog} ELSE SpareDogs

\* The state _set_state(s) enters: a handler that runs is not to be STOPPED
\* after a validation error, nor while it has workers and messages.  (The
\* third reason, a connection error, is recorded nowhere: line 1517 fails.)
Redirected(s) ==
  IF ~(state = "RUNNING" /\ s = "STOPPED") THEN s
  ELSE IF validationError THEN "DEGRADED"
  ELSE IF (\E w \in workers : Alive(w)) /\ queue \cup buffer # {} THEN "STOPPING"
  ELSE s

\* On RUNNING, entered from STARTING only, dead workers are recovered and a
\* watchdog is started if none lives; a worker found alive may be dead when it
\* is looked at again, and then the state is written once more.
EnterRunning(t, next) ==
  \E ws \in Replacements, d \in NextWatchdog, zs \in SUBSET {w \in workers : pc[w] = "dying"} :
    /\ state' = IF zs = {} THEN "RUNNING" ELSE "DEGRADED"
    /\ watchdog' = d
    /\ Recovering(t, next, ws, {d} \cap SpareDogs, zs)
    /\ UNCHANGED stateLock

EnterDegraded(t, next) ==
  /\ state' = "DEGRADED"
  /\ \E ws \in Replacements : Recovering(t, next, ws, {}, {})
  /\ UNCHANGED <<stateLock, watchdog>>

\* On STOPPING a non-empty buffer is flushed with _state_lock held, and
\* _flush_buffer_to_queue() asks for _state_lock.
EnterStopping(t, next) ==
  /\ state' = "STOPPING"
  /\ IF buffer = {} THEN Goto(t, next) /\ UNCHANGED stateLock ELSE HangOnStateLock(t)
  /\ UNCHANGED crew

\* _set_state(s) by thread t, which goes on to next.
SetState(t, s, next) ==
  LET to == Redirected(s) IN
  /\ StateLockFree
  /\ running' = (to \in Serving)
  /\ validationError' = (validationError /\ ~(state = "RUNNING" /\ s = "STOPPED"))
  /\ CASE to = "RUNNING"  -> EnterRunning(t, next)
       [] to = "DEGRADED" -> EnterDegraded(t, next)
       [] to = "STOPPING" -> EnterStopping(t, next)
       [] OTHER           -> /\ state' = to
                             /\ Goto(t, next)
                             /\ UNCHANGED <<stateLock, crew>>
  /\ UNCHANGED <<seen, buffer, queue, hand, sent, done, lost, registered, tracked, tries>>

NeedsRegistration(ms) == ms \cap (NewSystem \ registered)

-----------------------------------------------------------------------------
\* start()

CallStart(c) ==
  /\ pc[c] = "idle"
  /\ Goto(c, "start")
  /\ UNCHANGED <<state, running, locks, threads, msgs>>

\* Faulty variant of StartLocks: a handler that is running is started again.
StartLocksAlways(c) ==
  /\ pc[c] = "start"
  /\ lock = NoThread
  /\ Goto(c, "starting") /\ lock' = c
  /\ UNCHANGED <<state, running, stateLock, threads, msgs>>

\* Take self.lock; a handler that is started and running is left alone, and
\* one that is started and not running is set to STARTING once more.
StartLocks(c) ==
  /\ pc[c] = "start"
  /\ lock = NoThread
  /\ IF started /\ running
       THEN Goto(c, "idle") /\ UNCHANGED lock
       ELSE Goto(c, IF started THEN "again" ELSE "starting") /\ lock' = c
  /\ UNCHANGED <<state, running, stateLock, threads, msgs>>

SetStarting(c) ==
  /\ pc[c] \in {"again", "starting"}
  /\ SetState(c, "STARTING", IF pc[c] = "again" THEN "starting" ELSE "switchOn")
  /\ UNCHANGED lock

\* "self.running = True", outside _state_lock, before any thread is created.
SwitchOn(c) ==
  /\ pc[c] = "switchOn"
  /\ running' = TRUE
  /\ Goto(c, "spawn")
  /\ UNCHANGED <<state, locks, threads, msgs>>

SpawnWorkers(c) ==
  /\ pc[c] = "spawn"
  /\ \E ws \in SUBSET Spare :
       /\ Cardinality(ws) = NumWorkers
       /\ workers' = workers \cup ws
       /\ left' = left \ ws
       /\ Spawning(c, "verify", ws, {})
  /\ UNCHANGED <<state, running, locks, seen, watchdog, msgs>>

\* Every worker was alive after its start, and has set its ready event.
WorkersReady(c) ==
  /\ pc[c] = "verify"
  /\ \A w \in workers : pc[w] \notin {"init", "unready"}
  /\ Goto(c, "running")
  /\ UNCHANGED <<state, running, locks, threads, msgs>>

\* A worker is found dead, or its ready event is waited for in vain:
\* _set_state(STOPPED), and raise.
WorkerNotAlive(c) ==
  /\ pc[c] = "verify"
  /\ Dead # {}
  /\ SetState(c, "STOPPED", "failed")
  /\ UNCHANGED lock

\* The except clause of start() calls stop(), which asks for self.lock.
StartFails(c) ==
  /\ pc[c] = "failed"
  /\ Goto(c, "ownLock")
  /\ UNCHANGED <<state, running, locks, threads, msgs>>

SetRunning(c) ==
  /\ pc[c] = "running"
  /\ SetState(c, "RUNNING", "dog")
  /\ UNCHANGED lock

\* Faulty variant of StartWatchdog: the messages buffered meanwhile are forgotten.
StartWatchdogOnly(c) ==
  /\ pc[c] = "dog"
  /\ \E d \in SpareDogs : watchdog' = d /\ Spawning(c, "readd", {}, {d})
  /\ UNCHANGED <<state, running, locks, seen, workers, left, msgs>>

\* start() itself calls _start_watchdog() once more, whose new thread replaces
\* the first in self._watchdog_thread.
StartWatchdog(c) ==
  /\ pc[c] = "dog"
  /\ \E d \in SpareDogs : watchdog' = d /\ Spawning(c, "drain", {}, {d})
  /\ UNCHANGED <<state, running, locks, seen, workers, left, msgs>>

\* Faulty variant of TakeBuffered: the buffer is copied and not cleared.
TakeBufferedCopy(c) ==
  /\ pc[c] = "drain"
  /\ hand' = [hand EXCEPT ![c] = buffer]
  /\ Goto(c, "readd")
  /\ UNCHANGED <<state, running, locks, threads, buffer, queue, sent, done, lost, books>>

\* get_all_messages(): the messages buffered so far are taken in one step.
TakeBuffered(c) ==
  /\ pc[c] = "drain"
  /\ hand' = [hand EXCEPT ![c] = buffer]
  /\ buffer' = {}
  /\ Goto(c, "readd")
  /\ UNCHANGED <<state, running, locks, threads, queue, sent, done, lost, books>>

\* What validation refuses is dropped, the rest queued.
Enqueue(ms, refused) ==
  /\ queue' = queue \cup (ms \ refused)
  /\ lost' = lost \cup (ms \cap refused)

\* add_message() for each of them: in a serving state it gives the message an
\* id, tracks it, validates it and queues it.
ReAdd(c, m) ==
  /\ pc[c] = "readd"
  /\ StateLockFree
  /\ state \in Serving
  /\ m \in hand[c] \ NeedsRegistration(hand[c])
  /\ hand' = [hand EXCEPT ![c] = @ \ {m}]
  /\ tracked' = tracked \cup {m}
  /\ Enqueue({m}, Invalid)
  /\ validationError' = (validationError \/ m \in Invalid)
  /\ UNCHANGED <<state, running, locks, pc, threads, buffer, sent, done, registered, tries>>

\* Validation registers an unknown system: register_system() asks for self.lock,
\* which start() holds.
ReAddRegisters(c, m) ==
  /\ pc[c] = "readd"
  /\ StateLockFree
  /\ m \in NeedsRegistration(hand[c])
  /\ tracked' = tracked \cup {m}
  /\ Goto(c, "ownLock")
  /\ UNCHANGED <<state, running, locks, threads, buffer, queue, hand, sent, done, lost,
                 registered, tries, validationError>>

\* Faulty variant of StartReturns: self.lock is not released on the way out.
StartReturnsLocked(c) ==
  /\ pc[c] = "readd"
  /\ hand[c] = {}
  /\ Goto(c, "idle")
  /\ UNCHANGED <<state, running, locks, threads, msgs>>

StartReturns(c) ==
  /\ pc[c] = "readd"
  /\ hand[c] = {}
  /\ lock' = NoThread
  /\ Goto(c, "idle")
  /\ UNCHANGED <<state, running, stateLock, threads, msgs>>

Start(c) ==
  \/ StartLocks(c) \/ SetStarting(c) \/ SwitchOn(c) \/ SpawnWorkers(c)
  \/ WorkersReady(c) \/ WorkerNotAlive(c) \/ StartFails(c)
  \/ SetRunning(c) \/ StartWatchdog(c) \/ TakeBuffered(c)
  \/ \E m \in Msgs : ReAdd(c, m) \/ ReAddRegisters(c, m)
  \/ StartReturns(c)

-----------------------------------------------------------------------------
\* stop()

CallStop(c) ==
  /\ MayStop
  /\ pc[c] = "idle"
  /\ Goto(c, "stop")
  /\ UNCHANGED <<state, running, locks, threads, msgs>>

StopLocks(c) ==
  /\ pc[c] = "stop"
  /\ lock = NoThread
  /\ IF started
       THEN Goto(c, "stopping") /\ lock' = c
       ELSE Goto(c, "idle") /\ UNCHANGED lock
  /\ UNCHANGED <<state, running, stateLock, threads, msgs>>

FirstStopping(c) ==
  /\ pc[c] = "stopping"
  /\ SetState(c, "STOPPING", "empty")
  /\ UNCHANGED lock

SecondStopping(c) ==
  /\ pc[c] = "stoppingAgain"
  /\ SetState(c, "STOPPING", "join")
  /\ UNCHANGED lock

\* The messages left in the queue are handled one by one in this thread, whose
\* systems are known, but those without a handler under their command word are
\* dropped.  The books of retries keep what they have of them.
HandleLeftover(c, m) ==
  /\ pc[c] = "empty"
  /\ m \in queue
  /\ queue' = queue \ {m}
  /\ done' = done \cup ({m} \ ByType)
  /\ lost' = lost \cup ({m} \cap ByType)
  /\ UNCHANGED <<state, running, locks, pc, threads, buffer, hand, sent, books>>

QueueEmptied(c) ==
  /\ pc[c] = "empty"
  /\ queue = {}
  /\ Goto(c, "stoppingAgain")
  /\ UNCHANGED <<state, running, locks, threads, msgs>>

\* A thread that waits for a lock does not end while it waits.
WaitsForLock(t) ==
  \/ pc[t] \in Hung
  \/ pc[t] \in {"read", "flush", "wake", "failing"} /\ ~StateLockFree
  \/ pc[t] = "put" /\ NeedsRegistration(hand[t]) # {}

\* A thread that may still be alive two seconds after it was told to end.
Stalled(t) ==
  \/ pc[t] \in {"busy", "busyHigh"} /\ "stuck" \in Faults
  \/ WaitsForLock(t)

\* Faulty variant of JoinOver: the threads are not waited for.
JoinOverAtOnce(t) == Alive(t) \/ ~Alive(t)

\* A join ends when the thread has ended, or after two seconds.
JoinOver(t) == ~Alive(t) \/ Stalled(t)

\* Only the watchdog in self._watchdog_thread is joined.
Join(c) ==
  /\ pc[c] = "join"
  /\ \A t \in workers \cup ({watchdog} \ {NoThread}) : JoinOver(t)
  /\ left' = left \cup {w \in workers : Stalled(w)}
  /\ workers' = {}
  /\ watchdog' = NoThread
  /\ Goto(c, "stopped")
  /\ UNCHANGED <<state, running, locks, seen, msgs>>

\* _set_state(STOPPED), and return.
SetStopped(c) ==
  /\ pc[c] = "stopped"
  /\ SetState(c, "STOPPED", "idle")
  /\ lock' = IF stateLock' = c THEN lock ELSE NoThread

Stop(c) ==
  \/ StopLocks(c) \/ FirstStopping(c) \/ SecondStopping(c)
  \/ \E m \in Msgs : HandleLeftover(c, m)
  \/ QueueEmptied(c) \/ Join(c) \/ SetStopped(c)

-----------------------------------------------------------------------------
\* add_message()

CallAdd(p, m) ==
  /\ pc[p] = "idle"
  /\ m \in Msgs \ sent
  /\ sent' = sent \cup {m}
  /\ hand' = [hand EXCEPT ![p] = {m}]
  /\ Goto(p, "add")
  /\ UNCHANGED <<state, running, locks, threads, buffer, queue, done, lost, books>>

\* Faulty variant of AddBuffers: no restart in STOPPED.
AddBuffersOnly(p) ==
  /\ pc[p] = "add"
  /\ StateLockFree
  /\ state \notin Serving
  /\ buffer' = buffer \cup hand[p]
  /\ hand' = [hand EXCEPT ![p] = {}]
  /\ Goto(p, "idle")
  /\ UNCHANGED <<state, running, locks, threads, queue, sent, done, lost, books>>

\* Outside the serving states the message is buffered.  The buffer logs its id
\* once it has it, and the KeyError of a message without one leaves
\* add_message().  Otherwise, in STOPPED, a thread is started that calls
\* start(), and _state_lock is kept while waiting for it; a controller that is
\* idle stands for that thread.
AddBuffers(p) ==
  /\ pc[p] = "add"
  /\ StateLockFree
  /\ state \notin Serving
  /\ buffer' = buffer \cup hand[p]
  /\ hand' = [hand EXCEPT ![p] = {}]
  /\ IF state # "STOPPED" \/ hand[p] \subseteq WithoutId
       THEN Goto(p, "idle") /\ UNCHANGED stateLock
       ELSE /\ stateLock' = p
            /\ IF \E c \in Controllers : pc[c] = "idle"
                 THEN \E c \in Controllers :
                        /\ pc[c] = "idle"
                        /\ pc' = [pc EXCEPT ![p] = "restart", ![c] = "start"]
                 ELSE Goto(p, "restart")
  /\ UNCHANGED <<state, running, lock, threads, queue, sent, done, lost, books>>

\* The wait for the state to leave STOPPED is over.
RestartWaitEnds(p) ==
  /\ pc[p] = "restart"
  /\ stateLock' = NoThread
  /\ Goto(p, "idle")
  /\ UNCHANGED <<state, running, lock, threads, msgs>>

\* In a serving state _state_lock is released before the message is tracked,
\* validated and queued.
AddPasses(p) ==
  /\ pc[p] = "add"
  /\ StateLockFree
  /\ state \in Serving
  /\ tracked' = tracked \cup hand[p]
  /\ Goto(p, "put")
  /\ UNCHANGED <<state, running, locks, threads, buffer, queue, hand, sent, done, lost,
                 registered, tries, validationError>>

\* Validation registers an unknown system under self.lock.
Register(t, m) ==
  /\ pc[t] = "put"
  /\ m \in NeedsRegistration(hand[t])
  /\ lock = NoThread
  /\ registered' = registered \cup {m}
  /\ UNCHANGED <<state, running, locks, pc, threads, buffer, queue, hand, sent, done, lost,
                 tracked, tries, validationError>>

\* The message has got an id if it had none, and is queued if it is valid.
AddQueues(p) ==
  /\ pc[p] = "put"
  /\ NeedsRegistration(hand[p]) = {}
  /\ Enqueue(hand[p], Invalid)
  /\ validationError' = (validationError \/ hand[p] \cap Invalid # {})
  /\ hand' = [hand EXCEPT ![p] = {}]
  /\ Goto(p, "idle")
  /\ UNCHANGED <<state, running, locks, threads, buffer, sent, done, registered, tracked, tries>>

Add(p) ==
  \/ AddBuffers(p) \/ RestartWaitEnds(p) \/ AddPasses(p) \/ AddQueues(p)
  \/ \E m \in Msgs : Register(p, m)

-----------------------------------------------------------------------------
\* _process_messages(), the worker

LoopCreated(w) ==
  /\ pc[w] \in {"init", "reborn"}
  /\ Goto(w, "loop")
  /\ UNCHANGED <<state, running, locks, threads, msgs>>

\* asyncio.new_event_loop() raises, with thread_name still unbound.  The clause
\* for an OSError reads it before it sets the ready event and is left; the
\* clause for other exceptions sets the event first.
LoopFails(w) ==
  /\ \/ "noFiles" \in Faults /\ pc[w] = "init" /\ Goto(w, "unready")
     \/ "noLoop" \in Faults /\ pc[w] \in {"init", "reborn"} /\ Goto(w, "failing")
  /\ UNCHANGED <<state, running, locks, threads, msgs>>

\* The dying worker would degrade a RUNNING handler, but reads thread_name
\* before it writes the state, and the UnboundLocalError is swallowed.
DegradeFails(w) ==
  /\ pc[w] = "failing"
  /\ StateLockFree
  /\ Goto(w, "dying")
  /\ UNCHANGED <<state, running, locks, threads, msgs>>

Dies(w) ==
  /\ pc[w] = "dying"
  /\ Goto(w, "dead")
  /\ UNCHANGED <<state, running, locks, threads, msgs>>

TestRunning(w) ==
  /\ pc[w] = "loop"
  /\ Goto(w, IF running THEN "read" ELSE "dead")
  /\ UNCHANGED <<state, running, locks, threads, msgs>>

\* The state is read under _state_lock and used after its release.  A non-empty
\* buffer is flushed when it is due, which the clock decides.
ReadState(w) ==
  /\ pc[w] = "read"
  /\ StateLockFree
  /\ seen' = [seen EXCEPT ![w] = state]
  /\ \/ buffer # {} /\ Goto(w, "flush")
     \/ Goto(w, "dispatch")
  /\ UNCHANGED <<state, running, locks, crew, msgs>>

\* _flush_buffer_to_queue() looks at the state again.  In STOPPED it calls
\* _set_state() inside _state_lock.
Flush(w) ==
  /\ pc[w] = "flush"
  /\ StateLockFree
  /\ CASE state \in Serving   -> Goto(w, "take") /\ UNCHANGED stateLock
       [] state = "STOPPED"   -> HangOnStateLock(w)
       [] OTHER               -> Goto(w, "dispatch") /\ UNCHANGED stateLock
  /\ UNCHANGED <<state, running, lock, threads, msgs>>

FlushTakes(w) ==
  /\ pc[w] = "take"
  /\ hand' = [hand EXCEPT ![w] = buffer]
  /\ buffer' = {}
  /\ Goto(w, "put")
  /\ UNCHANGED <<state, running, locks, threads, queue, sent, done, lost, books>>

\* Each message is validated and put.  put() needs its message_id: the KeyError
\* of a message without one is caught, and that message dropped like an invalid
\* one.
FlushPuts(w) ==
  /\ pc[w] = "put"
  /\ NeedsRegistration(hand[w]) = {}
  /\ Enqueue(hand[w], Invalid \cup WithoutId)
  /\ hand' = [hand EXCEPT ![w] = {}]
  /\ Goto(w, "dispatch")
  /\ UNCHANGED <<state, running, locks, threads, buffer, sent, done, books>>

\* Only in the serving states, and in STOPPING, does it look into the queue.
Dispatch(w) ==
  /\ pc[w] = "dispatch"
  /\ Goto(w, CASE seen[w] \in Serving                        -> "get"
               [] seen[w] = "STOPPING"                       -> "high"
               [] seen[w] = "STOPPED" /\ buffer # {}         -> "wake"
               [] OTHER                                      -> "loop")
  /\ seen' = [seen EXCEPT ![w] = "STOPPED"]
  /\ UNCHANGED <<state, running, locks, crew, msgs>>

\* A worker that saw STOPPED and a buffered message calls _set_state() twice
\* inside _state_lock.
WakeUp(w) ==
  /\ pc[w] = "wake"
  /\ StateLockFree
  /\ HangOnStateLock(w)
  /\ UNCHANGED <<state, running, lock, threads, msgs>>

\* Take a message from the queue and run its handler.  In STOPPING one of high
\* priority is looked for first, and its handling is followed by an ordinary
\* get().
Get(w, m, from, handling) ==
  /\ pc[w] = from
  /\ m \in queue
  /\ queue' = queue \ {m}
  /\ hand' = [hand EXCEPT ![w] = {m}]
  /\ Goto(w, handling)
  /\ UNCHANGED <<state, running, locks, threads, buffer, sent, done, lost, books>>

\* No message of high priority, or none at all when the get() times out.
GetNothing(w) ==
  /\ pc[w] = "high" \/ (pc[w] = "get" /\ queue = {})
  /\ Goto(w, "loop")
  /\ UNCHANGED <<state, running, locks, threads, msgs>>

\* The buffer is looked at again before the ordinary get(), which follows
\* whatever the state.
LookAgain(w) ==
  /\ pc[w] = "get"
  /\ buffer # {}
  /\ Goto(w, "flush")
  /\ seen' = [seen EXCEPT ![w] = "RUNNING"]
  /\ UNCHANGED <<state, running, locks, crew, msgs>>

\* The handler returns or raises, or there is none: _handle_message_async()
\* swallows the latter two, and the message is no longer tracked.
Handled(w, from, next) ==
  /\ pc[w] = from
  /\ done' = done \cup hand[w]
  /\ tracked' = tracked \ hand[w]
  /\ hand' = [hand EXCEPT ![w] = {}]
  /\ Goto(w, next)
  /\ UNCHANGED <<state, running, locks, threads, buffer, queue, sent, lost, registered, tries,
                 validationError>>

Work(w) ==
  \/ LoopCreated(w) \/ LoopFails(w) \/ DegradeFails(w) \/ Dies(w) \/ TestRunning(w)
  \/ ReadState(w) \/ Flush(w) \/ FlushTakes(w) \/ FlushPuts(w)
  \/ Dispatch(w) \/ WakeUp(w) \/ GetNothing(w) \/ LookAgain(w)
  \/ Handled(w, "busyHigh", "get") \/ Handled(w, "busy", "loop")
  \/ \E m \in Msgs : \/ Register(w, m)
                    \/ Get(w, m, "high", "busyHigh")
                    \/ Get(w, m, "get", "busy")

-----------------------------------------------------------------------------
\* _watchdog_loop(): what it does to the state and the threads

\* The first look at the state comes ten seconds after the thread's start, long
\* after the start() that created it has emptied the buffer.
TenSecondsPass(d) ==
  /\ pc[d] = "young"
  /\ \A c \in Controllers : pc[c] \notin {"dog", "drain"}
  /\ Goto(d, "watch")
  /\ UNCHANGED <<state, running, locks, threads, msgs>>

WatchdogEnds(d) ==
  /\ pc[d] \in {"young", "watch"}
  /\ ~running
  /\ Goto(d, "dead")
  /\ UNCHANGED <<state, running, locks, threads, msgs>>

\* In DEGRADED the dead workers are recovered, and _set_state(RUNNING) is called
\* inside _state_lock.
WatchdogRecovers(d) ==
  /\ pc[d] = "watch"
  /\ running
  /\ StateLockFree
  /\ state = "DEGRADED"
  /\ Dead # {}
  /\ \E ws \in Replacements : Recovering(d, "ownStateLock", ws, {}, {})
  /\ stateLock' = d
  /\ UNCHANGED <<state, running, lock, seen, watchdog, msgs>>

\* A buffer that is due is flushed inside _state_lock, which the flush takes.
WatchdogFlushes(d) ==
  /\ pc[d] = "watch"
  /\ running
  /\ StateLockFree
  /\ state \in Serving
  /\ buffer # {}
  /\ HangOnStateLock(d)
  /\ UNCHANGED <<state, running, lock, threads, msgs>>

\* A tracked message that is due, wherever it is by then, is validated and
\* queued again; one of high priority in every state.  (An unknown system would
\* be registered under self.lock, for which the add_message() that tracked the
\* message is waiting itself.)
Retry(d, m) ==
  /\ pc[d] \in {"young", "watch"}
  /\ m \in tracked \ Invalid
  /\ NeedsRegistration({m}) = {}
  /\ tries[m] < MaxRetries
  /\ tries' = [tries EXCEPT ![m] = @ + 1]
  /\ queue' = queue \cup {m}
  /\ UNCHANGED <<state, running, locks, pc, threads, buffer, hand, sent, done, lost, registered,
                 tracked, validationError>>

\* The entry of a due message is deleted if the message is invalid, was retried
\* often enough, or, being of normal priority, is due while the handler does not
\* serve.
GiveUp(d, m) ==
  /\ pc[d] \in {"young", "watch"}
  /\ m \in tracked
  /\ m \in Invalid \/ tries[m] = MaxRetries \/ state \notin Serving
  /\ tracked' = tracked \ {m}
  /\ UNCHANGED <<state, running, locks, pc, threads, buffer, queue, hand, sent, done, lost,
                 registered, tries, validationError>>

Watch(d) ==
  \/ TenSecondsPass(d) \/ WatchdogEnds(d) \/ WatchdogRecovers(d) \/ WatchdogFlushes(d)
  \/ \E m \in Msgs : Retry(d, m) \/ GiveUp(d, m)

-----------------------------------------------------------------------------
Control(c) == Start(c) \/ Stop(c)

Next ==
  \/ \E c \in Controllers : CallStart(c) \/ CallStop(c) \/ Control(c)
  \/ \E p \in Producers : Add(p) \/ \E m \in Msgs : CallAdd(p, m)
  \/ \E w \in Workers : Work(w)
  \/ \E d \in Dogs : Watch(d)

\* Every thread that can take a step eventually takes one; no call is forced.
\* A lock that is released again and again is eventually given to each thread
\* that waits for it (strong fairness): its holders release it at once.
Fairness ==
  /\ \A c \in Controllers : SF_vars(Control(c))
  /\ \A p \in Producers : SF_vars(Add(p))
  /\ \A w \in Workers : SF_vars(Work(w))
  /\ \A d \in Dogs : SF_vars(Watch(d))

Spec     == Init /\ [][Next]_vars
FairSpec == Spec /\ Fairness

-----------------------------------------------------------------------------
\* Properties

\* In how many places a message is.
Places(m) ==
  (IF m \in buffer THEN 1 ELSE 0) + (IF m \in queue THEN 1 ELSE 0)
  + (IF m \in done THEN 1 ELSE 0) + (IF m \in lost THEN 1 ELSE 0)
  + Cardinality({t \in Threads : m \in hand[t]})

\* No interleaving of start()'s own drain with a worker's flush, of a stop with
\* a late add_message(), or of two workers and a watchdog leaves a message
\* nowhere, and nothing but the watchdog's retry makes it two: each message
\* added is in one place until it is queued again, and somewhere after that.
\* Dropped are only those that are invalid, those that a worker's flush finds
\* without an id, and those that stop() finds without a handler.
MessagesConserved ==
  /\ \A m \in sent : Places(m) >= 1 /\ (tries[m] = 0 => Places(m) = 1)
  /\ lost \subseteq Invalid \cup WithoutId \cup ByType

\* Buffering stops when serving starts: once start() has drained the buffer it
\* stays empty until the handler leaves the serving states, so no message waits
\* in a buffer nobody looks at.
ServingDrainsBuffer ==
  state \in Serving /\ (\A c \in Controllers : pc[c] \notin {"dog", "drain"}) => buffer = {}

\* stop() leaves no worker behind that a later start() would set running again,
\* but for those that a join waited for in vain: every other live worker is one
\* the handler knows, and there are num_workers at most.
WorkersBounded ==
  LET live == {w \in Workers \ left : Alive(w)}
  IN  live \subseteq workers /\ Cardinality(live) <= NumWorkers

\* The transition table of _set_state() (lines 626-632).
ValidTransitions ==
  [s \in States |-> CASE s = "STOPPED"  -> {"STARTING"}
                      [] s = "STARTING" -> {"RUNNING", "DEGRADED", "STOPPED"}
                      [] s = "RUNNING"  -> {"DEGRADED", "STOPPING"}
                      [] s = "DEGRADED" -> {"RUNNING", "STOPPING"}
                      [] s = "STOPPING" -> {"STOPPED"}]

\* _set_state() lets an invalid transition proceed, redirects others, and writes
\* the state a second time when a worker dies under it; start() asks for
\* STARTING whatever the state is.  Still only transitions of the table happen.
OnlyValidTransitions == [][state' # state => state' \in ValidTransitions[state]]_vars

\* The ways a handler that is never stopped hangs itself: start() fails or
\* drains a message for an unknown system, and asks for the self.lock it holds;
\* the watchdog of a degraded handler asks for the _state_lock it holds.
Hangs ==
  \/ \E c \in Controllers :
       pc[c] = "ownLock" /\ (state = "STOPPED" \/ NeedsRegistration(hand[c]) # {})
  \/ \E d \in Dogs : pc[d] = "ownStateLock" /\ state = "DEGRADED"

\* Nobody looks into the queue: _set_state(RUNNING) was left with workers that
\* were dying, and nothing recovers them.
Unattended == state \in Serving /\ \A w \in workers : ~Alive(w)

\* A message without an id asks for no restart, and waits for the next start().
Unannounced(m) == m \in WithoutId \cap buffer /\ state = "STOPPED"

\* In a system that is never stopped, every message added, before, during or
\* after the start, is handled, or dropped as MessagesConserved says, unless the
\* handler hangs itself or has no worker left.
EveryMessageHandled ==
  \A m \in Msgs : m \in sent ~> m \in done \cup lost \/ Hangs \/ Unattended \/ Unannounced(m)

\* A call of start() ends, unless the handler hangs itself in one of those ways.
StartEnds == \A c \in Controllers : pc[c] = "start" ~> pc[c] = "idle" \/ Hangs

\* Line 720: on STOPPING, "Flush any buffered messages with high priority".
StoppingFlushes ==
  \A c \in Controllers : pc[c] \in {"stopping", "stoppingAgain"} /\ buffer # {} ~> buffer = {}
=============================================================================
