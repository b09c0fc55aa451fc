------------------------------ MODULE EventBus ------------------------------
(***************************************************************************)
(* The event bus (core/event_driven_communication.py): publishers append   *)
(* events to a queue, one processor thread takes them off and calls the    *)
(* subscribers one after the other.  start() and stop() may be called by   *)
(* several controllers: stop() clears `running', releases the lock, joins  *)
(* the processor for a bounded time and only then clears `started'.        *)
(*                                                                         *)
(* An event has a key: a topic (a standard Event, handled from a copy of   *)
(* the subscriber list) or an address (a 1553B message, handled from the   *)
(* live list).  What check_health() measures (event and error counts, the  *)
(* time of the last event) decides nothing here and is left out.           *)
(***************************************************************************)
EXTENDS Naturals, Sequences, FiniteSets, Functions, SequencesExt

CONSTANTS Topics,        \* keys of standard events
          Addresses,     \* keys of 1553B messages: remote terminal addresses
          Callbacks,     \* the subscribers' callbacks
          Controllers,   \* threads that call start() and stop()
          Threads,       \* identities of processor threads, one per start
          NoThread,      \* self.thread before the first start
          MaxEvents,     \* bound: events ever published
          MaxSubscribed  \* bound: subscriptions at any time

ASSUME BusAssumption ==
    /\ Topics \cap Addresses = {}
    /\ NoThread \notin Threads
    /\ MaxEvents \in Nat /\ MaxSubscribed \in Nat

VARIABLES subscribers,  \* key -> sequence of callbacks
          queue,        \* event_queue: events not yet taken
          running, started,
          thread,       \* self.thread
          pc,           \* where each processor thread is
          hand,         \* the event each processor thread handles
          copy,         \* its copy of the subscriber list (topics)
          index,        \* position of its loop over the callbacks
          stopping,     \* where each controller is in stop()
          published,    \* history: number of events published
          finished,     \* history: numbers of the events handled to the end
          owed,         \* history: who is still owed the event in hand
          disturbed,    \* history: events handled while a callback of their key left
          missed        \* history: <<event, callback>> owed and not delivered

bus == <<subscribers, queue, running, started, thread>>
processor == <<pc, hand, copy, index>>
history == <<published, finished, owed, disturbed, missed>>
vars == <<bus, processor, stopping, history>>

Keys == Topics \cup Addresses

\* What is published: an event and, for the properties, its number.
Event == [key : Keys, n : 1 .. MaxEvents]

Alive(t) == pc[t] \in {"top", "take", "calls"}

\* Faulty variant of Listening: no copy, the loop runs over the live list for
\* topics as well.
ListeningLive(t) == subscribers[hand[t].key]

\* The list a processor's loop runs over: its copy of a topic's callbacks,
\* the list itself for an address.
Listening(t) ==
    IF hand[t].key \in Topics THEN copy[t] ELSE subscribers[hand[t].key]

-----------------------------------------------------------------------------
Init ==
    /\ subscribers = [k \in Keys |-> << >>]
    /\ queue = << >>
    /\ running = FALSE /\ started = FALSE
    /\ thread = NoThread
    /\ pc = [t \in Threads |-> "unborn"]
    /\ hand = [t \in Threads |-> << >>]
    /\ copy = [t \in Threads |-> << >>]
    /\ index = [t \in Threads |-> 0]
    /\ stopping = [c \in Controllers |-> "no"]
    /\ published = 0 /\ finished = {}
    /\ owed = [t \in Threads |-> {}]
    /\ disturbed = {} /\ missed = {}

Subscriptions == FoldFunction(LAMBDA l, n : Len(l) + n, 0, subscribers)

\* subscribe(): appends, without looking whether the callback is there.
Subscribe(k, c) ==
    /\ Subscriptions < MaxSubscribed
    /\ subscribers' = [subscribers EXCEPT ![k] = Append(@, c)]
    /\ UNCHANGED <<queue, running, started, thread, processor,
                   stopping, history>>

\* Handling an event of key k right now.
Handling(t, k) == pc[t] = "calls" /\ hand[t].key = k

\* unsubscribe(): list.remove(), the first occurrence.
Unsubscribe(k, c) ==
    /\ \E i \in DOMAIN subscribers[k] :
          /\ subscribers[k][i] = c
          /\ \A j \in 1 .. i - 1 : subscribers[k][j] # c
          /\ subscribers' = [subscribers EXCEPT ![k] = RemoveAt(@, i)]
    /\ owed' = [t \in Threads |->
                  IF Handling(t, k) /\ ~Contains(subscribers'[k], c)
                  THEN owed[t] \ {c} ELSE owed[t]]
    /\ disturbed' = disturbed \cup {hand[t].n : t \in {u \in Threads : Handling(u, k)}}
    /\ UNCHANGED <<queue, running, started, thread, processor,
                   stopping, published, finished, missed>>

\* publish(): a valid event is appended, whether the bus runs or not.
Publish(k) ==
    /\ published < MaxEvents
    /\ published' = published + 1
    /\ queue' = Append(queue, [key |-> k, n |-> published'])
    /\ UNCHANGED <<subscribers, running, started, thread, processor,
                   stopping, finished, owed, disturbed, missed>>

\* Faulty variant of CanSpawn: start() does not ask whether the former
\* processor still lives.
CanSpawnSoon == ~started /\ ~running

-----------------------------------------------------------------------------
CanSpawn == ~started /\ ~running /\ (thread # NoThread => ~Alive(thread))

\* start(): one section of the lock.  Called on a started bus, or while the
\* former processor still lives, it does nothing.
Start(c, t) ==
    /\ stopping[c] = "no"
    /\ pc[t] = "unborn"
    /\ CanSpawn
    /\ running' = TRUE /\ started' = TRUE
    /\ thread' = t
    /\ pc' = [pc EXCEPT ![t] = "top"]
    /\ UNCHANGED <<subscribers, queue, hand, copy, index, stopping, history>>

\* Faulty variant of StartFails: `started' is set before the thread is.
StartFailsMarked(c, t) ==
    /\ stopping[c] = "no"
    /\ pc[t] = "unborn"
    /\ CanSpawn
    /\ running' = TRUE /\ started' = TRUE
    /\ thread' = t
    /\ pc' = [pc EXCEPT ![t] = "failed"]
    /\ UNCHANGED <<subscribers, queue, hand, copy, index, stopping, history>>

\* Thread.start() raises in start(): `running' is left TRUE.
StartFails(c, t) ==
    /\ stopping[c] = "no"
    /\ pc[t] = "unborn"
    /\ CanSpawn
    /\ running' = TRUE
    /\ thread' = t
    /\ pc' = [pc EXCEPT ![t] = "failed"]
    /\ UNCHANGED <<subscribers, queue, started, hand, copy, index, stopping, history>>

\* stop(), first section of the lock.
StopBegins(c) ==
    /\ stopping[c] = "no"
    /\ started
    /\ running' = FALSE
    /\ stopping' = [stopping EXCEPT ![c] = "join"]
    /\ UNCHANGED <<subscribers, queue, started, thread, processor, history>>

\* stop(): thread.join(timeout) returns, the thread gone or not.
StopJoins(c) ==
    /\ stopping[c] = "join"
    /\ stopping' = [stopping EXCEPT ![c] = "mark"]
    /\ UNCHANGED <<bus, processor, history>>

\* stop(), second section of the lock.
StopEnds(c) ==
    /\ stopping[c] = "mark"
    /\ started' = FALSE
    /\ stopping' = [stopping EXCEPT ![c] = "no"]
    /\ UNCHANGED <<subscribers, queue, running, thread, processor, history>>

-----------------------------------------------------------------------------
\* _process_events(): the loop reads `running'.
Check(t) ==
    /\ pc[t] = "top"
    /\ pc' = [pc EXCEPT ![t] = IF running THEN "take" ELSE "dead"]
    /\ UNCHANGED <<bus, hand, copy, index, stopping, history>>

\* The queue is empty: sleep and look again.
Idle(t) ==
    /\ pc[t] = "take"
    /\ queue = << >>
    /\ pc' = [pc EXCEPT ![t] = "top"]
    /\ UNCHANGED <<bus, hand, copy, index, stopping, history>>

\* get() and the start of _handle_event() or _handle_1553b_message(): for a
\* topic the callbacks are copied under the lock.
Take(t) ==
    /\ pc[t] = "take"
    /\ queue # << >>
    /\ queue' = Tail(queue)
    /\ hand' = [hand EXCEPT ![t] = Head(queue)]
    /\ copy' = [copy EXCEPT ![t] =
                  IF Head(queue).key \in Topics THEN subscribers[Head(queue).key]
                  ELSE << >>]
    /\ index' = [index EXCEPT ![t] = 1]
    /\ pc' = [pc EXCEPT ![t] = "calls"]
    /\ owed' = [owed EXCEPT ![t] = Range(subscribers[Head(queue).key])]
    /\ UNCHANGED <<subscribers, running, started, thread, stopping, published,
                   finished, disturbed, missed>>

\* Faulty variant of Call: after a callback that raised, the loop starts
\* over.
CallAgain(t) ==
    /\ pc[t] = "calls"
    /\ index[t] <= Len(Listening(t))
    /\ owed' = [owed EXCEPT ![t] = @ \ {Listening(t)[index[t]]}]
    /\ \E i \in {1, index[t] + 1} : index' = [index EXCEPT ![t] = i]
    /\ UNCHANGED <<bus, pc, hand, copy, stopping, published, finished,
                   disturbed, missed>>

\* One callback is called; what it raises is caught and counted.
Call(t) ==
    /\ pc[t] = "calls"
    /\ index[t] <= Len(Listening(t))
    /\ owed' = [owed EXCEPT ![t] = @ \ {Listening(t)[index[t]]}]
    /\ index' = [index EXCEPT ![t] = @ + 1]
    /\ UNCHANGED <<bus, pc, hand, copy, stopping, published, finished,
                   disturbed, missed>>

\* The loop over the callbacks is over.
Done(t) ==
    /\ pc[t] = "calls"
    /\ index[t] > Len(Listening(t))
    /\ finished' = finished \cup {hand[t].n}
    /\ missed' = missed \cup {<<hand[t], c>> : c \in owed[t]}
    /\ owed' = [owed EXCEPT ![t] = {}]
    /\ pc' = [pc EXCEPT ![t] = "top"]
    /\ hand' = [hand EXCEPT ![t] = << >>]
    /\ copy' = [copy EXCEPT ![t] = << >>]
    /\ index' = [index EXCEPT ![t] = 0]
    /\ UNCHANGED <<bus, stopping, published, disturbed>>

Process(t) == Check(t) \/ Idle(t) \/ Take(t) \/ Call(t) \/ Done(t)

Clients ==
    \E k \in Keys : Publish(k) \/ \E c \in Callbacks : Subscribe(k, c) \/ Unsubscribe(k, c)

Control(c) ==
    \/ \E t \in Threads : Start(c, t) \/ StartFails(c, t)
    \/ StopBegins(c) \/ StopJoins(c) \/ StopEnds(c)

Next ==
    \/ Clients
    \/ \E c \in Controllers : Control(c)
    \/ \E t \in Threads : Process(t)

\* The processor is a thread that is scheduled and whose callbacks return;
\* a stop() under way goes on, since its join is bounded.  Nobody has to
\* publish, subscribe, start or stop.
Fairness ==
    /\ \A t \in Threads : WF_vars(Process(t))
    /\ \A c \in Controllers : WF_vars(StopJoins(c) \/ StopEnds(c))

Spec == Init /\ [][Next]_vars /\ Fairness

-----------------------------------------------------------------------------
TypeOK ==
    /\ subscribers \in [Keys -> Seq(Callbacks)]
    /\ queue \in Seq(Event)
    /\ running \in BOOLEAN /\ started \in BOOLEAN
    /\ thread \in Threads \cup {NoThread}
    /\ pc \in [Threads -> {"unborn", "failed", "top", "take", "calls", "dead"}]
    /\ hand \in [Threads -> Event \cup {<< >>}]
    /\ copy \in [Threads -> Seq(Callbacks)]
    /\ index \in [Threads -> Nat]
    /\ stopping \in [Controllers -> {"no", "join", "mark"}]
    /\ published \in 0 .. MaxEvents
    /\ finished \subseteq 1 .. MaxEvents
    /\ owed \in [Threads -> SUBSET Callbacks]
    /\ disturbed \subseteq 1 .. MaxEvents

\* However start() and stop() interleave, and whatever stop() left behind
\* when its join timed out, no two processors live at once.
OneProcessor == \A t, u \in Threads : Alive(t) /\ Alive(u) => t = u

\* A bus that says it is started and running has a processor that lives,
\* with two stop() calls racing a start() too.
StartedIsServed == started /\ running => thread \in Threads /\ Alive(thread)

\* A callback that stays subscribed while an event is handled gets it.  The
\* copy of _handle_event() guarantees it for topics; a 1553B message can
\* pass over a callback only when one of its address left meanwhile.
NobodySkipped ==
    \A m \in missed : m[1].key \in Addresses /\ m[1].n \in disturbed

\* On a bus that is from some time on started and not stopped, every event
\* published, before or after, is handled to the end.
Drained ==
    <>[](started /\ running) =>
        \A n \in 1 .. MaxEvents : (published >= n) ~> (n \in finished)
=============================================================================
