---------------------------- MODULE MessageRetry ----------------------------
(***************************************************************************)
(* Retries of the asynchronous message handler: add_message() tracks a     *)
(* message and queues it, workers take the queues' heads in the order of   *)
(* priority, and watchdogs queue again what waited too long, by two        *)
(* books kept under two locks: _message_tracking (thirty seconds, under    *)
(* _transaction_lock) and the queue's _retry_tracking (five seconds, under *)
(* the queue's lock).                                                      *)
(*                                                                         *)
(* The handler is RUNNING throughout; AsyncHandler has its life cycle.     *)
(* _handle_message_async() catches what a handler raises, so every message *)
(* ends as a success: the count in _retry_tracking stays 0 and the         *)
(* except branch of _process_single_message() is never taken.              *)
(***************************************************************************)
EXTENDS Naturals, Sequences, FiniteSets, SequencesExt

CONSTANTS Messages,
          High,        \* messages of high priority; the others are normal
          Invalid,     \* messages that _validate_message() refuses
          Workers,
          Watchdogs,   \* _set_state(RUNNING) starts one, and start() another
          NoMessage,
          MaxRetries,  \* MAX_RETRIES
          MaxCopies    \* bound: copies of a message in a queue that are told apart

ASSUME RetryAssumption ==
    /\ High \cup Invalid \subseteq Messages
    /\ NoMessage \notin Messages
    /\ IsFiniteSet(Messages)
    /\ MaxRetries \in Nat
    /\ MaxCopies \in Nat \ {0}

VARIABLES adding,    \* where add_message() is with each message
          tracked,   \* keys of _message_tracking
          tries,     \* the retry counts there
          late,      \* tracked messages older than MESSAGE_TIMEOUT
          retrying,  \* keys of _retry_tracking
          due,       \* those last tried RETRY_DELAY ago
          queue,     \* the queue of each priority
          at,        \* where each worker is
          holds,     \* the message it took
          watchdog,  \* where each watchdog is
          found      \* the retry candidates it has still to look at

books == <<tracked, tries, late, retrying, due>>
working == <<at, holds>>
watching == <<watchdog, found>>
vars == <<adding, books, queue, working, watching>>

\* get_priority() never answers LOW: the third queue stays empty.
Priorities == {"HIGH", "NORMAL"}

Priority(m) == IF m \in High THEN "HIGH" ELSE "NORMAL"

Init ==
    /\ adding = [m \in Messages |-> "no"]
    /\ tracked = {} /\ late = {} /\ retrying = {} /\ due = {}
    /\ tries = [m \in Messages |-> 0]
    /\ queue = [p \in Priorities |-> << >>]
    /\ at = [w \in Workers |-> "idle"]
    /\ holds = [w \in Workers |-> NoMessage]
    /\ watchdog = [d \in Watchdogs |-> "timeouts"]
    /\ found = [d \in Watchdogs |-> {}]

\* The count of tries, as far as MayRetry() tells counts apart.
OneMore(n) == IF n < MaxRetries THEN n + 1 ELSE n

\* The copies of a message in a queue.
Copies(p, m) == Cardinality({i \in DOMAIN queue[p] : queue[p][i] = m})

\* PriorityQueue.put(), of the messages ms one after the other: a new key of
\* the book starts its time now, one that is there keeps the time it has.
\* Beyond MaxCopies the copies of a message are not told apart.
Put(p, ms) ==
    /\ \E s \in SetToSeqs({m \in ms : Copies(p, m) < MaxCopies}) :
          queue' = [queue EXCEPT ![p] = @ \o s]
    /\ retrying' = retrying \cup ms
    /\ due' = due

-----------------------------------------------------------------------------
\* add_message(): the message is tracked ...
Track(m) ==
    /\ adding[m] = "no"
    /\ tracked' = tracked \cup {m}
    /\ adding' = [adding EXCEPT ![m] = "tracked"]
    /\ UNCHANGED <<tries, late, retrying, due, queue, working, watching>>

\* ... and, if it is valid, queued.  One that is not stays tracked.
Enqueue(m) ==
    /\ adding[m] = "tracked"
    /\ adding' = [adding EXCEPT ![m] = "added"]
    /\ IF m \in Invalid THEN UNCHANGED <<queue, retrying, due>>
                        ELSE Put(Priority(m), {m})
    /\ UNCHANGED <<tracked, tries, late, working, watching>>

Add(m) == Track(m) \/ Enqueue(m)

-----------------------------------------------------------------------------
\* The queue a worker takes from: the first that is not empty.
First(p) ==
    /\ queue[p] # << >>
    /\ p = "NORMAL" => queue["HIGH"] = << >>

Take(w) ==
    /\ at[w] = "idle"
    /\ \E p \in Priorities :
          /\ First(p)
          /\ holds' = [holds EXCEPT ![w] = Head(queue[p])]
          /\ queue' = [queue EXCEPT ![p] = Tail(@)]
    /\ at' = [at EXCEPT ![w] = "handling"]
    /\ UNCHANGED <<adding, books, watching>>

\* Faulty variant of TaskDone: task_done() is not called.
TaskDoneKeeps(w) ==
    /\ at[w] = "handling"
    /\ at' = [at EXCEPT ![w] = "done"]
    /\ UNCHANGED <<adding, books, queue, holds, watching>>

\* The handler returns and task_done() drops the key of the queue's book.
TaskDone(w) ==
    /\ at[w] = "handling"
    /\ retrying' = retrying \ {holds[w]}
    /\ due' = due \ {holds[w]}
    /\ at' = [at EXCEPT ![w] = "done"]
    /\ UNCHANGED <<adding, tracked, tries, late, queue, holds, watching>>

\* The message leaves _message_tracking.
Untrack(w) ==
    /\ at[w] = "done"
    /\ tracked' = tracked \ {holds[w]}
    /\ late' = late \ {holds[w]}
    /\ tries' = [tries EXCEPT ![holds[w]] = 0]
    /\ at' = [at EXCEPT ![w] = "idle"]
    /\ holds' = [holds EXCEPT ![w] = NoMessage]
    /\ UNCHANGED <<adding, retrying, due, queue, watching>>

Work(w) == Take(w) \/ TaskDone(w) \/ Untrack(w)

-----------------------------------------------------------------------------
\* Whether a message that timed out is queued once more.
MayRetry(m) == m \notin Invalid /\ tries[m] < MaxRetries

\* Faulty variant of Timeouts: a message whose tries are used up is not
\* removed.
TimeoutsKeep(d) ==
    /\ watchdog[d] = "timeouts"
    /\ tries' = [m \in Messages |-> IF m \in late /\ MayRetry(m) THEN tries[m] + 1
                                    ELSE tries[m]]
    /\ late' = {}
    /\ Put("HIGH", {m \in late : MayRetry(m)})
    /\ watchdog' = [watchdog EXCEPT ![d] = "candidates"]
    /\ UNCHANGED <<adding, tracked, working, found>>

\* A watchdog, in one section of _transaction_lock: what timed out is
\* queued with high priority and counted, or leaves the tracking.
Timeouts(d) ==
    /\ watchdog[d] = "timeouts"
    /\ tracked' = {m \in tracked : m \notin late \/ MayRetry(m)}
    /\ tries' = [m \in Messages |-> IF m \notin late THEN tries[m]
                                    ELSE IF MayRetry(m) THEN tries[m] + 1 ELSE 0]
    /\ late' = {}
    /\ Put("HIGH", {m \in late : MayRetry(m)})
    /\ watchdog' = [watchdog EXCEPT ![d] = "candidates"]
    /\ UNCHANGED <<adding, working, found>>

\* get_retry_candidates(), under the queue's lock.
Candidates(d) ==
    /\ watchdog[d] = "candidates"
    /\ found' = [found EXCEPT ![d] = due]
    /\ watchdog' = [watchdog EXCEPT ![d] = "requeue"]
    /\ UNCHANGED <<adding, books, queue, working>>

\* Faulty variant of Requeue: the candidate is not looked up again.
RequeueBlind(d, m) ==
    /\ watchdog[d] = "requeue"
    /\ m \in found[d]
    /\ found' = [found EXCEPT ![d] = @ \ {m}]
    /\ Put("HIGH", {m})
    /\ UNCHANGED <<adding, tracked, tries, late, working, watchdog>>

\* One candidate, in a section of _transaction_lock of its own: if it is
\* still tracked it is queued with high priority, whatever its count.
Requeue(d, m) ==
    /\ watchdog[d] = "requeue"
    /\ m \in found[d]
    /\ found' = [found EXCEPT ![d] = @ \ {m}]
    /\ IF m \in tracked
       THEN /\ tries' = [tries EXCEPT ![m] = OneMore(@)]
            /\ late' = late \ {m}
            /\ Put("HIGH", {m})
       ELSE UNCHANGED <<tries, late, queue, retrying, due>>
    /\ UNCHANGED <<adding, tracked, working, watchdog>>

Sleep(d) ==
    /\ watchdog[d] = "requeue"
    /\ found[d] = {}
    /\ watchdog' = [watchdog EXCEPT ![d] = "timeouts"]
    /\ UNCHANGED <<adding, books, queue, working, found>>

Watch(d) == Timeouts(d) \/ Candidates(d) \/ Sleep(d) \/ \E m \in Messages : Requeue(d, m)

-----------------------------------------------------------------------------
\* Time passes for a message that was added; thirty seconds are longer than
\* five.
DelayPasses(m) ==
    /\ m \in retrying \ due
    /\ due' = due \cup {m}
    /\ UNCHANGED <<adding, tracked, tries, late, retrying, queue, working, watching>>

TimeoutPasses(m) ==
    /\ adding[m] = "added"
    /\ m \in tracked \ late
    /\ m \in retrying => m \in due
    /\ late' = late \cup {m}
    /\ UNCHANGED <<adding, tracked, tries, retrying, due, queue, working, watching>>

Next ==
    \/ \E m \in Messages : Add(m) \/ DelayPasses(m) \/ TimeoutPasses(m)
    \/ \E w \in Workers : Work(w)
    \/ \E d \in Watchdogs : Watch(d)

\* add_message() is not interrupted, handlers return, the watchdogs go round
\* and time passes.  Nobody has to add a message.
Fairness ==
    /\ \A m \in Messages : 
          WF_vars(Enqueue(m)) /\ WF_vars(DelayPasses(m)) /\ WF_vars(TimeoutPasses(m))
    /\ \A w \in Workers : WF_vars(Work(w))
    /\ \A d \in Watchdogs : WF_vars(Watch(d))

Spec == Init /\ [][Next]_vars /\ Fairness

-----------------------------------------------------------------------------
TypeOK ==
    /\ adding \in [Messages -> {"no", "tracked", "added"}]
    /\ tracked \subseteq Messages /\ late \subseteq tracked
    /\ retrying \subseteq Messages /\ due \subseteq retrying
    /\ tries \in [Messages -> 0 .. MaxRetries]
    /\ queue \in [Priorities -> Seq(Messages)]
    /\ at \in [Workers -> {"idle", "handling", "done"}]
    /\ holds \in [Workers -> Messages \cup {NoMessage}]
    /\ watchdog \in [Watchdogs -> {"timeouts", "candidates", "requeue"}]
    /\ found \in [Watchdogs -> SUBSET Messages]

\* A copy that waits in a queue or is with a worker.
Waiting(m) == \E p \in Priorities : Contains(queue[p], m)
Held(m, places) == \E w \in Workers : holds[w] = m /\ at[w] \in places

\* Neither book keeps a message in vain: a valid message that is tracked, or
\* that a watchdog may find due, has a copy that a worker will come to.
EntriesHaveCopies ==
    \A m \in Messages \ Invalid :
        /\ m \in retrying => Waiting(m) \/ Held(m, {"handling"})
        /\ m \in tracked /\ adding[m] = "added" =>
              Waiting(m) \/ Held(m, {"handling", "done"})

\* Once a message has left the tracking it is over: the watchdogs, which found
\* their candidates before, queue no further copy.
FinishedStayFinished ==
    [][\A m \in Messages :
          adding[m] = "added" /\ m \notin tracked => 
              \A p \in Priorities : Copies(p, m)' <= Copies(p, m)]_vars

\* Retrying comes to an end: when no more messages are added, every copy the
\* watchdogs made has been handled, no worker has one left and both books are
\* empty, the entries of invalid messages by their timeout.
RetriesEnd ==
    <>[](/\ \A m \in Messages : adding[m] # "tracked" /\ ~Waiting(m)
         /\ \A w \in Workers : at[w] = "idle"
         /\ tracked = {} /\ retrying = {})
=============================================================================
