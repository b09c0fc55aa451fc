--------------------------- MODULE ConnectionPool ---------------------------
(***************************************************************************)
(* storage/DBM.py, class ConnectionPool: a FIFO of idle SQLite handles, a   *)
(* counter of the handles that exist and the set of handles handed out for  *)
(* a transaction.  A client thread runs get_connection(), works with the    *)
(* handle and runs return_connection(); each is split where the code        *)
(* releases ConnectionPool.lock or calls out to SQLite, so that another     *)
(* thread can run in between.                                              *)
(***************************************************************************)
EXTENDS Integers, Sequences, FiniteSets

CONSTANTS
  Threads,     \* client threads (the workers of the shared executor)
  Conns,       \* connection handles that can exist
  MinConn,     \* min_connections
  MaxConn,     \* max_connections
  NoConn       \* "conn = None"

ASSUME PoolAssumption ==
  /\ MinConn \in Nat
  /\ MaxConn \in Nat \ {0}
  /\ MinConn <= MaxConn
  /\ IsFiniteSet(Threads)
  /\ NoConn \notin Conns

VARIABLES
  pool,        \* self.pool: queue of idle handles
  count,       \* self.connection_count
  txStates,    \* keys of self.transaction_states
  dead,        \* handles whose database can no longer be used
  pc,          \* where each thread is
  conn,        \* the handle each thread holds, or NoConn
  forTx,       \* argument for_transaction of the thread's current call
  lost         \* handles that return_connection() dropped without a decrement

vars == <<pool, count, txStates, dead, pc, conn, forTx, lost>>

\* "grow" and "lastGrow" stand before the two calls of _grow_locked(), "create"
\* and "lastCreate" between its two critical sections, "wait" in the blocking
\* pool.get(), "check" before is_connection_valid(), "closed" after
\* close_connection() and "refill" in the creation of the replacement.
PCs == {"idle", "grow", "create", "wait", "lastGrow", "lastCreate", "timedOut",
        "use", "return", "check", "closed", "refill"}

\* A thread in one of these states accounts for one unit of connection_count.
Reserving == {"create", "lastCreate", "refill"}
Holding   == {"use", "return", "check"}
Occupying == Reserving \cup Holding \cup {"closed"}

Pooled   == {pool[i] : i \in 1..Len(pool)}
Held     == {conn[t] : t \in Threads} \ {NoConn}
Occupied == {t \in Threads : pc[t] \in Occupying}

TypeOK ==
  /\ pool \in Seq(Conns)
  /\ count \in Int
  /\ txStates \subseteq Conns
  /\ dead \subseteq Conns
  /\ pc \in [Threads -> PCs]
  /\ conn \in [Threads -> Conns \cup {NoConn}]
  /\ forTx \in [Threads -> BOOLEAN]
  /\ lost \in Nat

Init ==
  /\ pool \in {s \in [1..MinConn -> Conns] :
                 \A i, j \in 1..MinConn : s[i] = s[j] => i = j}
  /\ count = MinConn
  /\ txStates = {}
  /\ dead = {}
  /\ pc = [t \in Threads |-> "idle"]
  /\ conn = [t \in Threads |-> NoConn]
  /\ forTx = [t \in Threads |-> FALSE]
  /\ lost = 0

Goto(t, label) == pc' = [pc EXCEPT ![t] = label]

\* The call returns, or raises, to its caller.
Leave(t) == Goto(t, "idle") /\ forTx' = [forTx EXCEPT ![t] = FALSE]

-----------------------------------------------------------------------------
\* get_connection()

\* The handle c becomes t's, and is flagged when the call was for a transaction.
HandOut(t, c, tx) ==
  /\ conn' = [conn EXCEPT ![t] = c]
  /\ txStates' = IF tx THEN txStates \cup {c} ELSE txStates
  /\ Goto(t, "use")

\* Step 1: take an idle handle without blocking.
TakeFast(t, tx) ==
  /\ pc[t] = "idle"
  /\ pool # <<>>
  /\ HandOut(t, Head(pool), tx)
  /\ pool' = Tail(pool)
  /\ forTx' = [forTx EXCEPT ![t] = tx]
  /\ UNCHANGED <<count, dead, lost>>

\* Step 1 finds the queue empty.
FindEmpty(t, tx) ==
  /\ pc[t] = "idle"
  /\ pool = <<>>
  /\ forTx' = [forTx EXCEPT ![t] = tx]
  /\ Goto(t, "grow")
  /\ UNCHANGED <<pool, count, txStates, dead, conn, lost>>

\* Faulty variant of Reserve: the pool is full one handle too late.
ReserveOneMore(t, from, granted, refused) ==
  /\ pc[t] = from
  /\ IF count > MaxConn
       THEN Goto(t, refused) /\ UNCHANGED count
       ELSE Goto(t, granted) /\ count' = count + 1
  /\ UNCHANGED <<pool, txStates, dead, conn, forTx, lost>>

\* The first critical section of _grow_locked(): reserve a slot or give up.
Reserve(t, from, granted, refused) ==
  /\ pc[t] = from
  /\ IF count >= MaxConn
       THEN Goto(t, refused) /\ UNCHANGED count
       ELSE Goto(t, granted) /\ count' = count + 1
  /\ UNCHANGED <<pool, txStates, dead, conn, forTx, lost>>

Grow(t)     == Reserve(t, "grow", "create", "wait")
LastGrow(t) == Reserve(t, "lastGrow", "lastCreate", "timedOut")

\* Faulty variant of Fresh: the handle may be one that is already lent.
FreshShared(c) == c \in Conns /\ c \notin Pooled

\* create_connection() opens a handle no one else refers to.
Fresh(c) == c \in Conns /\ c \notin Pooled /\ c \notin Held

CreateOk(t, c) ==
  /\ pc[t] \in {"create", "lastCreate"}
  /\ Fresh(c)
  /\ HandOut(t, c, forTx[t])
  /\ dead' = dead \ {c}
  /\ UNCHANGED <<pool, count, forTx, lost>>

\* Faulty variant of CreateFails: the reservation is kept.
CreateFailsKeeps(t) ==
  /\ pc[t] \in {"create", "lastCreate"}
  /\ Leave(t)
  /\ UNCHANGED <<pool, count, txStates, dead, conn, lost>>

\* create_connection() raises: the reservation is released and the call raises.
CreateFails(t) ==
  /\ pc[t] \in {"create", "lastCreate"}
  /\ count' = count - 1
  /\ Leave(t)
  /\ UNCHANGED <<pool, txStates, dead, conn, lost>>

\* Step 3: the blocking get() is served by a handle put into the queue ...
Wake(t) ==
  /\ pc[t] = "wait"
  /\ pool # <<>>
  /\ HandOut(t, Head(pool), forTx[t])
  /\ pool' = Tail(pool)
  /\ UNCHANGED <<count, dead, forTx, lost>>

\* Faulty variant of WaitExpires: a timeout that never ends the wait.
WaitForever(t) ==
  /\ pc[t] = "wait"
  /\ pool = <<>>
  /\ UNCHANGED vars

\* ... or its timeout elapses, while the queue is empty.
WaitExpires(t) ==
  /\ pc[t] = "wait"
  /\ pool = <<>>
  /\ Goto(t, "lastGrow")
  /\ UNCHANGED <<pool, count, txStates, dead, conn, forTx, lost>>

\* ConnectionPoolTimeout propagates to the caller.
RaiseTimeout(t) ==
  /\ pc[t] = "timedOut"
  /\ Leave(t)
  /\ UNCHANGED <<pool, count, txStates, dead, conn, lost>>

-----------------------------------------------------------------------------
\* The caller's use of the handle, and return_connection()

\* The database behind an open handle goes away (closed, corrupt, deleted).
HandleDies(c) ==
  /\ c \in (Pooled \cup Held) \ dead
  /\ dead' = dead \cup {c}
  /\ UNCHANGED <<pool, count, txStates, pc, conn, forTx, lost>>

StartReturn(t) ==
  /\ pc[t] = "use"
  /\ Goto(t, "return")
  /\ UNCHANGED <<pool, count, txStates, dead, conn, forTx, lost>>

\* Faulty variant of RollBack: a dead handle is reopened in its borrower's hands.
RollBackReopens(t) ==
  /\ pc[t] = "return"
  /\ \E c \in {d \in Conns : conn[t] \in dead /\ Fresh(d)} \cup {conn[t]} :
       conn' = [conn EXCEPT ![t] = c]
  /\ txStates' = txStates \ {conn[t]}
  /\ Goto(t, "check")
  /\ UNCHANGED <<pool, count, dead, forTx, lost>>

\* The transaction flag is read; a flagged handle is rolled back and unflagged
\* (an OperationalError of the rollback is ignored).
RollBack(t) ==
  /\ pc[t] = "return"
  /\ txStates' = txStates \ {conn[t]}
  /\ Goto(t, "check")
  /\ UNCHANGED <<pool, count, dead, conn, forTx, lost>>

\* Faulty variant of RollBackRaises: the flag survives the failed rollback.
RollBackRaisesFlagged(t) ==
  /\ pc[t] = "return"
  /\ conn[t] \in txStates \cap dead
  /\ conn' = [conn EXCEPT ![t] = NoConn]
  /\ lost' = lost + 1
  /\ Leave(t)
  /\ UNCHANGED <<pool, count, txStates, dead>>

\* The rollback of a dead handle raises another sqlite3.Error: the outer handler
\* drops the flag and returns, with the handle neither queued nor uncounted.
RollBackRaises(t) ==
  /\ pc[t] = "return"
  /\ conn[t] \in txStates \cap dead
  /\ txStates' = txStates \ {conn[t]}
  /\ conn' = [conn EXCEPT ![t] = NoConn]
  /\ lost' = lost + 1
  /\ Leave(t)
  /\ UNCHANGED <<pool, count, dead>>

PutBack(t) ==
  /\ pc[t] = "check"
  /\ conn[t] \notin dead
  /\ pool' = Append(pool, conn[t])
  /\ conn' = [conn EXCEPT ![t] = NoConn]
  /\ Leave(t)
  /\ UNCHANGED <<count, txStates, dead, lost>>

\* is_connection_valid() fails: close the handle outside the lock.
Discard(t) ==
  /\ pc[t] = "check"
  /\ conn[t] \in dead
  /\ conn' = [conn EXCEPT ![t] = NoConn]
  /\ Goto(t, "closed")
  /\ UNCHANGED <<pool, count, txStates, dead, forTx, lost>>

\* Uncount the closed handle, and reserve its replacement below the minimum.
Uncount(t) ==
  /\ pc[t] = "closed"
  /\ IF count - 1 < MinConn
       THEN Goto(t, "refill") /\ UNCHANGED <<count, forTx>>
       ELSE Leave(t) /\ count' = count - 1
  /\ UNCHANGED <<pool, txStates, dead, conn, lost>>

RefillOk(t, c) ==
  /\ pc[t] = "refill"
  /\ Fresh(c)
  /\ pool' = Append(pool, c)
  /\ dead' = dead \ {c}
  /\ Leave(t)
  /\ UNCHANGED <<count, txStates, conn, lost>>

RefillFails(t) ==
  /\ pc[t] = "refill"
  /\ count' = count - 1
  /\ Leave(t)
  /\ UNCHANGED <<pool, txStates, dead, conn, lost>>

-----------------------------------------------------------------------------
Acquire(t) ==
  \/ \E tx \in BOOLEAN : TakeFast(t, tx) \/ FindEmpty(t, tx)
  \/ Grow(t)
  \/ LastGrow(t)
  \/ \E c \in Conns : CreateOk(t, c)
  \/ CreateFails(t)
  \/ Wake(t)
  \/ WaitExpires(t)
  \/ RaiseTimeout(t)

Return(t) ==
  \/ StartReturn(t)
  \/ RollBack(t)
  \/ RollBackRaises(t)
  \/ PutBack(t)
  \/ Discard(t)
  \/ Uncount(t)
  \/ \E c \in Conns : RefillOk(t, c)
  \/ RefillFails(t)

Next ==
  \/ \E t \in Threads : Acquire(t) \/ Return(t)
  \/ \E c \in Conns : HandleDies(c)

\* A started call runs on: the interpreter schedules every runnable thread, and
\* a blocked get() is woken by a put or by its timeout.  Nothing forces a thread
\* to start a call.
Fairness ==
  \A t \in Threads :
    /\ WF_vars(pc[t] # "idle" /\ Acquire(t))
    /\ WF_vars(Return(t))

Spec     == Init /\ [][Next]_vars
FairSpec == Spec /\ Fairness

-----------------------------------------------------------------------------
\* Properties

\* Every unit of connection_count is an idle handle, a handle in a thread's
\* hands, a reservation being filled, or a handle the outer except of
\* return_connection() dropped: "every path above that removes a connection has
\* already accounted for it" (DBM.py:274), but for that last kind.
CountAccounted == count = Len(pool) + Cardinality(Occupied) + lost

\* connection_count never exceeds max_connections, and so neither do the handles
\* open at a time, in every interleaving of reservations, failed creations,
\* discards and refills (Tests/test_db_connection_pool.py, cases 2 and 7).
WithinCapacity ==
  /\ count \in 0..MaxConn
  /\ Len(pool) + Cardinality(Occupied) <= MaxConn

\* A handle is in one place: held by one thread, or once in the queue.
HandlesExclusive ==
  /\ \A i, j \in 1..Len(pool) : pool[i] = pool[j] => i = j
  /\ \A t \in Threads : conn[t] # NoConn => conn[t] \notin Pooled
  /\ \A t, u \in Threads : conn[t] = conn[u] /\ conn[t] # NoConn => t = u

\* A handle is flagged in transaction_states, whose keys are read and deleted
\* without the lock, exactly while a caller that asked for a transaction works
\* with it: no later borrower inherits a flag that would roll its own work back,
\* and nobody else's return takes the flag, and with it the rollback, away.
\* (A caller may begin a transaction on an unflagged handle, and the rollback of
\* a flagged one may fail unnoticed: DatabaseAccess has what is left open then.)
FlagsFollowLoans ==
  /\ \A c \in txStates : \E t \in Threads : conn[t] = c /\ forTx[t]
  /\ \A t \in Threads : pc[t] \in {"use", "return"} => (conn[t] \in txStates <=> forTx[t])

\* The pool implements the loans it promises: conn is the lent handle.
Loans == INSTANCE HandleLoans WITH loan <- conn
ImplementsLoans == Loans!LoansSpec

\* A call that started ends: a waiter is served, grows the pool or raises.
CallsEnd == \A t \in Threads : pc[t] \in PCs \ {"use", "idle"} ~> pc[t] \in {"use", "idle"}
=============================================================================
