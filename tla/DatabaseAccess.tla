--------------------------- MODULE DatabaseAccess ---------------------------
(***************************************************************************)
(* How threads share a database file.  Several systems keep their tables   *)
(* in one file and each has a pool of connections to it; SQLite lets one   *)
(* connection at a time write.                                             *)
(*                                                                         *)
(* A caller is a thread in one of the four ways this code uses a           *)
(* connection: execute_query() with a select (Readers) or with anything    *)
(* else (Writers, who queue on the file's write lock before they take a    *)
(* connection), extract_and_store_binary_data() (Storers: a transaction,   *)
(* then a select that looks for its rows) and the update of the link       *)
(* record at its end (Updaters), which take a connection without the write *)
(* lock.  ConnectionPool has the pools' inside; here a pool lends any      *)
(* connection that is not lent.                                            *)
(* Back-off and rate limits only delay a call and are left out.            *)
(***************************************************************************)
EXTENDS Naturals, FiniteSets

CONSTANTS Readers, Writers, Storers, Updaters,
          Conns,
          SystemOf,  \* the system of each caller and of each connection
          FileOf,    \* the database file of each system
          Attempts,  \* retry_attempts
          Nobody,    \* no connection
          Other      \* another process

Callers == Readers \cup Writers \cup Storers \cup Updaters

ASSUME AccessAssumption ==
    /\ Readers \cap (Writers \cup Storers \cup Updaters) = {}
    /\ Writers \cap (Storers \cup Updaters) = {} /\ Storers \cap Updaters = {}
    /\ Nobody \notin Conns /\ Other \notin Conns /\ Nobody # Other
    /\ \A x \in Callers \cup Conns : SystemOf[x] \in DOMAIN FileOf
    /\ Attempts \in Nat \ {0}

VARIABLES at,        \* where each caller is
          locked,    \* writers that hold the write lock of their file
          loan,      \* the connection lent to each caller, or Nobody
          tried,     \* the number of the attempt
          failed,    \* callers whose attempt raised
          verifying, \* storers that have committed, and look for their rows
          fileLock,  \* who may write to each file: a connection, Other or Nobody
          open,      \* connections with an open transaction
          pending,   \* the callers whose rows each transaction holds
          stored,    \* the callers whose rows were committed
          answer     \* what each caller was told

calls == <<at, tried, failed, verifying, answer>>
database == <<fileLock, open, pending, stored>>
vars == <<calls, locked, loan, database>>

Files == {FileOf[s] : s \in DOMAIN FileOf}
File(x) == FileOf[SystemOf[x]]

\* What get_connection() does first: a caller that writes through
\* execute_query() queues on the write lock, the others go to the pool.
Entry(t) == IF t \in Writers THEN "lock" ELSE "borrow"

Init ==
    /\ at = [t \in Callers |-> Entry(t)]
    /\ locked = {}
    /\ loan = [t \in Callers |-> Nobody]
    /\ tried = [t \in Callers |-> 1]
    /\ failed = {}
    /\ verifying = {}
    /\ fileLock = [f \in Files |-> Nobody]
    /\ open = {}
    /\ pending = [c \in Conns |-> {}]
    /\ stored = {}
    /\ answer = [t \in Callers |-> "none"]

\* Those whose statement is a select.
Selecting == Readers \cup verifying

Goto(t, place) == at' = [at EXCEPT ![t] = place]

-----------------------------------------------------------------------------
\* Faulty variant of LockKey: a lock for each system.
LockKeySystem(t) == SystemOf[t]

\* get_db_write_lock() keeps one lock for each file.
LockKey(t) == File(t)

Lock(t) ==
    /\ at[t] = "lock"
    /\ \A u \in locked : LockKey(u) # LockKey(t)
    /\ locked' = locked \cup {t}
    /\ Goto(t, "borrow")
    /\ UNCHANGED <<tried, failed, verifying, answer, loan, database>>

Idle(t) == {c \in Conns : SystemOf[c] = SystemOf[t] /\ \A u \in Callers : loan[u] # c}

\* The first statement: only the callers with a transaction of their own
\* begin one.
Borrow(t) ==
    /\ at[t] = "borrow"
    /\ \E c \in Idle(t) : loan' = [loan EXCEPT ![t] = c]
    /\ Goto(t, IF t \in (Writers \cup Storers) \ Selecting THEN "begin" ELSE "query")
    /\ UNCHANGED <<tried, failed, verifying, answer, locked, database>>

\* Opening a further connection raises an sqlite3.Error.
OpenFails(t) ==
    /\ at[t] = "borrow"
    /\ failed' = failed \cup {t}
    /\ Goto(t, "unlock")
    /\ UNCHANGED <<tried, verifying, answer, locked, loan, database>>

\* ConnectionPoolTimeout is no sqlite3.Error: no attempt follows.
PoolTimeout(t) ==
    /\ at[t] = "borrow"
    /\ Idle(t) = {}
    /\ failed' = failed \cup {t}
    /\ tried' = [tried EXCEPT ![t] = Attempts]
    /\ Goto(t, "unlock")
    /\ UNCHANGED <<verifying, answer, locked, loan, database>>

-----------------------------------------------------------------------------
\* SQLite: the transaction of c is over, and with it c's right to write.
EndTransaction(c) ==
    /\ open' = open \ {c}
    /\ pending' = [pending EXCEPT ![c] = {}]
    /\ fileLock' = [f \in Files |-> IF fileLock[f] = c THEN Nobody ELSE fileLock[f]]

\* The exception leaves the with block.
Raise(t) ==
    /\ failed' = failed \cup {t}
    /\ Goto(t, "return")
    /\ UNCHANGED <<tried, verifying, answer, locked, loan>>

MayWrite(c) == fileLock[File(c)] \in {c, Nobody}

\* BEGIN IMMEDIATE takes the right to write, BEGIN TRANSACTION does not.
Begin(t) ==
    LET c == loan[t] IN
    /\ at[t] = "begin"
    /\ c \notin open
    /\ IF t \in Writers
       THEN MayWrite(c) /\ fileLock' = [fileLock EXCEPT ![File(c)] = c]
       ELSE UNCHANGED fileLock
    /\ open' = open \cup {c}
    /\ Goto(t, "query")
    /\ UNCHANGED <<tried, failed, verifying, answer, locked, loan, pending, stored>>

\* The connection came with a transaction, or BEGIN IMMEDIATE found the file
\* locked for ten seconds.  execute_query() rolls back; the other does not,
\* for it has not begun.
BeginFails(t) ==
    LET c == loan[t] IN
    /\ at[t] = "begin"
    /\ c \in open \/ (t \in Writers /\ ~MayWrite(c))
    /\ IF t \in Writers THEN EndTransaction(c) ELSE UNCHANGED <<open, pending, fileLock>>
    /\ Raise(t)
    /\ UNCHANGED stored

\* The statement of a writer needs the right to write, and a transaction,
\* which the sqlite3 module begins for a caller that has not.
Query(t) ==
    LET c == loan[t] IN
    /\ at[t] = "query" /\ t \notin Selecting
    /\ MayWrite(c)
    /\ fileLock' = [fileLock EXCEPT ![File(c)] = c]
    /\ open' = open \cup {c}
    /\ pending' = [pending EXCEPT ![c] = @ \cup {t}]
    /\ Goto(t, "commit")
    /\ UNCHANGED <<tried, failed, verifying, answer, locked, loan, stored>>

\* Faulty variant of QueryFails: extract_and_store_binary_data() keeps its
\* transaction, of which an object is already in.
QueryFailsKeeps(t) ==
    LET c == loan[t] IN
    /\ at[t] = "query" /\ t \notin Selecting
    /\ IF t \in Writers THEN EndTransaction(c)
       ELSE /\ open' = open \cup {c}
            /\ IF t \in Storers /\ MayWrite(c)
               THEN /\ pending' = [pending EXCEPT ![c] = @ \cup {t}]
                    /\ fileLock' = [fileLock EXCEPT ![File(c)] = c]
               ELSE UNCHANGED <<pending, fileLock>>
    /\ Raise(t)
    /\ UNCHANGED stored

\* It raises: the file stayed locked, or the statement is refused.  The link
\* update leaves the transaction that was begun for it.
QueryFails(t) ==
    LET c == loan[t] IN
    /\ at[t] = "query" /\ t \notin Selecting
    /\ IF t \in Updaters THEN open' = open \cup {c} /\ UNCHANGED <<pending, fileLock>>
                         ELSE EndTransaction(c)
    /\ Raise(t)
    /\ UNCHANGED stored

Read(t) ==
    /\ at[t] = "query" /\ t \in Selecting
    /\ Goto(t, "return")
    /\ UNCHANGED <<tried, failed, verifying, answer, locked, loan, database>>

ReadFails(t) ==
    /\ at[t] = "query" /\ t \in Selecting
    /\ Raise(t)
    /\ UNCHANGED database

Commit(t) ==
    LET c == loan[t] IN
    /\ at[t] = "commit"
    /\ stored' = stored \cup pending[c]
    /\ EndTransaction(c)
    /\ Goto(t, "return")
    /\ UNCHANGED <<tried, failed, verifying, answer, locked, loan>>

\* SQLite may keep the transaction whose commit failed; the link update then
\* leaves it, rows and right to write and all.
CommitFails(t) ==
    LET c == loan[t] IN
    /\ at[t] = "commit"
    /\ \/ EndTransaction(c)
       \/ t \in Updaters /\ UNCHANGED <<open, pending, fileLock>>
    /\ Raise(t)
    /\ UNCHANGED stored

-----------------------------------------------------------------------------
\* return_connection() rolls back only a connection that was borrowed for a
\* transaction.
Return(t) ==
    LET c == loan[t] IN
    /\ at[t] = "return"
    /\ IF t \in Writers THEN EndTransaction(c) ELSE UNCHANGED <<open, pending, fileLock>>
    /\ loan' = [loan EXCEPT ![t] = Nobody]
    /\ Goto(t, "unlock")
    /\ UNCHANGED <<tried, failed, verifying, answer, locked, stored>>

\* execute_query() tries again after an sqlite3.Error.
Again(t) == t \in Selecting \cup Writers /\ t \in failed /\ tried[t] < Attempts

TryAgain(t) ==
    /\ Again(t)
    /\ tried' = [tried EXCEPT ![t] = @ + 1]
    /\ Goto(t, Entry(t))
    /\ UNCHANGED <<verifying, answer>>

\* A storer whose transaction is through counts the rows of its request, with
\* execute_query().
Verify(t) ==
    /\ t \in Storers \ (verifying \cup failed)
    /\ verifying' = verifying \cup {t}
    /\ Goto(t, "borrow")
    /\ UNCHANGED <<tried, answer>>

\* A storer is told what the select found, which may be nothing: it may read in
\* an older transaction that was left on its connection.
Answers(t) == IF t \in failed THEN {"failed"}
              ELSE IF t \in Storers THEN {"ok", "failed"} ELSE {"ok"}

Answer(t) ==
    /\ ~Again(t)
    /\ t \in Storers => t \in verifying \cup failed
    /\ \E a \in Answers(t) : answer' = [answer EXCEPT ![t] = a]
    /\ Goto(t, "done")
    /\ UNCHANGED <<tried, verifying>>

\* Faulty variant of Unlock: a call that gives up keeps the lock.
UnlockUnlessFailed(t) ==
    /\ at[t] = "unlock"
    /\ locked' = IF t \in failed /\ ~Again(t) THEN locked ELSE locked \ {t}
    /\ TryAgain(t) \/ Verify(t) \/ Answer(t)
    /\ failed' = failed \ {t}
    /\ UNCHANGED <<loan, database>>

\* The write lock is released; the call is tried again, goes on or ends.
Unlock(t) ==
    /\ at[t] = "unlock"
    /\ locked' = locked \ {t}
    /\ TryAgain(t) \/ Verify(t) \/ Answer(t)
    /\ failed' = failed \ {t}
    /\ UNCHANGED <<loan, database>>

\* A second instance of the program, or an sqlite3 shell.
OtherLocks(f) ==
    /\ fileLock[f] = Nobody
    /\ fileLock' = [fileLock EXCEPT ![f] = Other]
    /\ UNCHANGED <<calls, locked, loan, open, pending, stored>>

OtherUnlocks(f) ==
    /\ fileLock[f] = Other
    /\ fileLock' = [fileLock EXCEPT ![f] = Nobody]
    /\ UNCHANGED <<calls, locked, loan, open, pending, stored>>

Step(t) ==
    \/ Lock(t) \/ Borrow(t) \/ OpenFails(t) \/ PoolTimeout(t)
    \/ Begin(t) \/ BeginFails(t) \/ Query(t) \/ QueryFails(t) \/ Read(t) \/ ReadFails(t)
    \/ Commit(t) \/ CommitFails(t) \/ Return(t) \/ Unlock(t)

Next ==
    \/ \E t \in Callers : Step(t)
    \/ \E f \in Files : OtherLocks(f) \/ OtherUnlocks(f)

Spec == Init /\ [][Next]_vars

\* While threads can go on, one does; a call has a bounded number of steps, so
\* no more is needed.  Another process may keep the file for ever.
FairSpec == Spec /\ WF_vars(\E t \in Callers : Step(t))

-----------------------------------------------------------------------------
TypeOK ==
    /\ at \in [Callers -> {"lock", "borrow", "begin", "query", "commit",
                           "return", "unlock", "done"}]
    /\ locked \subseteq Writers
    /\ loan \in [Callers -> Conns \cup {Nobody}]
    /\ tried \in [Callers -> 1 .. Attempts]
    /\ failed \subseteq Callers
    /\ verifying \subseteq Storers
    /\ fileLock \in [Files -> Conns \cup {Nobody, Other}]
    /\ open \subseteq Conns
    /\ pending \in [Conns -> SUBSET Callers]
    /\ stored \subseteq Callers
    /\ answer \in [Callers -> {"none", "ok", "failed"}]

\* Writers that wait cost no connection: of those who write to a file through
\* execute_query(), by whichever system, at most one has a connection, be it
\* out of its pool or on its way back.
OneWriterOut ==
    \A t, u \in Writers :
        loan[t] # Nobody /\ loan[u] # Nobody /\ File(t) = File(u) => t = u

\* However many attempts it took, whatever transactions the link updates leave
\* in the pool and whatever a verifying select finds: the rows of a transaction
\* get into the file once at most and never after the answer, nobody is told of
\* rows that are not there, and execute_query() never fails with rows stored.
Rows == INSTANCE StoredRows WITH
            Callers <- Writers \cup Storers,
            Sure <- Writers,
            stored <- stored \cap (Writers \cup Storers),
            answer <- [t \in Writers \cup Storers |-> answer[t]]

StoresRows == Rows!RowsSpec

\* Every call ends: no writer waits for ever for the write lock, the pool or
\* the file, with another process in it and transactions left in the pool.
CallsEnd == <>(\A t \in Callers : at[t] = "done")
=============================================================================
