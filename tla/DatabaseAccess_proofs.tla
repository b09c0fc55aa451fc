------------------------ MODULE DatabaseAccess_proofs ------------------------
(***************************************************************************)
(* For any number of callers, connections, systems, files and attempts: at *)
(* most one writer of a file has a connection, and of whoever stores rows  *)
(* in a transaction of its own they are stored once, before the answer.    *)
(***************************************************************************)
EXTENDS DatabaseAccess, TLAPS

\* A caller has a connection exactly from the pool to the end of the with block.
HoldsWhenInside ==
    \A t \in Callers : loan[t] # Nobody <=> at[t] \in {"begin", "query", "commit", "return"}

\* No connection is lent to two callers.
LoansDistinct ==
    \A t, u \in Callers : loan[t] = loan[u] /\ loan[t] # Nobody => t = u

\* Only those that write through execute_query() queue on a write lock.
WritersQueue == \A t \in Callers : at[t] = "lock" => t \in Writers

Shape == TypeOK /\ HoldsWhenInside /\ LoansDistinct /\ WritersQueue

\* A writer that is past the write lock has it, and nobody else has that of
\* its file.
LocksHeld ==
    /\ \A t \in Writers : at[t] \notin {"lock", "done"} => t \in locked
    /\ \A t, u \in locked : File(t) = File(u) => t = u

\* Those that store rows in a transaction of their own.
Careful == Writers \cup Storers

\* Their rows are in the transaction of their own connection, and only until
\* the commit; every caller that commits has its rows there.
RowsPending ==
    /\ \A t \in Careful, c \in Conns : t \in pending[c] => loan[t] = c /\ at[t] = "commit"
    /\ \A t \in Callers : at[t] = "commit" => t \in pending[loan[t]]

\* A caller is answered when it is done, and an attempt that raised is on its
\* way out.
AnsweredWhenDone ==
    /\ \A t \in Callers : answer[t] = "none" <=> at[t] # "done"
    /\ \A t \in failed : at[t] \in {"return", "unlock"}

\* The rows are stored from the commit on, and only if it did not raise; a
\* storer has committed before it verifies.
StoredMeansCommitted ==
    \A t \in Careful :
        t \in stored <=> \/ at[t] \in {"return", "unlock"} /\ t \notin failed
                         \/ t \in verifying
                         \/ answer[t] = "ok"

\* The verifying select has no transaction.
VerifyingSelects == \A t \in verifying : at[t] \notin {"lock", "begin", "commit"}

-----------------------------------------------------------------------------
\* Types and loans

LEMMA FilesTyped == \A x \in Callers \cup Conns : File(x) \in Files
  BY AccessAssumption DEF File, Files

LEMMA TypeInit == Init => Shape
  BY AccessAssumption DEF Init, Shape, TypeOK, HoldsWhenInside, LoansDistinct,
     WritersQueue, Entry

\* The end of a transaction keeps the types of what it touches.
LEMMA EndTyped ==
  ASSUME TypeOK, NEW c \in Conns, EndTransaction(c)
  PROVE  /\ open' \subseteq Conns
         /\ pending' \in [Conns -> SUBSET Callers]
         /\ fileLock' \in [Files -> Conns \cup {Nobody, Other}]
  BY DEF TypeOK, EndTransaction

LEMMA TypeStep ==
  Shape /\ [Next]_vars => Shape'
<1> SUFFICES ASSUME Shape, [Next]_vars PROVE Shape'
  OBVIOUS
<1> USE AccessAssumption DEF Shape, TypeOK, HoldsWhenInside, LoansDistinct,
        WritersQueue
<1>1. ASSUME NEW t \in Callers, Step(t) PROVE Shape'
  <2> DEFINE c == loan[t]
  <2>0. at[t] \in {"begin", "query", "commit", "return"} => c \in Conns /\ File(c) \in Files
    BY FilesTyped
  <2>1. CASE Lock(t)
    BY <2>1 DEF Lock, Goto, database, Entry
  <2>2. CASE Borrow(t)
    BY <2>2 DEF Borrow, Idle, Goto, database
  <2>3. CASE OpenFails(t)
    BY <2>3 DEF OpenFails, Goto, database
  <2>4. CASE PoolTimeout(t)
    BY <2>4 DEF PoolTimeout, Goto, database
  <2>5. CASE Begin(t)
    BY <2>0, <2>5 DEF Begin, Goto
  <2>6. CASE BeginFails(t)
    BY <2>0, <2>6, EndTyped DEF BeginFails, Raise, Goto
  <2>7. CASE Query(t)
    BY <2>0, <2>7 DEF Query, Goto
  <2>8. CASE QueryFails(t)
    BY <2>0, <2>8, EndTyped DEF QueryFails, Raise, Goto
  <2>9. CASE Read(t) \/ ReadFails(t)
    BY <2>9 DEF Read, ReadFails, Raise, Goto, database
  <2>10. CASE Commit(t)
    BY <2>0, <2>10, EndTyped DEF Commit, Goto
  <2>11. CASE CommitFails(t)
    BY <2>0, <2>11, EndTyped DEF CommitFails, Raise, Goto
  <2>12. CASE Return(t)
    BY <2>0, <2>12, EndTyped DEF Return, Goto
  <2>13. CASE Unlock(t)
    <3>1. CASE TryAgain(t)
      BY <2>13, <3>1 DEF Unlock, TryAgain, Again, Entry, Goto, database
    <3>2. CASE Verify(t)
      BY <2>13, <3>2 DEF Unlock, Verify, Goto, database
    <3>3. CASE Answer(t)
      BY <2>13, <3>3 DEF Unlock, Answer, Answers, Goto, database
    <3>4. QED
      BY <2>13, <3>1, <3>2, <3>3 DEF Unlock
  <2>14. QED
    BY <1>1, <2>1, <2>2, <2>3, <2>4, <2>5, <2>6, <2>7, <2>8, <2>9, <2>10, <2>11,
       <2>12, <2>13 DEF Step
<1>2. ASSUME NEW f \in Files, OtherLocks(f) \/ OtherUnlocks(f) PROVE Shape'
  BY <1>2 DEF OtherLocks, OtherUnlocks, calls
<1>3. CASE UNCHANGED vars
  BY <1>3 DEF vars, calls, database
<1>4. QED
  BY <1>1, <1>2, <1>3 DEF Next

\* Every variable of the model of the database keeps its type; in particular
\* no call makes more than retry_attempts attempts.
THEOREM TypeCorrect == Spec => []TypeOK
<1>1. QED
  BY TypeInit, TypeStep, PTL DEF Spec, Shape

-----------------------------------------------------------------------------
\* The write lock

LEMMA LocksInit == Init => LocksHeld
  BY DEF Init, LocksHeld, Entry, Callers

\* Only Lock and Unlock touch the write locks: any other step of a caller
\* keeps them if it leads neither from the queue nor past the lock.
LEMMA LocksKept ==
  ASSUME Shape, LocksHeld, NEW t \in Callers, at[t] \notin {"lock", "done"},
         NEW place, Goto(t, place), UNCHANGED locked
  PROVE  LocksHeld'
  BY DEF LocksHeld, Shape, TypeOK, Goto, Callers

LEMMA LocksStep == Shape /\ LocksHeld /\ [Next]_vars => LocksHeld'
<1> SUFFICES ASSUME Shape, LocksHeld, [Next]_vars PROVE LocksHeld'
  OBVIOUS
<1>1. ASSUME NEW t \in Callers, Step(t) PROVE LocksHeld'
  <2>1. CASE Lock(t)
    BY <2>1 DEF Lock, LockKey, LocksHeld, Shape, TypeOK, WritersQueue, Goto, Callers
  <2>2. CASE Unlock(t)
    BY <2>2, AccessAssumption DEF Unlock, TryAgain, Verify, Answer, LocksHeld, Shape, TypeOK,
       Entry, Goto, Callers
  <2>3. CASE Borrow(t) \/ OpenFails(t) \/ PoolTimeout(t)
    BY <2>3, LocksKept DEF Borrow, OpenFails, PoolTimeout
  <2>4. CASE Begin(t) \/ Query(t) \/ Read(t) \/ Commit(t) \/ Return(t)
    BY <2>4, LocksKept DEF Begin, Query, Read, Commit, Return
  <2>5. CASE BeginFails(t) \/ QueryFails(t) \/ ReadFails(t) \/ CommitFails(t)
    BY <2>5, LocksKept DEF BeginFails, QueryFails, ReadFails, CommitFails, Raise
  <2>6. QED
    BY <1>1, <2>1, <2>2, <2>3, <2>4, <2>5 DEF Step
<1>2. ASSUME NEW f \in Files, OtherLocks(f) \/ OtherUnlocks(f) PROVE LocksHeld'
  BY <1>2 DEF OtherLocks, OtherUnlocks, calls, LocksHeld
<1>3. CASE UNCHANGED vars
  BY <1>3 DEF vars, calls, LocksHeld
<1>4. QED
  BY <1>1, <1>2, <1>3 DEF Next

\* Of the writers of one file, through whichever systems and pools, at most
\* one has a connection: waiting writers leave the pools to the readers.
THEOREM WritersTakeTurns == Spec => []OneWriterOut
<1>1. Shape /\ LocksHeld => OneWriterOut
  BY DEF Shape, HoldsWhenInside, LocksHeld, OneWriterOut, Callers
<1>2. QED
  BY <1>1, TypeInit, TypeStep, LocksInit, LocksStep, PTL DEF Spec

-----------------------------------------------------------------------------
\* The rows

Truth == RowsPending /\ AnsweredWhenDone /\ StoredMeansCommitted /\ VerifyingSelects

LEMMA TruthInit == Init => Truth
  BY DEF Init, Truth, RowsPending, AnsweredWhenDone, StoredMeansCommitted, VerifyingSelects, Entry,
     Callers, Careful

LEMMA TruthStep == Shape /\ Truth /\ [Next]_vars => Truth'
<1> SUFFICES ASSUME Shape, Truth, [Next]_vars PROVE Truth'
  OBVIOUS
<1> USE AccessAssumption DEF Shape, TypeOK, HoldsWhenInside, LoansDistinct, Truth,
        RowsPending, AnsweredWhenDone, StoredMeansCommitted, VerifyingSelects, Selecting,
        Callers, Careful
<1>1. ASSUME NEW t \in Callers, Step(t) PROVE Truth'
  <2>1. CASE Lock(t)
    BY <2>1 DEF Lock, Goto, database
  <2>2. CASE Borrow(t)
    BY <2>2 DEF Borrow, Goto, database
  <2>3. CASE OpenFails(t) \/ PoolTimeout(t)
    BY <2>3 DEF OpenFails, PoolTimeout, Goto, database
  <2>4. CASE Begin(t)
    BY <2>4 DEF Begin, Goto
  <2>5. CASE BeginFails(t)
    BY <2>5 DEF BeginFails, EndTransaction, Raise, Goto
  <2>6. CASE Query(t)
    BY <2>6 DEF Query, Goto
  <2>7. CASE QueryFails(t)
    BY <2>7 DEF QueryFails, EndTransaction, Raise, Goto
  <2>8. CASE Read(t)
    BY <2>8 DEF Read, Goto, database
  <2>9. CASE ReadFails(t)
    BY <2>9 DEF ReadFails, Raise, Goto, database
  <2>10. CASE Commit(t)
    BY <2>10 DEF Commit, EndTransaction, Goto
  <2>11. CASE CommitFails(t)
    BY <2>11 DEF CommitFails, EndTransaction, Raise, Goto
  <2>12. CASE Return(t)
    BY <2>12 DEF Return, EndTransaction, Goto
  <2>13. CASE Unlock(t)
    <3>1. CASE TryAgain(t)
      BY <2>13, <3>1 DEF Unlock, TryAgain, Again, Entry, Goto, database
    <3>2. CASE Verify(t)
      BY <2>13, <3>2 DEF Unlock, Verify, Goto, database
    <3>3. CASE Answer(t)
      BY <2>13, <3>3 DEF Unlock, Answer, Answers, Goto, database
    <3>4. QED
      BY <2>13, <3>1, <3>2, <3>3 DEF Unlock
  <2>14. QED
    BY <1>1, <2>1, <2>2, <2>3, <2>4, <2>5, <2>6, <2>7, <2>8, <2>9, <2>10, <2>11,
       <2>12, <2>13 DEF Step
<1>2. ASSUME NEW f \in Files, OtherLocks(f) \/ OtherUnlocks(f) PROVE Truth'
  BY <1>2 DEF OtherLocks, OtherUnlocks, calls
<1>3. CASE UNCHANGED vars
  BY <1>3 DEF vars, calls, database
<1>4. QED
  BY <1>1, <1>2, <1>3 DEF Next

\* A step of a caller is a step of StoredRows, or leaves its rows and answers.
LEMMA RowsStep ==
  Shape /\ Truth /\ [Next]_vars
  => [Rows!RowsNext]_<<stored \cap Careful, [t \in Careful |-> answer[t]]>>
<1> DEFINE mapped == <<stored \cap Careful, [t \in Careful |-> answer[t]]>>
<1> SUFFICES ASSUME Shape, Truth, [Next]_vars PROVE [Rows!RowsNext]_mapped
  OBVIOUS
<1>1. ASSUME NEW t \in Callers, Step(t) PROVE [Rows!RowsNext]_mapped
  <2>1. CASE Commit(t)
    <3>1. pending[loan[t]] \cap Careful = {t} \cap Careful
      BY <2>1 DEF Commit, Shape, TypeOK, HoldsWhenInside, LoansDistinct, Truth,
         RowsPending, Callers, Careful
    <3>2. stored' \cap Careful = (stored \cap Careful) \cup ({t} \cap Careful)
      BY <2>1, <3>1 DEF Commit
    <3>3. answer[t] = "none" /\ (t \in Careful => t \notin stored)
      BY <2>1 DEF Commit, Truth, AnsweredWhenDone, StoredMeansCommitted, VerifyingSelects,
         Careful
    <3>4. UNCHANGED answer
      BY <2>1 DEF Commit
    <3>5. CASE t \in Careful
      <4>1. Rows!Store(t)
        BY <3>2, <3>3, <3>4, <3>5 DEF Rows!Store, Careful
      <4>2. QED
        BY <3>5, <4>1 DEF Rows!RowsNext, Careful
    <3>6. CASE t \notin Careful
      BY <3>2, <3>4, <3>6
    <3>7. QED
      BY <3>5, <3>6
  <2>2. CASE Unlock(t)
    <3>1. UNCHANGED stored
      BY <2>2 DEF Unlock, database
    <3>2. CASE TryAgain(t) \/ Verify(t)
      BY <3>1, <3>2 DEF TryAgain, Verify
    <3>3. CASE Answer(t) /\ t \notin Careful
      <4>1. \A u \in Careful : answer'[u] = answer[u]
        BY <3>3 DEF Answer, Shape, TypeOK, Callers, Careful
      <4>2. QED
        BY <3>1, <4>1
    <3>4. CASE Answer(t) /\ t \in Careful
      <4>1. PICK a \in Answers(t) : answer' = [answer EXCEPT ![t] = a]
        BY <3>4 DEF Answer
      <4>2. answer[t] = "none"
        BY <2>2 DEF Unlock, Truth, AnsweredWhenDone
      <4>3. /\ a \in {"ok", "failed"}
            /\ a = "ok" => t \in stored
            /\ a = "failed" => t \notin Writers \cap stored
        BY <2>2, <3>4, <4>1, <4>2, AccessAssumption DEF Unlock, Answer, Answers, Shape, TypeOK, Truth,
           StoredMeansCommitted, Callers, Careful
      <4>4. [u \in Careful |-> answer'[u]] = [[u \in Careful |-> answer[u]] EXCEPT ![t] = a]
        BY <3>4, <4>1 DEF Shape, TypeOK, Callers, Careful
      <4>5. Rows!Succeed(t) \/ Rows!Fail(t)
        <5>1. [u \in Careful |-> answer[u]][t] = "none"
          BY <3>4, <4>2
        <5>2. t \in stored \cap Careful <=> t \in stored
          BY <3>4
        <5>3. CASE a = "ok"
          BY <3>1, <4>3, <4>4, <5>1, <5>2, <5>3 DEF Rows!Succeed, Careful
        <5>4. CASE a = "failed"
          BY <3>1, <4>3, <4>4, <5>1, <5>2, <5>4 DEF Rows!Fail, Careful
        <5>5. QED
          BY <4>3, <5>3, <5>4
      <4>6. QED
        BY <3>4, <4>5 DEF Rows!RowsNext, Careful
    <3>5. QED
      BY <2>2, <3>2, <3>3, <3>4 DEF Unlock
  <2>3. ASSUME UNCHANGED <<stored, answer>> PROVE UNCHANGED mapped
    BY <2>3
  <2>4. CASE Lock(t) \/ Borrow(t) \/ OpenFails(t) \/ PoolTimeout(t) \/ Read(t)
    BY <2>3, <2>4 DEF Lock, Borrow, OpenFails, PoolTimeout, Read, database
  <2>5. CASE Begin(t) \/ Query(t) \/ Return(t)
    BY <2>3, <2>5 DEF Begin, Query, Return
  <2>6. CASE BeginFails(t) \/ QueryFails(t) \/ ReadFails(t) \/ CommitFails(t)
    BY <2>3, <2>6 DEF BeginFails, QueryFails, ReadFails, CommitFails, Raise, database
  <2>7. QED
    BY <1>1, <2>1, <2>2, <2>4, <2>5, <2>6 DEF Step
<1>2. ASSUME NEW f \in Files, OtherLocks(f) \/ OtherUnlocks(f) PROVE UNCHANGED mapped
  BY <1>2 DEF OtherLocks, OtherUnlocks, calls
<1>3. CASE UNCHANGED vars
  BY <1>3 DEF vars, calls, database
<1>4. QED
  BY <1>1, <1>2, <1>3 DEF Next

\* Rows written through execute_query() or extract_and_store_binary_data() get
\* into the file once at most, and never after the caller was answered; who is
\* told of success has them there, and execute_query() tells of every success,
\* over all retries, verifications and transactions left in the pool.
THEOREM AccessStoresRows == Spec => StoresRows
<1>1. Init => Rows!RowsInit
  BY DEF Init, Rows!RowsInit, Callers
<1>2. QED
  BY <1>1, RowsStep, TypeInit, TypeStep, TruthInit, TruthStep, PTL
  DEF Spec, StoresRows, Rows!RowsSpec, Careful
=============================================================================
