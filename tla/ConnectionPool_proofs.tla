------------------------ MODULE ConnectionPool_proofs ------------------------
(***************************************************************************)
(* For every number of threads, handles and every min and max: the pool's   *)
(* counter accounts for every handle, its capacity is never exceeded, no    *)
(* handle is in two places, the transaction flags follow the borrowers, and *)
(* the pool implements HandleLoans.                                        *)
(***************************************************************************)
EXTENDS ConnectionPool, SequenceTheorems, FiniteSetTheorems, TLAPS

\* No two places of the queue hold the same handle.
Distinct(s) == \A i, j \in 1..Len(s) : s[i] = s[j] => i = j

\* The handles in the queue s.
InQueue(s) == {s[i] : i \in 1..Len(s)}

\* A thread has a handle exactly from its acquisition to the end of its return.
HoldsWhenBorrowing == \A t \in Threads : conn[t] # NoConn <=> pc[t] \in Holding

\* The flag of a handle is gone before the handle's validity is checked.
UnflaggedWhenChecked == \A t \in Threads : pc[t] = "check" => conn[t] \notin txStates

-----------------------------------------------------------------------------
\* Queue operations

\* put() adds one handle at the end and keeps the others.
LEMMA PutLemma ==
  ASSUME NEW S, NEW s \in Seq(S), NEW c \in S
  PROVE  /\ Append(s, c) \in Seq(S)
         /\ Len(Append(s, c)) = Len(s) + 1
         /\ InQueue(Append(s, c)) = InQueue(s) \cup {c}
         /\ Distinct(s) /\ c \notin InQueue(s) => Distinct(Append(s, c))
  BY DEF InQueue, Distinct

\* get() removes the first handle, which is then in the queue no more.
LEMMA GetLemma ==
  ASSUME NEW S, NEW s \in Seq(S), s # <<>>, Distinct(s)
  PROVE  /\ Head(s) \in S
         /\ Tail(s) \in Seq(S)
         /\ Len(Tail(s)) = Len(s) - 1
         /\ Distinct(Tail(s))
         /\ Head(s) \in InQueue(s)
         /\ InQueue(Tail(s)) = InQueue(s) \ {Head(s)}
<1>1. /\ Head(s) \in S
      /\ Tail(s) \in Seq(S)
      /\ Len(Tail(s)) = Len(s) - 1
      /\ \A i \in 1..Len(Tail(s)) : Tail(s)[i] = s[i + 1]
      /\ Head(s) = s[1]
      /\ Len(s) \in Nat \ {0}
  BY HeadTailProperties
<1>2. Head(s) \in InQueue(s)
  BY <1>1 DEF InQueue
<1>3. Distinct(Tail(s))
  BY <1>1 DEF Distinct
<1>4. InQueue(Tail(s)) = InQueue(s) \ {Head(s)}
  <2>1. ASSUME NEW i \in 1..Len(Tail(s))
        PROVE  Tail(s)[i] \in InQueue(s) \ {Head(s)}
    BY <1>1 DEF InQueue, Distinct
  <2>2. ASSUME NEW i \in 1..Len(s), s[i] # Head(s)
        PROVE  s[i] \in InQueue(Tail(s))
    <3>1. i - 1 \in 1..Len(Tail(s)) /\ Tail(s)[i - 1] = s[i]
      BY <1>1, <2>2
    <3>2. QED
      BY <3>1 DEF InQueue
  <2>3. QED
    BY <2>1, <2>2 DEF InQueue
<1>5. QED
  BY <1>1, <1>2, <1>3, <1>4

-----------------------------------------------------------------------------
\* The number of threads that account for a unit of connection_count

\* It is a natural number, and at least one when such a thread exists.
LEMMA OccupiedFinite ==
  /\ IsFiniteSet(Occupied)
  /\ Cardinality(Occupied) \in Nat
  BY PoolAssumption, FS_Subset, FS_CardinalityType DEF Occupied

\* A thread that starts to account for a unit adds one.
LEMMA OccupiedEnter ==
  ASSUME TypeOK, NEW t \in Threads, NEW label \in Occupying,
         pc[t] \notin Occupying, Goto(t, label)
  PROVE  Cardinality(Occupied)' = Cardinality(Occupied) + 1
<1>1. Occupied' = Occupied \cup {t} /\ t \notin Occupied
  BY DEF TypeOK, Occupied, Goto
<1>2. QED
  BY <1>1, OccupiedFinite, FS_AddElement

\* A thread that stops accounting for its unit removes one.
LEMMA OccupiedLeave ==
  ASSUME TypeOK, NEW t \in Threads, NEW label, label \notin Occupying,
         pc[t] \in Occupying, Goto(t, label)
  PROVE  Cardinality(Occupied)' = Cardinality(Occupied) - 1
<1>1. Occupied' = Occupied \ {t} /\ t \in Occupied
  BY DEF TypeOK, Occupied, Goto
<1>2. QED
  BY <1>1, OccupiedFinite, FS_RemoveElement

\* Any other move of a thread changes nothing.
LEMMA OccupiedStay ==
  ASSUME TypeOK, NEW t \in Threads, NEW label,
         label \in Occupying <=> pc[t] \in Occupying, Goto(t, label)
  PROVE  Cardinality(Occupied)' = Cardinality(Occupied)
<1>1. Occupied' = Occupied
  BY DEF TypeOK, Occupied, Goto
<1>2. QED
  BY <1>1

-----------------------------------------------------------------------------
\* Types, and that a thread has a handle exactly while it borrows

LEMMA TypeInit == Init => TypeOK /\ HoldsWhenBorrowing
  BY PoolAssumption DEF Init, TypeOK, PCs, HoldsWhenBorrowing, Holding

LEMMA TypeStep ==
  TypeOK /\ HoldsWhenBorrowing /\ [Next]_vars => TypeOK' /\ HoldsWhenBorrowing'
<1> SUFFICES ASSUME TypeOK, HoldsWhenBorrowing, [Next]_vars
             PROVE  TypeOK' /\ HoldsWhenBorrowing'
  OBVIOUS
<1> USE PoolAssumption DEF TypeOK, HoldsWhenBorrowing, PCs, Holding, Goto, Leave
<1>1. ASSUME NEW t \in Threads, Acquire(t) PROVE TypeOK' /\ HoldsWhenBorrowing'
  <2>1. pool # <<>> => Head(pool) \in Conns /\ Tail(pool) \in Seq(Conns)
    BY HeadTailProperties
  <2>2. ASSUME NEW tx \in BOOLEAN, TakeFast(t, tx)
        PROVE  TypeOK' /\ HoldsWhenBorrowing'
    BY <2>1, <2>2 DEF TakeFast, HandOut
  <2>3. ASSUME NEW tx \in BOOLEAN, FindEmpty(t, tx)
        PROVE  TypeOK' /\ HoldsWhenBorrowing'
    BY <2>3 DEF FindEmpty
  <2>4. CASE Grow(t)
    BY <2>4 DEF Grow, Reserve
  <2>5. CASE LastGrow(t)
    BY <2>5 DEF LastGrow, Reserve
  <2>6. ASSUME NEW c \in Conns, CreateOk(t, c)
        PROVE  TypeOK' /\ HoldsWhenBorrowing'
    BY <2>6 DEF CreateOk, HandOut
  <2>7. CASE CreateFails(t)
    BY <2>7 DEF CreateFails
  <2>8. CASE Wake(t)
    BY <2>1, <2>8 DEF Wake, HandOut
  <2>9. CASE WaitExpires(t) \/ RaiseTimeout(t)
    BY <2>9 DEF WaitExpires, RaiseTimeout
  <2>10. QED
    BY <1>1, <2>2, <2>3, <2>4, <2>5, <2>6, <2>7, <2>8, <2>9 DEF Acquire
<1>2. ASSUME NEW t \in Threads, Return(t) PROVE TypeOK' /\ HoldsWhenBorrowing'
  <2>1. CASE StartReturn(t)
    BY <2>1 DEF StartReturn
  <2>2. CASE RollBack(t)
    BY <2>2 DEF RollBack
  <2>3. CASE RollBackRaises(t)
    BY <2>3 DEF RollBackRaises
  <2>4. CASE PutBack(t)
    <3>1. conn[t] \in Conns
      BY <2>4 DEF PutBack
    <3>2. QED
      BY <2>4, <3>1, PutLemma DEF PutBack
  <2>5. CASE Discard(t)
    BY <2>5 DEF Discard
  <2>6. CASE Uncount(t)
    <3>1. CASE count - 1 < MinConn
      BY <2>6, <3>1 DEF Uncount
    <3>2. CASE ~(count - 1 < MinConn)
      <4>1. /\ pc[t] = "closed" /\ pc' = [pc EXCEPT ![t] = "idle"]
            /\ forTx' = [forTx EXCEPT ![t] = FALSE]
            /\ count' = count - 1
            /\ UNCHANGED <<pool, txStates, dead, conn, lost>>
        BY <2>6, <3>2 DEF Uncount
      <4>2. TypeOK'
        BY <4>1
      <4>3. HoldsWhenBorrowing'
        BY <4>1
      <4>4. QED
        BY <4>2, <4>3
    <3>3. QED
      BY <3>1, <3>2
  <2>7. ASSUME NEW c \in Conns, RefillOk(t, c)
        PROVE  TypeOK' /\ HoldsWhenBorrowing'
    BY <2>7, PutLemma DEF RefillOk
  <2>8. CASE RefillFails(t)
    BY <2>8 DEF RefillFails
  <2>9. QED
    BY <1>2, <2>1, <2>2, <2>3, <2>4, <2>5, <2>6, <2>7, <2>8 DEF Return
<1>3. ASSUME NEW c \in Conns, HandleDies(c) PROVE TypeOK' /\ HoldsWhenBorrowing'
  BY <1>3 DEF HandleDies
<1>4. CASE UNCHANGED vars
  BY <1>4 DEF vars
<1>5. QED
  BY <1>1, <1>2, <1>3, <1>4 DEF Next

\* Type correctness: the variables of the pool keep their types.
THEOREM TypeCorrect == Spec => []TypeOK
<1>1. [](TypeOK /\ HoldsWhenBorrowing) => []TypeOK
  BY PTL
<1>2. QED
  BY <1>1, TypeInit, TypeStep, PTL DEF Spec

-----------------------------------------------------------------------------
\* The places of the handles, and the transaction flags

Places == HandlesExclusive /\ FlagsFollowLoans /\ UnflaggedWhenChecked

LEMMA PlacesInit == Init => Places
  BY PoolAssumption
  DEF Init, Places, HandlesExclusive, FlagsFollowLoans, UnflaggedWhenChecked

LEMMA PlacesStep ==
  TypeOK /\ HoldsWhenBorrowing /\ Places /\ [Next]_vars => Places'
<1> SUFFICES ASSUME TypeOK, HoldsWhenBorrowing, Places, [Next]_vars
             PROVE  Places'
  OBVIOUS
<1>0. Distinct(pool) /\ Pooled = InQueue(pool)
  BY DEF Places, HandlesExclusive, Distinct, Pooled, InQueue
<1>a. ASSUME Distinct(pool'),
             \A t \in Threads : conn'[t] # NoConn => conn'[t] \notin InQueue(pool'),
             \A t, u \in Threads : conn'[t] = conn'[u] /\ conn'[t] # NoConn => t = u
      PROVE  HandlesExclusive'
  BY <1>a DEF HandlesExclusive, Distinct, Pooled, InQueue
<1> USE PoolAssumption
    DEF TypeOK, HoldsWhenBorrowing, PCs, Holding, Goto, Leave
<1>b. ASSUME NEW t \in Threads, UNCHANGED <<pool, conn, txStates>>, pc[t] \notin Holding,
             pc'[t] \notin Holding,
             \A u \in Threads \ {t} : pc'[u] = pc[u] /\ forTx'[u] = forTx[u]
      PROVE  Places'
  <2>1. HandlesExclusive'
    BY <1>b DEF Places, HandlesExclusive, Pooled
  <2>2. FlagsFollowLoans' /\ UnflaggedWhenChecked'
    BY <1>b DEF Places, FlagsFollowLoans, UnflaggedWhenChecked
  <2>3. QED
    BY <2>1, <2>2 DEF Places
<1>1. ASSUME NEW t \in Threads, Acquire(t) PROVE Places'
  <2>1. ASSUME NEW tx \in BOOLEAN, pc[t] \in {"idle", "wait"}, pool # <<>>,
               HandOut(t, Head(pool), tx), pool' = Tail(pool),
               forTx'[t] = tx, \A u \in Threads \ {t} : forTx'[u] = forTx[u]
        PROVE  Places'
    <3>1. /\ Head(pool) \in Conns
          /\ Distinct(pool')
          /\ Head(pool) \in InQueue(pool)
          /\ InQueue(pool') = InQueue(pool) \ {Head(pool)}
      BY <1>0, <2>1, GetLemma
    <3>2. HandlesExclusive'
      BY <1>0, <1>a, <2>1, <3>1 DEF HandOut, Places, HandlesExclusive
    <3>3. FlagsFollowLoans'
      <4>1. \A u \in Threads : conn[u] # Head(pool)
        BY <1>0, <3>1, PoolAssumption DEF Places, HandlesExclusive
      <4>2. Head(pool) \notin txStates
        BY <4>1 DEF Places, FlagsFollowLoans
      <4>3. \A u \in Threads \ {t} : conn'[u] = conn[u] /\ pc'[u] = pc[u] /\ forTx'[u] = forTx[u]
        BY <2>1 DEF HandOut
      <4>4. /\ conn'[t] = Head(pool) /\ conn[t] = NoConn
            /\ txStates' = IF tx THEN txStates \cup {Head(pool)} ELSE txStates
        BY <2>1 DEF HandOut
      <4>5. \A c \in txStates' : \E u \in Threads : conn'[u] = c /\ forTx'[u]
        BY <2>1, <4>2, <4>3, <4>4 DEF Places, FlagsFollowLoans
      <4>6. \A u \in Threads : pc'[u] \in {"use", "return"} => (conn'[u] \in txStates' <=> forTx'[u])
        BY <2>1, <4>1, <4>2, <4>3, <4>4 DEF Places, FlagsFollowLoans
      <4>7. QED
        BY <4>5, <4>6 DEF FlagsFollowLoans
    <3>4. UnflaggedWhenChecked'
      BY <1>0, <2>1, <3>1 DEF HandOut, Places, HandlesExclusive, UnflaggedWhenChecked
    <3>5. QED
      BY <3>2, <3>3, <3>4 DEF Places
  <2>2. ASSUME NEW tx \in BOOLEAN, TakeFast(t, tx) PROVE Places'
    BY <2>1, <2>2 DEF TakeFast
  <2>3. CASE Wake(t)
    BY <2>1, <2>3 DEF Wake
  <2>4. ASSUME NEW c \in Conns, CreateOk(t, c) PROVE Places'
    <3>1. c \notin InQueue(pool) /\ \A u \in Threads : conn[u] # c
      BY <1>0, <2>4 DEF CreateOk, Fresh, Held
    <3>2. HandlesExclusive'
      BY <1>0, <1>a, <2>4, <3>1 DEF CreateOk, HandOut, Places, HandlesExclusive
    <3>3. FlagsFollowLoans'
      BY <2>4, <3>1 DEF CreateOk, HandOut, Places, FlagsFollowLoans
    <3>4. UnflaggedWhenChecked'
      BY <2>4, <3>1 DEF CreateOk, HandOut, Places, UnflaggedWhenChecked
    <3>5. QED
      BY <3>2, <3>3, <3>4 DEF Places
  <2>6. ASSUME NEW tx \in BOOLEAN, FindEmpty(t, tx) PROVE Places'
    BY <1>b, <2>6 DEF FindEmpty
  <2>7. CASE Grow(t) \/ LastGrow(t)
    BY <1>b, <2>7 DEF Grow, LastGrow, Reserve
  <2>8. CASE CreateFails(t) \/ WaitExpires(t) \/ RaiseTimeout(t)
    BY <1>b, <2>8 DEF CreateFails, WaitExpires, RaiseTimeout
  <2>9. QED
    BY <1>1, <2>2, <2>3, <2>4, <2>6, <2>7, <2>8 DEF Acquire
<1>2. ASSUME NEW t \in Threads, Return(t) PROVE Places'
  <2>1. CASE StartReturn(t)
    BY <2>1 DEF StartReturn, Places, HandlesExclusive, Pooled,
                FlagsFollowLoans, UnflaggedWhenChecked
  <2>2. CASE RollBack(t)
    BY <2>2 DEF RollBack, Places, HandlesExclusive, Pooled,
                FlagsFollowLoans, UnflaggedWhenChecked
  <2>3. CASE RollBackRaises(t)
    BY <2>3 DEF RollBackRaises, Places, HandlesExclusive, Pooled,
                FlagsFollowLoans, UnflaggedWhenChecked
  <2>4. CASE PutBack(t)
    <3>1. conn[t] \in Conns /\ conn[t] \notin InQueue(pool) /\ conn[t] \notin txStates
      BY <1>0, <2>4 DEF PutBack, Places, HandlesExclusive, UnflaggedWhenChecked
    <3>2. Distinct(pool') /\ InQueue(pool') = InQueue(pool) \cup {conn[t]}
      BY <1>0, <2>4, <3>1, PutLemma DEF PutBack
    <3>3. HandlesExclusive'
      BY <1>0, <1>a, <2>4, <3>1, <3>2 DEF PutBack, Places, HandlesExclusive
    <3>4. FlagsFollowLoans' /\ UnflaggedWhenChecked'
      BY <2>4, <3>1
      DEF PutBack, Places, FlagsFollowLoans, UnflaggedWhenChecked
    <3>5. QED
      BY <3>3, <3>4 DEF Places
  <2>5. CASE Discard(t)
    BY <2>5 DEF Discard, Places, HandlesExclusive, Pooled,
                FlagsFollowLoans, UnflaggedWhenChecked
  <2>6. CASE Uncount(t)
    BY <2>6, <1>b DEF Uncount
  <2>7. ASSUME NEW c \in Conns, RefillOk(t, c) PROVE Places'
    <3>1. c \notin InQueue(pool) /\ \A u \in Threads : conn[u] # c
      BY <1>0, <2>7 DEF RefillOk, Fresh, Held
    <3>2. Distinct(pool') /\ InQueue(pool') = InQueue(pool) \cup {c}
      BY <1>0, <2>7, <3>1, PutLemma DEF RefillOk
    <3>3. HandlesExclusive'
      BY <1>0, <1>a, <2>7, <3>1, <3>2 DEF RefillOk, Places, HandlesExclusive
    <3>4. FlagsFollowLoans' /\ UnflaggedWhenChecked'
      BY <2>7 DEF RefillOk, Places, FlagsFollowLoans, UnflaggedWhenChecked
    <3>5. QED
      BY <3>3, <3>4 DEF Places
  <2>8. CASE RefillFails(t)
    BY <2>8, <1>b DEF RefillFails
  <2>9. QED
    BY <1>2, <2>1, <2>2, <2>3, <2>4, <2>5, <2>6, <2>7, <2>8 DEF Return
<1>3. ASSUME NEW c \in Conns, HandleDies(c) PROVE Places'
  BY <1>3 DEF HandleDies, Places, HandlesExclusive, Pooled,
              FlagsFollowLoans, UnflaggedWhenChecked
<1>4. CASE UNCHANGED vars
  BY <1>4 DEF vars, Places, HandlesExclusive, Pooled,
              FlagsFollowLoans, UnflaggedWhenChecked
<1>5. QED
  BY <1>1, <1>2, <1>3, <1>4 DEF Next

\* No handle is lent twice, queued twice, or lent while it is queued.
THEOREM HandlesSafe == Spec => []HandlesExclusive
<1>1. Places => HandlesExclusive
  BY DEF Places
<1>2. QED
  BY <1>1, TypeInit, TypeStep, PlacesInit, PlacesStep, PTL DEF Spec

\* A handle is flagged as in a transaction exactly while a caller that asked for
\* one works with it, through failed rollbacks and dropped handles too.
THEOREM FlagsFollowBorrowers == Spec => []FlagsFollowLoans
<1>1. Places => FlagsFollowLoans
  BY DEF Places
<1>2. QED
  BY <1>1, TypeInit, TypeStep, PlacesInit, PlacesStep, PTL DEF Spec

-----------------------------------------------------------------------------
\* The counter

\* connection_count accounts for every handle, and is never above the maximum.
Accounts == CountAccounted /\ count <= MaxConn

LEMMA AccountsInit == Init => Accounts
<1> SUFFICES ASSUME Init PROVE Accounts
  OBVIOUS
<1>1. Occupied = {}
  BY DEF Init, Occupied, Occupying, Reserving, Holding
<1>2. Len(pool) = MinConn
  BY PoolAssumption, LenProperties, IsASeq DEF Init
<1>3. QED
  BY <1>1, <1>2, PoolAssumption, FS_EmptySet DEF Init, Accounts, CountAccounted

LEMMA AccountsStep ==
  TypeOK /\ HoldsWhenBorrowing /\ Accounts /\ [Next]_vars => Accounts'
<1> SUFFICES ASSUME TypeOK, HoldsWhenBorrowing, Accounts, [Next]_vars
             PROVE  Accounts'
  OBVIOUS
<1> DEFINE N == Cardinality(Occupied)
<1>0. /\ N \in Nat /\ N' \in Nat
      /\ count \in Int /\ MaxConn \in Nat /\ MinConn \in Nat /\ MinConn <= MaxConn
      /\ Len(pool) \in Nat /\ lost \in Nat
      /\ count = Len(pool) + N + lost /\ count <= MaxConn
  <2>1. N' \in Nat
    <3>1. Occupied' \in SUBSET Threads
      BY DEF Occupied
    <3>2. QED
      BY <3>1, PoolAssumption, FS_Subset, FS_CardinalityType
  <2>2. QED
    BY <2>1, OccupiedFinite, PoolAssumption DEF TypeOK, Accounts, CountAccounted
<1>a. ASSUME count' = Len(pool)' + N' + lost', count' <= MaxConn PROVE Accounts'
  BY <1>a DEF Accounts, CountAccounted
<1> HIDE DEF N
<1> USE DEF Occupying, Reserving, Holding
<1>1. ASSUME NEW t \in Threads, Acquire(t) PROVE Accounts'
  <2>1. ASSUME pool # <<>>, pool' = Tail(pool) PROVE Len(pool)' = Len(pool) - 1
    BY <2>1, HeadTailProperties DEF TypeOK
  <2>2. ASSUME NEW tx \in BOOLEAN, TakeFast(t, tx) PROVE Accounts'
    <3>1. N' = N + 1
      BY <2>2, OccupiedEnter DEF TakeFast, HandOut, N
    <3>2. QED
      BY <1>0, <1>a, <2>1, <2>2, <3>1 DEF TakeFast
  <2>3. ASSUME NEW tx \in BOOLEAN, FindEmpty(t, tx) PROVE Accounts'
    <3>1. N' = N
      BY <2>3, OccupiedStay DEF FindEmpty, N
    <3>2. QED
      BY <1>0, <1>a, <2>3, <3>1 DEF FindEmpty
  <2>4. CASE Grow(t) \/ LastGrow(t)
    <3>1. CASE count >= MaxConn
      <4>1. N' = N
        BY <2>4, <3>1, OccupiedStay DEF Grow, LastGrow, Reserve, N
      <4>2. QED
        BY <1>0, <1>a, <2>4, <3>1, <4>1 DEF Grow, LastGrow, Reserve
    <3>2. CASE ~(count >= MaxConn)
      <4>1. N' = N + 1
        BY <2>4, <3>2, OccupiedEnter DEF Grow, LastGrow, Reserve, N
      <4>2. QED
        BY <1>0, <1>a, <2>4, <3>2, <4>1 DEF Grow, LastGrow, Reserve
    <3>3. QED
      BY <3>1, <3>2
  <2>5. ASSUME NEW c \in Conns, CreateOk(t, c) PROVE Accounts'
    <3>1. N' = N
      BY <2>5, OccupiedStay DEF CreateOk, HandOut, N
    <3>2. QED
      BY <1>0, <1>a, <2>5, <3>1 DEF CreateOk
  <2>6. CASE CreateFails(t)
    <3>1. N' = N - 1
      BY <2>6, OccupiedLeave DEF CreateFails, Leave, N
    <3>2. QED
      BY <1>0, <1>a, <2>6, <3>1 DEF CreateFails
  <2>7. CASE Wake(t)
    <3>1. N' = N + 1
      BY <2>7, OccupiedEnter DEF Wake, HandOut, N
    <3>2. QED
      BY <1>0, <1>a, <2>1, <2>7, <3>1 DEF Wake
  <2>8. CASE WaitExpires(t) \/ RaiseTimeout(t)
    <3>1. N' = N
      BY <2>8, OccupiedStay DEF WaitExpires, RaiseTimeout, Leave, N
    <3>2. QED
      BY <1>0, <1>a, <2>8, <3>1 DEF WaitExpires, RaiseTimeout
  <2>9. QED
    BY <1>1, <2>2, <2>3, <2>4, <2>5, <2>6, <2>7, <2>8 DEF Acquire
<1>2. ASSUME NEW t \in Threads, Return(t) PROVE Accounts'
  <2>1. ASSUME NEW c \in Conns, pool' = Append(pool, c)
        PROVE  Len(pool)' = Len(pool) + 1
    BY <2>1, PutLemma DEF TypeOK
  <2>2. CASE StartReturn(t) \/ RollBack(t) \/ Discard(t)
    <3>1. N' = N
      BY <2>2, OccupiedStay DEF StartReturn, RollBack, Discard, N
    <3>2. QED
      BY <1>0, <1>a, <2>2, <3>1 DEF StartReturn, RollBack, Discard
  <2>3. CASE RollBackRaises(t)
    <3>1. N' = N - 1
      BY <2>3, OccupiedLeave DEF RollBackRaises, Leave, N
    <3>2. QED
      BY <1>0, <1>a, <2>3, <3>1 DEF RollBackRaises
  <2>4. CASE PutBack(t)
    <3>1. N' = N - 1
      BY <2>4, OccupiedLeave DEF PutBack, Leave, N
    <3>2. conn[t] \in Conns
      BY <2>4 DEF PutBack, TypeOK, HoldsWhenBorrowing
    <3>3. QED
      BY <1>0, <1>a, <2>1, <2>4, <3>1, <3>2 DEF PutBack
  <2>5. CASE Uncount(t)
    <3>1. CASE count - 1 < MinConn
      <4>1. N' = N
        BY <2>5, <3>1, OccupiedStay DEF Uncount, N
      <4>2. QED
        BY <1>0, <1>a, <2>5, <3>1, <4>1 DEF Uncount
    <3>2. CASE ~(count - 1 < MinConn)
      <4>1. N' = N - 1
        BY <2>5, <3>2, OccupiedLeave DEF Uncount, Leave, N
      <4>2. QED
        BY <1>0, <1>a, <2>5, <3>2, <4>1 DEF Uncount
    <3>3. QED
      BY <3>1, <3>2
  <2>6. ASSUME NEW c \in Conns, RefillOk(t, c) PROVE Accounts'
    <3>1. N' = N - 1
      BY <2>6, OccupiedLeave DEF RefillOk, Leave, N
    <3>2. QED
      BY <1>0, <1>a, <2>1, <2>6, <3>1 DEF RefillOk
  <2>7. CASE RefillFails(t)
    <3>1. N' = N - 1
      BY <2>7, OccupiedLeave DEF RefillFails, Leave, N
    <3>2. QED
      BY <1>0, <1>a, <2>7, <3>1 DEF RefillFails
  <2>8. QED
    BY <1>2, <2>2, <2>3, <2>4, <2>5, <2>6, <2>7 DEF Return
<1>3. ASSUME NEW c \in Conns, HandleDies(c) PROVE Accounts'
  <2>1. N' = N
    BY <1>3 DEF HandleDies, N, Occupied
  <2>2. QED
    BY <1>0, <1>a, <1>3, <2>1 DEF HandleDies
<1>4. CASE UNCHANGED vars
  <2>1. N' = N
    BY <1>4 DEF vars, N, Occupied
  <2>2. QED
    BY <1>0, <1>a, <1>4, <2>1 DEF vars
<1>5. QED
  BY <1>1, <1>2, <1>3, <1>4 DEF Next

\* The counter accounts for every handle.
THEOREM CountCorrect == Spec => []CountAccounted
<1>1. Accounts => CountAccounted
  BY DEF Accounts
<1>2. QED
  BY <1>1, TypeInit, TypeStep, AccountsInit, AccountsStep, PTL DEF Spec

\* No more than max_connections handles are counted, or open.
THEOREM CapacityKept == Spec => []WithinCapacity
<1>1. TypeOK /\ Accounts => WithinCapacity
  BY OccupiedFinite, PoolAssumption
  DEF TypeOK, Accounts, CountAccounted, WithinCapacity
<1>2. QED
  BY <1>1, TypeInit, TypeStep, AccountsInit, AccountsStep, PTL DEF Spec

-----------------------------------------------------------------------------
\* Implementation of HandleLoans

\* HandleLoans counts with its own copy of Cardinality.
LEMMA SameCardinality == \A S : Loans!Cardinality(S) = Cardinality(S)
  BY DEF Loans!Cardinality, Cardinality

\* A handle is lent while fewer than max_connections are.
LEMMA RoomForOneMore ==
  ASSUME TypeOK, HoldsWhenBorrowing, Accounts,
         NEW t \in Threads,
         pool # <<>> \/ pc[t] \in {"create", "lastCreate"}
  PROVE  Cardinality(Loans!Borrowers) < MaxConn
<1> DEFINE B == Loans!Borrowers
           N == Cardinality(Occupied)
<1>1. B \subseteq Occupied
  BY DEF Loans!Borrowers, HoldsWhenBorrowing, Occupied, Occupying
<1>2. /\ Cardinality(B) \in Nat /\ N \in Nat /\ Cardinality(B) <= N
      /\ Len(pool) \in Nat /\ lost \in Nat /\ MaxConn \in Nat
      /\ Len(pool) + N + lost <= MaxConn
  BY <1>1, OccupiedFinite, FS_Subset, FS_CardinalityType, PoolAssumption
  DEF TypeOK, Accounts, CountAccounted
<1>3. CASE pool # <<>>
  <2>1. Len(pool) > 0
    BY <1>3, HeadTailProperties DEF TypeOK
  <2>2. QED
    BY <1>2, <2>1
<1>4. CASE pc[t] \in {"create", "lastCreate"}
  <2>1. t \in Occupied /\ t \notin B
    BY <1>4 DEF Loans!Borrowers, HoldsWhenBorrowing, Occupied, Occupying,
                Reserving, Holding
  <2>2. IsFiniteSet(Occupied \ {t}) /\ Cardinality(Occupied \ {t}) = N - 1
    BY <2>1, OccupiedFinite, FS_RemoveElement
  <2>3. Cardinality(B) <= N - 1
    BY <1>1, <2>1, <2>2, FS_Subset
  <2>4. QED
    BY <1>2, <2>3
<1>5. QED
  BY <1>3, <1>4

LEMMA LoansStep ==
  /\ TypeOK /\ HoldsWhenBorrowing /\ Places /\ Accounts
  /\ [Next]_vars
  => [Loans!LoansNext]_conn
<1> SUFFICES ASSUME TypeOK, HoldsWhenBorrowing, Places, Accounts, [Next]_vars
             PROVE  [Loans!LoansNext]_conn
  OBVIOUS
<1>1. ASSUME NEW t \in Threads, NEW c \in Conns, conn[t] = NoConn,
             \A u \in Threads : conn[u] # c,
             conn' = [conn EXCEPT ![t] = c],
             pool # <<>> \/ pc[t] \in {"create", "lastCreate"}
      PROVE  Loans!LoansNext
  BY <1>1, RoomForOneMore, SameCardinality DEF Loans!LoansNext, Loans!Borrow
<1>2. ASSUME NEW t \in Threads, conn[t] # NoConn,
             conn' = [conn EXCEPT ![t] = NoConn]
      PROVE  Loans!LoansNext
  BY <1>2 DEF Loans!LoansNext, Loans!GiveBack
<1>3. ASSUME NEW t \in Threads, Acquire(t) PROVE [Loans!LoansNext]_conn
  <2>1. pool # <<>> => /\ Head(pool) \in Conns
                       /\ \A u \in Threads : conn[u] # Head(pool)
    <3>1. pool # <<>> => Head(pool) \in Conns /\ Head(pool) \in Pooled
      BY GetLemma
      DEF TypeOK, Places, HandlesExclusive, Pooled, InQueue, Distinct
    <3>2. QED
      BY <3>1, PoolAssumption DEF Places, HandlesExclusive
  <2>2. ASSUME NEW tx \in BOOLEAN, TakeFast(t, tx) PROVE Loans!LoansNext
    <3>1. conn[t] = NoConn
      BY <2>2 DEF TakeFast, HoldsWhenBorrowing, Holding
    <3>2. QED
      BY <1>1, <2>1, <2>2, <3>1 DEF TakeFast, HandOut
  <2>3. CASE Wake(t)
    <3>1. conn[t] = NoConn
      BY <2>3 DEF Wake, HoldsWhenBorrowing, Holding
    <3>2. QED
      BY <1>1, <2>1, <2>3, <3>1 DEF Wake, HandOut
  <2>4. ASSUME NEW c \in Conns, CreateOk(t, c) PROVE Loans!LoansNext
    <3>1. conn[t] = NoConn
      BY <2>4 DEF CreateOk, HoldsWhenBorrowing, Holding
    <3>2. \A u \in Threads : conn[u] # c
      BY <2>4, PoolAssumption DEF CreateOk, Fresh, Held
    <3>3. QED
      BY <1>1, <2>4, <3>1, <3>2 DEF CreateOk, HandOut
  <2>5. ASSUME NEW tx \in BOOLEAN, FindEmpty(t, tx) PROVE UNCHANGED conn
    BY <2>5 DEF FindEmpty
  <2>6. CASE Grow(t) \/ LastGrow(t) \/ CreateFails(t) \/ WaitExpires(t) \/ RaiseTimeout(t)
    BY <2>6 DEF Grow, LastGrow, Reserve, CreateFails, WaitExpires, RaiseTimeout
  <2>7. QED
    BY <1>3, <2>2, <2>3, <2>4, <2>5, <2>6 DEF Acquire
<1>4. ASSUME NEW t \in Threads, Return(t) PROVE [Loans!LoansNext]_conn
  <2>1. CASE RollBackRaises(t) \/ PutBack(t) \/ Discard(t)
    <3>1. conn[t] # NoConn
      BY <2>1 DEF RollBackRaises, PutBack, Discard, HoldsWhenBorrowing, Holding
    <3>2. QED
      BY <1>2, <2>1, <3>1 DEF RollBackRaises, PutBack, Discard
  <2>2. CASE StartReturn(t) \/ RollBack(t) \/ Uncount(t) \/ RefillFails(t)
    BY <2>2 DEF StartReturn, RollBack, Uncount, RefillFails
  <2>3. ASSUME NEW c \in Conns, RefillOk(t, c) PROVE UNCHANGED conn
    BY <2>3 DEF RefillOk
  <2>4. QED
    BY <1>4, <2>1, <2>2, <2>3 DEF Return
<1>5. ASSUME NEW c \in Conns, HandleDies(c) PROVE UNCHANGED conn
  BY <1>5 DEF HandleDies
<1>6. QED
  BY <1>3, <1>4, <1>5 DEF Next, vars

\* The pool, with all its reservations, discards, refills and timeouts, only
\* ever lends and takes back handles as HandleLoans allows.
THEOREM PoolImplementsLoans == Spec => ImplementsLoans
<1>1. Init => Loans!LoansInit
  BY DEF Init, Loans!LoansInit
<1>2. QED
  BY <1>1, LoansStep, TypeInit, TypeStep, PlacesInit, PlacesStep, AccountsInit,
     AccountsStep, PTL
  DEF Spec, ImplementsLoans, Loans!LoansSpec
=============================================================================
