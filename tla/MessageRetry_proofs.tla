------------------------- MODULE MessageRetry_proofs -------------------------
(***************************************************************************)
(* Retries, for any number of messages, workers and tries: the two books   *)
(* hold no message in vain, and what left the tracking is queued no more.  *)
(*                                                                         *)
(* Both rest on what put() does to a queue (PutLemma) and what get() takes *)
(* from it (TakeLemma).                                                    *)
(***************************************************************************)
EXTENDS MessageRetry, SequenceTheorems, FiniteSetTheorems, TLAPS

\* Where a message is in a sequence.
Places(s, m) == {i \in DOMAIN s : s[i] = m}

-----------------------------------------------------------------------------
\* Sequences

\* Putting the members of a finite set one after the other.
LEMMA OneAfterTheOther ==
  ASSUME NEW S, IsFiniteSet(S), NEW s \in SetToSeqs(S)
  PROVE  s \in Seq(S) /\ \A x \in S : \E i \in 1 .. Len(s) : s[i] = x
<1> DEFINE n == Cardinality(S)
<1>1. n \in Nat /\ s \in [1 .. n -> S] /\ \A i, j \in 1 .. n : i # j => s[i] # s[j]
  BY FS_CardinalityType DEF SetToSeqs
<1> HIDE DEF n
<1>2. s \in Seq(S)
  BY <1>1, SeqDef
<1>3. Len(s) = n
  BY <1>1, <1>2, LenProperties
<1>4. s \in Injection(1 .. n, S)
  BY <1>1 DEF Injection, IsInjective
<1>5. IsFiniteSet(1 .. n) /\ Cardinality(1 .. n) = Cardinality(S)
  BY <1>1, FS_Interval DEF n
<1>6. s \in Surjection(1 .. n, S)
  BY <1>4, <1>5, FS_Injection
<1>7. QED
  BY <1>2, <1>3, <1>6 DEF Surjection

LEMMA PlacesFinite ==
  ASSUME NEW S, NEW s \in Seq(S), NEW m
  PROVE  IsFiniteSet(Places(s, m)) /\ Cardinality(Places(s, m)) \in Nat
         /\ DOMAIN s = 1 .. Len(s) /\ Len(s) \in Nat
<1>1. DOMAIN s = 1 .. Len(s) /\ Len(s) \in Nat
  BY LenProperties
<1>2. IsFiniteSet(1 .. Len(s)) /\ Places(s, m) \in SUBSET (1 .. Len(s))
  BY <1>1, FS_Interval DEF Places
<1>3. IsFiniteSet(Places(s, m))
  BY <1>2, FS_Subset
<1>4. QED
  BY <1>1, <1>3, FS_CardinalityType

\* A message is where it was when others are put behind it.
LEMMA Behind ==
  ASSUME NEW S, NEW s \in Seq(S), NEW t \in Seq(S)
  PROVE  /\ s \o t \in Seq(S)
         /\ \A m : Contains(s \o t, m) <=> Contains(s, m) \/ Contains(t, m)
         /\ \A m : ~Contains(t, m) => Places(s \o t, m) = Places(s, m)
<1>1. /\ Len(s) \in Nat /\ DOMAIN s = 1 .. Len(s)
      /\ Len(t) \in Nat /\ DOMAIN t = 1 .. Len(t)
  BY LenProperties
<1>2. /\ s \o t \in Seq(S) /\ Len(s \o t) = Len(s) + Len(t)
      /\ \A i \in 1 .. Len(s) + Len(t) :
            (s \o t)[i] = IF i <= Len(s) THEN s[i] ELSE t[i - Len(s)]
  BY ConcatProperties
<1>3. DOMAIN (s \o t) = 1 .. Len(s) + Len(t)
  BY <1>2, LenProperties
<1>4. ASSUME NEW m PROVE Contains(s \o t, m) <=> Contains(s, m) \/ Contains(t, m)
  <2>1. ASSUME Contains(t, m) PROVE Contains(s \o t, m)
    <3>1. PICK j \in 1 .. Len(t) : t[j] = m
      BY <2>1 DEF Contains
    <3>2. /\ j + Len(s) \in 1 .. Len(s) + Len(t) /\ ~(j + Len(s) <= Len(s))
          /\ (j + Len(s)) - Len(s) = j
      BY <1>1
    <3>3. (s \o t)[j + Len(s)] = m
      BY <1>2, <3>1, <3>2
    <3>4. QED
      BY <1>2, <3>2, <3>3 DEF Contains
  <2>2. Contains(s, m) => Contains(s \o t, m)
    BY <1>1, <1>2 DEF Contains
  <2>3. ASSUME Contains(s \o t, m) PROVE Contains(s, m) \/ Contains(t, m)
    <3>1. PICK i \in 1 .. Len(s) + Len(t) : (s \o t)[i] = m
      BY <1>2, <2>3 DEF Contains
    <3>2. CASE i <= Len(s)
      BY <1>1, <1>2, <3>1, <3>2 DEF Contains
    <3>3. CASE ~(i <= Len(s))
      <4>1. i - Len(s) \in 1 .. Len(t)
        BY <1>1, <3>3
      <4>2. t[i - Len(s)] = m
        BY <1>2, <3>1, <3>3
      <4>3. QED
        BY <4>1, <4>2 DEF Contains
    <3>4. QED
      BY <3>2, <3>3
  <2>4. QED
    BY <2>1, <2>2, <2>3
<1>5. ASSUME NEW m, ~Contains(t, m) PROVE Places(s \o t, m) = Places(s, m)
  <2>1. \A i \in 1 .. Len(s) : i \in 1 .. Len(s) + Len(t) /\ (s \o t)[i] = s[i]
    BY <1>1, <1>2
  <2>2. ASSUME NEW i \in 1 .. Len(s) + Len(t), (s \o t)[i] = m PROVE i \in 1 .. Len(s)
    <3>1. SUFFICES ASSUME ~(i <= Len(s)) PROVE FALSE
      BY <1>1
    <3>2. i - Len(s) \in 1 .. Len(t)
      BY <1>1, <3>1
    <3>3. t[i - Len(s)] = m
      BY <1>2, <2>2, <3>1
    <3>4. QED
      BY <1>5, <3>2, <3>3 DEF Contains
  <2>3. QED
    BY <1>1, <1>3, <2>1, <2>2 DEF Places
<1>6. QED
  BY <1>2, <1>4, <1>5

\* Taking the head leaves the others, and no more copies than there were.
LEMMA Ahead ==
  ASSUME NEW S, NEW s \in Seq(S), s # << >>
  PROVE  /\ Head(s) \in S /\ Tail(s) \in Seq(S)
         /\ \A m : Contains(s, m) => m = Head(s) \/ Contains(Tail(s), m)
         /\ \A m : Cardinality(Places(Tail(s), m)) <= Cardinality(Places(s, m))
<1>1. /\ Head(s) \in S /\ Tail(s) \in Seq(S) /\ Len(Tail(s)) = Len(s) - 1
      /\ \A i \in 1 .. Len(Tail(s)) : Tail(s)[i] = s[i + 1]
  BY HeadTailProperties
<1>2. Len(s) \in Nat /\ DOMAIN s = 1 .. Len(s) /\ DOMAIN Tail(s) = 1 .. Len(s) - 1
      /\ Head(s) = s[1]
  BY <1>1, LenProperties
<1>3. ASSUME NEW m, Contains(s, m) PROVE m = Head(s) \/ Contains(Tail(s), m)
  <2>1. PICK i \in 1 .. Len(s) : s[i] = m
    BY <1>3 DEF Contains
  <2>2. CASE i = 1
    BY <1>2, <2>1, <2>2
  <2>3. CASE i # 1
    <3>1. i - 1 \in 1 .. Len(Tail(s)) /\ (i - 1) + 1 = i
      BY <1>1, <1>2, <2>3
    <3>2. Tail(s)[i - 1] = m
      BY <1>1, <2>1, <3>1
    <3>3. QED
      BY <3>1, <3>2 DEF Contains
  <2>4. QED
    BY <2>2, <2>3
<1>4. ASSUME NEW m PROVE Cardinality(Places(Tail(s), m)) <= Cardinality(Places(s, m))
  <2> DEFINE f == [i \in Places(Tail(s), m) |-> i + 1]
  <2>1. \A i \in Places(Tail(s), m) : i \in Nat /\ i + 1 \in Places(s, m)
    BY <1>1, <1>2 DEF Places
  <2>2. f \in Injection(Places(Tail(s), m), Places(s, m))
    BY <2>1 DEF Injection, IsInjective
  <2>3. QED
    BY <2>2, PlacesFinite, FS_Injection
<1>5. QED
  BY <1>1, <1>3, <1>4

-----------------------------------------------------------------------------
\* The queues

LEMMA PutLemma ==
  ASSUME TypeOK, NEW p \in Priorities, NEW ms \in SUBSET Messages, Put(p, ms)
  PROVE  /\ queue' \in [Priorities -> Seq(Messages)]
         /\ retrying' = retrying \cup ms /\ due' = due
         /\ \A q \in Priorities : \A m : Contains(queue[q], m) => Contains(queue'[q], m)
         /\ \A m \in ms : Contains(queue'[p], m)
         /\ \A q \in Priorities : \A m \in Messages \ ms :
                Places(queue'[q], m) = Places(queue[q], m)
<1> DEFINE new == {m \in ms : Copies(p, m) < MaxCopies}
<1>1. PICK s \in SetToSeqs(new) : queue' = [queue EXCEPT ![p] = @ \o s]
  BY DEF Put
<1>2. IsFiniteSet(new)
  BY RetryAssumption, FS_Subset
<1>3. s \in Seq(new) /\ \A m \in new : Contains(s, m)
  BY <1>2, OneAfterTheOther DEF Contains
<1>4. s \in Seq(Messages)
  BY <1>3, SeqMonotonic
<1>5. \A m : Contains(s, m) => m \in new
  BY <1>3, ElementOfSeq DEF Contains
<1>6. queue[p] \in Seq(Messages) /\ queue \in [Priorities -> Seq(Messages)]
  BY DEF TypeOK
<1>7. /\ queue[p] \o s \in Seq(Messages)
      /\ \A m : Contains(queue[p] \o s, m) <=> Contains(queue[p], m) \/ Contains(s, m)
      /\ \A m : ~Contains(s, m) => Places(queue[p] \o s, m) = Places(queue[p], m)
  BY <1>4, <1>6, Behind
<1>8. queue'[p] = queue[p] \o s /\ \A q \in Priorities : q # p => queue'[q] = queue[q]
  BY <1>1, <1>6
<1>9. ASSUME NEW m \in ms PROVE Contains(queue'[p], m)
  <2>1. CASE m \in new
    BY <1>3, <1>7, <1>8, <2>1
  <2>2. CASE m \notin new
    <3>1. ~(Copies(p, m) < MaxCopies) /\ MaxCopies \in Nat \ {0}
      BY <2>2, RetryAssumption
    <3>2. Copies(p, m) = Cardinality(Places(queue[p], m))
      BY DEF Copies, Places
    <3>3. Cardinality(Places(queue[p], m)) # 0
      BY <1>6, <3>1, <3>2, PlacesFinite
    <3>4. Places(queue[p], m) # {}
      BY <3>3, FS_EmptySet
    <3>5. Contains(queue[p], m)
      BY <1>6, <3>4, PlacesFinite DEF Places, Contains
    <3>6. QED
      BY <1>7, <1>8, <3>5
  <2>3. QED
    BY <2>1, <2>2
<1>10. queue' \in [Priorities -> Seq(Messages)]
  BY <1>1, <1>6, <1>7
<1>11. retrying' = retrying \cup ms /\ due' = due
  BY DEF Put
<1> HIDE DEF new
<1>12. ASSUME NEW q \in Priorities, NEW m, Contains(queue[q], m) PROVE Contains(queue'[q], m)
  BY <1>7, <1>8, <1>12
<1>13. ASSUME NEW q \in Priorities, NEW m \in Messages \ ms
       PROVE  Places(queue'[q], m) = Places(queue[q], m)
  <2>1. ~Contains(s, m)
    BY <1>5 DEF new
  <2>2. QED
    BY <1>7, <1>8, <2>1
<1>14. QED
  BY <1>9, <1>10, <1>11, <1>12, <1>13

LEMMA TakeLemma ==
  ASSUME TypeOK, NEW w \in Workers, Take(w)
  PROVE  /\ queue' \in [Priorities -> Seq(Messages)] /\ holds'[w] \in Messages
         /\ holds' = [holds EXCEPT ![w] = holds'[w]]
         /\ \A q \in Priorities : \A m :
               Contains(queue[q], m) => Contains(queue'[q], m) \/ m = holds'[w]
         /\ \A q \in Priorities : \A m :
               Cardinality(Places(queue'[q], m)) <= Cardinality(Places(queue[q], m))
<1>1. PICK p \in Priorities : /\ queue[p] # << >>
                              /\ holds' = [holds EXCEPT ![w] = Head(queue[p])]
                              /\ queue' = [queue EXCEPT ![p] = Tail(queue[p])]
  BY DEF Take, First
<1>2. queue \in [Priorities -> Seq(Messages)] /\ queue[p] \in Seq(Messages)
  BY DEF TypeOK
<1>3. /\ Head(queue[p]) \in Messages /\ Tail(queue[p]) \in Seq(Messages)
      /\ \A m : Contains(queue[p], m) => m = Head(queue[p]) \/ Contains(Tail(queue[p]), m)
      /\ \A m : Cardinality(Places(Tail(queue[p]), m)) <= Cardinality(Places(queue[p], m))
  BY <1>1, <1>2, Ahead
<1>4. holds'[w] = Head(queue[p])
  BY <1>1 DEF TypeOK
<1>5. queue'[p] = Tail(queue[p]) /\ \A q \in Priorities : q # p => queue'[q] = queue[q]
  BY <1>1, <1>2
<1>6. \A q \in Priorities : \A m :
        q # p => Cardinality(Places(queue'[q], m)) <= Cardinality(Places(queue[q], m))
  BY <1>2, <1>5, PlacesFinite
<1>7. QED
  BY <1>1, <1>2, <1>3, <1>4, <1>5, <1>6

-----------------------------------------------------------------------------
\* Types

LEMMA TypeInit == Init => TypeOK
  BY EmptySeq, RetryAssumption DEF Init, TypeOK

LEMMA TypeStep == TypeOK /\ [Next]_vars => TypeOK'
<1> SUFFICES ASSUME TypeOK, [Next]_vars PROVE TypeOK'
  OBVIOUS
<1> USE RetryAssumption DEF books, working, watching
<1>1. ASSUME NEW m \in Messages, Track(m) PROVE TypeOK'
  BY <1>1 DEF Track, TypeOK
<1>2. ASSUME NEW m \in Messages, Enqueue(m) PROVE TypeOK'
  <2>1. CASE m \in Invalid
    BY <1>2, <2>1 DEF Enqueue, TypeOK
  <2>2. CASE m \notin Invalid
    <3>1. Put(Priority(m), {m}) /\ Priority(m) \in Priorities
      BY <1>2, <2>2 DEF Enqueue, Priority, Priorities
    <3>2. /\ queue' \in [Priorities -> Seq(Messages)]
          /\ retrying' = retrying \cup {m} /\ due' = due
      BY <3>1, PutLemma
    <3>3. QED
      BY <1>2, <3>2 DEF Enqueue, TypeOK
  <2>3. QED
    BY <2>1, <2>2
<1>3. ASSUME NEW w \in Workers, Take(w) PROVE TypeOK'
  <2>1. /\ queue' \in [Priorities -> Seq(Messages)]
        /\ holds'[w] \in Messages /\ holds' = [holds EXCEPT ![w] = holds'[w]]
    BY <1>3, TakeLemma
  <2>2. holds' \in [Workers -> Messages \cup {NoMessage}]
    BY <2>1 DEF TypeOK
  <2>3. QED
    BY <1>3, <2>1, <2>2 DEF Take, TypeOK
<1>4. ASSUME NEW w \in Workers, TaskDone(w) \/ Untrack(w) PROVE TypeOK'
  <2>1. CASE TaskDone(w)
    BY <2>1 DEF TaskDone, TypeOK
  <2>2. CASE Untrack(w)
    <3>1. tries' \in [Messages -> 0 .. MaxRetries]
      <4>1. /\ tries \in [Messages -> 0 .. MaxRetries] /\ 0 \in 0 .. MaxRetries
            /\ tries' = [tries EXCEPT ![holds[w]] = 0]
        BY <2>2 DEF Untrack, TypeOK
      <4>2. QED
        BY <4>1, Zenon
    <3>2. QED
      BY <2>2, <3>1 DEF Untrack, TypeOK
  <2>3. QED
    BY <1>4, <2>1, <2>2
<1>5. ASSUME NEW d \in Watchdogs, Timeouts(d) PROVE TypeOK'
  <2>1. "HIGH" \in Priorities /\ {m \in late : MayRetry(m)} \in SUBSET Messages
    BY DEF Priorities, TypeOK
  <2>2. Put("HIGH", {m \in late : MayRetry(m)})
    BY <1>5 DEF Timeouts
  <2>3. /\ queue' \in [Priorities -> Seq(Messages)]
        /\ retrying' = retrying \cup {m \in late : MayRetry(m)} /\ due' = due
    BY <2>1, <2>2, PutLemma
  <2>4. tries' \in [Messages -> 0 .. MaxRetries]
    BY <1>5 DEF Timeouts, MayRetry, TypeOK
  <2>5. QED
    BY <1>5, <2>1, <2>3, <2>4 DEF Timeouts, TypeOK
<1>6. ASSUME NEW d \in Watchdogs, Candidates(d) \/ Sleep(d) PROVE TypeOK'
  BY <1>6 DEF Candidates, Sleep, TypeOK
<1>7. ASSUME NEW d \in Watchdogs, NEW m \in Messages, Requeue(d, m) PROVE TypeOK'
  <2>1. CASE m \notin tracked
    BY <1>7, <2>1 DEF Requeue, TypeOK
  <2>2. CASE m \in tracked
    <3>1. Put("HIGH", {m}) /\ "HIGH" \in Priorities
      BY <1>7, <2>2 DEF Requeue, Priorities
    <3>2. /\ queue' \in [Priorities -> Seq(Messages)]
          /\ retrying' = retrying \cup {m} /\ due' = due
      BY <3>1, PutLemma
    <3>3. tries' \in [Messages -> 0 .. MaxRetries] /\ late' \subseteq late
      <4>1. OneMore(tries[m]) \in 0 .. MaxRetries
        BY DEF OneMore, TypeOK
      <4>2. /\ tries \in [Messages -> 0 .. MaxRetries] /\ late' = late \ {m}
            /\ tries' = [tries EXCEPT ![m] = OneMore(tries[m])]
        BY <1>7, <2>2 DEF Requeue, TypeOK
      <4>3. QED
        BY <4>1, <4>2
    <3>4. QED
      BY <1>7, <3>2, <3>3 DEF Requeue, TypeOK
  <2>3. QED
    BY <2>1, <2>2
<1>8. ASSUME NEW m \in Messages, DelayPasses(m) \/ TimeoutPasses(m) PROVE TypeOK'
  BY <1>8 DEF DelayPasses, TimeoutPasses, TypeOK
<1>9. CASE UNCHANGED vars
  BY <1>9 DEF vars, TypeOK
<1>10. QED
  BY <1>1, <1>2, <1>3, <1>4, <1>5, <1>6, <1>7, <1>8, <1>9 DEF Next, Add, Work, Watch

-----------------------------------------------------------------------------
\* No book keeps a message in vain

LEMMA EntriesStep == TypeOK /\ EntriesHaveCopies /\ [Next]_vars => EntriesHaveCopies'
<1> SUFFICES ASSUME TypeOK, EntriesHaveCopies, [Next]_vars, NEW m \in Messages \ Invalid
             PROVE  /\ m \in retrying' => Waiting(m)' \/ Held(m, {"handling"})'
                    /\ m \in tracked' /\ adding'[m] = "added" =>
                          Waiting(m)' \/ Held(m, {"handling", "done"})'
  BY DEF EntriesHaveCopies
<1> DEFINE Goal == /\ m \in retrying' => Waiting(m)' \/ Held(m, {"handling"})'
                   /\ m \in tracked' /\ adding'[m] = "added" =>
                         Waiting(m)' \/ Held(m, {"handling", "done"})'
<1> SUFFICES Goal
  OBVIOUS
<1> USE DEF books, working, watching
<1>p. /\ m \in retrying => Waiting(m) \/ Held(m, {"handling"})
      /\ m \in tracked /\ adding[m] = "added" =>
            Waiting(m) \/ Held(m, {"handling", "done"})
  BY DEF EntriesHaveCopies
\* Steps that take no copy away and make no new entry.
<1>k. /\ (m \in retrying' => m \in retrying) /\ (m \in tracked' => m \in tracked)
      /\ adding' = adding
      /\ Waiting(m) => Waiting(m)'
      /\ UNCHANGED working
      => Goal
  BY <1>p DEF Held
\* Steps that put the messages ms into a queue.
<1>i. ASSUME NEW p \in Priorities, NEW ms \in SUBSET Messages, Put(p, ms), UNCHANGED working,
             m \in ms \/ (adding'[m] = adding[m] /\ (m \in tracked' => m \in tracked))
      PROVE  Goal
  <2>1. CASE m \in ms
    BY <1>i, <2>1, PutLemma DEF Waiting
  <2>2. CASE m \notin ms
    <3>1. m \in retrying' => m \in retrying
      BY <1>i, <2>2, PutLemma
    <3>2. Waiting(m) => Waiting(m)'
      BY <1>i, PutLemma DEF Waiting
    <3>3. QED
      BY <1>i, <1>p, <2>2, <3>1, <3>2 DEF Held
  <2>3. QED
    BY <2>1, <2>2
<1> HIDE DEF Goal
<1>1. ASSUME NEW n \in Messages, Track(n) PROVE Goal
  <2>1. CASE n = m
    BY <1>1, <1>p, <2>1 DEF Goal, Track, Waiting, Held, TypeOK
  <2>2. CASE n # m
    BY <1>1, <1>p, <2>2 DEF Goal, Track, Waiting, Held, TypeOK
  <2>3. QED
    BY <2>1, <2>2
<1>2. ASSUME NEW n \in Messages, Enqueue(n) PROVE Goal
  <2>1. CASE n \in Invalid
    <3>1. adding'[m] = adding[m] /\ UNCHANGED <<tracked, retrying, queue, working>>
      BY <1>2, <2>1 DEF Enqueue, TypeOK
    <3>2. QED
      BY <1>p, <3>1 DEF Goal, Waiting, Held
  <2>2. CASE n \notin Invalid
    <3>1. Put(Priority(n), {n}) /\ Priority(n) \in Priorities /\ UNCHANGED <<tracked, working>>
      BY <1>2, <2>2 DEF Enqueue, Priority, Priorities
    <3>2. m \in {n} \/ adding'[m] = adding[m]
      BY <1>2 DEF Enqueue, TypeOK
    <3>3. QED
      BY <1>i, <3>1, <3>2
  <2>3. QED
    BY <2>1, <2>2
<1>3. ASSUME NEW w \in Workers, Take(w) PROVE Goal
  <2>1. /\ holds' = [holds EXCEPT ![w] = holds'[w]]
        /\ \A q \in Priorities :
              Contains(queue[q], m) => Contains(queue'[q], m) \/ m = holds'[w]
    BY <1>3, TakeLemma
  <2>2. /\ at[w] = "idle" /\ at'[w] = "handling"
        /\ \A v \in Workers \ {w} : at'[v] = at[v] /\ holds'[v] = holds[v]
        /\ UNCHANGED <<retrying, tracked, adding>>
    BY <1>3, <2>1 DEF Take, TypeOK
  <2>3. Waiting(m) => Waiting(m)' \/ Held(m, {"handling"})'
    BY <2>1, <2>2 DEF Waiting, Held
  <2>4. /\ Held(m, {"handling"}) => Held(m, {"handling"})'
        /\ Held(m, {"handling", "done"}) => Held(m, {"handling", "done"})'
        /\ Held(m, {"handling"})' => Held(m, {"handling", "done"})'
    BY <2>2 DEF Held
  <2>5. QED
    BY <1>p, <2>2, <2>3, <2>4 DEF Goal
<1>4. ASSUME NEW w \in Workers, TaskDone(w) PROVE Goal
  <2>1. /\ at[w] = "handling" /\ at'[w] = "done" /\ holds' = holds
        /\ \A v \in Workers \ {w} : at'[v] = at[v]
        /\ retrying' = retrying \ {holds[w]} /\ UNCHANGED <<tracked, adding, queue>>
    BY <1>4 DEF TaskDone, TypeOK
  <2>2. Waiting(m)' <=> Waiting(m)
    BY <2>1 DEF Waiting
  <2>3. Held(m, {"handling", "done"}) => Held(m, {"handling", "done"})'
    BY <2>1 DEF Held
  <2>4. m \in retrying' /\ Held(m, {"handling"}) => Held(m, {"handling"})'
    BY <2>1 DEF Held
  <2>5. QED
    BY <1>p, <2>1, <2>2, <2>3, <2>4 DEF Goal
<1>5. ASSUME NEW w \in Workers, Untrack(w) PROVE Goal
  <2>1. /\ at[w] = "done" /\ tracked' = tracked \ {holds[w]}
        /\ \A v \in Workers \ {w} : at'[v] = at[v] /\ holds'[v] = holds[v]
        /\ UNCHANGED <<retrying, adding, queue>>
    BY <1>5 DEF Untrack, TypeOK
  <2>2. Waiting(m)' <=> Waiting(m)
    BY <2>1 DEF Waiting
  <2>3. m \in tracked' /\ Held(m, {"handling", "done"}) => Held(m, {"handling", "done"})'
    BY <2>1 DEF Held
  <2>4. Held(m, {"handling"}) => Held(m, {"handling"})'
    BY <2>1 DEF Held
  <2>5. QED
    BY <1>p, <2>1, <2>2, <2>3, <2>4 DEF Goal
<1>6. ASSUME NEW d \in Watchdogs, Timeouts(d) PROVE Goal
  <2>1. /\ Put("HIGH", {n \in late : MayRetry(n)}) /\ UNCHANGED <<adding, working>>
        /\ tracked' \subseteq tracked
    BY <1>6 DEF Timeouts
  <2>2. "HIGH" \in Priorities /\ {n \in late : MayRetry(n)} \in SUBSET Messages
    BY DEF Priorities, TypeOK
  <2>3. QED
    BY <1>i, <2>1, <2>2
<1>7. ASSUME NEW d \in Watchdogs, NEW n \in Messages, Requeue(d, n) PROVE Goal
  <2>1. CASE n \notin tracked
    BY <1>7, <1>k, <2>1 DEF Requeue, Waiting
  <2>2. CASE n \in tracked
    <3>1. Put("HIGH", {n}) /\ "HIGH" \in Priorities /\ UNCHANGED <<tracked, adding, working>>
      BY <1>7, <2>2 DEF Requeue, Priorities
    <3>2. QED
      BY <1>i, <3>1
  <2>3. QED
    BY <2>1, <2>2
<1>8. ASSUME NEW d \in Watchdogs, Candidates(d) \/ Sleep(d) PROVE Goal
  BY <1>8, <1>k DEF Candidates, Sleep, Waiting
<1>9. ASSUME NEW n \in Messages, DelayPasses(n) \/ TimeoutPasses(n) PROVE Goal
  BY <1>9, <1>k DEF DelayPasses, TimeoutPasses, Waiting
<1>10. CASE UNCHANGED vars
  BY <1>10, <1>k DEF vars, Waiting
<1>11. QED
  BY <1>1, <1>2, <1>3, <1>4, <1>5, <1>6, <1>7, <1>8, <1>9, <1>10 DEF Next, Add, Work, Watch

-----------------------------------------------------------------------------
\* What is finished stays finished

LEMMA FinishedStep ==
  ASSUME TypeOK, [Next]_vars, NEW m \in Messages, adding[m] = "added", m \notin tracked,
         NEW p \in Priorities
  PROVE  Copies(p, m)' <= Copies(p, m)
<1> DEFINE Goal == Cardinality(Places(queue'[p], m)) <= Cardinality(Places(queue[p], m))
<1> SUFFICES Goal
  BY DEF Copies, Places
<1> USE DEF books, working, watching
<1>n. Cardinality(Places(queue[p], m)) \in Nat
  BY PlacesFinite DEF TypeOK
<1>u. queue' = queue => Goal
  BY <1>n
<1>i. ASSUME NEW q \in Priorities, NEW ms \in SUBSET Messages, Put(q, ms), m \notin ms
      PROVE  Goal
  <2>1. Places(queue'[p], m) = Places(queue[p], m)
    BY <1>i, PutLemma
  <2>2. QED
    BY <1>n, <2>1
<1> HIDE DEF Goal
<1>1. ASSUME NEW n \in Messages, Enqueue(n) PROVE Goal
  <2>1. CASE n \in Invalid
    BY <1>1, <1>u, <2>1 DEF Enqueue
  <2>2. CASE n \notin Invalid
    <3>1. Put(Priority(n), {n}) /\ Priority(n) \in Priorities /\ m \notin {n}
      BY <1>1, <2>2 DEF Enqueue, Priority, Priorities
    <3>2. QED
      BY <1>i, <3>1
  <2>3. QED
    BY <2>1, <2>2
<1>2. ASSUME NEW w \in Workers, Take(w) PROVE Goal
  BY <1>2, TakeLemma DEF Goal
<1>3. ASSUME NEW d \in Watchdogs, Timeouts(d) PROVE Goal
  <2>1. /\ Put("HIGH", {n \in late : MayRetry(n)}) /\ "HIGH" \in Priorities
        /\ {n \in late : MayRetry(n)} \in SUBSET Messages
        /\ m \notin {n \in late : MayRetry(n)}
    BY <1>3 DEF Timeouts, Priorities, TypeOK
  <2>2. QED
    BY <1>i, <2>1
<1>4. ASSUME NEW d \in Watchdogs, NEW n \in Messages, Requeue(d, n) PROVE Goal
  <2>1. CASE n \notin tracked
    BY <1>4, <1>u, <2>1 DEF Requeue
  <2>2. CASE n \in tracked
    <3>1. Put("HIGH", {n}) /\ "HIGH" \in Priorities /\ m \notin {n}
      BY <1>4, <2>2 DEF Requeue, Priorities
    <3>2. QED
      BY <1>i, <3>1
  <2>3. QED
    BY <2>1, <2>2
<1>5. ASSUME NEW n \in Messages, Track(n) \/ DelayPasses(n) \/ TimeoutPasses(n) PROVE Goal
  BY <1>5, <1>u DEF Track, DelayPasses, TimeoutPasses
<1>6. ASSUME NEW w \in Workers, TaskDone(w) \/ Untrack(w) PROVE Goal
  BY <1>6, <1>u DEF TaskDone, Untrack
<1>7. ASSUME NEW d \in Watchdogs, Candidates(d) \/ Sleep(d) PROVE Goal
  BY <1>7, <1>u DEF Candidates, Sleep
<1>8. CASE UNCHANGED vars
  BY <1>8, <1>u DEF vars
<1>9. QED
  BY <1>1, <1>2, <1>3, <1>4, <1>5, <1>6, <1>7, <1>8 DEF Next, Add, Work, Watch

-----------------------------------------------------------------------------
\* Every variable keeps its type: what is late is tracked, what is due is in
\* the queue's book.
THEOREM RetryTyped == Spec => []TypeOK
  BY TypeInit, TypeStep, PTL DEF Spec

\* Neither book keeps a message in vain: one that waits in it has a copy that a
\* worker will come to.
THEOREM EntriesServed == Spec => []EntriesHaveCopies
<1>1. Init => EntriesHaveCopies
  BY DEF Init, EntriesHaveCopies
<1>2. QED
  BY <1>1, TypeInit, TypeStep, EntriesStep, PTL DEF Spec

\* Once a message has left the tracking no further copy of it is queued, by
\* a watchdog which found its candidates before, or by anybody.
THEOREM FinishedOver == Spec => FinishedStayFinished
<1>1. TypeOK /\ [Next]_vars =>
        [\A m \in Messages :
           adding[m] = "added" /\ m \notin tracked =>
              \A p \in Priorities : Copies(p, m)' <= Copies(p, m)]_vars
  BY FinishedStep
<1>2. QED
  BY <1>1, RetryTyped, PTL DEF Spec, FinishedStayFinished
=============================================================================
