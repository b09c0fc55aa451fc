-------------------------- MODULE BatchQueue_proofs --------------------------
(***************************************************************************)
(* The insert batch, for every number of writers, executor threads, rows   *)
(* and tables and every batch size: a full batch is on its way, no thread  *)
(* of the executor writes a row twice, and what is written leaves.         *)
(*                                                                         *)
(* A row is in one list only (OneList) and a worker never goes back to a   *)
(* list it has written: what it wrote lies in lists before the one it      *)
(* refers to (WrittenBefore).                                              *)
(***************************************************************************)
EXTENDS BatchQueue, SequenceTheorems, TLAPS

Holds(i, r) == i \in 1..Len(lists) /\ \E j \in 1..Len(lists[i]) : lists[i][j] = r

\* A row is inserted once: it is in one list, or in the hands of one writer.
OneList ==
  /\ \A r \in Rows : \A i, k \in 1..Len(lists) : Holds(i, r) /\ Holds(k, r) => i = k
  /\ \A p \in Writers : pc[p] = "append" => \A i \in 1..Len(lists) : ~Holds(i, row[p])
  /\ \A p, q \in Writers : pc[p] = "append" /\ pc[q] = "append" /\ row[p] = row[q] => p = q

\* A list that worker w has still to write has this position or a later one.
Horizon(w) ==
  IF pc[w] = "idle" THEN Current
  ELSE IF pc[w] = "reset" THEN ref[w] + 1 ELSE ref[w]

\* A query has placeholders for rows of its list only.
QueryFits == \A w \in Workers : pc[w] = "execute" => slots[w] <= Len(lists[ref[w]])

\* A worker has written rows of lists before its horizon only, each once.
WrittenBefore ==
  \A w \in Workers, r \in Rows :
    /\ Len(written[w][r]) <= 1
    /\ written[w][r] # <<>> => \E i \in 1..Len(lists) : i < Horizon(w) /\ Holds(i, r)

-----------------------------------------------------------------------------
\* Types

LEMMA TypeInit == Init => TypeOK
<1> SUFFICES ASSUME Init PROVE TypeOK
  OBVIOUS
<1> USE BatchAssumption DEF Init, Threads, Busy
<1>1. <<>> \in Seq(Rows) /\ <<>> \in Seq(Tables)
  BY EmptySeq
<1>2. lists \in Seq(Seq(Rows)) /\ lists # <<>> /\ Len(lists) = 1
  BY <1>1
<1>3. pc \in [Threads -> {"idle", "append", "check"} \cup Busy]
  OBVIOUS
<1>4. row \in [Writers -> Rows] /\ ref \in [Threads -> 1..Len(lists)]
  BY <1>2
<1>5. slots \in [Workers -> Nat] /\ written \in [Workers -> [Rows -> Seq(Tables)]]
  BY <1>1
<1>6. jobs \in Nat /\ forced \in 0..MaxForced
  OBVIOUS
<1>7. QED
  BY <1>2, <1>3, <1>4, <1>5, <1>6 DEF TypeOK

\* What the proofs use of the lists.
LEMMA ListsTyped ==
  TypeOK => /\ Len(lists) \in Nat \ {0} /\ Current \in 1..Len(lists)
            /\ \A i \in 1..Len(lists) :
                 /\ lists[i] \in Seq(Rows) /\ Len(lists[i]) \in Nat
                 /\ \A j \in 1..Len(lists[i]) : lists[i][j] \in Rows
  BY EmptySeq, LenProperties, ElementOfSeq DEF TypeOK, Current

\* AppendRow(p) lengthens one list by the row of p and leaves the others.
LEMMA Appended ==
  ASSUME TypeOK, NEW p \in Writers, AppendRow(p)
  PROVE  /\ lists' \in Seq(Seq(Rows)) /\ lists' # <<>> /\ Len(lists') = Len(lists)
         /\ lists'[ref[p]] = Append(lists[ref[p]], row[p])
         /\ Len(lists'[ref[p]]) = Len(lists[ref[p]]) + 1
         /\ lists'[ref[p]][Len(lists[ref[p]]) + 1] = row[p]
         /\ \A j \in 1..Len(lists[ref[p]]) : lists'[ref[p]][j] = lists[ref[p]][j]
         /\ \A i \in 1..Len(lists) : i # ref[p] => lists'[i] = lists[i]
         /\ \A i, r : Holds(i, r)' <=> Holds(i, r) \/ (i = ref[p] /\ r = row[p])
<1> DEFINE i0 == ref[p]
           l0 == lists[i0]
<1>1. i0 \in 1..Len(lists) /\ row[p] \in Rows /\ l0 \in Seq(Rows) /\ Len(l0) \in Nat
  BY ListsTyped DEF TypeOK, Threads
<1>2. /\ Append(l0, row[p]) \in Seq(Rows) /\ Len(Append(l0, row[p])) = Len(l0) + 1
      /\ \A j \in 1..Len(l0) : Append(l0, row[p])[j] = l0[j]
      /\ Append(l0, row[p])[Len(l0) + 1] = row[p]
  BY <1>1, AppendProperties
<1>3. lists \in Seq(Seq(Rows)) /\ lists' = [lists EXCEPT ![i0] = Append(l0, row[p])]
  BY DEF AppendRow, TypeOK
<1> HIDE DEF i0, l0
<1>4. /\ lists' \in Seq(Seq(Rows)) /\ Len(lists') = Len(lists)
      /\ \A i \in 1..Len(lists) : lists'[i] = IF i = i0 THEN Append(l0, row[p]) ELSE lists[i]
  BY <1>1, <1>2, <1>3, ExceptSeq
<1>5. lists'[i0] = Append(l0, row[p]) /\ \A i \in 1..Len(lists) : i # i0 => lists'[i] = lists[i]
  BY <1>1, <1>4
<1> USE DEF i0, l0
<1>6. lists' # <<>>
  BY <1>4, ListsTyped, EmptySeq
<1>7. ASSUME NEW i, NEW r PROVE Holds(i, r)' <=> Holds(i, r) \/ (i = i0 /\ r = row[p])
  <2>1. CASE i = i0
    <3>1. 1..Len(lists'[i0]) = 1..Len(l0) \cup {Len(l0) + 1}
      BY <1>1, <1>2, <1>5
    <3>2. QED
      BY <1>1, <1>2, <1>4, <1>5, <2>1, <3>1 DEF Holds
  <2>2. CASE i # i0
    BY <1>4, <1>5, <2>2 DEF Holds
  <2>3. QED
    BY <2>1, <2>2
<1>8. QED
  BY <1>2, <1>4, <1>5, <1>6, <1>7

\* Reset(w) makes an empty list current and leaves the others.
LEMMA Replaced ==
  ASSUME TypeOK, NEW w \in Workers, Reset(w)
  PROVE  /\ lists' \in Seq(Seq(Rows)) /\ lists' # <<>> /\ Len(lists') = Len(lists) + 1
         /\ lists'[Len(lists) + 1] = <<>>
         /\ \A i \in 1..Len(lists) : lists'[i] = lists[i]
         /\ \A i, r : Holds(i, r)' <=> Holds(i, r)
<1>1. lists \in Seq(Seq(Rows)) /\ <<>> \in Seq(Rows) /\ lists' = Append(lists, <<>>)
      /\ Len(<<>>) = 0 /\ Len(lists) \in Nat
  BY EmptySeq, ListsTyped DEF TypeOK, Reset
<1>2. /\ lists' \in Seq(Seq(Rows)) /\ Len(lists') = Len(lists) + 1
      /\ lists'[Len(lists) + 1] = <<>>
      /\ \A i \in 1..Len(lists) : lists'[i] = lists[i]
  BY <1>1, AppendProperties
<1>3. lists' # <<>>
  BY <1>1, <1>2, EmptySeq
<1>4. \A i, r : Holds(i, r)' <=> Holds(i, r)
  BY <1>1, <1>2 DEF Holds
<1>5. QED
  BY <1>2, <1>3, <1>4

LEMMA TypeStep == TypeOK /\ QueryFits /\ [Next]_vars => TypeOK'
<1> SUFFICES ASSUME TypeOK, QueryFits, [Next]_vars PROVE TypeOK'
  OBVIOUS
<1> USE BatchAssumption DEF Threads, Busy, Goto
<1>1. ASSUME NEW p \in Writers, NEW r \in Rows, LoadList(p, r) PROVE TypeOK'
  BY <1>1, ListsTyped DEF TypeOK, LoadList
<1>2. ASSUME NEW p \in Writers, AppendRow(p) PROVE TypeOK'
  <2>1. lists' \in Seq(Seq(Rows)) /\ lists' # <<>> /\ Len(lists') = Len(lists)
    BY <1>2, Appended
  <2>2. QED
    BY <1>2, <2>1 DEF TypeOK, AppendRow
<1>3. ASSUME NEW p \in Writers, CheckSize(p) PROVE TypeOK'
  BY <1>3 DEF TypeOK, CheckSize
<1>4. CASE ForceBatch
  BY <1>4 DEF TypeOK, ForceBatch
<1>5. ASSUME NEW w \in Workers, TakeBatch(w) PROVE TypeOK'
  <2>1. jobs' \in Nat /\ UNCHANGED <<lists, forced, row, slots, written>>
    BY <1>5 DEF TypeOK, TakeBatch
  <2>2. CASE UNCHANGED <<pc, ref>>
    BY <2>1, <2>2 DEF TypeOK
  <2>3. CASE Goto(w, "placeholders") /\ ref' = [ref EXCEPT ![w] = Current]
    BY <2>1, <2>3, ListsTyped DEF TypeOK
  <2>4. QED
    BY <1>5, <2>2, <2>3 DEF TakeBatch
<1>6. ASSUME NEW w \in Workers, Placeholders(w) \/ Params(w) PROVE TypeOK'
  <2>1. Len(lists[ref[w]]) \in Nat
    BY ListsTyped DEF TypeOK
  <2>2. /\ UNCHANGED <<lists, jobs, forced, row, ref, written>>
        /\ slots' = [slots EXCEPT ![w] = Len(lists[ref[w]])]
        /\ \E label \in {"params", "execute", "reset"} : pc' = [pc EXCEPT ![w] = label]
    BY <1>6 DEF Placeholders, Params
  <2>3. QED
    BY <2>1, <2>2 DEF TypeOK
<1>7. ASSUME NEW w \in Workers, Execute(w) PROVE TypeOK'
  <2>1. WithQuery(w) \in [Rows -> Seq(Tables)]
    <3>1. ASSUME NEW r \in Rows, NEW i \in 1..slots[w]
          PROVE  Append(written[w][r], TableOf[lists[ref[w]][1]]) \in Seq(Tables)
      <4>1. ref[w] \in 1..Len(lists) /\ Len(lists[ref[w]]) \in Nat /\ slots[w] \in Nat
        BY ListsTyped DEF TypeOK
      <4>2. 1 \in 1..Len(lists[ref[w]])
        BY <1>7, <4>1 DEF QueryFits, Execute
      <4>3. TableOf[lists[ref[w]][1]] \in Tables
        BY <4>1, <4>2, ListsTyped
      <4>4. written[w][r] \in Seq(Tables)
        BY DEF TypeOK
      <4>5. QED
        BY <4>3, <4>4, AppendProperties
    <3>2. QED
      BY <3>1 DEF WithQuery, TypeOK
  <2>2. QED
    BY <1>7, <2>1 DEF TypeOK, Execute
<1>8. ASSUME NEW w \in Workers, ExecuteFails(w) PROVE TypeOK'
  BY <1>8 DEF TypeOK, ExecuteFails
<1>9. ASSUME NEW w \in Workers, Reset(w) PROVE TypeOK'
  <2>1. lists' \in Seq(Seq(Rows)) /\ lists' # <<>> /\ Len(lists') = Len(lists) + 1
    BY <1>9, Replaced
  <2>2. Len(lists) \in Nat
    BY ListsTyped
  <2>3. ref' \in [Threads -> 1..Len(lists')]
    BY <1>9, <2>1, <2>2 DEF TypeOK, Reset
  <2>4. QED
    BY <1>9, <2>1, <2>3 DEF TypeOK, Reset
<1>10. CASE UNCHANGED vars
  BY <1>10 DEF TypeOK, vars
<1>11. QED
  BY <1>1, <1>2, <1>3, <1>4, <1>5, <1>6, <1>7, <1>8, <1>9, <1>10 DEF Next, Insert, Process

-----------------------------------------------------------------------------
\* A full batch is on its way

LEMMA PendingStep == TypeOK /\ FullBatchPending /\ [Next]_vars => FullBatchPending'
<1> SUFFICES ASSUME TypeOK, FullBatchPending, [Next]_vars PROVE FullBatchPending'
  OBVIOUS
<1> USE BatchAssumption DEF FullBatchPending, Current, Threads, Goto
<1>0. \A i \in 1..Len(lists) : Len(lists[i]) \in Nat
  BY ListsTyped
<1>1. ASSUME NEW p \in Writers, NEW r \in Rows, LoadList(p, r) PROVE FullBatchPending'
  BY <1>1 DEF LoadList, TypeOK, Busy
<1>2. ASSUME NEW p \in Writers, AppendRow(p) PROVE FullBatchPending'
  BY <1>2 DEF AppendRow, TypeOK
<1>3. ASSUME NEW p \in Writers, CheckSize(p) PROVE FullBatchPending'
  <2>1. Len(lists[Len(lists)]) >= Size => jobs' > 0
    BY <1>3 DEF CheckSize, TypeOK
  <2>2. QED
    BY <1>3, <2>1 DEF CheckSize
<1>4. CASE ForceBatch
  BY <1>4 DEF ForceBatch, TypeOK
<1>5. ASSUME NEW w \in Workers, TakeBatch(w) PROVE FullBatchPending'
  <2>1. CASE lists[Len(lists)] = <<>>
    <3>1. Len(lists[Len(lists)]) = 0
      BY <2>1
    <3>2. QED
      BY <1>5, <3>1 DEF TakeBatch
  <2>2. CASE lists[Len(lists)] # <<>>
    <3>1. pc'[w] \in Busy
      BY <1>5, <2>2 DEF TakeBatch, TypeOK, Busy
    <3>2. QED
      BY <3>1
  <2>3. QED
    BY <2>1, <2>2
<1>6. ASSUME NEW w \in Workers, Placeholders(w) \/ Params(w) \/ Execute(w) \/ ExecuteFails(w)
      PROVE  FullBatchPending'
  <2>1. \E label \in Busy : pc' = [pc EXCEPT ![w] = label]
    BY <1>6 DEF Placeholders, Params, Execute, ExecuteFails, Busy
  <2>2. pc'[w] \in Busy
    BY <2>1 DEF TypeOK
  <2>3. QED
    BY <2>2
<1>7. ASSUME NEW w \in Workers, Reset(w) PROVE FullBatchPending'
  <2>1. Len(lists'[Len(lists')]) = 0
    BY <1>7, Replaced
  <2>2. QED
    BY <2>1
<1>8. CASE UNCHANGED vars
  BY <1>8 DEF vars
<1>9. QED
  BY <1>1, <1>2, <1>3, <1>4, <1>5, <1>6, <1>7, <1>8 DEF Next, Insert, Process

-----------------------------------------------------------------------------
\* Where the rows are

LEMMA OneListInit == Init => OneList
  BY BatchAssumption, EmptySeq DEF Init, OneList, Holds, Threads

LEMMA OneListStep == TypeOK /\ OneList /\ [Next]_vars => OneList'
<1> SUFFICES ASSUME TypeOK, OneList, [Next]_vars PROVE OneList'
  OBVIOUS
<1> USE BatchAssumption DEF Threads, Goto
<1>h. lists' = lists => \A i, r : Holds(i, r)' <=> Holds(i, r)
  BY DEF Holds
<1>1. ASSUME NEW p \in Writers, NEW r \in Rows, LoadList(p, r) PROVE OneList'
  <2>1. \A i \in 1..Len(lists) : ~Holds(i, r)
    BY <1>1 DEF LoadList, Inserted, Holds
  <2>2. \A q \in Writers : pc[q] = "append" => row[q] # r
    BY <1>1 DEF LoadList, Inserted
  <2>3. /\ lists' = lists
        /\ \A q \in Writers : q # p => pc'[q] = pc[q] /\ row'[q] = row[q]
        /\ row'[p] = r
    BY <1>1 DEF LoadList, TypeOK
  <2>4. QED
    BY <1>h, <2>1, <2>2, <2>3 DEF OneList
<1>2. ASSUME NEW p \in Writers, AppendRow(p) PROVE OneList'
  <2>1. /\ Len(lists') = Len(lists)
        /\ \A i, r : Holds(i, r)' <=> Holds(i, r) \/ (i = ref[p] /\ r = row[p])
    BY <1>2, Appended
  <2>2. /\ pc[p] = "append" /\ pc'[p] = "check" /\ row' = row
        /\ \A q \in Writers : q # p => pc'[q] = pc[q]
    BY <1>2 DEF AppendRow, TypeOK
  <2>3. \A i \in 1..Len(lists) : ~Holds(i, row[p])
    BY <2>2 DEF OneList
  <2>4. QED
    BY <2>1, <2>2, <2>3 DEF OneList
<1>3. ASSUME NEW p \in Writers, CheckSize(p) PROVE OneList'
  <2>1. lists' = lists /\ row' = row /\ \A q \in Writers : pc'[q] = "append" => pc[q] = "append"
    BY <1>3 DEF CheckSize, TypeOK
  <2>2. QED
    BY <1>h, <2>1 DEF OneList
<1>4. CASE ForceBatch
  BY <1>h, <1>4 DEF ForceBatch, OneList
<1>5. ASSUME NEW w \in Workers, Process(w) PROVE OneList'
  <2>1. row' = row /\ \A q \in Writers : pc'[q] = pc[q]
    BY <1>5 DEF Process, TakeBatch, Placeholders, Params, Execute, ExecuteFails, Reset, TypeOK
  <2>2. CASE Reset(w)
    <3>1. /\ Len(lists') = Len(lists) + 1 /\ \A i, r : Holds(i, r)' <=> Holds(i, r)
      BY <2>2, Replaced
    <3>2. \A i, r : Holds(i, r) => i \in 1..Len(lists)
      BY DEF Holds
    <3>3. QED
      BY <2>1, <3>1, <3>2 DEF OneList
  <2>3. CASE ~Reset(w)
    <3>1. lists' = lists
      BY <1>5, <2>3 DEF Process, TakeBatch, Placeholders, Params, Execute, ExecuteFails
    <3>2. QED
      BY <1>h, <2>1, <3>1 DEF OneList
  <2>4. QED
    BY <2>2, <2>3
<1>6. CASE UNCHANGED vars
  BY <1>h, <1>6 DEF vars, OneList
<1>7. QED
  BY <1>1, <1>2, <1>3, <1>4, <1>5, <1>6 DEF Next, Insert

-----------------------------------------------------------------------------
\* What has been written

LEMMA FitsInit == Init => QueryFits
  BY BatchAssumption DEF Init, QueryFits, Threads

LEMMA FitsStep == TypeOK /\ QueryFits /\ [Next]_vars => QueryFits'
<1> SUFFICES ASSUME TypeOK, QueryFits, [Next]_vars, NEW v \in Workers, pc'[v] = "execute"
             PROVE  slots'[v] <= Len(lists'[ref'[v]])
  BY DEF QueryFits
<1> USE BatchAssumption DEF Threads, Goto
<1>t. ref[v] \in 1..Len(lists) /\ slots[v] \in Nat /\ Len(lists[ref[v]]) \in Nat
  BY ListsTyped DEF TypeOK
<1>s. /\ pc[v] = "execute" /\ slots'[v] = slots[v] /\ ref'[v] = ref[v]
      /\ Len(lists'[ref[v]]) = Len(lists[ref[v]])
      => slots'[v] <= Len(lists'[ref'[v]])
  BY DEF QueryFits
<1>1. ASSUME NEW p \in Writers, NEW r \in Rows, LoadList(p, r)
      PROVE  slots'[v] <= Len(lists'[ref'[v]])
  BY <1>1, <1>s DEF LoadList, TypeOK
<1>2. ASSUME NEW p \in Writers, AppendRow(p) PROVE slots'[v] <= Len(lists'[ref'[v]])
  <2>1. pc[v] = "execute" /\ slots' = slots /\ ref' = ref
    BY <1>2 DEF AppendRow, TypeOK
  <2>2. Len(lists'[ref[v]]) >= Len(lists[ref[v]]) /\ Len(lists'[ref[v]]) \in Nat
    <3>1. CASE ref[v] = ref[p]
      BY <1>2, <1>t, <3>1, Appended
    <3>2. CASE ref[v] # ref[p]
      BY <1>2, <1>t, <3>2, Appended
    <3>3. QED
      BY <3>1, <3>2
  <2>3. QED
    BY <1>t, <2>1, <2>2 DEF QueryFits
<1>3. ASSUME NEW p \in Writers, CheckSize(p) PROVE slots'[v] <= Len(lists'[ref'[v]])
  BY <1>3, <1>s DEF CheckSize, TypeOK
<1>4. CASE ForceBatch
  BY <1>4, <1>s DEF ForceBatch
<1>5. ASSUME NEW w \in Workers, TakeBatch(w) PROVE slots'[v] <= Len(lists'[ref'[v]])
  BY <1>5, <1>s DEF TakeBatch, TypeOK
<1>6. ASSUME NEW w \in Workers, Placeholders(w) PROVE slots'[v] <= Len(lists'[ref'[v]])
  BY <1>6, <1>s DEF Placeholders, TypeOK
<1>7. ASSUME NEW w \in Workers, Params(w) PROVE slots'[v] <= Len(lists'[ref'[v]])
  <2>1. CASE w = v
    BY <1>7, <1>t, <2>1 DEF Params, TypeOK
  <2>2. CASE w # v
    BY <1>7, <1>s, <2>2 DEF Params, TypeOK
  <2>3. QED
    BY <2>1, <2>2
<1>8. ASSUME NEW w \in Workers, Execute(w) \/ ExecuteFails(w)
      PROVE  slots'[v] <= Len(lists'[ref'[v]])
  BY <1>8, <1>s DEF Execute, ExecuteFails, TypeOK
<1>9. ASSUME NEW w \in Workers, Reset(w) PROVE slots'[v] <= Len(lists'[ref'[v]])
  <2>1. lists'[ref[v]] = lists[ref[v]]
    BY <1>9, <1>t, Replaced
  <2>2. pc[v] = "execute" /\ slots' = slots /\ ref' = ref
    BY <1>9 DEF Reset, TypeOK
  <2>3. QED
    BY <1>s, <2>1, <2>2
<1>10. CASE UNCHANGED vars
  BY <1>10, <1>s DEF vars
<1>11. QED
  BY <1>1, <1>2, <1>3, <1>4, <1>5, <1>6, <1>7, <1>8, <1>9, <1>10 DEF Next, Insert, Process

LEMMA WrittenInit == Init => WrittenBefore
  BY EmptySeq DEF Init, WrittenBefore

LEMMA WrittenStep ==
  TypeOK /\ OneList /\ QueryFits /\ WrittenBefore /\ [Next]_vars => WrittenBefore'
<1> SUFFICES ASSUME TypeOK, OneList, QueryFits, WrittenBefore, [Next]_vars,
                    NEW w \in Workers, NEW r \in Rows
             PROVE  /\ Len(written'[w][r]) <= 1
                    /\ written'[w][r] # <<>> =>
                         \E i \in 1..Len(lists') : i < Horizon(w)' /\ Holds(i, r)'
  BY DEF WrittenBefore
<1> DEFINE Goal == /\ Len(written'[w][r]) <= 1
                   /\ written'[w][r] # <<>> =>
                        \E i \in 1..Len(lists') : i < Horizon(w)' /\ Holds(i, r)'
<1> USE BatchAssumption DEF Threads, Goto
<1>t. /\ Len(lists) \in Nat /\ ref[w] \in 1..Len(lists) /\ Horizon(w) \in Nat
      /\ Horizon(w) <= Len(lists) + 1
  <2>1. Len(lists) \in Nat /\ ref[w] \in 1..Len(lists)
    BY ListsTyped DEF TypeOK
  <2>2. QED
    BY <2>1 DEF Horizon, Current
<1>p. /\ Len(written[w][r]) <= 1
      /\ written[w][r] # <<>> => \E i \in 1..Len(lists) : i < Horizon(w) /\ Holds(i, r)
  BY DEF WrittenBefore
\* No step takes a row from a list, and only queries write.
<1>k. /\ written'[w] = written[w] /\ Horizon(w)' \in Nat /\ Horizon(w) <= Horizon(w)'
      /\ Len(lists') \in Nat /\ Len(lists) <= Len(lists')
      /\ \A i : Holds(i, r) => Holds(i, r)'
      => Goal
  BY <1>p, <1>t
<1>h. lists' = lists => \A i : Holds(i, r) => Holds(i, r)'
  BY DEF Holds
<1> SUFFICES Goal
  OBVIOUS
<1> HIDE DEF Goal
<1>u. written' = written /\ lists' = lists /\ pc'[w] = pc[w] /\ ref'[w] = ref[w] => Goal
  BY <1>h, <1>k, <1>t DEF Horizon, Current
<1>1. ASSUME NEW p \in Writers, NEW s \in Rows, LoadList(p, s) PROVE Goal
  BY <1>1, <1>u DEF LoadList, TypeOK
<1>3. ASSUME NEW p \in Writers, CheckSize(p) PROVE Goal
  BY <1>3, <1>u DEF CheckSize, TypeOK
<1>2. ASSUME NEW p \in Writers, AppendRow(p) PROVE Goal
  <2>1. written' = written /\ pc'[w] = pc[w] /\ ref'[w] = ref[w]
    BY <1>2 DEF AppendRow, TypeOK
  <2>2. Len(lists') = Len(lists) /\ \A i : Holds(i, r) => Holds(i, r)'
    BY <1>2, Appended
  <2>3. QED
    BY <1>k, <1>t, <2>1, <2>2 DEF Horizon, Current
<1>4. CASE ForceBatch
  BY <1>4, <1>u DEF ForceBatch
<1>5. ASSUME NEW v \in Workers, TakeBatch(v) \/ Placeholders(v) \/ Params(v) \/ ExecuteFails(v)
      PROVE  Goal
  <2>1. written' = written /\ lists' = lists
    BY <1>5 DEF TakeBatch, Placeholders, Params, ExecuteFails
  <2>2. Horizon(w)' \in Nat /\ Horizon(w) <= Horizon(w)'
    <3>1. CASE v = w /\ TakeBatch(v)
      BY <1>t, <3>1 DEF TakeBatch, Horizon, Current, TypeOK
    <3>2. CASE v = w /\ ~TakeBatch(v)
      <4>1. /\ ref' = ref /\ pc[w] \in {"placeholders", "params", "execute"}
            /\ pc'[w] \in {"params", "execute", "reset"}
        BY <1>5, <3>2 DEF Placeholders, Params, ExecuteFails, TypeOK
      <4>2. QED
        BY <1>t, <4>1 DEF Horizon
    <3>3. CASE v # w
      <4>1. pc'[w] = pc[w] /\ ref'[w] = ref[w]
        BY <1>5, <3>3 DEF TakeBatch, Placeholders, Params, ExecuteFails, TypeOK
      <4>2. QED
        BY <1>t, <2>1, <4>1 DEF Horizon, Current
    <3>4. QED
      BY <3>1, <3>2, <3>3
  <2>3. QED
    BY <1>h, <1>k, <1>t, <2>1, <2>2
<1>6. ASSUME NEW v \in Workers, Execute(v) PROVE Goal
  <2>0. lists' = lists /\ ref' = ref
    BY <1>6 DEF Execute
  <2>1. CASE v = w
    <3>1. /\ Horizon(w) = ref[w] /\ Horizon(w)' = ref[w] + 1
          /\ written'[w] = WithQuery(w)
      BY <1>6, <2>0, <2>1 DEF Execute, Horizon, TypeOK
    <3>2. CASE \E i \in 1..slots[w] : lists[ref[w]][i] = r
      <4>1. Holds(ref[w], r)
        <5>1. slots[w] <= Len(lists[ref[w]]) /\ slots[w] \in Nat /\ Len(lists[ref[w]]) \in Nat
          BY <1>6, <1>t, <2>1, ListsTyped DEF QueryFits, Execute, TypeOK
        <5>2. QED
          BY <1>t, <3>2, <5>1 DEF Holds
      <4>2. written[w][r] = <<>>
        BY <1>p, <1>t, <3>1, <4>1 DEF OneList
      <4>3. Len(written'[w][r]) = 1
        BY <3>1, <3>2, <4>2 DEF WithQuery
      <4>4. QED
        BY <1>h, <1>t, <2>0, <3>1, <4>1, <4>3 DEF Goal
    <3>3. CASE ~\E i \in 1..slots[w] : lists[ref[w]][i] = r
      <4>1. written'[w][r] = written[w][r]
        BY <3>1, <3>3 DEF WithQuery
      <4>2. QED
        BY <1>h, <1>p, <1>t, <2>0, <3>1, <4>1 DEF Goal
    <3>4. QED
      BY <3>2, <3>3
  <2>2. CASE v # w
    <3>1. pc'[w] = pc[w] /\ written'[w] = written[w]
      BY <1>6, <2>2 DEF Execute, TypeOK
    <3>2. QED
      BY <1>h, <1>k, <1>t, <2>0, <3>1 DEF Horizon, Current
  <2>3. QED
    BY <2>1, <2>2
<1>7. ASSUME NEW v \in Workers, Reset(v) PROVE Goal
  <2>1. Len(lists') = Len(lists) + 1 /\ \A i : Holds(i, r) => Holds(i, r)'
    BY <1>7, Replaced
  <2>2. written' = written /\ ref' = ref /\ (pc'[w] = pc[w] \/ pc'[w] = "idle")
    BY <1>7 DEF Reset, TypeOK
  <2>3. QED
    BY <1>k, <1>t, <2>1, <2>2 DEF Horizon, Current
<1>8. CASE UNCHANGED vars
  BY <1>8, <1>u DEF vars
<1>9. QED
  BY <1>1, <1>2, <1>3, <1>4, <1>5, <1>6, <1>7, <1>8 DEF Next, Insert, Process

-----------------------------------------------------------------------------
LEMMA Invariants == Spec => [](TypeOK /\ OneList /\ QueryFits /\ WrittenBefore)
  BY TypeInit, TypeStep, OneListInit, OneListStep, FitsInit, FitsStep, WrittenInit,
     WrittenStep, PTL DEF Spec

\* Every variable of the batch keeps its type: no thread refers to a list that
\* has not been created.
THEOREM BatchTyped == Spec => []TypeOK
  BY Invariants, PTL

\* A batch of full size is on its way to the database, whatever is taken and
\* reset in between: a job is submitted, at work, or about to be submitted.
THEOREM BatchPending == Spec => []FullBatchPending
<1>1. Init => FullBatchPending
  BY BatchAssumption, EmptySeq DEF Init, FullBatchPending, Current
<1>2. QED
  BY <1>1, Invariants, PendingStep, PTL DEF Spec

\* Jobs that took the same list write its rows again, but no thread of the
\* executor writes a row twice.
THEOREM RowsWrittenOnce == Spec => []CopiesBounded
<1>1. WrittenBefore => CopiesBounded
  BY DEF WrittenBefore, CopiesBounded
<1>2. QED
  BY <1>1, Invariants, PTL

\* What has been written is in the batch only as long as a worker is about to
\* reset it.
THEOREM WrittenLeave == Spec => []WrittenRowsLeave
<1>1. TypeOK /\ OneList /\ WrittenBefore => WrittenRowsLeave
  <2> SUFFICES ASSUME TypeOK, OneList, WrittenBefore,
                      NEW j \in 1..Len(lists[Current]), NEW w \in Workers,
                      written[w][lists[Current][j]] # <<>>
               PROVE  w \in BusyOn(Current)
    BY DEF WrittenRowsLeave
  <2> DEFINE r == lists[Current][j]
  <2>1. r \in Rows /\ Current \in 1..Len(lists) /\ Holds(Current, r)
    BY ListsTyped DEF Holds
  <2>2. PICK i \in 1..Len(lists) : i < Horizon(w) /\ Holds(i, r)
    BY <2>1 DEF WrittenBefore
  <2>3. i = Current
    BY <2>1, <2>2 DEF OneList
  <2>4. Current < Horizon(w) /\ ref[w] \in 1..Len(lists)
    BY <2>2, <2>3 DEF TypeOK, Threads
  <2>5. pc[w] = "reset" /\ ref[w] = Current
    BY <2>4, ListsTyped DEF Horizon, Current
  <2>6. QED
    BY <2>5 DEF BusyOn, Busy
<1>2. QED
  BY <1>1, Invariants, PTL
=============================================================================
