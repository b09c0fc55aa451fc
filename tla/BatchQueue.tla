----------------------------- MODULE BatchQueue -----------------------------
(***************************************************************************)
(* storage/DBM.py, class SystemDatabase: insert_into_table() collects rows  *)
(* in a list per kind of operation, whatever their table; a list that has   *)
(* reached its configured size is handed to the shared executor, which      *)
(* writes it with one query and then installs an empty list.  No lock      *)
(* guards the list: a step ends wherever the code reads it again.           *)
(*                                                                         *)
(* A list object is known by its position in lists, the last one being      *)
(* self.batch_queue['insert'].                                             *)
(***************************************************************************)
EXTENDS Integers, Sequences, FiniteSetsExt

CONSTANTS
  Writers,    \* threads that call insert_into_table()
  Workers,    \* threads of the executor (max_total_workers)
  Rows,       \* rows, each inserted once
  Tables,     \* tables of the database
  TableOf,    \* the table each row is for
  Columns,    \* the number of columns of each table
  Size,       \* batch_sizes['insert']
  MaxForced   \* bound: calls of process_batch() from outside

ASSUME BatchAssumption ==
  /\ Writers \cap Workers = {}
  /\ Rows # {}
  /\ TableOf \in [Rows -> Tables]
  /\ Columns \in [Tables -> Nat \ {0}]
  /\ Size \in Nat \ {0}
  /\ MaxForced \in Nat

VARIABLES
  lists,      \* the batch lists, in order of creation
  jobs,       \* submissions of _process_batch() the executor has not started
  forced,     \* calls of process_batch() from outside so far
  pc,         \* where each thread is
  row,        \* the row a writer inserts
  ref,        \* the list a thread refers to
  slots,      \* the rows a worker's query has placeholders for
  written     \* written[w][r]: the tables worker w wrote row r to

vars == <<lists, jobs, forced, pc, row, ref, slots, written>>

Threads == Writers \cup Workers

Current == Len(lists)

\* Executor threads between the look at the list and the reset.
Busy     == {"placeholders", "params", "execute", "reset"}
BusyOn(i) == {w \in Workers : pc[w] \in Busy /\ ref[w] = i}

Inserted ==
  {r \in Rows : \/ \E i \in 1..Len(lists) : \E j \in 1..Len(lists[i]) : lists[i][j] = r
               \/ \E p \in Writers : pc[p] = "append" /\ row[p] = r}

Init ==
  /\ lists = <<(<<>>)>>
  /\ jobs = 0
  /\ forced = 0
  /\ pc = [t \in Threads |-> "idle"]
  /\ row = [p \in Writers |-> CHOOSE r \in Rows : TRUE]
  /\ ref = [t \in Threads |-> 1]
  /\ slots = [w \in Workers |-> 0]
  /\ written = [w \in Workers |-> [r \in Rows |-> <<>>]]

TypeOK ==
  /\ lists \in Seq(Seq(Rows)) /\ lists # <<>>
  /\ jobs \in Nat
  /\ forced \in 0..MaxForced
  /\ pc \in [Threads -> {"idle", "append", "check"} \cup Busy]
  /\ \A p \in Writers : pc[p] \in {"idle", "append", "check"}
  /\ \A w \in Workers : pc[w] \in {"idle"} \cup Busy
  /\ row \in [Writers -> Rows]
  /\ ref \in [Threads -> 1..Len(lists)]
  /\ slots \in [Workers -> Nat]
  /\ written \in [Workers -> [Rows -> Seq(Tables)]]

Goto(t, label) == pc' = [pc EXCEPT ![t] = label]

-----------------------------------------------------------------------------
\* add_to_batch()

\* "self.batch_queue[operation_type]" is evaluated ...
LoadList(p, r) ==
  /\ pc[p] = "idle"
  /\ r \notin Inserted
  /\ row' = [row EXCEPT ![p] = r]
  /\ ref' = [ref EXCEPT ![p] = Current]
  /\ Goto(p, "append")
  /\ UNCHANGED <<lists, jobs, forced, slots, written>>

\* ... and the row appended to that list.
AppendRow(p) ==
  /\ pc[p] = "append"
  /\ lists' = [lists EXCEPT ![ref[p]] = Append(@, row[p])]
  /\ Goto(p, "check")
  /\ UNCHANGED <<jobs, forced, row, ref, slots, written>>

\* Faulty variant of CheckSize: the batch is submitted one row too late.
CheckSizeLate(p) ==
  /\ pc[p] = "check"
  /\ jobs' = jobs + (IF Len(lists[Current]) > Size THEN 1 ELSE 0)
  /\ Goto(p, "idle")
  /\ UNCHANGED <<lists, forced, row, ref, slots, written>>

\* The length of the list that is current by now decides on process_batch().
CheckSize(p) ==
  /\ pc[p] = "check"
  /\ jobs' = jobs + (IF Len(lists[Current]) >= Size THEN 1 ELSE 0)
  /\ Goto(p, "idle")
  /\ UNCHANGED <<lists, forced, row, ref, slots, written>>

\* RadarResponseService: "Force batch processing".
ForceBatch ==
  /\ forced < MaxForced
  /\ forced' = forced + 1
  /\ jobs' = jobs + 1
  /\ UNCHANGED <<lists, pc, row, ref, slots, written>>

-----------------------------------------------------------------------------
\* _process_batch() and batch_insert()

\* An empty list is left alone, without the reset.
TakeBatch(w) ==
  /\ pc[w] = "idle"
  /\ jobs > 0
  /\ jobs' = jobs - 1
  /\ IF lists[Current] = <<>>
       THEN UNCHANGED <<pc, ref>>
       ELSE Goto(w, "placeholders") /\ ref' = [ref EXCEPT ![w] = Current]
  /\ UNCHANGED <<lists, forced, row, slots, written>>

\* One group of placeholders per row, each as wide as the first row ...
Placeholders(w) ==
  /\ pc[w] = "placeholders"
  /\ slots' = [slots EXCEPT ![w] = Len(lists[ref[w]])]
  /\ Goto(w, "params")
  /\ UNCHANGED <<lists, jobs, forced, row, ref, written>>

Width(r)   == Columns[TableOf[r]]
Values(s)  == MapThenSumSet(LAMBDA i : Width(s[i]), DOMAIN s)

\* Faulty variant of Params: the mismatch ends the thread before its finally.
ParamsStrict(w) ==
  LET batch == lists[ref[w]] IN
  /\ pc[w] = "params"
  /\ Values(batch) = slots[w] * Width(batch[1])
  /\ Goto(w, "execute")
  /\ slots' = [slots EXCEPT ![w] = Len(batch)]
  /\ UNCHANGED <<lists, jobs, forced, row, ref, written>>

\* ... and one parameter per column of each row the list has by now.  SQLite
\* refuses a query whose parameters are not as many as its placeholders.
Params(w) ==
  LET batch == lists[ref[w]] IN
  /\ pc[w] = "params"
  /\ Goto(w, IF Values(batch) = slots[w] * Width(batch[1]) THEN "execute" ELSE "reset")
  /\ slots' = [slots EXCEPT ![w] = Len(batch)]
  /\ UNCHANGED <<lists, jobs, forced, row, ref, written>>

\* The query writes the rows it has placeholders for, to the table of the first.
WithQuery(w) ==
  LET batch == lists[ref[w]] IN
  [r \in Rows |->
     IF \E i \in 1..slots[w] : batch[i] = r
     THEN Append(written[w][r], TableOf[batch[1]]) ELSE written[w][r]]

\* Faulty variant of Execute: a query that succeeded is attempted again.
ExecuteAgain(w) ==
  /\ pc[w] = "execute"
  /\ written' = [written EXCEPT ![w] = WithQuery(w)]
  /\ UNCHANGED <<lists, jobs, forced, pc, row, ref, slots>>

\* execute_query() succeeds.
Execute(w) ==
  /\ pc[w] = "execute"
  /\ written' = [written EXCEPT ![w] = WithQuery(w)]
  /\ Goto(w, "reset")
  /\ UNCHANGED <<lists, jobs, forced, row, ref, slots>>

\* The query raises once its retries are used up.
ExecuteFails(w) ==
  /\ pc[w] = "execute"
  /\ Goto(w, "reset")
  /\ UNCHANGED <<lists, jobs, forced, row, ref, slots, written>>

\* Faulty variant of Reset: the list stays in place.
ResetForgotten(w) ==
  /\ pc[w] = "reset"
  /\ Goto(w, "idle")
  /\ UNCHANGED <<lists, jobs, forced, row, ref, slots, written>>

\* The finally clause, after success and failure alike.
Reset(w) ==
  /\ pc[w] = "reset"
  /\ lists' = Append(lists, <<>>)
  /\ Goto(w, "idle")
  /\ UNCHANGED <<jobs, forced, row, ref, slots, written>>

-----------------------------------------------------------------------------
Insert(p) == AppendRow(p) \/ CheckSize(p)

Process(w) ==
  \/ TakeBatch(w) \/ Placeholders(w) \/ Params(w)
  \/ Execute(w) \/ ExecuteFails(w) \/ Reset(w)

Next ==
  \/ \E p \in Writers : Insert(p) \/ \E r \in Rows : LoadList(p, r)
  \/ \E w \in Workers : Process(w)
  \/ ForceBatch

\* A call of add_to_batch() runs on, and so does a free or busy executor thread;
\* nothing forces a row to be inserted or a batch to be forced.
Fairness ==
  /\ \A p \in Writers : WF_vars(Insert(p))
  /\ \A w \in Workers : WF_vars(Process(w))

Spec     == Init /\ [][Next]_vars
FairSpec == Spec /\ Fairness

-----------------------------------------------------------------------------
\* Properties

\* A batch of full size is on its way to the database: whichever list a job has
\* taken or reset in between, either a job is submitted, or one is at work that
\* will replace the list, or the thread that filled it is about to submit one.
FullBatchPending ==
  Len(lists[Current]) >= Size =>
    \/ jobs > 0
    \/ \E w \in Workers : pc[w] \in Busy
    \/ \E p \in Writers : pc[p] = "check"

\* ... and it is replaced by an empty list.
FullBatchLeaves ==
  \A i \in 1..Cardinality(Rows) + MaxForced :
    Current = i /\ Len(lists[i]) >= Size ~> Current > i

\* Jobs that took the same list write its rows again, but a worker that has
\* reset the list never takes it a second time: no thread of the executor
\* writes a row twice.
CopiesBounded == \A w \in Workers, r \in Rows : Len(written[w][r]) <= 1

\* What has been written is no longer in the batch, unless a worker that has
\* the list is about to reset it: no later job writes it again.
WrittenRowsLeave ==
  \A j \in 1..Len(lists[Current]) :
    (\E w \in Workers : written[w][lists[Current][j]] # <<>>) => BusyOn(Current) # {}
=============================================================================
