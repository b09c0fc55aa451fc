----------------------------- MODULE StoredRows -----------------------------
(***************************************************************************)
(* What a caller that stores rows is promised, however the database is     *)
(* shared and however often the write is tried: its rows get into the file *)
(* at most once, before the answer, they stay there, and it is not told    *)
(* "ok" without them.  The sure callers are also told when they are there. *)
(***************************************************************************)
CONSTANTS Callers, Sure

VARIABLES stored,  \* the callers whose rows are in the file
          answer   \* what each was told

RowsInit == stored = {} /\ answer = [t \in Callers |-> "none"]

Store(t) ==
    /\ answer[t] = "none"
    /\ t \notin stored
    /\ stored' = stored \cup {t}
    /\ UNCHANGED answer

Succeed(t) ==
    /\ answer[t] = "none"
    /\ t \in stored
    /\ answer' = [answer EXCEPT ![t] = "ok"]
    /\ UNCHANGED stored

Fail(t) ==
    /\ answer[t] = "none"
    /\ t \notin Sure \cap stored
    /\ answer' = [answer EXCEPT ![t] = "failed"]
    /\ UNCHANGED stored

RowsNext == \E t \in Callers : Store(t) \/ Succeed(t) \/ Fail(t)

RowsSpec == RowsInit /\ [][RowsNext]_<<stored, answer>>
=============================================================================
