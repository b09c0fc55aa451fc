---------------------------- MODULE HandleLoans ----------------------------
(***************************************************************************)
(* What a connection pool promises its clients, whatever it does inside: a  *)
(* client has at most one handle, no handle is lent twice, and at most      *)
(* MaxConn are lent at a time.                                             *)
(***************************************************************************)
EXTENDS Integers, FiniteSets

CONSTANTS Threads, Conns, MaxConn, NoConn

VARIABLE loan   \* loan[t]: the handle lent to t, or NoConn

Borrowers == {t \in Threads : loan[t] # NoConn}

LoansInit == loan = [t \in Threads |-> NoConn]

Borrow(t, c) ==
  /\ loan[t] = NoConn
  /\ \A u \in Threads : loan[u] # c
  /\ Cardinality(Borrowers) < MaxConn
  /\ loan' = [loan EXCEPT ![t] = c]

GiveBack(t) ==
  /\ loan[t] # NoConn
  /\ loan' = [loan EXCEPT ![t] = NoConn]

LoansNext == \E t \in Threads : GiveBack(t) \/ \E c \in Conns : Borrow(t, c)

LoansSpec == LoansInit /\ [][LoansNext]_loan
=============================================================================
