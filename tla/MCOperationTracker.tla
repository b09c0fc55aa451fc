------------------------- MODULE MCOperationTracker -------------------------
\* Three callers of one operation, one of whose callbacks asks the tracker, a
\* marker and a clearer of it, and a caller of another operation.
EXTENDS OperationTracker

CONSTANTS t1, t2, t3, u, m, c, rates, database

MCKeyOf == [x \in {t1, t2, t3, u, m, c} |-> IF x = u THEN database ELSE rates]
=============================================================================
