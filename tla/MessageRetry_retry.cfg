SPECIFICATION Spec
CONSTANTS
    Messages = {a, b, c}
    High = {a}
    Invalid = {c}
    Workers = {w1, w2}
    Watchdogs = {d1, d2}
    NoMessage = none
    MaxRetries = 1
    MaxCopies = 1
INVARIANTS EntriesHaveCopies
PROPERTIES FinishedStayFinished RetriesEnd
