SPECIFICATION Spec
CONSTANTS
  Controllers = {c1, c2}
  Producers = {p1}
  Workers = {w1, w2}
  Dogs = {d1, d2}
  NumWorkers = 1
  Msgs = {m1, m2}
  WithoutId = {m1}
  NewSystem = {m2}
  Invalid = {m2}
  ByType = {m1}
  MaxRetries = 1
  MayStop = TRUE
  Faults = {"stuck", "noFiles", "noLoop"}
  NoThread = NoThread
SYMMETRY Symmetry
INVARIANTS MessagesConserved ServingDrainsBuffer WorkersBounded
PROPERTIES OnlyValidTransitions
CHECK_DEADLOCK FALSE
