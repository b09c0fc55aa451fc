SPECIFICATION FairSpec
CONSTANTS
  Controllers = {c1}
  Producers = {p1}
  Workers = {w1}
  Dogs = {d1,d2}
  NumWorkers = 1
  Msgs = {m1}
  WithoutId = {}
  NewSystem = {}
  Invalid = {}
  ByType = {}
  MaxRetries = 1
  MayStop = TRUE
  Faults = {}
  NoThread = NoThread
PROPERTIES StoppingFlushes
CHECK_DEADLOCK FALSE
