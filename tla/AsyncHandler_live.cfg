SPECIFICATION FairSpec
CONSTANTS
  Controllers = {c1,c2}
  Producers = {p1}
  Workers = {w1}
  Dogs = {d1, d2}
  NumWorkers = 1
  Msgs = {m1,m2}
  WithoutId = {m1}
  NewSystem = {m2}
  Invalid = {}
  ByType = {}
  MaxRetries = 1
  MayStop = FALSE
  Faults = {"noFiles", "noLoop"}
  NoThread = NoThread
PROPERTIES EveryMessageHandled StartEnds
CHECK_DEADLOCK FALSE
