SPECIFICATION FairSpec
CONSTANTS
  Writers = {p1, p2}
  Workers = {w1, w2}
  r1 = r1
  r2 = r2
  r3 = r3
  ecu_data = ecu_data
  surface_data = surface_data
  wide = wide
  Rows <- MCRows
  Tables <- MCTables
  TableOf <- MCTableOf
  Columns <- MCColumns
  Size = 2
  MaxForced = 1
INVARIANTS FullBatchPending CopiesBounded WrittenRowsLeave
PROPERTIES FullBatchLeaves
CHECK_DEADLOCK FALSE
