CONSTANTS
  PAGE_SIZE = 8
  TABLE_PAGE_HEADER_SIZE = 1
  SLOT_SIZE = 1
  MAX_TUPLE_SIZE = 5
  UINT32 = 100
  Writers = {w1, w2}
  Scanners = {s}
  Sizes = {2, 5}
  MaxPages = 3
  MaxWrites = 3
  MaxScans = 1
  Faulty = {"fetch", "new"}
SPECIFICATION Spec
INVARIANTS RowsAreIntact LostOnlyToRaces ScanComplete
CHECK_DEADLOCK FALSE
