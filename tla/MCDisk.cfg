SPECIFICATION Spec
CONSTANTS
  Paths = {"a", "b"}
  PageLimit = 4
  FileIdLimit = 2
  Bytes = {1}
  Garbage = {0}
  MaxPages = 3
  MaxOpens = 2
  MaxCrashes = 1
INVARIANTS FreePagesAccountedFor OwnersUndisturbed
CHECK_DEADLOCK FALSE
