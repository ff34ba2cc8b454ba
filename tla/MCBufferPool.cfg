SPECIFICATION Spec
CONSTANTS
  NumFrames = 2
  Files = {1}
  n1 = n1
  n2 = n2
  n3 = n3
  PageNos <- ThreePages
  Data = {0, 1}
  Zero = 0
  Link = Link
  t1 = t1
  t2 = t2
  Threads <- MCThreads
  GuardThreads = {}
  INVALID_PAGE_ID = INVALID_PAGE_ID
  NoFile = NoFile
  Faults = {"read"}
  Flushes = {"all"}
SYMMETRY Symmetry
INVARIANTS TypeOK CleanPageIsStored UnpinnedIsEvictable
PROPERTY ImplementsPageStore
