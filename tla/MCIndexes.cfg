CONSTANTS
  LeafMax = 2
  InternalMax = 2
  MAX_BUCKET_SIZE = 2
  TreeKeys = {1, 2, 3, 4, 5}
  HashKeys = {1, 2, 3}
  HashBits = 2
  MaxTreeOps = 6
  MaxHashOps = 5
  MaxFaults = 1
  Kinds = {"tree", "hash"}
  Faults = {"leaf", "root", "parent", "retry", "dir", "split", "fetch", "evict"}
SPECIFICATION Spec
INVARIANTS HashIsSound TreeIsSound
PROPERTY CallsTouchOneEntry
CHECK_DEADLOCK FALSE
