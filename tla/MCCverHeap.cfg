SPECIFICATION Spec
CONSTANTS
  small = small
  large = large
  s1 = s1
  s2 = s2
  s3 = s3
  l1 = l1
  T = T
  Threads = {main, w1}
  WithCverThread = {main}
  Classes = {small, large}
  Blocks = {s1, s2, s3, l1}
  Region <- MCRegion
  Capacity <- MCCapacity
  MaxCached <- MCMaxCached
  BatchesPerMap = 2
  Sizes = {1, 2}
  TypeTables = {T}
  Counts = {2}
  Fallback = Fallback
  None = None
  NoTable = NoTable
INVARIANTS TypeOK EachBlockInOnePlace FreeBlocksUntyped CachesFit
PROPERTIES OwnCacheCallsReturn ImplementsHeap
