SPECIFICATION Spec
CONSTANTS
  Threads = {t1, t2}
  Tables <- MCTables
  Hashes <- MCHashes
  Places <- MCPlaces
  KeyOf <- MCKeyOf
  Passes <- MCPasses
  FirstCacheSize = 2
  Mask = 4
  MaxTries = 2
INVARIANTS TypeOK HitWasMatched StoredKeysAreSearchable
PROPERTIES EveryCastReturns ImplementsMemo
