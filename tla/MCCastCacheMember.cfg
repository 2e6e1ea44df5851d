SPECIFICATION Spec
CONSTANTS
  Threads = {t1}
  Tables <- MCTables
  Hashes <- MCHashes
  Places <- MemberPlaces
  KeyOf <- MCKeyOf
  Passes <- MemberPasses
  FirstCacheSize = 2
  Mask = 4
  MaxTries = 3
INVARIANTS HitMatchesCheck
