SPECIFICATION Spec
CONSTANTS
  T1 = T1
  U = U
  Main = Main
  Threads = {Main, worker}
  SpaceBeg = 16
  RegionSize = 4
  Regions = 4
  MapSize = 2
  BlockSize <- MCBlockSize
  Stack <- MCStack
  Outside <- MCOutside
  Sizes = {2}
  Types = {T1, U}
  TypeSize <- MCTypeSize
  MaxObjects = 3
  NoTable = NoTable
INVARIANTS TypeOK WrongTableHasACause RecordedAreFound DanglingIsUnknown
