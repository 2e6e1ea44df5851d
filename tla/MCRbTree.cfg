SPECIFICATION Spec
CONSTANTS
  u = u
  v = v
  Nodes = {n1, n2, n3, n4, n5, n6}
  NULL = NULL
  Addrs = {1, 2, 3, 4, 5, 6}
  Sizes = {1, 3}
  TypeTables = {u, v}
  Objects <- NeighboursDiffer
  Probed = {}
  Readers = {}
  Shared = FALSE
SYMMETRY Symmetry
INVARIANTS TypeOK VerifyProperties WellLinked AssertionsHold
PROPERTIES ImplementsMap DeletesWhatWasAsked
