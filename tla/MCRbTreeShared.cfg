SPECIFICATION Spec
CONSTANTS
  u = u
  v = v
  Nodes = {n1, n2, n3, n4}
  NULL = NULL
  Addrs = {1, 3, 4, 5}
  Sizes = {1, 2}
  TypeTables = {v}
  Objects <- AnyObject
  Probed = {1, 4, 5}
  Readers = {r1}
  Shared = TRUE
PROPERTIES LookupNeverInvents LookupFindsCovering EveryLookupReturns
