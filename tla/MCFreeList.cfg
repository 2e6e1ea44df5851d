SPECIFICATION Spec
CONSTANTS
  b1 = b1
  b2 = b2
  b3 = b3
  Threads = {t1, t2, t3}
  Batches = {b1, b2, b3}
  Region <- MCRegion
  BatchesPerMap = 3
  CounterSize = 3
  MaxCalls = 5
  Null = Null
INVARIANTS TypeOK OneCarver SleeperIsWoken
PROPERTIES ImplementsPool EveryCallReturns
