SPECIFICATION Spec
CONSTANTS
  Scopes <- WideAndDeep
  MaxParts = 2
  ScalarSize = 4
  Cookies = {0}
INVARIANTS TypeOK NoFalseReport EmptyInheritIsGood GoodIsNearby
CHECK_DEADLOCK FALSE
