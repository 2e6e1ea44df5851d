SPECIFICATION Spec
CONSTANTS
  Scopes <- Arrays
  MaxParts = 1
  ScalarSize = 4
  Cookies = {0, 8}
INVARIANTS SizeIsMultipleOfElements
CHECK_DEADLOCK FALSE
