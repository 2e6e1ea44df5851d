SPECIFICATION Spec
CONSTANTS
  Scopes <- ArrayFields
  MaxParts = 2
  ScalarSize = 4
  Cookies = {0}
INVARIANTS NoFalseReportAnywhere
CHECK_DEADLOCK FALSE
