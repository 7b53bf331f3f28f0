SPECIFICATION Spec
CONSTANTS
  NoId = NoId
  Programs <- MCPrograms
INVARIANTS   FailsExactly
CHECK_DEADLOCK FALSE
