CONSTANTS
  Never = Never
  MaxLines = 4
  Overrides <- MCOverrides
SPECIFICATION Spec
INVARIANTS
  TypeOK
  ResultReflectsStream
CHECK_DEADLOCK FALSE
