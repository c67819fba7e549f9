CONSTANTS
  WindowSize = 4
  MaxSequence = 9
SPECIFICATION Spec
INVARIANTS
  WindowExact
  AcceptsExactlyTheFresh
