CONSTANTS
  SECOND = 12
  N = 3
  MaxWakes = 2
SPECIFICATION Spec
INVARIANT BlocksAtMostN
