SPECIFICATION Spec
CONSTANTS
  Range = 5
  Burst = 3
INVARIANT TypeOK
INVARIANT NeverZero
