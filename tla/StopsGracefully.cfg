SPECIFICATION Spec
CONSTANTS
  Targets = 2
  MaxInputs = 1
INVARIANT
  StopsGracefully
