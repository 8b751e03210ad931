SPECIFICATION Spec
CONSTANTS
  Missing = Missing
  MaxI64 = 524287
  Exact = 262144
  Vector <- Vectors
INVARIANT EnginesAgree
CHECK_DEADLOCK FALSE
