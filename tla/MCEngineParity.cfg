SPECIFICATION Spec
CONSTANTS
  Missing = Missing
  MaxI64 = 524287
  Exact = 262144
  Vector <- Vectors
INVARIANTS
  SafeVectorsAgree
  IntegerPortsAgree
  ShippedVectorsPass
CHECK_DEADLOCK FALSE
