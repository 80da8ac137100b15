CONSTANTS
  A1 = A1
  A2 = A2
  A3 = A3
  Null = Null
  NoHandle = NoHandle
  Device <- MCDevice
  Addr <- MCAddr
  ArraySize = 2
  MaxFound = 1
SPECIFICATION Spec
SYMMETRY MCSymmetry
INVARIANT SuccessIsOnADevice
