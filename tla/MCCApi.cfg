CONSTANTS
  A1 = A1
  A2 = A2
  A3 = A3
  Null = Null
  NoHandle = NoHandle
  Device <- MCDevice
  Addr <- MCTwoAddr
  ArraySize = 2
  MaxFound = 2
SPECIFICATION Spec
SYMMETRY MCTwoSymmetry
INVARIANT TypeOK
INVARIANT OneHandlePerDevice
INVARIANT RegistryFollowsScan
INVARIANT ReportedHandlesAreLive
INVARIANT EveryDeviceReported
INVARIANT IteratorInRange
PROPERTY HandlesAreStable
PROPERTY ImplementsRegistry
