CONSTANTS
  Ports <- MCDeepPorts
  MaxDepth = 10
SPECIFICATION Spec
INVARIANT TenHubsDeep
CHECK_DEADLOCK FALSE
