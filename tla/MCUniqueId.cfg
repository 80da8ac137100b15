CONSTANTS
  Ports <- MCPorts
  MaxDepth = 5
SPECIFICATION Spec
INVARIANT PlacesHaveDistinctIDs
CHECK_DEADLOCK FALSE
