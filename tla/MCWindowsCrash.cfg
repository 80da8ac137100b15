CONSTANTS
  NoPort = NoPort
  Controllers <- MCControllers
  PciChain <- MCPciChain
  Slots <- MCFreeWiliDesk
  NumberOfPorts = 2
  EnglishDescriptions = TRUE
  MaxDisturbed = 1
SPECIFICATION Spec
INVARIANT UnknownHubIsPassedOver
