CONSTANTS
  NoPort = NoPort
  Controllers <- MCControllers
  PciChain <- MCPciChain
  Slots <- MCSlots
  NumberOfPorts = 2
  EnglishDescriptions = TRUE
  MaxDisturbed = 2
SPECIFICATION Spec
CONSTRAINT OnOneDesk
INVARIANT TypeOK
INVARIANT FreeWiliReportedWhole
INVARIANT BadgeHasItsOwnEntry
INVARIANT SameIDOnlyForAReason
INVARIANT FailsOnlyForAReason
