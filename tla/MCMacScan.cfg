CONSTANTS
  NoPort = NoPort
  NoResult = NoResult
  Buses <- MCBuses
  Slots <- MCSlots
  MaxDisturbed = 2
SPECIFICATION Spec
CONSTRAINT OnOneDesk
INVARIANT TypeOK
INVARIANT FreeWiliReportedWhole
INVARIANT BadgeHasItsOwnEntry
INVARIANT SameIDOnlyAcrossBuses
INVARIANT OldFirmwareStillFound
