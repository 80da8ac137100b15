CONSTANTS
  NoPort = NoPort
  NoResult = NoResult
  Buses <- MCBuses
  Slots <- MCFirmwareDesk
  MaxDisturbed = 0
SPECIFICATION Spec
INVARIANT OldFirmwareRefined
