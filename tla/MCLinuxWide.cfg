CONSTANTS
  NoResult = NoResult
  ScanError = ScanError
  Desks <- MCWideDesks
  MaxDisturbed = 0
SPECIFICATION Spec
INVARIANT OnlyAttachedDevices
