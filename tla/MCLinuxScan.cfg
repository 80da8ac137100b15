CONSTANTS
  NoResult = NoResult
  ScanError = ScanError
  Desks <- MCDesks
  MaxDisturbed = 2
SPECIFICATION Spec
INVARIANT TypeOK
INVARIANT UndisturbedReported
INVARIANT PortsStayInPlace
INVARIANT OneReportPerPlace
