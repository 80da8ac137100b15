CONSTANTS
  A1 = A1
  A2 = A2
  A3 = A3
  Null = Null
  NoHandle = NoHandle
  Device <- MCDevice
  Addr <- MCAddr
  ArraySize = 3
  MaxFound = 3
  Room <- MCRoom
  ErrorBuffer <- MCErrorBuffer
  UsbBuffer = 2
  PortChainBuffer = 2
  TextLength <- MCTextLength
  MaxUsb = 3
SPECIFICATION ClientSpec
INVARIANT ClientTypeOK
INVARIANT HandlesInUseAreLive
INVARIANT EachListedOnceInOrder
INVARIANT EachAnswerIsTheGetters
INVARIANT ReadsOnlyDevices
INVARIANT TextsAreCutToTheShortest
INVARIANT OneLongChainHidesAll
INVARIANT OnlyUnreportedHandlesStay
PROPERTY UsesTheApi
PROPERTY ProgramsEnd
CHECK_DEADLOCK FALSE
