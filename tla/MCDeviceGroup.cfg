CONSTANTS
  Hubs <- MCHubs
  Children <- MCChildren
SPECIFICATION Spec
INVARIANT TypeOK
INVARIANT SortedAroundTheHub
INVARIANT ProcessorsFoundUnlessOneStandsAlone
INVARIANT SerialIsTheUnits
CHECK_DEADLOCK FALSE
