SPECIFICATION Spec
CONSTANTS
  Setups <- MCSetups
  Contents <- MCContents
  MaxEdits = 2
  MaxFaults = 1
  Retries = 2
CHECK_DEADLOCK FALSE
PROPERTIES NeverOlder  CloseStops
