SPECIFICATION FairSpec
CONSTANTS
  Lines = {0, 1, 5, 8}
  Exceptions = {6, 13}
  MaxRequests = 2
  MaxFaults = 2
INVARIANTS TypeOK HandlersRunAlone InServiceIsExact
PROPERTY RequestsServed
CHECK_DEADLOCK FALSE
