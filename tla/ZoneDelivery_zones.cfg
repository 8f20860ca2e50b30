SPECIFICATION Spec
CONSTANTS
  n1 = n1
  n2 = n2
  www = www
  mx = mx
  x = x
  y = y
  None = None
  Node <- Nodes
  RRset <- RRsets
  Value <- Values
  MaxVersion = 3
  MaxFailures = 1
  MaxDeaths = 1
  PrimaryOf <- Primaries
  RecordsOf <- Records
INVARIANTS
  PrimaryHoldsApplied
  RolesMatch
PROPERTIES
  ZonesConverge
CHECK_DEADLOCK FALSE
