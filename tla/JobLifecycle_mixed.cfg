SPECIFICATION Spec
CONSTANTS
  n1 = n1
  zone = zone
  database = database
  p1 = p1
  NoJob = NoJob
  Node <- OneNode
  Resource <- BothKinds
  NodeOf <- OnOneNode
  Reclaimable <- Zone
  Payload <- OnePayload
  Version <- OneVersion
  MaxJobs = 2
INVARIANTS
  HeldJobIsOpen
  AtMostOnceUnlessReclaimable
PROPERTIES
  ImplementsContract
