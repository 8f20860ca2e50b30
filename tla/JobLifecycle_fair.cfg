SPECIFICATION FairSpec
CONSTANTS
  n1 = n1
  zone = zone
  database = database
  p1 = p1
  NoJob = NoJob
  Node <- OneNode
  Resource <- Zone
  NodeOf <- OnOneNode
  Reclaimable <- Zone
  Payload <- OnePayload
  Version <- TwoVersions
  MaxJobs = 1
INVARIANTS
  RecordedResultIsReal
  SpoolIsJournal
PROPERTIES
  ReclaimableJobCompletes
  ReportIsDelivered
