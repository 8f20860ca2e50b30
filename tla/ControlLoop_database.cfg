SPECIFICATION Spec
CONSTANTS
  n1 = n1
  zone = zone
  mail = mail
  database = database
  x1 = x1
  x2 = x2
  worker = worker
  admin = admin
  router = router
  Node <- OneNode
  Resource <- TheDatabase
  NodeOf <- OnOneNode
  Reclaimable <- Nobody
  Payload <- Payloads
  Version <- Versions3
  MaxJobs = 2
  Value <- TwoValues
  Entry <- Entries
  KeyOf <- OwnKey
  MailOf <- NoMail
  Reconciler <- Worker
  Operator <- Nobody
  DdnsClient <- Nobody
  Reserve = 0
INVARIANTS
  InSyncMeansApplied
PROPERTIES
  DispatchIsNeeded
CHECK_DEADLOCK FALSE
