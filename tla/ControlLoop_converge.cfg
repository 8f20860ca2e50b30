SPECIFICATION FairSpec
CONSTANTS
  n1 = n1
  zone = zone
  mail = mail
  database = database
  x1 = x1
  x2 = x2
  worker = worker
  admin = admin
  router = router
  Node <- OneNode
  Resource <- TheZone
  NodeOf <- OnOneNode
  Reclaimable <- TheZone
  Payload <- Payloads
  Version <- Versions4
  MaxJobs = 1
  Value <- TwoValues
  Entry <- Entries
  KeyOf <- OwnKey
  MailOf <- NoMail
  Reconciler <- Worker
  Operator <- Nobody
  DdnsClient <- Nobody
  Reserve = 2
PROPERTIES
  HostsConverge
CHECK_DEADLOCK FALSE
