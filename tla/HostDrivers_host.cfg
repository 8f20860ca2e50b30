SPECIFICATION Spec
CONSTANTS
  None = None
  Partial = Partial
  CutKey = CutKey
  v1 = v1
  v2 = v2
  ok1 = ok1
  ok2 = ok2
  refused = refused
  c1 = c1
  up1 = up1
  up2 = up2
  down = down
  e1 = e1
  e2 = e2
  pg = pg
  maria = maria
  pw1 = pw1
  pw2 = pw2
  mail = mail
  m1 = m1
  m2 = m2
  unsound = unsound
  k1 = k1
  k2 = k2
  Target <- Everything
  Vhost <- TwoVhosts
  Rendered <- Renderings
  Broken <- Refused
  Container <- OneContainer
  Unit <- Units
  Unstartable <- Down
  Env <- Envs
  Database <- TwoDatabases
  Mariadb <- OnMariadb
  Restorable <- OnPostgres
  Password <- Passwords
  Mail = mail
  MailPayload <- MailPayloads
  Unsound <- UnsoundMail
  Key <- Keys
  Workloads <- KindByKind
INVARIANTS
  AppliedVhostIsServed
  ServedConfigurationIsValid
  AppliedContainerRuns
  AppliedDatabaseLogsIn
  AppliedMailServes
PROPERTIES
  DataIsNeverDropped
