SPECIFICATION Spec
CONSTANTS
  api = api
  backupRunner = backupRunner
  a = "a"
  b = "b"
  edited = "edited"
  t1 = t1
  t2 = t2
  t3 = t3
  c1 = c1
  c2 = c2
  o1 = o1
  o2 = o2
  v1 = v1
  v2 = v2
  q1 = q1
  q2 = q2
  r1 = r1
  r2 = r2
  r3 = r3
  home = home
  away = away
  www = www
  u1 = u1
  u2 = u2
  shop = shop
  blog = blog
  dShop = dShop
  dBlog = dBlog
  dExtra = dExtra
  main = main
  extra = extra
  d1 = d1
  d2 = d2
  d3 = d3
  d4 = d4
  secret = "secret"
  Process <- Processes
  Checksum <- Contents
  Migrations <- OfThreeReleases
  Token <- Tokens
  Bootstrap = Bootstrap
  NoToken = NoToken
  Call <- Calls
  NoCall = NoCall
  Operator <- Operators
  Reveal <- Reveals
  Request <- Requests
  Address <- Addresses
  OtherRecord <- Others
  Update <- Updates
  App <- TwoApps
  Domain <- TwoDomains
  DatabaseId <- ThreeIds
  DatabaseName <- TwoNames
  DefaultId <- IdOfApp
  Password <- OnePassword
  None = None
  Refresh <- FourRefreshes
  MaxChanges = 2
  MaxInvalidations = 2
  Generations = 2
  LocalDays = 1
  ReplicaDays = 2
  MaxAge = 3
  Release <- ThreeReleases
  Pinned <- OnePinned
  Keep = 1
  NoRelease = NoRelease
  Operations = 4
  n1 = n1
  n2 = n2
  k1 = k1
  k2 = k2
  elsewhere = elsewhere
  NullHost = NullHost
  Nobody = Nobody
  pw1 = pw1
  pw2 = pw2
  Machine <- TwoNodes
  Site <- SiteNames
  OutsideName <- StrayName
  MailHost <- MailHosts
  ExplicitRecord <- Entered
  DynamicRecord <- ByClient
  KeyOf <- KeysOf
  Host <- TwoNodes
  Tunnelled <- OneTunnel
  RowId <- TwoRows
  DefaultRow = "default"
  RowName <- RowNames
  Login <- TwoLogins
  Unset = Nobody
INVARIANTS
  MigratesOnceInOrder
  ServesItsSchema
  LockedOutOnlyByLoss
  RevealedOnce
  OtherRecordsStay
  AppliedIsStored
  RefreshesBounded
  LastGenerationIsKept
  RecordedRunsAreKept
  MailReachesPrimary
  AppPlansAgree
PROPERTIES
  NodeEnrols
  AddressConverges
  DriftViewCatchesUp
  CurrentReleaseServes
  ActiveReleaseIsKept
CHECK_DEADLOCK FALSE
