SPECIFICATION EditSpec
CONSTANTS
  d1 = d1
  m1 = m1
  a1 = a1
  p1 = p1
  p2 = p2
  p3 = p3
  s1 = s1
  v1 = v1
  v2 = v2
  o1 = o1
  o2 = o2
  web = web
  NoSecret = NoSecret
  Domain <- OneDomain
  Mailbox <- OneMailbox
  Alias <- OneAlias
  DomainOf <- AllInOne
  Secret <- TwoSecrets
  Size <- OneSize
  Value <- OneValue
  Operator <- TwoOperators
  Editor <- Nobody
INVARIANTS
  SpecStaysValid
  ConfiguredHasSecret
