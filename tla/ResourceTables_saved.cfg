SPECIFICATION TablesSpec
CONSTANTS
  shop = shop
  blog = blog
  dShop = dShop
  dBlog = dBlog
  dExtra = dExtra
  main = main
  extra = extra
  secret = "secret"
  App <- TwoApps
  Domain <- TwoDomains
  DatabaseId <- ThreeIds
  DatabaseName <- TwoNames
  DefaultId <- IdOfApp
  Password <- OnePassword
INVARIANTS
  SavedDatabaseIsStored
