-------------------------- MODULE MCResourceTables --------------------------
(* Two apps with a domain and a database each, and a third database id.    *)
EXTENDS ResourceTables

CONSTANTS shop, blog, dShop, dBlog, dExtra, main, extra, secret

TwoApps == 1..2
TwoDomains == {shop, blog}
ThreeIds == {dShop, dBlog, dExtra}
TwoNames == {main, extra}
IdOfApp == <<dShop, dBlog>>
OnePassword == {secret}
=============================================================================
