------------------------- MODULE MCControlServices -------------------------
(* Two processes and three releases, the third an edit of a migration the  *)
(* second has; one agent whose calls overlap; two operators whose requests *)
(* race; a DDNS client with two addresses, whose calls overlap each other  *)
(* and an operator's edit; two apps, and a database id more than them; a   *)
(* drift cache with four refreshes; two runs of a policy whose replica is  *)
(* kept a day longer; three runtime releases, one pinned, of which the     *)
(* newest is kept; a zone with two mail hosts, two nodes, two names for    *)
(* sites and five records to enter; an app with two database rows.         *)
EXTENDS ControlServices

CONSTANTS api, backupRunner, a, b, edited, t1, t2, t3, c1, c2, o1, o2, v1, v2, q1, q2,
          home, away, www, u1, u2, shop, blog, dShop, dBlog, dExtra, main, extra, secret,
          d1, d2, d3, d4, r1, r2, r3, n1, n2, k1, k2, elsewhere, pw1, pw2

Processes == {api, backupRunner}
Contents == {a, b, edited}
OfThreeReleases == <<<<a>>, <<a, b>>, <<a, edited>>>>
Tokens == {t1, t2, t3}
Calls == {c1, c2}
Operators == {o1, o2}
Reveals == {v1, v2}
Requests == {q1, q2}
Addresses == {home, away}
Others == {www}
Updates == {u1, u2}
TwoApps == 1..2
TwoDomains == {shop, blog}
ThreeIds == {dShop, dBlog, dExtra}
TwoNames == {main, extra}
IdOfApp == <<dShop, dBlog>>
OnePassword == {secret}
FourRefreshes == {d1, d2, d3, d4}
ThreeReleases == {r1, r2, r3}
OnePinned == {r3}
TwoNodes == {n1, n2}
SiteNames == {"webmail"}
StrayName == {"outside"}
MailHosts == {"mail", "mx"}
Entered == {Rr("webmail", "CNAME", elsewhere), Rr("@", "MX", "mail"),
            Rr("@", "MX", NullHost), Rr("dkim._domainkey", "DKIM", elsewhere)}
ByClient == {Rr("mail", "A", elsewhere)}
KeysOf == [n \in TwoNodes |-> IF n = n1 THEN k1 ELSE k2]
TwoRows == {"default", "other"}
OneTunnel == {n1}
RowNames == 1..2
TwoLogins == {pw1, pw2}
=============================================================================
