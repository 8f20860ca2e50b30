--------------------------- MODULE MCHostDrivers ---------------------------
(* One host for TLC: two vhosts, a container, a database of each engine    *)
(* and a mail domain.  Jobs of one kind do not touch what the drivers of   *)
(* another keep, so each behaviour sends jobs of one kind.                 *)
EXTENDS HostDrivers

CONSTANTS v1, v2, ok1, ok2, refused, c1, up1, up2, down, e1, e2,
          pg, maria, pw1, pw2, mail, m1, m2, unsound, k1, k2

TwoVhosts == {v1, v2}
Renderings == {ok1, ok2, refused}
Refused == {refused}
OneContainer == {c1}
Units == {up1, up2, down}
Down == {down}
Envs == {e1, e2}
TwoDatabases == {pg, maria}
OnMariadb == {maria}
OnPostgres == {pg}
Passwords == {pw1, pw2}
MailPayloads == {m1, m2, unsound}
UnsoundMail == {unsound}
Keys == {k1, k2}
Everything == TwoVhosts \cup OneContainer \cup TwoDatabases \cup {mail}
KindByKind == {TwoVhosts, OneContainer, TwoDatabases, {mail}}
=============================================================================
