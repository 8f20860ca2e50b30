-------------------------- MODULE MCDesiredState --------------------------
(* Instances of DesiredState for TLC.                                      *)
EXTENDS DesiredState

CONSTANTS d1, m1, a1, p1, p2, p3, s1, v1, v2, o1, o2, web

OneDomain == {d1}
OneMailbox == {m1}
OneAlias == {a1}
AllInOne == [x \in Mailbox \cup Alias |-> d1]
TwoSecrets == {p1, p2}
ThreeSecrets == {p1, p2, p3}
OneSize == {s1}
OneValue == {v1}
TwoValues == {v1, v2}
OneOperator == {o1}
TwoOperators == {o1, o2}
Web == {web}
Nobody == {}
===========================================================================
