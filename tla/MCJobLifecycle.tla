--------------------------- MODULE MCJobLifecycle ---------------------------
(* Instances of JobLifecycle for TLC: one node with a reclaimable resource *)
(* (a DNS zone), a resource that is not (a database), or both.             *)
EXTENDS JobLifecycle

CONSTANTS n1, zone, database, p1

OneNode == {n1}
BothKinds == {zone, database}
Zone == {zone}
Database == {database}
OnOneNode == [r \in Resource |-> n1]
OnePayload == {p1}
OneVersion == {1}
TwoVersions == {1, 2}
ThreeVersions == {1, 2, 3}
=============================================================================
