--------------------------- MODULE MCControlLoop ---------------------------
(* Instances of ControlLoop for TLC.                                       *)
EXTENDS ControlLoop

CONSTANTS n1, zone, mail, database, x1, x2, worker, admin, router

OneNode == {n1}
TheZone == {zone}
TheDatabase == {database}
ZoneAndMail == {zone, mail}
OnOneNode == [r \in Resource |-> n1]
OneValue == {x1}
TwoValues == {x1, x2}
Payloads == Value \X BOOLEAN
Versions2 == 1..2
Versions3 == 1..3
Versions4 == 1..4
NoMail == [r \in {} |-> mail]
ZoneMail == [r \in {zone} |-> mail]

(* One entry per resource, or two managed databases of one app.            *)
Entries == Resource
OwnKey == [e \in Entry |-> e]
TwoDatabases == {1, 2}
SharedKey == [e \in Entry |-> database]

Nobody == {}
Worker == {worker}
Admin == {admin}
Router == {router}
WorkerAndAdmin == {worker, admin}
=============================================================================
