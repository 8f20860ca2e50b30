--------------------------- MODULE MCZoneDelivery ---------------------------
(* Two authoritative nodes.  The second version changes one record and     *)
(* adds another; the third goes back to the first record, drops the other  *)
(* and moves the primary.                                                  *)
EXTENDS ZoneDelivery, TLC

CONSTANTS n1, n2, www, mx, x, y

Nodes == {n1, n2}
RRsets == {www, mx}
Values == {x, y}
Primaries == <<n1, n1, n2>>
Records == << (www :> x) @@ (mx :> None),
              (www :> y) @@ (mx :> x),
              (www :> x) @@ (mx :> None) >>
=============================================================================
