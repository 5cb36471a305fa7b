---------------------------- MODULE MCRouteMaint ----------------------------
(* Four nodes for TLC: n1 - n2, and from n2 to n4 directly or through n3. *)
EXTENDS RouteMaint

CONSTANTS n1, n2, n3, n4, p1, p2

Kite == LET up == {<<n1, n2>>, <<n2, n4>>, <<n2, n3>>, <<n3, n4>>}
        IN  up \cup {<<l[2], l[1]>> : l \in up}
MCSrcOf == [p \in Pkts |-> IF p = p1 THEN n1 ELSE n2]
MCDstOf == [p \in Pkts |-> n4]
MCFirstId == [n \in Node |-> IF n = n2 THEN 2 ELSE 1]
=============================================================================
