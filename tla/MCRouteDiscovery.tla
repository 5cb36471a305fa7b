------------------------- MODULE MCRouteDiscovery -------------------------
(* Small networks for TLC: a line and a triangle, with and without n4, which *)
(* is out of everybody's reach.                                              *)
EXTENDS RouteDiscovery

CONSTANTS n1, n2, n3, n4, p1, p2, p3

Both(S) == S \cup {<<l[2], l[1]>> : l \in S}
Line == Both({<<n1, n2>>, <<n2, n3>>})
Triangle == Both({<<n1, n2>>, <<n2, n3>>, <<n1, n3>>})

\* Packets to n3, from both ends of its route.
SrcToN3 == [p \in Pkts |-> IF p = p1 THEN n1 ELSE n2]
DstToN3 == [p \in Pkts |-> n3]

\* Packets from the ends of the line: two to n4, one to the other end.
SrcAcross == [p \in Pkts |-> IF p = p1 THEN n1 ELSE n3]
DstAcross == [p \in Pkts |-> IF p = p3 THEN n1 ELSE n4]
=============================================================================
