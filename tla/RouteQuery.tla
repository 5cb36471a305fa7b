----------------------------- MODULE RouteQuery -----------------------------
(***************************************************************************)
(* The promise of one route lookup over a graph that does not change       *)
(* meanwhile (the lookup holds the lock of the link cache): it is answered *)
(* once, with a shortest route, or with NULL if there is none.             *)
(***************************************************************************)
EXTENDS Routes

CONSTANTS Src, Dst, Pending, NULL
VARIABLES graph, result

QInit == result = Pending

Answer ==
  /\ result = Pending
  /\ LET best == ShortestRoutes(graph, Src, Dst)
     IN  result' \in IF best = {} THEN {NULL} ELSE best
  /\ UNCHANGED graph

QSpec == QInit /\ [][Answer]_<<graph, result>>
=============================================================================
