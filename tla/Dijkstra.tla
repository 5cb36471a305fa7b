------------------------------ MODULE Dijkstra ------------------------------
(***************************************************************************)
(* lc_srt_find (link-cache.c): Dijkstra's algorithm over the cached links, *)
(* run afresh for every lookup, and the reconstruction of the source route *)
(* from the predecessors.  The cache is locked for the whole of it, so     *)
(* links and nodes do not change.  All links have cost 1 (lc_srt_add).     *)
(***************************************************************************)
EXTENDS Routes

CONSTANTS
  Nodes,      \* addresses
  Src, Dst,   \* the arguments of lc_srt_find
  Inf,        \* LC_COST_INF, LC_HOPS_INF
  NoNode,     \* the null pointer
  Pending,    \* no answer yet
  NoRoute     \* NULL, the answer where there is no route

ASSUME DijkstraAssumption ==
  /\ Src \in Nodes /\ Dst \in Nodes /\ Src # Dst
  /\ Inf \in Nat \ {0} /\ NoNode \notin Nodes
  /\ Pending # NoRoute

\* LC_COST_INF is UINT_MAX, and there are at most LC_NODES_MAX nodes.
ASSUME InfAssumption == IsFiniteSet(Nodes) /\ Cardinality(Nodes) < Inf

VARIABLES
  graph,    \* LC.links; links with an end that is not in LC.nodes (see
            \* LinkCache) are never relaxed over and left out
  cached,   \* the addresses in LC.nodes before the algorithm starts
  q,        \* LC.nodes during the algorithm: nodes not settled yet
  cost, hops, pred,   \* fields of the nodes
  n,        \* the node reached on the walk back from the destination
  addrs,    \* the addresses filled in so far
  phase,
  answer    \* the value returned

findVars == <<graph, cached, q, cost, hops, pred, n, addrs, phase, answer>>

Ends(ls) == {l[1] : l \in ls} \cup {l[2] : l \in ls}

\* Any graph; a node may be left without links (see LinkCache).
FindInit ==
  /\ graph \in SUBSET {l \in Nodes \X Nodes : l[1] # l[2]}
  /\ cached \in {c \in SUBSET Nodes : Ends(graph) \subseteq c}
  /\ q = cached
  /\ cost = [v \in Nodes |-> Inf]
  /\ hops = [v \in Nodes |-> Inf]
  /\ pred = [v \in Nodes |-> NoNode]
  /\ n = NoNode /\ addrs = <<>>
  /\ phase = "start" /\ answer = Pending

\* __dijkstra_init_single_source.  Without the source among the nodes the
\* algorithm does not run and every cost stays infinite.
InitSingleSource ==
  /\ phase = "start"
  /\ IF Src \in cached
     THEN /\ cost' = [cost EXCEPT ![Src] = 0]
          /\ hops' = [hops EXCEPT ![Src] = 0]
          /\ pred' = [pred EXCEPT ![Src] = Src]
          /\ phase' = "run"
     ELSE /\ phase' = "lookup"
          /\ UNCHANGED <<cost, hops, pred>>
  /\ UNCHANGED <<graph, cached, q, n, addrs, answer>>

\* __dijkstra_find_lowest_cost_node: among equals the order of the list
\* decides, which may be any.
Cheapest == {u \in q : cost[u] # Inf /\ \A v \in q : cost[u] <= cost[v]}

\* Mutant: the costs are not compared.
RelaxedAlways(u) == {v \in cached : <<u, v>> \in graph}

\* do_relax over the links that leave u.
Relaxed(u) == {v \in cached : <<u, v>> \in graph /\ cost[u] + 1 < cost[v]}

\* Mutant: the hop count is copied, not incremented.
SettleHopsCopied(u) ==
  /\ phase = "run" /\ u \in Cheapest
  /\ q' = q \ {u}
  /\ cost' = [v \in Nodes |-> IF v \in Relaxed(u) THEN cost[u] + 1 ELSE cost[v]]
  /\ hops' = [v \in Nodes |-> IF v \in Relaxed(u) THEN hops[u] ELSE hops[v]]
  /\ pred' = [v \in Nodes |-> IF v \in Relaxed(u) THEN u ELSE pred[v]]
  /\ UNCHANGED <<graph, cached, n, addrs, phase, answer>>

\* Mutant: the settled node stays in the list.
SettleNotDetached(u) ==
  /\ phase = "run" /\ u \in Cheapest
  /\ cost' = [v \in Nodes |-> IF v \in Relaxed(u) THEN cost[u] + 1 ELSE cost[v]]
  /\ hops' = [v \in Nodes |-> IF v \in Relaxed(u) THEN hops[u] + 1 ELSE hops[v]]
  /\ pred' = [v \in Nodes |-> IF v \in Relaxed(u) THEN u ELSE pred[v]]
  /\ UNCHANGED <<graph, cached, q, n, addrs, phase, answer>>

\* One turn of the while loop of __dijkstra.
Settle(u) ==
  /\ phase = "run" /\ u \in Cheapest
  /\ q' = q \ {u}
  /\ cost' = [v \in Nodes |-> IF v \in Relaxed(u) THEN cost[u] + 1 ELSE cost[v]]
  /\ hops' = [v \in Nodes |-> IF v \in Relaxed(u) THEN hops[u] + 1 ELSE hops[v]]
  /\ pred' = [v \in Nodes |-> IF v \in Relaxed(u) THEN u ELSE pred[v]]
  /\ UNCHANGED <<graph, cached, n, addrs, phase, answer>>

\* The loop ends when no node left was reached; the nodes are put back into LC.nodes.
Settled ==
  /\ phase = "run" /\ \A u \in q : cost[u] = Inf
  /\ q' = cached /\ phase' = "lookup"
  /\ UNCHANGED <<graph, cached, cost, hops, pred, n, addrs, answer>>

\* The destination is looked up; a route is allocated if it was reached.
LookupDst ==
  /\ phase = "lookup"
  /\ IF Dst \in cached /\ cost[Dst] # Inf /\ pred[Dst] # NoNode
     THEN /\ n' = pred[Dst] /\ phase' = "walk"
          /\ UNCHANGED answer
     ELSE /\ answer' = NoRoute /\ phase' = "done"
          /\ UNCHANGED n
  /\ UNCHANGED <<graph, cached, q, cost, hops, pred, addrs>>

\* srt->addrs[k - i - 1] = n->addr: the route is filled in from its end.
Fill ==
  /\ phase = "walk" /\ n # pred[n]
  /\ addrs' = <<n>> \o addrs
  /\ n' = pred[n]
  /\ UNCHANGED <<graph, cached, q, cost, hops, pred, phase, answer>>

\* Mutant: the first hop is not counted.
ReturnOffByOne ==
  /\ phase = "walk" /\ n = pred[n]
  /\ answer' = IF Len(addrs) # hops[Dst] THEN NoRoute ELSE addrs
  /\ phase' = "done"
  /\ UNCHANGED <<graph, cached, q, cost, hops, pred, n, addrs>>

\* The number of hops found must be the one space was allocated for.
Return ==
  /\ phase = "walk" /\ n = pred[n]
  /\ answer' = IF Len(addrs) + 1 # hops[Dst] THEN NoRoute ELSE addrs
  /\ phase' = "done"
  /\ UNCHANGED <<graph, cached, q, cost, hops, pred, n, addrs>>

FindNext ==
  \/ InitSingleSource \/ Settled \/ LookupDst \/ Fill \/ Return
  \/ \E u \in Nodes : Settle(u)

FindSpec == FindInit /\ [][FindNext]_findVars
FairFindSpec == FindSpec /\ WF_findVars(FindNext)

----------------------------------------------------------------------------
\* The costs and predecessors are a certificate of shortest paths: finite
\* costs come from a settled predecessor one link away, costs agree with the
\* hop counts the route is allocated by, and no link out of a settled node
\* offers less.
SettledNodes == IF phase = "run" THEN cached \ q
                ELSE IF phase = "start" THEN {} ELSE {v \in cached : cost[v] # Inf}
Tight ==
  \A v \in Nodes \ {Src} : cost[v] # Inf =>
    /\ pred[v] \in SettledNodes
    /\ <<pred[v], v>> \in graph
    /\ cost[v] = cost[pred[v]] + 1
    /\ hops[v] = cost[v]
SourceIsRoot ==
  cost[Src] # Inf => cost[Src] = 0 /\ hops[Src] = 0 /\ pred[Src] = Src
NoShorterLink ==
  \A u \in SettledNodes, v \in Nodes : <<u, v>> \in graph => cost[v] <= cost[u] + 1
Certificate == Tight /\ SourceIsRoot /\ NoShorterLink

\* The walk back never writes outside the space allocated for the route, so
\* srt->addrs[k - i - 1] is within bounds.
FillInBounds == phase \in {"walk", "done"} /\ n # NoNode => Len(addrs) <= hops[Dst] - 1

\* The lookup keeps the promise of RouteQuery: some shortest route over the
\* cached links, or NULL exactly when there is none.
Promise == INSTANCE RouteQuery WITH result <- answer, NULL <- NoRoute
AnswersShortest == Promise!QSpec

\* Every lookup returns.
Returns == <>(answer # Pending)
=============================================================================
