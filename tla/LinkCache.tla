----------------------------- MODULE LinkCache -----------------------------
(***************************************************************************)
(* The route cache (link-cache.c): a graph of directed links, kept as two  *)
(* bounded lists, of nodes and of links.  A link points to its two nodes,  *)
(* and a node is freed when its counter of links reaches zero, so the      *)
(* counters decide whether a link may point to freed memory.  A node that  *)
(* does not fit into its list is used all the same: the link that made it  *)
(* is stored with a stray end, which no lookup finds and whose removal     *)
(* unlinks a node that was never linked.                                   *)
(*                                                                         *)
(* lc_srt_add adds the links of a route one by one; the links still to be  *)
(* added are todo, and the lock is held while there are any.  The lookup,  *)
(* lc_srt_find, leaves the graph as it is: Dijkstra models it.  The expiry *)
(* times of links are left out, since no code that is compiled reads them  *)
(* (LC_TIMER is not defined).                                              *)
(***************************************************************************)
EXTENDS Routes

CONSTANTS
  Addrs,       \* node addresses
  SrtAdded,    \* source routes the node learns, as paths
  NodesMax,    \* LC_NODES_MAX
  LinksMax,    \* LC_LINKS_MAX
  NULL         \* no route

ASSUME LinkCacheAssumption ==
  /\ NodesMax \in Nat /\ LinksMax \in Nat
  /\ \A p \in SrtAdded : p \in Seq(Addrs) /\ Len(p) >= 2

\* A route leads from one node to another.
ASSUME SrtAddedAssumption == \A p \in SrtAdded : p[1] # p[Len(p)]

VARIABLES
  nodes,    \* addresses in LC.nodes
  cnt,      \* the links field of the nodes in LC.nodes
  links,    \* LC.links, as (source, destination) pairs
  stray,    \* the ends of links, <<l, 1>> or <<l, 2>>, whose node is in no list
  todo,     \* the links lc_srt_add has still to add
  added,    \* the route lc_srt_add was last called with, until something changes
  oops      \* the kernel followed the null pointers of a node in no list

graphVars == <<nodes, cnt, links, stray>>
vars == <<graphVars, todo, added, oops>>

\* LC.lock is free; after a crash under the lock it never is again.
Unlocked == todo = <<>> /\ ~oops

Init ==
  /\ nodes = {} /\ cnt = [a \in Addrs |-> 0] /\ links = {} /\ stray = {}
  /\ todo = <<>> /\ added = NULL /\ oops = FALSE

----------------------------------------------------------------------------
\* The counters c, changed by k at the ends E of the link l (twice for a link
\* from a node to itself).
Recount(c, l, E, k) ==
  [a \in Addrs |-> c[a] + (IF 1 \in E /\ l[1] = a THEN k ELSE 0)
                        + (IF 2 \in E /\ l[2] = a THEN k ELSE 0)]

\* LC.nodes after a was looked for and, if missing, created: __tbl_add_tail
\* fails on a full list, and its result is not looked at.
WithNode(N, a) ==
  IF a \in N \/ Cardinality(N) >= NodesMax THEN N ELSE N \cup {a}

\* Mutant: the counter of the destination is not incremented.
AddLinkSrcOnly(s, d) ==
  LET l == <<s, d>>
      N == WithNode(WithNode(nodes, s), d)
      Listed == {i \in {1, 2} : l[i] \in N}
  IN
  /\ nodes' = N
  /\ IF l \in links
     THEN UNCHANGED <<links, cnt, stray>>
     ELSE /\ cnt' = Recount(cnt, l, Listed \cap {1}, 1)
          /\ IF Cardinality(links) < LinksMax
             THEN /\ links' = links \cup {l}
                  /\ stray' = stray \cup {<<l, i>> : i \in {1, 2} \ Listed}
             ELSE UNCHANGED <<links, stray>>

\* __lc_link_add: the two nodes and the link are found, by address, or
\* created.  The counters of the nodes go up even when a new link does not fit
\* into the list; a node that did not fit has its counter to itself.
AddLink(s, d) ==
  LET l == <<s, d>>
      N == WithNode(WithNode(nodes, s), d)
      Listed == {i \in {1, 2} : l[i] \in N}
  IN
  /\ nodes' = N
  /\ IF l \in links
     THEN UNCHANGED <<links, cnt, stray>>
     ELSE /\ cnt' = Recount(cnt, l, Listed, 1)
          /\ IF Cardinality(links) < LinksMax
             THEN /\ links' = links \cup {l}
                  /\ stray' = stray \cup {<<l, i>> : i \in {1, 2} \ Listed}
             ELSE UNCHANGED <<links, stray>>

\* lc_link_add, used for the link to the previous hop of a packet.
LcLinkAdd(s, d) ==
  /\ Unlocked /\ s # d
  /\ AddLink(s, d)
  /\ added' = NULL
  /\ UNCHANGED <<todo, oops>>

\* Mutant: the link to the destination is forgotten.
LinksOfPathNoLast(p, bidir) ==
  [i \in 1..(Len(p) - 2) |-> <<p[i], p[i + 1]>>]

\* The links of a path in the order lc_srt_add adds them, with the reverse
\* of each one after it if the route is flagged bidirectional.
LinksOfPath(p, bidir) ==
  IF bidir
  THEN [k \in 1..(2 * (Len(p) - 1)) |->
          LET i == (k + 1) \div 2
          IN  IF k % 2 = 1 THEN <<p[i], p[i + 1]>> ELSE <<p[i + 1], p[i]>>]
  ELSE [i \in 1..(Len(p) - 1) |-> <<p[i], p[i + 1]>>]

\* lc_srt_add.  The flags field of a route made by dsr_srt_new is never
\* initialised, so SRT_BIDIR may or may not be set.
LcSrtAdd(p) ==
  /\ Unlocked
  /\ \E bidir \in BOOLEAN : todo' = LinksOfPath(p, bidir)
  /\ added' = p
  /\ UNCHANGED <<graphVars, oops>>

LcSrtAddStep ==
  /\ todo # <<>>
  /\ AddLink(Head(todo)[1], Head(todo)[2])
  /\ todo' = Tail(todo)
  /\ UNCHANGED <<added, oops>>

\* __lc_link_del on the graph g: the counters of both ends go down, first of
\* the source, a node whose counter reaches zero is freed, and the link is
\* freed.  The counter of a stray end reaches zero as well, and __tbl_del then
\* unlinks a node without neighbours, unless it finds the list empty.
DelLink(g, l) ==
  LET E == {i \in {1, 2} : <<l, i>> \notin g.stray}
      c == Recount(g.cnt, l, E, -1)
      N == g.nodes \ {l[i] : i \in {j \in E : c[l[j]] = 0}}
  IN  [nodes |-> N,
       cnt   |-> c,
       links |-> g.links \ {l},
       stray |-> g.stray \ {<<l, 1>>, <<l, 2>>},
       oops  |-> (1 \notin E /\ g.nodes # {}) \/ (2 \notin E /\ N # {})]

\* lc_link_del: nothing unless the link (s, d) is cached; then that link, and
\* the reverse one if it is cached as well.
LcLinkDel(s, d) ==
  LET g  == [nodes |-> nodes, cnt |-> cnt, links |-> links, stray |-> stray, oops |-> oops]
      g1 == DelLink(g, <<s, d>>)
      g2 == IF <<d, s>> \in g1.links /\ ~g1.oops THEN DelLink(g1, <<d, s>>) ELSE g1
  IN
  /\ Unlocked /\ <<s, d>> \in links
  /\ nodes' = g2.nodes /\ cnt' = g2.cnt /\ links' = g2.links /\ stray' = g2.stray
  /\ oops' = g2.oops
  /\ added' = NULL
  /\ UNCHANGED todo

\* lc_flush, the FlushLinkCache command and lc_cleanup.
LcFlush ==
  /\ Unlocked
  /\ nodes' = {} /\ links' = {} /\ stray' = {} /\ cnt' = [a \in Addrs |-> 0]
  /\ added' = NULL
  /\ UNCHANGED <<todo, oops>>

Next ==
  \/ \E s, d \in Addrs : LcLinkAdd(s, d) \/ LcLinkDel(s, d)
  \/ \E p \in SrtAdded : LcSrtAdd(p)
  \/ LcSrtAddStep
  \/ LcFlush

Spec == Init /\ [][Next]_vars

----------------------------------------------------------------------------

\* No link points to a freed node: an end of a cached link is a node in the
\* list or one that only this link knows, through every order of additions
\* (with full lists too), deletions of one or both directions, and flushes.
\* This is what the counters of link-cache.c:87 and :280 are for.
NoDanglingNode ==
  \A l \in links : \A i \in {1, 2} : <<l, i>> \in stray \/ l[i] \in nodes

\* The links a lookup can use: it starts from the nodes in the list, and
\* compares pointers, not addresses (link-cache.c:153).
Usable == {l \in links : \A i \in {1, 2} : <<l, i>> \notin stray}

\* A route learned from a Route Reply can be used by the lookup that follows,
\* if the list of links still has room after its links were added and no node
\* of one of them was too many: neither a link in the middle of the route nor
\* its last one was left out.
AddedIsFound ==
  /\ Unlocked /\ added # NULL /\ Cardinality(links) < LinksMax
  /\ \A l \in PathLinks(added) : \A i \in {1, 2} : <<l, i>> \notin stray
  => ShortestRoutes(Usable, added[1], added[Len(added)]) # {}
=============================================================================
