-------------------------- MODULE LinkCacheProofs --------------------------
(***************************************************************************)
(* The link cache, for any number of addresses and links and any routes:   *)
(* the counters keep the nodes of every cached link, and a route that was  *)
(* added is found.  And its lookup, for any graph: the costs certify       *)
(* shortest paths, the walk back stays within the route, and the lookup    *)
(* keeps the promise of RouteQuery.                                        *)
(***************************************************************************)
EXTENDS LinkCache, Dijkstra, DataProofs

\* The links of L that leave a, and those that enter it, without the ends in S.
Out(L, S, a) == {l \in L : l[1] = a /\ <<l, 1>> \notin S}
In(L, S, a)  == {l \in L : l[2] = a /\ <<l, 2>> \notin S}

\* What the end i of the link l adds to the ends at a.
At(l, i, S, a) == IF l[i] = a /\ <<l, i>> \notin S THEN 1 ELSE 0

\* The same ends of the links in L are stray.
SameStray(L, S, T) == \A l \in L : \A i \in {1, 2} : <<l, i>> \in S <=> <<l, i>> \in T

\* A graph of nodes N, counters C and links L, of whose ends those in S are
\* stray: the nodes of the other ends are there, and each counter is at least
\* the number of such ends at its node (more, where a link did not fit into
\* the list).
Graph(N, C, L, S) ==
  /\ L \subseteq Addrs \X Addrs /\ IsFiniteSet(L) /\ C \in [Addrs -> Nat]
  /\ \A l \in L : \A i \in {1, 2} : <<l, i>> \in S \/ l[i] \in N
  /\ \A a \in Addrs : Cardinality(Out(L, S, a)) + Cardinality(In(L, S, a)) <= C[a]

CacheInv ==
  /\ Graph(nodes, cnt, links, stray)
  /\ todo \in Seq(Addrs \X Addrs)

USE LinkCacheAssumption

\* The links that begin or end at a node can be counted.
LEMMA EndsFinite ==
  ASSUME NEW L, IsFiniteSet(L), NEW S, NEW a
  PROVE  /\ IsFiniteSet(Out(L, S, a)) /\ Cardinality(Out(L, S, a)) \in Nat
         /\ IsFiniteSet(In(L, S, a)) /\ Cardinality(In(L, S, a)) \in Nat
<1>1. Out(L, S, a) \in SUBSET L /\ In(L, S, a) \in SUBSET L
  BY DEF Out, In
<1>2. IsFiniteSet(Out(L, S, a)) /\ IsFiniteSet(In(L, S, a))
  BY <1>1, FS_Subset
<1> QED
  BY <1>2, FS_CardinalityType

\* A link more counts once at each of its ends that is not stray.
LEMMA EndsOfMore ==
  ASSUME NEW L, IsFiniteSet(L), NEW l, l \notin L, NEW S, NEW T, SameStray(L, S, T), NEW a
  PROVE  /\ Cardinality(Out(L \cup {l}, T, a)) = Cardinality(Out(L, S, a)) + At(l, 1, T, a)
         /\ Cardinality(In(L \cup {l}, T, a)) = Cardinality(In(L, S, a)) + At(l, 2, T, a)
<1>0. /\ IsFiniteSet(Out(L, S, a)) /\ Cardinality(Out(L, S, a)) \in Nat
      /\ IsFiniteSet(In(L, S, a)) /\ Cardinality(In(L, S, a)) \in Nat
  BY EndsFinite
<1>1. Cardinality(Out(L \cup {l}, T, a)) = Cardinality(Out(L, S, a)) + At(l, 1, T, a)
  <2>1. CASE l[1] = a /\ <<l, 1>> \notin T
    <3>1. Out(L \cup {l}, T, a) = Out(L, S, a) \cup {l} /\ l \notin Out(L, S, a)
      BY <2>1 DEF Out, SameStray
    <3> QED
      BY <1>0, <2>1, <3>1, FS_AddElement DEF At
  <2>2. CASE ~(l[1] = a /\ <<l, 1>> \notin T)
    <3>1. Out(L \cup {l}, T, a) = Out(L, S, a)
      BY <2>2 DEF Out, SameStray
    <3> QED
      BY <1>0, <2>2, <3>1 DEF At
  <2> QED
    BY <2>1, <2>2
<1>2. Cardinality(In(L \cup {l}, T, a)) = Cardinality(In(L, S, a)) + At(l, 2, T, a)
  <2>1. CASE l[2] = a /\ <<l, 2>> \notin T
    <3>1. In(L \cup {l}, T, a) = In(L, S, a) \cup {l} /\ l \notin In(L, S, a)
      BY <2>1 DEF In, SameStray
    <3> QED
      BY <1>0, <2>1, <3>1, FS_AddElement DEF At
  <2>2. CASE ~(l[2] = a /\ <<l, 2>> \notin T)
    <3>1. In(L \cup {l}, T, a) = In(L, S, a)
      BY <2>2 DEF In, SameStray
    <3> QED
      BY <1>0, <2>2, <3>1 DEF At
  <2> QED
    BY <2>1, <2>2
<1> QED
  BY <1>1, <1>2

\* Without one link the counts at its two ends are one less.
LEMMA EndsOfLess ==
  ASSUME NEW L, IsFiniteSet(L), NEW l \in L, NEW S, NEW T, SameStray(L \ {l}, S, T), NEW a
  PROVE  /\ IsFiniteSet(L \ {l})
         /\ Cardinality(Out(L, S, a)) = Cardinality(Out(L \ {l}, T, a)) + At(l, 1, S, a)
         /\ Cardinality(In(L, S, a)) = Cardinality(In(L \ {l}, T, a)) + At(l, 2, S, a)
<1>1. PICK M : M = L \ {l}
  OBVIOUS
<1>2. IsFiniteSet(M)
  BY <1>1, FS_RemoveElement
<1>3. l \notin M /\ L = M \cup {l} /\ SameStray(M, T, S)
  BY <1>1 DEF SameStray
<1>4. /\ Cardinality(Out(M \cup {l}, S, a)) = Cardinality(Out(M, T, a)) + At(l, 1, S, a)
      /\ Cardinality(In(M \cup {l}, S, a)) = Cardinality(In(M, T, a)) + At(l, 2, S, a)
  BY <1>2, <1>3, EndsOfMore
<1> QED
  BY <1>1, <1>2, <1>3, <1>4, Zenon

\* __lc_link_add on a good graph gives a good graph.
LEMMA AddGraph ==
  ASSUME Graph(nodes, cnt, links, stray), NEW s \in Addrs, NEW d \in Addrs, AddLink(s, d)
  PROVE  Graph(nodes', cnt', links', stray') /\ links' \subseteq links \cup {<<s, d>>}
<1>0. nodes \subseteq nodes'
  BY DEF AddLink, WithNode
<1>1. CASE <<s, d>> \in links
  BY <1>0, <1>1 DEF AddLink, Graph
<1>2. CASE <<s, d>> \notin links
  <2>k. PICK l : l = <<s, d>>
    OBVIOUS
  <2>l. l = <<s, d>> /\ l \in Addrs \X Addrs /\ l[1] = s /\ l[2] = d
    BY <2>k
  <2>n. PICK N : N = WithNode(WithNode(nodes, s), d)
    OBVIOUS
  <2>f. PICK E : E = {i \in {1, 2} : <<s, d>>[i] \in N}
    OBVIOUS
  <2>e. E = {i \in {1, 2} : l[i] \in nodes'}
    BY <2>l, <2>n, <2>f DEF AddLink
  <2>0. /\ cnt' = Recount(cnt, <<s, d>>, E, 1)
        /\ \/ links' = links /\ stray' = stray
           \/ links' = links \cup {<<s, d>>} /\ stray' = stray \cup {<<<<s, d>>, i>> : i \in {1, 2} \ E}
    BY <1>2, <2>n, <2>f, Zenon DEF AddLink
  <2>1. /\ l \notin links /\ cnt' = Recount(cnt, l, E, 1)
        /\ \/ links' = links /\ stray' = stray
           \/ links' = links \cup {l} /\ stray' = stray \cup {<<l, i>> : i \in {1, 2} \ E}
    BY <1>2, <2>l, <2>0
  <2>2. IsFiniteSet(links) /\ links \subseteq Addrs \X Addrs /\ cnt \in [Addrs -> Nat]
    BY DEF Graph
  <2>3. links' \in {links, links \cup {l}} /\ IsFiniteSet(links')
    BY <2>1, <2>2, FS_AddElement
  <2>4. cnt' \in [Addrs -> Nat]
    BY <2>1, <2>2 DEF Recount
  <2>5. ASSUME NEW a \in Addrs
        PROVE  Cardinality(Out(links', stray', a)) + Cardinality(In(links', stray', a)) <= cnt'[a]
    <3>1. cnt'[a] = cnt[a] + (IF 1 \in E /\ l[1] = a THEN 1 ELSE 0)
                           + (IF 2 \in E /\ l[2] = a THEN 1 ELSE 0)
      BY <2>1 DEF Recount
    <3>2. /\ Cardinality(Out(links, stray, a)) + Cardinality(In(links, stray, a)) <= cnt[a]
          /\ cnt[a] \in Nat
          /\ Cardinality(Out(links, stray, a)) \in Nat /\ Cardinality(In(links, stray, a)) \in Nat
      BY <2>2, EndsFinite DEF Graph
    <3>3. CASE links' = links /\ stray' = stray
      BY <3>1, <3>2, <3>3
    <3>4. CASE links' = links \cup {l} /\ stray' = stray \cup {<<l, i>> : i \in {1, 2} \ E}
      <4>1. SameStray(links, stray, stray')
        BY <3>4, <2>1 DEF SameStray
      <4>2. PICK T : T = stray'
        OBVIOUS
      <4>3. /\ Cardinality(Out(links \cup {l}, T, a)) = Cardinality(Out(links, stray, a)) + At(l, 1, T, a)
            /\ Cardinality(In(links \cup {l}, T, a)) = Cardinality(In(links, stray, a)) + At(l, 2, T, a)
        <5>1. IsFiniteSet(links) /\ l \notin links /\ SameStray(links, stray, T)
          BY <2>1, <2>2, <4>1, <4>2
        <5> QED
          BY <5>1, EndsOfMore
      <4>4. \A i \in {1, 2} : <<l, i>> \notin T => i \in E
        BY <3>4, <4>2
      <4> QED
        BY <3>1, <3>2, <3>4, <4>2, <4>3, <4>4 DEF At
    <3> QED
      BY <2>1, <3>3, <3>4
  <2>6. ASSUME NEW k \in links', NEW i \in {1, 2}
        PROVE  <<k, i>> \in stray' \/ k[i] \in nodes'
    <3>1. CASE k \in links
      BY <3>1, <2>1, <1>0 DEF Graph
    <3>2. CASE k \notin links
      BY <3>2, <2>1, <2>e
    <3> QED
      BY <3>1, <3>2
  <2>7. links' \subseteq Addrs \X Addrs
    BY <2>2, <2>3, <2>l
  <2>8. Graph(nodes', cnt', links', stray')
    BY <2>3, <2>4, <2>5, <2>6, <2>7 DEF Graph
  <2> QED
    BY <2>8, <2>3, <2>l
<1> QED
  BY <1>1, <1>2

\* __lc_link_del on a good graph gives a good graph: a node that is freed has
\* a counter of zero, hence no other link.
LEMMA DelGraph ==
  ASSUME NEW g, Graph(g.nodes, g.cnt, g.links, g.stray), NEW l \in g.links
  PROVE  LET h == DelLink(g, l) IN Graph(h.nodes, h.cnt, h.links, h.stray)
<1>1. PICK N, C, L, S : N = g.nodes /\ C = g.cnt /\ L = g.links /\ S = g.stray
  OBVIOUS
<1>e. PICK E : E = {i \in {1, 2} : <<l, i>> \notin S}
  OBVIOUS
<1>2. PICK c : c = Recount(C, l, E, -1)
  OBVIOUS
<1>3. PICK M : M = N \ {l[i] : i \in {j \in E : c[l[j]] = 0}}
  OBVIOUS
<1>t. PICK T : T = S \ {<<l, 1>>, <<l, 2>>}
  OBVIOUS
<1>k. PICK K : K = L \ {l}
  OBVIOUS
<1>4. /\ DelLink(g, l).nodes = M /\ DelLink(g, l).cnt = c /\ DelLink(g, l).links = K
      /\ DelLink(g, l).stray = T
  BY <1>1, <1>e, <1>2, <1>3, <1>t, <1>k DEF DelLink
<1>5. Graph(N, C, L, S) /\ l \in L
  BY <1>1
<1>6. /\ IsFiniteSet(L) /\ L \subseteq Addrs \X Addrs /\ C \in [Addrs -> Nat]
      /\ l \in Addrs \X Addrs
  BY <1>5 DEF Graph
<1>s. SameStray(K, S, T)
  BY <1>t, <1>k DEF SameStray
<1>9. IsFiniteSet(K)
  BY <1>6, <1>k, FS_RemoveElement
<1>7. ASSUME NEW a \in Addrs
      PROVE  /\ Cardinality(Out(K, T, a)) + Cardinality(In(K, T, a)) <= c[a]
             /\ Cardinality(Out(K, T, a)) \in Nat /\ Cardinality(In(K, T, a)) \in Nat
             /\ c[a] \in Nat
  <2>1. c[a] = C[a] + (IF 1 \in E /\ l[1] = a THEN -1 ELSE 0)
                    + (IF 2 \in E /\ l[2] = a THEN -1 ELSE 0)
    BY <1>2 DEF Recount
  <2>2. Cardinality(Out(L, S, a)) + Cardinality(In(L, S, a)) <= C[a] /\ C[a] \in Nat
    BY <1>5, <1>6 DEF Graph
  <2>3. /\ Cardinality(Out(L, S, a)) = Cardinality(Out(K, T, a)) + At(l, 1, S, a)
        /\ Cardinality(In(L, S, a)) = Cardinality(In(K, T, a)) + At(l, 2, S, a)
    <3>1. IsFiniteSet(L) /\ l \in L /\ SameStray(L \ {l}, S, T)
      BY <1>5, <1>6, <1>s, <1>k
    <3> QED
      BY <3>1, <1>k, EndsOfLess
  <2>4. Cardinality(Out(K, T, a)) \in Nat /\ Cardinality(In(K, T, a)) \in Nat
    BY <1>9, EndsFinite
  <2>5. /\ At(l, 1, S, a) = IF 1 \in E /\ l[1] = a THEN 1 ELSE 0
        /\ At(l, 2, S, a) = IF 2 \in E /\ l[2] = a THEN 1 ELSE 0
    BY <1>e DEF At
  <2> QED
    BY <2>1, <2>2, <2>3, <2>4, <2>5
<1>8. c \in [Addrs -> Nat]
  BY <1>2, <1>7 DEF Recount
<1>10. ASSUME NEW k \in K, NEW i \in {1, 2} PROVE <<k, i>> \in T \/ k[i] \in M
  <2>1. /\ k \in Addrs \X Addrs /\ k[1] \in Addrs /\ k[2] \in Addrs
        /\ <<k, i>> \in S \/ k[i] \in N
    BY <1>5, <1>6, <1>k DEF Graph
  <2>2. SUFFICES ASSUME <<k, i>> \notin T PROVE k[i] \in M
    OBVIOUS
  <2>3. k[i] \in N
    BY <2>1, <2>2, <1>s DEF SameStray
  <2>4. c[k[i]] # 0
    <3>1. CASE i = 1
      <4>1. IsFiniteSet(Out(K, T, k[1])) /\ k \in Out(K, T, k[1])
        <5>1. IsFiniteSet(Out(K, T, k[1]))
          BY <1>9, EndsFinite
        <5>2. k \in Out(K, T, k[1])
          BY <2>2, <3>1 DEF Out
        <5> QED
          BY <5>1, <5>2
      <4>2. Cardinality(Out(K, T, k[1])) # 0
        BY <4>1, FS_EmptySet
      <4>3. /\ Cardinality(Out(K, T, k[1])) + Cardinality(In(K, T, k[1])) <= c[k[1]]
            /\ Cardinality(Out(K, T, k[1])) \in Nat /\ Cardinality(In(K, T, k[1])) \in Nat
        BY <1>7, <2>1
      <4> QED
        BY <3>1, <4>2, <4>3
    <3>2. CASE i = 2
      <4>1. IsFiniteSet(In(K, T, k[2])) /\ k \in In(K, T, k[2])
        <5>1. IsFiniteSet(In(K, T, k[2]))
          BY <1>9, EndsFinite
        <5>2. k \in In(K, T, k[2])
          BY <2>2, <3>2 DEF In
        <5> QED
          BY <5>1, <5>2
      <4>2. Cardinality(In(K, T, k[2])) # 0
        BY <4>1, FS_EmptySet
      <4>3. /\ Cardinality(Out(K, T, k[2])) + Cardinality(In(K, T, k[2])) <= c[k[2]]
            /\ Cardinality(Out(K, T, k[2])) \in Nat /\ Cardinality(In(K, T, k[2])) \in Nat
        BY <1>7, <2>1
      <4> QED
        BY <3>2, <4>2, <4>3
    <3> QED
      BY <3>1, <3>2
  <2> QED
    BY <1>3, <2>3, <2>4
<1>12. K \subseteq Addrs \X Addrs
  BY <1>6, <1>k
<1>11. Graph(M, c, K, T)
  BY <1>7, <1>8, <1>9, <1>10, <1>12 DEF Graph
<1> QED
  BY <1>4, <1>11

\* lc_link_del: the link, and the reverse one if it is cached too.
LEMMA LinkDelGraph ==
  ASSUME Graph(nodes, cnt, links, stray), NEW s \in Addrs, NEW d \in Addrs, LcLinkDel(s, d)
  PROVE  Graph(nodes', cnt', links', stray')
<1> DEFINE g  == [nodes |-> nodes, cnt |-> cnt, links |-> links, stray |-> stray, oops |-> oops]
           g1 == DelLink(g, <<s, d>>)
           g2 == IF <<d, s>> \in g1.links /\ ~g1.oops THEN DelLink(g1, <<d, s>>) ELSE g1
<1>1. /\ <<s, d>> \in links
      /\ nodes' = g2.nodes /\ cnt' = g2.cnt /\ links' = g2.links /\ stray' = g2.stray
  BY DEF LcLinkDel
<1>2. g.nodes = nodes /\ g.cnt = cnt /\ g.links = links /\ g.stray = stray
  OBVIOUS
<1> HIDE DEF g
<1>3. Graph(g1.nodes, g1.cnt, g1.links, g1.stray)
  <2>1. Graph(g.nodes, g.cnt, g.links, g.stray) /\ <<s, d>> \in g.links
    BY <1>1, <1>2
  <2> QED
    BY <2>1, DelGraph
<1> HIDE DEF g1
<1>4. Graph(g2.nodes, g2.cnt, g2.links, g2.stray)
  <2>1. CASE <<d, s>> \in g1.links /\ ~g1.oops
    BY <2>1, <1>3, DelGraph
  <2>2. CASE ~(<<d, s>> \in g1.links /\ ~g1.oops)
    BY <2>2, <1>3
  <2> QED
    BY <2>1, <2>2
<1> QED
  BY <1>1, <1>4

\* lc_srt_add adds links between addresses of the route.
LEMMA LinksOfPathType ==
  ASSUME NEW p \in SrtAdded, NEW bidir \in BOOLEAN
  PROVE  LinksOfPath(p, bidir) \in Seq(Addrs \X Addrs)
<1>1. p \in Seq(Addrs) /\ Len(p) \in Nat /\ Len(p) >= 2
  OBVIOUS
<1>2. CASE bidir
  <2>1. 2 * (Len(p) - 1) \in Nat
    BY <1>1
  <2>2. \A k \in 1..(2 * (Len(p) - 1)) :
          (k + 1) \div 2 \in 1..Len(p) /\ (k + 1) \div 2 + 1 \in 1..Len(p)
    BY <1>1
  <2> QED
    BY <1>1, <1>2, <2>1, <2>2 DEF LinksOfPath
<1>3. CASE ~bidir
  BY <1>1, <1>3 DEF LinksOfPath
<1> QED
  BY <1>2, <1>3

\* The empty cache.
LEMMA EmptyGraph == Graph({}, [a \in Addrs |-> 0], {}, {})
<1>1. \A a : Out({}, {}, a) = {} /\ In({}, {}, a) = {}
  BY DEF Out, In
<1>2. IsFiniteSet({}) /\ Cardinality({}) = 0
  BY FS_EmptySet
<1>3. PICK E : E = {} /\ IsFiniteSet(E)
                /\ \A a : Cardinality(Out(E, E, a)) = 0 /\ Cardinality(In(E, E, a)) = 0
  BY <1>1, <1>2
<1>4. PICK C : C = [a \in Addrs |-> 0]
  OBVIOUS
<1>5. Graph(E, C, E, E)
  BY <1>3, <1>4 DEF Graph
<1> QED
  BY <1>3, <1>4, <1>5, Zenon

\* The empty cache satisfies the invariant.
LEMMA InitCache == Init => CacheInv
  BY EmptyGraph DEF Init, CacheInv

\* Every function of the cache keeps the counters and the list apart by
\* no more than the invariant allows.
LEMMA NextCache == CacheInv /\ [Next]_vars => CacheInv'
<1> SUFFICES ASSUME CacheInv, [Next]_vars PROVE CacheInv'
  OBVIOUS
<1> USE DEF CacheInv
<1>1. ASSUME NEW s \in Addrs, NEW d \in Addrs, LcLinkAdd(s, d) PROVE CacheInv'
  BY <1>1, AddGraph DEF LcLinkAdd
<1>2. ASSUME NEW s \in Addrs, NEW d \in Addrs, LcLinkDel(s, d) PROVE CacheInv'
  <2>1. UNCHANGED todo
    BY <1>2 DEF LcLinkDel
  <2> QED
    BY <1>2, <2>1, LinkDelGraph
<1>3. ASSUME NEW p \in SrtAdded, LcSrtAdd(p) PROVE CacheInv'
  BY <1>3, LinksOfPathType DEF LcSrtAdd, graphVars
<1>4. CASE LcSrtAddStep
  <2>1. Head(todo) \in Addrs \X Addrs /\ Tail(todo) \in Seq(Addrs \X Addrs)
    BY <1>4 DEF LcSrtAddStep
  <2>2. PICK s \in Addrs, d \in Addrs : s = Head(todo)[1] /\ d = Head(todo)[2]
    BY <2>1
  <2>3. AddLink(s, d) /\ todo' = Tail(todo)
    BY <1>4, <2>2 DEF LcSrtAddStep
  <2>4. Graph(nodes', cnt', links', stray')
    BY <2>3, AddGraph
  <2> QED
    BY <2>1, <2>3, <2>4
<1>5. CASE LcFlush
  BY <1>5, EmptyGraph DEF LcFlush
<1>6. CASE UNCHANGED vars
  BY <1>6 DEF vars, graphVars
<1> QED
  BY <1>1, <1>2, <1>3, <1>4, <1>5, <1>6 DEF Next

\* No cached link points to a freed node, whatever was added, deleted or did
\* not fit into either list: this is what the counters of lc_node are for.
THEOREM NodesOutliveLinks == Spec => []NoDanglingNode
<1>1. CacheInv => NoDanglingNode
  BY DEF CacheInv, Graph, NoDanglingNode
<1> QED
  BY InitCache, NextCache, <1>1, PTL DEF Spec

----------------------------------------------------------------------------
(* A route that was added is found. *)

\* The links of the route being added are cached or still to be added, as long
\* as the list has room; a full list may have lost some.
ToAdd ==
  added # NULL =>
    /\ added \in SrtAdded
    /\ Cardinality(links) < LinksMax => PathLinks(added) \subseteq links \cup Range(todo)

\* lc_srt_add adds every link of the route, in either form.
LEMMA AllLinksOfPath ==
  ASSUME NEW p \in SrtAdded, NEW bidir \in BOOLEAN
  PROVE  PathLinks(p) \subseteq Range(LinksOfPath(p, bidir))
<1>1. p \in Seq(Addrs) /\ Len(p) \in Nat /\ Len(p) >= 2
  OBVIOUS
<1>2. ASSUME NEW i \in 1..(Len(p) - 1)
      PROVE  <<p[i], p[i + 1]>> \in Range(LinksOfPath(p, bidir))
  <2>1. CASE bidir
    <3>1. PICK k : k = 2 * i - 1
      OBVIOUS
    <3>2. k \in 1..(2 * (Len(p) - 1)) /\ (k + 1) \div 2 = i /\ k % 2 = 1
      BY <3>1, <1>1
    <3>3. LinksOfPath(p, bidir)[k] = <<p[i], p[i + 1]>> /\ k \in DOMAIN LinksOfPath(p, bidir)
      BY <2>1, <3>2 DEF LinksOfPath
    <3> QED
      BY <3>3 DEF Range
  <2>2. CASE ~bidir
    BY <2>2 DEF LinksOfPath, Range
  <2> QED
    BY <2>1, <2>2
<1> QED
  BY <1>2 DEF PathLinks

\* Each step of lc_srt_add caches the link it takes, or finds no room for it.
LEMMA StepToAdd ==
  ASSUME CacheInv, ToAdd, LcSrtAddStep
  PROVE  ToAdd'
<1>1. todo \in Seq(Addrs \X Addrs) /\ todo # <<>> /\ UNCHANGED added /\ IsFiniteSet(links)
  BY DEF CacheInv, Graph, LcSrtAddStep
<1>2. Head(todo) \in Addrs \X Addrs
  BY <1>1
<1>3. PICK l \in Addrs \X Addrs : l = Head(todo)
  BY <1>2
<1>4. Range(todo) \subseteq {l} \cup Range(Tail(todo))
  <2> SUFFICES ASSUME NEW k \in DOMAIN todo PROVE todo[k] \in {l} \cup Range(Tail(todo))
    BY DEF Range
  <2>1. CASE k = 1
    BY <2>1, <1>1, <1>3
  <2>2. CASE k # 1
    <3>1. k - 1 \in DOMAIN Tail(todo) /\ Tail(todo)[k - 1] = todo[k]
      BY <2>2, <1>1
    <3> QED
      BY <3>1 DEF Range
  <2> QED
    BY <2>1, <2>2
<1>5. /\ todo' = Tail(todo) /\ links' \in {links, links \cup {l}}
      /\ l \notin links /\ Cardinality(links) < LinksMax => l \in links'
  <2>1. PICK s, d : s = Head(todo)[1] /\ d = Head(todo)[2]
    OBVIOUS
  <2>2. AddLink(s, d) /\ todo' = Tail(todo) /\ l = <<s, d>>
    BY <2>1, <1>2, <1>3 DEF LcSrtAddStep
  <2>3. \/ links' = links /\ (<<s, d>> \in links \/ ~(Cardinality(links) < LinksMax))
        \/ links' = links \cup {<<s, d>>}
    BY <2>2, Zenon DEF AddLink
  <2> QED
    BY <2>2, <2>3
<1>6. Cardinality(links) <= Cardinality(links') /\ Cardinality(links) \in Nat /\ Cardinality(links') \in Nat
  <2>1. IsFiniteSet(links \cup {l})
    BY <1>1, FS_AddElement
  <2>2. IsFiniteSet(links')
    BY <1>1, <1>5, <2>1
  <2>3. links \in SUBSET links'
    BY <1>5
  <2> QED
    BY <1>1, <2>2, <2>3, FS_Subset, FS_CardinalityType
<1>7. Cardinality(links') < LinksMax => Cardinality(links) < LinksMax
  BY <1>6
<1>8. links \subseteq links'
  BY <1>5
<1>9. SUFFICES ASSUME added # NULL, Cardinality(links') < LinksMax
               PROVE  PathLinks(added) \subseteq links' \cup Range(Tail(todo))
  BY <1>1, <1>5 DEF ToAdd
<1>10. PathLinks(added) \subseteq links \cup Range(todo) /\ l \in links'
  BY <1>5, <1>7, <1>8, <1>9 DEF ToAdd
<1> QED
  BY <1>4, <1>8, <1>10

\* At first no route is being added.
LEMMA InitToAdd == Init => ToAdd
  BY DEF Init, ToAdd

\* Every step keeps the links of the learned route stored or still to come.
LEMMA NextToAdd == CacheInv /\ ToAdd /\ [Next]_vars => ToAdd'
<1> SUFFICES ASSUME CacheInv, ToAdd, [Next]_vars PROVE ToAdd'
  OBVIOUS
<1>1. ASSUME NEW s \in Addrs, NEW d \in Addrs, LcLinkAdd(s, d) \/ LcLinkDel(s, d) PROVE ToAdd'
  BY <1>1 DEF LcLinkAdd, LcLinkDel, ToAdd
<1>2. ASSUME NEW p \in SrtAdded, LcSrtAdd(p) PROVE ToAdd'
  <2>1. PICK bidir \in BOOLEAN : todo' = LinksOfPath(p, bidir)
    BY <1>2 DEF LcSrtAdd
  <2>2. added' = p /\ UNCHANGED links
    BY <1>2 DEF LcSrtAdd, graphVars
  <2>3. PathLinks(p) \subseteq Range(todo')
    BY <2>1, AllLinksOfPath
  <2> QED
    BY <2>2, <2>3 DEF ToAdd
<1>3. CASE LcSrtAddStep
  BY <1>3, StepToAdd
<1>4. CASE LcFlush
  BY <1>4 DEF LcFlush, ToAdd
<1>5. CASE UNCHANGED vars
  BY <1>5 DEF vars, graphVars, ToAdd
<1> QED
  BY <1>1, <1>2, <1>3, <1>4, <1>5 DEF Next

\* A route that was added whole, with or without loops, is one the lookup that
\* follows can answer with, or has a shorter one, if neither list was too full
\* for it.
THEOREM LearnedRouteIsFound == Spec => []AddedIsFound
<1>1. CacheInv /\ ToAdd => AddedIsFound
  <2> SUFFICES ASSUME CacheInv, ToAdd, todo = <<>>, added # NULL, Cardinality(links) < LinksMax,
                      \A l \in PathLinks(added) : \A i \in {1, 2} : <<l, i>> \notin stray
               PROVE  ShortestRoutes(Usable, added[1], added[Len(added)]) # {}
    BY DEF AddedIsFound, Unlocked
  <2>1. PICK p \in SrtAdded : p = added
    BY DEF ToAdd
  <2>2. p \in Seq(Addrs) /\ Len(p) >= 2 /\ Len(p) \in Nat /\ p[1] # p[Len(p)]
    BY SrtAddedAssumption
  <2>3. Range(todo) = {}
    BY DEF Range
  <2>4. PathLinks(p) \subseteq Usable
    BY <2>1, <2>3 DEF ToAdd, Usable
  <2>5. \A i \in 1..(Len(p) - 1) : <<p[i], p[i + 1]>> \in Usable
    BY <2>2, <2>4 DEF PathLinks
  <2>6. IsWalk(p, Addrs, Usable, p[1], p[Len(p)])
    BY <2>2, <2>5 DEF IsWalk
  <2>7. Usable \in SUBSET (Addrs \X Addrs) /\ IsFiniteSet(Usable)
    <3>1. Usable \in SUBSET links /\ links \subseteq Addrs \X Addrs /\ IsFiniteSet(links)
      BY DEF CacheInv, Graph, Usable
    <3> QED
      BY <3>1, FS_Subset
  <2>8. ShortestRoutes(Usable, p[1], p[Len(p)]) # {}
    <3>1. PICK s, d : s = p[1] /\ d = p[Len(p)]
      OBVIOUS
    <3>2. s # d /\ IsWalk(p, Addrs, Usable, s, d)
      BY <2>2, <2>6, <3>1
    <3>3. ShortestRoutes(Usable, s, d) # {}
      BY <2>7, <3>2, WalkIsFound
    <3> QED
      BY <3>1, <3>3
  <2> QED
    BY <2>1, <2>8
<1> QED
  BY InitCache, NextCache, InitToAdd, NextToAdd, <1>1, PTL DEF Spec

HIDE LinkCacheAssumption

----------------------------------------------------------------------------
(* The lookup: the certificate of shortest paths. *)

\* What the loop needs besides the certificate: only cached nodes have links
\* or finite costs, and settled nodes cost no more than the others.
Ordered ==
  /\ \A l \in graph : l[1] \in cached /\ l[2] \in cached
  /\ \A v \in Nodes : cost[v] # Inf => v \in cached
  /\ phase = "run" =>
       /\ cost[Src] = 0
       /\ \A u \in cached \ q : cost[u] # Inf
       /\ \A u \in cached \ q, v \in q : cost[u] <= cost[v]
  /\ phase = "start" => \A v \in Nodes : cost[v] = Inf
  /\ phase = "start" => q = cached

Costs ==
  /\ graph \subseteq Nodes \X Nodes /\ cached \subseteq Nodes /\ q \subseteq cached
  /\ cost \in [Nodes -> 0..Inf] /\ hops \in [Nodes -> 0..Inf]
  /\ pred \in [Nodes -> Nodes \cup {NoNode}]
  /\ phase \in {"start", "run", "lookup", "walk", "done"}

IInv == Costs /\ Certificate /\ Ordered

USE DijkstraAssumption

\* The initial state, with no cost known, satisfies the invariant.
LEMMA InitIInv == FindInit => IInv
<1> SUFFICES ASSUME FindInit PROVE IInv
  OBVIOUS
<1>1. Costs
  BY DEF FindInit, Costs
<1>2. Certificate
  BY DEF FindInit, Certificate, Tight, SourceIsRoot, NoShorterLink, SettledNodes
<1>3. Ordered
  BY DEF FindInit, Ordered, Ends
<1> QED
  BY <1>1, <1>2, <1>3 DEF IInv

\* Settling a cheapest node preserves the invariant: the nodes it relaxes are
\* not settled, because settled nodes cost no more than it does.
LEMMA SettleIInv ==
  ASSUME IInv, NEW u \in Nodes, Settle(u)
  PROVE  IInv'
<1> USE DEF IInv
<1>1. /\ u \in q /\ u \in cached /\ cost[u] # Inf /\ \A v \in q : cost[u] <= cost[v]
      /\ cost[u] \in 0..Inf /\ hops[u] \in 0..Inf /\ phase = "run"
      /\ \A v \in cached \ q : cost[v] <= cost[u]
      /\ hops[u] = cost[u]
  BY DEF Settle, Cheapest, Costs, Ordered, Certificate, Tight, SourceIsRoot
<1>a. cost[u] \in Nat /\ \A v \in Nodes : cost[v] \in Nat
  BY DEF Costs
<1>r. PICK R : R = Relaxed(u)
  OBVIOUS
<1>2. \A v \in R : /\ v \in q /\ v # u /\ <<u, v>> \in graph /\ v \in Nodes
                   /\ cost[u] + 1 < cost[v] /\ cost[u] + 1 \in 0..Inf
  BY <1>r, <1>1 DEF Relaxed, Costs
<1>3. \A v \in Nodes : /\ cost'[v] = IF v \in R THEN cost[u] + 1 ELSE cost[v]
                       /\ hops'[v] = IF v \in R THEN hops[u] + 1 ELSE hops[v]
                       /\ pred'[v] = IF v \in R THEN u ELSE pred[v]
  BY <1>r DEF Settle
<1>4. q' = q \ {u} /\ UNCHANGED <<graph, cached, phase>>
  BY DEF Settle
<1>5. R \subseteq cached /\ \A v \in cached : <<u, v>> \in graph /\ v \notin R => cost[v] <= cost[u] + 1
  BY <1>r, <1>1 DEF Relaxed, Costs
<1>6. SettledNodes = cached \ q /\ SettledNodes' = (cached \ q) \cup {u}
  BY <1>1, <1>4 DEF SettledNodes, Costs
<1>7. Costs'
  <2>1. cost' \in [Nodes -> 0..Inf]
    BY <1>1, <1>2, <1>3 DEF Settle, Costs
  <2>2. hops' \in [Nodes -> 0..Inf]
    BY <1>1, <1>2, <1>3 DEF Settle, Costs
  <2>3. pred' \in [Nodes -> Nodes \cup {NoNode}]
    BY <1>3 DEF Settle, Costs
  <2> QED
    BY <2>1, <2>2, <2>3, <1>4 DEF Costs
<1>8. Tight'
  <2> SUFFICES ASSUME NEW v \in Nodes \ {Src}, cost'[v] # Inf
               PROVE  /\ pred'[v] \in SettledNodes'
                      /\ <<pred'[v], v>> \in graph'
                      /\ cost'[v] = cost'[pred'[v]] + 1
                      /\ hops'[v] = cost'[v]
    BY DEF Tight
  <2>1. u \notin R
    BY <1>2
  <2>2. CASE v \in R
    BY <2>1, <2>2, <1>1, <1>2, <1>3, <1>4, <1>6
  <2>3. CASE v \notin R
    <3>1. /\ pred[v] \in cached \ q /\ <<pred[v], v>> \in graph
          /\ cost[v] = cost[pred[v]] + 1 /\ hops[v] = cost[v]
      BY <2>3, <1>3, <1>6 DEF Certificate, Tight
    <3>2. pred[v] \notin R /\ pred[v] \in Nodes
      BY <3>1, <1>2 DEF Costs
    <3> QED
      BY <2>3, <3>1, <3>2, <1>3, <1>4, <1>6
  <2> QED
    BY <2>2, <2>3
<1>9. SourceIsRoot' /\ cost'[Src] = 0
  <2>1. cost[Src] = 0
    BY <1>1 DEF Ordered
  <2>2. ASSUME Src \in R PROVE FALSE
    <3>1. cost[u] + 1 < cost[Src]
      BY <2>2, <1>2
    <3>2. cost[u] \in Nat
      BY <1>a
    <3> QED
      BY <2>1, <3>1, <3>2
  <2> QED
    BY <2>1, <2>2, <1>3 DEF Certificate, SourceIsRoot
<1>10. NoShorterLink'
  <2> SUFFICES ASSUME NEW w \in SettledNodes', NEW v \in Nodes, <<w, v>> \in graph
               PROVE  cost'[v] <= cost'[w] + 1
    BY <1>4 DEF NoShorterLink
  <2>1. cost'[v] <= cost[v] /\ v \in cached /\ cost[v] \in 0..Inf /\ cost'[v] \in 0..Inf
    <3>1. v \in cached
      <4>1. <<w, v>>[2] \in cached
        BY DEF Ordered
      <4> QED
        BY <4>1
    <3>2. cost[v] \in 0..Inf /\ cost'[v] \in 0..Inf
      BY <1>7 DEF Costs
    <3>3. CASE v \in R
      <4>1. cost'[v] = cost[u] + 1
        BY <3>3, <1>3
      <4>2. cost[u] + 1 < cost[v]
        BY <3>3, <1>2
      <4>3. cost[u] \in Nat
        BY <1>a
      <4> QED
        BY <4>1, <4>2, <4>3, <3>1, <3>2
    <3>4. CASE v \notin R
      BY <3>4, <1>3, <3>1, <3>2
    <3> QED
      BY <3>3, <3>4
  <2>2. w \notin R /\ cost'[w] = cost[w] /\ w \in Nodes /\ cost[w] \in 0..Inf
    BY <1>1, <1>2, <1>3, <1>6 DEF Costs
  <2>3. CASE w = u
    <3>1. CASE v \in R
      BY <3>1, <2>2, <2>3, <1>1, <1>3
    <3>2. CASE v \notin R
      BY <3>2, <2>1, <2>2, <2>3, <1>1, <1>3, <1>5
    <3> QED
      BY <3>1, <3>2
  <2>4. CASE w # u
    <3>1. cost[v] <= cost[w] + 1
      BY <2>4, <1>6 DEF Certificate, NoShorterLink
    <3> QED
      BY <3>1, <2>1, <2>2
  <2> QED
    BY <2>3, <2>4
<1>11. Ordered'
  <2>1. \A v \in Nodes : cost'[v] # Inf => v \in cached
    BY <1>2, <1>3, <1>5 DEF Ordered
  <2>2. \A w \in cached \ q' : cost'[w] # Inf
    BY <1>1, <1>2, <1>3, <1>4 DEF Ordered, Costs
  <2>3. ASSUME NEW w \in cached \ q', NEW v \in q' PROVE cost'[w] <= cost'[v]
    <3>1. /\ w \in Nodes /\ v \in Nodes /\ v \in q /\ w \notin R
          /\ cost[w] \in Nat /\ cost[v] \in Nat /\ cost[u] \in Nat
      BY <1>1, <1>2, <1>4, <1>a DEF Costs
    <3>2. cost'[w] = cost[w] /\ cost[w] <= cost[u]
      BY <3>1, <1>1, <1>3, <1>4
    <3>3. cost[u] <= cost'[v]
      <4>1. CASE v \in R
        <5>1. cost'[v] = cost[u] + 1
          BY <4>1, <3>1, <1>3
        <5> QED
          BY <5>1, <3>1
      <4>2. CASE v \notin R
        BY <4>2, <3>1, <1>1, <1>3
      <4> QED
        BY <4>1, <4>2
    <3>4. cost'[v] \in 0..Inf
      BY <3>1, <1>7 DEF Costs
    <3> QED
      BY <3>1, <3>2, <3>3, <3>4
  <2> QED
    BY <2>1, <2>2, <2>3, <1>1, <1>4, <1>9 DEF Ordered
<1> QED
  BY <1>7, <1>8, <1>9, <1>10, <1>11 DEF Certificate

\* Every other step preserves the invariant too.
LEMMA NextIInv == IInv /\ [FindNext]_findVars => IInv'
<1> SUFFICES ASSUME IInv, [FindNext]_findVars PROVE IInv'
  OBVIOUS
<1> USE DEF IInv
<1>1. CASE InitSingleSource
  <2>1. CASE Src \in cached
    <3>1. Costs'
      BY <1>1, <2>1 DEF InitSingleSource, Costs
    <3>2. Certificate'
      BY <1>1, <2>1 DEF InitSingleSource, Costs, Ordered, Certificate, Tight, SourceIsRoot,
                        NoShorterLink, SettledNodes
    <3>3. Ordered'
      BY <1>1, <2>1 DEF InitSingleSource, Costs, Ordered
    <3> QED
      BY <3>1, <3>2, <3>3
  <2>2. CASE Src \notin cached
    BY <1>1, <2>2 DEF InitSingleSource, Costs, Ordered, Certificate, Tight, SourceIsRoot,
                      NoShorterLink, SettledNodes
  <2> QED
    BY <2>1, <2>2
<1>2. ASSUME NEW u \in Nodes, Settle(u) PROVE IInv'
  BY <1>2, SettleIInv
<1>3. CASE Settled
  <2>1. SettledNodes' = SettledNodes
    BY <1>3 DEF Settled, SettledNodes, Ordered, Costs
  <2> QED
    BY <1>3, <2>1 DEF Settled, Costs, Ordered, Certificate, Tight, SourceIsRoot, NoShorterLink
<1>4. CASE LookupDst
  BY <1>4 DEF LookupDst, Costs, Ordered, Certificate, Tight, SourceIsRoot, NoShorterLink, SettledNodes
<1>5. CASE Fill
  BY <1>5 DEF Fill, Costs, Ordered, Certificate, Tight, SourceIsRoot, NoShorterLink, SettledNodes
<1>6. CASE Return
  BY <1>6 DEF Return, Costs, Ordered, Certificate, Tight, SourceIsRoot, NoShorterLink, SettledNodes
<1>7. CASE UNCHANGED findVars
  BY <1>7 DEF findVars, Costs, Ordered, Certificate, Tight, SourceIsRoot, NoShorterLink, SettledNodes
<1> QED
  BY <1>1, <1>2, <1>3, <1>4, <1>5, <1>6, <1>7 DEF FindNext

\* On every graph, costs and predecessors computed by __dijkstra are a
\* certificate of shortest paths.
THEOREM CertificateHolds == FindSpec => []Certificate
<1>1. IInv => Certificate
  BY DEF IInv
<1> QED
  BY InitIInv, NextIInv, <1>1, PTL DEF FindSpec

----------------------------------------------------------------------------
(* The lookup implements RouteQuery. *)

\* A path with one more node in front.
LEMMA LongerPath ==
  ASSUME NEW S, NEW t \in S, NEW s \in S, NEW d \in S, NEW r \in Seq(S), NEW L,
         PathLinks(Path(s, r, d)) \subseteq L, <<t, s>> \in L
  PROVE  PathLinks(Path(t, <<s>> \o r, d)) \subseteq L
<1> DEFINE p == Path(s, r, d)
           c == <<s>> \o r
           o == Path(t, c, d)
<1>1. /\ c \in Seq(S) /\ Len(c) = Len(r) + 1 /\ Len(r) \in Nat
      /\ c[1] = s /\ \A i \in 1..Len(r) : c[i + 1] = r[i]
  OBVIOUS
<1> HIDE DEF c
<1>2. /\ p \in Seq(S) /\ Len(p) = Len(r) + 2 /\ p[1] = s /\ p[Len(r) + 2] = d
      /\ \A i \in 1..Len(r) : p[i + 1] = r[i]
  BY PathElements
<1>3. /\ o \in Seq(S) /\ Len(o) = Len(r) + 3 /\ o[1] = t /\ o[Len(r) + 3] = d
      /\ \A i \in 1..(Len(r) + 1) : o[i + 1] = c[i]
  <2> HIDE DEF p
  <2>1. /\ o \in Seq(S) /\ Len(o) = Len(c) + 2 /\ o[1] = t /\ o[Len(c) + 2] = d
        /\ \A i \in 1..Len(c) : o[i + 1] = c[i]
    <3>1. c \in Seq(S)
      BY <1>1
    <3> QED
      BY <3>1, PathElements
  <2>2. Len(c) + 2 = Len(r) + 3 /\ 1..Len(c) = 1..(Len(r) + 1)
    BY <1>1
  <2> HIDE DEF o
  <2> QED
    BY <2>1, <2>2, Zenon
<1> HIDE DEF p, o
<1>4. \A i \in 1..(Len(r) + 1) : <<p[i], p[i + 1]>> \in L
  BY <1>1, <1>2, PathOverLinks DEF p
<1>5. \A i \in 1..(Len(r) + 2) : o[i + 1] = p[i]
  <2> TAKE i \in 1..(Len(r) + 2)
  <2>1. CASE i = 1
    BY <2>1, <1>1, <1>2, <1>3
  <2>2. CASE i \in 2..(Len(r) + 1)
    <3>1. o[i + 1] = c[i] /\ i - 1 \in 1..Len(r)
      BY <2>2, <1>1, <1>3
    <3>2. c[(i - 1) + 1] = r[i - 1] /\ p[(i - 1) + 1] = r[i - 1]
      BY <3>1, <1>1, <1>2
    <3> QED
      BY <3>1, <3>2
  <2>3. CASE i = Len(r) + 2
    BY <2>3, <1>1, <1>2, <1>3
  <2> QED
    BY <2>1, <2>2, <2>3, <1>1
<1>6. ASSUME NEW i \in 1..(Len(o) - 1) PROVE <<o[i], o[i + 1]>> \in L
  <2>1. i \in 1..(Len(r) + 2)
    BY <1>1, <1>3
  <2>2. CASE i = 1
    <3>1. o[1 + 1] = p[1]
      BY <2>1, <2>2, <1>5
    <3> QED
      BY <3>1, <2>2, <1>2, <1>3
  <2>3. CASE i # 1
    <3>1. i - 1 \in 1..(Len(r) + 1)
      BY <2>1, <2>3, <1>1
    <3>2. o[(i - 1) + 1] = p[i - 1] /\ o[i + 1] = p[i]
      BY <3>1, <2>1, <1>1, <1>5
    <3>3. <<p[i - 1], p[(i - 1) + 1]>> \in L
      BY <3>1, <1>4
    <3>4. (i - 1) + 1 = i
      BY <2>1
    <3> QED
      BY <3>2, <3>3, <3>4, Zenon
  <2> QED
    BY <2>2, <2>3
<1> QED
  BY <1>3, <1>6, PathOverLinks DEF o, c

\* Where the walk back is: the addresses filled in so far lead from n to the
\* destination over cached links, and each costs one more than the one before.
Back ==
  /\ n \in cached /\ cost[n] # Inf /\ cost[Dst] # Inf /\ phase \in {"walk", "done"}
  /\ addrs \in Seq(Nodes)
  /\ Len(addrs) + cost[n] + 1 = cost[Dst]
  /\ \A i \in 1..Len(addrs) : cost[addrs[i]] = cost[n] + i
  /\ PathLinks(Path(n, addrs, Dst)) \subseteq graph

Walk ==
  /\ n = NoNode => addrs = <<>> /\ phase # "walk"
  /\ n # NoNode => Back
  /\ phase # "done" => answer = Pending
  /\ phase # "start" /\ Src \in cached => cost[Src] = 0

\* What the certificate says of the destination and of every other node that
\* was reached.
LEMMA Predecessor ==
  ASSUME IInv, phase \in {"lookup", "walk", "done"}, NEW v \in Nodes, v # Src, cost[v] # Inf
  PROVE  /\ pred[v] \in cached /\ pred[v] \in Nodes /\ cost[pred[v]] # Inf
         /\ <<pred[v], v>> \in graph /\ cost[v] = cost[pred[v]] + 1
         /\ hops[v] = cost[v] /\ cost[v] \in Nat /\ cost[pred[v]] \in Nat
<1>1. SettledNodes = {w \in cached : cost[w] # Inf}
  BY DEF SettledNodes
<1>2. /\ pred[v] \in SettledNodes /\ <<pred[v], v>> \in graph
      /\ cost[v] = cost[pred[v]] + 1 /\ hops[v] = cost[v]
  BY DEF IInv, Certificate, Tight
<1> QED
  BY <1>1, <1>2 DEF IInv, Costs

\* The walk starts at the destination's predecessor.
LEMMA LookupWalk ==
  ASSUME IInv, Walk, LookupDst
  PROVE  Walk'
<1>1. CASE Dst \in cached /\ cost[Dst] # Inf /\ pred[Dst] # NoNode
  <2>1. /\ n' = pred[Dst] /\ phase' = "walk" /\ phase = "lookup" /\ n = NoNode /\ addrs = <<>>
        /\ UNCHANGED <<graph, cached, cost, addrs, answer>>
    BY <1>1 DEF LookupDst, Walk, Back
  <2>2. /\ pred[Dst] \in cached /\ pred[Dst] \in Nodes /\ cost[pred[Dst]] # Inf
        /\ <<pred[Dst], Dst>> \in graph /\ cost[Dst] = cost[pred[Dst]] + 1
        /\ cost[pred[Dst]] \in Nat
    BY <1>1, <2>1, Predecessor
  <2>3. <<>> \in Seq(Nodes) /\ Len(<<>>) = 0
    OBVIOUS
  <2>4. PathLinks(Path(pred[Dst], <<>>, Dst)) \subseteq graph
    <3>e. PICK e \in Seq(Nodes) : e = <<>> /\ Len(e) = 0
      BY <2>3
    <3>f. PICK f \in Nodes : f = pred[Dst]
      BY <2>2
    <3> DEFINE p == Path(f, e, Dst)
    <3>1. p \in Seq(Nodes) /\ Len(p) = Len(e) + 2 /\ p[1] = f /\ p[Len(e) + 2] = Dst
      BY PathElements
    <3> HIDE DEF p
    <3>2. \A i \in 1..(Len(p) - 1) : <<p[i], p[i + 1]>> \in graph
      BY <3>e, <3>f, <3>1, <2>2
    <3> QED
      BY <3>e, <3>f, <3>1, <3>2, PathOverLinks DEF p
  <2>5. Back'
    BY <2>1, <2>2, <2>3, <2>4, <1>1 DEF Back
  <2> QED
    BY <2>1, <2>2, <2>5 DEF Walk
<1>2. CASE ~(Dst \in cached /\ cost[Dst] # Inf /\ pred[Dst] # NoNode)
  BY <1>2 DEF LookupDst, Walk, Back
<1> QED
  BY <1>1, <1>2

\* Each step of the walk adds the predecessor, one link away and one cheaper.
LEMMA FillWalk ==
  ASSUME IInv, Walk, Fill
  PROVE  Walk'
<1>1. /\ n # NoNode /\ Back /\ phase = "walk"
      /\ addrs' = <<n>> \o addrs /\ n' = pred[n]
      /\ UNCHANGED <<graph, cached, cost, phase, answer>>
  BY DEF Fill, Walk
<1>2. n \in Nodes /\ cost[n] # Inf /\ n # Src
  BY <1>1 DEF Back, Fill, IInv, Costs, Certificate, SourceIsRoot
<1>3. /\ pred[n] \in cached /\ pred[n] \in Nodes /\ cost[pred[n]] # Inf
      /\ <<pred[n], n>> \in graph /\ cost[n] = cost[pred[n]] + 1 /\ cost[pred[n]] \in Nat
  BY <1>1, <1>2, Predecessor
<1>4. /\ addrs \in Seq(Nodes) /\ Len(addrs) \in Nat
      /\ Len(addrs) + cost[n] + 1 = cost[Dst]
  BY <1>1 DEF Back
<1>5. /\ addrs' \in Seq(Nodes) /\ Len(addrs') = Len(addrs) + 1
      /\ addrs'[1] = n /\ \A i \in 1..Len(addrs) : addrs'[i + 1] = addrs[i]
  BY <1>1, <1>2, <1>4
<1>6. Len(addrs') + cost[pred[n]] + 1 = cost[Dst]
  BY <1>3, <1>4, <1>5
<1>7. ASSUME NEW i \in 1..Len(addrs') PROVE cost[addrs'[i]] = cost[pred[n]] + i
  <2>1. CASE i = 1
    BY <2>1, <1>3, <1>5
  <2>2. CASE i # 1
    <3>1. i - 1 \in 1..Len(addrs) /\ (i - 1) + 1 = i
      BY <2>2, <1>4, <1>5
    <3>2. addrs'[i] = addrs[i - 1] /\ cost[addrs[i - 1]] = cost[n] + (i - 1)
      BY <3>1, <1>1, <1>5 DEF Back
    <3> QED
      BY <3>1, <3>2, <1>3, <1>4
  <2> QED
    BY <2>1, <2>2
<1>8. PathLinks(Path(pred[n], <<n>> \o addrs, Dst)) \subseteq graph
  <2>1. PathLinks(Path(n, addrs, Dst)) \subseteq graph /\ Dst \in Nodes
    BY <1>1 DEF Back
  <2> QED
    BY <2>1, <1>2, <1>3, <1>4, LongerPath
<1>9. Back'
  BY <1>1, <1>3, <1>5, <1>6, <1>7, <1>8 DEF Back
<1> QED
  BY <1>1, <1>3, <1>9 DEF Walk

\* The walk is an invariant along with the certificate.
LEMMA InitWalk == FindInit => Walk
  BY DEF FindInit, Walk

\* Every step keeps the walk back on the tree of predecessors.
LEMMA NextWalk == IInv /\ IInv' /\ Walk /\ [FindNext]_findVars => Walk'
<1> SUFFICES ASSUME IInv, IInv', Walk, [FindNext]_findVars PROVE Walk'
  OBVIOUS
<1>1. CASE InitSingleSource
  BY <1>1 DEF InitSingleSource, Walk, Back, IInv, Costs
<1>2. ASSUME NEW u \in Nodes, Settle(u) PROVE Walk'
  <2>1. phase = "run" /\ phase' = "run" /\ UNCHANGED <<n, addrs, answer, cached>>
    BY <1>2 DEF Settle
  <2>2. n = NoNode
    BY <2>1 DEF Walk, Back
  <2>3. cost'[Src] = 0
    BY <2>1 DEF IInv, Ordered
  <2> QED
    BY <2>1, <2>2, <2>3 DEF Walk
<1>3. CASE Settled
  BY <1>3 DEF Settled, Walk, Back
<1>4. CASE LookupDst
  BY <1>4, LookupWalk
<1>5. CASE Fill
  BY <1>5, FillWalk
<1>6. CASE Return
  BY <1>6 DEF Return, Walk, Back
<1>7. CASE UNCHANGED findVars
  BY <1>7 DEF findVars, Walk, Back
<1> QED
  BY <1>1, <1>2, <1>3, <1>4, <1>5, <1>6, <1>7 DEF FindNext

\* The nodes a route may go through; there are fewer than the infinite cost.
Others == Ends(graph) \ {Src, Dst}

\* There are fewer nodes besides the source than the cost that stands for
\* infinity.
LEMMA OthersFinite ==
  ASSUME graph \subseteq Nodes \X Nodes
  PROVE  /\ Others \subseteq Nodes /\ IsFiniteSet(Others)
         /\ Cardinality(Others) \in Nat /\ Cardinality(Others) + 1 < Inf
<1>1. Others \subseteq Nodes \ {Src}
  BY DEF Others, Ends
<1>2. /\ IsFiniteSet(Nodes \ {Src}) /\ Cardinality(Nodes \ {Src}) = Cardinality(Nodes) - 1
      /\ Cardinality(Nodes) \in Nat
  BY InfAssumption, FS_RemoveElement, FS_CardinalityType
<1>3. IsFiniteSet(Others) /\ Cardinality(Others) <= Cardinality(Nodes \ {Src})
  BY <1>1, <1>2, FS_Subset
<1>4. Cardinality(Others) \in Nat
  BY <1>3, FS_CardinalityType
<1> QED
  BY <1>1, <1>2, <1>3, <1>4, InfAssumption

\* What it means to be a route.
LEMMA RouteOver ==
  ASSUME graph \subseteq Nodes \X Nodes, NEW r
  PROVE  r \in RoutesOver(graph, Src, Dst) <=>
           /\ r \in Seq(Others) /\ Len(r) <= Cardinality(Others)
           /\ PathLinks(Path(Src, r, Dst)) \subseteq graph
<1>1. Cardinality(Others) \in Nat
  BY OthersFinite
<1>2. r \in SeqsUpTo(Others, Cardinality(Others)) <=>
        r \in Seq(Others) /\ Len(r) <= Cardinality(Others)
  BY <1>1 DEF SeqsUpTo
<1> QED
  BY <1>2 DEF RoutesOver, Others, Ends

\* The cost of a node is no larger than its distance on any route from the
\* source: NoShorterLink from link to link, in which an infinite cost cannot
\* hide since no route is that long.
LEMMA CostIsLowerBound ==
  ASSUME IInv, Walk, phase \in {"lookup", "walk", "done"},
         NEW o \in RoutesOver(graph, Src, Dst)
  PROVE  cost[Dst] <= Len(o) + 1 /\ cost[Dst] # Inf /\ Len(o) \in Nat
<1>1. /\ graph \subseteq Nodes \X Nodes /\ cached \subseteq Nodes
      /\ \A v \in Nodes : cost[v] \in Nat
      /\ \A l \in graph : l[1] \in cached /\ l[2] \in cached
      /\ \A v \in Nodes : cost[v] # Inf => v \in cached
      /\ \A u \in cached, v \in Nodes : cost[u] # Inf /\ <<u, v>> \in graph => cost[v] <= cost[u] + 1
  BY DEF IInv, Costs, Ordered, Certificate, NoShorterLink, SettledNodes
<1>2. /\ o \in Seq(Others) /\ Len(o) <= Cardinality(Others)
      /\ PathLinks(Path(Src, o, Dst)) \subseteq graph
  BY <1>1, RouteOver
<1>3. /\ Others \subseteq Nodes /\ Cardinality(Others) \in Nat /\ Cardinality(Others) + 1 < Inf
  BY <1>1, OthersFinite
<1>4. o \in Seq(Nodes) /\ Len(o) \in Nat /\ Len(o) + 1 < Inf
  BY <1>2, <1>3
<1> DEFINE p == Path(Src, o, Dst)
<1>5. p \in Seq(Nodes) /\ Len(p) = Len(o) + 2 /\ p[1] = Src /\ p[Len(o) + 2] = Dst
  <2>1. o \in Seq(Nodes)
    BY <1>4
  <2> QED
    BY <2>1, PathElements
<1>6. \A i \in 1..(Len(p) - 1) : <<p[i], p[i + 1]>> \in graph
  BY <1>2, <1>5, PathOverLinks
<1> HIDE DEF p
<1>7. cost[Src] = 0
  <2>1. <<p[1], p[1 + 1]>> \in graph
    BY <1>4, <1>5, <1>6
  <2>2. <<p[1], p[1 + 1]>>[1] \in cached
    BY <2>1, <1>1
  <2> QED
    BY <2>2, <1>5 DEF Walk
<1> DEFINE Wrong == {i \in 1..Len(p) : ~(cost[p[i]] <= i - 1)}
<1>8. Wrong = {}
  <2> SUFFICES ASSUME Wrong # {} PROVE FALSE
    OBVIOUS
  <2>1. Wrong \subseteq Nat
    BY <1>4, <1>5
  <2>2. PICK m \in Wrong : \A k \in Wrong : m <= k
    <3> HIDE DEF Wrong
    <3> QED
      BY <2>1, LeastElement
  <2>3. m \in 1..Len(p) /\ ~(cost[p[m]] <= m - 1)
    OBVIOUS
  <2>4. m # 1
    BY <2>3, <1>5, <1>7
  <2>5. m - 1 \in 1..(Len(p) - 1) /\ (m - 1) + 1 = m /\ m - 1 \notin Wrong
    BY <2>2, <2>3, <2>4, <1>4, <1>5
  <2>6. cost[p[m - 1]] <= m - 2 /\ p[m - 1] \in Nodes /\ p[m] \in Nodes
    BY <2>3, <2>5, <1>5
  <2>7. cost[p[m - 1]] \in Nat /\ cost[p[m - 1]] # Inf
    BY <2>3, <2>5, <2>6, <1>1, <1>4, <1>5
  <2>8. <<p[m - 1], p[m]>> \in graph
    BY <2>5, <1>6
  <2>9. cost[p[m]] <= cost[p[m - 1]] + 1
    BY <2>6, <2>7, <2>8, <1>1
  <2> QED
    BY <2>3, <2>6, <2>7, <2>9, <1>1
<1>9. Len(o) + 2 \notin Wrong /\ Len(o) + 2 \in 1..Len(p)
  BY <1>4, <1>5, <1>8
<1>10. cost[Dst] <= Len(o) + 1
  BY <1>4, <1>5, <1>9
<1> QED
  BY <1>1, <1>4, <1>10

\* When the walk ends at the source, what was filled in is a route: its hops
\* are ends of links, and their costs, all between those of the source and the
\* destination, tell them apart.
LEMMA FilledIsRoute ==
  ASSUME IInv, Walk, Back, n = Src, phase = "walk"
  PROVE  /\ addrs \in RoutesOver(graph, Src, Dst)
         /\ Len(addrs) \in Nat /\ Len(addrs) + 1 = cost[Dst]
<1>1. /\ graph \subseteq Nodes \X Nodes /\ cost[Src] = 0
      /\ addrs \in Seq(Nodes) /\ Len(addrs) \in Nat /\ Len(addrs) + 1 = cost[Dst]
      /\ \A i \in 1..Len(addrs) : cost[addrs[i]] = i
      /\ PathLinks(Path(Src, addrs, Dst)) \subseteq graph
  <2>1. graph \subseteq Nodes \X Nodes /\ cost[Src] = 0
    BY DEF IInv, Costs, Back, Walk
  <2> QED
    BY <2>1 DEF Back
<1> DEFINE p == Path(Src, addrs, Dst)
<1>2. p \in Seq(Nodes) /\ Len(p) = Len(addrs) + 2 /\ \A i \in 1..Len(addrs) : p[i + 1] = addrs[i]
  <2>1. addrs \in Seq(Nodes)
    BY <1>1
  <2> QED
    BY <2>1, PathElements
<1>3. \A i \in 1..(Len(p) - 1) : <<p[i], p[i + 1]>> \in graph
  BY <1>1, <1>2, PathOverLinks
<1> HIDE DEF p
<1>4. ASSUME NEW i \in 1..Len(addrs) PROVE addrs[i] \in Others
  <2>1. <<p[i], p[i + 1]>> \in graph /\ p[i + 1] = addrs[i]
    BY <1>1, <1>2, <1>3
  <2>2. addrs[i] \in Ends(graph)
    BY <2>1 DEF Ends
  <2>3. cost[addrs[i]] = i
    BY <1>1
  <2>4. addrs[i] # Src /\ addrs[i] # Dst
    BY <2>3, <1>1
  <2> QED
    BY <2>2, <2>4 DEF Others
<1>5. addrs \in [1..Len(addrs) -> Others] /\ addrs \in Seq(Others)
  BY <1>1, <1>4
<1>6. IsFiniteSet(Others) /\ Cardinality(Others) \in Nat
  BY <1>1, OthersFinite
<1>7. Len(addrs) <= Cardinality(Others)
  <2>1. IsFiniteSet(1..Len(addrs)) /\ Cardinality(1..Len(addrs)) = Len(addrs)
    <3>1. PICK k \in Int : k = Len(addrs) /\ k >= 0
      BY <1>1
    <3>2. 1 \in Int
      OBVIOUS
    <3>3. IsFiniteSet(1..k) /\ Cardinality(1..k) = IF 1 > k THEN 0 ELSE k - 1 + 1
      BY <3>2, FS_Interval
    <3> QED
      BY <3>1, <3>3
  <2>2. SUFFICES ASSUME Cardinality(Others) < Cardinality(1..Len(addrs)) PROVE FALSE
    BY <2>1, <1>1, <1>6
  <2>3. PICK x \in 1..Len(addrs), y \in 1..Len(addrs) : x # y /\ addrs[x] = addrs[y]
    BY <2>1, <2>2, <1>5, <1>6, FS_PigeonHole
  <2>4. cost[addrs[x]] = x /\ cost[addrs[y]] = y
    BY <1>1
  <2> QED
    BY <2>3, <2>4
<1> QED
  BY <1>1, <1>5, <1>7, RouteOver

\* RouteQuery speaks of the same routes.
LEMMA SameRoutes == Promise!ShortestRoutes(graph, Src, Dst) = ShortestRoutes(graph, Src, Dst)
<1>1. Promise!RoutesOver(graph, Src, Dst) = RoutesOver(graph, Src, Dst)
  <2>1. \A S, m : Promise!SeqsUpTo(S, m) = SeqsUpTo(S, m)
    BY Zenon DEF SeqsUpTo, Promise!SeqsUpTo
  <2>2. \A r : Promise!PathLinks(Promise!Path(Src, r, Dst)) = PathLinks(Path(Src, r, Dst))
    BY Zenon DEF PathLinks, Path, Promise!PathLinks, Promise!Path
  <2>3. \A S : Promise!Cardinality(S) = Cardinality(S)
    BY Zenon DEF Cardinality, Promise!Cardinality
  <2> QED
    BY <2>1, <2>2, <2>3, Zenon DEF RoutesOver, Promise!RoutesOver
<1> QED
  BY <1>1, Zenon DEF ShortestRoutes, Promise!ShortestRoutes

\* The route returned is a shortest one.
LEMMA ReturnAnswers ==
  ASSUME IInv, Walk, Return
  PROVE  Promise!Answer
<1>1. /\ phase = "walk" /\ n = pred[n] /\ Back /\ answer = Pending
      /\ UNCHANGED graph /\ answer' = IF Len(addrs) + 1 # hops[Dst] THEN NoRoute ELSE addrs
  BY DEF Return, Walk
<1>2. n = Src
  <2>1. SUFFICES ASSUME n # Src PROVE FALSE
    OBVIOUS
  <2>2. n \in Nodes /\ cost[n] # Inf
    BY <1>1 DEF Back, IInv, Costs
  <2>3. cost[n] = cost[pred[n]] + 1 /\ cost[n] \in Nat
    BY <1>1, <2>1, <2>2, Predecessor
  <2> QED
    BY <1>1, <2>3
<1>3. addrs \in RoutesOver(graph, Src, Dst) /\ Len(addrs) \in Nat /\ Len(addrs) + 1 = cost[Dst]
  BY <1>1, <1>2, FilledIsRoute
<1>4. hops[Dst] = cost[Dst]
  <2>1. cost[Dst] # Inf
    BY <1>1 DEF Back
  <2> QED
    BY <1>1, <2>1, Predecessor
<1>5. answer' = addrs
  BY <1>1, <1>3, <1>4
<1>6. \A o \in RoutesOver(graph, Src, Dst) : Len(addrs) <= Len(o)
  <2> TAKE o \in RoutesOver(graph, Src, Dst)
  <2>1. cost[Dst] <= Len(o) + 1 /\ Len(o) \in Nat
    BY <1>1, CostIsLowerBound
  <2> QED
    BY <2>1, <1>3
<1>7. addrs \in ShortestRoutes(graph, Src, Dst)
  BY <1>3, <1>6 DEF ShortestRoutes
<1> QED
  BY <1>1, <1>5, <1>7, SameRoutes DEF Promise!Answer

\* The lookup fails only if there is no route: without a predecessor the
\* destination's cost is infinite.
LEMMA LookupAnswers ==
  ASSUME IInv, Walk, LookupDst
  PROVE  [Promise!Answer]_<<graph, answer>>
<1>1. CASE Dst \in cached /\ cost[Dst] # Inf /\ pred[Dst] # NoNode
  BY <1>1 DEF LookupDst
<1>2. CASE ~(Dst \in cached /\ cost[Dst] # Inf /\ pred[Dst] # NoNode)
  <2>1. phase = "lookup" /\ answer = Pending /\ answer' = NoRoute /\ UNCHANGED graph
    BY <1>2 DEF LookupDst, Walk
  <2>2. cost[Dst] = Inf
    <3>1. SUFFICES ASSUME cost[Dst] # Inf PROVE FALSE
      OBVIOUS
    <3>2. Dst \in cached /\ pred[Dst] \in Nodes
      BY <2>1, <3>1, Predecessor DEF IInv, Ordered
    <3> QED
      BY <1>2, <3>1, <3>2
  <2>3. RoutesOver(graph, Src, Dst) = {}
    BY <2>1, <2>2, CostIsLowerBound
  <2>4. ShortestRoutes(graph, Src, Dst) = {}
    BY <2>3 DEF ShortestRoutes
  <2> QED
    BY <2>1, <2>4, SameRoutes DEF Promise!Answer
<1> QED
  BY <1>1, <1>2

\* Every other step of the lookup is a stuttering step of RouteQuery.
LEMMA StepAnswers == IInv /\ Walk /\ [FindNext]_findVars => [Promise!Answer]_<<graph, answer>>
<1> SUFFICES ASSUME IInv, Walk, [FindNext]_findVars PROVE [Promise!Answer]_<<graph, answer>>
  OBVIOUS
<1>1. CASE InitSingleSource
  BY <1>1 DEF InitSingleSource
<1>2. ASSUME NEW u \in Nodes, Settle(u) PROVE UNCHANGED <<graph, answer>>
  BY <1>2 DEF Settle
<1>3. CASE Settled
  BY <1>3 DEF Settled
<1>4. CASE LookupDst
  BY <1>4, LookupAnswers
<1>5. CASE Fill
  BY <1>5 DEF Fill
<1>6. CASE Return
  BY <1>6, ReturnAnswers
<1>7. CASE UNCHANGED findVars
  BY <1>7 DEF findVars
<1> QED
  BY <1>1, <1>2, <1>3, <1>4, <1>5, <1>6, <1>7 DEF FindNext

\* lc_srt_find keeps its promise on every graph: it answers with a shortest
\* route over the cached links, or with NULL exactly when there is none.
THEOREM LookupRefinesRouteQuery == FindSpec => AnswersShortest
<1>1. FindInit => Promise!QInit
  BY DEF FindInit, Promise!QInit
<1> QED
  BY InitIInv, NextIInv, InitWalk, NextWalk, StepAnswers, <1>1, PTL
     DEF FindSpec, AnswersShortest, Promise!QSpec

\* On every graph the walk back stays within the space allocated for the
\* route: srt->addrs[k - i - 1] is never out of bounds.
THEOREM FillStaysInBounds == FindSpec => []FillInBounds
<1>1. IInv /\ Walk => FillInBounds
  <2> SUFFICES ASSUME IInv, Walk, phase \in {"walk", "done"}, n # NoNode
               PROVE  Len(addrs) <= hops[Dst] - 1
    BY DEF FillInBounds
  <2>1. /\ n \in Nodes /\ cost[Dst] # Inf /\ Len(addrs) \in Nat
        /\ Len(addrs) + cost[n] + 1 = cost[Dst] /\ cost[n] \in Nat
    BY DEF Walk, Back, IInv, Costs
  <2>2. hops[Dst] = cost[Dst] /\ cost[Dst] \in Nat
    BY <2>1, Predecessor
  <2> QED
    BY <2>1, <2>2
<1> QED
  BY InitIInv, NextIInv, InitWalk, NextWalk, <1>1, PTL DEF FindSpec
=============================================================================
