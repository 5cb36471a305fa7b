---------------------------- MODULE SourceRoute ----------------------------
(***************************************************************************)
(* The operations of dsr-srt.c on source routes.  A route is the path      *)
(* src, addrs[0], ..., addrs[n - 1], dst as one sequence of addresses, and *)
(* the sleft field of an option is the position of the node the packet is  *)
(* sent to: at = n + 2 - sleft.  And the operations on the route cache,    *)
(* here the set of the links it holds; LinkCache and Dijkstra have its     *)
(* memory and its algorithm.                                               *)
(***************************************************************************)
EXTENDS Routes, SequencesExt

\* dsr_srt_new_rev.
Rev(p) == Reverse(p)

\* dsr_srt_new_split: the path up to the first hop with address a, which
\* becomes its destination; NULL (here the empty path) if a is no hop.
Split(p, a) ==
  LET hits == {i \in 2..(Len(p) - 1) : p[i] = a}
  IN  IF hits = {} THEN <<>>
      ELSE SubSeq(p, 1, Min(hits))

\* dsr_srt_concatenate: the end of the first is the start of the second.
Concatenate(p, q) == p \o Tail(q)

\* dsr_srt_check_duplicate.
HasDuplicate(p) == \E i, j \in 1..Len(p) : i # j /\ p[i] = p[j]

\* dsr_srt_find_addr: a is among the nodes still to be visited.  With no
\* segment left (at is the destination) the code finds nothing.
AheadOf(p, at, a) ==
  at < Len(p) /\ \E i \in at..Len(p) : p[i] = a

\* Mutant: the second node is kept twice.
ShortcutTwice(p, a1, a2) ==
  LET i1 == CHOOSE i \in 1..Len(p) : p[i] = a1
      i2 == CHOOSE i \in 1..Len(p) : p[i] = a2
  IN  SubSeq(p, 1, i1) \o <<a2>> \o SubSeq(p, i2, Len(p))

\* dsr_srt_shortcut for a1 before a2: the hops between them are left out.
\* Of several positions with the address the code keeps the last.
Shortcut(p, a1, a2) ==
  LET i1 == Max({i \in 1..(Len(p) - 1) : p[i] = a1})
      i2 == Max({i \in 2..Len(p) : p[i] = a2})
  IN  SubSeq(p, 1, i1) \o SubSeq(p, i2, Len(p))

----------------------------------------------------------------------------
\* dsr_rtc_add (lc_srt_add) on the links c of a cache.
LearnRoute(c, p, bidir) ==
  c \cup PathLinks(p) \cup (IF bidir THEN PathLinks(Rev(p)) ELSE {})

\* dsr_srt_opt_recv at p[at]: the link back to the previous hop, and the links
\* the packet has travelled.
LearnTravelled(c, p, at, bidir) ==
  LearnRoute(c \cup {<<p[at], p[at - 1]>>},
             IF Last(p) = p[at] THEN p ELSE Split(p, p[at]), bidir)

\* dsr_rtc_find (lc_srt_find): what the lookup may return; see Dijkstra.
Lookup(c, s, d) == {Path(s, r, d) : r \in ShortestRoutes(c, s, d)}

\* lc_link_del: both directions, if there is the one given.
LinkDel(c, u, v) == IF <<u, v>> \in c THEN c \ {<<u, v>>, <<v, u>>} ELSE c
=============================================================================
