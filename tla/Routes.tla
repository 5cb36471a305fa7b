------------------------------- MODULE Routes -------------------------------
(***************************************************************************)
(* What a route lookup promises, independently of how it is computed: over *)
(* a set of directed links, a route is the sequence of the hops between    *)
(* its ends, and the lookup returns one with the fewest hops.              *)
(***************************************************************************)
EXTENDS Integers, Sequences, FiniteSets

\* The addresses of a source route: srt->src, srt->addrs, srt->dst.
Path(s, hops, d) == <<s>> \o hops \o <<d>>

\* Consecutive pairs of a path.
PathLinks(p) == {<<p[i], p[i + 1]>> : i \in 1..(Len(p) - 1)}

\* Sequences of at most n elements of S.
SeqsUpTo(S, n) == UNION {[1..k -> S] : k \in 0..n}

\* The routes from s to d over links; those with more hops than there are
\* other nodes have a loop and are left out.
RoutesOver(links, s, d) ==
  LET others == ({l[1] : l \in links} \cup {l[2] : l \in links}) \ {s, d}
  IN  {r \in SeqsUpTo(others, Cardinality(others)) :
         PathLinks(Path(s, r, d)) \subseteq links}

\* The set a lookup may return an element of; empty where it returns NULL.
ShortestRoutes(links, s, d) ==
  LET all == IF s = d THEN {} ELSE RoutesOver(links, s, d)
  IN  {r \in all : \A o \in all : Len(r) <= Len(o)}
=============================================================================
