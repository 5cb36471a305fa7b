----------------------- MODULE RouteDiscoveryProofs ------------------------
(***************************************************************************)
(* Route discovery in a network of any size and shape, for any packets and *)
(* any number of losses, retransmissions and deleted links: source routes  *)
(* have no loops, a discovery is cancelled only where a route is known, and *)
(* the first hops of cached routes are known neighbours.                   *)
(***************************************************************************)
EXTENDS RouteDiscovery, DataProofs

USE NodeEdges, PktEnds, DiscoveryNums

----------------------------------------------------------------------------
(* The frames in the air. *)

RreqFrame == [kind : {"rreq"}, to : Node, path : Seq(Node), target : Node, id : Nat]
RrepFrame == [kind : {"rrep"}, to : Node, path : Seq(Node), at : Nat, reply : Seq(Node)]
DataFrame == [kind : {"data"}, to : Node, path : Seq(Node), at : Nat, pkt : Pkts]

\* A request has visited every node of its path once, and not its target.
RreqOK(f) ==
  /\ f \in RreqFrame /\ Len(f.path) >= 1 /\ ~HasDuplicate(f.path)
  /\ \A i \in 1..Len(f.path) : f.path[i] # f.target

\* A source routed frame is on its way over a route without loops.
SrtOK(f) == f.at \in 2..Len(f.path) /\ f.to = f.path[f.at] /\ ~HasDuplicate(f.path)

\* The route r begins with the path p read backwards.
Retraces(p, r) ==
  /\ Len(p) <= Len(r)
  /\ \A i \in 1..Len(p) : r[i] = p[Len(p) + 1 - i]

\* A reply goes back the way that its route begins with.
RrepOK(f) ==
  /\ f \in RrepFrame /\ SrtOK(f)
  /\ ReplyRoute(f) \in Seq(Node) /\ ~HasDuplicate(ReplyRoute(f))
  /\ Retraces(f.path, ReplyRoute(f))

DataOK(f) == f \in DataFrame /\ SrtOK(f)

FrameOK(f) == RreqOK(f) \/ RrepOK(f) \/ DataOK(f)

\* The invariant: frames as above, links between nodes, and no node seeks itself.
NetInv ==
  /\ cache \in [Node -> SUBSET (Node \X Node)]
  /\ neigh \in [Node -> SUBSET Node]
  /\ disc \in [Node -> [Node -> Nat \cup {NULL}]]
  /\ seqno \in [Node -> Nat]
  /\ \A n \in Node : disc[n][n] = NULL
  /\ \A f \in net : FrameOK(f)

\* A new request.
LEMMA NewRreqOK ==
  ASSUME NEW m \in Node, NEW n \in Node, NEW t \in Node, n # t, NEW id \in Nat
  PROVE  RreqOK(Rreq(m, <<n>>, t, id))
  BY DEF RreqOK, Rreq, RreqFrame, HasDuplicate

\* A request forwarded by a node that is neither its target nor on its path.
LEMMA ForwardedRreqOK ==
  ASSUME NEW f, RreqOK(f), NEW m \in Node, f.target # f.to, ~RreqVisited(f)
  PROVE  RreqOK(Rreq(m, Append(f.path, f.to), f.target, f.id))
<1>1. /\ f.path \in Seq(Node) /\ f.to \in Node /\ f.target \in Node /\ f.id \in Nat
      /\ ~HasDuplicate(f.path) /\ \A i \in 1..Len(f.path) : f.path[i] # f.to
  BY DEF RreqOK, RreqFrame, RreqVisited
<1>2. PICK p : p = Append(f.path, f.to)
  OBVIOUS
<1>3. /\ p \in Seq(Node) /\ Len(p) = Len(f.path) + 1 /\ ~HasDuplicate(p)
      /\ p[Len(f.path) + 1] = f.to /\ \A i \in 1..Len(f.path) : p[i] = f.path[i]
  BY <1>1, <1>2, AppendSimple
<1>4. Len(p) >= 1 /\ \A i \in 1..Len(p) : p[i] # f.target
  BY <1>1, <1>3 DEF RreqOK
<1>5. RreqOK(Rreq(m, p, f.target, f.id))
  BY <1>1, <1>3, <1>4 DEF RreqOK, RreqFrame, Rreq
<1> QED
  BY <1>2, <1>5

\* A new data frame.
LEMMA NewDataOK ==
  ASSUME NEW r \in Seq(Node), Len(r) >= 2, ~HasDuplicate(r), NEW p \in Pkts
  PROVE  DataOK(Data(r, 2, p))
  BY DEF DataOK, DataFrame, SrtOK, Data

\* The reply with the route r, sent back along its beginning p: the whole of
\* it if the target answers, a part if the rest comes from a cache.
LEMMA NewRrepOK ==
  ASSUME NEW r \in Seq(Node), ~HasDuplicate(r),
         NEW p \in Seq(Node), Len(p) >= 2, Len(p) <= Len(r), \A i \in 1..Len(p) : p[i] = r[i]
  PROVE  /\ RrepOK(Rrep(Rev(p), 2, Tail(r)))
         /\ ReplyRoute(Rrep(Rev(p), 2, Tail(r))) = r
<1>1. PICK b : b = Rev(p)
  OBVIOUS
<1>2. b \in Seq(Node) /\ Len(b) = Len(p) /\ \A i \in 1..Len(p) : b[i] = p[Len(p) + 1 - i]
  BY <1>1, RevElements
<1>3. ~HasDuplicate(p)
  BY DEF HasDuplicate
<1>4. ~HasDuplicate(b)
  BY <1>1, <1>3, RevSimple
<1>5. Tail(r) \in Seq(Node) /\ Len(Tail(r)) = Len(r) - 1 /\ \A i \in 1..(Len(r) - 1) : Tail(r)[i] = r[i + 1]
  OBVIOUS
<1>6. PICK f : f = Rrep(b, 2, Tail(r))
  OBVIOUS
<1>7. f \in RrepFrame /\ f.path = b /\ f.at = 2 /\ f.to = b[2] /\ f.reply = Tail(r)
  BY <1>2, <1>5, <1>6 DEF Rrep, RrepFrame
<1>8. ReplyRoute(f) = r
  <2>1. Last(b) = r[1]
    <3>1. b[Len(p)] = p[Len(p) + 1 - Len(p)] /\ Len(p) + 1 - Len(p) = 1
      BY <1>2
    <3> QED
      BY <1>2, <3>1 DEF Last
  <2>2. <<r[1]>> \o Tail(r) = r
    <3>1. /\ r[1] \in Node /\ <<r[1]>> \in Seq(Node) /\ Len(<<r[1]>>) = 1 /\ <<r[1]>>[1] = r[1]
          /\ Len(r) \in Nat
      OBVIOUS
    <3>2. PICK u : u = <<r[1]>> \o Tail(r)
      OBVIOUS
    <3>3. /\ u \in Seq(Node) /\ Len(u) = Len(r)
          /\ \A i \in 1..Len(r) : u[i] = IF i <= 1 THEN r[1] ELSE Tail(r)[i - 1]
      BY <1>5, <3>1, <3>2, ConcatProperties
    <3>4. \A i \in 1..Len(r) : u[i] = r[i]
      BY <1>5, <3>1, <3>3
    <3>5. u = r
      BY <3>1, <3>3, <3>4
    <3> QED
      BY <3>2, <3>5
  <2> QED
    BY <1>7, <2>1, <2>2 DEF ReplyRoute
<1>9. SrtOK(f) /\ Retraces(f.path, r)
  BY <1>2, <1>4, <1>7 DEF SrtOK, Retraces
<1>10. RrepOK(f)
  BY <1>7, <1>8, <1>9 DEF RrepOK
<1> QED
  BY <1>1, <1>6, <1>8, <1>10

\* A source routed frame forwarded to the next address of its route.
LEMMA ForwardedOK ==
  ASSUME NEW f, RrepOK(f) \/ DataOK(f), f.at < Len(f.path)
  PROVE  RrepOK(Forwarded(f)) \/ DataOK(Forwarded(f))
<1>1. /\ f.at \in Nat /\ f.at + 1 \in 2..Len(f.path) /\ f.path \in Seq(Node)
      /\ f.path[f.at + 1] \in Node
  BY DEF RrepOK, DataOK, SrtOK, RrepFrame, DataFrame
<1>2. CASE RrepOK(f)
  <2>1. /\ Forwarded(f) \in RrepFrame /\ Forwarded(f).path = f.path /\ Forwarded(f).reply = f.reply
        /\ Forwarded(f).at = f.at + 1 /\ Forwarded(f).to = f.path[f.at + 1]
    <3>1. PICK a, t : a = f.at + 1 /\ t = f.path[f.at + 1]
      OBVIOUS
    <3>2. f \in RrepFrame /\ a \in Nat /\ t \in Node
      BY <1>1, <1>2, <3>1 DEF RrepOK
    <3>3. Forwarded(f) = [f EXCEPT !.at = a, !.to = t]
      BY <3>1 DEF Forwarded
    <3> QED
      BY <3>1, <3>2, <3>3 DEF RrepFrame
  <2>2. ReplyRoute(Forwarded(f)) = ReplyRoute(f)
    BY <2>1 DEF ReplyRoute
  <2> QED
    BY <1>1, <1>2, <2>1, <2>2 DEF RrepOK, SrtOK
<1>3. CASE DataOK(f)
  <2>1. /\ Forwarded(f) \in DataFrame /\ Forwarded(f).path = f.path
        /\ Forwarded(f).at = f.at + 1 /\ Forwarded(f).to = f.path[f.at + 1]
    <3>1. PICK a, t : a = f.at + 1 /\ t = f.path[f.at + 1]
      OBVIOUS
    <3>2. f \in DataFrame /\ a \in Nat /\ t \in Node
      BY <1>1, <1>3, <3>1 DEF DataOK
    <3>3. Forwarded(f) = [f EXCEPT !.at = a, !.to = t]
      BY <3>1 DEF Forwarded
    <3> QED
      BY <3>1, <3>2, <3>3 DEF DataFrame
  <2> QED
    BY <1>1, <1>3, <2>1 DEF DataOK, SrtOK
<1> QED
  BY <1>2, <1>3

\* Automatic route shortening: the hops between positions k and m are left out.
LEMMA CutOut ==
  ASSUME NEW p \in Seq(Node), ~HasDuplicate(p), NEW k \in 1..Len(p), NEW m \in (k + 1)..Len(p)
  PROVE  \A cut : cut = Shortcut(p, p[k], p[m]) =>
           /\ cut \in Seq(Node) /\ Len(cut) = k + (Len(p) - m + 1) /\ ~HasDuplicate(cut)
           /\ \A i \in 1..k : cut[i] = p[i]
           /\ cut[k + 1] = p[m]
<1>1. {i \in 1..(Len(p) - 1) : p[i] = p[k]} = {k} /\ {i \in 2..Len(p) : p[i] = p[m]} = {m}
  BY DEF HasDuplicate
<1>2. Max({k}) = k /\ Max({m}) = m
  BY DEF Max
<1>3. PICK u, v, c : u = SubSeq(p, 1, k) /\ v = SubSeq(p, m, Len(p)) /\ c = u \o v
  OBVIOUS
<1>4. Shortcut(p, p[k], p[m]) = c
  BY <1>1, <1>2, <1>3 DEF Shortcut
<1>5. u \in Seq(Node) /\ Len(u) = k /\ \A i \in 1..k : u[i] = p[i]
  BY <1>3
<1>6. /\ v \in Seq(Node) /\ Len(v) = Len(p) - m + 1
      /\ \A i \in 1..(Len(p) - m + 1) : v[i] = p[i + m - 1]
  BY <1>3
<1>7. /\ c \in Seq(Node) /\ Len(c) = k + (Len(p) - m + 1)
      /\ \A i \in 1..Len(c) : c[i] = IF i <= k THEN u[i] ELSE v[i - k]
  BY <1>3, <1>5, <1>6, ConcatProperties
<1>8. \A i \in 1..Len(c) : c[i] = IF i <= k THEN p[i] ELSE p[i - k + m - 1]
  <2> TAKE i \in 1..Len(c)
  <2>1. CASE i <= k
    BY <2>1, <1>5, <1>7
  <2>2. CASE i > k
    <3>1. i - k \in 1..(Len(p) - m + 1)
      BY <2>2, <1>7
    <3> QED
      BY <2>2, <3>1, <1>6, <1>7
  <2> QED
    BY <2>1, <2>2
<1>9. ASSUME NEW i \in 1..Len(c), NEW j \in 1..Len(c), i < j, c[i] = c[j] PROVE FALSE
  <2>1. CASE j <= k
    BY <2>1, <1>8, <1>9 DEF HasDuplicate
  <2>2. CASE i <= k /\ j > k
    <3>1. j - k + m - 1 \in 1..Len(p) /\ j - k + m - 1 > i
      BY <2>2, <1>7
    <3>2. p[i] = p[j - k + m - 1]
      BY <2>2, <1>8, <1>9
    <3> QED
      BY <2>2, <3>1, <3>2 DEF HasDuplicate
  <2>3. CASE i > k
    <3>1. /\ i - k + m - 1 \in 1..Len(p) /\ j - k + m - 1 \in 1..Len(p)
          /\ i - k + m - 1 # j - k + m - 1
      BY <2>3, <1>7, <1>9
    <3>2. p[i - k + m - 1] = p[j - k + m - 1]
      BY <2>3, <1>8, <1>9
    <3> QED
      BY <3>1, <3>2 DEF HasDuplicate
  <2> QED
    BY <2>1, <2>2, <2>3
<1>10. ~HasDuplicate(c)
  <2> SUFFICES ASSUME NEW i \in 1..Len(c), NEW j \in 1..Len(c), i # j, c[i] = c[j] PROVE FALSE
    BY DEF HasDuplicate
  <2> QED
    BY <1>9
<1>11. (\A i \in 1..k : c[i] = p[i]) /\ c[k + 1] = p[m]
  <2>1. k + 1 \in 1..Len(c) /\ (k + 1) - k + m - 1 = m /\ k <= Len(c)
    BY <1>7
  <2> QED
    BY <2>1, <1>7, <1>8
<1> QED
  BY <1>4, <1>7, <1>10, <1>11

----------------------------------------------------------------------------
(* What the handlers send. *)

\* A frame that node n has just sent to a neighbour in nb.
Fresh(f, n, nb) == FrameOK(f) /\ f.kind # "rreq" /\ f.at = 2 /\ f.path[1] = n /\ f.path[2] \in nb

\* The packets that were waiting, on a route of the cache.
LEMMA VerdictSends ==
  ASSUME NEW n \in Node, NEW d \in Node, NEW c \in SUBSET (Node \X Node), NEW nb, NEW rest,
         SendVerdict(n, d, c, nb, rest)
  PROVE  \A f \in net' : f \in rest \/ Fresh(f, n, nb)
<1> SUFFICES ASSUME NEW f \in net', f \notin rest PROVE Fresh(f, n, nb)
  OBVIOUS
<1>1. PICK r \in OrNull(Lookup(c, n, d)), p \in Pkts :
        r # NULL /\ Reaches(n, nb, r[2]) /\ f = Data(r, 2, p)
  BY DEF SendVerdict
<1>2. r \in Lookup(c, n, d)
  BY <1>1 DEF OrNull
<1>3. r \in Seq(Node) /\ Len(r) >= 2 /\ r[1] = n /\ ~HasDuplicate(r)
  BY <1>2, FoundSimple
<1>4. DataOK(f)
  BY <1>1, <1>3, NewDataOK
<1> QED
  BY <1>1, <1>3, <1>4 DEF Fresh, FrameOK, Data, Reaches

\* A reply, back along the beginning p of its route r.
LEMMA ReplySends ==
  ASSUME NEW n, NEW nb, NEW r \in Seq(Node), ~HasDuplicate(r),
         NEW p \in Seq(Node), Len(p) >= 2, Len(p) <= Len(r), \A i \in 1..Len(p) : p[i] = r[i],
         p[Len(p)] = n, NEW f \in RrepSend(n, nb, Rev(p), r)
  PROVE  Fresh(f, n, nb)
<1>1. f = Rrep(Rev(p), 2, Tail(r)) /\ f.to \in nb
  BY DEF RrepSend, Xmit, Reaches
<1>2. RrepOK(f)
  BY <1>1, NewRrepOK
<1>3. f.kind = "rrep" /\ f.at = 2 /\ f.path = Rev(p) /\ f.to = Rev(p)[2]
  BY <1>1 DEF Rrep
<1>4. Rev(p)[1] = n
  <2>1. Rev(p)[1] = p[Len(p) + 1 - 1] /\ Len(p) + 1 - 1 = Len(p)
    BY RevElements
  <2> QED
    BY <2>1
<1> QED
  BY <1>1, <1>2, <1>3, <1>4 DEF Fresh, FrameOK

\* A gratuitous reply to an overheard frame.
LEMMA TapSends ==
  ASSUME NEW f, RrepOK(f) \/ DataOK(f), NEW n \in Node, n # f.to, AheadOf(f.path, f.at, n), NEW nb,
         NEW cut, cut = Shortcut(f.path, f.path[f.at - 1], n),
         NEW back, back = (IF Len(cut) = 2 THEN Rev(cut) ELSE Rev(Split(cut, n))), back # <<>>,
         NEW g \in RrepSend(n, nb, back, cut)
  PROVE  Fresh(g, n, nb)
<1>1. PICK p, k : p = f.path /\ k = f.at - 1
  OBVIOUS
<1>2. /\ p \in Seq(Node) /\ ~HasDuplicate(p) /\ k \in 1..(Len(p) - 1) /\ f.at = k + 1
      /\ f.to = p[k + 1] /\ Len(p) \in Nat
  BY <1>1 DEF RrepOK, DataOK, SrtOK, RrepFrame, DataFrame
<1>3. PICK m \in (k + 1)..Len(p) : p[m] = n
  BY <1>1, <1>2 DEF AheadOf
<1>4. /\ cut \in Seq(Node) /\ Len(cut) = k + (Len(p) - m + 1) /\ ~HasDuplicate(cut)
      /\ \A i \in 1..k : cut[i] = p[i]
      /\ cut[k + 1] = n
  <2>1. k \in 1..Len(p) /\ cut = Shortcut(p, p[k], p[m])
    BY <1>1, <1>2, <1>3
  <2>2. \A c : c = Shortcut(p, p[k], p[m]) =>
           /\ c \in Seq(Node) /\ Len(c) = k + (Len(p) - m + 1) /\ ~HasDuplicate(c)
           /\ \A i \in 1..k : c[i] = p[i]
           /\ c[k + 1] = p[m]
    BY <1>2, <2>1, CutOut, Zenon
  <2> QED
    BY <1>3, <2>1, <2>2, Zenon
<1>5. k + 1 \in 2..Len(cut)
  BY <1>2, <1>3, <1>4
<1>6. PICK q \in Seq(Node) : /\ Len(q) = k + 1 /\ \A i \in 1..(k + 1) : q[i] = cut[i]
                             /\ back = Rev(q)
  <2>1. CASE Len(cut) = 2
    <3>1. k + 1 = 2
      BY <1>5, <2>1
    <3> QED
      BY <1>4, <2>1, <3>1
  <2>2. CASE Len(cut) # 2 /\ k + 1 \in 2..(Len(cut) - 1)
    <3>1. PICK q : q = Split(cut, cut[k + 1])
      OBVIOUS
    <3>2. q \in Seq(Node) /\ Len(q) = k + 1 /\ \A i \in 1..(k + 1) : q[i] = cut[i]
      BY <1>4, <2>2, <3>1, SplitAt
    <3> QED
      BY <1>4, <2>2, <3>1, <3>2
  <2>3. CASE Len(cut) # 2 /\ k + 1 = Len(cut)
    <3>1. \A i \in 2..(Len(cut) - 1) : cut[i] # n
      BY <1>4, <1>5, <2>3 DEF HasDuplicate
    <3>2. Split(cut, n) = <<>>
      BY <1>4, <3>1, SplitElsewhere
    <3> QED
      BY <2>3, <3>2 DEF Rev, Reverse
  <2> QED
    BY <1>4, <1>5, <2>1, <2>2, <2>3
<1>7. q[Len(q)] = n /\ Len(q) >= 2 /\ Len(q) <= Len(cut)
  BY <1>2, <1>4, <1>5, <1>6
<1>8. g \in RrepSend(n, nb, Rev(q), cut) /\ \A i \in 1..Len(q) : q[i] = cut[i]
  BY <1>6
<1> QED
  BY <1>4, <1>7, <1>8, ReplySends

\* A frame forwarded to a neighbour.
LEMMA ForwardSends ==
  ASSUME NEW f, RrepOK(f) \/ DataOK(f), f.at < Len(f.path), NEW g \in SrtForward(f)
  PROVE  /\ RrepOK(g) \/ DataOK(g)
         /\ g.kind = f.kind /\ g.path = f.path /\ g.at = f.at + 1
         /\ f.path[f.at + 1] \in neigh'[f.to]
<1>1. g = Forwarded(f) /\ g.to \in neigh'[f.to]
  BY DEF SrtForward, Xmit, Reaches
<1>2. RrepOK(g) \/ DataOK(g)
  BY <1>1, ForwardedOK
<1>3. /\ g.kind = f.kind /\ g.path = f.path /\ g.at = f.at + 1 /\ g.to = f.path[f.at + 1]
  <2>1. PICK a, t : g = [f EXCEPT !.at = a, !.to = t] /\ a = f.at + 1 /\ t = f.path[f.at + 1]
    BY <1>1 DEF Forwarded
  <2>2. f \in RrepFrame \/ f \in DataFrame
    BY DEF RrepOK, DataOK
  <2> QED
    BY <2>1, <2>2 DEF RrepFrame, DataFrame
<1> QED
  BY <1>1, <1>2, <1>3

----------------------------------------------------------------------------
(* Every step keeps the frames as they should be. *)

\* What it caches are links between nodes.
LEMMA SrtLearntLinks ==
  ASSUME NetInv, NEW f, RrepOK(f) \/ DataOK(f), NEW b
  PROVE  SrtLearnt(f, b) \in SUBSET (Node \X Node)
<1>1. /\ f.path \in Seq(Node) /\ ~HasDuplicate(f.path) /\ f.at \in 2..Len(f.path) /\ f.to \in Node
      /\ f.path[f.at] \in Node /\ f.path[f.at - 1] \in Node
  BY DEF RrepOK, DataOK, SrtOK, RrepFrame, DataFrame
<1>2. PICK c, t : c = cache[f.to] \cup {<<f.path[f.at], f.path[f.at - 1]>>} /\ t = Travelled(f.path, f.at)
  OBVIOUS
<1>3. SrtLearnt(f, b) = LearnRoute(c, t, b)
  BY <1>2 DEF SrtLearnt, LearnTravelled, Travelled
<1>4. c \in SUBSET (Node \X Node)
  BY <1>1, <1>2 DEF NetInv
<1>5. t \in Seq(Node)
  BY <1>1, <1>2, TravelledRoute
<1> QED
  BY <1>3, <1>4, <1>5, LearnedLinks

\* What every step has to show.
LEMMA NetKept ==
  ASSUME NetInv,
         cache' \in [Node -> SUBSET (Node \X Node)], neigh' \in [Node -> SUBSET Node],
         UNCHANGED disc, UNCHANGED seqno, \A f \in net' : f \in net \/ FrameOK(f)
  PROVE  NetInv'
  BY DEF NetInv

\* A request is flooded for another node.
LEMMA RreqSendOK ==
  ASSUME NetInv, NEW n \in Node, NEW t \in Node, n # t, RreqSend(n, t)
  PROVE  /\ seqno' \in [Node -> Nat]
         /\ \A f \in net' : \/ f \in net
                            \/ RreqOK(f) /\ Len(f.path) = 1
<1>1. seqno[n] + 1 \in Nat /\ seqno' = [seqno EXCEPT ![n] = seqno[n] + 1]
  BY DEF NetInv, RreqSend
<1>2. ASSUME NEW f \in net', f \notin net PROVE RreqOK(f) /\ Len(f.path) = 1
  <2>1. PICK m \in Node : f = Rreq(m, <<n>>, t, seqno[n] + 1)
    BY <1>2 DEF RreqSend, Neighbours
  <2> QED
    BY <1>1, <2>1, NewRreqOK DEF Rreq
<1> QED
  BY <1>1, <1>2 DEF NetInv

\* dsr_start_xmit.
LEMMA StartXmitNet ==
  ASSUME NetInv, NEW p \in Pkts, StartXmitRouted(p) \/ StartXmitBuffered(p)
  PROVE  NetInv'
<1>1. SrcOf[p] \in Node /\ DstOf[p] \in Node /\ SrcOf[p] # DstOf[p]
  OBVIOUS
<1>2. CASE StartXmitRouted(p)
  <2>1. PICK r \in Lookup(cache[SrcOf[p]], SrcOf[p], DstOf[p]) :
          net' = net \cup Xmit(SrcOf[p], neigh[SrcOf[p]], Data(r, 2, p))
    BY <1>2 DEF StartXmitRouted
  <2>2. r \in Seq(Node) /\ Len(r) >= 2 /\ ~HasDuplicate(r)
    BY <1>1, FoundSimple DEF NetInv
  <2>3. DataOK(Data(r, 2, p))
    BY <2>2, NewDataOK
  <2>4. \A f \in net' : f \in net \/ FrameOK(f)
    BY <2>1, <2>3 DEF Xmit, FrameOK
  <2> QED
    BY <1>2, <2>4, NetKept DEF StartXmitRouted, NetInv
<1>3. CASE StartXmitBuffered(p)
  <2>1. CASE disc[SrcOf[p]][DstOf[p]] = NULL
    <3>1. /\ disc' = [disc EXCEPT ![SrcOf[p]][DstOf[p]] = 0] /\ RreqSend(SrcOf[p], DstOf[p])
          /\ UNCHANGED <<cache, neigh>>
      BY <1>3, <2>1 DEF StartXmitBuffered
    <3>2. disc' \in [Node -> [Node -> Nat \cup {NULL}]] /\ \A n \in Node : disc'[n][n] = NULL
      BY <1>1, <3>1 DEF NetInv
    <3>3. seqno' \in [Node -> Nat] /\ \A f \in net' : f \in net \/ RreqOK(f)
      BY <1>1, <3>1, RreqSendOK
    <3> QED
      BY <3>1, <3>2, <3>3 DEF NetInv, FrameOK
  <2>2. CASE disc[SrcOf[p]][DstOf[p]] # NULL
    BY <1>3, <2>2, NetKept DEF StartXmitBuffered, NetInv
  <2> QED
    BY <2>1, <2>2
<1> QED
  BY <1>2, <1>3

\* rreq_tbl_timeout.
LEMMA TimeoutNet ==
  ASSUME NetInv, NEW n \in Node, NEW t \in Node, RreqTimeout(n, t)
  PROVE  NetInv'
<1>1. n # t /\ disc[n][t] \in Nat /\ UNCHANGED <<cache, neigh>>
  BY DEF NetInv, RreqTimeout
<1>2. CASE disc[n][t] = MaxRexmt
  <2>1. disc' = [disc EXCEPT ![n][t] = NULL] /\ UNCHANGED <<seqno, net>>
    BY <1>2 DEF RreqTimeout
  <2>2. disc' \in [Node -> [Node -> Nat \cup {NULL}]] /\ \A m \in Node : disc'[m][m] = NULL
    BY <1>1, <2>1 DEF NetInv
  <2> QED
    BY <1>1, <2>1, <2>2 DEF NetInv
<1>3. CASE disc[n][t] # MaxRexmt
  <2>1. disc' = [disc EXCEPT ![n][t] = disc[n][t] + 1] /\ RreqSend(n, t)
    BY <1>3 DEF RreqTimeout
  <2>2. disc' \in [Node -> [Node -> Nat \cup {NULL}]] /\ \A m \in Node : disc'[m][m] = NULL
    BY <1>1, <2>1 DEF NetInv
  <2>3. seqno' \in [Node -> Nat] /\ \A f \in net' : f \in net \/ RreqOK(f)
    BY <1>1, <2>1, RreqSendOK
  <2> QED
    BY <1>1, <2>2, <2>3 DEF NetInv, FrameOK
<1> QED
  BY <1>2, <1>3

\* Every new request is learned from.
LEMMA RreqLearnt ==
  ASSUME NetInv, NEW f, RreqOK(f), RreqLearn(f)
  PROVE  /\ cache' \in [Node -> SUBSET (Node \X Node)] /\ neigh' \in [Node -> SUBSET Node]
         /\ cache'[f.to] \in SUBSET (Node \X Node)
         /\ neigh' = [neigh EXCEPT ![f.to] = neigh[f.to] \cup {Last(f.path)}]
         /\ \E b \in BidirFlags :
              cache' = [cache EXCEPT ![f.to] =
                          LearnRoute(cache[f.to], Rev(Append(f.path, f.to)), b)]
<1>1. f.to \in Node /\ f.path \in Seq(Node) /\ Last(f.path) \in Node
  BY DEF RreqOK, RreqFrame, Last
<1>2. PICK b \in BidirFlags :
        cache' = [cache EXCEPT ![f.to] = LearnRoute(cache[f.to], Rev(Append(f.path, f.to)), b)]
  BY DEF RreqLearn
<1>3. Append(f.path, f.to) \in Seq(Node)
  BY <1>1
<1>4. Rev(Append(f.path, f.to)) \in Seq(Node)
  BY <1>3, RevElements
<1>5. LearnRoute(cache[f.to], Rev(Append(f.path, f.to)), b) \in SUBSET (Node \X Node)
  BY <1>1, <1>4, LearnedLinks DEF NetInv
<1>6. cache' \in [Node -> SUBSET (Node \X Node)] /\ cache'[f.to] \in SUBSET (Node \X Node)
  BY <1>1, <1>2, <1>5 DEF NetInv
<1>7. neigh' = [neigh EXCEPT ![f.to] = neigh[f.to] \cup {Last(f.path)}]
  BY DEF RreqLearn
<1>8. neigh' \in [Node -> SUBSET Node]
  BY <1>1, <1>7 DEF NetInv
<1> QED
  BY <1>2, <1>6, <1>7, <1>8

\* A frame that carries the request f on.
Onward(g, f) == RreqOK(g) /\ g.path = Append(f.path, f.to)

\* What the handler of a request sends: replies, packets that waited for a
\* route to the initiator, or the request itself.
LEMMA RreqSends ==
  ASSUME NetInv, NEW f, RreqOK(f), RreqLearn(f),
         RreqForMe(f) \/ RreqDrop(f) \/ RreqCachedReply(f) \/ RreqForward(f)
  PROVE  \A g \in net' : g \in net \/ Fresh(g, f.to, neigh'[f.to]) \/ Onward(g, f)
<1>1. /\ f.to \in Node /\ f.path \in Seq(Node) /\ f.path[1] \in Node /\ f.target \in Node
      /\ ~HasDuplicate(f.path) /\ Len(f.path) >= 1 /\ cache'[f.to] \in SUBSET (Node \X Node)
  BY RreqLearnt DEF RreqOK, RreqFrame
<1>2. PICK n, nb, p : n = f.to /\ nb = neigh'[f.to] /\ p = Append(f.path, f.to)
  OBVIOUS
<1>3. /\ p \in Seq(Node) /\ Len(p) = Len(f.path) + 1 /\ Len(p) >= 2 /\ p[Len(p)] = n
      /\ \A i \in 1..Len(f.path) : p[i] = f.path[i]
  BY <1>1, <1>2
<1>4. ASSUME NEW out, RreqFinish(f, out), \A g \in out : Fresh(g, n, nb) \/ Onward(g, f)
      PROVE  \A g \in net' : g \in net \/ Fresh(g, f.to, neigh'[f.to]) \/ Onward(g, f)
  <2>1. SendVerdict(f.to, f.path[1], cache'[f.to], neigh'[f.to], (net \ {f}) \cup out)
    BY <1>4 DEF RreqFinish
  <2>2. \A g \in net' : g \in (net \ {f}) \cup out \/ Fresh(g, f.to, neigh'[f.to])
    BY <1>1, <2>1, VerdictSends
  <2> QED
    BY <1>2, <1>4, <2>2
<1>5. CASE RreqForMe(f)
  <2>1. f.target = f.to /\ RreqFinish(f, RrepSend(n, nb, Rev(p), p))
    BY <1>2, <1>5 DEF RreqForMe
  <2>2. \A i \in 1..Len(f.path) : f.path[i] # f.to
    BY <2>1 DEF RreqOK
  <2>3. ~HasDuplicate(p)
    BY <1>1, <1>2, <2>2, AppendSimple
  <2>4. \A g \in RrepSend(n, nb, Rev(p), p) : Fresh(g, n, nb)
    BY <1>3, <2>3, ReplySends
  <2> QED
    BY <1>4, <2>1, <2>4
<1>6. CASE RreqDrop(f)
  BY <1>4, <1>6 DEF RreqDrop
<1>7. CASE RreqCachedReply(f)
  <2>1. PICK r \in Lookup(cache'[f.to], f.to, f.target) :
          /\ ~HasDuplicate(Concatenate(p, r))
          /\ RreqFinish(f, RrepSend(n, nb, Rev(p), Concatenate(p, r)))
    BY <1>2, <1>7 DEF RreqCachedReply
  <2>2. r \in Seq(Node) /\ Len(r) >= 2
    BY <1>1, FoundSimple
  <2>3. PICK t, c : t = Tail(r) /\ c = Concatenate(p, r)
    OBVIOUS
  <2>4. t \in Seq(Node)
    BY <2>2, <2>3
  <2>5. c = p \o t
    BY <2>3 DEF Concatenate
  <2>6. c \in Seq(Node) /\ Len(p) <= Len(c) /\ \A i \in 1..Len(p) : p[i] = c[i]
    BY <1>3, <2>4, <2>5, Continued
  <2>7. ~HasDuplicate(c)
    BY <2>1, <2>3
  <2>8. \A g \in RrepSend(n, nb, Rev(p), c) : Fresh(g, n, nb)
    BY <1>3, <2>6, <2>7, ReplySends
  <2> QED
    BY <1>4, <2>1, <2>3, <2>8
<1>8. CASE RreqForward(f)
  <2>1. /\ f.target # f.to /\ ~RreqVisited(f)
        /\ RreqFinish(f, {Rreq(m, p, f.target, f.id) : m \in Neighbours(f.to)})
    BY <1>2, <1>8 DEF RreqForward
  <2>2. ASSUME NEW m \in Node PROVE Onward(Rreq(m, p, f.target, f.id), f)
    <3>1. RreqOK(Rreq(m, p, f.target, f.id))
      BY <1>2, <2>1, ForwardedRreqOK
    <3> QED
      BY <1>2, <3>1 DEF Onward, Rreq
  <2>3. \A g \in {Rreq(m, p, f.target, f.id) : m \in Neighbours(f.to)} : Onward(g, f)
    BY <2>2 DEF Neighbours
  <2> QED
    BY <1>4, <2>1, <2>3
<1> QED
  BY <1>5, <1>6, <1>7, <1>8

\* dsr_rreq_opt_recv.
LEMMA RreqNet ==
  ASSUME NetInv, NEW f \in net, RreqRecv(f)
  PROVE  NetInv'
<1>1. RreqOK(f)
  BY DEF NetInv, RreqRecv, FrameOK, RrepOK, DataOK, RrepFrame, DataFrame
<1>2. CASE RreqDuplicate(f)
  <2>1. net' \subseteq net /\ UNCHANGED <<cache, neigh, disc, seqno>>
    BY <1>2 DEF RreqDuplicate
  <2> QED
    BY <2>1, NetKept DEF NetInv
<1>3. CASE ~RreqDuplicate(f)
  <2>1. RreqForMe(f) \/ RreqDrop(f) \/ RreqCachedReply(f) \/ RreqForward(f)
    BY <1>3 DEF RreqRecv
  <2>2. RreqLearn(f) /\ UNCHANGED <<disc, seqno>>
    BY <2>1 DEF RreqForMe, RreqDrop, RreqCachedReply, RreqForward, RreqFinish
  <2>3. \A g \in net' : g \in net \/ FrameOK(g)
    BY <1>1, <2>1, <2>2, RreqSends DEF Fresh, Onward, FrameOK
  <2>4. cache' \in [Node -> SUBSET (Node \X Node)] /\ neigh' \in [Node -> SUBSET Node]
    BY <1>1, <2>2, RreqLearnt
  <2> QED
    BY <2>2, <2>3, <2>4, NetKept
<1> QED
  BY <1>2, <1>3

\* The target of a reply is the last node of its route, and a node.
LEMMA ReplyEnds ==
  ASSUME NEW f, RrepOK(f)
  PROVE  /\ f.to \in Node /\ Last(f.reply) \in Node /\ Len(ReplyRoute(f)) >= 2
         /\ ReplyRoute(f)[Len(ReplyRoute(f))] = Last(f.reply)
<1>1. /\ f.reply \in Seq(Node) /\ f.path \in Seq(Node) /\ f.at \in 2..Len(f.path)
      /\ f.to \in Node /\ Last(f.path) \in Node
  BY DEF RrepOK, RrepFrame, SrtOK, Last
<1>2. PICK r, u : r = ReplyRoute(f) /\ u = <<Last(f.path)>>
  OBVIOUS
<1>3. u \in Seq(Node) /\ Len(u) = 1 /\ Len(f.reply) \in Nat /\ r = u \o f.reply
  BY <1>1, <1>2 DEF ReplyRoute
<1>4. /\ Len(r) = 1 + Len(f.reply)
      /\ \A i \in 1..(1 + Len(f.reply)) : r[i] = IF i <= 1 THEN u[i] ELSE f.reply[i - 1]
  <2>1. PICK w : w = f.reply
    OBVIOUS
  <2>2. w \in Seq(Node) /\ u \in Seq(Node)
    BY <1>1, <1>3, <2>1
  <2>3. /\ Len(u \o w) = Len(u) + Len(w)
        /\ \A i \in 1..(Len(u) + Len(w)) : (u \o w)[i] = IF i <= Len(u) THEN u[i] ELSE w[i - Len(u)]
    BY <2>2, ConcatProperties
  <2> QED
    BY <1>3, <2>1, <2>3
<1>5. Len(r) >= 2
  BY <1>1, <1>2, <1>4 DEF RrepOK, Retraces
<1>6. r[Len(r)] = f.reply[Len(f.reply)] /\ f.reply[Len(f.reply)] \in Node
  BY <1>1, <1>3, <1>4, <1>5
<1> QED
  BY <1>1, <1>2, <1>5, <1>6 DEF Last

\* Both options of a reply are learned from.
LEMMA RrepLearnt ==
  ASSUME NetInv, NEW f, RrepOK(f), RrepLearn(f)
  PROVE  /\ cache' \in [Node -> SUBSET (Node \X Node)] /\ neigh' \in [Node -> SUBSET Node]
         /\ cache'[f.to] \in SUBSET (Node \X Node)
         /\ disc' \in [Node -> [Node -> Nat \cup {NULL}]] /\ \A n \in Node : disc'[n][n] = NULL
<1>1. /\ f.to \in Node /\ f.path[f.at - 1] \in Node /\ ReplyRoute(f) \in Seq(Node)
  BY DEF RrepOK, RrepFrame, SrtOK
<1>2. PICK b1 \in BidirFlags, b2 \in BidirFlags :
        cache' = [cache EXCEPT ![f.to] = LearnRoute(SrtLearnt(f, b1), ReplyRoute(f), b2)]
  BY DEF RrepLearn
<1>3. LearnRoute(SrtLearnt(f, b1), ReplyRoute(f), b2) \in SUBSET (Node \X Node)
  BY <1>1, SrtLearntLinks, LearnedLinks
<1>4. cache' \in [Node -> SUBSET (Node \X Node)] /\ cache'[f.to] \in SUBSET (Node \X Node)
  BY <1>1, <1>2, <1>3 DEF NetInv
<1>5. neigh' \in [Node -> SUBSET Node]
  BY <1>1 DEF RrepLearn, SrtNeigh, NetInv
<1>6. disc' \in [Node -> [Node -> Nat \cup {NULL}]] /\ \A n \in Node : disc'[n][n] = NULL
  BY <1>1 DEF RrepLearn, NetInv
<1> QED
  BY <1>4, <1>5, <1>6

\* dsr_rrep_opt_recv.
LEMMA RrepNet ==
  ASSUME NetInv, NEW f \in net, RrepForMe(f) \/ RrepForward(f)
  PROVE  NetInv'
<1>1. RrepOK(f) /\ RrepLearn(f) /\ UNCHANGED seqno
  BY DEF NetInv, RrepForMe, RrepForward, FrameOK, RreqOK, DataOK, RreqFrame, DataFrame
<1>2. /\ cache' \in [Node -> SUBSET (Node \X Node)] /\ neigh' \in [Node -> SUBSET Node]
      /\ cache'[f.to] \in SUBSET (Node \X Node)
      /\ disc' \in [Node -> [Node -> Nat \cup {NULL}]] /\ \A n \in Node : disc'[n][n] = NULL
  BY <1>1, RrepLearnt
<1>3. \A g \in net' : g \in net \/ FrameOK(g)
  <2>1. CASE RrepForMe(f)
    <3>1. f.to \in Node /\ Last(f.reply) \in Node
      BY <1>1, ReplyEnds
    <3>2. SendVerdict(f.to, Last(f.reply), cache'[f.to], neigh'[f.to], net \ {f})
      BY <2>1 DEF RrepForMe
    <3>3. \A g \in net' : g \in net \ {f} \/ Fresh(g, f.to, neigh'[f.to])
      BY <1>2, <3>1, <3>2, VerdictSends
    <3> QED
      BY <3>3 DEF Fresh
  <2>2. CASE RrepForward(f)
    <3>1. f.at < Len(f.path) /\ net' = (net \ {f}) \cup SrtForward(f)
      BY <2>2 DEF RrepForward
    <3>2. \A g \in SrtForward(f) : RrepOK(g) \/ DataOK(g)
      BY <1>1, <3>1, ForwardSends
    <3> QED
      BY <3>1, <3>2 DEF FrameOK
  <2> QED
    BY <2>1, <2>2
<1> QED
  BY <1>1, <1>2, <1>3 DEF NetInv

\* Data for this node or for the next one.
LEMMA DataNet ==
  ASSUME NetInv, NEW f \in net, DataDeliver(f) \/ DataForward(f)
  PROVE  NetInv'
<1>1. DataOK(f) /\ UNCHANGED <<disc, seqno>>
  BY DEF NetInv, DataDeliver, DataForward, FrameOK, RreqOK, RrepOK, RreqFrame, RrepFrame
<1>2. f.to \in Node /\ f.path[f.at - 1] \in Node
  BY <1>1 DEF DataOK, DataFrame, SrtOK
<1>3. PICK b \in BidirFlags : cache' = [cache EXCEPT ![f.to] = SrtLearnt(f, b)]
  BY DEF DataDeliver, DataForward
<1>4. cache' \in [Node -> SUBSET (Node \X Node)]
  BY <1>1, <1>2, <1>3, SrtLearntLinks DEF NetInv
<1>5. neigh' \in [Node -> SUBSET Node]
  BY <1>2 DEF DataDeliver, DataForward, SrtNeigh, NetInv
<1>6. \A g \in net' : g \in net \/ FrameOK(g)
  <2>1. CASE DataDeliver(f)
    BY <2>1 DEF DataDeliver
  <2>2. CASE DataForward(f)
    <3>1. f.at < Len(f.path) /\ net' = (net \ {f}) \cup SrtForward(f)
      BY <2>2 DEF DataForward
    <3>2. \A g \in SrtForward(f) : RrepOK(g) \/ DataOK(g)
      BY <1>1, <3>1, ForwardSends
    <3> QED
      BY <3>1, <3>2 DEF FrameOK
  <2> QED
    BY <2>1, <2>2
<1> QED
  BY <1>1, <1>4, <1>5, <1>6, NetKept

\* The part of its route that a node caches which overhears a frame: all of it,
\* as far as the transmitter, or nothing if that is the source.
Heard(p, at, n) == IF Last(p) = n THEN p ELSE Split(p, p[at - 1])

LEMMA Overheard ==
  ASSUME NEW p \in Seq(Node), ~HasDuplicate(p), NEW at \in 2..Len(p), NEW n
  PROVE  /\ Heard(p, at, n) \in Seq(Node) /\ Len(Heard(p, at, n)) <= Len(p)
         /\ \A i \in 1..Len(Heard(p, at, n)) : Heard(p, at, n)[i] = p[i]
         /\ Last(p) # n => Len(Heard(p, at, n)) <= at - 1
<1>h. PICK t : t = Heard(p, at, n)
  OBVIOUS
<1> SUFFICES /\ t \in Seq(Node) /\ Len(t) <= Len(p) /\ \A i \in 1..Len(t) : t[i] = p[i]
             /\ Last(p) # n => Len(t) <= at - 1
  BY <1>h
<1>t. t = IF Last(p) = n THEN p ELSE Split(p, p[at - 1])
  BY <1>h DEF Heard
<1>1. CASE Last(p) = n
  BY <1>t, <1>1
<1>2. CASE Last(p) # n /\ at = 2
  <2>1. \A k \in 2..(Len(p) - 1) : p[k] # p[1]
    BY DEF HasDuplicate
  <2>2. Split(p, p[1]) = <<>>
    BY <2>1, SplitElsewhere
  <2>3. t = <<>>
    BY <1>t, <1>2, <2>2
  <2>4. <<>> \in Seq(Node) /\ Len(<<>>) = 0 /\ Len(p) \in Nat
    OBVIOUS
  <2>5. t \in Seq(Node) /\ Len(t) = 0
    BY <2>3, <2>4
  <2> QED
    BY <2>4, <2>5
<1>3. CASE Last(p) # n /\ at # 2
  <2>1. PICK k : k = at - 1
    OBVIOUS
  <2>2. k \in 2..(Len(p) - 1) /\ t = Split(p, p[k]) /\ Len(p) \in Nat
    BY <1>t, <1>3, <2>1
  <2>3. PICK u : u = Split(p, p[k])
    OBVIOUS
  <2>4. u \in Seq(Node) /\ Len(u) = k /\ \A i \in 1..k : u[i] = p[i]
    BY <2>2, <2>3, SplitAt
  <2>5. t \in Seq(Node) /\ Len(t) = k /\ \A i \in 1..k : t[i] = p[i]
    BY <2>2, <2>3, <2>4, Zenon
  <2> QED
    BY <2>1, <2>2, <2>5
<1> QED
  BY <1>1, <1>2, <1>3

\* What a node sends that overhears a frame.
LEMMA TapFresh ==
  ASSUME NEW n \in Node, NEW f, RrepOK(f) \/ DataOK(f), Tap(n, f)
  PROVE  \A g \in net' : g \in net \/ Fresh(g, n, neigh'[n])
<1> SUFFICES ASSUME NEW g \in net', g \notin net PROVE Fresh(g, n, neigh'[n])
  OBVIOUS
<1>1. PICK cut, back : /\ cut = Shortcut(f.path, f.path[f.at - 1], n)
                       /\ back = IF Len(cut) = 2 THEN Rev(cut) ELSE Rev(Split(cut, n))
  OBVIOUS
<1>2. /\ n # f.to /\ AheadOf(f.path, f.at, n) /\ back # <<>>
      /\ g \in RrepSend(n, neigh'[n], back, cut)
  BY <1>1 DEF Tap
<1> QED
  BY <1>1, <1>2, TapSends

\* An overheard frame.
LEMMA TapNet ==
  ASSUME NetInv, NEW n \in Node, NEW f \in net, Tap(n, f)
  PROVE  NetInv'
<1>1. RrepOK(f) \/ DataOK(f)
  BY DEF NetInv, Tap, FrameOK, RreqOK, RreqFrame
<1>2. /\ f.path \in Seq(Node) /\ ~HasDuplicate(f.path) /\ f.at \in 2..Len(f.path)
      /\ f.path[f.at - 1] \in Node
  BY <1>1 DEF RrepOK, DataOK, SrtOK, RrepFrame, DataFrame
<1>3. PICK t : t = Heard(f.path, f.at, n)
  OBVIOUS
<1>4. t \in Seq(Node)
  BY <1>2, <1>3, Overheard
<1>5. PICK b \in BidirFlags : cache' = [cache EXCEPT ![n] = LearnRoute(cache[n], t, b)]
  BY <1>3 DEF Tap, Heard
<1>6. LearnRoute(cache[n], t, b) \in SUBSET (Node \X Node)
  BY <1>4, LearnedLinks DEF NetInv
<1>7. cache' \in [Node -> SUBSET (Node \X Node)]
  BY <1>5, <1>6 DEF NetInv
<1>8. neigh' \in [Node -> SUBSET Node] /\ UNCHANGED <<disc, seqno>>
  BY <1>2 DEF Tap, NetInv
<1>9. \A g \in net' : g \in net \/ Fresh(g, n, neigh'[n])
  BY <1>1, TapFresh
<1> QED
  BY <1>7, <1>8, <1>9, NetKept DEF Fresh

\* The first state.
LEMMA InitNet == Init => NetInv
  BY DEF Init, NetInv

\* Every step keeps the invariant.
LEMMA NextNet == NetInv /\ [Next]_vars => NetInv'
<1> SUFFICES ASSUME NetInv, [Next]_vars PROVE NetInv'
  OBVIOUS
<1>1. CASE Send
  BY <1>1, StartXmitNet DEF Send
<1>2. CASE Receive
  BY <1>2, RreqNet, RrepNet, DataNet DEF Receive
<1>3. CASE Timeout
  BY <1>3, TimeoutNet DEF Timeout
<1>4. ASSUME NEW n \in Node, GratRrepTimeout(n) PROVE NetInv'
  BY <1>4, NetKept DEF GratRrepTimeout, NetInv
<1>5. ASSUME NEW n \in Node, NEW f \in net, Tap(n, f) PROVE NetInv'
  BY <1>5, TapNet
<1>6. ASSUME NEW n \in Node, NEW u \in Node, NEW v \in Node, LcLinkDel(n, u, v) PROVE NetInv'
  <2>1. LinkDel(cache[n], u, v) \in SUBSET (Node \X Node)
    BY DEF LinkDel, NetInv
  <2>2. cache' = [cache EXCEPT ![n] = LinkDel(cache[n], u, v)] /\ UNCHANGED <<neigh, disc, seqno, net>>
    BY <1>6 DEF LcLinkDel
  <2> QED
    BY <2>1, <2>2, NetKept DEF NetInv
<1>7. ASSUME NEW f \in net, Lose(f) PROVE NetInv'
  BY <1>7, NetKept DEF Lose, NetInv
<1>8. CASE UNCHANGED vars
  BY <1>8, NetKept DEF vars, NetInv
<1> QED
  BY <1>1, <1>2, <1>3, <1>4, <1>5, <1>6, <1>7, <1>8 DEF Next

\* No address comes twice in a request, in the route of a reply or in the route
\* that a packet follows: in any network, with tables that forget ids, caches
\* that disagree, shortened routes and whatever SRT_BIDIR is.
THEOREM RoutesLoopFree == Spec => []LoopFree
<1>1. NetInv => LoopFree
  BY DEF NetInv, LoopFree, FrameOK, FrameRoute, RreqOK, RrepOK, DataOK, SrtOK, RreqFrame, RrepFrame, DataFrame
<1> QED
  BY <1>1, InitNet, NextNet, PTL DEF Spec

----------------------------------------------------------------------------
(* A discovery is cancelled where a route is known. *)

\* A node that a reply reaches is on its route, which goes on from there to the
\* previous hop of the reply.
LEMMA OnReplyRoute ==
  ASSUME NEW f, RrepOK(f)
  PROVE  \E k \in 1..(Len(ReplyRoute(f)) - 1) :
           ReplyRoute(f)[k] = f.to /\ ReplyRoute(f)[k + 1] = f.path[f.at - 1]
<1>1. PICK p, r, at : p = f.path /\ r = ReplyRoute(f) /\ at = f.at
  OBVIOUS
<1>2. /\ p \in Seq(Node) /\ r \in Seq(Node) /\ at \in 2..Len(p) /\ f.to = p[at]
      /\ Len(p) <= Len(r) /\ \A i \in 1..Len(p) : r[i] = p[Len(p) + 1 - i]
  BY <1>1 DEF RrepOK, RrepFrame, SrtOK, Retraces
<1>3. PICK k : k = Len(p) + 1 - at
  OBVIOUS
<1>4. /\ k \in 1..(Len(r) - 1) /\ k \in 1..Len(p) /\ k + 1 \in 1..Len(p)
      /\ Len(p) + 1 - k = at /\ Len(p) + 1 - (k + 1) = at - 1
  BY <1>2, <1>3
<1>5. r[k] = p[at] /\ r[k + 1] = p[at - 1]
  BY <1>2, <1>4
<1> QED
  BY <1>1, <1>2, <1>4, <1>5

\* With the links of the reply cached, the target is found.
LEMMA ReplyIsFound ==
  ASSUME NEW f, RrepOK(f), f.to # Last(f.reply),
         NEW c \in SUBSET (Node \X Node), PathLinks(ReplyRoute(f)) \subseteq c
  PROVE  Lookup(c, f.to, Last(f.reply)) # {}
<1>1. PICK r, n, t : r = ReplyRoute(f) /\ n = f.to /\ t = Last(f.reply)
  OBVIOUS
<1>2. /\ r \in Seq(Node) /\ Len(r) \in Nat /\ r[Len(r)] = t /\ n # t
      /\ \A i \in 1..(Len(r) - 1) : <<r[i], r[i + 1]>> \in c
  <2>1. r \in Seq(Node) /\ r[Len(r)] = t /\ PathLinks(r) \subseteq c
    BY <1>1, ReplyEnds DEF RrepOK
  <2> QED
    BY <1>1, <2>1, PathOverLinks
<1>3. PICK k \in 1..(Len(r) - 1) : r[k] = n
  BY <1>1, OnReplyRoute
<1> DEFINE m == Len(r) - k + 1
           w == [i \in 1..m |-> r[i + k - 1]]
<1>4. m \in Nat /\ m >= 2 /\ m + k - 1 = Len(r)
  BY <1>2, <1>3
<1> HIDE DEF m
<1>5. w \in Seq(Node) /\ Len(w) = m /\ \A i \in 1..m : w[i] = r[i + k - 1]
  BY <1>2, <1>3, <1>4
<1> HIDE DEF w
<1>6. w[1] = n /\ w[Len(w)] = t
  BY <1>2, <1>3, <1>4, <1>5
<1>7. ASSUME NEW i \in 1..(Len(w) - 1) PROVE <<w[i], w[i + 1]>> \in c
  <2>1. i + k - 1 \in 1..(Len(r) - 1) /\ (i + 1) + k - 1 = (i + k - 1) + 1
    BY <1>3, <1>4, <1>5
  <2>2. w[i] = r[i + k - 1] /\ w[i + 1] = r[(i + k - 1) + 1]
    BY <1>4, <1>5, <2>1
  <2> QED
    BY <1>2, <2>1, <2>2
<1>8. IsWalk(w, Node, c, n, t)
  BY <1>4, <1>5, <1>6, <1>7 DEF IsWalk
<1>9. IsFiniteSet(c)
  BY FS_Product, FS_Subset
<1>10. ShortestRoutes(c, n, t) # {}
  BY <1>2, <1>8, <1>9, WalkIsFound
<1> QED
  BY <1>1, <1>10 DEF Lookup

\* What a step does to a discovery that is going on.
LEMMA CancelStep ==
  ASSUME NetInv, Next, NEW n \in Node, NEW t \in Node,
         disc[n][t] # NULL, disc'[n][t] = NULL, net' # net
  PROVE  Lookup(cache'[n], n, t) # {}
<1>1. UNCHANGED disc => FALSE
  OBVIOUS
<1>2. CASE Send
  <2>1. PICK p \in Pkts : StartXmitBuffered(p)
    BY <1>1, <1>2 DEF Send, StartXmitRouted
  <2>2. disc[SrcOf[p]][DstOf[p]] = NULL /\ disc' = [disc EXCEPT ![SrcOf[p]][DstOf[p]] = 0]
    BY <1>1, <2>1 DEF StartXmitBuffered
  <2> QED
    BY <2>2 DEF NetInv
<1>3. CASE Timeout
  <2>1. PICK m \in Node, u \in Node : RreqTimeout(m, u)
    BY <1>3 DEF Timeout
  <2>2. disc' = [disc EXCEPT ![m][u] = disc[m][u] + 1] /\ disc[m][u] # NULL
    BY <2>1 DEF RreqTimeout
  <2> QED
    BY <2>2, NoDiscovery DEF NetInv
<1>4. CASE Receive
  <2>1. PICK f \in net : RrepForMe(f) \/ RrepForward(f)
    BY <1>1, <1>4 DEF Receive, RreqRecv, RreqDuplicate, RreqForMe, RreqDrop, RreqCachedReply,
                      RreqForward, RreqFinish, DataDeliver, DataForward
  <2>2. RrepOK(f) /\ RrepLearn(f)
    BY <2>1 DEF NetInv, RrepForMe, RrepForward, FrameOK, RreqOK, DataOK, RreqFrame, DataFrame
  <2>3. n = f.to /\ t = Last(f.reply)
    BY <2>2 DEF RrepLearn, NetInv
  <2>4. n # t
    BY DEF NetInv
  <2>5. PathLinks(ReplyRoute(f)) \subseteq cache'[n]
    BY <2>2, <2>3 DEF RrepLearn, LearnRoute, NetInv
  <2>6. cache'[n] \in SUBSET (Node \X Node)
    BY <2>2, <2>3, RrepLearnt
  <2> QED
    BY <2>2, <2>3, <2>4, <2>5, <2>6, ReplyIsFound
<1>5. ~(\E m \in Node : GratRrepTimeout(m) \/ \E f \in net : Tap(m, f))
  BY <1>1 DEF GratRrepTimeout, Tap
<1>6. ~(\E m, u, v \in Node : LcLinkDel(m, u, v)) /\ ~(\E f \in net : Lose(f))
  BY <1>1 DEF LcLinkDel, Lose
<1> QED
  BY <1>2, <1>3, <1>4, <1>5, <1>6 DEF Next

\* A discovery that a reply cancels leaves the node, also one that merely
\* forwards the reply, with a route to the target, in any network.
THEOREM CancelledWithRoute == Spec => CancelKnowsRoute
<1>1. NetInv /\ [Next]_vars =>
        [\A n, t \in Node :
           disc[n][t] # NULL /\ disc'[n][t] = NULL /\ net' # net
             => Lookup(cache'[n], n, t) # {}]_vars
  BY CancelStep
<1> QED
  BY <1>1, InitNet, NextNet, PTL DEF Spec, CancelKnowsRoute

----------------------------------------------------------------------------
(* The first hops of cached routes are known neighbours, or the reverse of a *)
(* cached link that the flags of a route make two links of.                  *)

\* The hops a frame has made were made between neighbours: those of a request
\* are known to the receiver, those of a source routed frame to the sender.
Known(f, nb) ==
  IF f.kind = "rreq" THEN \A i \in 2..Len(f.path) : f.path[i - 1] \in nb[f.path[i]]
  ELSE \A i \in 1..(f.at - 1) : f.path[i + 1] \in nb[f.path[i]]

\* The link is cached with its reverse, as LearnRoute does under SRT_BIDIR.
Backed(l, c) == TRUE \in BidirFlags /\ <<l[2], l[1]>> \in c

HopsInv ==
  /\ NetInv
  /\ \A n \in Node : \A l \in cache[n] :
       l[1] = n => l[2] \in neigh[n] \/ Backed(l, cache[n])
  /\ \A f \in net : Known(f, neigh)

\* A link of a cache' that a step has to account for.
OldHop(l, m) == l \in cache[m] /\ cache[m] \subseteq cache'[m]

\* What every step has to show: it forgets no neighbour, and what is new in the
\* caches and in the air is between neighbours.
LEMMA HopsKept ==
  ASSUME HopsInv, NetInv',
         \A m \in Node : neigh[m] \subseteq neigh'[m],
         \A m \in Node : \A l \in cache'[m] :
           l[1] = m => OldHop(l, m) \/ l[2] \in neigh'[m] \/ Backed(l, cache'[m]),
         \A f \in net' : f \in net \/ Known(f, neigh')
  PROVE  HopsInv'
<1>1. ASSUME NEW n \in Node, NEW l \in cache'[n], l[1] = n
      PROVE  l[2] \in neigh'[n] \/ Backed(l, cache'[n])
  <2>1. CASE OldHop(l, n)
    <3>1. l[2] \in neigh[n] \/ Backed(l, cache[n])
      BY <1>1, <2>1 DEF HopsInv, OldHop
    <3> QED
      BY <2>1, <3>1 DEF OldHop, Backed
  <2> QED
    BY <1>1, <2>1
<1>2. ASSUME NEW f \in net PROVE Known(f, neigh')
  <2>1. FrameOK(f) /\ Known(f, neigh)
    BY DEF HopsInv, NetInv
  <2>2. f.path \in Seq(Node) /\ (f.kind # "rreq" => f.at \in 2..Len(f.path))
    BY <2>1 DEF FrameOK, RreqOK, RrepOK, DataOK, SrtOK, RreqFrame, RrepFrame, DataFrame
  <2>3. CASE f.kind = "rreq"
    BY <2>1, <2>2, <2>3 DEF Known
  <2>4. CASE f.kind # "rreq"
    BY <2>1, <2>2, <2>4 DEF Known
  <2> QED
    BY <2>3, <2>4
<1> QED
  BY <1>1, <1>2 DEF HopsInv

\* A frame just sent to a neighbour.
LEMMA FreshKnown ==
  ASSUME NEW n \in Node, NEW nb, NEW f, Fresh(f, n, nb[n])
  PROVE  Known(f, nb)
  BY DEF Fresh, Known

\* Caching the route t adds its links, and their reverse under SRT_BIDIR.
LEMMA LearnedHops ==
  ASSUME NEW t \in Seq(Node), NEW b \in BidirFlags, NEW c, NEW e, e = LearnRoute(c, t, b)
  PROVE  /\ c \subseteq e
         /\ \A l \in e : \/ l \in c
                         \/ \E i \in 1..(Len(t) - 1) : l = <<t[i], t[i + 1]>>
                         \/ Backed(l, e)
<1>1. c \subseteq e /\ PathLinks(t) \subseteq e
  BY DEF LearnRoute
<1>2. ASSUME NEW l \in e, l \notin c, l \notin PathLinks(t) PROVE Backed(l, e)
  <2>1. PICK s : s = Rev(t)
    OBVIOUS
  <2>2. s \in Seq(Node) /\ Len(s) = Len(t) /\ \A i \in 1..Len(t) : s[i] = t[Len(t) + 1 - i]
    BY <2>1, RevElements
  <2>3. b /\ l \in PathLinks(s)
    BY <1>2, <2>1 DEF LearnRoute
  <2>4. PICK i \in 1..(Len(s) - 1) : l = <<s[i], s[i + 1]>>
    BY <2>3 DEF PathLinks
  <2>5. PICK j : j = Len(t) - i
    OBVIOUS
  <2>6. j \in 1..(Len(t) - 1) /\ s[i] = t[j + 1] /\ s[i + 1] = t[j]
    BY <2>2, <2>4, <2>5
  <2>7. <<l[2], l[1]>> \in PathLinks(t)
    BY <2>4, <2>6 DEF PathLinks
  <2>8. b = TRUE
    BY <2>3, DiscoveryNums
  <2> QED
    BY <1>1, <2>7, <2>8 DEF Backed
<1>3. \A l \in PathLinks(t) : \E i \in 1..(Len(t) - 1) : l = <<t[i], t[i + 1]>>
  BY DEF PathLinks
<1> QED
  BY <1>1, <1>2, <1>3

\* dsr_start_xmit.
LEMMA StartXmitHops ==
  ASSUME HopsInv, NetInv', NEW p \in Pkts, StartXmitRouted(p) \/ StartXmitBuffered(p)
  PROVE  HopsInv'
<1>1. SrcOf[p] \in Node /\ DstOf[p] \in Node /\ SrcOf[p] # DstOf[p] /\ NetInv
  BY DEF HopsInv
<1>2. UNCHANGED <<cache, neigh>>
  BY DEF StartXmitRouted, StartXmitBuffered
<1>3. \A f \in net' : f \in net \/ Known(f, neigh')
  <2>1. CASE StartXmitRouted(p)
    <3>1. PICK n : n = SrcOf[p]
      OBVIOUS
    <3>2. PICK r \in Lookup(cache[n], n, DstOf[p]) : net' = net \cup Xmit(n, neigh[n], Data(r, 2, p))
      BY <2>1, <3>1 DEF StartXmitRouted
    <3>3. r \in Seq(Node) /\ Len(r) >= 2 /\ r[1] = n /\ ~HasDuplicate(r)
      BY <1>1, <3>1, FoundSimple DEF NetInv
    <3>4. DataOK(Data(r, 2, p))
      BY <3>3, NewDataOK
    <3>5. \A f \in Xmit(n, neigh[n], Data(r, 2, p)) : Fresh(f, n, neigh[n])
      BY <3>3, <3>4 DEF Xmit, Reaches, Fresh, FrameOK, Data
    <3> QED
      BY <1>1, <1>2, <3>1, <3>2, <3>5, FreshKnown
  <2>2. CASE StartXmitBuffered(p)
    <3>1. \A f \in net' : f \in net \/ (RreqOK(f) /\ Len(f.path) = 1)
      BY <1>1, <2>2, RreqSendOK DEF StartXmitBuffered
    <3> QED
      BY <3>1 DEF Known, RreqOK, RreqFrame
  <2> QED
    BY <2>1, <2>2
<1> QED
  BY <1>2, <1>3, HopsKept DEF OldHop

\* rreq_tbl_timeout.
LEMMA TimeoutHops ==
  ASSUME HopsInv, NetInv', NEW n \in Node, NEW t \in Node, RreqTimeout(n, t)
  PROVE  HopsInv'
<1>1. NetInv /\ n # t /\ UNCHANGED <<cache, neigh>>
  BY DEF HopsInv, NetInv, RreqTimeout
<1>2. \A f \in net' : f \in net \/ (RreqOK(f) /\ Len(f.path) = 1)
  BY <1>1, RreqSendOK DEF RreqTimeout
<1>3. \A f \in net' : f \in net \/ Known(f, neigh')
  BY <1>2 DEF Known, RreqOK, RreqFrame
<1> QED
  BY <1>1, <1>3, HopsKept DEF OldHop

\* A request: the links that begin at the receiver lead to the last hop, or to
\* the hop before an earlier visit.
LEMMA RreqHops ==
  ASSUME HopsInv, NetInv', NEW f \in net, RreqRecv(f)
  PROVE  HopsInv'
<1>1. NetInv /\ Known(f, neigh)
  BY DEF HopsInv
<1>2. RreqOK(f)
  BY <1>1 DEF NetInv, RreqRecv, FrameOK, RrepOK, DataOK, RrepFrame, DataFrame
<1>3. CASE RreqDuplicate(f)
  BY <1>3, HopsKept DEF RreqDuplicate, OldHop
<1>4. CASE ~RreqDuplicate(f)
  <2>1. RreqForMe(f) \/ RreqDrop(f) \/ RreqCachedReply(f) \/ RreqForward(f)
    BY <1>4 DEF RreqRecv
  <2>2. RreqLearn(f)
    BY <2>1 DEF RreqForMe, RreqDrop, RreqCachedReply, RreqForward
  <2>3. PICK n, p, q : n = f.to /\ p = f.path /\ q = Append(f.path, f.to)
    OBVIOUS
  <2>4. /\ n \in Node /\ p \in Seq(Node) /\ Len(p) >= 1 /\ q \in Seq(Node) /\ Len(q) = Len(p) + 1
        /\ q[Len(p) + 1] = n /\ \A i \in 1..Len(p) : q[i] = p[i]
    BY <1>2, <2>3 DEF RreqOK, RreqFrame
  <2>b. PICK b \in BidirFlags :
          /\ neigh' = [neigh EXCEPT ![n] = neigh[n] \cup {p[Len(p)]}]
          /\ cache' = [cache EXCEPT ![n] = LearnRoute(cache[n], Rev(q), b)]
    BY <1>1, <1>2, <2>2, <2>3, RreqLearnt DEF Last
  <2>6. /\ \A m \in Node : neigh[m] \subseteq neigh'[m]
        /\ neigh'[n] = neigh[n] \cup {p[Len(p)]}
        /\ \A m \in Node \ {n} : cache'[m] = cache[m]
        /\ cache'[n] = LearnRoute(cache[n], Rev(q), b)
    BY <1>1, <2>4, <2>b DEF NetInv
  <2>7. \A i \in 2..Len(p) : p[i - 1] \in neigh[p[i]]
    BY <1>1, <1>2, <2>3 DEF Known, RreqOK, RreqFrame
  <2>8. \A i \in 2..Len(q) : q[i - 1] \in neigh'[q[i]]
    <3> TAKE i \in 2..Len(q)
    <3>1. CASE i = Len(q)
      BY <2>4, <2>6, <3>1
    <3>2. CASE i # Len(q)
      <4>1. i \in 2..Len(p) /\ i - 1 \in 1..Len(p) /\ i \in 1..Len(p)
        BY <2>4, <3>2
      <4>2. q[i - 1] = p[i - 1] /\ q[i] = p[i] /\ p[i] \in Node /\ p[i - 1] \in neigh[p[i]]
        BY <2>4, <2>7, <4>1
      <4> QED
        BY <2>6, <4>2
    <3> QED
      BY <3>1, <3>2
  <2>9. ASSUME NEW l \in cache'[n], l[1] = n
        PROVE  OldHop(l, n) \/ l[2] \in neigh'[n] \/ Backed(l, cache'[n])
    <3>1. PICK s : s = Rev(q)
      OBVIOUS
    <3>2. s \in Seq(Node) /\ Len(s) = Len(q) /\ \A i \in 1..Len(q) : s[i] = q[Len(q) + 1 - i]
      BY <2>4, <3>1, RevElements
    <3>3. OldHop(l, n) \/ (\E i \in 1..(Len(s) - 1) : l = <<s[i], s[i + 1]>>) \/ Backed(l, cache'[n])
      <4>1. cache'[n] = LearnRoute(cache[n], s, b)
        BY <2>6, <3>1
      <4> QED
        BY <2>9, <3>2, <4>1, LearnedHops DEF OldHop
    <3>4. ASSUME NEW i \in 1..(Len(s) - 1), l = <<s[i], s[i + 1]>> PROVE l[2] \in neigh'[n]
      <4>1. PICK j : j = Len(q) + 1 - i
        OBVIOUS
      <4>2. j \in 2..Len(q) /\ Len(q) + 1 - (i + 1) = j - 1 /\ i \in 1..Len(q) /\ i + 1 \in 1..Len(q)
        BY <2>4, <3>2, <4>1
      <4>3. s[i] = q[j] /\ s[i + 1] = q[j - 1]
        BY <3>2, <4>1, <4>2
      <4> QED
        BY <2>8, <2>9, <3>4, <4>2, <4>3
    <3> QED
      BY <3>3, <3>4
  <2>10. \A m \in Node : \A l \in cache'[m] :
           l[1] = m => OldHop(l, m) \/ l[2] \in neigh'[m] \/ Backed(l, cache'[m])
    BY <2>6, <2>9 DEF OldHop
  <2>11. ASSUME NEW g \in net', g \notin net PROVE Known(g, neigh')
    <3>1. Fresh(g, n, neigh'[n]) \/ Onward(g, f)
      BY <1>1, <1>2, <2>1, <2>2, <2>3, <2>11, RreqSends
    <3>2. CASE Fresh(g, n, neigh'[n])
      BY <2>4, <3>2, FreshKnown
    <3>3. CASE Onward(g, f)
      <4>1. g.kind = "rreq" /\ g.path = q
        BY <2>3, <3>3 DEF Onward, RreqOK, RreqFrame
      <4> QED
        BY <2>8, <4>1 DEF Known
    <3> QED
      BY <3>1, <3>2, <3>3
  <2> QED
    BY <2>6, <2>10, <2>11, HopsKept
<1> QED
  BY <1>3, <1>4

\* The links that begin at the receiver of a source routed frame lead to the
\* previous hop.
LEMMA SrtHops ==
  ASSUME NEW f, RrepOK(f) \/ DataOK(f), NEW b \in BidirFlags, NEW e, e = SrtLearnt(f, b)
  PROVE  /\ cache[f.to] \subseteq e
         /\ \A l \in e : l[1] = f.to =>
              l \in cache[f.to] \/ l[2] = f.path[f.at - 1] \/ Backed(l, e)
<1>1. PICK p, at, t, c : /\ p = f.path /\ at = f.at /\ t = Travelled(p, at)
                         /\ c = cache[f.to] \cup {<<p[at], p[at - 1]>>}
  OBVIOUS
<1>2. p \in Seq(Node) /\ ~HasDuplicate(p) /\ at \in 2..Len(p) /\ f.to = p[at] /\ Len(p) \in Nat
  BY <1>1 DEF RrepOK, DataOK, SrtOK, RrepFrame, DataFrame
<1>3. t \in Seq(Node) /\ Len(t) = at /\ \A i \in 1..at : t[i] = p[i]
  BY <1>1, <1>2, TravelledRoute
<1>4. e = LearnRoute(c, t, b)
  BY <1>1 DEF SrtLearnt, LearnTravelled, Travelled
<1>5. /\ c \subseteq e
      /\ \A l \in e : \/ l \in c
                      \/ \E i \in 1..(Len(t) - 1) : l = <<t[i], t[i + 1]>>
                      \/ Backed(l, e)
  BY <1>3, <1>4, LearnedHops
<1>6. ASSUME NEW l \in e, l[1] = f.to, NEW i \in 1..(Len(t) - 1), l = <<t[i], t[i + 1]>>
      PROVE  FALSE
  <2>1. i \in 1..Len(p) /\ at \in 1..Len(p) /\ i # at /\ i \in 1..at
    BY <1>2, <1>3
  <2>2. p[i] = p[at]
    BY <1>2, <1>3, <1>6, <2>1
  <2> QED
    BY <2>1, <2>2, <1>2 DEF HasDuplicate
<1>7. \A l \in c : l \in cache[f.to] \/ l[2] = f.path[f.at - 1]
  BY <1>1
<1> QED
  BY <1>1, <1>5, <1>6, <1>7

\* What the receiver of a source routed frame has to show besides.
LEMMA SrtKept ==
  ASSUME HopsInv, NetInv', NEW f \in net, RrepOK(f) \/ DataOK(f), SrtNeigh(f),
         NEW c, cache' = [cache EXCEPT ![f.to] = c],
         cache[f.to] \subseteq c,
         \A l \in c : l[1] = f.to => l \in cache[f.to] \/ l[2] = f.path[f.at - 1] \/ Backed(l, c),
         \A g \in net' : g \in net \/ Fresh(g, f.to, neigh'[f.to]) \/ (f.at < Len(f.path) /\ g \in SrtForward(f))
  PROVE  HopsInv'
<1>1. PICK n, p, at : n = f.to /\ p = f.path /\ at = f.at
  OBVIOUS
<1>2. /\ n \in Node /\ p \in Seq(Node) /\ at \in 2..Len(p) /\ n = p[at] /\ Len(p) \in Nat
      /\ NetInv /\ Known(f, neigh) /\ f.kind # "rreq"
  BY <1>1 DEF HopsInv, RrepOK, DataOK, SrtOK, RrepFrame, DataFrame
<1>3. neigh' = [neigh EXCEPT ![n] = neigh[n] \cup {p[at - 1]}]
  BY <1>1 DEF SrtNeigh
<1>4. /\ \A m \in Node : neigh[m] \subseteq neigh'[m]
      /\ p[at - 1] \in neigh'[n]
      /\ \A m \in Node \ {n} : cache'[m] = cache[m]
      /\ cache'[n] = c
  <2>1. neigh \in [Node -> SUBSET Node] /\ cache \in [Node -> SUBSET (Node \X Node)]
    BY <1>2 DEF NetInv
  <2>2. cache' = [cache EXCEPT ![n] = c]
    BY <1>1
  <2> QED
    BY <1>2, <1>3, <2>1, <2>2
<1>5. \A m \in Node : \A l \in cache'[m] :
        l[1] = m => OldHop(l, m) \/ l[2] \in neigh'[m] \/ Backed(l, cache'[m])
  <2> SUFFICES ASSUME NEW m \in Node, NEW l \in cache'[m], l[1] = m
               PROVE  OldHop(l, m) \/ l[2] \in neigh'[m] \/ Backed(l, cache'[m])
    OBVIOUS
  <2>1. CASE m = n
    <3>1. l \in cache[n] \/ l[2] = p[at - 1] \/ Backed(l, c)
      BY <1>1, <1>4, <2>1
    <3> QED
      BY <1>1, <1>4, <2>1, <3>1 DEF OldHop
  <2>2. CASE m # n
    BY <1>4, <2>2 DEF OldHop
  <2> QED
    BY <2>1, <2>2
<1>6. ASSUME NEW g \in net', g \notin net PROVE Known(g, neigh')
  <2>1. CASE Fresh(g, f.to, neigh'[f.to])
    BY <1>1, <1>2, <2>1, FreshKnown
  <2>2. CASE f.at < Len(f.path) /\ g \in SrtForward(f)
    <3>1. /\ g.kind = f.kind /\ g.path = p /\ g.at = at + 1
          /\ p[at + 1] \in neigh'[n]
      BY <1>1, <2>2, ForwardSends
    <3>2. \A i \in 1..(at - 1) : p[i + 1] \in neigh[p[i]] /\ p[i] \in Node
      BY <1>1, <1>2 DEF Known
    <3>3. ASSUME NEW i \in 1..at PROVE p[i + 1] \in neigh'[p[i]]
      <4>1. CASE i = at
        BY <1>2, <3>1, <4>1
      <4>2. CASE i # at
        <5>1. i \in 1..(at - 1)
          BY <1>2, <4>2
        <5> QED
          BY <1>4, <3>2, <5>1
      <4> QED
        BY <4>1, <4>2
    <3> QED
      BY <1>2, <3>1, <3>3 DEF Known
  <2> QED
    BY <1>6, <2>1, <2>2
<1> QED
  BY <1>4, <1>5, <1>6, HopsKept

\* Data.
LEMMA DataHops ==
  ASSUME HopsInv, NetInv', NEW f \in net, DataDeliver(f) \/ DataForward(f)
  PROVE  HopsInv'
<1>1. DataOK(f) /\ SrtNeigh(f)
  BY DEF HopsInv, NetInv, DataDeliver, DataForward, FrameOK, RreqOK, RrepOK, RreqFrame, RrepFrame
<1>b. PICK b \in BidirFlags : cache' = [cache EXCEPT ![f.to] = SrtLearnt(f, b)]
  BY DEF DataDeliver, DataForward
<1>2. PICK c : c = SrtLearnt(f, b)
  OBVIOUS
<1>3. /\ cache' = [cache EXCEPT ![f.to] = c] /\ cache[f.to] \subseteq c
      /\ \A l \in c : l[1] = f.to => l \in cache[f.to] \/ l[2] = f.path[f.at - 1] \/ Backed(l, c)
  BY <1>1, <1>b, <1>2, SrtHops
<1>4. \A g \in net' : g \in net \/ (f.at < Len(f.path) /\ g \in SrtForward(f))
  BY DEF DataDeliver, DataForward
<1> QED
  BY <1>1, <1>3, <1>4, SrtKept

\* A reply: its route goes on from the receiver to the previous hop.
LEMMA RrepHops ==
  ASSUME HopsInv, NetInv', NEW f \in net, RrepForMe(f) \/ RrepForward(f)
  PROVE  HopsInv'
<1>1. NetInv /\ RrepOK(f) /\ RrepLearn(f) /\ SrtNeigh(f)
  BY DEF HopsInv, NetInv, RrepForMe, RrepForward, RrepLearn, FrameOK, RreqOK, DataOK, RreqFrame, DataFrame
<1>b. PICK b1 \in BidirFlags, b2 \in BidirFlags :
        cache' = [cache EXCEPT ![f.to] = LearnRoute(SrtLearnt(f, b1), ReplyRoute(f), b2)]
  BY <1>1 DEF RrepLearn
<1>2. PICK e, c, r : e = SrtLearnt(f, b1) /\ c = LearnRoute(e, r, b2) /\ r = ReplyRoute(f)
  OBVIOUS
<1>3. cache' = [cache EXCEPT ![f.to] = c]
  BY <1>b, <1>2
<1>4. r \in Seq(Node) /\ ~HasDuplicate(r)
  BY <1>1, <1>2 DEF RrepOK
<1>5. PICK k \in 1..(Len(r) - 1) : r[k] = f.to /\ r[k + 1] = f.path[f.at - 1]
  BY <1>1, <1>2, OnReplyRoute
<1>e. /\ cache[f.to] \subseteq e
      /\ \A l \in e : l[1] = f.to => l \in cache[f.to] \/ l[2] = f.path[f.at - 1] \/ Backed(l, e)
  BY <1>1, <1>2, SrtHops
<1>c. /\ e \subseteq c
      /\ \A l \in c : \/ l \in e
                      \/ \E i \in 1..(Len(r) - 1) : l = <<r[i], r[i + 1]>>
                      \/ Backed(l, c)
  BY <1>2, <1>4, LearnedHops
<1>6. ASSUME NEW l \in c, l[1] = f.to
      PROVE  l \in cache[f.to] \/ l[2] = f.path[f.at - 1] \/ Backed(l, c)
  <2>1. CASE l \in e
    BY <1>6, <1>e, <1>c, <2>1 DEF Backed
  <2>2. ASSUME NEW i \in 1..(Len(r) - 1), l = <<r[i], r[i + 1]>> PROVE l[2] = f.path[f.at - 1]
    <3>1. i = k
      BY <1>4, <1>5, <1>6, <2>2 DEF HasDuplicate
    <3> QED
      BY <1>5, <2>2, <3>1
  <2> QED
    BY <1>6, <1>c, <2>1, <2>2
<1>7. \A g \in net' : \/ g \in net \/ Fresh(g, f.to, neigh'[f.to])
                      \/ (f.at < Len(f.path) /\ g \in SrtForward(f))
  <2>1. CASE RrepForMe(f)
    <3>1. f.to \in Node /\ Last(f.reply) \in Node /\ cache'[f.to] \in SUBSET (Node \X Node)
      BY <1>1, ReplyEnds, RrepLearnt
    <3>2. SendVerdict(f.to, Last(f.reply), cache'[f.to], neigh'[f.to], net \ {f})
      BY <2>1 DEF RrepForMe
    <3>3. \A g \in net' : g \in net \ {f} \/ Fresh(g, f.to, neigh'[f.to])
      BY <3>1, <3>2, VerdictSends
    <3> QED
      BY <3>3
  <2>2. CASE RrepForward(f)
    BY <2>2 DEF RrepForward
  <2> QED
    BY <2>1, <2>2
<1> QED
  BY <1>1, <1>3, <1>e, <1>c, <1>6, <1>7, SrtKept

\* An overheard frame: at its destination no link of the route begins, and
\* elsewhere the frame has made the hops that are cached.
LEMMA TapHops ==
  ASSUME HopsInv, NetInv', NEW n \in Node, NEW f \in net, Tap(n, f)
  PROVE  HopsInv'
<1>1. NetInv /\ Known(f, neigh) /\ (RrepOK(f) \/ DataOK(f))
  BY DEF HopsInv, NetInv, Tap, FrameOK, RreqOK, RreqFrame
<1>2. PICK p, at, prv, t : /\ p = f.path /\ at = f.at /\ prv = p[at - 1]
                           /\ t = Heard(p, at, n)
  OBVIOUS
<1>3. /\ p \in Seq(Node) /\ ~HasDuplicate(p) /\ at \in 2..Len(p) /\ Len(p) \in Nat
      /\ \A i \in 1..(at - 1) : p[i + 1] \in neigh[p[i]]
  BY <1>1, <1>2 DEF RrepOK, DataOK, SrtOK, RrepFrame, DataFrame, Known
<1>4. /\ t \in Seq(Node) /\ Len(t) \in Nat /\ Len(t) <= Len(p) /\ \A i \in 1..Len(t) : t[i] = p[i]
      /\ Last(p) # n => Len(t) <= at - 1
  BY <1>2, <1>3, Overheard
<1>5. PICK b \in BidirFlags : /\ cache' = [cache EXCEPT ![n] = LearnRoute(cache[n], t, b)]
                              /\ neigh' = [neigh EXCEPT ![n] = neigh[n] \cup {prv}]
  BY <1>1, <1>2 DEF Tap, Heard
<1>6. /\ \A m \in Node : neigh[m] \subseteq neigh'[m]
      /\ \A m \in Node \ {n} : cache'[m] = cache[m]
      /\ cache'[n] = LearnRoute(cache[n], t, b)
  BY <1>1, <1>5 DEF NetInv
<1>7. ASSUME NEW l \in cache'[n], l[1] = n
      PROVE  OldHop(l, n) \/ l[2] \in neigh'[n] \/ Backed(l, cache'[n])
  <2>1. OldHop(l, n) \/ (\E i \in 1..(Len(t) - 1) : l = <<t[i], t[i + 1]>>) \/ Backed(l, cache'[n])
    BY <1>4, <1>6, <1>7, LearnedHops DEF OldHop
  <2>2. ASSUME NEW i \in 1..(Len(t) - 1), l = <<t[i], t[i + 1]>> PROVE l[2] \in neigh'[n]
    <3>1. i \in 1..Len(t) /\ i + 1 \in 1..Len(t) /\ i \in 1..(Len(p) - 1)
      BY <1>3, <1>4
    <3>2. p[i] = n /\ l[2] = p[i + 1]
      BY <1>4, <1>7, <2>2, <3>1
    <3>3. Last(p) # n
      BY <1>3, <3>1, <3>2 DEF Last, HasDuplicate
    <3>4. p[i + 1] \in neigh[n]
      BY <1>3, <1>4, <3>1, <3>2, <3>3
    <3> QED
      BY <1>6, <3>2, <3>4
  <2> QED
    BY <2>1, <2>2
<1>8. \A m \in Node : \A l \in cache'[m] :
        l[1] = m => OldHop(l, m) \/ l[2] \in neigh'[m] \/ Backed(l, cache'[m])
  BY <1>6, <1>7 DEF OldHop
<1>9. \A g \in net' : g \in net \/ Known(g, neigh')
  BY <1>1, TapFresh, FreshKnown
<1> QED
  BY <1>6, <1>8, <1>9, HopsKept

\* The first state.
LEMMA InitHops == Init => HopsInv
<1>1. Init => net = {} /\ \A n \in Node : cache[n] = {}
  BY DEF Init
<1> QED
  BY <1>1, InitNet DEF HopsInv

\* Every step.
LEMMA NextHops == HopsInv /\ [Next]_vars => HopsInv'
<1> SUFFICES ASSUME HopsInv, [Next]_vars PROVE HopsInv'
  OBVIOUS
<1>n. NetInv /\ NetInv'
  BY NextNet DEF HopsInv
<1>1. CASE Send
  BY <1>n, <1>1, StartXmitHops DEF Send
<1>2. CASE Receive
  BY <1>n, <1>2, RreqHops, RrepHops, DataHops DEF Receive
<1>3. CASE Timeout
  BY <1>n, <1>3, TimeoutHops DEF Timeout
<1>4. ASSUME NEW n \in Node, GratRrepTimeout(n) PROVE HopsInv'
  BY <1>n, <1>4, HopsKept DEF GratRrepTimeout, OldHop
<1>5. ASSUME NEW n \in Node, NEW f \in net, Tap(n, f) PROVE HopsInv'
  BY <1>n, <1>5, TapHops
<1>6. ASSUME NEW n \in Node, NEW u \in Node, NEW v \in Node, LcLinkDel(n, u, v) PROVE HopsInv'
  <2>1. cache' = [cache EXCEPT ![n] = cache[n] \ {<<u, v>>, <<v, u>>}] /\ UNCHANGED <<neigh, net>>
    BY <1>6 DEF LcLinkDel, LinkDel
  <2>2. /\ \A m \in Node \ {n} : cache'[m] = cache[m]
        /\ cache'[n] = cache[n] \ {<<u, v>>, <<v, u>>}
    BY <1>n, <2>1 DEF NetInv
  <2>3. ASSUME NEW l \in cache'[n], l[1] = n
        PROVE  l[2] \in neigh'[n] \/ Backed(l, cache'[n])
    <3>1. l \in Node \X Node /\ l \in cache[n] /\ l # <<u, v>> /\ l # <<v, u>>
      BY <1>n, <2>2, <2>3 DEF NetInv
    <3>2. l = <<l[1], l[2]>>
      BY <3>1
    <3>3. <<l[2], l[1]>> # <<u, v>> /\ <<l[2], l[1]>> # <<v, u>>
      BY <3>1, <3>2
    <3>4. l[2] \in neigh[n] \/ Backed(l, cache[n])
      BY <2>3, <3>1 DEF HopsInv
    <3> QED
      BY <2>1, <2>2, <3>3, <3>4 DEF Backed
  <2>4. \A m \in Node : \A l \in cache'[m] :
          l[1] = m => OldHop(l, m) \/ l[2] \in neigh'[m] \/ Backed(l, cache'[m])
    BY <2>2, <2>3 DEF OldHop
  <2> QED
    BY <1>n, <2>1, <2>4, HopsKept
<1>7. ASSUME NEW f \in net, Lose(f) PROVE HopsInv'
  BY <1>n, <1>7, HopsKept DEF Lose, OldHop
<1>8. CASE UNCHANGED vars
  BY <1>n, <1>8, HopsKept DEF vars, OldHop
<1> QED
  BY <1>1, <1>2, <1>3, <1>4, <1>5, <1>6, <1>7, <1>8 DEF Next

\* A node knows the hardware address of every first hop that its cache offers,
\* or the hop is the reverse of a cached link that an uninitialised srt->flags
\* happened to call bidirectional.
THEOREM FirstHopsKnown == Spec => []UnknownHopIsReverse
<1>1. HopsInv => UnknownHopIsReverse
  BY DEF HopsInv, UnknownHopIsReverse, Backed
<1> QED
  BY <1>1, InitHops, NextHops, PTL DEF Spec

=============================================================================
