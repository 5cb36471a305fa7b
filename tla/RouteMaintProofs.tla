-------------------------- MODULE RouteMaintProofs --------------------------
(***************************************************************************)
(* What is proved about RouteMaint, for any network, any packets and any   *)
(* number of breaks: no frame travels a route with a loop, and no working  *)
(* link is taken for broken.                                               *)
(***************************************************************************)
EXTENDS RouteMaint, DataProofs

----------------------------------------------------------------------------
(* The invariant. *)

Reqs == Nat \cup {NULL}

\* The options a packet is kept with.  An own packet of n has no route; any
\* other came over a route without loops of which n is a hop in the middle.
Opts == [path : Seq(Node), salv : Nat, pkt : Pkts, req : Reqs]
CameTo(n, path) == ~HasDuplicate(path) /\ \E k \in 2..(Len(path) - 1) : path[k] = n
OptsAt(n) == {o \in Opts : o.path = <<>> \/ CameTo(n, o.path)}

MaintEntries(n) == [opt : OptsAt(n), hop : Node, id : Nat, ack : BOOLEAN, rexmt : Nat]
Bufs(n) == [buf : Seq(MaintEntries(n)), next : [Node -> Nat], recent : SUBSET Node]

\* Where a frame with a source route is on it.
OnRoute(f) ==
  /\ f.at \in 2..Len(f.path) /\ ~HasDuplicate(f.path)
  /\ f.from = f.path[f.at - 1] /\ f.to = f.path[f.at]
DataFrames ==
  {f \in [kind : {"data"}, from : Node, to : Node, path : Seq(Node), at : Nat,
          salv : Nat, pkt : Pkts, req : Reqs] : OnRoute(f)}
RerrFrames ==
  {f \in [kind : {"rerr"}, from : Node, to : Node, path : Seq(Node), at : Nat,
          unr : Node] : OnRoute(f)}
AckFrames == [kind : {"ack", "ackreq"}, from : Node, to : Node, id : Nat]
Frames == DataFrames \cup RerrFrames \cup AckFrames

CacheInv == cache \in [Node -> SUBSET (Node \X Node)]
BufInv == DOMAIN mb = Node /\ \A n \in Node : mb[n] \in Bufs(n)
AirInv == net \subseteq Frames
MaintInv == CacheInv /\ BufInv /\ AirInv

\* Acknowledgements go back over the link the packet came by.
Symmetric == \A u, v \in Node : <<u, v>> \in Edges => <<v, u>> \in Edges

\* The exchange the entry e of n waits for is under way: the packet or a
\* request with its id, or the answer.
Carries(f, n, e) ==
  \/ f.kind = "data" /\ f.from = n /\ f.to = e.hop /\ f.req = e.id
  \/ f.kind = "ackreq" /\ f.from = n /\ f.to = e.hop /\ f.id = e.id
  \/ f.kind = "ack" /\ f.from = e.hop /\ f.to = n /\ f.id = e.id
UnderWay(n, e) == \E f \in net : Carries(f, n, e)

\* Over a working link every request but the last, and without an exchange
\* under way the last too, was lost.
Unanswered(n, e) ==
  e.ack /\ <<n, e.hop>> \in radio =>
    losses >= e.rexmt \/ (losses + 1 >= e.rexmt /\ UnderWay(n, e))

RadioInv ==
  /\ radio \subseteq Node \X Node /\ \A u, v \in Node : <<u, v>> \in radio => <<v, u>> \in radio
  /\ losses \in 0..MaxLosses
AskedInv == \A n \in Node : \A e \in Range(mb[n].buf) : Unanswered(n, e)
ErrorInv ==
  \A f \in net : f.kind = "rerr" =>
    <<f.path[1], f.unr>> \notin radio /\ <<f.unr, f.path[1]>> \notin radio
LossInv == RadioInv /\ AskedInv /\ ErrorInv

----------------------------------------------------------------------------
(* The loops. *)

\* Walking the list leaves entries of it that are in A.
LEMMA KeptElements ==
  ASSUME NEW S, NEW s \in Seq(S), NEW A
  PROVE  Kept(s, A) \in Seq(S) /\ Range(Kept(s, A)) \subseteq Range(s) \cap A
<1> DEFINE m == Len(s)
           X == Seq(Range(s) \cap A)
           Body(g, i) == IF i = 0 THEN <<>>
                         ELSE IF s[i] \in A THEN Append(g[i - 1], s[i]) ELSE g[i - 1]
           run == CHOOSE g : g = [i \in 0..Len(s) |-> Body(g, i)]
<1>1. m \in Nat /\ <<>> \in X /\ \A i \in 1..m : s[i] \in A => s[i] \in Range(s) \cap A
  BY DEF Range
<1>2. \E g : g = [i \in 0..Len(s) |-> Body(g, i)]
  <2> DEFINE step == [i \in 1..m |-> [x \in X |-> IF s[i] \in A THEN Append(x, s[i]) ELSE x]]
  <2>1. ASSUME NEW i \in 1..m, NEW x \in X
        PROVE  (IF s[i] \in A THEN Append(x, s[i]) ELSE x) \in X
    BY <1>1
  <2>2. IsLoop(step, m, X)
    <3> HIDE DEF X, m
    <3> QED
      BY <1>1, <2>1 DEF IsLoop
  <2>3. PICK g : IsRun(g, step, m, X, <<>>)
    <3> HIDE DEF X, step, m
    <3> QED
      BY <1>1, <2>2, RunExists
  <2>4. ASSUME NEW i \in 1..m PROVE g[i] = Body(g, i)
    <3>1. g[i - 1] \in X /\ i # 0
      <4> HIDE DEF X
      <4> QED
        BY <1>1, <2>3 DEF IsRun
    <3> HIDE DEF X
    <3> QED
      BY <2>3, <3>1 DEF IsRun
  <2>5. g = [i \in 0..m |-> Body(g, i)]
    <3> HIDE DEF X, Body
    <3>1. g[0] = Body(g, 0)
      BY <2>3 DEF Body, IsRun
    <3> QED
      BY <1>1, <2>3, <2>4, <3>1 DEF IsRun
  <2> QED
    BY <2>5
<1>3. run = [i \in 0..m |-> Body(run, i)]
  BY <1>2, Zenon
<1>4. Kept(s, A) = run[m]
  BY Zenon DEF Kept
<1>5. run[0] \in X
  <2>1. run[0] = Body(run, 0)
    <3> HIDE DEF Body, run
    <3> QED
      BY <1>1, <1>3
  <2> QED
    BY <2>1, <1>1
<1>6. ASSUME NEW i \in 1..m, run[i - 1] \in X PROVE run[i] \in X
  <2>1. run[i] = Body(run, i)
    <3> HIDE DEF Body, run
    <3> QED
      BY <1>1, <1>3
  <2> HIDE DEF run
  <2> QED
    BY <2>1, <1>1, <1>6
<1>7. run[m] \in X
  <2> HIDE DEF X, run, m
  <2> QED
    BY <1>1, <1>5, <1>6, RunInside
<1>8. Range(s) \cap A \subseteq S
  BY DEF Range
<1> QED
  <2>1. ASSUME NEW q \in X PROVE q \in Seq(S) /\ Range(q) \subseteq Range(s) \cap A
    BY <1>8 DEF Range
  <2> QED
    BY <1>4, <1>7, <2>1

\* What every salvaged packet keeps holds when all have been salvaged.
LEMMA SalvageAllInside ==
  ASSUME NEW n, NEW X, NEW st \in X, NEW S, NEW same \in Seq(S), NEW alt,
         \A i \in 1..Len(same) : \A x \in X :
           Salvage(n, x, same[i], alt[DstOf[same[i].opt.pkt]]) \in X
  PROVE  SalvageAll(n, st, same, alt) \in X
<1> DEFINE m == Len(same)
           Round(i, x) == Salvage(n, x, same[i], alt[DstOf[same[i].opt.pkt]])
           Body(g, i) == IF i = 0 THEN st ELSE Round(i, g[i - 1])
           run == CHOOSE g : g = [i \in 0..Len(same) |-> Body(g, i)]
<1>1. m \in Nat /\ \A i \in 1..m : \A x \in X : Round(i, x) \in X
  OBVIOUS
<1>2. \E g : g = [i \in 0..Len(same) |-> Body(g, i)]
  <2> DEFINE step == [i \in 1..m |-> [x \in X |-> Round(i, x)]]
  <2> HIDE DEF m, Round
  <2>1. IsLoop(step, m, X)
    BY <1>1 DEF IsLoop
  <2>2. PICK g : IsRun(g, step, m, X, st)
    <3> HIDE DEF step
    <3> QED
      BY <1>1, <2>1, RunExists
  <2>3. ASSUME NEW i \in 1..m PROVE g[i] = Body(g, i)
    <3>1. g[i - 1] \in X /\ i # 0
      BY <1>1, <2>2 DEF IsRun
    <3> QED
      BY <2>2, <3>1 DEF IsRun
  <2>4. g = [i \in 0..m |-> Body(g, i)]
    <3>1. g[0] = Body(g, 0)
      BY <2>2 DEF IsRun
    <3> HIDE DEF Body
    <3> QED
      BY <1>1, <2>2, <2>3, <3>1 DEF IsRun
  <2> QED
    BY <2>4 DEF m
<1>3. run = [i \in 0..m |-> Body(run, i)]
  BY <1>2, Zenon
<1>4. SalvageAll(n, st, same, alt) = run[m]
  BY Zenon DEF SalvageAll
<1>5. run[0] \in X
  <2>1. run[0] = Body(run, 0)
    <3> HIDE DEF Body, run
    <3> QED
      BY <1>1, <1>3
  <2> QED
    BY <2>1
<1>6. ASSUME NEW i \in 1..m, run[i - 1] \in X PROVE run[i] \in X
  <2>1. run[i] = Body(run, i)
    <3> HIDE DEF Body, run
    <3> QED
      BY <1>1, <1>3
  <2> HIDE DEF run, Round
  <2> QED
    BY <2>1, <1>1, <1>6
<1>7. run[m] \in X
  <2> HIDE DEF run, m
  <2> QED
    BY <1>1, <1>5, <1>6, RunInside
<1> QED
  BY <1>4, <1>7

----------------------------------------------------------------------------
(* Sending. *)

\* A handler of n under way: its part of mb and the frames it has sent.  Its
\* entries are those of B, and new ones nobody has waited for; its Route Errors
\* are those of E.
Handling(n, B, E) ==
  {st \in [b : Bufs(n), out : SUBSET Frames] :
     /\ \A e \in Range(st.b.buf) : e \in B \/ e.rexmt = 0
     /\ \A f \in st.out : f.kind = "rerr" => f \in E}

\* Sending a packet appends one entry and sends one data frame.
LEMMA SendDataKeeps ==
  ASSUME NEW n \in Node, NEW B, NEW E, NEW st \in Handling(n, B, E),
         NEW opt \in OptsAt(n), NEW f \in DataFrames, NEW placed \in BOOLEAN
  PROVE  SendData(st, opt, f, placed) \in Handling(n, B, E)
<1> DEFINE ask == f.to \notin st.b.recent
           id  == st.b.next[f.to]
           e   == EntryOf(opt, f.to, id, ask)
           buf == Append(st.b.buf, e)
           next == IF ask THEN [st.b.next EXCEPT ![f.to] = @ + 1] ELSE st.b.next
           recent == IF ask THEN st.b.recent \cup {f.to} ELSE st.b.recent
           g == IF ask /\ placed THEN WithAckReq(f, id) ELSE f
<1>1. st.b \in Bufs(n) /\ st.out \in SUBSET Frames
  BY DEF Handling
<1>2. /\ st.b.buf \in Seq(MaintEntries(n)) /\ st.b.next \in [Node -> Nat]
      /\ st.b.recent \in SUBSET Node
  BY <1>1 DEF Bufs
<1>3. f.to \in Node /\ id \in Nat /\ ask \in BOOLEAN
  BY <1>2 DEF DataFrames
<1>4. e \in MaintEntries(n) /\ e.rexmt = 0
  BY <1>3 DEF EntryOf, MaintEntries
<1>5. buf \in Seq(MaintEntries(n)) /\ \A x \in Range(buf) : x \in Range(st.b.buf) \/ x = e
  <2> HIDE DEF e
  <2> QED
    BY <1>2, <1>4 DEF Range
<1>6. next \in [Node -> Nat] /\ recent \in SUBSET Node
  <2> HIDE DEF ask
  <2> QED
    BY <1>2, <1>3
<1>7. g \in DataFrames /\ g.kind = "data"
  BY <1>3 DEF DataFrames, WithAckReq, OnRoute, Reqs
<1>8. SendData(st, opt, f, placed) =
        [b |-> [buf |-> buf, next |-> next, recent |-> recent], out |-> st.out \cup {g}]
  BY DEF SendData
<1>9. [buf |-> buf, next |-> next, recent |-> recent] \in Bufs(n)
  <2> HIDE DEF buf, next, recent
  <2> QED
    BY <1>5, <1>6 DEF Bufs
<1>10. st.out \cup {g} \in SUBSET Frames
  BY <1>1, <1>7 DEF Frames
<1>11. /\ \A x \in Range(buf) : x \in B \/ x.rexmt = 0
       /\ \A x \in st.out \cup {g} : x.kind = "rerr" => x \in E
  <2> HIDE DEF buf, e, g
  <2> QED
    BY <1>4, <1>5, <1>7 DEF Handling
<1> HIDE DEF buf, next, recent, g
<1> QED
  BY <1>8, <1>9, <1>10, <1>11 DEF Handling

\* The hold-off time changes nothing but who was asked lately.
LEMMA LaterKeeps ==
  ASSUME BufInv, NEW n \in Node, NEW H, NEW b \in Later(n, H), NEW out \in SUBSET Frames,
         NEW E, \A f \in out : f.kind = "rerr" => f \in E
  PROVE  /\ b \in Bufs(n) /\ b.buf = mb[n].buf
         /\ [b |-> b, out |-> out] \in Handling(n, Range(mb[n].buf), E)
<1>1. mb[n] \in Bufs(n)
  BY DEF BufInv
<1>2. PICK gone \in SUBSET (H \cap mb[n].recent) : b = [mb[n] EXCEPT !.recent = @ \ gone]
  BY DEF Later
<1>3. b \in Bufs(n) /\ b.buf = mb[n].buf
  BY <1>1, <1>2 DEF Bufs
<1> QED
  BY <1>3 DEF Handling

\* A found route makes a frame to its first hop.
LEMMA FirstFrame ==
  ASSUME NEW c \in SUBSET (Node \X Node), NEW n \in Node, NEW d \in Node, NEW r \in Lookup(c, n, d)
  PROVE  /\ r \in Seq(Node) /\ Len(r) >= 2 /\ r[1] = n /\ r[2] \in Node /\ ~HasDuplicate(r)
         /\ \A p \in Pkts : DataFrame(r, 2, 0, p, NULL) \in DataFrames
         /\ \A u \in Node : RerrFrame(r, 2, u) \in RerrFrames
<1>1. IsFiniteSet(Node)
  BY MaintEnds
<1>2. n # d /\ r \in Seq(Node) /\ Len(r) >= 2 /\ r[1] = n /\ ~HasDuplicate(r)
  BY <1>1, FoundSimple
<1>3. Len(r) \in Nat /\ r[2] \in Node /\ 2 \in 2..Len(r) /\ 2 - 1 = 1
  BY <1>2
<1>4. ASSUME NEW p \in Pkts PROVE DataFrame(r, 2, 0, p, NULL) \in DataFrames
  BY <1>2, <1>3 DEF DataFrame, DataFrames, OnRoute, Reqs
<1>5. ASSUME NEW u \in Node PROVE RerrFrame(r, 2, u) \in RerrFrames
  BY <1>2, <1>3 DEF RerrFrame, RerrFrames, OnRoute
<1> QED
  BY <1>2, <1>3, <1>4, <1>5

\* Salvaging a packet: the route it continues on has no loop, and leads on from
\* this node.
LEMMA SalvageKeeps ==
  ASSUME NEW n \in Node, NEW B, NEW E, NEW st \in Handling(n, B, E),
         NEW c \in SUBSET (Node \X Node), NEW d \in Node, NEW e \in MaintEntries(n),
         NEW alt, alt = NULL \/ alt \in Lookup(c, n, d)
  PROVE  Salvage(n, st, e, alt) \in Handling(n, B, E)
<1> DEFINE new == SalvageRoute(n, e, alt)
           way == Split(e.opt.path, n)
           f == DataFrame(new, Len(way) + 1, e.opt.salv + 1, e.opt.pkt, e.opt.req)
<1>1. CASE new = <<>>
  BY <1>1 DEF Salvage
<1>2. CASE new # <<>>
  <2>1. /\ alt # NULL /\ e.opt.path # <<>>
        /\ new = Concatenate(way, alt) /\ ~HasDuplicate(new)
    BY <1>2 DEF SalvageRoute
  <2>2. alt \in Seq(Node) /\ Len(alt) >= 2
    BY <2>1, FirstFrame
  <2>3. e.opt \in Opts /\ CameTo(n, e.opt.path)
    BY <2>1 DEF MaintEntries, OptsAt
  <2>4. /\ e.opt.path \in Seq(Node) /\ e.opt.salv \in Nat /\ e.opt.pkt \in Pkts
        /\ e.opt.req \in Reqs
    BY <2>3 DEF Opts
  <2>5. PICK k \in 2..(Len(e.opt.path) - 1) : e.opt.path[k] = n
    BY <2>3 DEF CameTo
  <2>6. /\ way \in Seq(Node) /\ Len(way) = k
        /\ \A i \in 1..k : way[i] = e.opt.path[i]
    BY <2>3, <2>4, <2>5, SplitAt DEF CameTo
  <2>7. Tail(alt) \in Seq(Node) /\ Len(Tail(alt)) = Len(alt) - 1
    BY <2>2
  <2>8. new \in Seq(Node) /\ Len(new) = k + Len(alt) - 1 /\ new[k] = n
    <3>1. new = way \o Tail(alt)
      <4> HIDE DEF way, new
      <4> QED
        BY <2>1 DEF Concatenate
    <3>2. k \in 1..Len(way) /\ way[k] = n
      BY <2>5, <2>6
    <3> HIDE DEF way, new
    <3>3. PICK w \in Seq(Node), t \in Seq(Node) : w = way /\ t = Tail(alt)
      BY <2>6, <2>7
    <3>4. /\ w \o t \in Seq(Node) /\ Len(w \o t) = Len(w) + Len(t)
          /\ \A i \in 1..Len(w) : w[i] = (w \o t)[i]
      BY Continued, ConcatProperties
    <3> QED
      BY <2>2, <2>6, <2>7, <3>1, <3>2, <3>3, <3>4
  <2>9. k \in Nat /\ k + 1 \in 2..Len(new) /\ k + 1 - 1 = k
    <3> HIDE DEF new
    <3> QED
      BY <2>2, <2>4, <2>5, <2>8
  <2>10. f \in DataFrames
    <3> HIDE DEF new, way
    <3>1. new[k] \in Node /\ new[k + 1] \in Node
      BY <2>8, <2>9
    <3> QED
      BY <2>1, <2>4, <2>6, <2>8, <2>9, <3>1 DEF DataFrame, DataFrames, OnRoute
  <2>11. e.opt \in OptsAt(n)
    BY DEF MaintEntries
  <2>12. PICK placed \in BOOLEAN : placed = (e.opt.req = NULL \/ Len(new) = Len(e.opt.path))
    OBVIOUS
  <2>13. Salvage(n, st, e, alt) = SendData(st, e.opt, f, placed)
    BY <1>2, <2>12 DEF Salvage
  <2> HIDE DEF f
  <2> QED
    BY <2>10, <2>11, <2>13, SendDataKeeps
<1> QED
  BY <1>1, <1>2

\* When a handler ends, every buffer and every frame is well formed again.
LEMMA FinishKeeps ==
  ASSUME BufInv, AirInv, NEW n \in Node, NEW B, NEW E, NEW st \in Handling(n, B, E),
         NEW rest \in SUBSET net, Finish(n, st, rest)
  PROVE  /\ BufInv' /\ AirInv' /\ rest \subseteq net'
         /\ mb'[n] = st.b /\ \A m \in Node \ {n} : mb'[m] = mb[m]
         /\ net' = rest \cup OnAir(st.out)
         /\ \A f \in net' : f.kind = "rerr" => f \in rest \cup E
<1>1. st.b \in Bufs(n) /\ st.out \subseteq Frames /\ \A f \in st.out : f.kind = "rerr" => f \in E
  BY DEF Handling
<1>2. mb' = [mb EXCEPT ![n] = st.b] /\ net' = rest \cup OnAir(st.out)
  BY DEF Finish
<1>3. OnAir(st.out) \subseteq st.out
  BY DEF OnAir
<1>4. BufInv' /\ mb'[n] = st.b /\ \A m \in Node \ {n} : mb'[m] = mb[m]
  BY <1>1, <1>2 DEF BufInv
<1> QED
  BY <1>1, <1>2, <1>3, <1>4 DEF AirInv

----------------------------------------------------------------------------
(* The steps keep the invariant.  Most of them leave only entries that were *)
(* there or are new, and no new Route Error.                                *)

OldOrFresh ==
  \A m \in Node : \A e \in Range(mb'[m].buf) : e \in Range(mb[m].buf) \/ e.rexmt = 0
OldErrors == \A f \in net' : f.kind = "rerr" => f \in net

\* The end of a handler that counts no timeout and reports no broken link.
LEMMA FinishOld ==
  ASSUME BufInv, AirInv, NEW n \in Node, NEW st \in Handling(n, Range(mb[n].buf), {}),
         NEW rest \in SUBSET net, Finish(n, st, rest)
  PROVE  BufInv' /\ AirInv' /\ OldOrFresh /\ OldErrors /\ net' = rest \cup OnAir(st.out)
<1>1. /\ BufInv' /\ AirInv' /\ net' = rest \cup OnAir(st.out)
      /\ mb'[n] = st.b /\ \A m \in Node \ {n} : mb'[m] = mb[m]
      /\ \A f \in net' : f.kind = "rerr" => f \in rest \cup {}
  BY FinishKeeps
<1>2. \A e \in Range(st.b.buf) : e \in Range(mb[n].buf) \/ e.rexmt = 0
  BY DEF Handling
<1> QED
  BY <1>1, <1>2 DEF OldOrFresh, OldErrors

\* The empty buffers, the filled caches and the quiet air.
LEMMA MaintInit == Init => MaintInv
<1> SUFFICES ASSUME Init PROVE MaintInv
  OBVIOUS
<1>1. CacheInv
  BY MaintEnds DEF Init, CacheInv
<1>2. ASSUME NEW n \in Node PROVE mb[n] \in Bufs(n)
  <2>1. <<>> \in Seq(MaintEntries(n)) /\ FirstId[n] \in Nat
    BY MaintBounds
  <2>2. mb[n] = [buf |-> <<>>, next |-> [m \in Node |-> FirstId[n]],
                 recent |-> {m \in Node : <<n, m>> \in Edges}]
    BY DEF Init
  <2> QED
    BY <2>1, <2>2 DEF Bufs
<1> QED
  BY <1>1, <1>2 DEF MaintInv, BufInv, AirInv, Init

\* The kinds of frames.
LEMMA FrameKinds ==
  ASSUME AirInv, NEW f \in net
  PROVE  /\ f.kind = "data" => f \in DataFrames
         /\ f.kind = "rerr" => f \in RerrFrames
         /\ f.kind \in {"ack", "ackreq"} => f \in AckFrames
  BY DEF AirInv, Frames, DataFrames, RerrFrames, AckFrames

\* A node caches links between nodes.
LEMMA LearnKeeps ==
  ASSUME NEW c \in SUBSET (Node \X Node), NEW f, f.path \in Seq(Node), OnRoute(f), NEW b
  PROVE  LearnTravelled(c, f.path, f.at, b) \in SUBSET (Node \X Node)
<1>1. PICK p \in Seq(Node), at \in 2..Len(f.path) : p = f.path /\ at = f.at /\ ~HasDuplicate(p)
  BY DEF OnRoute
<1>2. p[at] \in Node /\ p[at - 1] \in Node
  BY <1>1
<1>3. PICK t \in Seq(Node) : t = Travelled(p, at)
  BY <1>1, TravelledRoute
<1>4. PICK k : k = c \cup {<<p[at], p[at - 1]>>}
  OBVIOUS
<1>5. k \in SUBSET (Node \X Node)
  BY <1>2, <1>4
<1>6. LearnRoute(k, t, b) \in SUBSET (Node \X Node)
  BY <1>5, LearnedLinks
<1> QED
  BY <1>1, <1>3, <1>4, <1>6 DEF LearnTravelled, Travelled

\* Deleting a link adds none.
LEMMA LinkDelKeeps ==
  ASSUME NEW c \in SUBSET (Node \X Node), NEW u, NEW v
  PROVE  LinkDel(c, u, v) \in SUBSET (Node \X Node)
  BY DEF LinkDel

\* An own packet is sent over a route from the cache.
LEMMA StartXmitKeeps ==
  ASSUME MaintInv, NEW p \in Pkts, StartXmit(p)
  PROVE  MaintInv' /\ OldOrFresh /\ OldErrors /\ net \subseteq net'
<1> DEFINE n == SrcOf[p]
<1>1. n \in Node /\ DstOf[p] \in Node /\ cache[n] \in SUBSET (Node \X Node)
  BY MaintEnds DEF MaintInv, CacheInv
<1>2. PICK r \in Lookup(cache[n], n, DstOf[p]) : \E b \in Later(n, {r[2]}) :
           Finish(n, SendData([b |-> b, out |-> {}], NoOptions(p),
                              DataFrame(r, 2, 0, p, NULL), TRUE), net)
  BY DEF StartXmit
<1>3. PICK b \in Later(n, {r[2]}) :
           Finish(n, SendData([b |-> b, out |-> {}], NoOptions(p),
                              DataFrame(r, 2, 0, p, NULL), TRUE), net)
  BY <1>2
<1>4. PICK f \in DataFrames : f = DataFrame(r, 2, 0, p, NULL)
  BY <1>1, FirstFrame
<1>5. NoOptions(p) \in OptsAt(n)
  BY DEF NoOptions, OptsAt, Opts, Reqs
<1>6. [b |-> b, out |-> {}] \in Handling(n, Range(mb[n].buf), {})
  BY <1>1, LaterKeeps DEF MaintInv
<1>7. PICK st \in Handling(n, Range(mb[n].buf), {}) :
        st = SendData([b |-> b, out |-> {}], NoOptions(p), f, TRUE)
  <2> HIDE DEF n
  <2> QED
    BY <1>1, <1>5, <1>6, SendDataKeeps
<1>8. Finish(n, st, net) /\ BufInv /\ AirInv
  BY <1>3, <1>4, <1>7 DEF MaintInv
<1>9. BufInv' /\ AirInv' /\ OldOrFresh /\ OldErrors /\ net' = net \cup OnAir(st.out)
  <2> HIDE DEF n
  <2> QED
    BY <1>1, <1>8, FinishOld
<1>10. CacheInv'
  BY DEF StartXmit, MaintInv, CacheInv
<1> QED
  BY <1>9, <1>10 DEF MaintInv

\* A received data packet: acknowledged if asked for, then delivered or sent on.
LEMMA RecvDataKeeps ==
  ASSUME MaintInv, NEW f \in net, RecvData(f)
  PROVE  /\ MaintInv' /\ OldOrFresh /\ OldErrors
         /\ net \ {f} \subseteq net' /\ OnAir(AckPrevious(f)) \subseteq net'
<1> DEFINE n == f.to
           next == DataFrame(f.path, f.at + 1, f.salv, f.pkt, f.req)
           acks == AckPrevious(f)
           old == Range(mb[n].buf)
<1>1. f \in DataFrames
  BY FrameKinds DEF RecvData, MaintInv
<1>2. /\ f.from \in Node /\ n \in Node /\ f.path \in Seq(Node) /\ f.at \in 2..Len(f.path)
      /\ f.salv \in Nat /\ f.pkt \in Pkts /\ f.req \in Reqs /\ OnRoute(f)
  BY <1>1 DEF DataFrames, OnRoute
<1>3. acks \in SUBSET Frames /\ \A g \in acks : g.kind # "rerr"
  BY <1>2 DEF AckPrevious, AckFrame, Frames, AckFrames, Reqs
<1>4. CacheInv'
  <2>1. cache[n] \in SUBSET (Node \X Node)
    BY <1>2 DEF MaintInv, CacheInv
  <2>2. PICK b \in BidirFlags : cache' = [cache EXCEPT ![n] = LearnTravelled(@, f.path, f.at, b)]
    BY DEF RecvData, Learn
  <2>3. LearnTravelled(cache[n], f.path, f.at, b) \in SUBSET (Node \X Node)
    BY <1>2, <2>1, LearnKeeps
  <2> QED
    BY <2>2, <2>3 DEF MaintInv, CacheInv
<1> HIDE DEF n
<1>5. CASE /\ f.at = Len(f.path)
           /\ Finish(n, [b |-> mb[n], out |-> acks], net \ {f})
  <2>1. mb[n] \in Bufs(n)
    BY <1>2 DEF MaintInv, BufInv
  <2>2. PICK st \in Handling(n, old, {}) : st = [b |-> mb[n], out |-> acks]
    <3>1. [b |-> mb[n], out |-> acks] \in Handling(n, old, {})
      <4> HIDE DEF acks
      <4> QED
        BY <1>3, <2>1 DEF Handling
    <3> QED
      BY <3>1
  <2>3. BufInv' /\ AirInv' /\ OldOrFresh /\ OldErrors /\ net' = (net \ {f}) \cup OnAir(st.out)
    BY <1>2, <1>5, <2>2, FinishOld DEF MaintInv
  <2> QED
    BY <1>4, <2>2, <2>3 DEF MaintInv
<1>6. CASE /\ f.at < Len(f.path)
           /\ \E b \in Later(n, {next.to}) :
                Finish(n, SendData([b |-> b, out |-> acks], Options(f), next, TRUE), net \ {f})
  <2>1. PICK b \in Later(n, {next.to}) :
          Finish(n, SendData([b |-> b, out |-> acks], Options(f), next, TRUE), net \ {f})
    BY <1>6
  <2>2. [b |-> b, out |-> acks] \in Handling(n, old, {})
    <3> HIDE DEF acks
    <3> QED
      BY <1>2, <1>3, LaterKeeps DEF MaintInv
  <2>3. f.at + 1 \in 2..Len(f.path) /\ f.at + 1 \in Nat /\ f.at + 1 - 1 = f.at /\ Len(f.path) \in Nat
    BY <1>2, <1>6
  <2>4. f.path[f.at] \in Node /\ f.path[f.at + 1] \in Node
    BY <1>2, <2>3
  <2>5. next \in DataFrames
    BY <1>2, <2>3, <2>4 DEF DataFrames, DataFrame, OnRoute
  <2>6. Options(f) \in OptsAt(n)
    <3>1. f.path[f.at] = n /\ f.at \in 2..(Len(f.path) - 1) /\ ~HasDuplicate(f.path)
      BY <1>2, <1>6, <2>3 DEF OnRoute, n
    <3>2. CameTo(n, f.path)
      BY <3>1 DEF CameTo
    <3> QED
      BY <1>2, <3>2 DEF OptsAt, Opts, Options
  <2>7. PICK st \in Handling(n, old, {}) : st = SendData([b |-> b, out |-> acks], Options(f), next, TRUE)
    <3> HIDE DEF next, old, acks
    <3> QED
      BY <1>2, <2>2, <2>5, <2>6, SendDataKeeps
  <2>8. acks \subseteq st.out
    <3> HIDE DEF next, acks
    <3> QED
      BY <2>7 DEF SendData
  <2>9. BufInv' /\ AirInv' /\ OldOrFresh /\ OldErrors /\ net' = (net \ {f}) \cup OnAir(st.out)
    BY <1>2, <2>1, <2>7, FinishOld DEF MaintInv
  <2> QED
    BY <1>4, <2>8, <2>9 DEF MaintInv, OnAir
<1> QED
  BY <1>5, <1>6 DEF RecvData, n

\* A request on its own changes nothing but the air.
LEMMA RecvAckReqKeeps ==
  ASSUME MaintInv, NEW f \in net, RecvAckReq(f)
  PROVE  /\ MaintInv' /\ OldOrFresh /\ OldErrors
         /\ net' = (net \ {f}) \cup OnAir({AckFrame(f.to, f.from, f.id)})
<1>1. f \in AckFrames
  BY FrameKinds DEF RecvAckReq, MaintInv
<1>2. PICK g : g = AckFrame(f.to, f.from, f.id)
  OBVIOUS
<1>3. g \in Frames /\ g.kind = "ack"
  BY <1>1, <1>2 DEF AckFrame, AckFrames, Frames
<1>4. net' = (net \ {f}) \cup OnAir({g}) /\ UNCHANGED <<cache, mb>>
  BY <1>2 DEF RecvAckReq
<1>5. net' \subseteq net \cup {g}
  BY <1>4 DEF OnAir
<1> QED
  BY <1>2, <1>3, <1>4, <1>5 DEF MaintInv, CacheInv, BufInv, AirInv, OldOrFresh, OldErrors

\* An acknowledgement takes the packets it is for, and no others, from the
\* buffer.
LEMMA RecvAckKeeps ==
  ASSUME MaintInv, NEW f \in net, RecvAck(f)
  PROVE  /\ MaintInv' /\ OldOrFresh /\ OldErrors /\ net' = net \ {f}
         /\ \A e \in Range(mb'[f.to].buf) : ~AckRemoves(e, f.from, f.id)
<1> DEFINE n == f.to
           A == {e \in Range(mb[n].buf) : ~AckRemoves(e, f.from, f.id)}
<1>1. n \in Node
  BY FrameKinds DEF RecvAck, MaintInv, AckFrames
<1>2. mb[n] \in Bufs(n) /\ DOMAIN mb = Node
  BY <1>1 DEF MaintInv, BufInv
<1>3. PICK s \in Seq(MaintEntries(n)) : s = mb[n].buf
  BY <1>2 DEF Bufs
<1>4. PICK k : k = Kept(s, A)
  OBVIOUS
<1>5. k \in Seq(MaintEntries(n)) /\ Range(k) \subseteq Range(s) \cap A
  BY <1>4, KeptElements
<1>6. mb' = [mb EXCEPT ![n] = [mb[n] EXCEPT !.buf = k]]
  BY <1>3, <1>4 DEF RecvAck
<1>7. mb'[n] \in Bufs(n) /\ mb'[n].buf = k /\ DOMAIN mb' = Node
      /\ \A m \in Node \ {n} : mb'[m] = mb[m]
  BY <1>1, <1>2, <1>5, <1>6 DEF Bufs
<1>8. net' = net \ {f} /\ cache' = cache
  BY DEF RecvAck
<1> HIDE DEF n
<1>9. OldOrFresh
  BY <1>3, <1>5, <1>7 DEF OldOrFresh
<1>10. \A e \in Range(mb'[n].buf) : ~AckRemoves(e, f.from, f.id)
  BY <1>5, <1>7
<1>11. MaintInv'
  BY <1>7, <1>8 DEF MaintInv, CacheInv, BufInv, AirInv
<1> QED
  BY <1>8, <1>9, <1>10, <1>11 DEF OldErrors, n

\* A Route Error is sent on as it is.
LEMMA RecvRerrKeeps ==
  ASSUME MaintInv, NEW f \in net, RecvRerr(f)
  PROVE  /\ MaintInv' /\ OldOrFresh /\ net \ {f} \subseteq net'
         /\ \A g \in net' : g.kind = "rerr" =>
              \E h \in net : h.kind = "rerr" /\ h.path = g.path /\ h.unr = g.unr
<1> DEFINE n == f.to
           A == Range(mb[n].buf) \ ForHop(mb[n].buf, Last(f.path))
<1>1. f \in RerrFrames
  BY FrameKinds DEF RecvRerr, MaintInv
<1>2. /\ n \in Node /\ f.path \in Seq(Node) /\ f.at \in 2..Len(f.path) /\ f.unr \in Node
      /\ OnRoute(f) /\ f.kind = "rerr"
  BY <1>1 DEF RerrFrames, OnRoute
<1>3. CacheInv'
  <2>1. cache[n] \in SUBSET (Node \X Node)
    BY <1>2 DEF MaintInv, CacheInv
  <2>2. PICK b \in BidirFlags :
          cache' = [cache EXCEPT ![n] = LinkDel(LearnTravelled(@, f.path, f.at, b), f.path[1], f.unr)]
    BY DEF RecvRerr
  <2>3. PICK k \in SUBSET (Node \X Node) : k = LearnTravelled(cache[n], f.path, f.at, b)
    BY <1>2, <2>1, LearnKeeps
  <2>4. LinkDel(k, f.path[1], f.unr) \in SUBSET (Node \X Node)
    BY LinkDelKeeps
  <2> QED
    BY <2>2, <2>3, <2>4 DEF MaintInv, CacheInv
<1>4. mb[n] \in Bufs(n) /\ DOMAIN mb = Node
  BY <1>2 DEF MaintInv, BufInv
<1>5. PICK s \in Seq(MaintEntries(n)) : s = mb[n].buf
  BY <1>4 DEF Bufs
<1>6. PICK k : k = Kept(s, A)
  OBVIOUS
<1>7. k \in Seq(MaintEntries(n)) /\ Range(k) \subseteq Range(s)
  BY <1>6, KeptElements
<1>8. mb' = [mb EXCEPT ![n] = [mb[n] EXCEPT !.buf = k]]
  BY <1>5, <1>6 DEF RecvRerr
<1>9. mb'[n] \in Bufs(n) /\ mb'[n].buf = k /\ DOMAIN mb' = Node
      /\ \A m \in Node \ {n} : mb'[m] = mb[m]
  BY <1>2, <1>4, <1>7, <1>8 DEF Bufs
<1>10. OldOrFresh
  <2> HIDE DEF n
  <2> QED
    BY <1>5, <1>7, <1>9 DEF OldOrFresh
<1> DEFINE g == RerrFrame(f.path, f.at + 1, f.unr)
<1>11. /\ net \ {f} \subseteq net'
       /\ f.at = Len(f.path) => net' = net \ {f}
       /\ f.at # Len(f.path) => net' \subseteq net \cup {g}
  BY DEF RecvRerr, OnAir
<1>12. f.at # Len(f.path) => g \in RerrFrames
  <2> SUFFICES ASSUME f.at # Len(f.path) PROVE g \in RerrFrames
    OBVIOUS
  <2>1. f.at + 1 \in 2..Len(f.path) /\ f.at + 1 \in Nat /\ f.at + 1 - 1 = f.at /\ Len(f.path) \in Nat
    BY <1>2
  <2>2. f.path[f.at] \in Node /\ f.path[f.at + 1] \in Node
    BY <1>2, <2>1
  <2> QED
    BY <1>2, <2>1, <2>2 DEF RerrFrames, RerrFrame, OnRoute
<1>13. g.path = f.path /\ g.unr = f.unr
  BY DEF RerrFrame
<1> HIDE DEF g
<1>14. AirInv'
  BY <1>11, <1>12 DEF MaintInv, AirInv, Frames
<1> QED
  <2>1. BufInv'
    <3> HIDE DEF n
    <3> QED
      BY <1>4, <1>9 DEF MaintInv, BufInv
  <2> QED
    BY <1>2, <1>3, <1>10, <1>11, <1>13, <1>14, <2>1 DEF MaintInv

\* The entry a timeout is about, and that it gives up the next hop.
Served(n) == Counted(Head(mb[n].buf))
GivenUp(n) == Served(n).ack /\ Served(n).rexmt >= MaxMaintRexmt

\* The entry a timeout is about is the head of the buffer with one more
\* timeout.
LEMMA ServedEntry ==
  ASSUME MaintInv, NEW n \in Node, Awaited(n) # {}
  PROVE  /\ mb[n] \in Bufs(n) /\ Tail(mb[n].buf) \in Seq(MaintEntries(n))
         /\ Range(Tail(mb[n].buf)) \subseteq Range(mb[n].buf)
         /\ Head(mb[n].buf) \in Range(mb[n].buf) /\ Head(mb[n].buf) \in MaintEntries(n)
         /\ Served(n) \in MaintEntries(n) /\ Served(n).rexmt = Head(mb[n].buf).rexmt + 1
         /\ Served(n).ack = Head(mb[n].buf).ack /\ Served(n).hop = Head(mb[n].buf).hop
<1>1. mb[n] \in Bufs(n)
  BY DEF MaintInv, BufInv
<1>2. PICK s \in Seq(MaintEntries(n)) : s = mb[n].buf
  BY <1>1 DEF Bufs
<1>3. s # <<>>
  BY <1>2 DEF Awaited, Range
<1>4. Tail(s) \in Seq(MaintEntries(n)) /\ Head(s) = s[1] /\ 1 \in DOMAIN s /\ Head(s) \in MaintEntries(n)
  BY <1>3
<1>5. Range(Tail(s)) \subseteq Range(s) /\ Head(s) \in Range(s)
  BY <1>3, <1>4 DEF Range
<1>6. PICK e \in MaintEntries(n) : e = Head(s)
  BY <1>4
<1>7. /\ Counted(e) \in MaintEntries(n) /\ Counted(e).rexmt = e.rexmt + 1
      /\ Counted(e).ack = e.ack /\ Counted(e).hop = e.hop
  BY DEF Counted, MaintEntries
<1> QED
  BY <1>1, <1>2, <1>4, <1>5, <1>6, <1>7 DEF Served

\* A Route Error is sent from this node, about the next hop.
LEMMA RerrSendKeeps ==
  ASSUME NEW n \in Node, NEW c \in SUBSET (Node \X Node), NEW e \in MaintEntries(n),
         NEW err \in RerrSend(n, c, e)
  PROVE  err \in SUBSET Frames /\ \A g \in err : g.path[1] = n /\ g.unr = e.hop
<1>1. CASE err = {}
  BY <1>1
<1>2. CASE err # {}
  <2>1. PICK r \in Lookup(c, n, RerrDst(e)) : e.opt.path # <<>> /\ err = {RerrFrame(r, 2, e.hop)}
    BY <1>2 DEF RerrSend
  <2>2. RerrDst(e) \in Node
    <3>1. e.opt \in Opts /\ CameTo(n, e.opt.path)
      BY <2>1 DEF MaintEntries, OptsAt
    <3>2. e.opt.path \in Seq(Node) /\ e.opt.pkt \in Pkts /\ 3 \in 1..Len(e.opt.path)
      BY <3>1 DEF Opts, CameTo
    <3>3. e.opt.path[3] \in Node /\ SrcOf[e.opt.pkt] \in Node
      BY <3>2, MaintEnds
    <3> QED
      BY <3>3 DEF RerrDst
  <2>3. e.hop \in Node
    BY DEF MaintEntries
  <2>4. r[1] = n /\ RerrFrame(r, 2, e.hop) \in RerrFrames
    BY <2>1, <2>2, <2>3, FirstFrame
  <2> QED
    BY <2>1, <2>4 DEF Frames, RerrFrame
<1> QED
  BY <1>1, <1>2

\* Salvaging the packets for a next hop that was given up.
LEMMA SalvageAllKeeps ==
  ASSUME NEW n \in Node, NEW B, NEW E, NEW st \in Handling(n, B, E),
         NEW c \in SUBSET (Node \X Node), NEW same \in Seq(MaintEntries(n)),
         NEW alt \in Alternatives(n, c)
  PROVE  SalvageAll(n, st, same, alt) \in Handling(n, B, E)
<1>1. ASSUME NEW i \in 1..Len(same), NEW x \in Handling(n, B, E)
      PROVE  Salvage(n, x, same[i], alt[DstOf[same[i].opt.pkt]]) \in Handling(n, B, E)
  <2>1. PICK e \in MaintEntries(n) : e = same[i]
    OBVIOUS
  <2>2. e.opt.pkt \in Pkts
    BY DEF MaintEntries, OptsAt, Opts
  <2>3. PICK d \in Node : d = DstOf[e.opt.pkt]
    BY <2>2, MaintEnds
  <2>4. alt[d] = NULL \/ alt[d] \in Lookup(c, n, d)
    BY <2>2, <2>3 DEF Alternatives
  <2>5. Salvage(n, x, e, alt[d]) \in Handling(n, B, E)
    BY <2>4, SalvageKeeps
  <2> QED
    BY <2>1, <2>3, <2>5
<1>2. PICK X : X = Handling(n, B, E)
  OBVIOUS
<1> QED
  BY <1>1, <1>2, SalvageAllInside

\* A timeout: what it leaves in the buffer, on the air and in the cache.
LEMMA TimeoutKeeps ==
  ASSUME MaintInv, NEW n \in Node, Timeout(n)
  PROVE  /\ MaintInv' /\ net \subseteq net' /\ \A m \in Node \ {n} : mb'[m] = mb[m]
         /\ \A x \in Range(mb'[n].buf) :
              \/ x \in Range(mb[n].buf) \/ x.rexmt = 0
              \/ x = Served(n) /\ (x.ack => OnAir({AckReqFrame(n, x.hop, x.id)}) \subseteq net')
         /\ \A g \in net' : g.kind = "rerr" =>
              g \in net \/ (GivenUp(n) /\ g.path[1] = n /\ g.unr = Served(n).hop)
         /\ \/ cache' = cache
            \/ GivenUp(n) /\ cache' = [cache EXCEPT ![n] = LinkDel(cache[n], n, Served(n).hop)]
<1>1. PICK e, rest, c : e = Served(n) /\ rest = Tail(mb[n].buf) /\ c = LinkDel(cache[n], n, e.hop)
  OBVIOUS
<1>2. /\ mb[n] \in Bufs(n) /\ rest \in Seq(MaintEntries(n)) /\ Range(rest) \subseteq Range(mb[n].buf)
      /\ e \in MaintEntries(n)
  BY <1>1, ServedEntry DEF Timeout
<1>3. e.hop \in Node /\ e.id \in Nat /\ e.ack \in BOOLEAN
  BY <1>2 DEF MaintEntries
<1>4. BufInv /\ AirInv /\ net \in SUBSET net
  BY DEF MaintInv
<1> DEFINE Left(b, buf, out) == [b |-> [b EXCEPT !.buf = buf], out |-> out]
           same  == <<e>> \o Kept(rest, ForHop(rest, e.hop))
           other == Kept(rest, Range(rest) \ ForHop(rest, e.hop))
<1>5. CASE /\ Finish(n, Left(mb[n], Append(rest, e),
                             IF e.ack THEN {AckReqFrame(n, e.hop, e.id)} ELSE {}), net)
           /\ cache' = cache
  <2> DEFINE req == IF e.ack THEN {AckReqFrame(n, e.hop, e.id)} ELSE {}
             B == Range(rest) \cup {e}
  <2>1. req \in SUBSET Frames /\ \A g \in req : g.kind # "rerr"
    BY <1>3 DEF AckReqFrame, Frames, AckFrames
  <2>2. PICK buf \in Seq(MaintEntries(n)) : buf = Append(rest, e) /\ Range(buf) \subseteq B
    <3>1. Append(rest, e) \in Seq(MaintEntries(n)) /\ Range(Append(rest, e)) \subseteq B
      BY <1>2 DEF Range
    <3> HIDE DEF B
    <3> QED
      BY <3>1
  <2>3. [mb[n] EXCEPT !.buf = buf] \in Bufs(n) /\ [mb[n] EXCEPT !.buf = buf].buf = buf
    BY <1>2 DEF Bufs
  <2>4. PICK st \in Handling(n, B, {}) : st = Left(mb[n], buf, req)
    <3> HIDE DEF req, B
    <3> QED
      BY <2>1, <2>2, <2>3 DEF Handling
  <2>5. st.b.buf = buf /\ st.out = req
    <3> HIDE DEF req
    <3> QED
      BY <2>3, <2>4
  <2>6. Finish(n, st, net)
    BY <1>5, <2>2, <2>4
  <2>7. /\ BufInv' /\ AirInv' /\ net \subseteq net' /\ mb'[n] = st.b
        /\ \A m \in Node \ {n} : mb'[m] = mb[m]
        /\ net' = net \cup OnAir(st.out)
        /\ \A f \in net' : f.kind = "rerr" => f \in net \cup {}
    <3> HIDE DEF B
    <3> QED
      BY <1>4, <2>6, FinishKeeps
  <2>8. MaintInv'
    BY <1>5, <2>7 DEF MaintInv, CacheInv
  <2>9. ASSUME NEW x \in Range(mb'[n].buf)
        PROVE  \/ x \in Range(mb[n].buf)
               \/ x = e /\ (x.ack => OnAir({AckReqFrame(n, x.hop, x.id)}) \subseteq net')
    <3>1. x \in Range(rest) \/ x = e
      BY <2>2, <2>5, <2>7
    <3>2. e.ack => req = {AckReqFrame(n, e.hop, e.id)}
      OBVIOUS
    <3> HIDE DEF req
    <3> QED
      BY <1>2, <2>5, <2>7, <3>1, <3>2
  <2> QED
    BY <1>1, <1>5, <2>7, <2>8, <2>9
<1>6. CASE Finish(n, Left(mb[n], rest, {}), net) /\ cache' = cache
  <2>1. [mb[n] EXCEPT !.buf = rest] \in Bufs(n) /\ [mb[n] EXCEPT !.buf = rest].buf = rest
    BY <1>2 DEF Bufs
  <2>2. PICK st \in Handling(n, Range(mb[n].buf), {}) : st = Left(mb[n], rest, {})
    BY <1>2, <2>1 DEF Handling
  <2>3. Finish(n, st, net)
    BY <1>6, <2>2
  <2>4. /\ BufInv' /\ AirInv' /\ net \subseteq net' /\ mb'[n] = st.b
        /\ \A m \in Node \ {n} : mb'[m] = mb[m]
        /\ \A f \in net' : f.kind = "rerr" => f \in net \cup {}
    BY <1>4, <2>3, FinishKeeps
  <2>5. MaintInv'
    BY <1>6, <2>4 DEF MaintInv, CacheInv
  <2>6. \A x \in Range(mb'[n].buf) : x \in Range(mb[n].buf)
    BY <1>2, <2>1, <2>2, <2>4
  <2> QED
    BY <1>6, <2>4, <2>5, <2>6
<1>7. CASE /\ e.rexmt >= MaxMaintRexmt /\ e.ack /\ cache' = [cache EXCEPT ![n] = c]
           /\ \E err \in RerrSend(n, c, e), alt \in Alternatives(n, c) :
              \E b \in Later(n, {a[2] : a \in Range(alt) \ {NULL}}) :
                Finish(n, SalvageAll(n, Left(b, other, err), same, alt), net)
  <2>1. PICK err \in RerrSend(n, c, e), alt \in Alternatives(n, c) :
          \E b \in Later(n, {a[2] : a \in Range(alt) \ {NULL}}) :
            Finish(n, SalvageAll(n, Left(b, other, err), same, alt), net)
    BY <1>7
  <2>2. PICK b \in Later(n, {a[2] : a \in Range(alt) \ {NULL}}) :
          Finish(n, SalvageAll(n, Left(b, other, err), same, alt), net)
    BY <2>1
  <2>3. c \in SUBSET (Node \X Node) /\ CacheInv'
    <3>1. cache[n] \in SUBSET (Node \X Node)
      BY DEF MaintInv, CacheInv
    <3>2. c \in SUBSET (Node \X Node)
      BY <1>1, <3>1, LinkDelKeeps
    <3> QED
      BY <1>7, <3>2 DEF MaintInv, CacheInv
  <2>4. err \in SUBSET Frames /\ \A g \in err : g.path[1] = n /\ g.unr = e.hop
    BY <1>2, <2>3, RerrSendKeeps
  <2>5. b \in Bufs(n) /\ b.buf = mb[n].buf
    <3>1. {} \in SUBSET Frames
      OBVIOUS
    <3> QED
      BY <1>4, <3>1, LaterKeeps
  <2>6. PICK o, k : o = other /\ k = Kept(rest, ForHop(rest, e.hop))
    OBVIOUS
  <2>7. /\ o \in Seq(MaintEntries(n)) /\ Range(o) \subseteq Range(mb[n].buf)
        /\ k \in Seq(MaintEntries(n))
    BY <1>2, <2>6, KeptElements
  <2>8. PICK all \in Seq(MaintEntries(n)) : all = same
    <3>1. <<e>> \in Seq(MaintEntries(n))
      BY <1>2
    <3>2. <<e>> \o k \in Seq(MaintEntries(n))
      BY <2>7, <3>1
    <3> QED
      BY <2>6, <3>2
  <2>9. PICK st \in Handling(n, Range(mb[n].buf), err) : st = Left(b, o, err)
    <3>1. [b EXCEPT !.buf = o] \in Bufs(n) /\ [b EXCEPT !.buf = o].buf = o
      BY <2>5, <2>7 DEF Bufs
    <3> QED
      BY <2>4, <2>7, <3>1 DEF Handling
  <2>10. PICK fin \in Handling(n, Range(mb[n].buf), err) : fin = SalvageAll(n, st, all, alt)
    BY <2>3, SalvageAllKeeps
  <2>11. Finish(n, fin, net)
    <3> HIDE DEF other, same
    <3> QED
      BY <2>2, <2>6, <2>8, <2>9, <2>10
  <2>12. /\ BufInv' /\ AirInv' /\ net \subseteq net' /\ mb'[n] = fin.b
         /\ \A m \in Node \ {n} : mb'[m] = mb[m]
         /\ \A f \in net' : f.kind = "rerr" => f \in net \cup err
    BY <1>4, <2>11, FinishKeeps
  <2>13. \A x \in Range(mb'[n].buf) : x \in Range(mb[n].buf) \/ x.rexmt = 0
    BY <2>12 DEF Handling
  <2>14. MaintInv'
    BY <2>3, <2>12 DEF MaintInv
  <2>15. GivenUp(n) /\ cache' = [cache EXCEPT ![n] = LinkDel(cache[n], n, Served(n).hop)]
    BY <1>1, <1>7 DEF GivenUp
  <2> HIDE DEF other, same
  <2> QED
    BY <1>1, <2>4, <2>12, <2>13, <2>14, <2>15
<1>8. \/ /\ Finish(n, Left(mb[n], Append(rest, e),
                           IF e.ack THEN {AckReqFrame(n, e.hop, e.id)} ELSE {}), net)
         /\ cache' = cache
      \/ Finish(n, Left(mb[n], rest, {}), net) /\ cache' = cache
      \/ /\ e.rexmt >= MaxMaintRexmt /\ e.ack /\ cache' = [cache EXCEPT ![n] = c]
         /\ \E err \in RerrSend(n, c, e), alt \in Alternatives(n, c) :
            \E b \in Later(n, {a[2] : a \in Range(alt) \ {NULL}}) :
              Finish(n, SalvageAll(n, Left(b, other, err), same, alt), net)
  BY <1>1 DEF Timeout, Served
<1> QED
  BY <1>5, <1>6, <1>7, <1>8

\* A link that breaks leaves buffers, caches and frames alone.
LEMMA BreakKeeps ==
  ASSUME MaintInv, NEW pair \in Breakable, Break(pair)
  PROVE  MaintInv' /\ OldOrFresh /\ OldErrors /\ net' = net
  BY DEF MaintInv, CacheInv, BufInv, AirInv, Break, OldOrFresh, OldErrors

\* So does a frame that is lost, but for that frame.
LEMMA LoseKeeps ==
  ASSUME MaintInv, NEW f \in net, Lose(f)
  PROVE  MaintInv' /\ OldOrFresh /\ OldErrors /\ net' = net \ {f}
  BY DEF MaintInv, CacheInv, BufInv, AirInv, Lose, OldOrFresh, OldErrors

\* Every step keeps the invariant.
LEMMA MaintStep == MaintInv /\ [Next]_vars => MaintInv'
<1> SUFFICES ASSUME MaintInv, [Next]_vars PROVE MaintInv'
  OBVIOUS
<1>1. CASE Receive
  BY <1>1, RecvDataKeeps, RecvAckReqKeeps, RecvAckKeeps, RecvRerrKeeps DEF Receive
<1>2. CASE TimerServed
  BY <1>2, TimeoutKeeps DEF TimerServed
<1>3. CASE \E p \in Pkts : StartXmit(p)
  BY <1>3, StartXmitKeeps
<1>4. CASE \E pair \in Breakable : Break(pair)
  BY <1>4, BreakKeeps
<1>5. CASE \E f \in net : Lose(f)
  BY <1>5, LoseKeeps
<1>6. CASE UNCHANGED vars
  BY <1>6 DEF vars, MaintInv, CacheInv, BufInv, AirInv
<1> QED
  BY <1>1, <1>2, <1>3, <1>4, <1>5, <1>6 DEF Next

\* Buffers, caches and frames stay well formed.
THEOREM MaintSafe == Spec => []MaintInv
  BY MaintInit, MaintStep, PTL DEF Spec

\* However links break and frames are lost, no data packet and no Route Error
\* travels a route with a loop: salvaging checks the route it puts together,
\* the other routes come from a lookup, and a node sends on only what it got.
THEOREM RoutesLoopFree == Spec => []LoopFree
<1>1. MaintInv => LoopFree
  BY FrameKinds DEF MaintInv, LoopFree, DataFrames, RerrFrames, OnRoute
<1> QED
  BY <1>1, MaintSafe, PTL

----------------------------------------------------------------------------
(* Requests, answers and losses. *)

\* The entries of a buffer.
LEMMA EntryKinds ==
  ASSUME NEW m \in Node, NEW b \in Bufs(m), NEW e \in Range(b.buf)
  PROVE  e \in MaintEntries(m) /\ e.hop \in Node /\ e.id \in Nat /\ e.rexmt \in Nat /\ e.ack \in BOOLEAN
<1>1. b.buf \in Seq(MaintEntries(m))
  BY DEF Bufs
<1>2. e \in MaintEntries(m)
  BY <1>1 DEF Range
<1> QED
  BY <1>2 DEF MaintEntries

\* What is under way for an entry stays so unless something is lost.
NothingGone(m, e) ==
  \A f \in net : Carries(f, m, e) /\ <<m, e.hop>> \in radio' =>
    losses < losses' \/ \E g \in net' : Carries(g, m, e)

\* Then the entry stays unanswered only for losses.
LEMMA StillUnanswered ==
  ASSUME NEW m \in Node, NEW e, e.rexmt \in Nat, losses \in Nat, losses' \in Nat,
         radio' \subseteq radio, losses <= losses', Unanswered(m, e), NothingGone(m, e)
  PROVE  Unanswered(m, e)'
<1> SUFFICES ASSUME e.ack, <<m, e.hop>> \in radio'
             PROVE  losses' >= e.rexmt \/ (losses' + 1 >= e.rexmt /\ \E g \in net' : Carries(g, m, e))
  BY DEF Unanswered, UnderWay, Carries
<1>1. losses >= e.rexmt \/ (losses + 1 >= e.rexmt /\ \E f \in net : Carries(f, m, e))
  BY DEF Unanswered, UnderWay
<1>2. CASE losses >= e.rexmt
  BY <1>2
<1>3. CASE losses + 1 >= e.rexmt /\ \E f \in net : Carries(f, m, e)
  <2>1. losses < losses' \/ \E g \in net' : Carries(g, m, e)
    BY <1>3 DEF NothingGone
  <2> QED
    BY <1>3, <2>1
<1> QED
  BY <1>1, <1>2, <1>3

\* An entry nobody has waited for yet.
LEMMA FreshUnanswered ==
  ASSUME NEW m, NEW e, e.rexmt = 0, losses' \in Nat
  PROVE  Unanswered(m, e)'
<1>1. losses' >= e.rexmt
  OBVIOUS
<1> QED
  BY <1>1 DEF Unanswered, UnderWay, Carries

\* A step that counts no timeout.
LEMMA AskedStep ==
  ASSUME LossInv, BufInv, BufInv', OldOrFresh, radio' \subseteq radio,
         losses' \in Nat, losses <= losses',
         \A m \in Node : \A e \in Range(mb'[m].buf) : NothingGone(m, e)
  PROVE  AskedInv'
<1> SUFFICES ASSUME NEW m \in Node, NEW e \in Range(mb'[m].buf)
             PROVE  Unanswered(m, e)'
  BY DEF AskedInv
<1>1. losses \in Nat
  BY MaintBounds DEF LossInv, RadioInv
<1>2. CASE e.rexmt = 0
  BY <1>2, FreshUnanswered
<1>3. CASE e \in Range(mb[m].buf)
  <2>1. e.rexmt \in Nat
    BY <1>3, EntryKinds DEF BufInv
  <2>2. Unanswered(m, e)
    BY <1>3 DEF LossInv, AskedInv
  <2> QED
    BY <1>1, <2>1, <2>2, StillUnanswered
<1> QED
  BY <1>2, <1>3 DEF OldOrFresh

\* A step with no Route Error about another link.
LEMMA ErrorStep ==
  ASSUME ErrorInv, radio' \subseteq radio,
         \A g \in net' : g.kind = "rerr" =>
           \E h \in net : h.kind = "rerr" /\ h.path = g.path /\ h.unr = g.unr
  PROVE  ErrorInv'
<1> SUFFICES ASSUME NEW g \in net', g.kind = "rerr"
             PROVE  <<g.path[1], g.unr>> \notin radio' /\ <<g.unr, g.path[1]>> \notin radio'
  BY DEF ErrorInv
<1>1. PICK h \in net : h.kind = "rerr" /\ h.path = g.path /\ h.unr = g.unr
  OBVIOUS
<1>2. <<g.path[1], g.unr>> \notin radio /\ <<g.unr, g.path[1]>> \notin radio
  BY <1>1 DEF ErrorInv
<1> QED
  BY <1>2

\* Nothing is asked or reported at first.
LEMMA LossInit == ASSUME Symmetric, Init PROVE LossInv
<1>1. RadioInv
  BY MaintEnds, MaintBounds DEF Init, Symmetric, RadioInv
<1>2. \A n \in Node : Range(mb[n].buf) = {}
  BY DEF Init, Range
<1> QED
  BY <1>1, <1>2 DEF LossInv, AskedInv, ErrorInv, Init

\* A packet or a request with the id of an entry is answered over the same
\* link, and the answer is on the air if the link works.
LEMMA AnswerSent ==
  ASSUME RadioInv, radio' = radio, NEW m \in Node, NEW e, e.hop \in Node,
         NEW f, f.from = m, f.to = e.hop, <<m, e.hop>> \in radio',
         OnAir({AckFrame(f.to, f.from, e.id)}) \subseteq net'
  PROVE  \E g \in net' : Carries(g, m, e)
<1>1. PICK g : g = AckFrame(f.to, f.from, e.id)
  OBVIOUS
<1>2. g.kind = "ack" /\ g.from = e.hop /\ g.to = m /\ g.id = e.id
  BY <1>1 DEF AckFrame
<1>3. <<g.from, g.to>> \in radio
  BY <1>2 DEF RadioInv
<1>4. g \in net'
  BY <1>1, <1>3 DEF OnAir
<1> QED
  BY <1>2, <1>4 DEF Carries

\* A new packet has not been waited for.
LEMMA StartXmitLoss ==
  ASSUME MaintInv, LossInv, NEW p \in Pkts, StartXmit(p)
  PROVE  LossInv'
<1>1. MaintInv' /\ OldOrFresh /\ OldErrors /\ net \subseteq net'
  BY StartXmitKeeps
<1>2. radio' = radio /\ losses' = losses
  BY DEF StartXmit
<1>3. RadioInv' /\ losses \in Nat
  BY <1>2, MaintBounds DEF LossInv, RadioInv
<1>4. \A m \in Node : \A e \in Range(mb'[m].buf) : NothingGone(m, e)
  BY <1>1 DEF NothingGone
<1>5. AskedInv'
  BY <1>1, <1>2, <1>3, <1>4, AskedStep DEF MaintInv
<1>6. ErrorInv'
  BY <1>1, <1>2, ErrorStep DEF LossInv, OldErrors
<1> QED
  BY <1>3, <1>5, <1>6 DEF LossInv

\* The request that comes with a packet is answered.
LEMMA RecvDataLoss ==
  ASSUME MaintInv, LossInv, NEW f \in net, RecvData(f)
  PROVE  LossInv'
<1>1. /\ MaintInv' /\ OldOrFresh /\ OldErrors
      /\ net \ {f} \subseteq net' /\ OnAir(AckPrevious(f)) \subseteq net'
  BY RecvDataKeeps
<1>2. radio' = radio /\ losses' = losses /\ f.kind = "data"
  BY DEF RecvData
<1>3. RadioInv' /\ losses \in Nat
  BY <1>2, MaintBounds DEF LossInv, RadioInv
<1>4. ASSUME NEW m \in Node, NEW e \in Range(mb'[m].buf) PROVE NothingGone(m, e)
  <2> SUFFICES ASSUME NEW h \in net, Carries(h, m, e), <<m, e.hop>> \in radio'
               PROVE  \E g \in net' : Carries(g, m, e)
    BY DEF NothingGone
  <2>1. CASE h # f
    BY <2>1, <1>1
  <2>2. CASE h = f
    <3>1. e.hop \in Node /\ e.id \in Nat
      BY <1>1, EntryKinds DEF MaintInv, BufInv
    <3>2. f.from = m /\ f.to = e.hop /\ f.req = e.id
      BY <1>2, <2>2 DEF Carries
    <3>3. f.req # NULL
      BY <3>1, <3>2, NoRequest
    <3>4. AckPrevious(f) = {AckFrame(f.to, f.from, e.id)}
      BY <3>2, <3>3 DEF AckPrevious
    <3>5. OnAir({AckFrame(f.to, f.from, e.id)}) \subseteq net' /\ RadioInv
      BY <1>1, <3>4 DEF LossInv
    <3> QED
      BY <1>2, <3>1, <3>2, <3>5, AnswerSent
  <2> QED
    BY <2>1, <2>2
<1>5. AskedInv'
  BY <1>1, <1>2, <1>3, <1>4, AskedStep DEF MaintInv
<1>6. ErrorInv'
  BY <1>1, <1>2, ErrorStep DEF LossInv, OldErrors
<1> QED
  BY <1>3, <1>5, <1>6 DEF LossInv

\* A request on its own is answered.
LEMMA RecvAckReqLoss ==
  ASSUME MaintInv, LossInv, NEW f \in net, RecvAckReq(f)
  PROVE  LossInv'
<1>1. /\ MaintInv' /\ OldOrFresh /\ OldErrors
      /\ net' = (net \ {f}) \cup OnAir({AckFrame(f.to, f.from, f.id)})
  BY RecvAckReqKeeps
<1>2. radio' = radio /\ losses' = losses /\ f.kind = "ackreq"
  BY DEF RecvAckReq
<1>3. RadioInv' /\ losses \in Nat
  BY <1>2, MaintBounds DEF LossInv, RadioInv
<1>4. ASSUME NEW m \in Node, NEW e \in Range(mb'[m].buf) PROVE NothingGone(m, e)
  <2> SUFFICES ASSUME NEW h \in net, Carries(h, m, e), <<m, e.hop>> \in radio'
               PROVE  \E g \in net' : Carries(g, m, e)
    BY DEF NothingGone
  <2>1. CASE h # f
    BY <2>1, <1>1
  <2>2. CASE h = f
    <3>1. e.hop \in Node
      BY <1>1, EntryKinds DEF MaintInv, BufInv
    <3>2. f.from = m /\ f.to = e.hop /\ f.id = e.id
      BY <1>2, <2>2 DEF Carries
    <3>3. OnAir({AckFrame(f.to, f.from, e.id)}) \subseteq net' /\ RadioInv
      BY <1>1, <3>2 DEF LossInv
    <3> QED
      BY <1>2, <3>1, <3>2, <3>3, AnswerSent
  <2> QED
    BY <2>1, <2>2
<1>5. AskedInv'
  BY <1>1, <1>2, <1>3, <1>4, AskedStep DEF MaintInv
<1>6. ErrorInv'
  BY <1>1, <1>2, ErrorStep DEF LossInv, OldErrors
<1> QED
  BY <1>3, <1>5, <1>6 DEF LossInv

\* The answer takes the entry from the buffer.
LEMMA RecvAckLoss ==
  ASSUME MaintInv, LossInv, NEW f \in net, RecvAck(f)
  PROVE  LossInv'
<1>1. /\ MaintInv' /\ OldOrFresh /\ OldErrors /\ net' = net \ {f}
      /\ \A e \in Range(mb'[f.to].buf) : ~AckRemoves(e, f.from, f.id)
  BY RecvAckKeeps
<1>2. radio' = radio /\ losses' = losses /\ f.kind = "ack"
  BY DEF RecvAck
<1>3. RadioInv' /\ losses \in Nat
  BY <1>2, MaintBounds DEF LossInv, RadioInv
<1>4. ASSUME NEW m \in Node, NEW e \in Range(mb'[m].buf) PROVE NothingGone(m, e)
  <2> SUFFICES ASSUME NEW h \in net, Carries(h, m, e)
               PROVE  \E g \in net' : Carries(g, m, e)
    BY DEF NothingGone
  <2>1. CASE h # f
    BY <2>1, <1>1
  <2>2. CASE h = f
    <3>1. e.id \in Nat
      BY <1>1, EntryKinds DEF MaintInv, BufInv
    <3>2. f.from = e.hop /\ f.to = m /\ f.id = e.id
      BY <1>2, <2>2 DEF Carries
    <3>3. AckRemoves(e, f.from, f.id)
      BY <3>1, <3>2 DEF AckRemoves
    <3> QED
      BY <1>1, <3>2, <3>3
  <2> QED
    BY <2>1, <2>2
<1>5. AskedInv'
  BY <1>1, <1>2, <1>3, <1>4, AskedStep DEF MaintInv
<1>6. ErrorInv'
  BY <1>1, <1>2, ErrorStep DEF LossInv, OldErrors
<1> QED
  BY <1>3, <1>5, <1>6 DEF LossInv

\* A Route Error carries no request and no answer.
LEMMA RecvRerrLoss ==
  ASSUME MaintInv, LossInv, NEW f \in net, RecvRerr(f)
  PROVE  LossInv'
<1>1. /\ MaintInv' /\ OldOrFresh /\ net \ {f} \subseteq net'
      /\ \A g \in net' : g.kind = "rerr" =>
           \E h \in net : h.kind = "rerr" /\ h.path = g.path /\ h.unr = g.unr
  BY RecvRerrKeeps
<1>2. radio' = radio /\ losses' = losses /\ f.kind = "rerr"
  BY DEF RecvRerr
<1>3. RadioInv' /\ losses \in Nat
  BY <1>2, MaintBounds DEF LossInv, RadioInv
<1>4. \A m \in Node : \A e \in Range(mb'[m].buf) : NothingGone(m, e)
  BY <1>1, <1>2 DEF NothingGone, Carries
<1>5. AskedInv'
  BY <1>1, <1>2, <1>3, <1>4, AskedStep DEF MaintInv
<1>6. ErrorInv'
  BY <1>1, <1>2, ErrorStep DEF LossInv
<1> QED
  BY <1>3, <1>5, <1>6 DEF LossInv

\* Links that break are asked about no more.
LEMMA BreakLoss ==
  ASSUME MaintInv, LossInv, NEW pair \in Breakable, Break(pair)
  PROVE  LossInv'
<1>1. MaintInv' /\ OldOrFresh /\ OldErrors /\ net' = net
  BY BreakKeeps
<1>2. radio' = radio \ (pair \X pair) /\ losses' = losses
  BY DEF Break
<1>3. RadioInv' /\ losses \in Nat
  BY <1>2, MaintBounds DEF LossInv, RadioInv
<1>4. \A m \in Node : \A e \in Range(mb'[m].buf) : NothingGone(m, e)
  BY <1>1 DEF NothingGone
<1>5. AskedInv'
  BY <1>1, <1>2, <1>3, <1>4, AskedStep DEF MaintInv
<1>6. ErrorInv'
  BY <1>1, <1>2, ErrorStep DEF LossInv, OldErrors
<1> QED
  BY <1>3, <1>5, <1>6 DEF LossInv

\* A lost frame counts.
LEMMA LoseLoss ==
  ASSUME MaintInv, LossInv, NEW f \in net, Lose(f)
  PROVE  LossInv'
<1>1. MaintInv' /\ OldOrFresh /\ OldErrors /\ net' = net \ {f}
  BY LoseKeeps
<1>2. radio' = radio /\ losses' = losses + 1 /\ losses < MaxLosses
  BY DEF Lose
<1>3. RadioInv' /\ losses \in Nat /\ losses' \in Nat /\ losses < losses' /\ losses <= losses'
  BY <1>2, MaintBounds DEF LossInv, RadioInv
<1>4. \A m \in Node : \A e \in Range(mb'[m].buf) : NothingGone(m, e)
  BY <1>3 DEF NothingGone
<1>5. AskedInv'
  BY <1>1, <1>2, <1>3, <1>4, AskedStep DEF MaintInv
<1>6. ErrorInv'
  BY <1>1, <1>2, ErrorStep DEF LossInv, OldErrors
<1> QED
  BY <1>3, <1>5, <1>6 DEF LossInv

\* When a timer fires nothing is under way between the node and a next hop it
\* asked: every request so far was lost, if the link works.
LEMMA ServedUnanswered ==
  ASSUME MaintInv, LossInv, NEW n \in Node, Timeout(n),
         Served(n).ack, <<n, Served(n).hop>> \in radio
  PROVE  losses + 1 >= Served(n).rexmt
<1>1. PICK e : e = Head(mb[n].buf)
  OBVIOUS
<1>2. /\ e \in Range(mb[n].buf) /\ e \in MaintEntries(n)
      /\ Served(n).rexmt = e.rexmt + 1 /\ Served(n).ack = e.ack /\ Served(n).hop = e.hop
  BY <1>1, ServedEntry DEF Timeout
<1>3. e.rexmt \in Nat /\ losses \in Nat
  BY <1>2, MaintBounds DEF MaintEntries, LossInv, RadioInv
<1>4. e.hop \in Awaited(n)
  BY <1>2 DEF Awaited
<1>5. \A f \in net : ~({f.from, f.to} = {n, e.hop})
  BY <1>4 DEF Timeout
<1>6. ~UnderWay(n, e)
  <2> SUFFICES ASSUME NEW f \in net, Carries(f, n, e) PROVE FALSE
    BY DEF UnderWay
  <2>1. {f.from, f.to} = {n, e.hop}
    BY DEF Carries
  <2> QED
    BY <1>5, <2>1
<1>7. losses >= e.rexmt
  BY <1>2, <1>6 DEF LossInv, AskedInv, Unanswered
<1> QED
  BY <1>2, <1>3, <1>7

\* A next hop is given up only if the link is gone: there are not enough losses
\* for all the requests.
LEMMA GivenUpBroken ==
  ASSUME MaintInv, LossInv, NEW n \in Node, Timeout(n), GivenUp(n)
  PROVE  <<n, Served(n).hop>> \notin radio /\ <<Served(n).hop, n>> \notin radio
<1>1. Served(n).hop \in Node /\ Served(n).rexmt \in Nat
  BY ServedEntry DEF Timeout, MaintEntries
<1>2. <<n, Served(n).hop>> \notin radio
  <2> SUFFICES ASSUME <<n, Served(n).hop>> \in radio PROVE FALSE
    OBVIOUS
  <2>1. losses + 1 >= Served(n).rexmt /\ Served(n).rexmt >= MaxMaintRexmt
    BY ServedUnanswered DEF GivenUp
  <2>2. losses \in 0..MaxLosses
    BY DEF LossInv, RadioInv
  <2> QED
    BY <1>1, <2>1, <2>2, MaintBounds
<1> QED
  BY <1>1, <1>2 DEF LossInv, RadioInv

\* A timeout asks once more, or gives up a link that is gone and reports it.
LEMMA TimeoutLoss ==
  ASSUME MaintInv, LossInv, NEW n \in Node, Timeout(n)
  PROVE  LossInv'
<1>1. /\ MaintInv' /\ net \subseteq net' /\ \A m \in Node \ {n} : mb'[m] = mb[m]
      /\ \A x \in Range(mb'[n].buf) :
           \/ x \in Range(mb[n].buf) \/ x.rexmt = 0
           \/ x = Served(n) /\ (x.ack => OnAir({AckReqFrame(n, x.hop, x.id)}) \subseteq net')
      /\ \A g \in net' : g.kind = "rerr" =>
           g \in net \/ (GivenUp(n) /\ g.path[1] = n /\ g.unr = Served(n).hop)
  BY TimeoutKeeps
<1>2. radio' = radio /\ losses' = losses
  BY DEF Timeout
<1>3. RadioInv' /\ losses \in Nat /\ losses' \in Nat
  BY <1>2, MaintBounds DEF LossInv, RadioInv
<1>4. ASSUME NEW m \in Node, NEW e \in Range(mb'[m].buf) PROVE Unanswered(m, e)'
  <2>1. CASE e \in Range(mb[m].buf)
    <3>1. e.rexmt \in Nat /\ Unanswered(m, e)
      BY <2>1, EntryKinds DEF MaintInv, BufInv, LossInv, AskedInv
    <3>2. NothingGone(m, e)
      BY <1>1 DEF NothingGone
    <3> QED
      BY <1>2, <1>3, <3>1, <3>2, StillUnanswered
  <2>2. CASE e.rexmt = 0
    BY <1>3, <2>2, FreshUnanswered
  <2>3. CASE m = n /\ e = Served(n) /\ (e.ack => OnAir({AckReqFrame(n, e.hop, e.id)}) \subseteq net')
    <3> SUFFICES ASSUME e.ack, <<n, e.hop>> \in radio
                 PROVE  losses + 1 >= e.rexmt /\ \E g \in net' : Carries(g, n, e)
      BY <1>2, <2>3 DEF Unanswered, UnderWay, Carries
    <3>1. losses + 1 >= e.rexmt
      BY <2>3, ServedUnanswered
    <3>2. PICK g : g = AckReqFrame(n, e.hop, e.id)
      OBVIOUS
    <3>3. Carries(g, n, e) /\ g.from = n /\ g.to = e.hop
      BY <3>2 DEF Carries, AckReqFrame
    <3>4. g \in net'
      BY <2>3, <3>2, <3>3 DEF OnAir
    <3> QED
      BY <3>1, <3>3, <3>4
  <2> QED
    BY <1>1, <2>1, <2>2, <2>3
<1>5. AskedInv'
  BY <1>4 DEF AskedInv
<1>6. ErrorInv'
  <2> SUFFICES ASSUME NEW g \in net', g.kind = "rerr"
               PROVE  <<g.path[1], g.unr>> \notin radio /\ <<g.unr, g.path[1]>> \notin radio
    BY <1>2 DEF ErrorInv
  <2>1. CASE g \in net
    BY <2>1 DEF LossInv, ErrorInv
  <2>2. CASE GivenUp(n) /\ g.path[1] = n /\ g.unr = Served(n).hop
    BY <2>2, GivenUpBroken
  <2> QED
    BY <1>1, <2>1, <2>2
<1> QED
  BY <1>3, <1>5, <1>6 DEF LossInv

\* Every step keeps the invariant.
LEMMA LossStep == MaintInv /\ LossInv /\ [Next]_vars => LossInv'
<1> SUFFICES ASSUME MaintInv, LossInv, [Next]_vars PROVE LossInv'
  OBVIOUS
<1>1. CASE Receive
  BY <1>1, RecvDataLoss, RecvAckReqLoss, RecvAckLoss, RecvRerrLoss DEF Receive
<1>2. CASE TimerServed
  BY <1>2, TimeoutLoss DEF TimerServed
<1>3. CASE \E p \in Pkts : StartXmit(p)
  BY <1>3, StartXmitLoss
<1>4. CASE \E pair \in Breakable : Break(pair)
  BY <1>4, BreakLoss
<1>5. CASE \E f \in net : Lose(f)
  BY <1>5, LoseLoss
<1>6. CASE UNCHANGED vars
  <2>1. RadioInv'
    BY <1>6 DEF vars, LossInv, RadioInv
  <2>2. AskedInv'
    BY <1>6 DEF vars, LossInv, AskedInv, Unanswered, UnderWay, Carries
  <2>3. ErrorInv'
    BY <1>6 DEF vars, LossInv, ErrorInv
  <2> QED
    BY <2>1, <2>2, <2>3 DEF LossInv
<1> QED
  BY <1>1, <1>2, <1>3, <1>4, <1>5, <1>6 DEF Next

\* What a step takes from a cache.
LinksKept == \A n \in Node : (cache[n] \ cache'[n]) \cap radio = {}

\* Learning takes nothing from a cache.
LEMMA LearnAdds ==
  ASSUME NEW c, NEW p, NEW at, NEW b
  PROVE  c \subseteq LearnTravelled(c, p, at, b)
  BY DEF LearnTravelled, LearnRoute

\* Deleting a link takes no other.
LEMMA LinkDelTakes ==
  ASSUME NEW c, NEW u, NEW v
  PROVE  c \ {<<u, v>>, <<v, u>>} \subseteq LinkDel(c, u, v)
  BY DEF LinkDel

\* No step takes a working link from a cache.
LEMMA KeptStep == MaintInv /\ LossInv /\ [Next]_vars => [LinksKept]_vars
<1> SUFFICES ASSUME MaintInv, LossInv, Next PROVE LinksKept
  OBVIOUS
<1>1. ASSUME cache' = cache PROVE LinksKept
  BY <1>1 DEF LinksKept
<1>2. ASSUME NEW f \in net, RecvData(f) PROVE LinksKept
  <2>1. PICK b \in BidirFlags : cache' = [cache EXCEPT ![f.to] = LearnTravelled(@, f.path, f.at, b)]
    BY <1>2 DEF RecvData, Learn
  <2>2. cache[f.to] \subseteq LearnTravelled(cache[f.to], f.path, f.at, b)
    BY LearnAdds
  <2> QED
    BY <2>1, <2>2 DEF LinksKept, MaintInv, CacheInv
<1>3. ASSUME NEW f \in net, RecvRerr(f) PROVE LinksKept
  <2>1. PICK b \in BidirFlags :
          cache' = [cache EXCEPT ![f.to] = LinkDel(LearnTravelled(@, f.path, f.at, b), f.path[1], f.unr)]
    BY <1>3 DEF RecvRerr
  <2>2. PICK k : k = LearnTravelled(cache[f.to], f.path, f.at, b)
    OBVIOUS
  <2>3. cache[f.to] \subseteq k
    BY <2>2, LearnAdds
  <2>4. k \ {<<f.path[1], f.unr>>, <<f.unr, f.path[1]>>} \subseteq LinkDel(k, f.path[1], f.unr)
    BY LinkDelTakes
  <2>5. <<f.path[1], f.unr>> \notin radio /\ <<f.unr, f.path[1]>> \notin radio
    BY <1>3 DEF RecvRerr, LossInv, ErrorInv
  <2> QED
    BY <2>1, <2>2, <2>3, <2>4, <2>5 DEF LinksKept, MaintInv, CacheInv
<1>4. ASSUME NEW n \in Node, Timeout(n) PROVE LinksKept
  <2>1. CASE cache' = cache
    BY <1>1, <2>1
  <2>2. CASE GivenUp(n) /\ cache' = [cache EXCEPT ![n] = LinkDel(cache[n], n, Served(n).hop)]
    <3>1. <<n, Served(n).hop>> \notin radio /\ <<Served(n).hop, n>> \notin radio
      BY <1>4, <2>2, GivenUpBroken
    <3>2. cache[n] \ {<<n, Served(n).hop>>, <<Served(n).hop, n>>} \subseteq
            LinkDel(cache[n], n, Served(n).hop)
      BY LinkDelTakes
    <3> QED
      BY <2>2, <3>1, <3>2 DEF LinksKept, MaintInv, CacheInv
  <2> QED
    BY <1>4, <2>1, <2>2, TimeoutKeeps
<1>5. \/ \E f \in net : RecvData(f) \/ RecvRerr(f)
      \/ \E n \in Node : Timeout(n)
      \/ cache' = cache
  BY DEF Next, Receive, TimerServed, RecvAckReq, RecvAck, StartXmit, Break, Lose
<1> QED
  BY <1>1, <1>2, <1>3, <1>4, <1>5

\* With links that work in both directions, and fewer losses than requests, no
\* node takes a link that works for broken: not by its own timeouts, whatever
\* requests, data packets and acknowledgements overlap and whichever packets
\* are salvaged, and not by a Route Error, however late it comes.
THEOREM LinksStayKept == ASSUME Symmetric PROVE Spec => WorkingLinksKept
<1>1. Init => LossInv
  BY LossInit
<1>2. MaintInv /\ LossInv /\ [Next]_vars => [\A n \in Node : (cache[n] \ cache'[n]) \cap radio = {}]_vars
  BY KeptStep DEF LinksKept
<1> QED
  BY <1>1, <1>2, MaintSafe, LossStep, PTL DEF Spec, WorkingLinksKept
=============================================================================
