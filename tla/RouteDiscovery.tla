--------------------------- MODULE RouteDiscovery ---------------------------
(***************************************************************************)
(* Route discovery in a network of DSR-UU nodes: dsr_start_xmit buffers a  *)
(* packet without a route and floods a Route Request; nodes append their   *)
(* address and rebroadcast it, or answer it from their cache; the Route    *)
(* Reply travels back on the reversed route, and the buffered packets      *)
(* leave on the route it carries.  On the way every node learns links.     *)
(*                                                                         *)
(* A node handles one packet at a time (dsr_recv, under ns-2 or with       *)
(* bottom halves off); interleaving is that of frames, timers and          *)
(* packets of the application.  A node's own request that comes back is    *)
(* processed, as in the kernel module (ns-agent.cc:404 ignores it).  The   *)
(* tables are as large as they need to be, except the one of the request   *)
(* ids: SendBuf, RreqTbl, LinkCache and MaintBuf are about their limits,   *)
(* their timers and their memory.  The hop limit of a request is left out: *)
(* it is copied from hop to hop and nothing looks at it (dsr-rreq.c:653    *)
(* and FORWARD_RREQ in dsr-io.c:91).                                       *)
(***************************************************************************)
EXTENDS SourceRoute

CONSTANTS
  Node,
  Edges,        \* pairs <<u, v>> such that v receives what u sends
  Pkts,         \* packets of the applications
  SrcOf, DstOf, \* their IP addresses
  MaxRexmt,     \* MaxRequestRexmt
  IdRoom,       \* ids the request table of a node has room for
  BidirFlags,   \* values of SRT_BIDIR in the uninitialised srt->flags
  Promisc,      \* nodes that overhear frames (ns-2 tap, PACKET_OTHERHOST)
  Lossy,        \* frames may be lost
  MaxBreaks,    \* bound on lc_link_del calls
  NULL

ASSUME NodeEdges == IsFiniteSet(Node) /\ Edges \subseteq Node \X Node
ASSUME PktEnds ==
  /\ SrcOf \in [Pkts -> Node] /\ DstOf \in [Pkts -> Node]
  /\ \A p \in Pkts : SrcOf[p] # DstOf[p]
ASSUME DiscoveryNums ==
  /\ MaxRexmt \in Nat /\ IdRoom \in Nat \ {0}
  /\ MaxBreaks \in Nat
  /\ BidirFlags \subseteq BOOLEAN /\ BidirFlags # {}
  /\ Promisc \subseteq Node /\ Lossy \in BOOLEAN
ASSUME NoDiscovery == NULL \notin Nat

VARIABLES
  cache,    \* per node: the links of its link cache, all of cost 1
  neigh,    \* per node: the neighbours in neigh_tbl
  seen,     \* per node: <<initiator, target, id>> of requests in rreq_tbl
  disc,     \* per node and target: num_rexmts while STATE_IN_ROUTE_DISC
  seqno,    \* per node: rreq_seqno
  grat,     \* per node: <<src, prev_hop>> in grat_rrep_tbl
  net,      \* frames in the air
  place,    \* per packet: where it is
  breaks    \* lc_link_del calls so far

vars == <<cache, neigh, seen, disc, seqno, grat, net, place, breaks>>

\* Frames.  A source routed frame carries a Route Reply (reply is the route
\* without its first address, which is the destination of the frame) or data.
Rreq(to, path, target, id) ==
  [kind |-> "rreq", to |-> to, path |-> path, target |-> target, id |-> id]
Rrep(path, at, reply) ==
  [kind |-> "rrep", to |-> path[at], path |-> path, at |-> at, reply |-> reply]
Data(path, at, p) ==
  [kind |-> "data", to |-> path[at], path |-> path, at |-> at, pkt |-> p]

Neighbours(n) == {m \in Node : <<n, m>> \in Edges}

Init ==
  /\ cache = [n \in Node |-> {}] /\ neigh = [n \in Node |-> {}]
  /\ seen = [n \in Node |-> {}] /\ grat = [n \in Node |-> {}]
  /\ disc = [n \in Node |-> [t \in Node |-> NULL]]
  /\ seqno = [n \in Node |-> 0]
  /\ net = {} /\ place = [p \in Pkts |-> "app"] /\ breaks = 0

----------------------------------------------------------------------------
OrNull(S) == IF S = {} THEN {NULL} ELSE S

\* XMIT of a unicast frame needs the hardware address of the next hop (nb are
\* the known neighbours of n), and then the radio must reach it.
Reaches(n, nb, to) == to \in nb /\ <<n, to>> \in Edges
Xmit(n, nb, f) == IF Reaches(n, nb, f.to) THEN {f} ELSE {}

\* Mutant: the buffered packets are not looked at.
SendVerdictNone(n, d, c, nb, rest) == net' = rest /\ UNCHANGED place

\* send_buf_set_verdict(SEND_BUF_SEND, d): the packets waiting for d leave on
\* a route from the cache c, or are freed if there is none.  rest are the
\* other frames.
SendVerdict(n, d, c, nb, rest) ==
  LET waiting == {p \in Pkts : place[p] = "buffered" /\ SrcOf[p] = n /\ DstOf[p] = d}
      found == IF waiting = {} THEN {} ELSE Lookup(c, n, d)
  IN  \E r \in OrNull(found) :
        LET ok == r # NULL /\ Reaches(n, nb, r[2])
        IN  /\ net' = rest \cup (IF ok THEN {Data(r, 2, p) : p \in waiting} ELSE {})
            /\ place' = [p \in Pkts |-> IF p \notin waiting THEN place[p]
                                        ELSE IF ok THEN "sent" ELSE "lost"]

\* dsr_rreq_send: a broadcast with a new id.
RreqSend(n, target) ==
  /\ seqno' = [seqno EXCEPT ![n] = @ + 1]
  /\ net' = net \cup {Rreq(m, <<n>>, target, seqno[n] + 1) : m \in Neighbours(n)}

\* dsr_start_xmit with a route in the cache.
StartXmitRouted(p) ==
  LET n == SrcOf[p]
  IN  /\ place[p] = "app"
      /\ \E r \in Lookup(cache[n], n, DstOf[p]) :
           /\ net' = net \cup Xmit(n, neigh[n], Data(r, 2, p))
           /\ place' = [place EXCEPT ![p] =
                          IF Reaches(n, neigh[n], r[2]) THEN "sent" ELSE "lost"]
      /\ UNCHANGED <<cache, neigh, seen, disc, seqno, grat, breaks>>

\* dsr_start_xmit without one: the packet is buffered, and a discovery
\* started unless one is under way (dsr_rreq_route_discovery).
StartXmitBuffered(p) ==
  LET n == SrcOf[p]
      d == DstOf[p]
  IN  /\ place[p] = "app"
      /\ Lookup(cache[n], n, d) = {}
      /\ place' = [place EXCEPT ![p] = "buffered"]
      /\ IF disc[n][d] = NULL
         THEN disc' = [disc EXCEPT ![n][d] = 0] /\ RreqSend(n, d)
         ELSE UNCHANGED <<disc, seqno, net>>
      /\ UNCHANGED <<cache, neigh, seen, grat, breaks>>

\* rreq_tbl_timeout: another request with a new id, or the end of the
\* discovery.
RreqTimeout(n, t) ==
  /\ disc[n][t] # NULL
  /\ IF disc[n][t] = MaxRexmt
     THEN disc' = [disc EXCEPT ![n][t] = NULL] /\ UNCHANGED <<seqno, net>>
     ELSE /\ disc' = [disc EXCEPT ![n][t] = @ + 1]
          /\ RreqSend(n, t)
  /\ UNCHANGED <<cache, neigh, seen, grat, place, breaks>>

----------------------------------------------------------------------------
\* dsr_rreq_opt_recv at node f.to.
RreqKey(f) == <<f.path[1], f.target, f.id>>

\* dsr_rreq_duplicate.
RreqDuplicate(f) ==
  /\ RreqKey(f) \in seen[f.to]
  /\ net' = net \ {f}
  /\ UNCHANGED <<cache, neigh, seen, disc, seqno, grat, place, breaks>>

\* rreq_tbl_add_id.  A full table forgets the oldest id or the oldest
\* initiator; the model forgets any one id.
RecordId(S, key) ==
  IF Cardinality(S) < IdRoom THEN {S \cup {key}} ELSE {(S \ {old}) \cup {key} : old \in S}

\* Mutant: the initiator is taken for the last hop.
RreqLearnInitiator(f) ==
  LET n == f.to
  IN  /\ RreqKey(f) \notin seen[n]
      /\ \E S \in RecordId(seen[n], RreqKey(f)) : seen' = [seen EXCEPT ![n] = S]
      /\ \E b \in BidirFlags :
           cache' = [cache EXCEPT ![n] = LearnRoute(@, Rev(Append(f.path, n)), b)]
      /\ neigh' = [neigh EXCEPT ![n] = @ \cup {f.path[1]}]

\* The part every new request goes through: it is recorded, the reversed
\* route is cached, and its last hop becomes a neighbour.
RreqLearn(f) ==
  LET n == f.to
  IN  /\ RreqKey(f) \notin seen[n]
      /\ \E S \in RecordId(seen[n], RreqKey(f)) : seen' = [seen EXCEPT ![n] = S]
      /\ \E b \in BidirFlags :
           cache' = [cache EXCEPT ![n] = LearnRoute(@, Rev(Append(f.path, n)), b)]
      /\ neigh' = [neigh EXCEPT ![n] = @ \cup {Last(f.path)}]

\* The rest of the handler sends the frames out.
RreqFinish(f, out) ==
  /\ SendVerdict(f.to, f.path[1], cache'[f.to], neigh'[f.to], (net \ {f}) \cup out)
  /\ UNCHANGED <<disc, seqno, grat, breaks>>

\* dsr_rrep_send: reply is the route from the initiator, back the way to it.
RrepSend(n, nb, back, reply) == Xmit(n, nb, Rrep(back, 2, Tail(reply)))

\* This node is the target.
RreqForMe(f) ==
  LET path == Append(f.path, f.to)
  IN  /\ f.target = f.to
      /\ RreqLearn(f)
      /\ RreqFinish(f, RrepSend(f.to, neigh'[f.to], Rev(path), path))

\* Mutant: only the initiator is looked at.
RreqVisitedInitiator(f) == f.path[1] = f.to

\* It comes from this node, or has been here before.
RreqVisited(f) == \E i \in 1..Len(f.path) : f.path[i] = f.to

RreqDrop(f) ==
  /\ f.target # f.to /\ RreqVisited(f)
  /\ RreqLearn(f)
  /\ RreqFinish(f, {})

\* A cached route to the target continues the route of the request.
RreqCachedReply(f) ==
  LET n == f.to
      path == Append(f.path, n)
  IN  /\ f.target # n /\ ~RreqVisited(f)
      /\ RreqLearn(f)
      /\ \E r \in Lookup(cache'[n], n, f.target) :
           LET cat == Concatenate(path, r)
           IN  /\ ~HasDuplicate(cat)
               /\ RreqFinish(f, RrepSend(n, neigh'[n], Rev(path), cat))

\* Mutant: the address of this node is not appended.
RreqForwardUnlisted(f) ==
  LET n == f.to
  IN  /\ f.target # n /\ ~RreqVisited(f)
      /\ RreqLearn(f)
      /\ \A r \in Lookup(cache'[n], n, f.target) : HasDuplicate(Concatenate(Append(f.path, n), r))
      /\ RreqFinish(f, {Rreq(m, f.path, f.target, f.id) : m \in Neighbours(n)})

\* Otherwise it is rebroadcast with this node's address appended.
RreqForward(f) ==
  LET n == f.to
      path == Append(f.path, n)
      found == Lookup(cache'[n], n, f.target)
  IN  /\ f.target # n /\ ~RreqVisited(f)
      /\ RreqLearn(f)
      /\ \E r \in OrNull(found) : r # NULL => HasDuplicate(Concatenate(path, r))
      /\ RreqFinish(f, {Rreq(m, path, f.target, f.id) : m \in Neighbours(n)})

RreqRecv(f) ==
  /\ f.kind = "rreq"
  /\ \/ RreqDuplicate(f) \/ RreqForMe(f) \/ RreqDrop(f)
     \/ RreqCachedReply(f) \/ RreqForward(f)

----------------------------------------------------------------------------
\* dsr_srt_opt_recv for a frame sent to this node: the previous hop becomes a
\* neighbour, and the links the packet has travelled are cached.
SrtLearnt(f, b) == LearnTravelled(cache[f.to], f.path, f.at, b)

SrtNeigh(f) == neigh' = [neigh EXCEPT ![f.to] = @ \cup {f.path[f.at - 1]}]

\* DSR_PKT_FORWARD: the frame goes to the next address of its route.
Forwarded(f) == [f EXCEPT !.at = @ + 1, !.to = f.path[f.at + 1]]
SrtForward(f) == Xmit(f.to, neigh'[f.to], Forwarded(f))

\* DSR_PKT_DELIVER.
DataDeliver(f) ==
  /\ f.kind = "data" /\ f.at = Len(f.path)
  /\ \E b \in BidirFlags : cache' = [cache EXCEPT ![f.to] = SrtLearnt(f, b)]
  /\ SrtNeigh(f)
  /\ net' = net \ {f}
  /\ place' = [place EXCEPT ![f.pkt] = "delivered"]
  /\ UNCHANGED <<seen, disc, seqno, grat, breaks>>

DataForward(f) ==
  /\ f.kind = "data" /\ f.at < Len(f.path)
  /\ \E b \in BidirFlags : cache' = [cache EXCEPT ![f.to] = SrtLearnt(f, b)]
  /\ SrtNeigh(f)
  /\ net' = (net \ {f}) \cup SrtForward(f)
  /\ place' = [place EXCEPT ![f.pkt] = IF SrtForward(f) = {} THEN "lost" ELSE @]
  /\ UNCHANGED <<seen, disc, seqno, grat, breaks>>

\* dsr_rrep_opt_recv: the route of the reply starts at the IP destination.
ReplyRoute(f) == <<Last(f.path)>> \o f.reply

\* Mutant: the route of the reply is not cached.
RrepLearnNoRoute(f) ==
  /\ \E b \in BidirFlags : cache' = [cache EXCEPT ![f.to] = SrtLearnt(f, b)]
  /\ SrtNeigh(f)
  /\ disc' = [disc EXCEPT ![f.to][Last(f.reply)] = NULL]

\* Both options of the packet are processed: the source route, then the reply,
\* whose route is cached and whose target is no longer sought.
RrepLearn(f) ==
  LET n == f.to
  IN  /\ \E b1, b2 \in BidirFlags :
           cache' = [cache EXCEPT ![n] = LearnRoute(SrtLearnt(f, b1), ReplyRoute(f), b2)]
      /\ SrtNeigh(f)
      /\ disc' = [disc EXCEPT ![n][Last(f.reply)] = NULL]

\* The reply is for this node: DSR_PKT_SEND_BUFFERED.
RrepForMe(f) ==
  /\ f.kind = "rrep" /\ f.at = Len(f.path)
  /\ RrepLearn(f)
  /\ SendVerdict(f.to, Last(f.reply), cache'[f.to], neigh'[f.to], net \ {f})
  /\ UNCHANGED <<seen, seqno, grat, breaks>>

RrepForward(f) ==
  /\ f.kind = "rrep" /\ f.at < Len(f.path)
  /\ RrepLearn(f)
  /\ net' = (net \ {f}) \cup SrtForward(f)
  /\ UNCHANGED <<seen, seqno, grat, place, breaks>>

\* A node overhears a source routed frame sent to another one.  The route up
\* to the transmitter is cached (all of it at the destination), other options
\* are skipped.  If this node comes later on the route, it tells the source
\* with a gratuitous reply that the hops in between are not needed (automatic
\* route shortening), once while the pair is in grat_rrep_tbl.
Tap(n, f) ==
  LET prv  == f.path[f.at - 1]
      src  == f.path[1]
      cut  == Shortcut(f.path, prv, n)
      back == IF Len(cut) = 2 THEN Rev(cut) ELSE Rev(Split(cut, n))
  IN
  /\ n \in Promisc /\ f.kind # "rreq"
  /\ n # f.to /\ n # src /\ <<prv, n>> \in Edges
  /\ \E b \in BidirFlags :
       cache' = [cache EXCEPT ![n] =
         LearnRoute(@, IF Last(f.path) = n THEN f.path ELSE Split(f.path, prv), b)]
  /\ neigh' = [neigh EXCEPT ![n] = @ \cup {prv}]
  /\ IF AheadOf(f.path, f.at, n) /\ <<src, prv>> \notin grat[n] /\ back # <<>>
     THEN /\ grat' = [grat EXCEPT ![n] = @ \cup {<<src, prv>>}]
          /\ net' = net \cup RrepSend(n, neigh'[n], back, cut)
     ELSE UNCHANGED <<grat, net>>
  /\ UNCHANGED <<seen, disc, seqno, place, breaks>>

\* grat_rrep_tbl_timeout.
GratRrepTimeout(n) ==
  /\ \E e \in grat[n] : grat' = [grat EXCEPT ![n] = @ \ {e}]
  /\ UNCHANGED <<cache, neigh, seen, disc, seqno, net, place, breaks>>

\* lc_link_del, after a Route Error or a failed retransmission: both
\* directions go.  MaxBreaks bounds how often.
LcLinkDel(n, u, v) ==
  /\ breaks < MaxBreaks /\ <<u, v>> \in cache[n]
  /\ cache' = [cache EXCEPT ![n] = LinkDel(@, u, v)]
  /\ breaks' = breaks + 1
  /\ UNCHANGED <<neigh, seen, disc, seqno, grat, net, place>>

\* The radio loses a frame.
Lose(f) ==
  /\ Lossy
  /\ net' = net \ {f}
  /\ place' = IF f.kind = "data" THEN [place EXCEPT ![f.pkt] = "lost"] ELSE place
  /\ UNCHANGED <<cache, neigh, seen, disc, seqno, grat, breaks>>

Receive ==
  \E f \in net : \/ RreqRecv(f)
                 \/ DataDeliver(f) \/ DataForward(f) \/ RrepForMe(f) \/ RrepForward(f)
Timeout == \E n, t \in Node : RreqTimeout(n, t)
Send == \E p \in Pkts : StartXmitRouted(p) \/ StartXmitBuffered(p)

Next ==
  \/ Send \/ Receive \/ Timeout
  \/ \E n \in Node : GratRrepTimeout(n) \/ \E f \in net : Tap(n, f)
  \/ \E n, u, v \in Node : LcLinkDel(n, u, v)
  \/ \E f \in net : Lose(f)

Spec == Init /\ [][Next]_vars

\* While frames are in the air some frame arrives, and timers expire.
FairSpec == Spec /\ WF_vars(Receive) /\ WF_vars(Timeout)

----------------------------------------------------------------------------
FrameRoute(f) == IF f.kind = "rrep" THEN ReplyRoute(f) ELSE f.path

\* Source routes are loop free: no address comes twice in a request, in the
\* route a reply offers or in the route a packet follows, although tables
\* forget request ids and caches disagree about which links are gone.
LoopFree == \A f \in net : ~HasDuplicate(f.path) /\ ~HasDuplicate(FrameRoute(f))

\* Every first hop the cache of a node offers has been heard by it, with
\* requests, replies and packets overtaking one another and some of them lost,
\* so that XMIT knows its hardware address (ns-agent.cc:273, and
\* dsr_hw_header_create, which does not notice when it does not).  The one
\* exception needs SRT_BIDIR in an uninitialised srt->flags: the reverse of a
\* cached link to this node may lead to a node that it has never heard.
UnknownHopIsReverse ==
  \A n \in Node : \A l \in cache[n] :
    l[1] = n /\ l[2] \notin neigh[n] => TRUE \in BidirFlags /\ <<l[2], n>> \in cache[n]

\* A discovery that is cancelled by a frame, and not ended by its timer (which
\* then sends nothing), leaves the node with a route to the target, also when
\* the reply is one that it merely forwards.
CancelKnowsRoute ==
  [][\A n, t \in Node :
       disc[n][t] # NULL /\ disc'[n][t] = NULL /\ net' # net
         => Lookup(cache'[n], n, t) # {}]_vars

\* Every packet handed to DSR is delivered, if no frame is lost and its
\* destination is a node of the network.  (Not at a node that forwards replies
\* for others: it cancels its own discovery and leaves its packets waiting.)
EveryPacketDelivered ==
  \A p \in Pkts : Neighbours(DstOf[p]) # {} =>
    (place[p] = "buffered" ~> place[p] = "delivered")

\* A flood dies out, also when its target does not exist and the tables forget
\* the ids of requests that are still in the air.
FloodEnds == <>[](net = {})
=============================================================================
