----------------------------- MODULE RouteMaint -----------------------------
(***************************************************************************)
(* Route maintenance in a network of DSR-UU nodes whose links break while  *)
(* packets are under way.  Every node that sends a packet on keeps a copy, *)
(* and asks the next hop for an acknowledgement if it has not asked it     *)
(* within the hold-off time.  Without one the link is declared broken: it  *)
(* leaves the cache, the source is told by a Route Error, and the packets  *)
(* that waited for the next hop are salvaged over another cached route.    *)
(*                                                                         *)
(* MaintBuf has the timer, the list order and the limits of the buffer of  *)
(* one node; here a node handles a packet or a timeout in one step (ns-2,  *)
(* uniprocessor kernel), all neighbours have the same round-trip estimate, *)
(* every node knows its neighbours, and RouteDiscovery has filled the      *)
(* caches before.  Timeouts are patient: longer than the exchange they     *)
(* guard.                                                                  *)
(***************************************************************************)
EXTENDS SourceRoute

CONSTANTS
  Node,
  Edges,          \* pairs <<u, v>> such that v receives what u sends
  Pkts,           \* packets of the applications
  SrcOf, DstOf,   \* their IP addresses
  FirstId,        \* the ids the nodes have got to in their ACK REQs
  MaxMaintRexmt,  \* timeouts until a packet is given up
  Breakable,      \* pairs of nodes that may lose sight of each other
  MaxBreaks,      \* bound on the links that break
  MaxLosses,      \* bound on the frames that are lost
  BidirFlags,     \* values of SRT_BIDIR in the uninitialised srt->flags
  NULL

ASSUME MaintEnds ==
  /\ IsFiniteSet(Node) /\ Edges \subseteq Node \X Node
  /\ SrcOf \in [Pkts -> Node] /\ DstOf \in [Pkts -> Node]
  /\ \A p \in Pkts : SrcOf[p] # DstOf[p]
\* One of the requests for a salvaged packet may carry a stale id and be of no
\* use; of the others one is answered.
ASSUME MaintBounds ==
  /\ MaxMaintRexmt \in Nat /\ MaxBreaks \in Nat
  /\ MaxLosses \in Nat /\ MaxLosses + 1 < MaxMaintRexmt
  /\ BidirFlags \subseteq BOOLEAN /\ BidirFlags # {}
  /\ FirstId \in [Node -> Nat] /\ Breakable \subseteq SUBSET Node
ASSUME NoRequest == NULL \notin Nat

VARIABLES
  radio,    \* the links that work
  cache,    \* per node: the links of its link cache
  mb,       \* per node: the maintenance buffer, and what neigh_tbl says of
            \* the neighbours: the next id, and who was asked in the last
            \* MaintHoldoffTime (or longer ago, see Later)
  net,      \* frames in the air
  place,    \* per packet: handed over by the application, delivered
  losses    \* frames lost so far

vars == <<radio, cache, mb, net, place, losses>>

\* Frames.  req is the id in the ACK REQ option of a data packet, or NULL.
DataFrame(path, at, salv, pkt, req) ==
  [kind |-> "data", from |-> path[at - 1], to |-> path[at], path |-> path, at |-> at,
   salv |-> salv, pkt |-> pkt, req |-> req]
RerrFrame(path, at, unr) ==
  [kind |-> "rerr", from |-> path[at - 1], to |-> path[at], path |-> path, at |-> at,
   unr |-> unr]
AckFrame(n, m, id) == [kind |-> "ack", from |-> n, to |-> m, id |-> id]
AckReqFrame(n, m, id) == [kind |-> "ackreq", from |-> n, to |-> m, id |-> id]

\* The options of a packet as this node got it: what is buffered and, if need
\* be, salvaged.  Its own packets have none.
NoOptions(p) == [path |-> <<>>, salv |-> 0, pkt |-> p, req |-> NULL]
Options(f) == [path |-> f.path, salv |-> f.salv, pkt |-> f.pkt, req |-> f.req]

\* struct maint_entry.
EntryOf(opt, hop, id, ask) ==
  [opt |-> opt, hop |-> hop, id |-> id, ack |-> ask, rexmt |-> 0]

Init ==
  /\ radio = Edges /\ cache = [n \in Node |-> Edges]
  /\ mb = [n \in Node |-> [buf |-> <<>>, next |-> [m \in Node |-> FirstId[n]],
                           recent |-> {m \in Node : <<n, m>> \in Edges}]]
  /\ net = {} /\ place = [p \in Pkts |-> "app"] /\ losses = 0

----------------------------------------------------------------------------
\* A frame is received if the link works when it is sent.
OnAir(F) == {f \in F : <<f.from, f.to>> \in radio}

\* dsr_ack_req_opt_add: overwrites the ACK REQ the packet came with.
WithAckReq(f, id) == [f EXCEPT !.req = id]

\* XMIT of a data packet, with maint_buf_add: b is the node's part of mb and
\* out the frames sent so far.  Without an ACK REQ of its own the packet keeps
\* the one it came with; so it does if the place of that option is not in the
\* packet any more (~placed).
SendData(st, opt, f, placed) ==
  LET ask == f.to \notin st.b.recent
      id  == st.b.next[f.to]
  IN  [b   |-> [buf    |-> Append(st.b.buf, EntryOf(opt, f.to, id, ask)),
                next   |-> IF ask THEN [st.b.next EXCEPT ![f.to] = @ + 1] ELSE st.b.next,
                recent |-> IF ask THEN st.b.recent \cup {f.to} ELSE st.b.recent],
       out |-> st.out \cup {IF ask /\ placed THEN WithAckReq(f, id) ELSE f}]

\* The handler at node n ends: the buffer and the air.
Finish(n, st, rest) ==
  /\ mb' = [mb EXCEPT ![n] = st.b]
  /\ net' = rest \cup OnAir(st.out)

\* The hold-off time passes between two steps: of the next hops in H some may
\* be asked again.
Later(n, H) ==
  {[mb[n] EXCEPT !.recent = @ \ gone] : gone \in SUBSET (H \cap mb[n].recent)}

\* dsr_start_xmit with a route in the cache.
StartXmit(p) ==
  LET n == SrcOf[p]
  IN  /\ place[p] = "app" /\ place' = [place EXCEPT ![p] = "sent"]
      /\ \E r \in Lookup(cache[n], n, DstOf[p]) : \E b \in Later(n, {r[2]}) :
           Finish(n, SendData([b |-> b, out |-> {}], NoOptions(p),
                              DataFrame(r, 2, 0, p, NULL), TRUE), net)
      /\ UNCHANGED <<radio, cache, losses>>

\* dsr_ack_req_opt_recv: the previous hop, whoever asked, gets the answer.
AckPrevious(f) == IF f.req = NULL THEN {} ELSE {AckFrame(f.to, f.from, f.req)}

Learn(f) ==
  \E b \in BidirFlags : cache' = [cache EXCEPT ![f.to] = LearnTravelled(@, f.path, f.at, b)]

\* A data packet arrives: delivered, or sent on.
RecvData(f) ==
  LET n == f.to
      next == DataFrame(f.path, f.at + 1, f.salv, f.pkt, f.req)
      Acking(b) == [b |-> b, out |-> AckPrevious(f)]
  IN
  /\ f.kind = "data"
  /\ Learn(f)
  /\ \/ /\ f.at = Len(f.path)
        /\ place' = [place EXCEPT ![f.pkt] = "delivered"]
        /\ Finish(n, Acking(mb[n]), net \ {f})
     \/ /\ f.at < Len(f.path)
        /\ \E b \in Later(n, {next.to}) :
             Finish(n, SendData(Acking(b), Options(f), next, TRUE), net \ {f})
        /\ UNCHANGED place
  /\ UNCHANGED <<radio, losses>>

\* dsr_ack_req_opt_recv for a request on its own.
RecvAckReq(f) ==
  /\ f.kind = "ackreq"
  /\ net' = (net \ {f}) \cup OnAir({AckFrame(f.to, f.from, f.id)})
  /\ UNCHANGED <<radio, cache, mb, place, losses>>

\* __tbl_for_each_del and __tbl_find_detach walk the list: the entries of s
\* that are in A, in their order; run[i] are those of the first i.
Kept(s, A) ==
  LET run[i \in 0..Len(s)] ==
        IF i = 0 THEN <<>>
        ELSE IF s[i] \in A THEN Append(run[i - 1], s[i]) ELSE run[i - 1]
  IN  run[Len(s)]

\* crit_addr: the entries that wait for the next hop h.
ForHop(s, h) == {e \in Range(s) : e.hop = h}

\* Mutant: the acknowledgement is for the packets before.
AckRemovesOlder(e, hop, id) == e.hop = hop /\ e.id < id

\* crit_addr_id_del.
AckRemoves(e, hop, id) == e.hop = hop /\ e.id <= id

\* dsr_ack_opt_recv.
RecvAck(f) ==
  /\ f.kind = "ack"
  /\ mb' = [mb EXCEPT ![f.to].buf = Kept(@, {e \in Range(@) : ~AckRemoves(e, f.from, f.id)})]
  /\ net' = net \ {f}
  /\ UNCHANGED <<radio, cache, place, losses>>

\* dsr_rerr_opt_recv, at every node on the way and at its destination: the
\* packets whose next hop is the destination of the error are dropped, and the
\* link leaves the cache.  Before that the source route is processed, which
\* also sends the error on.
RecvRerr(f) ==
  LET n == f.to
  IN
  /\ f.kind = "rerr"
  /\ \E b \in BidirFlags :
       cache' = [cache EXCEPT ![n] =
                   LinkDel(LearnTravelled(@, f.path, f.at, b), f.path[1], f.unr)]
  /\ mb' = [mb EXCEPT ![n].buf = Kept(@, Range(@) \ ForHop(@, Last(f.path)))]
  /\ net' = (net \ {f}) \cup
            (IF f.at = Len(f.path) THEN {} ELSE OnAir({RerrFrame(f.path, f.at + 1, f.unr)}))
  /\ UNCHANGED <<radio, place, losses>>

----------------------------------------------------------------------------
\* dsr_rerr_send for the entry e: to the source, or for a packet that was
\* salvaged to addrs[1].  Nothing for own packets, or without a route (c are
\* the links still cached).
RerrDst(e) == IF e.opt.salv = 0 THEN SrcOf[e.opt.pkt] ELSE e.opt.path[3]
RerrSend(n, c, e) ==
  LET routes == IF e.opt.path = <<>> THEN {} ELSE Lookup(c, n, RerrDst(e))
  IN  IF routes = {} THEN {{}} ELSE {{RerrFrame(r, 2, e.hop)} : r \in routes}

\* Mutant: the new route is not searched for duplicates.
SalvageRouteUnchecked(n, e, alt) ==
  IF alt = NULL \/ e.opt.path = <<>> THEN <<>>
  ELSE Concatenate(Split(e.opt.path, n), alt)

\* maint_buf_salvage of e over the cached route alt: the way the packet came,
\* continued by alt.  <<>> if it cannot be salvaged.  (A route whose first hop
\* is the failed one is that of an own packet, which has no options.)
SalvageRoute(n, e, alt) ==
  IF alt = NULL \/ e.opt.path = <<>> THEN <<>>
  ELSE LET new == Concatenate(Split(e.opt.path, n), alt)
       IN  IF HasDuplicate(new) THEN <<>> ELSE new

\* The options of a route of another length are copied to new memory, and
\* ack_req_opt is left pointing to the old.
Salvage(n, st, e, alt) ==
  LET new == SalvageRoute(n, e, alt)
      at  == Len(Split(e.opt.path, n)) + 1
  IN  IF new = <<>> THEN st
      ELSE SendData(st, e.opt, DataFrame(new, at, e.opt.salv + 1, e.opt.pkt, e.opt.req),
                    e.opt.req = NULL \/ Len(new) = Len(e.opt.path))

\* The loop of _maint_buf_timeout over the packets for the failed next hop:
\* run[i] is the buffer and the air after i of them.
SalvageAll(n, st, same, alt) ==
  LET run[i \in 0..Len(same)] ==
        IF i = 0 THEN st
        ELSE Salvage(n, run[i - 1], same[i], alt[DstOf[same[i].opt.pkt]])
  IN  run[Len(same)]

\* The routes lc_srt_find may return, one per destination.
Alternatives(n, c) ==
  {alt \in [{DstOf[p] : p \in Pkts} -> UNION {Lookup(c, n, DstOf[p]) : p \in Pkts} \cup {NULL}] :
     \A p \in Pkts : LET found == Lookup(c, n, DstOf[p])
                     IN  alt[DstOf[p]] \in (IF found = {} THEN {NULL} ELSE found)}

Awaited(n) == {e.hop : e \in {e \in Range(mb[n].buf) : e.ack}}

\* Mutant: the retransmission is not counted.
CountedNot(e) == e

\* m->rexmt++.
Counted(e) == [e EXCEPT !.rexmt = @ + 1]

\* _maint_buf_timeout: the first packet of the buffer has waited too long.
\* The ACK REQ is repeated with its id; or the packet, which nobody was asked
\* to acknowledge, is dropped; or the link is declared broken.
Timeout(n) ==
  LET e     == Counted(Head(mb[n].buf))
      rest  == Tail(mb[n].buf)
      c     == LinkDel(cache[n], n, e.hop)
      same  == <<e>> \o Kept(rest, ForHop(rest, e.hop))
      other == Kept(rest, Range(rest) \ ForHop(rest, e.hop))
      Left(b, buf, out) == [b |-> [b EXCEPT !.buf = buf], out |-> out]
  IN
  /\ Awaited(n) # {}
  /\ \A f \in net : ~\E h \in Awaited(n) : {f.from, f.to} = {n, h}
  /\ \/ /\ e.rexmt < MaxMaintRexmt
        /\ Finish(n, Left(mb[n], Append(rest, e),
                          IF e.ack THEN {AckReqFrame(n, e.hop, e.id)} ELSE {}), net)
        /\ UNCHANGED cache
     \/ /\ e.rexmt >= MaxMaintRexmt /\ ~e.ack
        /\ Finish(n, Left(mb[n], rest, {}), net)
        /\ UNCHANGED cache
     \/ /\ e.rexmt >= MaxMaintRexmt /\ e.ack
        /\ cache' = [cache EXCEPT ![n] = c]
        /\ \E err \in RerrSend(n, c, e), alt \in Alternatives(n, c) :
           \E b \in Later(n, {a[2] : a \in Range(alt) \ {NULL}}) :
             Finish(n, SalvageAll(n, Left(b, other, err), same, alt), net)
  /\ UNCHANGED <<radio, place, losses>>

\* Two nodes move out of each other's reach.
Break(pair) ==
  /\ Cardinality(Edges) - Cardinality(radio) < 2 * MaxBreaks
  /\ radio \cap (pair \X pair) # {} /\ radio' = radio \ (pair \X pair)
  /\ UNCHANGED <<cache, mb, net, place, losses>>

\* The radio loses a frame.
Lose(f) ==
  /\ losses < MaxLosses /\ losses' = losses + 1
  /\ net' = net \ {f}
  /\ UNCHANGED <<radio, cache, mb, place>>

Receive == \E f \in net : RecvData(f) \/ RecvAckReq(f) \/ RecvAck(f) \/ RecvRerr(f)
TimerServed == \E n \in Node : Timeout(n)

Next ==
  \/ Receive \/ TimerServed
  \/ \E p \in Pkts : StartXmit(p)
  \/ \E pair \in Breakable : Break(pair)
  \/ \E f \in net : Lose(f)

Spec == Init /\ [][Next]_vars

\* The nodes do not all stop while frames are in the air or timers run.
FairSpec == Spec /\ WF_vars(Receive \/ TimerServed)

----------------------------------------------------------------------------
\* No link that works is taken for broken, at the node itself or after a Route
\* Error, whatever packets, requests and acknowledgements overlap: an entry is
\* given up only if the next hop was asked and cannot have answered.  (With one
\* more loss than MaintBounds allows it is false: see Salvage.)
WorkingLinksKept ==
  [][\A n \in Node : (cache[n] \ cache'[n]) \cap radio = {}]_vars

\* A salvaged packet never comes back to a node it has been at, although the
\* caches it is salvaged from still hold links that are gone.
LoopFree == \A f \in net : f.kind \in {"data", "rerr"} => ~HasDuplicate(f.path)

\* The network comes to rest: no exchange of requests, acknowledgements,
\* errors and salvaged packets goes on for ever.
ComesToRest == <>[](net = {} /\ \A n \in Node : Awaited(n) = {})
=============================================================================
