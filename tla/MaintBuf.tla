------------------------------ MODULE MaintBuf ------------------------------
(***************************************************************************)
(* Route maintenance (maint-buf.c, with the neighbour ids of neigh.c and   *)
(* the acknowledgement options of dsr-ack.c).  A copy of every data packet *)
(* sent is kept until its next hop has acknowledged it.  One packet per    *)
(* MaintHoldoffTime and next hop carries an ACK REQ; its id covers the     *)
(* packets sent since the previous one.  After MaxMaintRexmt timeouts the  *)
(* link is removed from the cache and its packets are salvaged.            *)
(*                                                                         *)
(* The functions call each other: _maint_buf_set_timeout runs the timeout  *)
(* at once when it is overdue, and a salvaged packet is transmitted, hence *)
(* buffered, in the middle of the loop that empties the buffer.  stack is  *)
(* the stack of these calls; everything else waits until it is empty (the  *)
(* ns-2 agent and a uniprocessor kernel).                                  *)
(***************************************************************************)
EXTENDS Tbl, Sequences

CONSTANTS
  Pkts,               \* data packets this node sends or forwards
  Forwarded,          \* those that arrived with a source route option
  Hops,               \* neighbours, as next hops
  Carried,            \* id of the ACK REQ a packet arrived with, as a set
  MaxLens,            \* values of RexmtBufferSize
  Rto,                \* the timeout for every next hop, in ticks
  MaintHoldoffTime,   \* in ticks
  MaxMaintRexmt,
  IdMod               \* number of values of the 16 bit id

ASSUME MaintPkts  ==
  /\ Forwarded \subseteq Pkts
  /\ Carried \in [Pkts -> SUBSET Nat] /\ \A p \in Pkts \ Forwarded : Carried[p] = {}
ASSUME MaintLens  == MaxLens \subseteq Nat /\ MaxLens # {}
ASSUME MaintRto   == Rto \in [Hops -> Nat]
ASSUME MaintNums  ==
  /\ MaintHoldoffTime \in Nat /\ MaxMaintRexmt \in Nat
  /\ IdMod \in Nat \ {0}

VARIABLES
  buf,      \* the list maint_buf
  ent,      \* contents of its entries
  neigh,    \* per neighbour: the id in use and the time since last_ack_req
  known,    \* neighbours in neigh_tbl
  timer,    \* time left on ack_timer
  stack,    \* calls in progress, innermost first
  usable,   \* first hops of the routes in the cache
  reqs,     \* ACK REQs sent, as <<hop, id, own>>: each may be answered any
            \*   number of times, at any time, or never; own is FALSE for one
            \*   of the previous hop that was forwarded with its packet
  maxLen,   \* maint_buf.max_len
  up,       \* the module is loaded
  fate      \* what has become of each packet

vars == <<buf, ent, neigh, known, timer, stack, usable, reqs, maxLen, up, fate>>

Off == -1

\* struct maint_entry.  left is the time until expires, -1 once it has passed;
\* id is the neighbour's count of ACK REQs, of which the code keeps 16 bits.
EntryType ==
  [hop : Hops, rexmt : 0..MaxMaintRexmt, id : Nat, ack : BOOLEAN, left : Int]
Blank == [hop |-> "none", rexmt |-> 0, id |-> 0, ack |-> FALSE, left |-> 0]
NeighType == [id : Nat, since : 0..(MaintHoldoffTime + 1)]

SetTimeoutCall == <<"set_timeout">>
TimeoutCall    == <<"timeout">>
SalvageLoop(h) == <<"salvage", h>>
Calls == {SetTimeoutCall, TimeoutCall} \cup {SalvageLoop(h) : h \in Hops}
Call(f) == stack # <<>> /\ Head(stack) = f
Idle == up /\ stack = <<>>

Fates == {"new", "held", "passed", "acked", "rerr", "dropped", "silent", "leaked"}

\* The state of the buffer as one value: the functions that run inside other
\* ones take it and return the next.
Cur == [buf |-> buf, ent |-> ent, neigh |-> neigh, reqs |-> reqs,
        fate |-> fate]

BufOK(b) ==
  /\ IsTbl(b.buf, Pkts)
  /\ DOMAIN b.ent = Pkts
  /\ \A p \in Pkts :
       IF p \in Entries(b.buf)
       THEN b.ent[p] \in EntryType /\ b.ent[p].left \in -1..Rto[b.ent[p].hop]
       ELSE b.ent[p] = Blank
  /\ b.neigh \in [Hops -> NeighType]
  /\ b.reqs \subseteq Hops \X Nat \X BOOLEAN
  /\ b.fate \in [Pkts -> Fates]
  /\ \A p \in Pkts : p \in Entries(b.buf) <=> b.fate[p] = "held"

TypeOK ==
  /\ BufOK(Cur)
  /\ known \subseteq Hops /\ usable \subseteq Hops
  /\ timer \in Int /\ timer >= Off
  /\ stack \in Seq(Calls)
  /\ maxLen \in MaxLens /\ up \in BOOLEAN

Init ==
  /\ buf = EmptyTbl /\ ent = [p \in Pkts |-> Blank]
  /\ neigh = [h \in Hops |-> [id |-> 1, since |-> MaintHoldoffTime + 1]]
  /\ known = {} /\ usable = {} /\ timer = Off /\ stack = <<>> /\ reqs = {}
  /\ maxLen \in MaxLens /\ up = TRUE /\ fate = [p \in Pkts |-> "new"]

----------------------------------------------------------------------------
Becomes(b) ==
  /\ buf' = b.buf /\ ent' = b.ent /\ neigh' = b.neigh
  /\ reqs' = b.reqs /\ fate' = b.fate

\* The entries of S are unlinked and freed, their packets end as f.
Assign(g, S, v) == [p \in Pkts |-> IF p \in S THEN v ELSE g[p]]
Unlink(b, S, f) ==
  [buf |-> Without(b.buf, S), ent |-> Assign(b.ent, S, Blank), neigh |-> b.neigh,
   reqs |-> b.reqs, fate |-> Assign(b.fate, S, f)]

\* maint_buf_add up to the list operation: packet p is sent to h.  It is not
\* buffered if h is not in the neighbour table or the buffer is full, but in
\* the latter case the ACK REQ was already added to the packet.  A packet that
\* is not to be acknowledged keeps the ACK REQ of the previous hop, which the
\* next hop answers to this node.
Add(b, p, h) ==
  LET ask  == b.neigh[h].since > MaintHoldoffTime
      id   == b.neigh[h].id
      sent == IF ask THEN [b EXCEPT !.neigh[h] = [id |-> id + 1, since |-> 0],
                                    !.reqs = @ \cup {<<h, id, TRUE>>}]
                     ELSE [b EXCEPT !.reqs = @ \cup {<<h, i, FALSE>> : i \in Carried[p]}]
      new  == [hop |-> h, rexmt |-> 0, id |-> id, ack |-> ask, left |-> Rto[h]]
  IN  IF h \notin known THEN [b EXCEPT !.fate[p] = "passed"]
      ELSE IF TblFull(b.buf, maxLen) THEN [sent EXCEPT !.fate[p] = "passed"]
      ELSE [buf |-> AddTail(b.buf, p), ent |-> [b.ent EXCEPT ![p] = new],
            neigh |-> sent.neigh, reqs |-> sent.reqs,
            fate |-> [b.fate EXCEPT ![p] = "held"]]

\* maint_buf_add ends with _maint_buf_set_timeout if the packet was buffered.
After(b, p, st) == IF b.fate[p] = "held" THEN <<SetTimeoutCall>> \o st ELSE st

\* maint_buf_salvage of the unlinked packet p when the cache has routes over
\* the hops U: it fails for want of a route or of an old source route (as for
\* every packet that originated here), or if the new route has a loop;
\* otherwise the packet is sent over the new route.  The copy that is buffered
\* then has the options the packet arrived with, its salvage count included.
\* (The new id is taken to reach the option; RouteMaint has the case in which
\* dp->ack_req_opt still points to options that have been freed.)
Salvage(b, p, U) ==
  {[b EXCEPT !.fate[p] = "dropped"]}
  \cup {Add(b, p, h) : h \in IF p \in Forwarded THEN U ELSE {}}

\* Unlink p and salvage it; the caller goes on with the calls st.
SalvageStep(p, U, st) ==
  \E b \in Salvage(Unlink(Cur, {p}, "dropped"), p, U) :
    Becomes(b) /\ stack' = After(b, p, st)

----------------------------------------------------------------------------
\* XMIT of a data packet: dsr_start_xmit with a route from the cache, or the
\* next hop in the source route of a packet to forward.
Xmit(p, h) ==
  /\ Idle /\ fate[p] = "new" /\ (p \in Forwarded \/ h \in usable)
  /\ LET b == Add(Cur, p, h) IN Becomes(b) /\ stack' = After(b, p, <<>>)
  /\ UNCHANGED <<known, timer, usable, maxLen, up>>

\* Mutant: the timer is not set again.
SetTimeoutNever ==
  /\ Call(SetTimeoutCall) /\ stack' = Tail(stack)
  /\ UNCHANGED <<timer, buf, ent, neigh, known, usable, reqs, maxLen, up, fate>>

\* Mutant: a whole timeout from now on, not from the transmission.
SetTimeoutFromNow ==
  LET asked == FirstOf(buf, {p \in Entries(buf) : ent[p].ack})
  IN
  /\ Call(SetTimeoutCall)
  /\ IF \E m \in asked : ent[m].left = -1
     THEN stack' = <<TimeoutCall>> \o Tail(stack) /\ UNCHANGED timer
     ELSE /\ stack' = Tail(stack)
          /\ timer' = IF asked = {} THEN timer ELSE Rto[ent[CHOOSE m \in asked : TRUE].hop]
  /\ UNCHANGED <<buf, ent, neigh, known, usable, reqs, maxLen, up, fate>>

\* _maint_buf_set_timeout: the first packet that carried an ACK REQ decides.
SetTimeout ==
  LET asked == FirstOf(buf, {p \in Entries(buf) : ent[p].ack})
  IN
  /\ Call(SetTimeoutCall)
  /\ \/ /\ \A p \in Entries(buf) : ~ent[p].ack
        /\ stack' = Tail(stack) /\ UNCHANGED timer
     \/ \E m \in asked :
          \/ /\ ent[m].left < 0
             /\ stack' = <<TimeoutCall>> \o Tail(stack) /\ UNCHANGED timer
          \/ /\ ent[m].left >= 0
             /\ stack' = Tail(stack) /\ timer' = ent[m].left
  /\ UNCHANGED <<buf, ent, neigh, known, usable, reqs, maxLen, up, fate>>

\* The timer expires and calls maint_buf_timeout.
TimerExpires ==
  /\ Idle /\ timer = 0
  /\ timer' = Off /\ stack' = <<TimeoutCall>>
  /\ UNCHANGED <<buf, ent, neigh, known, usable, reqs, maxLen, up, fate>>

\* Mutant: the broken link stays in the cache.
HopDelNothing(h) == UNCHANGED usable

\* lc_link_del(my_addr(), h): no route found from now on starts with h.
HopDel(h) == usable' = usable \ {h}

\* Put the entry m back with a new transmission time, if there is room.
PutBack(m) ==
  LET r    == [ent[m] EXCEPT !.rexmt = @ + 1, !.left = Rto[ent[m].hop]]
      rest == Without(buf, {m})
  IN  IF TblFull(rest, maxLen) THEN Unlink(Cur, {m}, "leaked")
      ELSE [Cur EXCEPT
              !.buf    = AddBefore(rest, m, {q \in Entries(rest) : ent[q].left > r.left}),
              !.ent[m] = r]

\* _maint_buf_timeout: nothing while the timer is pending; otherwise the first
\* entry of the list, which need not be the one the timer was set for, counts
\* one more timeout.  Only the ACK REQ is sent again, with the same id.
Timeout ==
  /\ Call(TimeoutCall)
  /\ \/ /\ timer # Off \/ Entries(buf) = {}
        /\ stack' = Tail(stack)
        /\ UNCHANGED <<buf, ent, neigh, usable, reqs, fate>>
     \/ \E m \in First(buf) :
          /\ timer = Off
          /\ \/ /\ ent[m].rexmt + 1 < MaxMaintRexmt
                /\ Becomes(PutBack(m))
                /\ stack' = <<SetTimeoutCall>> \o Tail(stack)
                /\ UNCHANGED usable
             \/ /\ ent[m].rexmt + 1 >= MaxMaintRexmt /\ ent[m].ack
                /\ HopDel(ent[m].hop)
                /\ SalvageStep(m, usable', <<SalvageLoop(ent[m].hop)>> \o Tail(stack))
             \/ /\ ent[m].rexmt + 1 >= MaxMaintRexmt /\ ~ent[m].ack
                /\ Becomes(Unlink(Cur, {m}, "silent"))
                /\ stack' = <<SetTimeoutCall>> \o Tail(stack)
                /\ UNCHANGED usable
  /\ UNCHANGED <<known, timer, maxLen, up>>

\* One turn of the loop that salvages the other packets for the next hop.
SalvageTurn ==
  /\ \E h \in Hops :
       LET same == FirstOf(buf, {p \in Entries(buf) : ent[p].hop = h})
       IN
       /\ Call(SalvageLoop(h))
       /\ \/ \E p \in same : SalvageStep(p, usable, stack)
          \/ /\ same = {}
             /\ stack' = <<SetTimeoutCall>> \o Tail(stack)
             /\ UNCHANGED <<buf, ent, neigh, reqs, fate>>
  /\ UNCHANGED <<known, timer, usable, maxLen, up>>

\* crit_addr_id_del: the entries an acknowledgement removes.
Acked(h, id) ==
  {p \in Entries(buf) : ent[p].hop = h /\ ent[p].id % IdMod <= id % IdMod}

\* dsr_ack_opt_recv and maint_buf_del_all_id.
RecvAck(h, id) ==
  /\ Idle /\ \E own \in BOOLEAN : <<h, id, own>> \in reqs
  /\ Becomes(Unlink(Cur, Acked(h, id), "acked"))
  /\ timer' = Off /\ stack' = <<SetTimeoutCall>>
  /\ UNCHANGED <<known, usable, maxLen, up>>

\* dsr_rerr_opt_recv: maint_buf_del_all of the Route Error's destination h,
\* and lc_link_del of the link that broke somewhere, after which the routes
\* over some first hops may be gone.
RecvRerr(h) ==
  /\ Idle
  /\ Becomes(Unlink(Cur, {p \in Entries(buf) : ent[p].hop = h}, "rerr"))
  /\ timer' = Off /\ stack' = <<SetTimeoutCall>>
  /\ usable' \in SUBSET usable
  /\ UNCHANGED <<known, maxLen, up>>

\* neigh_tbl_add, on the first packet from h.
NeighAdd(h) ==
  /\ Idle /\ h \notin known /\ known' = known \cup {h}
  /\ UNCHANGED <<buf, ent, neigh, timer, stack, usable, reqs, maxLen, up, fate>>

\* Other parts of the node change the route cache.
CacheChanges ==
  /\ Idle /\ \E U \in SUBSET Hops : U # usable /\ usable' = U
  /\ UNCHANGED <<buf, ent, neigh, known, timer, stack, reqs, maxLen, up, fate>>

\* maint_buf_set_max_len.
SetMaxLen ==
  /\ Idle /\ \E n \in MaxLens : n # maxLen /\ maxLen' = n
  /\ UNCHANGED <<buf, ent, neigh, known, timer, stack, usable, reqs, up, fate>>

\* Time passes; the timer may be served late.
Tick ==
  /\ Idle
  /\ timer' = IF timer > 0 THEN timer - 1 ELSE timer
  /\ ent' = [p \in Pkts |-> IF p \in Entries(buf) /\ ent[p].left >= 0
                            THEN [ent[p] EXCEPT !.left = @ - 1] ELSE ent[p]]
  /\ neigh' = [h \in Hops |-> [neigh[h] EXCEPT
                 !.since = IF @ > MaintHoldoffTime THEN @ ELSE @ + 1]]
  /\ UNCHANGED <<buf, known, stack, usable, reqs, maxLen, up, fate>>

\* maint_buf_cleanup.
Cleanup ==
  /\ Idle /\ up' = FALSE /\ timer' = Off
  /\ Becomes(Unlink(Cur, Entries(buf), "dropped"))
  /\ UNCHANGED <<known, stack, usable, maxLen>>

Step == SetTimeout \/ Timeout \/ SalvageTurn

Next ==
  \/ Step \/ TimerExpires \/ Tick \/ CacheChanges \/ SetMaxLen \/ Cleanup
  \/ \E h \in Hops :
       \/ NeighAdd(h) \/ RecvRerr(h)
       \/ \E p \in Pkts : Xmit(p, h)
       \/ \E r \in reqs : r[1] = h /\ RecvAck(h, r[2])

Spec == Init /\ [][Next]_vars

\* A call in progress goes on, time passes, and an expired timer is served,
\* however many packets and acknowledgements arrive meanwhile.
FairSpec == Spec /\ WF_vars(Step) /\ SF_vars(Tick) /\ SF_vars(TimerExpires)

----------------------------------------------------------------------------
\* While a packet that carried an ACK REQ is unacknowledged the timer runs:
\* otherwise the loss of its next hop would never be noticed.
RequestArmed == Idle /\ (\E p \in Entries(buf) : ent[p].ack) => timer # Off

\* The timer fires no later than the first of the timeouts of the packets
\* that carried an ACK REQ, with the same timeout for every next hop.
TimerCovers ==
  Idle => \A p \in Entries(buf) :
            ent[p].ack => timer # Off /\ (timer <= ent[p].left \/ timer = 0)

\* The salvage loop ends although the packets it takes from the buffer are
\* put into the same buffer again, and so do the calls nested in it.
HandlerReturns == stack # <<>> ~> stack = <<>>

\* A packet that asked for an acknowledgement does not wait for ever: it is
\* acknowledged, given up, or sent to another next hop.
Waits(p, h) == p \in Entries(buf) /\ ent[p].hop = h /\ ent[p].ack
EveryRequestEnds == \A p \in Pkts, h \in Hops : Waits(p, h) ~> ~Waits(p, h)
=============================================================================
