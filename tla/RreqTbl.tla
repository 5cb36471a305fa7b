------------------------------ MODULE RreqTbl ------------------------------
(***************************************************************************)
(* The route request table (dsr-rreq.c): one entry per address, which      *)
(* holds the state of this node's route discovery for the address and the  *)
(* identifications of the requests received from it.                       *)
(*                                                                         *)
(* Every function is one action: the ns-2 build and the uniprocessor       *)
(* kernel, where a handler is not interrupted by another one.  Entries are *)
(* heap cells, so that an entry that falls out of the list while its timer *)
(* runs, or two entries for one address, are states of the model.          *)
(***************************************************************************)
EXTENDS Tbl, Sequences

CONSTANTS
  Cells,                  \* the memory the entries are allocated from
  Addrs,                  \* addresses an entry may be for
  Initiators, Targets,    \* addresses in the requests received
  RreqIds,                \* identification values in the requests received
  MaxLens,                \* values of RequestTableSize
  RequestTableIds,        \* identifications kept per entry
  MaxRequestRexmt,        \* retransmissions of a request
  NonpropRequestTimeout,  \* the first timeout, in ticks
  MaxRequestPeriod,       \* the largest timeout, in ticks
  MAXTTL                  \* the largest hop limit

ASSUME RreqAddrs  == Initiators \subseteq Addrs
ASSUME RreqLens   == MaxLens \subseteq Nat /\ MaxLens # {}
ASSUME RreqBounds ==
  /\ RequestTableIds \in Nat \ {0} /\ MaxRequestRexmt \in Nat
  /\ NonpropRequestTimeout \in Nat \ {0} /\ MAXTTL \in Nat \ {0}
  /\ MaxRequestPeriod \in Nat /\ MaxRequestPeriod >= NonpropRequestTimeout

VARIABLES
  tbl,      \* the list rreq_tbl
  alloc,    \* the cells in use
  ent,      \* their contents
  maxLen,   \* rreq_tbl.max_len
  oops,     \* a bad pointer was followed: the node has crashed
  up        \* the module is loaded

vars == <<tbl, alloc, ent, maxLen, oops, up>>

Off == -1
TTL_START == 1

\* struct rreq_tbl_entry, as __rreq_tbl_entry_create makes it; timer is the time
\* left on e->timer, ids the (target, id) pairs of rreq_id_tbl.
NewEntry(a) ==
  [addr |-> a, state |-> "IDLE", ttl |-> 0, timeout |-> 0, rexmts |-> 0,
   timer |-> Off, ids |-> <<>>]

Init ==
  /\ tbl = EmptyTbl /\ alloc = {} /\ ent = [e \in {} |-> {}]
  /\ maxLen \in MaxLens /\ oops = FALSE /\ up = TRUE

Running == up /\ ~oops

\* Mutant: only a discovery that is going on is found.
EntryForActive(a) ==
  FirstOf(tbl, {e \in Entries(tbl) : ent[e].addr = a /\ ent[e].state # "IDLE"})

\* __tbl_find(&rreq_tbl, &a, crit_addr).
EntryFor(a) == FirstOf(tbl, {e \in Entries(tbl) : ent[e].addr = a})

\* (__)tbl_add_tail as the callers use it: its result is ignored, so an entry
\* for which there is no room stays out of the list.
PutTail(t, e) == IF TblFull(t, maxLen) THEN t ELSE AddTail(t, e)

\* Mutant: nothing is evicted.
VictimsNone == {}

\* The entries freed by __rreq_tbl_add to make room, whatever their state.
Victims == IF TblFull(tbl, maxLen) THEN First(tbl) ELSE {}

----------------------------------------------------------------------------
\* The contents of e once it is the entry for a: found, or just created.
Current(a, e) == IF e \in EntryFor(a) THEN ent[e] ELSE NewEntry(a)

\* The beginning of dsr_rreq_route_discovery and rreq_tbl_add_id, under the
\* lock: e becomes the entry for a, found and put last, or created, the first
\* entry being deleted with its timer when the table is full; new is what the
\* rest of the function makes of its contents.  TBL_FIRST of a full table that
\* is empty (size 0) is no entry at all.
UseEntry(a, e, new) ==
  \/ /\ e \in EntryFor(a)
     /\ tbl' = PutTail(Without(tbl, {e}), e)
     /\ ent' = [ent EXCEPT ![e] = new]
     /\ UNCHANGED <<alloc, oops>>
  \/ /\ EntryFor(a) = {} /\ e \in Cells \ alloc
     /\ TblFull(tbl, maxLen) => Entries(tbl) # {}
     /\ tbl' = PutTail(Without(tbl, Victims), e)
     /\ alloc' = (alloc \ Victims) \cup {e}
     /\ ent' = [c \in alloc' |-> IF c = e THEN new ELSE ent[c]]
     /\ UNCHANGED oops
  \/ /\ EntryFor(a) = {} /\ e \in Cells \ alloc
     /\ TblFull(tbl, maxLen) /\ Entries(tbl) = {}
     /\ oops' = TRUE
     /\ UNCHANGED <<tbl, alloc, ent>>

\* Mutant: the counter of the previous discovery is not reset.
StartDiscoveryNoReset(r) ==
  IF r.state = "IN_ROUTE_DISC" THEN r
  ELSE [r EXCEPT !.state = "IN_ROUTE_DISC", !.ttl = TTL_START,
                 !.timeout = NonpropRequestTimeout,
                 !.timer = NonpropRequestTimeout]

\* What dsr_rreq_route_discovery makes of the entry: nothing while a
\* discovery is going on.
StartDiscovery(r) ==
  IF r.state = "IN_ROUTE_DISC" THEN r
  ELSE [r EXCEPT !.state = "IN_ROUTE_DISC", !.ttl = TTL_START, !.rexmts = 0,
                 !.timeout = NonpropRequestTimeout,
                 !.timer = NonpropRequestTimeout]

\* dsr_rreq_route_discovery: a packet for a was put into the send buffer.
RouteDiscovery(a) ==
  /\ Running
  /\ \E e \in Cells : UseEntry(a, e, StartDiscovery(Current(a, e)))
  /\ UNCHANGED <<maxLen, up>>

\* dsr_rreq_duplicate(i, t, id).
Duplicate(i, t, id) ==
  \E e \in Entries(tbl) :
    /\ ent[e].addr = i
    /\ \E k \in DOMAIN ent[e].ids : ent[e].ids[k] = <<t, id>>

\* rreq_tbl_add_id: the oldest identification makes room for the new one.
RecordId(r, t, id) ==
  [r EXCEPT !.ids = Append(IF Len(@) >= RequestTableIds THEN Tail(@) ELSE @, <<t, id>>)]

\* dsr_rreq_opt_recv: a request that is not a duplicate is recorded.
RecvRreq(i, t, id) ==
  /\ Running /\ ~Duplicate(i, t, id)
  /\ \E e \in Cells : UseEntry(i, e, RecordId(Current(i, e), t, id))
  /\ UNCHANGED <<maxLen, up>>

\* The entry after rreq_tbl_route_discovery_cancel: idle, its timer deleted if
\* a discovery was going on.
Cancelled(r) ==
  [r EXCEPT !.state = "IDLE",
            !.timer = IF r.state = "IN_ROUTE_DISC" THEN Off ELSE r.timer]

\* rreq_tbl_route_discovery_cancel, called for every Route Reply.
Cancel(a) ==
  /\ Running
  /\ \E e \in EntryFor(a) :
       /\ tbl' = PutTail(Without(tbl, {e}), e)
       /\ ent' = [ent EXCEPT ![e] = Cancelled(ent[e])]
  /\ UNCHANGED <<alloc, maxLen, oops, up>>

\* Doubled and capped: timeout and hop limit of a retransmission.
Doubled(n, max) == IF 2 * n > max THEN max ELSE 2 * n

\* Mutant: retransmissions are not counted.
TimeoutNoCount(e) ==
  /\ Running /\ e \in alloc /\ ent[e].timer = 0 /\ e \in Entries(tbl)
  /\ tbl' = PutTail(Without(tbl, {e}), e)
  /\ ent' = [ent EXCEPT ![e] = [@ EXCEPT !.timer = MaxRequestPeriod]]
  /\ UNCHANGED <<alloc, maxLen, oops, up>>

\* The entry after rreq_tbl_timeout: idle once the retransmissions are used
\* up, otherwise counted and backed off.  The timer is the caller's.
BackedOff(r) ==
  IF r.rexmts >= MaxRequestRexmt THEN [r EXCEPT !.state = "IDLE"]
  ELSE [r EXCEPT !.rexmts = @ + 1, !.ttl = Doubled(@, MAXTTL),
                 !.timeout = Doubled(@, MaxRequestPeriod)]

\* rreq_tbl_timeout: the entry is taken out, backed off, sent for and put last
\* (it is linked, see NoLeak; RreqTblSmp has the entries that are not).
Timeout(e) ==
  LET r == BackedOff(ent[e])
  IN
  /\ Running /\ e \in alloc /\ ent[e].timer = 0
  /\ tbl' = PutTail(Without(tbl, {e}), e)
  /\ ent' = [ent EXCEPT ![e] =
               [r EXCEPT !.timer = IF r.state = "IDLE" THEN Off ELSE r.timeout]]
  /\ UNCHANGED <<alloc, maxLen, oops, up>>

\* Time passes; an expired timer is served before it is late by a tick.
Tick ==
  /\ Running /\ \A e \in alloc : ent[e].timer # 0
  /\ \E e \in alloc : ent[e].timer > 0
  /\ ent' = [e \in alloc |-> [ent[e] EXCEPT !.timer = IF @ > 0 THEN @ - 1 ELSE @]]
  /\ UNCHANGED <<tbl, alloc, maxLen, oops, up>>

\* rreq_tbl_cleanup: the timers of the linked entries are deleted (the
\* entries themselves are not freed).
Cleanup ==
  /\ Running
  /\ tbl' = EmptyTbl /\ up' = FALSE
  /\ ent' = [e \in alloc |-> IF e \in Entries(tbl) THEN [ent[e] EXCEPT !.timer = Off]
                                                   ELSE ent[e]]
  /\ UNCHANGED <<alloc, maxLen, oops>>

----------------------------------------------------------------------------
Next ==
  \/ \E a \in Addrs : RouteDiscovery(a) \/ Cancel(a)
  \/ \E i \in Initiators, t \in Targets, id \in RreqIds : RecvRreq(i, t, id)
  \/ \E e \in Cells : Timeout(e)
  \/ Tick \/ Cleanup

Spec == Init /\ [][Next]_vars

\* Time passes and expired timers are served, however many requests, replies
\* and packets arrive meanwhile.
Fairness == WF_vars(Tick) /\ \A e \in Cells : WF_vars(Timeout(e))

FairSpec == Spec /\ Fairness

----------------------------------------------------------------------------
\* One entry per address: a reply cancels, and a packet joins, the only
\* discovery there is for its target.
UniqueEntry ==
  \A e, f \in Entries(tbl) : ent[e].addr = ent[f].addr => e = f

\* No entry is lost: every cell allocated is in the list, within the bound.
\* In particular an entry whose timer runs is linked, as the handler's first
\* act is to unlink it (dsr-rreq.c:164), which is fatal for one that is not.
NoLeak == up => alloc = Entries(tbl) /\ TblLen(tbl) <= maxLen

\* Within one discovery the n-th retransmission waits at least for the first
\* timeout doubled n times, up to the maximum, and its hop limit has been
\* doubled as often, whatever mixture of replies, packets and evictions the
\* entry went through before.  From where a later discovery of the same target
\* should start is left open: the draft wants it to go on doubling until a reply
\* arrives, the code starts again (dsr-rreq.c:382).
MinOf(a, b) == IF a <= b THEN a ELSE b
BackoffWithinDiscovery ==
  \A e \in alloc : ent[e].state = "IN_ROUTE_DISC" =>
    /\ ent[e].timeout >= MinOf(NonpropRequestTimeout * 2^ent[e].rexmts, MaxRequestPeriod)
    /\ ent[e].timeout <= MaxRequestPeriod
    /\ ent[e].ttl = MinOf(TTL_START * 2^ent[e].rexmts, MAXTTL)

\* Every route discovery ends: by a reply, an eviction, or after
\* MaxRequestRexmt retransmissions.
InDiscovery(e) == up /\ e \in alloc /\ ent[e].state = "IN_ROUTE_DISC"
DiscoveryEnds == \A e \in Cells : InDiscovery(e) ~> ~InDiscovery(e)
=============================================================================
