---------------------------- MODULE RreqTblSmp ----------------------------
(***************************************************************************)
(* The route request table of the SMP kernel: the functions of RreqTbl cut *)
(* where they take and release rreq_tbl.lock.  A timer handler runs on one *)
(* CPU while other CPUs cancel discoveries, start them, receive requests   *)
(* and change RequestTableSize.                                            *)
(*                                                                         *)
(* Two races are fatal, and the model ends where they begin (oops):        *)
(*   - a reply has taken the entry and not yet deleted the timer when the  *)
(*     handler comes to its tbl_detach: the handler unlinks an entry that  *)
(*     is not linked, or, if the list is empty, goes on to link it, and    *)
(*     the reply links it once more;                                       *)
(*   - the entry of a handler that has just started is evicted:            *)
(*     del_timer_sync waits for the handler, and the handler waits for the *)
(*     lock that the evicting CPU holds.                                   *)
(* The properties say that nothing else goes wrong.                        *)
(***************************************************************************)
EXTENDS RreqTbl

CONSTANT Cpus    \* CPUs on which replies are processed

VARIABLES
  pc,     \* each entry's timer handler: "idle", "fired" (entered), "out" (has taken
          \* the entry out of the table), "in" (has put it back)
  ctx     \* for each CPU the entry its rreq_tbl_route_discovery_cancel holds

svars == <<tbl, alloc, ent, maxLen, oops, up, pc, ctx>>

HeldBy(c) == ctx[c]
Held == UNION {HeldBy(c) : c \in Cpus}

SmpInit == Init /\ pc = [e \in Cells |-> "idle"] /\ ctx = [c \in Cpus |-> {}]

----------------------------------------------------------------------------
\* The timer of e expires: rreq_tbl_timeout starts and asks for the lock.
Fire(e) ==
  /\ Running /\ e \in alloc /\ ent[e].timer # Off /\ pc[e] = "idle"
  /\ ent' = [ent EXCEPT ![e] = [@ EXCEPT !.timer = Off]]
  /\ pc' = [pc EXCEPT ![e] = "fired"]
  /\ UNCHANGED <<tbl, alloc, maxLen, oops, up, ctx>>

\* Its tbl_detach.  An entry that did not fit into the table when it was put
\* back is not linked: nothing happens if the table is empty, the cleared
\* pointers are followed otherwise.  One that a reply has taken is fatal.
Detach(e) ==
  /\ Running /\ pc[e] = "fired"
  /\ \/ /\ e \in Entries(tbl) \/ (Entries(tbl) = {} /\ e \notin Held)
        /\ tbl' = Without(tbl, {e})
        /\ pc' = [pc EXCEPT ![e] = "out"]
        /\ UNCHANGED oops
     \/ /\ e \notin Entries(tbl) /\ (Entries(tbl) # {} \/ e \in Held)
        /\ oops' = TRUE
        /\ UNCHANGED <<tbl, pc>>
  /\ UNCHANGED <<alloc, ent, maxLen, up, ctx>>

\* The entry is backed off and put last, under the lock again.
Rejoin(e) ==
  LET r == BackedOff(ent[e])
  IN
  /\ Running /\ pc[e] = "out"
  /\ tbl' = PutTail(tbl, e)
  /\ ent' = [ent EXCEPT ![e] = r]
  /\ pc' = [pc EXCEPT ![e] = IF r.state = "IDLE" THEN "idle" ELSE "in"]
  /\ UNCHANGED <<alloc, maxLen, oops, up, ctx>>

\* set_timer, after the lock was released; the handler ends.
Arm(e) ==
  /\ Running /\ pc[e] = "in"
  /\ ent' = [ent EXCEPT ![e] = [@ EXCEPT !.timer = ent[e].timeout]]
  /\ pc' = [pc EXCEPT ![e] = "idle"]
  /\ UNCHANGED <<tbl, alloc, maxLen, oops, up, ctx>>

\* Mutant: tbl_find, the entry stays in the table.
CancelFindLinked(c, a) ==
  /\ Running /\ HeldBy(c) = {}
  /\ \E e \in EntryFor(a) : ctx' = [ctx EXCEPT ![c] = {e}]
  /\ UNCHANGED <<tbl, alloc, ent, maxLen, oops, up, pc>>

\* rreq_tbl_route_discovery_cancel, a Route Reply from a: tbl_find_detach.
CancelFind(c, a) ==
  /\ Running /\ HeldBy(c) = {}
  /\ \E e \in EntryFor(a) :
       tbl' = Without(tbl, {e}) /\ ctx' = [ctx EXCEPT ![c] = {e}]
  /\ UNCHANGED <<alloc, ent, maxLen, oops, up, pc>>

\* Mutant: del_timer, which does not wait for the handler.
CancelEndNoSync(c) ==
  /\ Running
  /\ \E e \in HeldBy(c) :
       /\ ent' = [ent EXCEPT ![e] = [@ EXCEPT !.state = "IDLE", !.timer = Off]]
       /\ tbl' = PutTail(tbl, e)
  /\ ctx' = [ctx EXCEPT ![c] = {}]
  /\ UNCHANGED <<alloc, maxLen, oops, up, pc>>

\* Its rest: del_timer_sync, which waits for the handler, if a discovery is
\* going on; the entry is idle and put last.
CancelEnd(c) ==
  /\ Running
  /\ \E e \in HeldBy(c) :
       /\ ent[e].state = "IN_ROUTE_DISC" => pc[e] = "idle"
       /\ ent' = [ent EXCEPT ![e] = Cancelled(ent[e])]
       /\ tbl' = PutTail(tbl, e)
  /\ ctx' = [ctx EXCEPT ![c] = {}]
  /\ UNCHANGED <<alloc, maxLen, oops, up, pc>>

\* The entry __rreq_tbl_add frees to make room for one for a.
Evicted(a) == IF EntryFor(a) = {} THEN Victims ELSE {}

\* Mutant: del_timer, which does not wait for a handler.
DelTimerOnly(a) == \A e \in Evicted(a) : pc[e] \in {"idle", "in"}

\* The del_timer_sync of __rreq_tbl_add has waited for the handler.
TimerSynced(a) == \A e \in Evicted(a) : pc[e] = "idle"

\* The handler waits for the lock that the evicting CPU holds.
Deadlock(a) ==
  /\ \E e \in Evicted(a) : pc[e] = "fired"
  /\ oops' = TRUE
  /\ UNCHANGED <<tbl, alloc, ent>>

\* dsr_rreq_route_discovery, under the lock to its end.
SmpRouteDiscovery(a) ==
  /\ Running
  /\ \/ TimerSynced(a) /\ \E e \in Cells : UseEntry(a, e, StartDiscovery(Current(a, e)))
     \/ Deadlock(a)
  /\ UNCHANGED <<maxLen, up, pc, ctx>>

\* rreq_tbl_add_id, under the lock to its end.
SmpRecvRreq(i, t, id) ==
  /\ Running /\ ~Duplicate(i, t, id)
  /\ \/ TimerSynced(i) /\ \E e \in Cells : UseEntry(i, e, RecordId(Current(i, e), t, id))
     \/ Deadlock(i)
  /\ UNCHANGED <<maxLen, up, pc, ctx>>

\* rreq_tbl_set_max_len, through /proc/net/dsr_config and without the lock.
SetMaxLen(n) ==
  /\ Running /\ n # maxLen /\ maxLen' = n
  /\ UNCHANGED <<tbl, alloc, ent, oops, up, pc, ctx>>

SmpNext ==
  \/ \E e \in Cells : Fire(e) \/ Detach(e) \/ Rejoin(e) \/ Arm(e)
  \/ \E c \in Cpus, a \in Addrs : CancelFind(c, a)
  \/ \E c \in Cpus : CancelEnd(c)
  \/ \E a \in Addrs : SmpRouteDiscovery(a)
  \/ \E i \in Initiators, t \in Targets, id \in RreqIds : SmpRecvRreq(i, t, id)
  \/ \E n \in MaxLens : SetMaxLen(n)

SmpSpec == SmpInit /\ [][SmpNext]_svars

----------------------------------------------------------------------------
\* An entry that a handler or a reply is working on, with or without the
\* lock, is not freed by an eviction on another CPU.
NoUseAfterFree ==
  ~oops => \A e \in Cells \ alloc : pc[e] = "idle" /\ e \notin Held

\* An entry belongs to the list, to one reply, or to the handler that took it
\* out: two of them would link it twice.
OneOwner ==
  ~oops =>
    /\ \A e \in Entries(tbl) : e \notin Held /\ pc[e] # "out"
    /\ \A e \in Held : pc[e] # "out"
    /\ \A c, d \in Cpus : c # d => HeldBy(c) \cap HeldBy(d) = {}

\* Once nobody works on an entry, a discovery is going on exactly while the
\* timer runs, in whatever order the reply and the handler came, and even for
\* an entry that has fallen out of the table.
QuietAgree ==
  ~oops => \A e \in alloc \ Held : pc[e] = "idle" =>
    (ent[e].state = "IN_ROUTE_DISC" <=> ent[e].timer # Off)
=============================================================================
