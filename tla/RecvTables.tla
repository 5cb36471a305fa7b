----------------------------- MODULE RecvTables ----------------------------
(***************************************************************************)
(* The two tables of soft state that receiving a source-routed packet      *)
(* fills, on a multiprocessor: the neighbour table with its round-trip     *)
(* estimates (neigh.c), and the table of the gratuitous Route Replies sent *)
(* lately, with its timer (dsr-rrep.c).  Both are looked up and filled in  *)
(* separate critical sections, by CPUs that receive at the same time.      *)
(*                                                                         *)
(* Times are left out: a pending timer may be served at any moment.  The   *)
(* identifiers of ACK REQs, a field of the neighbours, are in MaintBuf.    *)
(***************************************************************************)
EXTENDS Integers, SequencesExt

CONSTANTS
  Cpus,             \* CPUs on which packets are received
  Srcs, Nbrs,       \* sources of packets and the neighbours they come through
  NeighTblMaxLen, GratTblMaxLen,
  Rtts, MaxRtt,     \* measured round-trip times and their largest
  ULong,            \* usecs_t counts modulo ULong
  MaxPkts,          \* bound: packets received
  MaxSamples        \* bound: measurements

\* The clock is not set back, and no round trip takes so long that the sums
\* would not fit.
ASSUME RttsAssumption ==
  /\ MaxRtt \in Nat \ {0} /\ Rtts \subseteq 1 .. MaxRtt
  /\ ULong \in Nat /\ ULong > 8 * MaxRtt /\ ULong > 240 + MaxRtt

ASSUME InputsAssumption == Srcs # {} /\ Nbrs # {}
ASSUME CpusAssumption   == IsFiniteSet(Cpus)

VARIABLES
  neigh,     \* neigh_tbl: [addr, srtt, rttvar] records in their order
  grat,      \* grat_rrep_tbl: <<src, prev_hop>> in their order
  timer,     \* grat_rrep_tbl_timer is pending
  tpc,       \* where its handler is
  pc, pkt,   \* where each CPU is in dsr_srt_opt_recv, and with which packet
  up,        \* "yes", "flushed" half way through grat_rrep_tbl_cleanup, "no"
  pkts, samples    \* how many so far

gvars == <<grat, timer, tpc>>
count == <<pkts, samples>>
vars  == <<neigh, gvars, pc, pkt, up, count>>

Pkts == Srcs \X Nbrs

Init ==
  /\ neigh = <<>> /\ grat = <<>> /\ timer = FALSE /\ tpc = "idle"
  /\ pc = [c \in Cpus |-> "idle"] /\ pkt = [c \in Cpus |-> CHOOSE p \in Pkts : TRUE]
  /\ up = "yes" /\ pkts = 0 /\ samples = 0

Goto(c, l)   == pc' = [pc EXCEPT ![c] = l]
PrvHop(c)    == pkt[c][2]
IsNeigh(a)   == \E i \in DOMAIN neigh : neigh[i].addr = a
Lately(c)    == pkt[c] \in ToSet(grat)       \* in_tbl(&grat_rrep_tbl, ..., crit_query)

\* set_timer runs under the read lock of grat_rrep_tbl, which any number may
\* hold; whoever changes the table waits.  All other critical sections are
\* single actions.
Setting      == {"modt", "addt", "bug"}
WriteLock    == tpc \notin Setting /\ \A c \in Cpus : pc[c] \notin Setting

----------------------------------------------------------------------------
(* The neighbour table. *)

\* Mutant: the entry is created without a look at the table.
NeighLookupNone(c, p) ==
  /\ up = "yes" /\ pc[c] = "idle" /\ pkts < MaxPkts /\ pkts' = pkts + 1
  /\ pkt' = [pkt EXCEPT ![c] = p] /\ Goto(c, "nadd")
  /\ UNCHANGED <<neigh, gvars, up, samples>>

\* A packet arrives; neigh_tbl_add looks its previous hop up.
NeighLookup(c, p) ==
  /\ up = "yes" /\ pc[c] = "idle" /\ pkts < MaxPkts /\ pkts' = pkts + 1
  /\ pkt' = [pkt EXCEPT ![c] = p] /\ Goto(c, IF IsNeigh(p[2]) THEN "find" ELSE "nadd")
  /\ UNCHANGED <<neigh, gvars, up, samples>>

\* neigh_tbl_create: no estimate yet.
NewNeigh(a) == [addr |-> a, srtt |-> 0, rttvar |-> 240]

\* Its tbl_add with crit_none, to the front; a full table loses the entry.
NeighAdd(c) ==
  /\ pc[c] = "nadd" /\ Goto(c, "find")
  /\ neigh' = IF Len(neigh) >= NeighTblMaxLen THEN neigh ELSE <<NewNeigh(PrvHop(c))>> \o neigh
  /\ UNCHANGED <<gvars, pkt, up, count>>

Unsigned(n) == n % ULong
AtLeast1(n) == IF n = 0 THEN 1 ELSE n        \* if ((n) <= 0) n = 1, for an unsigned n
Abs(n)      == IF n < 0 THEN -n ELSE n

\* Mutant: the old average is not taken from the new measurement.
RtoCalcNoDecay(n, rtt) ==
  [n EXCEPT !.srtt = IF @ = 0 THEN Unsigned(rtt * 8) ELSE AtLeast1(Unsigned(@ + rtt))]

\* rto_calc: srtt is 8 times the smoothed time, rttvar 4 times its deviation.
\* (t_rxtcur, 9/8 of srtt within limits, follows from srtt and is left out.)
RtoCalc(n, rtt) ==
  LET delta == rtt - 1 - n.srtt \div 8
  IN
  IF n.srtt = 0
  THEN [n EXCEPT !.srtt = Unsigned(rtt * 8), !.rttvar = Unsigned(rtt * 2)]
  ELSE [n EXCEPT !.srtt   = AtLeast1(Unsigned(@ + delta)),
                 !.rttvar = AtLeast1(Unsigned(@ + Abs(delta) - @ \div 4))]

\* neigh_tbl_set_rto, from an acknowledgement of the neighbour: tbl_find_do
\* stops at the first entry of that address.
SetRto(a, rtt) ==
  /\ up = "yes" /\ samples < MaxSamples /\ samples' = samples + 1
  /\ \E i \in DOMAIN neigh :
       /\ neigh[i].addr = a /\ \A j \in 1 .. i - 1 : neigh[j].addr # a
       /\ neigh' = [neigh EXCEPT ![i] = RtoCalc(@, rtt)]
  /\ UNCHANGED <<gvars, pc, pkt, up, pkts>>

----------------------------------------------------------------------------
(* The gratuitous Route Reply table. *)

\* dsr_srt_opt_recv asks whether a reply was sent lately, unless the route
\* cannot be shortened.
GratFind(c) ==
  /\ pc[c] = "find"
  /\ Goto(c, "idle") \/ (~Lately(c) /\ Goto(c, "query"))
  /\ UNCHANGED <<neigh, gvars, pkt, up, count>>

\* grat_rrep_tbl_add looks again.
GratQuery(c) ==
  /\ pc[c] = "query" /\ Goto(c, IF Lately(c) THEN "idle" ELSE "stop")
  /\ UNCHANGED <<neigh, gvars, pkt, up, count>>

\* if (timer_pending) del_timer_sync: waits for the handler of a pending timer,
\* and only then.
GratStop(c) ==
  /\ pc[c] = "stop" /\ (timer => tpc = "idle") /\ timer' = FALSE /\ Goto(c, "add")
  /\ UNCHANGED <<neigh, grat, tpc, pkt, up, count>>

\* tbl_add: crit_time reads the list pointers of the new entry as a time, so
\* the entry may go anywhere.  A full table drops it.
GratInsert(c) ==
  /\ pc[c] = "add" /\ WriteLock /\ Goto(c, "arm")
  /\ \/ Len(grat) >= GratTblMaxLen /\ UNCHANGED grat
     \/ /\ Len(grat) < GratTblMaxLen
        /\ \E i \in 1 .. Len(grat) + 1 : grat' = InsertAt(grat, i, pkt[c])
  /\ UNCHANGED <<neigh, timer, tpc, pkt, up, count>>

\* Mutant: the timer is set only if the entry was added.
GratArmIfAdded(c) ==
  /\ pc[c] = "arm"
  /\ Goto(c, IF ~Lately(c) THEN "idle" ELSE IF timer THEN "modt" ELSE "addt")
  /\ UNCHANGED <<neigh, gvars, pkt, up, count>>

\* -ENOSPC counts as success: the timer is set for the first entry there is.
\* set_timer asks timer_pending ...
GratArm(c) ==
  /\ pc[c] = "arm" /\ Goto(c, IF timer THEN "modt" ELSE "addt")
  /\ UNCHANGED <<neigh, gvars, pkt, up, count>>

\* ... and then calls mod_timer or add_timer.  To add a timer that someone
\* else has added since is a BUG, which stops the kernel.
GratSetTimer(c) ==
  /\ \/ pc[c] = "modt" /\ timer' = TRUE /\ Goto(c, "idle")
     \/ pc[c] = "addt" /\ ~timer /\ timer' = TRUE /\ Goto(c, "idle")
     \/ pc[c] = "addt" /\ timer /\ Goto(c, "bug") /\ UNCHANGED timer
  /\ UNCHANGED <<neigh, grat, tpc, pkt, up, count>>

\* grat_rrep_tbl_timeout: takes the first entry out, and sets the timer for
\* the next unless it finds the table empty.
Fire ==
  /\ timer /\ tpc = "idle" /\ timer' = FALSE /\ tpc' = "detach"
  /\ UNCHANGED <<neigh, grat, pc, pkt, up, count>>

Detach ==
  /\ tpc = "detach" /\ WriteLock /\ tpc' = "check"
  /\ grat' = IF grat = <<>> THEN grat ELSE Tail(grat)
  /\ UNCHANGED <<neigh, timer, pc, pkt, up, count>>

CheckEmpty ==
  /\ tpc = "check" /\ tpc' = IF grat = <<>> THEN "idle" ELSE "arm"
  /\ UNCHANGED <<neigh, grat, timer, pc, pkt, up, count>>

\* set_timer again, in the handler.
Rearm ==
  /\ tpc = "arm" /\ tpc' = IF timer THEN "modt" ELSE "addt"
  /\ UNCHANGED <<neigh, grat, timer, pc, pkt, up, count>>

RearmSetTimer ==
  /\ \/ tpc = "modt" /\ timer' = TRUE /\ tpc' = "idle"
     \/ tpc = "addt" /\ ~timer /\ timer' = TRUE /\ tpc' = "idle"
     \/ tpc = "addt" /\ timer /\ tpc' = "bug" /\ UNCHANGED timer
  /\ UNCHANGED <<neigh, grat, pc, pkt, up, count>>

\* The module is unloaded, after the packet handler and the hooks were removed
\* and every packet was received: the tables are flushed.
Flush ==
  /\ up = "yes" /\ (\A c \in Cpus : pc[c] = "idle") /\ WriteLock
  /\ up' = "flushed" /\ grat' = <<>> /\ neigh' = <<>>
  /\ UNCHANGED <<timer, tpc, pc, pkt, count>>

\* Mutant: del_timer, which does not wait for the handler.
DelTimerNoSync ==
  /\ up = "flushed" /\ up' = "no" /\ timer' = FALSE
  /\ UNCHANGED <<neigh, grat, tpc, pc, pkt, count>>

\* grat_rrep_tbl_cleanup ends with del_timer_sync.
DelTimer ==
  /\ up = "flushed" /\ tpc = "idle" /\ up' = "no" /\ timer' = FALSE
  /\ UNCHANGED <<neigh, grat, tpc, pc, pkt, count>>

----------------------------------------------------------------------------
RecvStep(c) ==
  \/ NeighAdd(c)
  \/ GratFind(c) \/ GratQuery(c) \/ GratStop(c) \/ GratInsert(c) \/ GratArm(c) \/ GratSetTimer(c)
Handler == Fire \/ Detach \/ CheckEmpty \/ Rearm \/ RearmSetTimer

Next ==
  \/ \E c \in Cpus : (\E p \in Pkts : NeighLookup(c, p)) \/ RecvStep(c)
  \/ \E a \in Nbrs, rtt \in Rtts : SetRto(a, rtt)
  \/ Handler \/ Flush \/ DelTimer

\* A packet that is being received is received to the end, and the kernel
\* serves its timers.
Fairness == (\A c \in Cpus : WF_vars(RecvStep(c))) /\ WF_vars(Handler)

Spec == Init /\ [][Next]_vars /\ Fairness

----------------------------------------------------------------------------
\* Looking up and adding are two critical sections, so that CPUs that receive
\* from the same neighbour at once add it more than once; but never more
\* often than there are CPUs, however long it goes on, and the same holds for
\* the replies: on a uniprocessor an address or a reply has one entry.
AtMostOncePerCpu ==
  LET Copies(s, x) == {i \in DOMAIN s : s[i] = x}
      addrs        == [i \in DOMAIN neigh |-> neigh[i].addr]
  IN /\ \A a \in Nbrs : Cardinality(Copies(addrs, a)) <= Cardinality(Cpus)
     /\ \A p \in Pkts : Cardinality(Copies(grat, p)) <= Cardinality(Cpus)

\* The estimates stay within what was measured: neither the sum, in which the
\* measurement is added to the old average, nor the deviation grows with the
\* number of measurements or wraps below zero, where the test for "<= 0" of
\* an unsigned value would miss it.
EstimateBounded ==
  \A i \in DOMAIN neigh :
    /\ neigh[i].srtt \in 0 .. 8 * MaxRtt
    /\ neigh[i].rttvar \in 1 .. (IF MaxRtt > 60 THEN 4 * MaxRtt ELSE 240)

\* The kernel has stopped at a timer added twice.
Halted == tpc = "bug" \/ \E c \in Cpus : pc[c] = "bug"

\* A reply is suppressed for a while only: when no more packets come, the
\* table runs empty, whoever added to it or found it full in whatever order
\* while the handler was running, unless the kernel stops.
RunsEmpty == <>[](grat = <<>> \/ Halted)

\* Once the module is gone no handler of it runs or will run: one that had
\* found the table non-empty before the flush arms the timer after it.
QuietAfterUnload == up = "no" => ~timer /\ tpc = "idle"
=============================================================================
