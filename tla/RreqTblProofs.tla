--------------------------- MODULE RreqTblProofs ---------------------------
(***************************************************************************)
(* The route request table, for any number of entries, addresses and Cpus  *)
(* and any value of the configuration: no entry is lost or doubled and     *)
(* the backoff is followed where handlers run to their end, and ownership  *)
(* of the entries and of their timers where several Cpus work on it.       *)
(***************************************************************************)
EXTENDS RreqTblSmp, DataProofs

USE RreqAddrs, RreqLens, RreqBounds

\* struct rreq_tbl_entry.
Entry ==
  [addr : Addrs, state : {"IDLE", "IN_ROUTE_DISC"}, ttl : Nat, timeout : Nat,
   rexmts : Nat, timer : Int, ids : Seq(Targets \X RreqIds)]

----------------------------------------------------------------------------
(* The contents of an entry. *)

\* The entry used for an address is for that address.
LEMMA CurrentEntry ==
  ASSUME NEW a \in Addrs, NEW e, ent \in [alloc -> Entry], DOMAIN tbl \subseteq alloc
  PROVE  Current(a, e) \in Entry /\ Current(a, e).addr = a
<1>1. NewEntry(a) \in Entry /\ NewEntry(a).addr = a
  BY DEF NewEntry, Entry, Off
<1>2. e \in EntryFor(a) => ent[e] \in Entry /\ ent[e].addr = a
  BY DEF EntryFor, FirstOf, Entries
<1> QED
  BY <1>1, <1>2 DEF Current

\* Starting a discovery, recording an identification and backing off leave
\* the address alone.
LEMMA StartEntry ==
  ASSUME NEW r \in Entry
  PROVE  StartDiscovery(r) \in Entry /\ StartDiscovery(r).addr = r.addr
<1>1. CASE r.state = "IN_ROUTE_DISC"
  BY <1>1 DEF StartDiscovery
<1>2. CASE r.state # "IN_ROUTE_DISC"
  <2>1. TTL_START \in Nat /\ NonpropRequestTimeout \in Nat /\ NonpropRequestTimeout \in Int
    BY DEF TTL_START
  <2>2. StartDiscovery(r) =
          [r EXCEPT !.state = "IN_ROUTE_DISC", !.ttl = TTL_START, !.rexmts = 0,
                    !.timeout = NonpropRequestTimeout, !.timer = NonpropRequestTimeout]
    BY <1>2 DEF StartDiscovery
  <2>3. StartDiscovery(r) =
          [addr |-> r.addr, state |-> "IN_ROUTE_DISC", ttl |-> TTL_START,
           timeout |-> NonpropRequestTimeout, rexmts |-> 0,
           timer |-> NonpropRequestTimeout, ids |-> r.ids]
    BY <2>2 DEF Entry
  <2> QED
    BY <2>1, <2>3 DEF Entry
<1> QED
  BY <1>1, <1>2

\* Recording an id leaves the entry's address, state and timer alone.
LEMMA RecordEntry ==
  ASSUME NEW r \in Entry, NEW t \in Targets, NEW id \in RreqIds
  PROVE  /\ RecordId(r, t, id) \in Entry /\ RecordId(r, t, id).addr = r.addr
         /\ RecordId(r, t, id).state = r.state /\ RecordId(r, t, id).timer = r.timer
<1>1. r.ids \in Seq(Targets \X RreqIds) /\ <<t, id>> \in Targets \X RreqIds
  BY DEF Entry
<1> DEFINE kept == IF Len(r.ids) >= RequestTableIds THEN Tail(r.ids) ELSE r.ids
<1>2. kept \in Seq(Targets \X RreqIds)
  BY <1>1
<1>3. Append(kept, <<t, id>>) \in Seq(Targets \X RreqIds)
  BY <1>1, <1>2
<1>4. RecordId(r, t, id) = [r EXCEPT !.ids = Append(kept, <<t, id>>)]
  BY DEF RecordId
<1> HIDE DEF kept
<1> QED
  BY <1>3, <1>4 DEF Entry

\* Setting or deleting the timer, and ending the discovery.
LEMMA TimerEntry ==
  ASSUME NEW r \in Entry, NEW t \in Int
  PROVE  /\ [r EXCEPT !.timer = t] \in Entry
         /\ [r EXCEPT !.timer = t].addr = r.addr
         /\ [r EXCEPT !.timer = t].state = r.state
         /\ [r EXCEPT !.timer = t].timer = t
  BY DEF Entry

\* A cancelled entry is idle, and its timer off if a discovery was going on.
LEMMA CancelledEntry ==
  ASSUME NEW r \in Entry
  PROVE  /\ Cancelled(r) \in Entry /\ Cancelled(r).addr = r.addr
         /\ Cancelled(r).state = "IDLE"
         /\ Cancelled(r).timer = IF r.state = "IN_ROUTE_DISC" THEN Off ELSE r.timer
<1> DEFINE left == IF r.state = "IN_ROUTE_DISC" THEN Off ELSE r.timer
<1>1. left \in Int
  BY DEF Entry, Off
<1>2. Cancelled(r) = [r EXCEPT !.state = "IDLE", !.timer = left]
  BY DEF Cancelled
<1> HIDE DEF left
<1>3. /\ Cancelled(r) \in Entry /\ Cancelled(r).addr = r.addr
      /\ Cancelled(r).state = "IDLE" /\ Cancelled(r).timer = left
  BY <1>1, <1>2 DEF Entry
<1> QED
  BY <1>3 DEF left

\* Backing off keeps the address and may end the discovery.
LEMMA BackedOffEntry ==
  ASSUME NEW r \in Entry
  PROVE  /\ BackedOff(r) \in Entry /\ BackedOff(r).addr = r.addr
         /\ BackedOff(r).timer = r.timer
         /\ BackedOff(r).state \in {"IDLE", r.state}
<1>1. CASE r.rexmts >= MaxRequestRexmt
  BY <1>1 DEF BackedOff, Entry
<1>2. CASE ~(r.rexmts >= MaxRequestRexmt)
  <2>1. /\ r.rexmts + 1 \in Nat /\ Doubled(r.ttl, MAXTTL) \in Nat
        /\ Doubled(r.timeout, MaxRequestPeriod) \in Nat
    BY DEF Entry, Doubled
  <2>2. BackedOff(r) =
          [r EXCEPT !.rexmts = r.rexmts + 1, !.ttl = Doubled(r.ttl, MAXTTL),
                    !.timeout = Doubled(r.timeout, MaxRequestPeriod)]
    BY <1>2 DEF BackedOff
  <2> QED
    BY <2>1, <2>2 DEF Entry
<1> QED
  BY <1>1, <1>2

----------------------------------------------------------------------------
(* Handlers that run to their end: Spec. *)

Table ==
  /\ IsTbl(tbl, Cells) /\ IsFiniteSet(DOMAIN tbl)
  /\ alloc \subseteq Cells /\ DOMAIN tbl \subseteq alloc
  /\ ent \in [alloc -> Entry] /\ maxLen \in Nat

TableInv == Table /\ NoLeak /\ UniqueEntry

\* rreq_tbl_init.
LEMMA InitTable == Init => TableInv
<1> SUFFICES ASSUME Init PROVE TableInv
  OBVIOUS
<1>1. DOMAIN tbl = {} /\ alloc = {}
  BY DEF Init, EmptyTbl
<1>2. IsTbl(tbl, Cells)
  BY EmptyIsTbl DEF Init
<1>3. IsFiniteSet(DOMAIN tbl) /\ Cardinality(DOMAIN tbl) = 0
  BY <1>1, FS_EmptySet
<1>4. ent \in [alloc -> Entry] /\ maxLen \in Nat
  BY <1>1 DEF Init
<1> QED
  BY <1>1, <1>2, <1>3, <1>4 DEF TableInv, Table, NoLeak, UniqueEntry, Entries, TblLen

\* "Put it last in the table" always finds room for the entry just taken out.
LEMMA PutLast ==
  ASSUME TableInv, up, NEW e \in DOMAIN tbl
  PROVE  /\ IsTbl(PutTail(Without(tbl, {e}), e), Cells)
         /\ DOMAIN PutTail(Without(tbl, {e}), e) = DOMAIN tbl
<1>1. /\ IsTbl(tbl, Cells) /\ IsFiniteSet(DOMAIN tbl) /\ maxLen \in Nat
      /\ Cardinality(DOMAIN tbl) <= maxLen
  BY DEF TableInv, Table, NoLeak, TblLen
<1>2. Cardinality(DOMAIN tbl \ {e}) = Cardinality(DOMAIN tbl) - 1 /\ Cardinality(DOMAIN tbl) \in Nat
  BY <1>1, FS_RemoveElement, FS_CardinalityType
<1>3. DOMAIN Without(tbl, {e}) = DOMAIN tbl \ {e}
  BY <1>1, WithoutIsTbl
<1>4. ~TblFull(Without(tbl, {e}), maxLen)
  BY <1>1, <1>2, <1>3 DEF TblFull, TblLen
<1>5. PutTail(Without(tbl, {e}), e) = MoveToTail(tbl, e)
  BY <1>4 DEF PutTail, MoveToTail
<1> QED
  BY <1>1, <1>5, MoveToTailIsTbl

\* A step that puts the entry e last and gives it a new content for the same
\* address.
LEMMA TouchTable ==
  ASSUME TableInv, up, NEW e \in DOMAIN tbl, NEW new \in Entry, new.addr = ent[e].addr,
         tbl' = PutTail(Without(tbl, {e}), e), ent' = [ent EXCEPT ![e] = new],
         UNCHANGED <<alloc, maxLen, up>>
  PROVE  TableInv'
<1>1. IsTbl(tbl', Cells) /\ DOMAIN tbl' = DOMAIN tbl
  BY PutLast
<1>2. ent' \in [alloc -> Entry] /\ \A f \in alloc : ent'[f].addr = ent[f].addr
  BY DEF TableInv, Table
<1>3. Table'
  BY <1>1, <1>2 DEF TableInv, Table
<1>4. NoLeak'
  BY <1>1 DEF TableInv, NoLeak, Entries, TblLen
<1>5. UniqueEntry'
  BY <1>1, <1>2 DEF TableInv, Table, UniqueEntry, Entries
<1> QED
  BY <1>3, <1>4, <1>5 DEF TableInv

\* An entry for a new address: the first of a full table makes room for it.
LEMMA NewTable ==
  ASSUME TableInv, up, NEW a \in Addrs, NEW e \in Cells \ alloc, NEW new \in Entry, new.addr = a,
         EntryFor(a) = {}, TblFull(tbl, maxLen) => Entries(tbl) # {},
         tbl' = PutTail(Without(tbl, Victims), e),
         alloc' = (alloc \ Victims) \cup {e},
         ent' = [c \in alloc' |-> IF c = e THEN new ELSE ent[c]],
         UNCHANGED <<maxLen, up>>
  PROVE  TableInv'
<1> DEFINE rest == Without(tbl, Victims)
<1>1. /\ IsTbl(tbl, Cells) /\ IsFiniteSet(DOMAIN tbl) /\ maxLen \in Nat
      /\ Cardinality(DOMAIN tbl) <= maxLen /\ alloc = DOMAIN tbl
      /\ Cardinality(DOMAIN tbl) \in Nat
  BY FS_CardinalityType DEF TableInv, Table, NoLeak, TblLen, Entries
<1>2. \A x \in DOMAIN tbl : ent[x].addr # a
  <2> SUFFICES ASSUME NEW x \in DOMAIN tbl, ent[x].addr = a PROVE FALSE
    OBVIOUS
  <2> DEFINE S == {y \in Entries(tbl) : ent[y].addr = a}
  <2>1. DOMAIN tbl \cap S # {}
    BY DEF Entries
  <2>2. FirstOf(tbl, S) # {}
    <3> HIDE DEF S
    <3> QED
      BY <1>1, <2>1, FirstOfExists
  <2> QED
    BY <2>2 DEF EntryFor
<1>3. /\ IsFiniteSet(DOMAIN tbl \ Victims) /\ Cardinality(DOMAIN tbl \ Victims) \in Nat
      /\ Cardinality(DOMAIN tbl \ Victims) < maxLen
  <2>1. CASE TblFull(tbl, maxLen)
    <3>1. PICK x \in DOMAIN tbl : Victims = {x}
      <4>1. DOMAIN tbl # {}
        BY <2>1 DEF Entries
      <4>2. \E x \in DOMAIN tbl : First(tbl) = {x}
        BY <1>1, <4>1, FirstExists
      <4> QED
        BY <2>1, <4>2 DEF Victims
    <3>2. /\ IsFiniteSet(DOMAIN tbl \ {x})
          /\ Cardinality(DOMAIN tbl \ {x}) = Cardinality(DOMAIN tbl) - 1
      BY <1>1, FS_RemoveElement
    <3>3. Cardinality(DOMAIN tbl \ {x}) \in Nat
      BY <3>2, FS_CardinalityType
    <3> QED
      BY <1>1, <3>1, <3>2, <3>3
  <2>2. CASE ~TblFull(tbl, maxLen)
    <3>1. DOMAIN tbl \ Victims = DOMAIN tbl
      BY <2>2 DEF Victims
    <3> QED
      BY <1>1, <2>2, <3>1 DEF TblFull, TblLen
  <2> QED
    BY <2>1, <2>2
<1>4. IsTbl(rest, Cells) /\ DOMAIN rest = DOMAIN tbl \ Victims
  BY <1>1, WithoutIsTbl
<1>5. tbl' = AddTail(rest, e)
  BY <1>1, <1>3, <1>4 DEF PutTail, TblFull, TblLen
<1>6. IsTbl(tbl', Cells) /\ DOMAIN tbl' = (DOMAIN tbl \ Victims) \cup {e}
  <2>1. e \in Cells /\ e \notin DOMAIN rest
    BY <1>1, <1>4
  <2> HIDE DEF rest
  <2> QED
    BY <1>4, <1>5, <2>1, AddTailIsTbl
<1>7. /\ IsFiniteSet(DOMAIN tbl')
      /\ Cardinality(DOMAIN tbl') = Cardinality(DOMAIN tbl \ Victims) + 1
  <2>1. PICK D : D = DOMAIN tbl \ Victims
    OBVIOUS
  <2>2. e \notin D /\ IsFiniteSet(D)
    BY <2>1, <1>1, <1>3
  <2>3. IsFiniteSet(D \cup {e}) /\ Cardinality(D \cup {e}) = Cardinality(D) + 1
    BY <2>2, FS_AddElement
  <2> QED
    BY <2>1, <2>3, <1>6
<1>8. alloc' = DOMAIN tbl'
  BY <1>1, <1>6
<1>9. ent' \in [alloc' -> Entry]
  BY DEF TableInv, Table
<1>10. Table' /\ NoLeak'
  BY <1>1, <1>3, <1>6, <1>7, <1>8, <1>9 DEF TableInv, Table, NoLeak, Entries, TblLen
<1>11. UniqueEntry'
  <2>1. \A c \in DOMAIN tbl' : ent'[c] = IF c = e THEN new ELSE ent[c]
    BY <1>8
  <2> QED
    BY <2>1, <1>1, <1>2, <1>6 DEF TableInv, UniqueEntry, Entries
<1> QED
  BY <1>10, <1>11 DEF TableInv

\* dsr_rreq_route_discovery and rreq_tbl_add_id.
LEMMA UseEntryTable ==
  ASSUME TableInv, up, NEW a \in Addrs, NEW e \in Cells, NEW new \in Entry, new.addr = a,
         UseEntry(a, e, new), UNCHANGED <<maxLen, up>>
  PROVE  TableInv'
<1>1. CASE e \in EntryFor(a) /\ tbl' = PutTail(Without(tbl, {e}), e)
           /\ ent' = [ent EXCEPT ![e] = new] /\ UNCHANGED <<alloc, oops>>
  <2>1. e \in DOMAIN tbl /\ ent[e].addr = a
    BY <1>1 DEF EntryFor, FirstOf, Entries
  <2> QED
    BY <1>1, <2>1, TouchTable
<1>2. CASE /\ EntryFor(a) = {} /\ e \in Cells \ alloc
           /\ TblFull(tbl, maxLen) => Entries(tbl) # {}
           /\ tbl' = PutTail(Without(tbl, Victims), e)
           /\ alloc' = (alloc \ Victims) \cup {e}
           /\ ent' = [c \in alloc' |-> IF c = e THEN new ELSE ent[c]]
  BY <1>2, NewTable
<1>3. CASE UNCHANGED <<tbl, alloc, ent>>
  BY <1>3 DEF TableInv, Table, NoLeak, UniqueEntry, Entries, TblLen
<1> QED
  BY <1>1, <1>2, <1>3 DEF UseEntry

\* Every function keeps the table invariant.
LEMMA NextTable == TableInv /\ [Next]_vars => TableInv'
<1> SUFFICES ASSUME TableInv, [Next]_vars PROVE TableInv'
  OBVIOUS
<1>0. ent \in [alloc -> Entry] /\ DOMAIN tbl \subseteq alloc /\ (up => alloc = DOMAIN tbl)
  BY DEF TableInv, Table, NoLeak, Entries
<1>1. ASSUME NEW a \in Addrs, RouteDiscovery(a) PROVE TableInv'
  <2>1. PICK e \in Cells : UseEntry(a, e, StartDiscovery(Current(a, e)))
    BY <1>1 DEF RouteDiscovery
  <2>2. Current(a, e) \in Entry /\ Current(a, e).addr = a
    BY <1>0, CurrentEntry
  <2>3. StartDiscovery(Current(a, e)) \in Entry /\ StartDiscovery(Current(a, e)).addr = a
    BY <2>2, StartEntry
  <2>4. up /\ UNCHANGED <<maxLen, up>>
    BY <1>1 DEF RouteDiscovery, Running
  <2> QED
    BY <2>1, <2>3, <2>4, UseEntryTable
<1>2. ASSUME NEW i \in Initiators, NEW t \in Targets, NEW id \in RreqIds, RecvRreq(i, t, id)
      PROVE  TableInv'
  <2>1. PICK e \in Cells : UseEntry(i, e, RecordId(Current(i, e), t, id))
    BY <1>2 DEF RecvRreq
  <2>2. i \in Addrs /\ Current(i, e) \in Entry /\ Current(i, e).addr = i
    BY <1>0, CurrentEntry
  <2>3. RecordId(Current(i, e), t, id) \in Entry /\ RecordId(Current(i, e), t, id).addr = i
    BY <2>2, RecordEntry
  <2>4. up /\ UNCHANGED <<maxLen, up>>
    BY <1>2 DEF RecvRreq, Running
  <2> QED
    BY <2>1, <2>2, <2>3, <2>4, UseEntryTable
<1>3. ASSUME NEW a \in Addrs, Cancel(a) PROVE TableInv'
  <2>1. PICK e \in EntryFor(a) : /\ tbl' = PutTail(Without(tbl, {e}), e)
                               /\ ent' = [ent EXCEPT ![e] = Cancelled(ent[e])]
    BY <1>3 DEF Cancel
  <2>2. e \in DOMAIN tbl /\ ent[e] \in Entry /\ up /\ UNCHANGED <<alloc, maxLen, up>>
    BY <1>0, <1>3 DEF EntryFor, FirstOf, Entries, Cancel, Running
  <2>3. Cancelled(ent[e]) \in Entry /\ Cancelled(ent[e]).addr = ent[e].addr
    BY <2>2, CancelledEntry
  <2> QED
    BY <2>1, <2>2, <2>3, TouchTable
<1>4. ASSUME NEW e \in Cells, Timeout(e) PROVE TableInv'
  <2>1. e \in DOMAIN tbl /\ ent[e] \in Entry /\ up /\ UNCHANGED <<alloc, maxLen, up>>
    BY <1>0, <1>4 DEF Timeout, Running
  <2> DEFINE r == BackedOff(ent[e])
             new == [r EXCEPT !.timer = IF r.state = "IDLE" THEN Off ELSE r.timeout]
  <2>2. r \in Entry /\ r.addr = ent[e].addr
    BY <2>1, BackedOffEntry
  <2>3. tbl' = PutTail(Without(tbl, {e}), e) /\ ent' = [ent EXCEPT ![e] = new]
    BY <1>4 DEF Timeout
  <2> HIDE DEF r
  <2>4. new \in Entry /\ new.addr = ent[e].addr
    <3>1. (IF r.state = "IDLE" THEN Off ELSE r.timeout) \in Int
      BY <2>2 DEF Entry, Off
    <3> QED
      BY <2>2, <3>1, TimerEntry
  <2> HIDE DEF new
  <2> QED
    BY <2>1, <2>3, <2>4, TouchTable
<1>5. CASE Tick
  <2>1. /\ UNCHANGED <<tbl, alloc, maxLen, up>>
        /\ ent' = [e \in alloc |-> [ent[e] EXCEPT !.timer = IF @ > 0 THEN @ - 1 ELSE @]]
    BY <1>5 DEF Tick
  <2>2. ASSUME NEW r \in Entry
        PROVE  LET s == [r EXCEPT !.timer = IF @ > 0 THEN @ - 1 ELSE @]
               IN  s \in Entry /\ s.addr = r.addr
    <3>1. (IF r.timer > 0 THEN r.timer - 1 ELSE r.timer) \in Int
      BY DEF Entry
    <3> QED
      BY <3>1, TimerEntry
  <2>3. ent' \in [alloc -> Entry] /\ \A e \in alloc : ent'[e].addr = ent[e].addr
    BY <1>0, <2>1, <2>2
  <2> QED
    BY <1>0, <2>1, <2>3 DEF TableInv, Table, NoLeak, UniqueEntry, Entries, TblLen
<1>6. CASE Cleanup
  <2>1. /\ tbl' = EmptyTbl /\ ~up' /\ UNCHANGED <<alloc, maxLen>>
        /\ ent' = [e \in alloc |-> IF e \in Entries(tbl) THEN [ent[e] EXCEPT !.timer = Off]
                                                         ELSE ent[e]]
    BY <1>6 DEF Cleanup
  <2>2. ent' \in [alloc -> Entry]
    <3>1. \A r \in Entry : [r EXCEPT !.timer = Off] \in Entry
      BY TimerEntry DEF Off
    <3> QED
      BY <1>0, <2>1, <3>1
  <2>3. DOMAIN tbl' = {} /\ IsTbl(tbl', Cells) /\ IsFiniteSet(DOMAIN tbl')
    BY <2>1, EmptyIsTbl, FS_EmptySet DEF EmptyTbl
  <2> QED
    BY <2>1, <2>2, <2>3 DEF TableInv, Table, NoLeak, UniqueEntry, Entries
<1>7. CASE UNCHANGED vars
  BY <1>7 DEF vars, TableInv, Table, NoLeak, UniqueEntry, Entries, TblLen
<1> QED
  BY <1>1, <1>2, <1>3, <1>4, <1>5, <1>6, <1>7 DEF Next

\* However requests, replies, packets and timeouts follow each other, there is
\* one entry per address.
THEOREM OneEntryPerAddress == Spec => []UniqueEntry
<1>1. TableInv => UniqueEntry
  BY DEF TableInv
<1> QED
  BY InitTable, NextTable, <1>1, PTL DEF Spec

\* No entry falls out of the table: the handler never unlinks an entry that is
\* not linked, and every eviction makes room for exactly one entry.
THEOREM NoEntryLost == Spec => []NoLeak
<1>1. TableInv => NoLeak
  BY DEF TableInv
<1> QED
  BY InitTable, NextTable, <1>1, PTL DEF Spec

----------------------------------------------------------------------------
(* The backoff of the retransmissions: Spec. *)

\* 2^n counts the subsets of an interval, from which the powers of two follow:
\* the provers know nothing else of exponentiation.
LEMMA SubsetCount ==
  ASSUME NEW n \in Nat
  PROVE  /\ IsFiniteSet(SUBSET (1..n)) /\ Cardinality(SUBSET (1..n)) = 2^n
         /\ 2^n \in Nat
<1>1. IsFiniteSet(1..n) /\ Cardinality(1..n) = n
  BY FS_Interval
<1>2. IsFiniteSet(SUBSET (1..n)) /\ Cardinality(SUBSET (1..n)) = 2^Cardinality(1..n)
  BY <1>1, FS_SUBSET
<1> QED
  BY <1>1, <1>2, FS_CardinalityType

\* The next power of two is the double: a set and one element more have twice
\* the subsets.
LEMMA PowersOfTwo ==
  ASSUME NEW n \in Nat
  PROVE  2^0 = 1 /\ 2^n \in Nat /\ 2^(n + 1) = 2 * 2^n
<1> DEFINE A == SUBSET (1..n)
           B == {x \cup {n + 1} : x \in A}
           f == [x \in A |-> x \cup {n + 1}]
<1>1. SUBSET (1..(n + 1)) = A \cup B
  <2>1. ASSUME NEW x \in SUBSET (1..(n + 1)) PROVE x \in A \cup B
    <3>1. CASE n + 1 \notin x
      BY <3>1
    <3>2. CASE n + 1 \in x
      <4>1. x = (x \ {n + 1}) \cup {n + 1} /\ x \ {n + 1} \in A
        BY <3>2
      <4> QED
        BY <4>1
    <3> QED
      BY <3>1, <3>2
  <2>2. ASSUME NEW x \in A \cup B PROVE x \in SUBSET (1..(n + 1))
    OBVIOUS
  <2> QED
    BY <2>1, <2>2
<1>2. A \cap B = {}
  OBVIOUS
<1>3. f \in Bijection(A, B)
  <2>1. f \in [A -> B] /\ \A y \in B : \E x \in A : f[x] = y
    OBVIOUS
  <2>2. ASSUME NEW x \in A, NEW y \in A, f[x] = f[y] PROVE x = y
    BY <2>2
  <2> QED
    BY <2>1, <2>2 DEF Bijection, Injection, Surjection, IsInjective
<1>4. ExistsBijection(A, B)
  BY <1>3 DEF ExistsBijection
<1>5. IsFiniteSet(A) /\ Cardinality(A) = 2^n /\ 2^n \in Nat /\ Cardinality(A \cup B) = 2^(n + 1)
  <2>1. IsFiniteSet(A) /\ Cardinality(A) = 2^n /\ 2^n \in Nat
    BY SubsetCount
  <2>2. n + 1 \in Nat
    OBVIOUS
  <2>3. Cardinality(SUBSET (1..(n + 1))) = 2^(n + 1)
    BY <2>2, SubsetCount
  <2> QED
    BY <1>1, <2>1, <2>3
<1>6. IsFiniteSet(B) /\ Cardinality(B) = Cardinality(A)
  BY <1>4, <1>5, FS_Bijection
<1>7. Cardinality(A \cup B) = Cardinality(A) + Cardinality(B) - Cardinality(A \cap B)
  BY <1>5, <1>6, FS_Union
<1>8. Cardinality(A \cap B) = 0
  BY <1>2, FS_EmptySet
<1>9. 2^(n + 1) = 2^n + 2^n - 0
  BY <1>5, <1>6, <1>7, <1>8
<1>10. 2^0 = 1
  OBVIOUS
<1> QED
  BY <1>5, <1>9, <1>10

\* An entry in discovery carries the timeout and the hop limit of its number of
\* retransmissions.
OnSchedule(r) ==
  r.state = "IN_ROUTE_DISC" =>
    /\ r.timeout = MinOf(NonpropRequestTimeout * 2^r.rexmts, MaxRequestPeriod)
    /\ r.ttl = MinOf(TTL_START * 2^r.rexmts, MAXTTL)

\* The inductive form of BackoffWithinDiscovery: the timeout of this code is
\* exactly the doubled first one.
BackoffSchedule == \A e \in alloc : OnSchedule(ent[e])

\* Doubling below a cap: the cap hides how far the product has grown, and
\* doubling what was capped gives the capped double.
LEMMA DoubledCapped ==
  ASSUME NEW c \in Nat, NEW max \in Nat, NEW n \in Nat
  PROVE  Doubled(MinOf(c * 2^n, max), max) = MinOf(c * 2^(n + 1), max)
<1>1. 2^n \in Nat /\ 2^(n + 1) = 2 * 2^n
  BY PowersOfTwo
<1>2. PICK p : p = 2^n
  OBVIOUS
<1>3. PICK x : x = c * p
  OBVIOUS
<1>4. x \in Nat /\ c * 2^n = x /\ c * 2^(n + 1) = 2 * x
  <2>1. p \in Nat
    BY <1>1, <1>2
  <2>2. x \in Nat /\ c * (2 * p) = 2 * x
    BY <1>3, <2>1
  <2> QED
    BY <1>1, <1>2, <1>3, <2>2
<1>5. Doubled(MinOf(x, max), max) = MinOf(2 * x, max)
  BY <1>4 DEF Doubled, MinOf
<1> QED
  BY <1>4, <1>5

\* An entry that differs in its timer or its identifications only.
LEMMA SameSchedule ==
  ASSUME NEW r, NEW s, OnSchedule(r), s.state = r.state, s.timeout = r.timeout,
         s.ttl = r.ttl, s.rexmts = r.rexmts
  PROVE  OnSchedule(s)
  BY DEF OnSchedule

\* A new entry is idle; the entry found is on schedule already.
LEMMA CurrentSchedule ==
  ASSUME TableInv, BackoffSchedule, NEW a \in Addrs, NEW e
  PROVE  OnSchedule(Current(a, e))
<1>1. e \in EntryFor(a) => e \in alloc
  BY DEF EntryFor, FirstOf, TableInv, Table
<1>2. e \in EntryFor(a) => OnSchedule(ent[e])
  BY <1>1 DEF BackoffSchedule, OnSchedule
<1>3. OnSchedule(NewEntry(a))
  BY DEF NewEntry, OnSchedule
<1> QED
  BY <1>2, <1>3 DEF Current

\* A discovery starts at the beginning of the schedule.
LEMMA StartSchedule ==
  ASSUME NEW r \in Entry, OnSchedule(r)
  PROVE  OnSchedule(StartDiscovery(r))
<1>1. CASE r.state = "IN_ROUTE_DISC"
  BY <1>1 DEF StartDiscovery
<1>2. CASE r.state # "IN_ROUTE_DISC"
  <2>1. PICK s : s = StartDiscovery(r)
    OBVIOUS
  <2>2. s.timeout = NonpropRequestTimeout /\ s.ttl = TTL_START /\ s.rexmts = 0
    BY <1>2, <2>1 DEF StartDiscovery, Entry
  <2>3. 2^s.rexmts = 1
    BY <2>2, PowersOfTwo
  <2>4. /\ MinOf(NonpropRequestTimeout * 1, MaxRequestPeriod) = NonpropRequestTimeout
        /\ MinOf(TTL_START * 1, MAXTTL) = TTL_START
    BY DEF MinOf, TTL_START
  <2>5. OnSchedule(s)
    BY <2>2, <2>3, <2>4 DEF OnSchedule
  <2> QED
    BY <2>1, <2>5
<1> QED
  BY <1>1, <1>2

\* A retransmission moves the entry one step along the schedule.
LEMMA BackedOffSchedule ==
  ASSUME NEW r \in Entry, OnSchedule(r)
  PROVE  OnSchedule(BackedOff(r))
<1>1. CASE r.rexmts >= MaxRequestRexmt
  <2>1. BackedOff(r).state = "IDLE"
    BY <1>1 DEF BackedOff, Entry
  <2> QED
    BY <2>1 DEF OnSchedule
<1>2. CASE ~(r.rexmts >= MaxRequestRexmt)
  <2>1. PICK s : s = BackedOff(r)
    OBVIOUS
  <2>2. /\ s.state = r.state /\ s.rexmts = r.rexmts + 1
        /\ s.timeout = Doubled(r.timeout, MaxRequestPeriod) /\ s.ttl = Doubled(r.ttl, MAXTTL)
    BY <1>2, <2>1 DEF BackedOff, Entry
  <2>3. r.rexmts \in Nat /\ TTL_START \in Nat
    BY DEF Entry, TTL_START
  <2>4. /\ Doubled(MinOf(NonpropRequestTimeout * 2^r.rexmts, MaxRequestPeriod), MaxRequestPeriod)
             = MinOf(NonpropRequestTimeout * 2^(r.rexmts + 1), MaxRequestPeriod)
        /\ Doubled(MinOf(TTL_START * 2^r.rexmts, MAXTTL), MAXTTL)
             = MinOf(TTL_START * 2^(r.rexmts + 1), MAXTTL)
    BY <2>3, DoubledCapped
  <2>5. OnSchedule(s)
    BY <2>2, <2>4 DEF OnSchedule
  <2> QED
    BY <2>1, <2>5
<1> QED
  BY <1>1, <1>2

\* An entry is used: the others keep their contents, or are evicted.
LEMMA UseEntrySchedule ==
  ASSUME TableInv, BackoffSchedule, NEW a, NEW e, NEW new, OnSchedule(new), UseEntry(a, e, new)
  PROVE  BackoffSchedule'
<1>1. ASSUME NEW c \in alloc' PROVE ent'[c] = new \/ (c \in alloc /\ ent'[c] = ent[c])
  BY DEF UseEntry, TableInv, Table
<1>2. ASSUME NEW c \in alloc' PROVE OnSchedule(ent'[c])
  BY <1>1 DEF BackoffSchedule, OnSchedule
<1> QED
  BY <1>2 DEF BackoffSchedule, OnSchedule

\* Every function keeps the entries on schedule.
LEMMA NextSchedule == TableInv /\ BackoffSchedule /\ [Next]_vars => BackoffSchedule'
<1> SUFFICES ASSUME TableInv, BackoffSchedule, [Next]_vars PROVE BackoffSchedule'
  OBVIOUS
<1>0. /\ ent \in [alloc -> Entry] /\ DOMAIN tbl \subseteq alloc
      /\ \A e \in alloc : OnSchedule(ent[e])
  BY DEF TableInv, Table, BackoffSchedule, OnSchedule
<1>1. ASSUME NEW a \in Addrs, RouteDiscovery(a) PROVE BackoffSchedule'
  <2>1. PICK e \in Cells : UseEntry(a, e, StartDiscovery(Current(a, e)))
    BY <1>1 DEF RouteDiscovery
  <2>2. Current(a, e) \in Entry /\ OnSchedule(Current(a, e))
    BY <1>0, CurrentEntry, CurrentSchedule
  <2>3. OnSchedule(StartDiscovery(Current(a, e)))
    BY <2>2, StartSchedule
  <2> QED
    BY <2>1, <2>3, UseEntrySchedule
<1>2. ASSUME NEW i \in Initiators, NEW t \in Targets, NEW id \in RreqIds, RecvRreq(i, t, id)
      PROVE  BackoffSchedule'
  <2>1. PICK e \in Cells : UseEntry(i, e, RecordId(Current(i, e), t, id))
    BY <1>2 DEF RecvRreq
  <2>2. PICK r : r = Current(i, e)
    OBVIOUS
  <2>3. r \in Entry /\ OnSchedule(r)
    BY <2>2, <1>0, CurrentEntry, CurrentSchedule
  <2>4. OnSchedule(RecordId(r, t, id))
    <3>1. /\ RecordId(r, t, id).state = r.state /\ RecordId(r, t, id).timeout = r.timeout
          /\ RecordId(r, t, id).ttl = r.ttl /\ RecordId(r, t, id).rexmts = r.rexmts
      BY <2>3 DEF RecordId, Entry
    <3> QED
      BY <2>3, <3>1, SameSchedule
  <2> QED
    BY <2>1, <2>2, <2>4, UseEntrySchedule
<1>3. ASSUME NEW a \in Addrs, Cancel(a) PROVE BackoffSchedule'
  <2>1. PICK e \in EntryFor(a) : ent' = [ent EXCEPT ![e] = Cancelled(ent[e])] /\ alloc' = alloc
    BY <1>3 DEF Cancel
  <2>2. e \in alloc
    BY <1>0 DEF EntryFor, FirstOf
  <2>3. Cancelled(ent[e]).state = "IDLE"
    BY <1>0, <2>2, CancelledEntry
  <2>4. \A c \in alloc : ent'[c] = IF c = e THEN Cancelled(ent[e]) ELSE ent[c]
    BY <1>0, <2>1, <2>2
  <2>5. \A c \in alloc : OnSchedule(ent'[c])
    BY <1>0, <2>3, <2>4 DEF OnSchedule
  <2> QED
    BY <2>1, <2>5 DEF BackoffSchedule, OnSchedule
<1>4. ASSUME NEW e \in Cells, Timeout(e) PROVE BackoffSchedule'
  <2>1. PICK r : r = BackedOff(ent[e])
    OBVIOUS
  <2>2. PICK new : new = [r EXCEPT !.timer = IF r.state = "IDLE" THEN Off ELSE r.timeout]
    OBVIOUS
  <2>3. e \in alloc /\ alloc' = alloc /\ ent' = [ent EXCEPT ![e] = new]
    BY <1>4, <2>1, <2>2 DEF Timeout
  <2>4. ent[e] \in Entry /\ OnSchedule(ent[e])
    BY <1>0, <2>3
  <2>5. r \in Entry /\ OnSchedule(r)
    BY <2>1, <2>4, BackedOffEntry, BackedOffSchedule
  <2>6. /\ new.state = r.state /\ new.timeout = r.timeout
        /\ new.ttl = r.ttl /\ new.rexmts = r.rexmts
    BY <2>2, <2>5 DEF Entry
  <2>7. OnSchedule(new)
    BY <2>5, <2>6, SameSchedule
  <2>8. \A c \in alloc : OnSchedule(ent'[c])
    <3>1. \A c \in alloc : ent'[c] = new \/ ent'[c] = ent[c]
      BY <1>0, <2>3
    <3> QED
      BY <1>0, <2>7, <3>1
  <2> QED
    BY <2>3, <2>8 DEF BackoffSchedule, OnSchedule
<1>5. CASE Tick
  <2>1. /\ alloc' = alloc
        /\ ent' = [e \in alloc |-> [ent[e] EXCEPT !.timer = IF @ > 0 THEN @ - 1 ELSE @]]
    BY <1>5 DEF Tick
  <2>2. ASSUME NEW c \in alloc PROVE OnSchedule(ent'[c])
    <3>1. PICK r \in Entry : r = ent[c]
      BY <1>0
    <3>2. PICK t : ent'[c] = [r EXCEPT !.timer = t]
      BY <2>1, <3>1
    <3>3. /\ ent'[c].state = r.state /\ ent'[c].timeout = r.timeout
          /\ ent'[c].ttl = r.ttl /\ ent'[c].rexmts = r.rexmts
      BY <3>2 DEF Entry
    <3> QED
      BY <1>0, <3>1, <3>3, SameSchedule
  <2> QED
    BY <2>1, <2>2 DEF BackoffSchedule, OnSchedule
<1>6. CASE Cleanup
  <2>1. /\ alloc' = alloc
        /\ \A c \in alloc : ent'[c] = ent[c] \/ ent'[c] = [ent[c] EXCEPT !.timer = Off]
    BY <1>6 DEF Cleanup
  <2>2. ASSUME NEW c \in alloc PROVE OnSchedule(ent'[c])
    <3>1. PICK r \in Entry : r = ent[c]
      BY <1>0
    <3>2. /\ ent'[c].state = r.state /\ ent'[c].timeout = r.timeout
          /\ ent'[c].ttl = r.ttl /\ ent'[c].rexmts = r.rexmts
      BY <2>1, <3>1 DEF Entry
    <3> QED
      BY <1>0, <3>1, <3>2, SameSchedule
  <2> QED
    BY <2>1, <2>2 DEF BackoffSchedule, OnSchedule
<1>7. CASE UNCHANGED vars
  BY <1>7 DEF vars, BackoffSchedule
<1> QED
  BY <1>1, <1>2, <1>3, <1>4, <1>5, <1>6, <1>7 DEF Next

\* For every number of retransmissions and every first and largest timeout, a
\* discovery is at least as far in its backoff as its retransmissions say,
\* whatever its entry was used for before.
THEOREM BackoffFollowsSchedule == Spec => []BackoffWithinDiscovery
<1>1. Init => BackoffSchedule
  BY DEF Init, BackoffSchedule
<1>2. TableInv /\ BackoffSchedule => BackoffWithinDiscovery
  <2> SUFFICES ASSUME TableInv, NEW e \in alloc, OnSchedule(ent[e]), ent[e].state = "IN_ROUTE_DISC"
               PROVE  /\ ent[e].timeout >= MinOf(NonpropRequestTimeout * 2^ent[e].rexmts,
                                                 MaxRequestPeriod)
                      /\ ent[e].timeout <= MaxRequestPeriod
                      /\ ent[e].ttl = MinOf(TTL_START * 2^ent[e].rexmts, MAXTTL)
    BY DEF BackoffSchedule, BackoffWithinDiscovery
  <2>1. PICK n, x : n = ent[e].rexmts /\ x = NonpropRequestTimeout * 2^n
    OBVIOUS
  <2>2. n \in Nat
    BY <2>1 DEF TableInv, Table, Entry
  <2>3. 2^n \in Nat
    BY <2>2, PowersOfTwo
  <2>4. x \in Nat /\ MaxRequestPeriod \in Nat
    <3>1. PICK k : k = 2^n
      OBVIOUS
    <3> QED
      BY <2>1, <2>3, <3>1, RreqBounds
  <2>5. ent[e].timeout = MinOf(x, MaxRequestPeriod) /\ ent[e].ttl = MinOf(TTL_START * 2^n, MAXTTL)
    BY <2>1 DEF OnSchedule
  <2>6. MinOf(x, MaxRequestPeriod) \in Nat /\ MinOf(x, MaxRequestPeriod) <= MaxRequestPeriod
    BY <2>4 DEF MinOf
  <2> QED
    BY <2>1, <2>5, <2>6
<1> QED
  BY InitTable, NextTable, NextSchedule, <1>1, <1>2, PTL DEF Spec

----------------------------------------------------------------------------
(* Several Cpus: SmpSpec. *)

SmpTypes ==
  /\ alloc \subseteq Cells /\ ent \in [alloc -> Entry]
  /\ pc \in [Cells -> {"idle", "fired", "out", "in"}]
  /\ ctx \in [Cpus -> SUBSET Cells]

\* The handler of an entry runs only during a discovery and while its timer
\* does not; between two runs a discovery is going on exactly while the timer
\* runs, even for an entry that a reply is working on.
Agrees(label, r) ==
  IF label = "idle" THEN r.state = "IN_ROUTE_DISC" <=> r.timer # Off
                    ELSE r.state = "IN_ROUTE_DISC" /\ r.timer = Off
HandlerAgrees == \A e \in alloc : Agrees(pc[e], ent[e])

\* Until the race that ends the model, the entries that are linked are
\* allocated, and so are those that somebody works on.
SmpInv ==
  /\ SmpTypes
  /\ ~oops => DOMAIN tbl \subseteq alloc /\ HandlerAgrees
  /\ NoUseAfterFree /\ OneOwner

\* Nobody works on an entry of the empty table.
LEMMA InitSmp == SmpInit => SmpInv
<1> SUFFICES ASSUME SmpInit PROVE SmpInv
  OBVIOUS
<1>1. DOMAIN tbl = {} /\ alloc = {} /\ ent = [e \in {} |-> {}]
  BY DEF SmpInit, Init, EmptyTbl
<1>2. SmpTypes
  BY <1>1 DEF SmpInit, SmpTypes
<1> QED
  BY <1>1, <1>2 DEF SmpInit, SmpInv, HandlerAgrees, Agrees, NoUseAfterFree, OneOwner, Held, HeldBy, Entries

\* What tbl_add_tail and the unlinking functions do to the contents.
LEMMA PutTailEntries ==
  ASSUME NEW t, NEW e
  PROVE  DOMAIN PutTail(t, e) \in {DOMAIN t, DOMAIN t \cup {e}}
  BY DEF PutTail, AddTail

\* What is left of a list are the other entries.
LEMMA WithoutEntries ==
  ASSUME NEW t, NEW S
  PROVE  DOMAIN Without(t, S) = DOMAIN t \ S
  BY DEF Without

\* The timer expires: a discovery is going on.
LEMMA FireSmp ==
  ASSUME SmpInv, NEW e \in Cells, Fire(e)
  PROVE  SmpInv'
<1>1. ent[e] \in Entry /\ e \in alloc /\ Off \in Int
  BY DEF Fire, SmpInv, SmpTypes, Off
<1>2. PICK r : r = [ent[e] EXCEPT !.timer = Off]
  OBVIOUS
<1>3. r \in Entry /\ r.state = ent[e].state /\ r.timer = Off
  BY <1>1, <1>2, TimerEntry
<1>4. /\ ent' = [ent EXCEPT ![e] = r] /\ pc' = [pc EXCEPT ![e] = "fired"]
      /\ ent[e].timer # Off /\ pc[e] = "idle" /\ ~oops
      /\ UNCHANGED <<tbl, alloc, oops, ctx>>
  BY <1>2 DEF Fire, Running
<1>5. SmpTypes'
  BY <1>3, <1>4 DEF SmpInv, SmpTypes
<1>6. HandlerAgrees'
  BY <1>1, <1>3, <1>4 DEF SmpInv, SmpTypes, HandlerAgrees, Agrees
<1>7. NoUseAfterFree' /\ OneOwner'
  BY <1>1, <1>4 DEF SmpInv, SmpTypes, NoUseAfterFree, OneOwner, Held, HeldBy, Entries
<1> QED
  BY <1>4, <1>5, <1>6, <1>7 DEF SmpInv

\* The handler takes the entry out of the list, where no reply has taken it.
LEMMA DetachSmp ==
  ASSUME SmpInv, NEW e \in Cells, Detach(e)
  PROVE  SmpInv'
<1>1. CASE oops'
  BY <1>1 DEF Detach, SmpInv, SmpTypes, NoUseAfterFree, OneOwner
<1>2. CASE ~oops'
  <2>1. /\ e \in Entries(tbl) \/ (Entries(tbl) = {} /\ e \notin Held)
        /\ pc' = [pc EXCEPT ![e] = "out"] /\ pc[e] = "fired" /\ ~oops
        /\ UNCHANGED <<alloc, ent, ctx>>
        /\ DOMAIN tbl' = DOMAIN tbl \ {e}
    BY <1>2, WithoutEntries DEF Detach, Running
  <2>2. e \in alloc /\ e \notin Held
    BY <2>1 DEF SmpInv, NoUseAfterFree, OneOwner, Entries
  <2>3. SmpTypes'
    BY <2>1 DEF SmpInv, SmpTypes
  <2>4. HandlerAgrees' /\ DOMAIN tbl' \subseteq alloc'
    BY <2>1, <2>2 DEF SmpInv, SmpTypes, HandlerAgrees, Agrees
  <2>5. NoUseAfterFree' /\ OneOwner'
    BY <2>1, <2>2 DEF SmpInv, SmpTypes, NoUseAfterFree, OneOwner, Held, HeldBy, Entries
  <2> QED
    BY <2>3, <2>4, <2>5 DEF SmpInv
<1> QED
  BY <1>1, <1>2

\* The handler puts back the entry that only it can reach.
LEMMA RejoinSmp ==
  ASSUME SmpInv, NEW e \in Cells, Rejoin(e)
  PROVE  SmpInv'
<1>1. pc[e] = "out" /\ ~oops /\ tbl' = PutTail(tbl, e) /\ UNCHANGED <<alloc, oops, ctx>>
  BY DEF Rejoin, Running
<1>2. e \in alloc /\ e \notin Held /\ e \notin DOMAIN tbl
  BY <1>1 DEF SmpInv, NoUseAfterFree, OneOwner, Entries
<1>3. PICK r : r = BackedOff(ent[e])
  OBVIOUS
<1>4. ent[e] \in Entry /\ ent[e].state = "IN_ROUTE_DISC" /\ ent[e].timer = Off
  BY <1>1, <1>2 DEF SmpInv, SmpTypes, HandlerAgrees, Agrees
<1>5. r \in Entry /\ r.state \in {"IDLE", "IN_ROUTE_DISC"} /\ r.timer = Off
  BY <1>3, <1>4, BackedOffEntry
<1>6. /\ ent' = [ent EXCEPT ![e] = r]
      /\ pc' = [pc EXCEPT ![e] = IF r.state = "IDLE" THEN "idle" ELSE "in"]
  BY <1>3 DEF Rejoin
<1>7. DOMAIN tbl' \in {DOMAIN tbl, DOMAIN tbl \cup {e}}
  BY <1>1, PutTailEntries
<1>8. SmpTypes'
  BY <1>1, <1>5, <1>6 DEF SmpInv, SmpTypes
<1>9. HandlerAgrees' /\ DOMAIN tbl' \subseteq alloc'
  BY <1>1, <1>2, <1>5, <1>6, <1>7 DEF SmpInv, SmpTypes, HandlerAgrees, Agrees
<1>10. NoUseAfterFree' /\ OneOwner'
  BY <1>1, <1>2, <1>6, <1>7 DEF SmpInv, SmpTypes, NoUseAfterFree, OneOwner, Held, HeldBy, Entries
<1> QED
  BY <1>8, <1>9, <1>10 DEF SmpInv

\* The handler ends by setting the timer of the discovery that goes on.
LEMMA ArmSmp ==
  ASSUME SmpInv, NEW e \in Cells, Arm(e)
  PROVE  SmpInv'
<1>1. pc[e] = "in" /\ ~oops /\ UNCHANGED <<tbl, alloc, oops, ctx>> /\ pc' = [pc EXCEPT ![e] = "idle"]
  BY DEF Arm, Running
<1>2. e \in alloc
  BY <1>1 DEF SmpInv, NoUseAfterFree
<1>3. /\ ent[e] \in Entry /\ ent[e].state = "IN_ROUTE_DISC"
      /\ ent[e].timeout \in Int /\ ent[e].timeout # Off
  <2>1. ent[e] \in Entry /\ ent[e].state = "IN_ROUTE_DISC"
    BY <1>1, <1>2 DEF SmpInv, SmpTypes, HandlerAgrees, Agrees
  <2>2. ent[e].timeout \in Nat
    BY <2>1 DEF Entry
  <2> QED
    BY <2>1, <2>2 DEF Off
<1>4. PICK r : r = [ent[e] EXCEPT !.timer = ent[e].timeout]
  OBVIOUS
<1>5. r \in Entry /\ r.state = "IN_ROUTE_DISC" /\ r.timer # Off
  BY <1>3, <1>4, TimerEntry
<1>6. ent' = [ent EXCEPT ![e] = r]
  BY <1>4 DEF Arm
<1>7. SmpTypes'
  BY <1>1, <1>5, <1>6 DEF SmpInv, SmpTypes
<1>8. HandlerAgrees'
  BY <1>1, <1>5, <1>6 DEF SmpInv, SmpTypes, HandlerAgrees, Agrees
<1>9. NoUseAfterFree' /\ OneOwner'
  BY <1>1 DEF SmpInv, SmpTypes, NoUseAfterFree, OneOwner, Held, HeldBy, Entries
<1> QED
  BY <1>1, <1>7, <1>8, <1>9 DEF SmpInv

\* A reply takes a linked entry, which belongs to nobody else.
LEMMA CancelFindSmp ==
  ASSUME SmpInv, NEW c \in Cpus, NEW a \in Addrs, CancelFind(c, a)
  PROVE  SmpInv'
<1>1. PICK e \in DOMAIN tbl : DOMAIN tbl' = DOMAIN tbl \ {e} /\ ctx' = [ctx EXCEPT ![c] = {e}]
  BY WithoutEntries DEF CancelFind, EntryFor, FirstOf
<1>2. ~oops /\ UNCHANGED <<alloc, ent, oops, pc>>
  BY DEF CancelFind, Running
<1>3. e \in alloc /\ e \in Cells /\ e \notin Held /\ pc[e] # "out"
  BY <1>2 DEF SmpInv, SmpTypes, OneOwner, Entries
<1>4. SmpTypes' /\ HandlerAgrees' /\ DOMAIN tbl' \subseteq alloc'
  BY <1>1, <1>2, <1>3 DEF SmpInv, SmpTypes, HandlerAgrees, Agrees
<1>5. \A d \in Cpus : ctx'[d] = IF d = c THEN {e} ELSE ctx[d]
  BY <1>1 DEF SmpInv, SmpTypes
<1>6. Held' \subseteq Held \cup {e}
  BY <1>5 DEF Held, HeldBy
<1>7. NoUseAfterFree'
  BY <1>2, <1>3, <1>6 DEF SmpInv, NoUseAfterFree
<1>8. OneOwner'
  <2>1. \A d \in Cpus : e \notin ctx[d]
    BY <1>3 DEF Held, HeldBy
  <2> QED
    BY <1>1, <1>2, <1>3, <1>5, <1>6, <2>1 DEF SmpInv, OneOwner, Entries, HeldBy
<1> QED
  BY <1>4, <1>7, <1>8 DEF SmpInv

\* The reply has waited for the handler if a discovery is going on, and puts
\* the entry back.
LEMMA CancelEndSmp ==
  ASSUME SmpInv, NEW c \in Cpus, CancelEnd(c)
  PROVE  SmpInv'
<1>1. PICK e \in HeldBy(c) :
        /\ ent[e].state = "IN_ROUTE_DISC" => pc[e] = "idle"
        /\ ent' = [ent EXCEPT ![e] = Cancelled(ent[e])]
        /\ tbl' = PutTail(tbl, e)
  BY DEF CancelEnd
<1>2. ~oops /\ ctx' = [ctx EXCEPT ![c] = {}] /\ UNCHANGED <<alloc, oops, pc>>
  BY DEF CancelEnd, Running
<1>3. e \in alloc /\ e \in Held /\ pc[e] # "out" /\ e \in Cells
  BY <1>1, <1>2 DEF SmpInv, SmpTypes, NoUseAfterFree, OneOwner, Held, HeldBy
<1>4. PICK r : r = Cancelled(ent[e])
  OBVIOUS
<1>5. ent[e] \in Entry
  BY <1>3 DEF SmpInv, SmpTypes
<1>6. /\ r \in Entry /\ r.state = "IDLE"
      /\ r.timer = IF ent[e].state = "IN_ROUTE_DISC" THEN Off ELSE ent[e].timer
  BY <1>4, <1>5, CancelledEntry
<1>7. pc[e] = "idle" /\ r.timer = Off
  BY <1>1, <1>2, <1>3, <1>6 DEF SmpInv, HandlerAgrees, Agrees
<1>8. DOMAIN tbl' \in {DOMAIN tbl, DOMAIN tbl \cup {e}}
  BY <1>1, PutTailEntries
<1>9. SmpTypes'
  BY <1>1, <1>2, <1>4, <1>6 DEF SmpInv, SmpTypes
<1>10. HandlerAgrees' /\ DOMAIN tbl' \subseteq alloc'
  BY <1>1, <1>2, <1>3, <1>4, <1>6, <1>7, <1>8 DEF SmpInv, SmpTypes, HandlerAgrees, Agrees
<1>11. \A d \in Cpus : ctx'[d] = IF d = c THEN {} ELSE ctx[d]
  BY <1>2 DEF SmpInv, SmpTypes
<1>12. Held' \subseteq Held /\ e \notin Held'
  <2>1. \A d \in Cpus : d # c => e \notin ctx[d]
    BY <1>1, <1>2 DEF SmpInv, OneOwner, HeldBy
  <2> QED
    BY <1>11, <2>1 DEF Held, HeldBy
<1>13. NoUseAfterFree'
  BY <1>2, <1>12 DEF SmpInv, NoUseAfterFree
<1>14. OneOwner'
  BY <1>2, <1>3, <1>8, <1>11, <1>12 DEF SmpInv, OneOwner, Entries, HeldBy
<1> QED
  BY <1>9, <1>10, <1>13, <1>14 DEF SmpInv

\* Starting a discovery sets the timer along with the state; the rest of what
\* is done to an entry under the lock touches neither.
LEMMA StartAgrees ==
  ASSUME NEW label, NEW r \in Entry, Agrees(label, r)
  PROVE  Agrees(label, StartDiscovery(r))
<1>1. CASE r.state = "IN_ROUTE_DISC"
  BY <1>1 DEF StartDiscovery
<1>2. CASE r.state # "IN_ROUTE_DISC"
  <2>1. StartDiscovery(r).state = "IN_ROUTE_DISC" /\ StartDiscovery(r).timer = NonpropRequestTimeout
    BY <1>2 DEF StartDiscovery, Entry
  <2>2. label = "idle" /\ NonpropRequestTimeout # Off
    BY <1>2 DEF Agrees, Off
  <2> QED
    BY <2>1, <2>2 DEF Agrees
<1> QED
  BY <1>1, <1>2

\* Recording an id does not disturb a handler at work on the entry.
LEMMA RecordAgrees ==
  ASSUME NEW label, NEW r \in Entry, Agrees(label, r), NEW t \in Targets, NEW id \in RreqIds
  PROVE  Agrees(label, RecordId(r, t, id))
  BY RecordEntry DEF Agrees

\* The entry that is used agrees with its handler, which a new one has not.
LEMMA CurrentAgrees ==
  ASSUME SmpInv, ~oops, NEW a \in Addrs, NEW e \in Cells, e \in EntryFor(a) \/ e \notin alloc
  PROVE  Current(a, e) \in Entry /\ Agrees(pc[e], Current(a, e))
<1>1. ent \in [alloc -> Entry] /\ DOMAIN tbl \subseteq alloc /\ HandlerAgrees
  BY DEF SmpInv, SmpTypes
<1>2. Current(a, e) \in Entry
  BY <1>1, CurrentEntry
<1>3. CASE e \in EntryFor(a)
  BY <1>1, <1>3 DEF EntryFor, FirstOf, Current, HandlerAgrees
<1>4. CASE e \notin EntryFor(a)
  <2>1. pc[e] = "idle"
    BY <1>4 DEF SmpInv, NoUseAfterFree
  <2>2. Current(a, e).state = "IDLE" /\ Current(a, e).timer = Off
    BY <1>4 DEF Current, NewEntry
  <2> QED
    BY <2>1, <2>2, <1>2 DEF Agrees
<1> QED
  BY <1>2, <1>3, <1>4

\* An entry is used, evicting another one only if nobody works on that.
LEMMA UseEntrySmp ==
  ASSUME SmpInv, ~oops, NEW a \in Addrs, NEW e \in Cells, NEW new,
         e \in EntryFor(a) \/ e \notin alloc => new \in Entry /\ Agrees(pc[e], new),
         UseEntry(a, e, new), TimerSynced(a), UNCHANGED <<pc, ctx>>
  PROVE  SmpInv'
<1>1. /\ alloc \subseteq Cells /\ ent \in [alloc -> Entry] /\ DOMAIN tbl \subseteq alloc
      /\ HandlerAgrees /\ pc' = pc /\ ctx' = ctx
  BY DEF SmpInv, SmpTypes
<1>2. CASE e \in EntryFor(a) /\ tbl' = PutTail(Without(tbl, {e}), e)
           /\ ent' = [ent EXCEPT ![e] = new] /\ UNCHANGED <<alloc, oops>>
  <2>1. e \in DOMAIN tbl
    BY <1>2 DEF EntryFor, FirstOf
  <2>2. DOMAIN tbl' \subseteq DOMAIN tbl
    <3>1. PICK t : t = Without(tbl, {e})
      OBVIOUS
    <3>2. DOMAIN t = DOMAIN tbl \ {e} /\ DOMAIN tbl' \in {DOMAIN t, DOMAIN t \cup {e}}
      BY <3>1, <1>2, WithoutEntries, PutTailEntries
    <3> QED
      BY <2>1, <3>2
  <2>3. SmpTypes' /\ HandlerAgrees' /\ DOMAIN tbl' \subseteq alloc'
    BY <1>1, <1>2, <2>1, <2>2 DEF SmpInv, SmpTypes, HandlerAgrees
  <2>4. Held' = Held
    BY <1>1 DEF Held, HeldBy
  <2>5. NoUseAfterFree'
    BY <1>1, <1>2, <2>4 DEF SmpInv, NoUseAfterFree
  <2>6. OneOwner'
    BY <1>1, <1>2, <2>2, <2>4 DEF SmpInv, OneOwner, HeldBy, Entries
  <2> QED
    BY <2>3, <2>5, <2>6 DEF SmpInv
<1>3. CASE /\ EntryFor(a) = {} /\ e \in Cells \ alloc
           /\ tbl' = PutTail(Without(tbl, Victims), e)
           /\ alloc' = (alloc \ Victims) \cup {e}
           /\ ent' = [c \in alloc' |-> IF c = e THEN new ELSE ent[c]]
           /\ UNCHANGED oops
  <2>1. \A v \in Victims : v \in DOMAIN tbl /\ pc[v] = "idle"
    BY <1>3 DEF TimerSynced, Evicted, Victims, First
  <2>2. \A v \in Victims : v \notin Held
    BY <2>1 DEF SmpInv, OneOwner, Entries
  <2>3. e \notin Held /\ pc[e] = "idle" /\ e \notin DOMAIN tbl
    BY <1>1, <1>3 DEF SmpInv, NoUseAfterFree
  <2>4. DOMAIN tbl' \subseteq (DOMAIN tbl \ Victims) \cup {e}
    <3>1. PICK t : t = Without(tbl, Victims)
      OBVIOUS
    <3>2. DOMAIN t = DOMAIN tbl \ Victims /\ DOMAIN tbl' \in {DOMAIN t, DOMAIN t \cup {e}}
      BY <3>1, <1>3, WithoutEntries, PutTailEntries
    <3> QED
      BY <3>2
  <2>5. SmpTypes' /\ HandlerAgrees' /\ DOMAIN tbl' \subseteq alloc'
    BY <1>1, <1>3, <2>4 DEF SmpInv, SmpTypes, HandlerAgrees
  <2>6. Held' = Held
    BY <1>1 DEF Held, HeldBy
  <2>7. NoUseAfterFree'
    BY <1>1, <1>3, <2>1, <2>2, <2>6 DEF SmpInv, NoUseAfterFree
  <2>8. OneOwner'
    BY <1>1, <1>3, <2>3, <2>4, <2>6 DEF SmpInv, OneOwner, Entries, HeldBy
  <2> QED
    BY <2>5, <2>7, <2>8 DEF SmpInv
<1>4. CASE oops' = TRUE /\ UNCHANGED <<tbl, alloc, ent>>
  BY <1>1, <1>4 DEF SmpInv, SmpTypes, NoUseAfterFree, OneOwner
<1> QED
  BY <1>2, <1>3, <1>4 DEF UseEntry

\* The model ends where a handler and an eviction wait for each other.
LEMMA DeadlockSmp ==
  ASSUME SmpInv, NEW a, Deadlock(a), UNCHANGED <<pc, ctx>>
  PROVE  SmpInv'
  BY DEF Deadlock, SmpInv, SmpTypes, NoUseAfterFree, OneOwner

\* Every step between two lock operations keeps the invariant.
LEMMA NextSmp == SmpInv /\ [SmpNext]_svars => SmpInv'
<1> SUFFICES ASSUME SmpInv, [SmpNext]_svars PROVE SmpInv'
  OBVIOUS
<1>1. ASSUME NEW e \in Cells, Fire(e) \/ Detach(e) \/ Rejoin(e) \/ Arm(e) PROVE SmpInv'
  BY <1>1, FireSmp, DetachSmp, RejoinSmp, ArmSmp
<1>2. ASSUME NEW c \in Cpus, NEW a \in Addrs, CancelFind(c, a) PROVE SmpInv'
  BY <1>2, CancelFindSmp
<1>3. ASSUME NEW c \in Cpus, CancelEnd(c) PROVE SmpInv'
  BY <1>3, CancelEndSmp
<1>4. ASSUME NEW a \in Addrs, SmpRouteDiscovery(a) PROVE SmpInv'
  <2>1. ~oops /\ UNCHANGED <<pc, ctx>>
    BY <1>4 DEF SmpRouteDiscovery, Running
  <2>2. ASSUME NEW e \in Cells, TimerSynced(a), UseEntry(a, e, StartDiscovery(Current(a, e)))
        PROVE  SmpInv'
    <3>1. e \in EntryFor(a) \/ e \notin alloc =>
            /\ StartDiscovery(Current(a, e)) \in Entry
            /\ Agrees(pc[e], StartDiscovery(Current(a, e)))
      BY <2>1, CurrentAgrees, StartEntry, StartAgrees
    <3> QED
      BY <2>1, <2>2, <3>1, UseEntrySmp
  <2> QED
    BY <1>4, <2>1, <2>2, DeadlockSmp DEF SmpRouteDiscovery
<1>5. ASSUME NEW i \in Initiators, NEW t \in Targets, NEW id \in RreqIds, SmpRecvRreq(i, t, id)
      PROVE  SmpInv'
  <2>1. ~oops /\ UNCHANGED <<pc, ctx>> /\ i \in Addrs
    BY <1>5 DEF SmpRecvRreq, Running
  <2>2. ASSUME NEW e \in Cells, TimerSynced(i), UseEntry(i, e, RecordId(Current(i, e), t, id))
        PROVE  SmpInv'
    <3>1. e \in EntryFor(i) \/ e \notin alloc =>
            /\ RecordId(Current(i, e), t, id) \in Entry
            /\ Agrees(pc[e], RecordId(Current(i, e), t, id))
      BY <2>1, CurrentAgrees, RecordEntry, RecordAgrees
    <3> QED
      BY <2>1, <2>2, <3>1, UseEntrySmp
  <2> QED
    BY <1>5, <2>1, <2>2, DeadlockSmp DEF SmpRecvRreq
<1>6. ASSUME NEW m \in MaxLens, SetMaxLen(m) PROVE SmpInv'
  BY <1>6 DEF SetMaxLen, SmpInv, SmpTypes, HandlerAgrees, NoUseAfterFree, OneOwner, Held, HeldBy,
              Entries
<1>7. CASE UNCHANGED svars
  BY <1>7 DEF svars, SmpInv, SmpTypes, HandlerAgrees, NoUseAfterFree, OneOwner, Held, HeldBy, Entries
<1> QED
  BY <1>1, <1>2, <1>3, <1>4, <1>5, <1>6, <1>7 DEF SmpNext

\* On any number of Cpus, no entry that a handler or a reply works on is freed.
THEOREM WorkedOnIsAllocated == SmpSpec => []NoUseAfterFree
<1>1. SmpInv => NoUseAfterFree
  BY DEF SmpInv
<1> QED
  BY InitSmp, NextSmp, <1>1, PTL DEF SmpSpec

\* On any number of Cpus, an entry has one owner: it is never linked twice.
THEOREM EntryHasOneOwner == SmpSpec => []OneOwner
<1>1. SmpInv => OneOwner
  BY DEF SmpInv
<1> QED
  BY InitSmp, NextSmp, <1>1, PTL DEF SmpSpec

\* On any number of Cpus, once nobody works on an entry its timer runs exactly
\* during a discovery: none is forgotten, and none expires without one.
THEOREM TimerRunsInDiscovery == SmpSpec => []QuietAgree
<1>1. SmpInv => QuietAgree
  BY DEF SmpInv, QuietAgree, HandlerAgrees, Agrees
<1> QED
  BY InitSmp, NextSmp, <1>1, PTL DEF SmpSpec
=============================================================================
