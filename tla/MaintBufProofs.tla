--------------------------- MODULE MaintBufProofs ---------------------------
(***************************************************************************)
(* MaintBuf for any number of packets and next hops and any timeouts:      *)
(* TypeOK and RequestArmed; TimerCovers where all next hops have the same  *)
(* timeout.                                                                *)
(***************************************************************************)
EXTENDS MaintBuf, DataProofs, TLAPS

\* b has the fields of Cur, each of its type.
BufRec(b) ==
  /\ \E bf, en, ne, rq, fa :
       b = [buf |-> bf, ent |-> en, neigh |-> ne, reqs |-> rq, fate |-> fa]
  /\ BufOK(b)

\* A call pushed on the stack leaves it a stack of calls, and not empty.
LEMMA Pushed ==
  ASSUME NEW st \in Seq(Calls), NEW f \in Calls
  PROVE  /\ <<f>> \o st \in Seq(Calls)
         /\ <<f>> \o st # <<>>
  OBVIOUS

\* What runs after a packet was sent is a stack of calls, and not empty unless
\* the calls st of the caller are.
LEMMA AfterStack ==
  ASSUME NEW b, NEW p, NEW st \in Seq(Calls)
  PROVE  /\ After(b, p, st) \in Seq(Calls)
         /\ st # <<>> => After(b, p, st) # <<>>
  BY Pushed DEF After, Calls

\* Popping the innermost call.
LEMMA Popped ==
  ASSUME NEW f, Call(f), stack \in Seq(Calls)
  PROVE  Tail(stack) \in Seq(Calls)
  BY DEF Call

\* The current state is one the lemmas below are about.
LEMMA CurRec == ASSUME TypeOK PROVE BufRec(Cur)
  BY DEF TypeOK, BufRec, Cur

\* Assigning a well typed state to the variables makes them well typed.
LEMMA BecomesOK == ASSUME NEW b, BufOK(b), Becomes(b) PROVE BufOK(Cur)'
  BY DEF BufOK, Becomes, Cur

\* The fields of a well typed state, and a state put together from such fields.
LEMMA Fields ==
  ASSUME NEW b, BufRec(b)
  PROVE  /\ IsTbl(b.buf, Pkts)
         /\ DOMAIN b.ent = Pkts
         /\ \A p \in Pkts \cap DOMAIN b.buf :
              b.ent[p] \in EntryType /\ b.ent[p].left \in -1..Rto[b.ent[p].hop]
         /\ \A p \in Pkts \ DOMAIN b.buf : b.ent[p] = Blank
         /\ b.neigh \in [Hops -> NeighType]
         /\ b.reqs \subseteq Hops \X Nat \X BOOLEAN
         /\ b.fate \in [Pkts -> Fates]
         /\ \A p \in Pkts : p \in DOMAIN b.buf <=> b.fate[p] = "held"
  BY DEF BufRec, BufOK, Entries

\* A state put together from well typed fields is well typed.
LEMMA Assembled ==
  ASSUME NEW bf, NEW en, NEW ne, NEW rq, NEW fa,
         IsTbl(bf, Pkts), DOMAIN en = Pkts,
         \A p \in Pkts \cap DOMAIN bf :
           en[p] \in EntryType /\ en[p].left \in -1..Rto[en[p].hop],
         \A p \in Pkts \ DOMAIN bf : en[p] = Blank,
         ne \in [Hops -> NeighType],
         rq \subseteq Hops \X Nat \X BOOLEAN,
         fa \in [Pkts -> Fates],
         \A p \in Pkts : p \in DOMAIN bf <=> fa[p] = "held"
  PROVE  BufRec([buf |-> bf, ent |-> en, neigh |-> ne, reqs |-> rq, fate |-> fa])
  BY DEF BufRec, BufOK, Entries

\* The fields a buffer state has: each update below keeps them.
LEMMA Shape ==
  ASSUME NEW b, BufRec(b)
  PROVE  \E bf, en, ne, rq, fa :
           b = [buf |-> bf, ent |-> en, neigh |-> ne, reqs |-> rq, fate |-> fa]
  BY DEF BufRec

\* Removing entries preserves the types, whatever becomes of the packets.
LEMMA RemoveOK ==
  ASSUME NEW b, BufRec(b), NEW S, NEW f \in Fates \ {"held"}
  PROVE  /\ BufRec(Unlink(b, S, f))
         /\ DOMAIN Unlink(b, S, f).buf = DOMAIN b.buf \ S
<1>r. PICK bf, en, ne, rq, fa :
        b = [buf |-> bf, ent |-> en, neigh |-> ne, reqs |-> rq, fate |-> fa]
  BY Shape
<1>1. Unlink(b, S, f) =
        [buf |-> Without(bf, S), ent |-> Assign(en, S, Blank), neigh |-> ne,
         reqs |-> rq, fate |-> Assign(fa, S, f)]
  BY <1>r DEF Unlink
<1>2. /\ IsTbl(bf, Pkts) /\ DOMAIN en = Pkts
      /\ \A p \in Pkts \cap DOMAIN bf :
           en[p] \in EntryType /\ en[p].left \in -1..Rto[en[p].hop]
      /\ \A p \in Pkts \ DOMAIN bf : en[p] = Blank
      /\ ne \in [Hops -> NeighType] /\ rq \subseteq Hops \X Nat \X BOOLEAN
      /\ fa \in [Pkts -> Fates]
      /\ \A q \in Pkts : q \in DOMAIN bf <=> fa[q] = "held"
  BY <1>r, Fields
<1>t. IsTbl(bf, Pkts)
  BY <1>2
<1>3. IsTbl(Without(bf, S), Pkts) /\ DOMAIN Without(bf, S) = DOMAIN bf \ S
  BY <1>t, WithoutIsTbl
<1>4. /\ DOMAIN Assign(en, S, Blank) = Pkts
      /\ \A p \in Pkts : Assign(en, S, Blank)[p] = IF p \in S THEN Blank ELSE en[p]
      /\ Assign(fa, S, f) \in [Pkts -> Fates]
      /\ \A p \in Pkts : Assign(fa, S, f)[p] = IF p \in S THEN f ELSE fa[p]
  BY <1>2 DEF Assign
<1>h. \A p \in Pkts : p \in DOMAIN Without(bf, S) <=> Assign(fa, S, f)[p] = "held"
  BY <1>2, <1>3, <1>4
<1>5. BufRec([buf |-> Without(bf, S), ent |-> Assign(en, S, Blank), neigh |-> ne,
              reqs |-> rq, fate |-> Assign(fa, S, f)])
  BY <1>2, <1>3, <1>4, <1>h, Assembled
<1> QED
  BY <1>1, <1>3, <1>5, <1>r

\* Sending a packet that is not in the buffer preserves the types.
LEMMA AddOK ==
  ASSUME NEW b, BufRec(b), NEW p \in Pkts, NEW h \in Hops, p \notin DOMAIN b.buf
  PROVE  BufRec(Add(b, p, h))
<1>r. PICK bf, en, ne, rq, fa :
        b = [buf |-> bf, ent |-> en, neigh |-> ne, reqs |-> rq, fate |-> fa]
  BY Shape
<1>f. /\ IsTbl(bf, Pkts) /\ DOMAIN en = Pkts /\ p \notin DOMAIN bf
      /\ \A q \in Pkts \cap DOMAIN bf :
           en[q] \in EntryType /\ en[q].left \in -1..Rto[en[q].hop]
      /\ \A q \in Pkts \ DOMAIN bf : en[q] = Blank
      /\ ne \in [Hops -> NeighType] /\ rq \subseteq Hops \X Nat \X BOOLEAN
      /\ fa \in [Pkts -> Fates]
      /\ \A q \in Pkts : q \in DOMAIN bf <=> fa[q] = "held"
  BY <1>r, Fields
<1>1. ne[h].id \in Nat /\ Rto[h] \in Nat /\ MaintHoldoffTime \in Nat /\ MaxMaintRexmt \in Nat
  BY <1>f, MaintRto, MaintNums DEF NeighType
<1>2. PICK ask \in BOOLEAN : ask = (ne[h].since > MaintHoldoffTime)
  <2>1. (ne[h].since > MaintHoldoffTime) \in BOOLEAN
    OBVIOUS
  <2> QED
    BY <2>1
<1>3. PICK ne2, rq2 :
        /\ ne2 = (IF ask THEN [ne EXCEPT ![h] = [id |-> ne[h].id + 1, since |-> 0]] ELSE ne)
        /\ rq2 = (IF ask THEN rq \cup {<<h, ne[h].id, TRUE>>}
                      ELSE rq \cup {<<h, i, FALSE>> : i \in Carried[p]})
  OBVIOUS
<1>4. [id |-> ne[h].id + 1, since |-> 0] \in NeighType
  BY <1>1 DEF NeighType
<1>c. \A i \in Carried[p] : <<h, i, FALSE>> \in Hops \X Nat \X BOOLEAN
  BY MaintPkts
<1>5. ne2 \in [Hops -> NeighType] /\ rq2 \subseteq Hops \X Nat \X BOOLEAN
  <2>1. ne2 \in [Hops -> NeighType]
    <3>1. [ne EXCEPT ![h] = [id |-> ne[h].id + 1, since |-> 0]] \in [Hops -> NeighType]
      BY <1>4, <1>f
    <3> QED
      BY <3>1, <1>3, <1>f
  <2>2. <<h, ne[h].id, TRUE>> \in Hops \X Nat \X BOOLEAN
    BY <1>1
  <2>3. rq \cup {<<h, ne[h].id, TRUE>>} \subseteq Hops \X Nat \X BOOLEAN
    BY <1>f, <2>2
  <2>4. rq \cup {<<h, i, FALSE>> : i \in Carried[p]} \subseteq Hops \X Nat \X BOOLEAN
    BY <1>f, <1>c, Zenon
  <2> QED
    BY <1>3, <2>1, <2>3, <2>4
<1>6. PICK new : new = [hop |-> h, rexmt |-> 0, id |-> ne[h].id, ack |-> ask, left |-> Rto[h]]
  OBVIOUS
<1>7. new \in EntryType /\ new.left \in -1..Rto[new.hop]
  BY <1>1, <1>6 DEF EntryType
<1>8. /\ [fa EXCEPT ![p] = "passed"] \in [Pkts -> Fates]
      /\ \A q \in Pkts : q \in DOMAIN bf <=> [fa EXCEPT ![p] = "passed"][q] = "held"
  BY <1>f DEF Fates
<1>9. CASE h \notin known
  <2>1. Add(b, p, h) = [buf |-> bf, ent |-> en, neigh |-> ne, reqs |-> rq,
                        fate |-> [fa EXCEPT ![p] = "passed"]]
    BY <1>9, <1>r DEF Add
  <2> QED
    BY <2>1, <1>8, <1>f, Assembled
<1>10. CASE h \in known /\ TblFull(bf, maxLen)
  <2>1. Add(b, p, h) = [buf |-> bf, ent |-> en, neigh |-> ne2, reqs |-> rq2,
                        fate |-> [fa EXCEPT ![p] = "passed"]]
    BY <1>10, <1>r, <1>2, <1>3 DEF Add
  <2> QED
    BY <2>1, <1>5, <1>8, <1>f, Assembled
<1>11. CASE h \in known /\ ~TblFull(bf, maxLen)
  <2>1. Add(b, p, h) = [buf |-> AddTail(bf, p), ent |-> [en EXCEPT ![p] = new],
                        neigh |-> ne2, reqs |-> rq2,
                        fate |-> [fa EXCEPT ![p] = "held"]]
    BY <1>11, <1>r, <1>2, <1>3, <1>6 DEF Add
  <2>t. IsTbl(bf, Pkts) /\ p \notin DOMAIN bf
    BY <1>f
  <2>2. IsTbl(AddTail(bf, p), Pkts) /\ DOMAIN AddTail(bf, p) = DOMAIN bf \cup {p}
    BY <2>t, AddTailIsTbl
  <2>3. PICK n : n = [en EXCEPT ![p] = new]
    OBVIOUS
  <2>4. DOMAIN n = Pkts /\ n[p] = new /\ \A q \in Pkts \ {p} : n[q] = en[q]
    BY <2>3, <1>f
  <2>5. /\ \A q \in Pkts \cap DOMAIN AddTail(bf, p) :
             n[q] \in EntryType /\ n[q].left \in -1..Rto[n[q].hop]
        /\ \A q \in Pkts \ DOMAIN AddTail(bf, p) : n[q] = Blank
    BY <2>2, <2>4, <1>7, <1>f
  <2>6. /\ [fa EXCEPT ![p] = "held"] \in [Pkts -> Fates]
        /\ \A q \in Pkts : q \in DOMAIN AddTail(bf, p)
                            <=> [fa EXCEPT ![p] = "held"][q] = "held"
    BY <1>f, <2>2 DEF Fates
  <2> QED
    BY <2>1, <2>2, <2>3, <2>4, <2>5, <2>6, <1>5, <1>f, Assembled
<1> QED
  BY <1>9, <1>10, <1>11

\* Salvaging a packet that was taken out of the buffer preserves the types.
LEMMA SalvageOK ==
  ASSUME NEW b, BufRec(b), NEW p \in Pkts, p \notin DOMAIN b.buf,
         NEW U, U \subseteq Hops, NEW c \in Salvage(b, p, U)
  PROVE  BufRec(c)
<1>r. PICK bf, en, ne, rq, fa :
        b = [buf |-> bf, ent |-> en, neigh |-> ne, reqs |-> rq, fate |-> fa]
  BY Shape
<1>f. /\ IsTbl(bf, Pkts) /\ DOMAIN en = Pkts /\ p \notin DOMAIN bf
      /\ \A q \in Pkts \cap DOMAIN bf :
           en[q] \in EntryType /\ en[q].left \in -1..Rto[en[q].hop]
      /\ \A q \in Pkts \ DOMAIN bf : en[q] = Blank
      /\ ne \in [Hops -> NeighType] /\ rq \subseteq Hops \X Nat \X BOOLEAN
      /\ fa \in [Pkts -> Fates]
      /\ \A q \in Pkts : q \in DOMAIN bf <=> fa[q] = "held"
  BY <1>r, Fields
<1>1. CASE c = [b EXCEPT !.fate[p] = "dropped"]
  <2>1. c = [buf |-> bf, ent |-> en, neigh |-> ne, reqs |-> rq,
             fate |-> [fa EXCEPT ![p] = "dropped"]]
    BY <1>1, <1>r
  <2>2. /\ [fa EXCEPT ![p] = "dropped"] \in [Pkts -> Fates]
        /\ \A q \in Pkts : q \in DOMAIN bf <=> [fa EXCEPT ![p] = "dropped"][q] = "held"
    BY <1>f DEF Fates
  <2> QED
    BY <2>1, <2>2, <1>f, Assembled
<1>2. ASSUME NEW h \in Hops, c = Add(b, p, h) PROVE BufRec(c)
  BY <1>2, AddOK
<1> QED
  BY <1>1, <1>2 DEF Salvage

\* Unlinking and salvaging a packet: types, and the calls that follow.
LEMMA SalvageStepOK ==
  ASSUME TypeOK, NEW p \in Entries(buf), NEW U, U \subseteq Hops,
         NEW st \in Seq(Calls), SalvageStep(p, U, st)
  PROVE  /\ BufOK(Cur)'
         /\ stack' \in Seq(Calls)
         /\ st # <<>> => stack' # <<>>
<1>1. p \in Pkts
  BY DEF TypeOK, BufOK, Cur, IsTbl, Entries
<1>2. BufRec(Unlink(Cur, {p}, "dropped")) /\ p \notin DOMAIN Unlink(Cur, {p}, "dropped").buf
  BY CurRec, RemoveOK DEF Fates
<1>3. PICK b \in Salvage(Unlink(Cur, {p}, "dropped"), p, U) :
        Becomes(b) /\ stack' = After(b, p, st)
  BY DEF SalvageStep
<1>4. BufRec(b)
  BY <1>1, <1>2, SalvageOK
<1>5. BufOK(Cur)'
  BY <1>3, <1>4, BecomesOK DEF BufRec
<1> QED
  BY <1>3, <1>5, AfterStack

\* Putting an entry back after a timeout preserves the types.
LEMMA PutBackOK ==
  ASSUME TypeOK, NEW m \in Entries(buf), ent[m].rexmt + 1 < MaxMaintRexmt
  PROVE  BufOK(PutBack(m))
<1>1. PICK r : r = [ent[m] EXCEPT !.rexmt = @ + 1, !.left = Rto[ent[m].hop]]
  OBVIOUS
<1>2. /\ m \in Pkts /\ m \in DOMAIN buf /\ IsTbl(buf, Pkts) /\ DOMAIN ent = Pkts
      /\ ent[m] \in EntryType
  BY DEF TypeOK, BufOK, Cur, Entries, IsTbl
<1>3. r \in EntryType /\ r.left \in -1..Rto[r.hop]
  <2>1. Rto[ent[m].hop] \in Nat /\ ent[m].rexmt + 1 \in 0..MaxMaintRexmt
    BY <1>2, MaintRto, MaintNums DEF EntryType
  <2>2. PICK h \in Hops, x \in 0..MaxMaintRexmt, i \in Nat, k \in BOOLEAN, l \in Int :
          ent[m] = [hop |-> h, rexmt |-> x, id |-> i, ack |-> k, left |-> l]
    BY <1>2 DEF EntryType
  <2>3. r = [hop |-> h, rexmt |-> x + 1, id |-> i, ack |-> k, left |-> Rto[h]]
    <3>1. r = [[hop |-> h, rexmt |-> x, id |-> i, ack |-> k, left |-> l]
                 EXCEPT !.rexmt = @ + 1, !.left = Rto[h]]
      BY <1>1, <2>2
    <3> QED
      BY <3>1
  <2>4. Rto[h] \in Nat /\ x + 1 \in 0..MaxMaintRexmt
    BY <2>1, <2>2
  <2> QED
    BY <2>3, <2>4 DEF EntryType
<1>4. PICK rest : rest = Without(buf, {m})
  OBVIOUS
<1>5. IsTbl(rest, Pkts) /\ DOMAIN rest = DOMAIN buf \ {m}
  BY <1>2, <1>4, WithoutIsTbl
<1>6. CASE TblFull(rest, maxLen)
  <2>1. PutBack(m) = Unlink(Cur, {m}, "leaked")
    BY <1>4, <1>6 DEF PutBack
  <2> QED
    BY <2>1, CurRec, RemoveOK DEF BufRec, Fates
<1>7. CASE ~TblFull(rest, maxLen)
  <2>1. PICK bf, S : bf = AddBefore(rest, m, S) /\
                     S = {q \in Entries(rest) : ent[q].left > r.left}
    OBVIOUS
  <2>2. PutBack(m) = [Cur EXCEPT !.buf = bf, !.ent[m] = r]
    BY <1>1, <1>4, <1>7, <2>1 DEF PutBack
  <2>a. m \in Pkts /\ m \notin DOMAIN rest /\ IsTbl(rest, Pkts)
    BY <1>2, <1>5
  <2>b. /\ IsTbl(AddBefore(rest, m, S), Pkts)
        /\ DOMAIN AddBefore(rest, m, S) = DOMAIN rest \cup {m}
    BY <2>a, AddBeforeIsTbl
  <2>3. IsTbl(bf, Pkts) /\ DOMAIN bf = DOMAIN rest \cup {m}
    BY <2>1, <2>b
  <2>4. PutBack(m) = [buf |-> bf, ent |-> [ent EXCEPT ![m] = r], neigh |-> neigh,
                      reqs |-> reqs, fate |-> fate]
    BY <2>2 DEF Cur
  <2>5. PICK n : n = [ent EXCEPT ![m] = r]
    OBVIOUS
  <2>6. DOMAIN n = Pkts /\ n[m] = r /\ \A q \in Pkts \ {m} : n[q] = ent[q]
    BY <2>5, <1>2
  <2>7. /\ \A q \in Pkts \cap DOMAIN buf :
             ent[q] \in EntryType /\ ent[q].left \in -1..Rto[ent[q].hop]
        /\ \A q \in Pkts \ DOMAIN buf : ent[q] = Blank
        /\ neigh \in [Hops -> NeighType] /\ reqs \subseteq Hops \X Nat \X BOOLEAN
        /\ fate \in [Pkts -> Fates]
        /\ \A q \in Pkts : q \in DOMAIN buf <=> fate[q] = "held"
    BY DEF TypeOK, BufOK, Cur, Entries
  <2>8. /\ \A q \in Pkts \cap DOMAIN bf :
             n[q] \in EntryType /\ n[q].left \in -1..Rto[n[q].hop]
        /\ \A q \in Pkts \ DOMAIN bf : n[q] = Blank
        /\ \A q \in Pkts : q \in DOMAIN bf <=> fate[q] = "held"
    BY <2>3, <2>6, <2>7, <1>3, <1>5, <1>2
  <2>9. BufRec([buf |-> bf, ent |-> n, neigh |-> neigh, reqs |-> reqs,
                fate |-> fate])
    BY <2>3, <2>6, <2>7, <2>8, Assembled
  <2> QED
    BY <2>4, <2>5, <2>9 DEF BufRec
<1> QED
  BY <1>6, <1>7

----------------------------------------------------------------------------
\* The initial states are well typed.
LEMMA InitOK == Init => TypeOK
<1> SUFFICES ASSUME Init PROVE TypeOK
  OBVIOUS
<1>1. IsTbl(buf, Pkts) /\ DOMAIN buf = {}
  BY EmptyIsTbl DEF Init, EmptyTbl
<1>2. neigh \in [Hops -> NeighType]
  BY MaintNums DEF Init, NeighType
<1>4. fate \in [Pkts -> Fates] /\ reqs \subseteq Hops \X Nat \X BOOLEAN
  BY DEF Init, Fates
<1>5. DOMAIN ent = Pkts /\ \A p \in Pkts : ent[p] = Blank /\ fate[p] # "held"
  BY DEF Init
<1>6. BufOK(Cur)
  BY <1>1, <1>2, <1>4, <1>5 DEF BufOK, Cur, Entries
<1> QED
  BY <1>6 DEF Init, TypeOK, Off

\* The steps that run inside a call.
LEMMA SetTimeoutOK == TypeOK /\ SetTimeout => TypeOK'
<1> SUFFICES ASSUME TypeOK, SetTimeout PROVE TypeOK'
  OBVIOUS
<1>0. Tail(stack) \in Seq(Calls)
  BY Popped DEF SetTimeout, TypeOK
<1>1. BufOK(Cur)'
  BY DEF SetTimeout, TypeOK, BufOK, Cur
<1>2. stack' \in Seq(Calls)
  BY <1>0, Pushed DEF SetTimeout, Calls
<1>3. timer' \in Int /\ timer' >= Off
  <2>1. ASSUME NEW m \in Entries(buf) PROVE ent[m].left \in Int
    BY <2>1 DEF TypeOK, BufOK, Cur, EntryType, Entries, IsTbl
  <2>2. FirstOf(buf, {p \in Entries(buf) : ent[p].ack}) \subseteq Entries(buf)
    BY DEF FirstOf, Entries
  <2>3. CASE UNCHANGED timer
    BY <2>3 DEF TypeOK
  <2>4. ASSUME NEW m \in FirstOf(buf, {p \in Entries(buf) : ent[p].ack}),
               ent[m].left >= 0, timer' = ent[m].left
        PROVE  timer' \in Int /\ timer' >= Off
    BY <2>1, <2>2, <2>4 DEF Off
  <2> QED
    BY <2>3, <2>4 DEF SetTimeout
<1> QED
  BY <1>1, <1>2, <1>3 DEF SetTimeout, TypeOK

\* The timeout handler maint_buf_timeout preserves the types.
LEMMA TimeoutOK == TypeOK /\ Timeout => TypeOK'
<1> SUFFICES ASSUME TypeOK, Timeout PROVE TypeOK'
  OBVIOUS
<1>0. Tail(stack) \in Seq(Calls)
  BY Popped DEF Timeout, TypeOK
<1>1. SUFFICES BufOK(Cur)' /\ stack' \in Seq(Calls) /\ usable' \subseteq Hops
  BY DEF Timeout, TypeOK
<1>2. CASE /\ stack' = Tail(stack)
           /\ UNCHANGED <<buf, ent, neigh, usable, reqs, fate>>
  <2>1. BufOK(Cur)'
    BY <1>2 DEF TypeOK, BufOK, Cur
  <2> QED
    BY <1>0, <1>2, <2>1 DEF TypeOK
<1>3. ASSUME NEW m \in First(buf), ent[m].rexmt + 1 < MaxMaintRexmt, Becomes(PutBack(m)),
             stack' = <<SetTimeoutCall>> \o Tail(stack), UNCHANGED usable
      PROVE  BufOK(Cur)' /\ stack' \in Seq(Calls) /\ usable' \subseteq Hops
  <2>1. m \in Entries(buf)
    BY DEF First, Entries
  <2>2. BufOK(Cur)'
    BY <1>3, <2>1, PutBackOK, BecomesOK
  <2>3. stack' \in Seq(Calls)
    BY <1>0, <1>3, Pushed DEF Calls
  <2> QED
    BY <1>3, <2>2, <2>3 DEF TypeOK
<1>4. ASSUME NEW m \in First(buf), HopDel(ent[m].hop),
             SalvageStep(m, usable', <<SalvageLoop(ent[m].hop)>> \o Tail(stack))
      PROVE  BufOK(Cur)' /\ stack' \in Seq(Calls) /\ usable' \subseteq Hops
  <2>1. m \in Entries(buf) /\ usable' \subseteq Hops
    BY <1>4 DEF First, Entries, HopDel, TypeOK
  <2>2. ent[m].hop \in Hops
    BY <2>1 DEF TypeOK, BufOK, Cur, EntryType, Entries, IsTbl
  <2>3. <<SalvageLoop(ent[m].hop)>> \o Tail(stack) \in Seq(Calls)
    BY <1>0, <2>2, Pushed DEF Calls
  <2> QED
    BY <1>4, <2>1, <2>3, SalvageStepOK
<1>5. ASSUME NEW m \in First(buf), Becomes(Unlink(Cur, {m}, "silent")),
             stack' = <<SetTimeoutCall>> \o Tail(stack), UNCHANGED usable
      PROVE  BufOK(Cur)' /\ stack' \in Seq(Calls) /\ usable' \subseteq Hops
  <2>1. BufOK(Unlink(Cur, {m}, "silent"))
    BY CurRec, RemoveOK DEF BufRec, Fates
  <2>2. stack' \in Seq(Calls)
    BY <1>0, <1>5, Pushed DEF Calls
  <2> QED
    BY <1>5, <2>1, <2>2, BecomesOK DEF TypeOK
<1> QED
  BY <1>2, <1>3, <1>4, <1>5 DEF Timeout

\* One turn of the salvage loop (_maint_buf_timeout after lc_link_del) preserves the types.
LEMMA SalvageTurnOK == TypeOK /\ SalvageTurn => TypeOK'
<1> SUFFICES ASSUME TypeOK, SalvageTurn PROVE TypeOK'
  OBVIOUS
<1>1. SUFFICES BufOK(Cur)' /\ stack' \in Seq(Calls)
  BY DEF SalvageTurn, TypeOK
<1>2. PICK h \in Hops :
        /\ Call(SalvageLoop(h))
        /\ \/ \E p \in FirstOf(buf, {q \in Entries(buf) : ent[q].hop = h}) :
                SalvageStep(p, usable, stack)
           \/ /\ stack' = <<SetTimeoutCall>> \o Tail(stack)
              /\ UNCHANGED <<buf, ent, neigh, reqs, fate>>
  BY DEF SalvageTurn
<1>3. CASE /\ stack' = <<SetTimeoutCall>> \o Tail(stack)
           /\ UNCHANGED <<buf, ent, neigh, reqs, fate>>
  <2>1. BufOK(Cur)'
    BY <1>3 DEF TypeOK, BufOK, Cur
  <2>2. Tail(stack) \in Seq(Calls)
    BY <1>2, Popped DEF TypeOK
  <2> QED
    BY <1>3, <2>1, <2>2, Pushed DEF Calls
<1>4. ASSUME NEW p \in FirstOf(buf, {q \in Entries(buf) : ent[q].hop = h}),
             SalvageStep(p, usable, stack)
      PROVE  BufOK(Cur)' /\ stack' \in Seq(Calls)
  <2>1. p \in Entries(buf)
    BY DEF FirstOf, Entries
  <2> QED
    BY <1>4, <2>1, SalvageStepOK DEF TypeOK
<1> QED
  BY <1>2, <1>3, <1>4

\* A step that removes entries and then looks for the next timeout.
LEMMA PurgeOK ==
  ASSUME TypeOK, NEW S, NEW f \in Fates \ {"held"}, Becomes(Unlink(Cur, S, f)), timer' = Off,
         stack' = <<SetTimeoutCall>>, usable' \in SUBSET usable,
         UNCHANGED <<known, maxLen, up>>
  PROVE  TypeOK'
<1>1. BufOK(Cur)'
  BY CurRec, RemoveOK, BecomesOK DEF BufRec
<1>2. stack' \in Seq(Calls)
  BY DEF Calls
<1> QED
  BY <1>1, <1>2 DEF TypeOK, Off

\* Sending a packet, from dsr_start_xmit or a forwarder, preserves the types.
LEMMA XmitOK ==
  ASSUME TypeOK, NEW p \in Pkts, NEW h \in Hops, Xmit(p, h)
  PROVE  TypeOK'
<1>0. p \notin DOMAIN Cur.buf
  BY DEF TypeOK, BufOK, Cur, Entries, Xmit
<1>1. BufRec(Add(Cur, p, h))
  BY <1>0, CurRec, AddOK
<1>2. BufOK(Cur)'
  BY <1>1, BecomesOK DEF Xmit, BufRec
<1>3. <<>> \in Seq(Calls)
  OBVIOUS
<1>4. stack' \in Seq(Calls)
  BY <1>3, AfterStack DEF Xmit
<1> QED
  BY <1>2, <1>4 DEF Xmit, TypeOK

\* The passing of time preserves the types.
LEMMA TickOK == ASSUME TypeOK, Tick PROVE TypeOK'
<1>1. neigh' \in [Hops -> NeighType]
  <2>1. ASSUME NEW h \in Hops
        PROVE  [neigh[h] EXCEPT !.since = IF @ > MaintHoldoffTime THEN @ ELSE @ + 1]
                 \in NeighType
    <3>1. PICK i \in Nat, k \in 0..(MaintHoldoffTime + 1) :
            neigh[h] = [id |-> i, since |-> k]
      BY <2>1 DEF TypeOK, BufOK, Cur, NeighType
    <3>2. (IF k > MaintHoldoffTime THEN k ELSE k + 1) \in 0..(MaintHoldoffTime + 1)
      BY MaintNums
    <3> QED
      BY <3>1, <3>2 DEF NeighType
  <2> QED
    BY <2>1 DEF Tick
<1>2. DOMAIN ent' = Pkts
  BY DEF Tick
<1>3. ASSUME NEW p \in Pkts
      PROVE  IF p \in Entries(buf)
             THEN ent'[p] \in EntryType /\ ent'[p].left \in -1..Rto[ent'[p].hop]
             ELSE ent'[p] = Blank
  <2>1. ent'[p] = IF p \in Entries(buf) /\ ent[p].left >= 0
                  THEN [ent[p] EXCEPT !.left = @ - 1] ELSE ent[p]
    BY DEF Tick
  <2>2. CASE p \in Entries(buf) /\ ent[p].left >= 0
    <3>1. ent[p] \in EntryType /\ ent[p].left \in -1..Rto[ent[p].hop]
      BY <2>2 DEF TypeOK, BufOK, Cur
    <3>2. ent[p].hop \in Hops /\ Rto[ent[p].hop] \in Nat
      BY <3>1, MaintRto DEF EntryType
    <3> QED
      BY <2>1, <2>2, <3>1, <3>2 DEF EntryType
  <2>3. CASE ~(p \in Entries(buf) /\ ent[p].left >= 0)
    BY <2>1, <2>3 DEF TypeOK, BufOK, Cur
  <2> QED
    BY <2>2, <2>3
<1>4. UNCHANGED <<buf, reqs, fate>>
  BY DEF Tick
<1>5. BufOK(Cur)'
  BY <1>1, <1>2, <1>3, <1>4 DEF TypeOK, BufOK, Cur
<1>6. timer' \in Int /\ timer' >= Off
  BY DEF Tick, TypeOK, Off
<1> QED
  BY <1>5, <1>6 DEF Tick, TypeOK

\* Every step preserves the types.
LEMMA NextOK == TypeOK /\ [Next]_vars => TypeOK'
<1> SUFFICES ASSUME TypeOK, [Next]_vars PROVE TypeOK'
  OBVIOUS
<1>1. CASE Step
  BY <1>1, SetTimeoutOK, TimeoutOK, SalvageTurnOK DEF Step
<1>2. CASE TimerExpires
  <2>1. BufOK(Cur)'
    BY <1>2 DEF TimerExpires, TypeOK, BufOK, Cur
  <2>2. stack' \in Seq(Calls)
    BY <1>2 DEF TimerExpires, Calls
  <2> QED
    BY <1>2, <2>1, <2>2 DEF TimerExpires, TypeOK, Off
<1>3. CASE Tick
  BY <1>3, TickOK
<1>4. CASE CacheChanges \/ SetMaxLen \/ \E h \in Hops : NeighAdd(h)
  <2>1. BufOK(Cur)'
    BY <1>4 DEF CacheChanges, SetMaxLen, NeighAdd, TypeOK, BufOK, Cur
  <2> QED
    BY <1>4, <2>1 DEF CacheChanges, SetMaxLen, NeighAdd, TypeOK
<1>5. CASE Cleanup
  <2>1. BufOK(Cur)'
    BY <1>5, CurRec, RemoveOK, BecomesOK DEF BufRec, Cleanup, Fates
  <2>2. up' \in BOOLEAN
    BY <1>5 DEF Cleanup
  <2>3. timer' \in Int /\ timer' >= Off
    BY <1>5 DEF Cleanup, Off
  <2>4. UNCHANGED <<known, stack, usable, maxLen>>
    BY <1>5 DEF Cleanup
  <2> QED
    BY <2>1, <2>2, <2>3, <2>4 DEF TypeOK
<1>6. ASSUME NEW h \in Hops, RecvRerr(h) PROVE TypeOK'
  BY <1>6, PurgeOK DEF RecvRerr, Fates
<1>7. ASSUME NEW h \in Hops, NEW id, RecvAck(h, id) PROVE TypeOK'
  BY <1>7, PurgeOK DEF RecvAck, Fates
<1>8. ASSUME NEW h \in Hops, NEW p \in Pkts, Xmit(p, h) PROVE TypeOK'
  BY <1>8, XmitOK
<1>9. CASE UNCHANGED vars
  <2>1. BufOK(Cur)'
    BY <1>9 DEF vars, TypeOK, BufOK, Cur
  <2> QED
    BY <1>9, <2>1 DEF vars, TypeOK
<1> QED
  BY <1>1, <1>2, <1>3, <1>4, <1>5, <1>6, <1>7, <1>8, <1>9 DEF Next

\* Type correctness of maint-buf.c's state, among it that the list stays a
\* list and holds exactly the packets it should, through every nesting of
\* timeout, salvage and retransmission.
THEOREM TypeCorrect == Spec => []TypeOK
  BY InitOK, NextOK, PTL DEF Spec

----------------------------------------------------------------------------
\* RequestArmed is preserved: the stack of calls becomes empty only when
\* SetTimeout has looked at the whole buffer, or Timeout has found the timer
\* pending or the buffer empty.
LEMMA NextArmed == TypeOK /\ RequestArmed /\ [Next]_vars => RequestArmed'
<1> SUFFICES ASSUME TypeOK, RequestArmed, [Next]_vars PROVE RequestArmed'
  OBVIOUS
<1> USE DEF RequestArmed
<1>1. CASE SetTimeout
  <2>1. CASE stack' = <<TimeoutCall>> \o Tail(stack)
    <3>1. Tail(stack) \in Seq(Calls)
      BY <1>1, Popped DEF SetTimeout, TypeOK
    <3>2. stack' # <<>>
      BY <2>1, <3>1, Pushed DEF Calls
    <3> QED
      BY <3>2 DEF Idle
  <2>2. CASE \A p \in Entries(buf) : ~ent[p].ack
    BY <1>1, <2>2 DEF SetTimeout
  <2>3. ASSUME NEW m, ent[m].left >= 0, timer' = ent[m].left PROVE timer' # Off
    BY <2>3 DEF Off
  <2> QED
    BY <1>1, <2>1, <2>2, <2>3 DEF SetTimeout
<1>2. CASE Timeout
  <2>0. Tail(stack) \in Seq(Calls)
    BY <1>2, Popped DEF Timeout, TypeOK
  <2>1. CASE (timer # Off \/ Entries(buf) = {}) /\ UNCHANGED <<buf, timer>>
    BY <2>1
  <2>2. CASE stack' = <<SetTimeoutCall>> \o Tail(stack)
    <3>1. stack' # <<>>
      BY <2>0, <2>2, Pushed DEF Calls
    <3> QED
      BY <3>1 DEF Idle
  <2>3. ASSUME NEW m \in First(buf), HopDel(ent[m].hop),
               SalvageStep(m, usable', <<SalvageLoop(ent[m].hop)>> \o Tail(stack))
        PROVE  RequestArmed'
    <3>1. m \in Entries(buf) /\ usable' \subseteq Hops
      BY <2>3 DEF First, Entries, HopDel, TypeOK
    <3>2. ent[m].hop \in Hops
      BY <3>1 DEF TypeOK, BufOK, Cur, EntryType, Entries, IsTbl
    <3>3. /\ <<SalvageLoop(ent[m].hop)>> \o Tail(stack) \in Seq(Calls)
          /\ <<SalvageLoop(ent[m].hop)>> \o Tail(stack) # <<>>
      BY <2>0, <3>2, Pushed DEF Calls
    <3>4. stack' # <<>>
      BY <2>3, <3>1, <3>3, SalvageStepOK
    <3> QED
      BY <3>4 DEF Idle
  <2> QED
    BY <1>2, <2>1, <2>2, <2>3 DEF Timeout
<1>3. CASE SalvageTurn
  <2>1. PICK h \in Hops :
          /\ Call(SalvageLoop(h))
          /\ \/ \E p \in FirstOf(buf, {q \in Entries(buf) : ent[q].hop = h}) :
                  SalvageStep(p, usable, stack)
             \/ stack' = <<SetTimeoutCall>> \o Tail(stack)
    BY <1>3 DEF SalvageTurn
  <2>2. ASSUME NEW p \in FirstOf(buf, {q \in Entries(buf) : ent[q].hop = h}),
               SalvageStep(p, usable, stack)
        PROVE  stack' # <<>>
    <3>1. p \in Entries(buf) /\ stack # <<>> /\ usable \subseteq Hops /\ stack \in Seq(Calls)
      BY <2>1 DEF FirstOf, Entries, Call, TypeOK
    <3> QED
      BY <2>2, <3>1, SalvageStepOK
  <2>3. Tail(stack) \in Seq(Calls)
    BY <2>1, Popped DEF TypeOK
  <2>4. stack' # <<>>
    BY <2>1, <2>2, <2>3, Pushed DEF Calls
  <2> QED
    BY <2>4 DEF Idle
<1>4. CASE Tick
  <2>1. ASSUME NEW p \in Entries(buf), ent'[p].ack PROVE ent[p].ack
    BY <1>4, <2>1 DEF Tick, TypeOK, BufOK, Cur, EntryType, Entries, IsTbl
  <2> QED
    BY <1>4, <2>1 DEF Tick, TypeOK, Off, Idle
<1>5. ASSUME NEW h \in Hops, NEW p \in Pkts, Xmit(p, h) PROVE RequestArmed'
  <2>1. PICK b : b = Add(Cur, p, h)
    OBVIOUS
  <2>2. CASE b.fate[p] = "held"
    <3>1. stack' = <<SetTimeoutCall>> \o <<>>
      BY <1>5, <2>1, <2>2 DEF Xmit, After
    <3> QED
      BY <3>1 DEF Idle
  <2>3. CASE b.fate[p] # "held"
    <3>1. b.buf = buf /\ b.ent = ent
      BY <2>1, <2>3 DEF Add, Cur, TypeOK, BufOK
    <3> QED
      BY <1>5, <2>1, <3>1 DEF Xmit, Becomes, Idle
  <2> QED
    BY <2>2, <2>3
<1>6. CASE TimerExpires
  BY <1>6 DEF TimerExpires, Idle
<1>7. CASE Cleanup
  BY <1>7 DEF Cleanup, Idle
<1>8. CASE CacheChanges \/ SetMaxLen \/ \E h \in Hops : NeighAdd(h)
  BY <1>8 DEF CacheChanges, SetMaxLen, NeighAdd, Idle
<1>9. ASSUME NEW h \in Hops, NEW id, RecvAck(h, id) \/ RecvRerr(h) PROVE RequestArmed'
  BY <1>9 DEF RecvAck, RecvRerr, Idle
<1>10. CASE UNCHANGED vars
  BY <1>10 DEF vars, Idle
<1> QED
  BY <1>1, <1>2, <1>3, <1>4, <1>5, <1>6, <1>7, <1>8, <1>9, <1>10 DEF Next, Step

\* While an ACK REQ is unanswered, the timer of maint-buf.c that detects the
\* broken link runs whenever none of its functions is executing.
THEOREM RequestAlwaysArmed == Spec => []RequestArmed
<1>1. Init => RequestArmed
  BY DEF Init, RequestArmed, EmptyTbl, Entries
<1> QED
  BY <1>1, InitOK, NextOK, NextArmed, PTL DEF Spec
----------------------------------------------------------------------------
(* TimerCovers, where every next hop has the same timeout.                  *)

\* The condition under which the code's list is in the order of the timeouts:
\* entries are appended, or put back, with the whole timeout left.
SameRto == \A g, h \in Hops : Rto[g] = Rto[h]

\* Of the buffer state b: the list is sorted by the time left.
Sorted(b) ==
  \A y \in DOMAIN b.buf : \A x \in b.buf[y] : b.ent[x].left <= b.ent[y].left

\* The timer, if it runs with t left, is due before every request.
DueFirst(b, t) ==
  t # Off => \A p \in DOMAIN b.buf : b.ent[p].ack => t <= b.ent[p].left \/ t = 0

\* The inductive invariant.  Unlike TimerCovers it holds within the calls too.
CoverInv ==
  /\ SameRto /\ TypeOK /\ RequestArmed
  /\ Sorted(Cur) /\ DueFirst(Cur, timer) /\ \A h \in Hops : timer <= Rto[h]

\* No entry has more than the whole timeout left.
LEMMA LeftBound ==
  ASSUME SameRto, NEW b, BufRec(b), NEW h \in Hops, NEW p \in DOMAIN b.buf
  PROVE  p \in Pkts /\ b.ent[p].left \in Int /\ b.ent[p].left <= Rto[h]
<1>1. IsTbl(b.buf, Pkts)
  BY Fields
<1>2. p \in Pkts /\ p \in Pkts \cap DOMAIN b.buf
  BY <1>1 DEF IsTbl
<1>3. b.ent[p] \in EntryType /\ b.ent[p].left \in -1 .. Rto[b.ent[p].hop]
  BY <1>2, Fields
<1>4. b.ent[p].hop \in Hops
  BY <1>3 DEF EntryType
<1>5. Rto[b.ent[p].hop] = Rto[h] /\ Rto[h] \in Nat
  BY <1>4, MaintRto DEF SameRto
<1> QED
  BY <1>2, <1>3, <1>5

\* Removing entries leaves the others in their order.
LEMMA RemoveCover ==
  ASSUME NEW b, BufRec(b), NEW S, NEW f, NEW t, Sorted(b), DueFirst(b, t)
  PROVE  Sorted(Unlink(b, S, f)) /\ DueFirst(Unlink(b, S, f), t)
<1>1. PICK r : r = Unlink(b, S, f)
  OBVIOUS
<1>2. r.buf = Without(b.buf, S) /\ r.ent = Assign(b.ent, S, Blank)
  BY <1>1 DEF Unlink
<1>3. IsTbl(b.buf, Pkts)
  BY Fields
<1>4. /\ DOMAIN r.buf = DOMAIN b.buf \ S
      /\ \A y \in DOMAIN r.buf : r.buf[y] = b.buf[y] \ S /\ b.buf[y] \subseteq DOMAIN b.buf
      /\ DOMAIN b.buf \subseteq Pkts
  BY <1>2, <1>3 DEF Without, IsTbl
<1>5. \A p \in DOMAIN b.buf \ S : r.ent[p] = b.ent[p]
  BY <1>2, <1>4 DEF Assign
<1>6. Sorted(r)
  BY <1>4, <1>5 DEF Sorted
<1>7. DueFirst(r, t)
  BY <1>4, <1>5 DEF DueFirst
<1> QED
  BY <1>1, <1>6, <1>7

\* A packet is appended with the whole timeout left.
LEMMA AddCover ==
  ASSUME SameRto, NEW b, BufRec(b), NEW p \in Pkts, NEW h \in Hops, p \notin DOMAIN b.buf,
         NEW t, Sorted(b), DueFirst(b, t), t <= Rto[h]
  PROVE  Sorted(Add(b, p, h)) /\ DueFirst(Add(b, p, h), t)
<1>r. PICK bf, en, ne, rq, fa :
        b = [buf |-> bf, ent |-> en, neigh |-> ne, reqs |-> rq, fate |-> fa]
  BY Shape
<1>1. PICK r : r = Add(b, p, h)
  OBVIOUS
<1>2. \/ r.buf = bf /\ r.ent = en
      \/ \E new : r.buf = AddTail(bf, p) /\ r.ent = [en EXCEPT ![p] = new] /\ new.left = Rto[h]
  <2>1. CASE h \notin known \/ TblFull(bf, maxLen)
    BY <1>r, <1>1, <2>1 DEF Add
  <2>2. CASE ~(h \notin known \/ TblFull(bf, maxLen))
    <3>1. PICK new : new = [hop |-> h, rexmt |-> 0, id |-> ne[h].id,
                            ack |-> ne[h].since > MaintHoldoffTime, left |-> Rto[h]]
      OBVIOUS
    <3>2. \E ne2, rq2 :
            Add(b, p, h) = [buf |-> AddTail(bf, p), ent |-> [en EXCEPT ![p] = new],
                            neigh |-> ne2, reqs |-> rq2, fate |-> [fa EXCEPT ![p] = "held"]]
      BY <1>r, <2>2, <3>1 DEF Add
    <3>3. r.buf = AddTail(bf, p) /\ r.ent = [en EXCEPT ![p] = new]
      BY <1>1, <3>2
    <3>4. new.left = Rto[h]
      BY <3>1, Zenon
    <3> QED
      BY <3>3, <3>4
  <2> QED
    BY <2>1, <2>2
<1>3. CASE r.buf = bf /\ r.ent = en
  <2>1. r.buf = b.buf /\ r.ent = b.ent
    BY <1>3, <1>r
  <2> QED
    BY <1>1, <2>1 DEF Sorted, DueFirst
<1>4. ASSUME NEW new, r.buf = AddTail(bf, p), r.ent = [en EXCEPT ![p] = new], new.left = Rto[h]
      PROVE  Sorted(r) /\ DueFirst(r, t)
  <2>1. IsTbl(b.buf, Pkts) /\ DOMAIN b.ent = Pkts
    BY Fields
  <2>2. b.buf = bf /\ b.ent = en
    BY <1>r
  <2>3. /\ DOMAIN r.buf = DOMAIN b.buf \cup {p} /\ r.buf[p] = DOMAIN b.buf
        /\ \A y \in DOMAIN b.buf : r.buf[y] = b.buf[y] /\ b.buf[y] \subseteq DOMAIN b.buf
        /\ DOMAIN b.buf \subseteq Pkts
    BY <1>4, <2>1, <2>2 DEF AddTail, IsTbl
  <2>4. r.ent[p].left = Rto[h] /\ \A q \in DOMAIN b.buf : r.ent[q] = b.ent[q]
    BY <1>4, <2>1, <2>2, <2>3
  <2>5. \A q \in DOMAIN b.buf : b.ent[q].left <= Rto[h]
    BY LeftBound
  <2>6. Sorted(r)
    BY <2>3, <2>4, <2>5 DEF Sorted
  <2>7. DueFirst(r, t)
    BY <2>3, <2>4 DEF DueFirst
  <2> QED
    BY <2>6, <2>7
<1> QED
  BY <1>1, <1>2, <1>3, <1>4

\* So is a packet that is salvaged.
LEMMA SalvageCover ==
  ASSUME SameRto, CoverInv, NEW p \in Entries(buf), NEW U, U \subseteq Hops, NEW st,
         SalvageStep(p, U, st)
  PROVE  Sorted(Cur)' /\ DueFirst(Cur', timer)
<1> DEFINE d == Unlink(Cur, {p}, "dropped")
<1>1. p \in Pkts /\ TypeOK /\ Sorted(Cur) /\ DueFirst(Cur, timer)
  BY DEF CoverInv, TypeOK, BufOK, Cur, IsTbl, Entries
<1>2. BufRec(Cur)
  BY <1>1, CurRec
<1>3. BufRec(d) /\ p \notin DOMAIN d.buf
  BY <1>2, RemoveOK DEF Fates
<1>4. Sorted(d) /\ DueFirst(d, timer)
  BY <1>1, <1>2, RemoveCover
<1> HIDE DEF d
<1>5. PICK b \in Salvage(d, p, U) : Becomes(b)
  BY DEF SalvageStep, d
<1>6. Sorted(b) /\ DueFirst(b, timer)
  <2>1. CASE b = [d EXCEPT !.fate[p] = "dropped"]
    <3>1. PICK bf, en, ne, rq, fa :
            d = [buf |-> bf, ent |-> en, neigh |-> ne, reqs |-> rq, fate |-> fa]
      BY <1>3, Shape
    <3>2. b.buf = d.buf /\ b.ent = d.ent
      BY <2>1, <3>1
    <3> QED
      BY <1>4, <3>2 DEF Sorted, DueFirst
  <2>2. ASSUME NEW h \in Hops, b = Add(d, p, h) PROVE Sorted(b) /\ DueFirst(b, timer)
    <3>1. timer <= Rto[h]
      BY DEF CoverInv
    <3> QED
      BY <1>1, <1>3, <1>4, <2>2, <3>1, AddCover
  <2> QED
    BY <1>5, <2>1, <2>2 DEF Salvage
<1> QED
  BY <1>5, <1>6 DEF Becomes, Cur, Sorted, DueFirst
\* An entry is put back behind all others, none of which has more time left.
LEMMA PutBackSorted ==
  ASSUME SameRto, CoverInv, NEW m \in Entries(buf), ent[m].rexmt + 1 < MaxMaintRexmt
  PROVE  Sorted(PutBack(m))
<1>1. TypeOK /\ Sorted(Cur)
  BY DEF CoverInv
<1>2. BufRec(Cur) /\ Cur.buf = buf /\ Cur.ent = ent
  BY <1>1, CurRec DEF Cur
<1>3. /\ IsTbl(buf, Pkts) /\ DOMAIN ent = Pkts /\ m \in DOMAIN buf /\ m \in Pkts
      /\ ent[m] \in EntryType
  BY <1>1 DEF TypeOK, BufOK, Cur, Entries, IsTbl
<1>4. ent[m].hop \in Hops
  BY <1>3 DEF EntryType
<1>5. PICK R : R = Rto[ent[m].hop]
  OBVIOUS
<1>6. PICK r : r = [ent[m] EXCEPT !.rexmt = @ + 1, !.left = Rto[ent[m].hop]]
  OBVIOUS
<1>7. r.left = R
  BY <1>3, <1>5, <1>6 DEF EntryType
<1>8. \A q \in DOMAIN buf : ent[q].left \in Int /\ ent[q].left <= R /\ q \in Pkts
  BY <1>2, <1>4, <1>5, LeftBound
<1>9. R \in Nat
  BY <1>4, <1>5, MaintRto
<1>10. PICK rest : rest = Without(buf, {m})
  OBVIOUS
<1>11. /\ DOMAIN rest = DOMAIN buf \ {m}
       /\ \A y \in DOMAIN rest : rest[y] = buf[y] \ {m} /\ rest[y] \subseteq DOMAIN rest
  BY <1>3, <1>10 DEF Without, IsTbl
<1>12. CASE TblFull(rest, maxLen)
  <2>1. PutBack(m) = Unlink(Cur, {m}, "leaked")
    BY <1>10, <1>12 DEF PutBack
  <2>2. DueFirst(Cur, timer)
    BY DEF CoverInv
  <2> QED
    BY <1>1, <1>2, <2>1, <2>2, RemoveCover
<1>13. CASE ~TblFull(rest, maxLen)
  <2>1. PICK S : S = {q \in Entries(rest) : ent[q].left > r.left}
    OBVIOUS
  <2>2. S = {}
    BY <1>7, <1>8, <1>9, <1>11, <2>1 DEF Entries
  <2>3. PICK bf : bf = AddBefore(rest, m, S)
    OBVIOUS
  <2>4. PutBack(m) = [Cur EXCEPT !.buf = bf, !.ent[m] = r]
    BY <1>6, <1>10, <1>13, <2>1, <2>3 DEF PutBack
  <2>5. PutBack(m).buf = bf /\ PutBack(m).ent = [ent EXCEPT ![m] = r]
    BY <2>4 DEF Cur
  <2>6. /\ DOMAIN bf = DOMAIN rest \cup {m} /\ bf[m] = DOMAIN rest
        /\ \A y \in DOMAIN rest : bf[y] = rest[y]
    BY <1>11, <2>2, <2>3 DEF AddBefore
  <2>7. PICK n : n = [ent EXCEPT ![m] = r]
    OBVIOUS
  <2>8. n[m] = r /\ \A q \in Pkts \ {m} : n[q] = ent[q]
    BY <1>3, <2>7
  <2>9. \A y \in DOMAIN rest : \A x \in bf[y] : n[x].left <= n[y].left
    <3> SUFFICES ASSUME NEW y \in DOMAIN rest, NEW x \in bf[y] PROVE n[x].left <= n[y].left
      OBVIOUS
    <3>1. x \in buf[y] /\ y \in DOMAIN buf /\ x # m /\ y # m /\ x \in DOMAIN buf
      BY <1>11, <2>6
    <3>2. ent[x].left <= ent[y].left
      BY <1>1, <1>2, <3>1 DEF Sorted
    <3> QED
      BY <1>8, <2>8, <3>1, <3>2
  <2>10. \A x \in bf[m] : n[x].left <= n[m].left
    BY <1>7, <1>8, <1>11, <2>6, <2>8
  <2> QED
    BY <2>5, <2>6, <2>7, <2>9, <2>10 DEF Sorted
<1> QED
  BY <1>12, <1>13

\* The first request in the list is the first to time out.
LEMMA SetTimeoutCover == ASSUME SameRto, CoverInv, SetTimeout PROVE CoverInv'
<1>1. TypeOK /\ Sorted(Cur) /\ DueFirst(Cur, timer) /\ UNCHANGED <<buf, ent>>
  BY DEF CoverInv, SetTimeout
<1>2. TypeOK' /\ RequestArmed'
  BY SetTimeoutOK, NextArmed DEF CoverInv, Next, Step
<1>3. Sorted(Cur)'
  BY <1>1 DEF Sorted, Cur
<1>4. BufRec(Cur) /\ Cur.buf = buf /\ Cur.ent = ent /\ IsTbl(buf, Pkts)
  BY <1>1, CurRec DEF Cur, TypeOK, BufOK
<1>5. CASE UNCHANGED timer
  <2>1. DueFirst(Cur, timer)' /\ \A h \in Hops : timer' <= Rto[h]
    BY <1>1, <1>5 DEF DueFirst, Cur, CoverInv, Off
  <2> QED
    BY <1>2, <1>3, <2>1 DEF CoverInv
<1>6. ASSUME NEW m \in FirstOf(buf, {p \in Entries(buf) : ent[p].ack}), timer' = ent[m].left
      PROVE  CoverInv'
  <2>1. m \in DOMAIN buf
    BY DEF FirstOf
  <2>2. \A h \in Hops : timer' <= Rto[h]
    BY <1>4, <1>6, <2>1, LeftBound
  <2>3. ASSUME NEW p \in DOMAIN buf, ent[p].ack PROVE ent[m].left <= ent[p].left
    <3>1. p = m \/ m \in buf[p]
      BY <1>4, <2>1, <2>3 DEF FirstOf, IsTbl, Entries
    <3>2. CASE p = m
      <4>1. ent[m].left \in Int
        BY <2>1, <1>1 DEF TypeOK, BufOK, Cur, IsTbl, EntryType, Entries
      <4> QED
        BY <3>2, <4>1
    <3>3. CASE m \in buf[p]
      BY <1>1, <1>4, <3>3 DEF Sorted
    <3> QED
      BY <3>1, <3>2, <3>3
  <2>4. DueFirst(Cur', timer')
    BY <1>1, <1>6, <2>3 DEF DueFirst, Cur
  <2>5. DueFirst(Cur, timer)'
    BY <2>4 DEF DueFirst, Off
  <2> QED
    BY <1>2, <1>3, <2>2, <2>5 DEF CoverInv
<1> QED
  BY <1>5, <1>6 DEF SetTimeout

\* A step that changes neither list, entries nor timer, or turns the timer off.
LEMMA QuietCover ==
  ASSUME CoverInv, TypeOK', RequestArmed', Sorted(Cur)', timer' = Off \/ (timer' = timer /\ DueFirst(Cur', timer))
  PROVE  CoverInv'
<1>1. DueFirst(Cur, timer)'
  BY DEF DueFirst, Off
<1>2. \A h \in Hops : timer' <= Rto[h]
  BY MaintRto DEF CoverInv, Off
<1> QED
  BY <1>1, <1>2 DEF CoverInv
\* _maint_buf_timeout: the timer is off whenever it changes the buffer.
LEMMA TimeoutCover == ASSUME SameRto, CoverInv, Timeout PROVE CoverInv'
<1>1. TypeOK /\ Sorted(Cur) /\ DueFirst(Cur, timer) /\ UNCHANGED timer /\ BufRec(Cur)
  BY CurRec DEF CoverInv, Timeout
<1>2. TypeOK' /\ RequestArmed'
  BY TimeoutOK, NextArmed DEF CoverInv, Next, Step
<1>3. CASE UNCHANGED <<buf, ent>>
  <2>1. Sorted(Cur)' /\ DueFirst(Cur', timer)
    BY <1>1, <1>3 DEF Sorted, DueFirst, Cur
  <2> QED
    BY <1>1, <1>2, <2>1, QuietCover
<1>4. ASSUME NEW m \in First(buf), ent[m].rexmt + 1 < MaxMaintRexmt, Becomes(PutBack(m)), timer = Off
      PROVE  CoverInv'
  <2>1. m \in Entries(buf)
    BY DEF First, Entries
  <2>2. Sorted(PutBack(m))
    BY <1>4, <2>1, PutBackSorted
  <2>3. Sorted(Cur)'
    BY <1>4, <2>2 DEF Becomes, Cur, Sorted
  <2> QED
    BY <1>1, <1>2, <1>4, <2>3, QuietCover
<1>5. ASSUME NEW m \in First(buf), NEW st, SalvageStep(m, usable', st), usable' \subseteq Hops
      PROVE  CoverInv'
  <2>1. m \in Entries(buf)
    BY DEF First, Entries
  <2>2. Sorted(Cur)' /\ DueFirst(Cur', timer)
    BY <1>5, <2>1, SalvageCover
  <2> QED
    BY <1>1, <1>2, <2>2, QuietCover
<1>6. ASSUME NEW m, Becomes(Unlink(Cur, {m}, "silent")) PROVE CoverInv'
  <2>1. Sorted(Unlink(Cur, {m}, "silent")) /\ DueFirst(Unlink(Cur, {m}, "silent"), timer)
    BY <1>1, RemoveCover
  <2>2. Sorted(Cur)' /\ DueFirst(Cur', timer)
    BY <1>6, <2>1 DEF Becomes, Cur, Sorted, DueFirst
  <2> QED
    BY <1>1, <1>2, <2>2, QuietCover
<1>7. usable' \subseteq Hops
  BY <1>2 DEF TypeOK
<1> QED
  BY <1>3, <1>4, <1>5, <1>6, <1>7 DEF Timeout

\* One turn of the salvage loop: what it transmits is due after the timer.
LEMMA SalvageTurnCover == ASSUME SameRto, CoverInv, SalvageTurn PROVE CoverInv'
<1>1. TypeOK /\ Sorted(Cur) /\ DueFirst(Cur, timer) /\ UNCHANGED timer /\ usable \subseteq Hops
  BY DEF CoverInv, SalvageTurn, TypeOK
<1>2. TypeOK' /\ RequestArmed'
  BY SalvageTurnOK, NextArmed DEF CoverInv, Next, Step
<1>3. CASE UNCHANGED <<buf, ent>>
  <2>1. Sorted(Cur)' /\ DueFirst(Cur', timer)
    BY <1>1, <1>3 DEF Sorted, DueFirst, Cur
  <2> QED
    BY <1>1, <1>2, <2>1, QuietCover
<1>4. ASSUME NEW S, NEW p \in FirstOf(buf, S), SalvageStep(p, usable, stack) PROVE CoverInv'
  <2>1. p \in Entries(buf)
    BY DEF FirstOf, Entries
  <2>2. Sorted(Cur)' /\ DueFirst(Cur', timer)
    BY <1>1, <1>4, <2>1, SalvageCover
  <2> QED
    BY <1>1, <1>2, <2>2, QuietCover
<1> QED
  BY <1>3, <1>4 DEF SalvageTurn

\* The entries and the timer age together.
LEMMA TickCover == ASSUME CoverInv, Tick PROVE CoverInv'
<1>1. TypeOK /\ Sorted(Cur) /\ DueFirst(Cur, timer) /\ timer \in Int /\ timer >= Off
  BY DEF CoverInv, TypeOK
<1>2. TypeOK' /\ RequestArmed'
  BY TickOK, NextArmed DEF CoverInv, Next
<1>3. /\ buf' = buf /\ DOMAIN buf \subseteq Pkts
      /\ \A y \in DOMAIN buf : buf[y] \subseteq DOMAIN buf
  BY <1>1 DEF Tick, TypeOK, BufOK, Cur, IsTbl
<1>4. \A p \in DOMAIN buf : /\ ent[p].left \in Int /\ ent[p].left >= -1
                            /\ ent'[p].ack = ent[p].ack
                            /\ ent'[p].left = IF ent[p].left >= 0 THEN ent[p].left - 1 ELSE ent[p].left
  <2> SUFFICES ASSUME NEW p \in DOMAIN buf
               PROVE  /\ ent[p].left \in Int /\ ent[p].left >= -1
                      /\ ent'[p].ack = ent[p].ack
                      /\ ent'[p].left = IF ent[p].left >= 0 THEN ent[p].left - 1 ELSE ent[p].left
    OBVIOUS
  <2>1. p \in Pkts /\ ent[p] \in EntryType /\ ent[p].left \in -1 .. Rto[ent[p].hop]
    BY <1>1, <1>3 DEF TypeOK, BufOK, Cur, Entries
  <2>2. ent'[p] = IF ent[p].left >= 0 THEN [ent[p] EXCEPT !.left = @ - 1] ELSE ent[p]
    BY <2>1 DEF Tick, Entries
  <2>3. ent[p].hop \in Hops /\ Rto[ent[p].hop] \in Nat
    BY <2>1, MaintRto DEF EntryType
  <2> QED
    BY <2>1, <2>2, <2>3 DEF EntryType
<1>5. Sorted(Cur)'
  <2> SUFFICES ASSUME NEW y \in DOMAIN buf, NEW x \in buf[y] PROVE ent'[x].left <= ent'[y].left
    BY <1>3 DEF Sorted, Cur
  <2>1. ent[x].left <= ent[y].left /\ x \in DOMAIN buf
    BY <1>1, <1>3 DEF Sorted, Cur
  <2> QED
    BY <1>4, <2>1
<1>6. timer' = IF timer > 0 THEN timer - 1 ELSE timer
  BY DEF Tick
<1>7. DueFirst(Cur, timer)'
  <2> SUFFICES ASSUME timer' # Off, NEW p \in DOMAIN buf, ent'[p].ack
               PROVE  timer' <= ent'[p].left \/ timer' = 0
    BY <1>3 DEF DueFirst, Cur, Off
  <2>1. timer # Off
    BY <1>6 DEF Off
  <2>2. timer <= ent[p].left \/ timer = 0
    BY <1>1, <1>4, <2>1 DEF DueFirst, Cur
  <2> QED
    BY <1>1, <1>4, <1>6, <2>1, <2>2 DEF Off
<1>8. \A h \in Hops : timer' <= Rto[h]
  BY <1>1, <1>6, MaintRto DEF CoverInv
<1> QED
  BY <1>2, <1>5, <1>7, <1>8 DEF CoverInv

\* A packet transmitted joins the list behind those that are due earlier.
LEMMA XmitCover ==
  ASSUME SameRto, CoverInv, NEW p \in Pkts, NEW h \in Hops, Xmit(p, h)
  PROVE  CoverInv'
<1>1. TypeOK /\ Sorted(Cur) /\ DueFirst(Cur, timer) /\ UNCHANGED timer /\ timer <= Rto[h]
  BY DEF CoverInv, Xmit
<1>2. TypeOK' /\ RequestArmed'
  BY XmitOK, NextArmed DEF CoverInv, Next
<1>3. BufRec(Cur) /\ p \notin DOMAIN Cur.buf
  BY <1>1, CurRec DEF TypeOK, BufOK, Cur, Entries, Xmit
<1>4. PICK b : b = Add(Cur, p, h) /\ Becomes(b)
  BY DEF Xmit
<1>5. Sorted(b) /\ DueFirst(b, timer)
  BY <1>1, <1>3, <1>4, AddCover
<1>6. Sorted(Cur)' /\ DueFirst(Cur', timer)
  BY <1>4, <1>5 DEF Becomes, Cur, Sorted, DueFirst
<1> QED
  BY <1>1, <1>2, <1>6, QuietCover

\* Acknowledgements, Route Errors and the end turn the timer off.
LEMMA PurgeCover ==
  ASSUME CoverInv, TypeOK', RequestArmed', NEW S, NEW f, Becomes(Unlink(Cur, S, f)), timer' = Off
  PROVE  CoverInv'
<1>1. BufRec(Cur) /\ Sorted(Cur) /\ DueFirst(Cur, timer)
  BY CurRec DEF CoverInv
<1>2. Sorted(Unlink(Cur, S, f))
  BY <1>1, RemoveCover
<1>3. Sorted(Cur)'
  BY <1>2 DEF Becomes, Cur, Sorted
<1> QED
  BY <1>3, QuietCover

\* Every step keeps the timer ahead of every request.
LEMMA NextCover == CoverInv /\ [Next]_vars => CoverInv'
<1> SUFFICES ASSUME SameRto, CoverInv, [Next]_vars PROVE CoverInv'
  BY DEF CoverInv
<1>1. TypeOK' /\ RequestArmed'
  BY NextOK, NextArmed DEF CoverInv
<1>2. CASE Step
  BY <1>2, SetTimeoutCover, TimeoutCover, SalvageTurnCover DEF Step
<1>3. CASE Tick
  BY <1>3, TickCover
<1>4. CASE TimerExpires \/ CacheChanges \/ SetMaxLen \/ (\E h \in Hops : NeighAdd(h)) \/ UNCHANGED vars
  <2>1. UNCHANGED <<buf, ent>> /\ (timer' = Off \/ timer' = timer)
    BY <1>4 DEF TimerExpires, CacheChanges, SetMaxLen, NeighAdd, vars
  <2>2. Sorted(Cur)' /\ DueFirst(Cur', timer)
    BY <2>1 DEF CoverInv, Sorted, DueFirst, Cur
  <2> QED
    BY <1>1, <2>1, <2>2, QuietCover
<1>5. CASE Cleanup
  BY <1>1, <1>5, PurgeCover DEF Cleanup
<1>6. ASSUME NEW h \in Hops, RecvRerr(h) PROVE CoverInv'
  BY <1>1, <1>6, PurgeCover DEF RecvRerr
<1>7. ASSUME NEW h \in Hops, NEW id, RecvAck(h, id) PROVE CoverInv'
  BY <1>1, <1>7, PurgeCover DEF RecvAck
<1>8. ASSUME NEW h \in Hops, NEW p \in Pkts, Xmit(p, h) PROVE CoverInv'
  BY <1>8, XmitCover
<1> QED
  BY <1>2, <1>3, <1>4, <1>5, <1>6, <1>7, <1>8 DEF Next

\* If all next hops have the same timeout, no request is overdue before the
\* timer: through every nesting of timeouts and salvaged packets the list
\* stays in the order of the timeouts and the timer set for its first request.
THEOREM TimerCoversRequests == SameRto /\ Spec => []TimerCovers
<1>1. SameRto /\ Init => CoverInv
  <2> SUFFICES ASSUME SameRto, Init PROVE CoverInv
    OBVIOUS
  <2>1. DOMAIN buf = {} /\ timer = Off /\ TypeOK
    BY InitOK DEF Init, EmptyTbl
  <2>2. RequestArmed /\ Sorted(Cur) /\ DueFirst(Cur, timer)
    BY <2>1 DEF RequestArmed, Sorted, DueFirst, Cur, Entries
  <2>3. \A h \in Hops : timer <= Rto[h]
    BY <2>1, MaintRto DEF Off
  <2> QED
    BY <2>1, <2>2, <2>3 DEF CoverInv
<1>2. CoverInv => TimerCovers
  <2> SUFFICES ASSUME CoverInv, Idle, NEW p \in DOMAIN buf, ent[p].ack
               PROVE  timer # Off /\ (timer <= ent[p].left \/ timer = 0)
    BY DEF TimerCovers, Entries
  <2>1. timer # Off
    BY DEF CoverInv, RequestArmed, Entries
  <2>2. DueFirst(Cur, timer)
    BY DEF CoverInv
  <2> QED
    BY <2>1, <2>2 DEF DueFirst, Cur
<1> QED
  BY <1>1, <1>2, NextCover, PTL DEF Spec
=============================================================================
