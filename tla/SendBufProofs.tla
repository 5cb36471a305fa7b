--------------------------- MODULE SendBufProofs ---------------------------
(***************************************************************************)
(* The send buffer, for any number of packets and Cpus and any             *)
(* SendBufferTimeout: TypeOK and NonEmptyArmed in both builds, OldestFirst *)
(* and DeadlineCovered where functions run to completion.                  *)
(***************************************************************************)
EXTENDS SendBuf, DataProofs

\* A sender half way through an enqueue holds a packet that is not in the
\* buffer: the entry that EnqueueLocked appends is not linked already.
Holding ==
  \A c \in Cpus :
    /\ pc[c] \in {"lock", "relock"} => pkt[c] \in Pkts /\ pkt[c] \notin Entries(buf)
    /\ pc[c] \notin {"lock", "relock"} => pkt[c] = NoPkt
    /\ \A d \in Cpus : pkt[c] = pkt[d] /\ pkt[c] # NoPkt => c = d

TypeInv == TypeOK /\ Holding

USE TimeoutAssumption, MaxLensAssumption, CpusAssumption, PktsAssumption,
    ConcurrentAssumption

\* send_buf_init leaves an empty, well formed buffer.
LEMMA InitTypeInv == Init => TypeInv
  BY EmptyIsTbl DEF Init, TypeInv, TypeOK, Holding, Procs, Labels, Entries,
                    EmptyTbl, Off

\* send_buf_entry_create: the new entry is not linked yet.
LEMMA CreateTypeInv ==
  ASSUME TypeInv, NEW c \in Cpus, NEW p \in Pkts, Create(c, p)
  PROVE  TypeInv'
  BY DEF TypeInv, TypeOK, Holding, Create, Goto, Procs, Labels, Entries

\* The critical section of send_buf_enqueue_packet keeps the list well formed: the
\* entry it appends is owned by its caller and not linked.
LEMMA LockedTypeInv ==
  ASSUME TypeInv, NEW c \in Cpus, EnqueueLocked(c)
  PROVE  TypeInv'
<1> DEFINE rest == Without(buf, First(buf))
<1>1. /\ pkt[c] \in Pkts /\ pkt[c] \notin DOMAIN buf /\ IsTbl(buf, Pkts)
  BY DEF TypeInv, TypeOK, Holding, EnqueueLocked, Entries
<1>2. /\ IsTbl(AddTail(buf, pkt[c]), Pkts)
      /\ DOMAIN AddTail(buf, pkt[c]) = DOMAIN buf \cup {pkt[c]}
  BY <1>1, AddTailIsTbl
<1>3. /\ IsTbl(rest, Pkts)
      /\ DOMAIN rest = DOMAIN buf \ First(buf)
  BY <1>1, WithoutIsTbl
<1>4. /\ IsTbl(AddTail(rest, pkt[c]), Pkts)
      /\ DOMAIN AddTail(rest, pkt[c]) = DOMAIN rest \cup {pkt[c]}
  BY <1>1, <1>3, AddTailIsTbl
<1>5. /\ IsTbl(buf', Pkts)
      /\ \/ DOMAIN buf' \subseteq DOMAIN buf \cup {pkt[c]} /\ pkt' = [pkt EXCEPT ![c] = NoPkt] /\ pc'[c] # "relock"
         \/ DOMAIN buf' \subseteq DOMAIN buf /\ UNCHANGED pkt /\ pc'[c] = "relock"
      /\ \E l \in {"idle", "arm", "relock"} : Goto(c, l) /\ (l # "relock" => pkt'[c] = NoPkt)
  BY <1>2, <1>3, <1>4 DEF EnqueueLocked, Goto, TypeInv, TypeOK, Procs
<1>6. UNCHANGED <<maxLen, age, timer, exp, garbage, exitPc>> /\ pc[c] = "lock"
  BY DEF EnqueueLocked
<1>7. TypeOK'
  BY <1>1, <1>5, <1>6 DEF TypeInv, TypeOK, Goto, Procs, Labels
<1>8. \A d \in Cpus \ {c} : pc'[d] = pc[d] /\ pkt'[d] = pkt[d]
  BY <1>5 DEF TypeInv, TypeOK, Goto, Procs
<1>9. Holding'
  <2>1. \/ pkt'[c] = NoPkt /\ pc'[c] \notin {"lock", "relock"}
        \/ pkt'[c] = pkt[c] /\ pc'[c] = "relock" /\ DOMAIN buf' \subseteq DOMAIN buf
    BY <1>5, <1>6 DEF TypeInv, TypeOK, Goto, Procs
  <2>2. DOMAIN buf' \subseteq DOMAIN buf \cup {pkt[c]}
    BY <1>5
  <2>3. \A d \in Cpus \ {c} : pkt[d] # pkt[c]
    BY <1>1 DEF TypeInv, Holding
  <2>4. Holding
    BY DEF TypeInv
  <2> QED
    BY <1>1, <1>6, <1>8, <2>1, <2>2, <2>3, <2>4 DEF Holding, Entries
<1> QED
  BY <1>7, <1>9 DEF TypeInv

\* Arming the timer after the critical section changes no entry.
LEMMA ArmTypeInv ==
  ASSUME TypeInv, NEW c \in Cpus, EnqueueArm(c)
  PROVE  TypeInv'
  BY DEF TypeInv, TypeOK, Holding, EnqueueArm, Goto, Procs, Labels, Entries

\* The two halves of set_timer change the timer alone.
LEMMA SetTypeInv ==
  ASSUME TypeInv, NEW c \in Procs, SetTimer(c) \/ AddTimer(c)
  PROVE  TypeInv'
  BY DEF TypeInv, TypeOK, Holding, SetTimer, AddTimer, Goto, Procs, Labels, Entries, Off

\* The timer handler send_buf_timeout only unlinks entries.
LEMMA HandlerTypeInv ==
  ASSUME TypeInv, TimeoutStart \/ TimeoutCollect \/ TimeoutPeek
  PROVE  TypeInv'
<1>1. CASE TimeoutStart
  BY <1>1 DEF TypeInv, TypeOK, Holding, TimeoutStart, Goto, Procs, Labels, Entries, Off
<1>2. CASE TimeoutCollect
  <2>1. /\ IsTbl(buf', Pkts)
        /\ DOMAIN buf' = DOMAIN buf \ garbage
    BY <1>2, WithoutIsTbl DEF TypeInv, TypeOK, TimeoutCollect
  <2> QED
    BY <1>2, <2>1 DEF TypeInv, TypeOK, Holding, TimeoutCollect, Goto, Procs, Labels, Entries
<1>3. CASE TimeoutPeek
  BY <1>3 DEF TypeInv, TypeOK, Holding, TimeoutPeek, Goto, Procs, Labels, Entries,
              First, IsTbl
<1> QED
  BY <1>1, <1>2, <1>3

\* send_buf_set_verdict, the /proc write, the clock and send_buf_cleanup.
LEMMA OtherTypeInv ==
  ASSUME TypeInv,
         \/ \E d \in Dsts : SetVerdict(d)
         \/ \E n \in MaxLens : SetMaxLen(n)
         \/ Tick \/ CleanupTimer \/ CleanupFlush \/ UNCHANGED vars
  PROVE  TypeInv'
<1>1. ASSUME NEW d \in Dsts, SetVerdict(d) PROVE TypeInv'
  <2>0. PICK S :
        /\ buf' = Without(buf, S) /\ IsTbl(buf, Pkts)
        /\ UNCHANGED <<maxLen, age, timer, pc, pkt, exp, garbage, exitPc>>
    BY <1>1 DEF TypeInv, TypeOK, SetVerdict
  <2>a. /\ IsTbl(Without(buf, S), Pkts)
        /\ DOMAIN Without(buf, S) = DOMAIN buf \ S
    BY <2>0, WithoutIsTbl
  <2>1. /\ IsTbl(buf', Pkts)
        /\ DOMAIN buf' \subseteq DOMAIN buf
    BY <2>0, <2>a
  <2> QED
    <3>1. TypeOK'
      BY <2>0, <2>1 DEF TypeInv, TypeOK
    <3>2. Holding'
      BY <2>0, <2>1 DEF TypeInv, Holding, Entries
    <3> QED
      BY <3>1, <3>2 DEF TypeInv
<1>2. ASSUME NEW n \in MaxLens, SetMaxLen(n) PROVE TypeInv'
  BY <1>2 DEF TypeInv, TypeOK, Holding, SetMaxLen, Entries
<1>3. CASE Tick
  BY <1>3 DEF TypeInv, TypeOK, Holding, Tick, Minus1, Entries, Off
<1>4. CASE CleanupTimer
  BY <1>4 DEF TypeInv, TypeOK, Holding, CleanupTimer, Entries, Off
<1>5. CASE CleanupFlush
  BY <1>5, EmptyIsTbl DEF TypeInv, TypeOK, Holding, CleanupFlush, Entries, EmptyTbl
<1>6. CASE UNCHANGED vars
  BY <1>6 DEF TypeInv, TypeOK, Holding, vars, Entries
<1> QED
  BY <1>1, <1>2, <1>3, <1>4, <1>5, <1>6

\* Every step preserves the strengthened type invariant.
LEMMA NextTypeInv == TypeInv /\ [Next]_vars => TypeInv'
  BY CreateTypeInv, LockedTypeInv, ArmTypeInv, SetTypeInv, HandlerTypeInv, OtherTypeInv
     DEF Next, CpuStep, HandlerStep, Procs

----------------------------------------------------------------------------
\* Every action keeps NonEmptyArmed.  Where the buffer becomes non-empty the
\* sender goes on to arm the timer; where the timer goes off or a context
\* stops being about to arm it, another disjunct takes over.
LEMMA NextNonEmptyArmed ==
  TypeInv /\ NonEmptyArmed /\ [Next]_vars => NonEmptyArmed'
<1> SUFFICES ASSUME TypeInv, NonEmptyArmed, [Next]_vars PROVE NonEmptyArmed'
  OBVIOUS
<1> USE DEF NonEmptyArmed, HandlerActive
<1>1. ASSUME NEW c \in Cpus, NEW p \in Pkts, Create(c, p) PROVE NonEmptyArmed'
  BY <1>1 DEF TypeInv, TypeOK, Create, Goto, Procs, Entries
<1>2. ASSUME NEW c \in Cpus, EnqueueLocked(c) PROVE NonEmptyArmed'
  <2>1. CASE Entries(buf) = {}
    <3>0. DOMAIN Without(buf, First(buf)) = {}
      BY <2>1 DEF Without, Entries
    <3>1. Entries(buf') # {} => Goto(c, "arm")
      BY <2>1, <1>2, <3>0 DEF EnqueueLocked, Entries
    <3> QED
      BY <3>1 DEF TypeInv, TypeOK, Goto, Procs
  <2>2. CASE Entries(buf) # {}
    BY <2>2, <1>2 DEF EnqueueLocked, TypeInv, TypeOK, Goto, Procs
  <2> QED
    BY <2>1, <2>2
<1>3. ASSUME NEW c \in Cpus, EnqueueArm(c) PROVE NonEmptyArmed'
  BY <1>3 DEF EnqueueArm, TypeInv, TypeOK, Goto, Procs
<1>4. ASSUME NEW c \in Procs, SetTimer(c) \/ AddTimer(c) PROVE NonEmptyArmed'
  BY <1>4 DEF SetTimer, AddTimer, TypeInv, TypeOK, Goto, Procs, Off
<1>5. CASE TimeoutStart
  BY <1>5 DEF TimeoutStart, TypeInv, TypeOK, Goto, Procs
<1>6. CASE TimeoutCollect
  BY <1>6 DEF TimeoutCollect, TypeInv, TypeOK, Goto, Procs
<1>7. CASE TimeoutPeek
  BY <1>7 DEF TimeoutPeek, TypeInv, TypeOK, Goto, Procs
<1>8. ASSUME NEW d \in Dsts, SetVerdict(d) PROVE NonEmptyArmed'
  BY <1>8 DEF SetVerdict, Entries, Without
<1>9. ASSUME NEW n \in MaxLens, SetMaxLen(n) PROVE NonEmptyArmed'
  BY <1>9 DEF SetMaxLen, Entries
<1>10. CASE Tick
  BY <1>10 DEF Tick, Minus1, TypeInv, TypeOK, Off, Entries
<1>11. CASE CleanupTimer
  BY <1>11 DEF CleanupTimer
<1>12. CASE CleanupFlush
  BY <1>12 DEF CleanupFlush, Entries, EmptyTbl
<1>13. CASE UNCHANGED vars
  BY <1>13 DEF vars, Entries
<1> QED
  BY <1>1, <1>2, <1>3, <1>4, <1>5, <1>6, <1>7, <1>8, <1>9, <1>10, <1>11, <1>12, <1>13
     DEF Next, CpuStep, HandlerStep, Procs

----------------------------------------------------------------------------
\* Type correctness of the send buffer, including that the list stays a list:
\* an entry is never linked twice, in either build.
THEOREM TypeCorrect == Spec => []TypeOK
<1>1. Spec => []TypeInv
  BY InitTypeInv, NextTypeInv, PTL DEF Spec
<1> QED
  BY <1>1, PTL DEF TypeInv

\* No buffered packet is ever without a timer, a running handler or a sender
\* about to arm the timer (send_buf_enqueue_packet, send_buf_timeout).
THEOREM AlwaysArmed == Spec => []NonEmptyArmed
<1>1. Init => NonEmptyArmed
  BY DEF Init, NonEmptyArmed, Entries, EmptyTbl
<1>2. Spec => []TypeInv
  BY InitTypeInv, NextTypeInv, PTL DEF Spec
<1> QED
  BY <1>1, <1>2, NextNonEmptyArmed, PTL DEF Spec

----------------------------------------------------------------------------
(* Functions that run to completion: the list is sorted by age, and the    *)
(* timer is due before any packet is overdue.                              *)

\* One function at a time: a packet about to be added is new, a timer about to
\* be set is set early enough for every packet, and the timer is early enough
\* whenever no function that will set it is under way.
Covered == \A p \in Entries(buf) : timer # Off /\ timer <= Timeout - age[p]

OneAtATime == \A c, d \in Procs : pc[c] # "idle" /\ pc[d] # "idle" => c = d

Early ==
  \A c \in Procs :
    /\ pc[c] = "arm" => \A p \in Entries(buf) : age[p] = 0
    /\ pc[c] \in {"set", "add"} => \A p \in Entries(buf) : exp[c] <= Timeout - age[p]

Quiet == \A c \in Procs : pc[c] \in {"idle", "lock"}

SerialInv ==
  /\ ~Concurrent /\ TypeInv /\ OneAtATime /\ OldestFirst /\ Early
  /\ \A c \in Cpus : pc[c] = "lock" => age[pkt[c]] = 0
  /\ exitPc = "run" /\ Quiet => Covered

\* Unlinking entries keeps the others in order.
LEMMA WithoutSorted ==
  ASSUME IsTbl(buf, Pkts), OldestFirst, NEW S, buf' = Without(buf, S), UNCHANGED age
  PROVE  OldestFirst' /\ Entries(buf') \subseteq Entries(buf)
  BY DEF OldestFirst, Without, Entries, IsTbl

\* A step of the context c leaves the others idle.
LEMMA AloneStep ==
  ASSUME SerialInv, NEW c \in Procs, MayRun(c), NEW l \in Labels, Goto(c, l)
  PROVE  /\ \A d \in Procs \ {c} : pc[d] = "idle" /\ pc'[d] = "idle"
         /\ pc'[c] = l /\ OneAtATime'
  BY DEF SerialInv, MayRun, Goto, OneAtATime, TypeInv, TypeOK, Procs

\* A new packet is no older than those that wait.
LEMMA CreateSerial ==
  ASSUME SerialInv, NEW c \in Cpus, NEW p \in Pkts, Create(c, p)
  PROVE  SerialInv'
<1>1. TypeInv /\ TypeInv' /\ ~Concurrent /\ OldestFirst /\ Early /\ c \in Procs
  BY CreateTypeInv DEF SerialInv, Procs
<1>2. /\ pc[c] = "idle" /\ MayRun(c) /\ Goto(c, "lock") /\ p \notin Entries(buf)
      /\ age' = [age EXCEPT ![p] = 0] /\ pkt' = [pkt EXCEPT ![c] = p]
      /\ UNCHANGED <<buf, timer, exp, exitPc>> /\ exitPc = "run"
  BY DEF Create
<1>3. /\ \A d \in Procs \ {c} : pc[d] = "idle" /\ pc'[d] = "idle"
      /\ pc'[c] = "lock" /\ OneAtATime'
  BY <1>1, <1>2, AloneStep DEF Labels
<1>4. \A q \in Entries(buf) : age'[q] = age[q] /\ q \in Pkts
  BY <1>1, <1>2 DEF TypeInv, TypeOK, IsTbl, Entries
<1>5. OldestFirst'
  BY <1>1, <1>2, <1>4 DEF OldestFirst, TypeInv, TypeOK, IsTbl, Entries
<1>6. Early'
  BY <1>3 DEF Early
<1>7. \A d \in Cpus : pc'[d] = "lock" => age'[pkt'[d]] = 0
  BY <1>1, <1>2, <1>3 DEF TypeInv, TypeOK, Procs
<1>8. Covered
  BY <1>2, <1>3 DEF SerialInv, Quiet
<1>9. Covered'
  BY <1>2, <1>4, <1>8 DEF Covered, Entries
<1> QED
  BY <1>1, <1>3, <1>5, <1>6, <1>7, <1>9 DEF SerialInv

\* The new packet goes behind the older ones.
LEMMA LockedSerial ==
  ASSUME SerialInv, NEW c \in Cpus, EnqueueLocked(c)
  PROVE  SerialInv'
<1> DEFINE rest == Without(buf, First(buf))
           p == pkt[c]
<1>1. TypeInv /\ TypeInv' /\ ~Concurrent /\ OldestFirst /\ c \in Procs
  BY LockedTypeInv DEF SerialInv, Procs
<1>2. /\ pc[c] = "lock" /\ MayRun(c) /\ UNCHANGED <<age, timer, exp, exitPc>>
      /\ IsTbl(buf, Pkts) /\ p \in Pkts /\ p \notin DOMAIN buf /\ age[p] = 0
  BY <1>1 DEF EnqueueLocked, SerialInv, TypeInv, TypeOK, Holding, Entries
<1>3. \A q \in Pkts : age[q] \in 0..Timeout
  BY <1>1 DEF TypeInv, TypeOK
<1>4. DOMAIN rest \subseteq DOMAIN buf /\ \A x \in DOMAIN rest : rest[x] \subseteq buf[x]
  BY DEF Without
<1> HIDE DEF rest
<1>5. PICK l \in {"arm", "idle"} :
        /\ Goto(c, l)
        /\ \/ buf' = AddTail(buf, p) /\ (l = "arm" <=> DOMAIN buf = {})
           \/ buf' = AddTail(rest, p) /\ (l = "arm" <=> DOMAIN buf = {})
           \/ buf' = rest /\ l = "idle"
  BY <1>1 DEF EnqueueLocked, Entries, rest
<1>6. /\ \A d \in Procs \ {c} : pc[d] = "idle" /\ pc'[d] = "idle"
      /\ pc'[c] = l /\ OneAtATime'
  BY <1>1, <1>2, <1>5, AloneStep DEF Labels
<1>7. /\ DOMAIN buf' \subseteq DOMAIN buf \cup {p}
      /\ \A x \in DOMAIN buf' : buf'[x] \subseteq IF x = p THEN DOMAIN buf ELSE buf[x]
  BY <1>2, <1>4, <1>5 DEF AddTail
<1>8. OldestFirst'
  <2> SUFFICES ASSUME NEW x \in DOMAIN buf', NEW y \in buf'[x] PROVE age[y] >= age[x]
    BY <1>2 DEF OldestFirst, Entries
  <2>1. CASE x = p
    BY <2>1, <1>2, <1>3, <1>7 DEF IsTbl
  <2>2. CASE x # p
    BY <2>2, <1>1, <1>7 DEF OldestFirst, Entries
  <2> QED
    BY <2>1, <2>2
<1>9. Early'
  <2>1. l = "arm" => \A q \in DOMAIN buf' : age[q] = 0
    <3>1. l = "arm" => DOMAIN buf = {}
      BY <1>5
    <3> QED
      BY <3>1, <1>2, <1>7
  <2>2. \A d \in Procs : pc'[d] = "arm" => l = "arm"
    BY <1>6
  <2>3. \A d \in Procs : pc'[d] \notin {"set", "add"}
    BY <1>6
  <2> QED
    BY <2>1, <2>2, <2>3, <1>2 DEF Early, Entries
<1>10. exitPc' = "run" /\ Quiet' => Covered'
  <2>0. Quiet' => l # "arm"
    BY <1>1, <1>6 DEF Quiet
  <2> SUFFICES ASSUME exitPc = "run", l = "idle" PROVE Covered'
    BY <2>0, <1>2
  <2>1. Covered
    BY <1>2, <1>6 DEF SerialInv, Quiet
  <2>2. CASE DOMAIN buf = {}
    <3>1. DOMAIN buf' = {}
      BY <2>2, <1>4, <1>5
    <3> QED
      BY <3>1 DEF Covered, Entries
  <2>3. CASE DOMAIN buf # {}
    <3>1. PICK q \in DOMAIN buf : timer # Off /\ timer <= Timeout - age[q]
      BY <2>1, <2>3 DEF Covered, Entries
    <3>2. q \in Pkts /\ timer \in {Off} \cup 0..Timeout
      BY <1>1, <1>2 DEF TypeInv, TypeOK, IsTbl
    <3>3. timer <= Timeout - age[p]
      BY <3>1, <3>2, <1>2, <1>3
    <3> QED
      BY <2>1, <3>1, <3>3, <1>2, <1>7 DEF Covered, Entries
  <2> QED
    BY <2>2, <2>3
<1>11. \A d \in Cpus : pc'[d] # "lock"
  BY <1>5, <1>6 DEF Procs
<1> QED
  BY <1>1, <1>6, <1>8, <1>9, <1>10, <1>11 DEF SerialInv

\* The timer is set early enough, by whichever function sets it.
LEMMA ArmSerial ==
  ASSUME SerialInv, NEW c \in Cpus, EnqueueArm(c)
  PROVE  SerialInv'
<1>1. TypeInv /\ TypeInv' /\ ~Concurrent /\ OldestFirst /\ c \in Procs
  BY ArmTypeInv DEF SerialInv, Procs
<1>2. /\ pc[c] = "arm" /\ MayRun(c) /\ Goto(c, "set") /\ exp' = [exp EXCEPT ![c] = Timeout]
      /\ UNCHANGED <<buf, age, timer, pkt, exitPc>>
  BY DEF EnqueueArm
<1>3. /\ \A d \in Procs \ {c} : pc[d] = "idle" /\ pc'[d] = "idle"
      /\ pc'[c] = "set" /\ OneAtATime'
  BY <1>1, <1>2, AloneStep DEF Labels
<1>4. exp'[c] = Timeout
  BY <1>1, <1>2 DEF TypeInv, TypeOK
<1>5. \A p \in Entries(buf) : age[p] = 0
  BY <1>1, <1>2 DEF SerialInv, Early
<1>6. Early'
  BY <1>2, <1>3, <1>4, <1>5 DEF Early, Entries
<1>7. ~Quiet' /\ \A d \in Cpus : pc'[d] # "lock"
  BY <1>1, <1>3 DEF Quiet, Procs
<1>8. OldestFirst'
  BY <1>1, <1>2 DEF OldestFirst, Entries
<1> QED
  BY <1>1, <1>3, <1>6, <1>7, <1>8 DEF SerialInv

\* The timer that is set is due before the first packet's deadline.
LEMMA SetSerial ==
  ASSUME SerialInv, NEW c \in Procs, SetTimer(c) \/ AddTimer(c)
  PROVE  SerialInv'
<1>1. TypeInv /\ TypeInv' /\ ~Concurrent /\ OldestFirst
  BY SetTypeInv DEF SerialInv
<1>2. /\ pc[c] \in {"set", "add"} /\ MayRun(c)
      /\ UNCHANGED <<buf, age, pkt, exp, exitPc>>
  BY DEF SetTimer, AddTimer
<1>3. PICK l \in {"idle", "add", "bug"} : Goto(c, l) /\ (l = "idle" => timer' = exp[c])
  BY DEF SetTimer, AddTimer
<1>4. /\ \A d \in Procs \ {c} : pc[d] = "idle" /\ pc'[d] = "idle"
      /\ pc'[c] = l /\ OneAtATime'
  BY <1>2, <1>3, AloneStep DEF Labels
<1>5. \A p \in Entries(buf) : exp[c] <= Timeout - age[p]
  BY <1>2 DEF SerialInv, Early
<1>6. exp[c] \in 0..Timeout /\ exp[c] # Off
  BY <1>1 DEF TypeInv, TypeOK, Off
<1>7. Early'
  BY <1>2, <1>3, <1>4, <1>5 DEF Early, Entries
<1>8. Quiet' => Covered'
  <2>1. Quiet' => l = "idle"
    BY <1>3, <1>4 DEF Quiet
  <2> QED
    BY <2>1, <1>2, <1>3, <1>5, <1>6 DEF Covered, Entries
<1>9. \A d \in Cpus : pc'[d] # "lock"
  BY <1>3, <1>4 DEF Procs
<1>10. OldestFirst'
  BY <1>1, <1>2 DEF OldestFirst, Entries
<1> QED
  BY <1>1, <1>4, <1>7, <1>8, <1>9, <1>10 DEF SerialInv

\* send_buf_timeout: the first entry is the oldest.
LEMMA HandlerSerial ==
  ASSUME SerialInv, TimeoutStart \/ TimeoutCollect \/ TimeoutPeek
  PROVE  SerialInv'
<1> DEFINE h == TimerCpu
<1>1. TypeInv /\ TypeInv' /\ ~Concurrent /\ OldestFirst /\ h \in Procs
  BY HandlerTypeInv DEF SerialInv, Procs
<1>2. UNCHANGED <<age, pkt, exitPc>> /\ MayRun(h)
  BY DEF TimeoutStart, TimeoutCollect, TimeoutPeek
<1>3. PICK l \in {"gc", "peek", "idle", "set"} :
        /\ Goto(h, l)
        /\ l = "idle" => Entries(buf') = {}
        /\ l = "set" => UNCHANGED buf /\ \E f \in First(buf) : exp' = [exp EXCEPT ![h] = Timeout - age[f]]
  BY DEF TimeoutStart, TimeoutCollect, TimeoutPeek
<1>4. /\ \A d \in Procs \ {h} : pc[d] = "idle" /\ pc'[d] = "idle"
      /\ pc'[h] = l /\ OneAtATime'
  BY <1>1, <1>2, <1>3, AloneStep DEF Labels
<1>5. OldestFirst'
  <2>1. IsTbl(buf, Pkts)
    BY <1>1 DEF TypeInv, TypeOK
  <2>2. CASE TimeoutCollect
    <3>1. buf' = Without(buf, garbage)
      BY <2>2 DEF TimeoutCollect
    <3> QED
      BY <1>1, <1>2, <2>1, <3>1, WithoutSorted
  <2>3. CASE UNCHANGED buf
    BY <2>3, <1>1, <1>2 DEF OldestFirst, Entries
  <2> QED
    BY <2>2, <2>3 DEF TimeoutStart, TimeoutPeek
<1>6. Early'
  <2>1. l = "set" => \A p \in Entries(buf') : exp'[h] <= Timeout - age'[p]
    <3> SUFFICES ASSUME l = "set", NEW p \in Entries(buf) PROVE exp'[h] <= Timeout - age[p]
      BY <1>2, <1>3 DEF Entries
    <3>1. PICK f \in First(buf) : exp' = [exp EXCEPT ![h] = Timeout - age[f]]
      BY <1>3
    <3>2. f \in DOMAIN buf /\ p \in DOMAIN buf /\ (f = p \/ f \in buf[p]) /\ f \in Pkts /\ p \in Pkts
      BY <1>1 DEF First, TypeInv, TypeOK, IsTbl, Entries
    <3>3. age[f] >= age[p] /\ age[f] \in 0..Timeout /\ age[p] \in 0..Timeout
      BY <1>1, <3>2 DEF OldestFirst, TypeInv, TypeOK, Entries
    <3>4. exp'[h] = Timeout - age[f]
      BY <1>1, <3>1 DEF TypeInv, TypeOK
    <3> QED
      BY <3>3, <3>4
  <2>2. \A d \in Procs : pc'[d] # "arm" /\ (pc'[d] \in {"set", "add"} => d = h /\ l = "set")
    BY <1>3, <1>4
  <2> QED
    BY <2>1, <2>2 DEF Early
<1>7. Quiet' => Covered'
  <2>1. Quiet' => l = "idle"
    BY <1>1, <1>3, <1>4 DEF Quiet
  <2> QED
    BY <2>1, <1>3 DEF Covered
<1>8. \A d \in Cpus : pc'[d] # "lock"
  BY <1>3, <1>4 DEF Procs
<1> QED
  BY <1>1, <1>4, <1>5, <1>6, <1>7, <1>8 DEF SerialInv

\* Time: every packet grows older by the tick that the timer loses.
LEMMA TickSerial ==
  ASSUME SerialInv, Tick
  PROVE  SerialInv'
<1>1. TypeInv /\ TypeInv' /\ ~Concurrent /\ OldestFirst /\ AllIdle
  BY OtherTypeInv DEF SerialInv, Tick
<1>2. /\ UNCHANGED <<buf, pc, pkt, exitPc>> /\ timer' = Minus1(timer)
      /\ age' = [q \in Pkts |-> IF age[q] < Timeout THEN age[q] + 1 ELSE Timeout]
  BY DEF Tick
<1>3. /\ IsTbl(buf, Pkts) /\ timer \in {Off} \cup 0..Timeout
      /\ \A q \in Pkts : age[q] \in 0..Timeout
  BY <1>1 DEF TypeInv, TypeOK
<1>4. \A q \in Pkts : age'[q] = IF age[q] < Timeout THEN age[q] + 1 ELSE Timeout
  BY <1>2
<1>5. OldestFirst'
  <2> SUFFICES ASSUME NEW x \in DOMAIN buf, NEW y \in buf[x] PROVE age'[y] >= age'[x]
    BY <1>2 DEF OldestFirst, Entries
  <2>1. x \in Pkts /\ y \in Pkts /\ age[y] >= age[x]
    BY <1>1, <1>3 DEF OldestFirst, IsTbl, Entries
  <2>2. age[x] \in 0..Timeout /\ age[y] \in 0..Timeout
    BY <2>1, <1>3
  <2> QED
    BY <2>1, <2>2, <1>4
<1>6. Early' /\ OneAtATime' /\ \A d \in Cpus : pc'[d] # "lock"
  BY <1>1, <1>2 DEF Early, OneAtATime, AllIdle, Procs
<1>7. ASSUME exitPc' = "run" PROVE Covered'
  <2>1. Covered
    BY <1>1, <1>2, <1>7 DEF SerialInv, Quiet, AllIdle
  <2> SUFFICES ASSUME NEW q \in DOMAIN buf PROVE timer' # Off /\ timer' <= Timeout - age'[q]
    BY <1>2 DEF Covered, Entries
  <2>2. timer # Off /\ timer <= Timeout - age[q] /\ q \in Pkts
    BY <2>1, <1>3 DEF Covered, Entries, IsTbl
  <2>3. timer \in 0..Timeout /\ age[q] \in 0..Timeout
    BY <2>2, <1>3
  <2>4. timer' \in 0..Timeout /\ (timer > 0 => timer' = timer - 1) /\ (timer = 0 => timer' = 0)
    BY <2>3, <1>2 DEF Minus1
  <2>5. age'[q] = IF age[q] < Timeout THEN age[q] + 1 ELSE Timeout
    BY <2>2, <1>4
  <2> QED
    BY <2>2, <2>3, <2>4, <2>5 DEF Off
<1> QED
  BY <1>1, <1>5, <1>6, <1>7 DEF SerialInv

\* Verdicts, a new limit and the cleanup only take packets out.
LEMMA OtherSerial ==
  ASSUME SerialInv,
         \/ \E d \in Dsts : SetVerdict(d)
         \/ \E n \in MaxLens : SetMaxLen(n)
         \/ CleanupTimer \/ CleanupFlush \/ UNCHANGED vars
  PROVE  SerialInv'
<1>1. TypeInv /\ TypeInv' /\ ~Concurrent /\ OldestFirst /\ IsTbl(buf, Pkts)
  BY OtherTypeInv DEF SerialInv, TypeInv, TypeOK
<1>2. ASSUME NEW d \in Dsts, SetVerdict(d) PROVE SerialInv'
  <2>1. PICK S : buf' = Without(buf, S)
    BY <1>2 DEF SetVerdict
  <2>2. UNCHANGED <<age, timer, pc, pkt, exp, exitPc>>
    BY <1>2 DEF SetVerdict
  <2>3. OldestFirst' /\ Entries(buf') \subseteq Entries(buf)
    BY <1>1, <2>1, <2>2, WithoutSorted
  <2>4. Early'
    BY <2>2, <2>3 DEF SerialInv, Early
  <2>5. exitPc' = "run" /\ Quiet' => Covered'
    BY <2>2, <2>3 DEF SerialInv, Quiet, Covered
  <2> QED
    BY <1>1, <2>2, <2>3, <2>4, <2>5 DEF SerialInv, OneAtATime
<1>3. ASSUME NEW n \in MaxLens, SetMaxLen(n) PROVE SerialInv'
  BY <1>1, <1>3 DEF SetMaxLen, SerialInv, OneAtATime, OldestFirst, Early, Quiet, Covered, Entries
<1>4. CASE CleanupTimer
  BY <1>1, <1>4 DEF CleanupTimer, SerialInv, OneAtATime, OldestFirst, Early, Entries
<1>5. CASE CleanupFlush
  BY <1>1, <1>5 DEF CleanupFlush, SerialInv, OneAtATime, OldestFirst, Early, Entries, EmptyTbl
<1>6. CASE UNCHANGED vars
  BY <1>1, <1>6 DEF vars, SerialInv, OneAtATime, OldestFirst, Early, Quiet, Covered, Entries
<1> QED
  BY <1>2, <1>3, <1>4, <1>5, <1>6

\* The empty buffer satisfies the invariant.
LEMMA InitSerial == ~Concurrent /\ Init => SerialInv
<1> SUFFICES ASSUME ~Concurrent, Init PROVE SerialInv
  OBVIOUS
<1>1. TypeInv
  BY InitTypeInv
<1>2. DOMAIN buf = {} /\ \A c \in Procs : pc[c] = "idle"
  BY DEF Init, EmptyTbl
<1>3. OneAtATime /\ OldestFirst /\ Early /\ Covered
  BY <1>2 DEF OneAtATime, OldestFirst, Early, Covered, Entries
<1>4. \A c \in Cpus : pc[c] # "lock"
  BY <1>2 DEF Procs
<1> QED
  BY <1>1, <1>3, <1>4 DEF SerialInv

\* Every step keeps it.
LEMMA NextSerial == SerialInv /\ [Next]_vars => SerialInv'
  BY CreateSerial, LockedSerial, ArmSerial, SetSerial, HandlerSerial, TickSerial, OtherSerial
     DEF Next, CpuStep, HandlerStep, Procs

\* Where functions run to completion the list is sorted by age: the packet
\* evicted from a full buffer is the oldest.
THEOREM SortedByAge == ~Concurrent /\ Spec => []OldestFirst
<1>1. SerialInv => OldestFirst
  BY DEF SerialInv
<1> QED
  BY InitSerial, NextSerial, <1>1, PTL DEF Spec

\* Where functions run to completion no packet outstays SendBufferTimeout
\* unnoticed: between two functions the timer is due before every packet.
THEOREM TimerBeforeDeadline == ~Concurrent /\ Spec => []DeadlineCovered
<1>1. SerialInv => DeadlineCovered
  BY DEF SerialInv, DeadlineCovered, AllIdle, Quiet, Covered
<1> QED
  BY InitSerial, NextSerial, <1>1, PTL DEF Spec
=============================================================================
