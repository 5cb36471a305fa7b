------------------------------ MODULE SendBuf ------------------------------
(***************************************************************************)
(* The send buffer (send-buf.c): packets waiting for a route, one garbage  *)
(* collection timer for all of them.                                       *)
(*                                                                         *)
(* Concurrent = FALSE is the ns-2 build: lock.h defines the locks away, a  *)
(* function runs to completion and simulated time stands still meanwhile.  *)
(* Concurrent = TRUE is the SMP kernel module: packets are sent on several *)
(* Cpus, the timer handler runs beside them, locks are real, and each step *)
(* between two lock operations is an action of its own.                    *)
(*                                                                         *)
(* Time is relative: age is the time since gettime(&e->qtime), timer the   *)
(* time left before the timer expires.  An age of Timeout stands for every *)
(* age from SendBufferTimeout on.                                          *)
(***************************************************************************)
EXTENDS Tbl

CONSTANTS
  Pkts,         \* packets (send_buf_entry), reused once they have left
  dst,          \* dst[p]: the destination of packet p
  MaxLens,      \* values of send_buf.max_len, SEND_BUF_MAX_LEN among them
  Timeout,      \* SendBufferTimeout, in clock ticks
  Cpus,         \* contexts that may run send_buf_enqueue_packet at once
  TimerCpu,     \* the context that runs the timer handler
  NoPkt,        \* a Cpu that holds no packet
  Concurrent    \* SMP kernel (TRUE) or ns-2 (FALSE)

ASSUME TimeoutAssumption    == Timeout \in Nat \ {0}
ASSUME MaxLensAssumption    == MaxLens \subseteq Nat /\ MaxLens # {}
ASSUME CpusAssumption       == TimerCpu \notin Cpus
ASSUME PktsAssumption       == NoPkt \notin Pkts
ASSUME ConcurrentAssumption == Concurrent \in BOOLEAN

VARIABLES
  buf,       \* the list send_buf, see Tbl
  maxLen,    \* send_buf.max_len
  age,       \* ticks since the entry of p was created
  timer,     \* ticks left on send_buf_timer, or Off
  pc,        \* where each context is
  pkt,       \* the packet a Cpu is enqueueing
  exp,       \* the local variable expires: ticks from now
  garbage,   \* entries that are too old for the handler's local variable now
  exitPc     \* where send_buf_cleanup is

vars == <<buf, maxLen, age, timer, pc, pkt, exp, garbage, exitPc>>

Off   == -1
Procs == Cpus \cup {TimerCpu}
Dsts  == {dst[p] : p \in Pkts}

Labels == {"idle", "lock", "relock", "arm", "gc", "peek", "set", "add", "bug"}

TypeOK ==
  /\ IsTbl(buf, Pkts)
  /\ maxLen \in MaxLens
  /\ age \in [Pkts -> 0..Timeout]
  /\ timer \in {Off} \cup 0..Timeout
  /\ pc \in [Procs -> Labels]
  /\ pkt \in [Cpus -> Pkts \cup {NoPkt}]
  /\ exp \in [Procs -> 0..Timeout]
  /\ garbage \subseteq Pkts
  /\ exitPc \in {"run", "flush", "gone"}

Init ==
  /\ buf = EmptyTbl
  /\ maxLen \in MaxLens
  /\ age = [p \in Pkts |-> 0]
  /\ timer = Off
  /\ pc = [c \in Procs |-> "idle"]
  /\ pkt = [c \in Cpus |-> NoPkt]
  /\ exp = [c \in Procs |-> 0]
  /\ garbage = {}
  /\ exitPc = "run"

\* May context c take a step?  Always in the kernel; in ns-2 only when no
\* other function is half way.
MayRun(c) == Concurrent \/ \A q \in Procs \ {c} : pc[q] = "idle"
AllIdle   == \A q \in Procs : pc[q] = "idle"

\* send_buf.lock: every critical section but one is a single action, so the
\* lock is busy only while a Cpu spins on it in "relock", holding it.
LockFree == \A q \in Procs : pc[q] # "relock"

Goto(c, l) == pc' = [pc EXCEPT ![c] = l]

----------------------------------------------------------------------------
\* send_buf_entry_create: the entry's qtime is read before the lock is taken.
Create(c, p) ==
  /\ exitPc = "run" /\ pc[c] = "idle" /\ MayRun(c)
  /\ p \notin Entries(buf) /\ \A q \in Cpus : pkt[q] # p
  /\ age' = [age EXCEPT ![p] = 0]
  /\ garbage' = garbage \ {p}
  /\ pkt' = [pkt EXCEPT ![c] = p]
  /\ Goto(c, "lock")
  /\ UNCHANGED <<buf, maxLen, timer, exp, exitPc>>

\* Mutant: the sender that fills the empty buffer does not arm the timer.
EnqueueLockedNoArm(c) ==
  /\ pc[c] = "lock" /\ MayRun(c) /\ LockFree /\ ~TblFull(buf, maxLen)
  /\ buf' = AddTail(buf, pkt[c])
  /\ pkt' = [pkt EXCEPT ![c] = NoPkt]
  /\ Goto(c, "idle")
  /\ UNCHANGED <<maxLen, age, timer, exp, garbage, exitPc>>

\* The locked part of send_buf_enqueue_packet.  On a full buffer the first
\* entry is freed and the packet added with tbl_add_tail, which takes the
\* lock again: with real locks the Cpu spins for ever.
EnqueueLocked(c) ==
  /\ pc[c] = "lock" /\ MayRun(c) /\ LockFree
  /\ \/ /\ ~TblFull(buf, maxLen)
        /\ buf' = AddTail(buf, pkt[c])
        /\ pkt' = [pkt EXCEPT ![c] = NoPkt]
        /\ Goto(c, IF Entries(buf) = {} THEN "arm" ELSE "idle")
     \/ /\ TblFull(buf, maxLen) /\ Concurrent
        /\ buf' = Without(buf, First(buf))
        /\ Goto(c, "relock")
        /\ UNCHANGED pkt
     \/ LET rest == Without(buf, First(buf)) IN
        /\ TblFull(buf, maxLen) /\ ~Concurrent
        /\ buf' = IF TblFull(rest, maxLen) THEN rest ELSE AddTail(rest, pkt[c])
        /\ pkt' = [pkt EXCEPT ![c] = NoPkt]
        /\ Goto(c, IF Entries(buf) = {} /\ ~TblFull(rest, maxLen) THEN "arm"
                                                                 ELSE "idle")
  /\ UNCHANGED <<maxLen, age, timer, exp, garbage, exitPc>>

\* The Cpu that found the buffer empty arms the timer after the unlock.
EnqueueArm(c) ==
  /\ pc[c] = "arm" /\ MayRun(c)
  /\ exp' = [exp EXCEPT ![c] = Timeout]
  /\ Goto(c, "set")
  /\ UNCHANGED <<buf, maxLen, age, timer, pkt, garbage, exitPc>>

\* set_timer: timer_pending decides between mod_timer and add_timer ...
SetTimer(c) ==
  /\ pc[c] = "set" /\ MayRun(c)
  /\ \/ /\ timer # Off
        /\ timer' = exp[c]
        /\ Goto(c, "idle")
     \/ /\ timer = Off
        /\ Goto(c, "add")
        /\ UNCHANGED timer
  /\ UNCHANGED <<buf, maxLen, age, pkt, exp, garbage, exitPc>>

\* ... and add_timer of a timer that another Cpu has armed since is a BUG.
AddTimer(c) ==
  /\ pc[c] = "add" /\ MayRun(c)
  /\ \/ /\ timer = Off
        /\ timer' = exp[c]
        /\ Goto(c, "idle")
     \/ /\ timer # Off
        /\ Goto(c, "bug")
        /\ UNCHANGED timer
  /\ UNCHANGED <<buf, maxLen, age, pkt, exp, garbage, exitPc>>

----------------------------------------------------------------------------
\* The timer expires and send_buf_timeout reads the clock.  garbage is what
\* crit_garbage will say of each entry against that reading, however late
\* the list is scanned.  The kernel never runs a timer's handler twice at once.
TimeoutStart ==
  /\ timer = 0 /\ pc[TimerCpu] = "idle" /\ MayRun(TimerCpu) /\ exitPc # "gone"
  /\ timer' = Off
  /\ garbage' = {p \in Pkts : age[p] >= Timeout}
  /\ Goto(TimerCpu, "gc")
  /\ UNCHANGED <<buf, maxLen, age, pkt, exp, exitPc>>

\* tbl_for_each_del(&send_buf, &now, crit_garbage).
TimeoutCollect ==
  /\ pc[TimerCpu] = "gc" /\ MayRun(TimerCpu) /\ LockFree
  /\ buf' = Without(buf, garbage)
  /\ garbage' = {}
  /\ Goto(TimerCpu, "peek")
  /\ UNCHANGED <<maxLen, age, timer, pkt, exp, exitPc>>

\* Mutant: the handler re-arms from the clock instead of the packet's qtime.
TimeoutPeekFromNow ==
  /\ pc[TimerCpu] = "peek" /\ MayRun(TimerCpu) /\ LockFree
  /\ exp' = [exp EXCEPT ![TimerCpu] = Timeout]
  /\ Goto(TimerCpu, IF Entries(buf) = {} THEN "idle" ELSE "set")
  /\ UNCHANGED <<buf, maxLen, age, timer, pkt, garbage, exitPc>>

\* Mutant: the handler does not re-arm the timer.
TimeoutPeekNoRearm ==
  /\ pc[TimerCpu] = "peek" /\ MayRun(TimerCpu) /\ LockFree
  /\ Goto(TimerCpu, "idle")
  /\ UNCHANGED <<buf, maxLen, age, timer, pkt, exp, garbage, exitPc>>

\* Under the read lock: no packet left, or the first one's expiry time.
TimeoutPeek ==
  /\ pc[TimerCpu] = "peek" /\ MayRun(TimerCpu) /\ LockFree
  /\ \/ /\ Entries(buf) = {}
        /\ Goto(TimerCpu, "idle")
        /\ UNCHANGED exp
     \/ \E f \in First(buf) :
          /\ exp' = [exp EXCEPT ![TimerCpu] = Timeout - age[f]]
          /\ Goto(TimerCpu, "set")
  /\ UNCHANGED <<buf, maxLen, age, timer, pkt, garbage, exitPc>>

\* send_buf_set_verdict(SEND_BUF_SEND, d), called for each Route Reply: every
\* packet for d is detached, oldest first, and sent or, without a route, freed.
SetVerdict(d) ==
  /\ exitPc = "run" /\ (Concurrent \/ AllIdle) /\ LockFree
  /\ buf' = Without(buf, {p \in Entries(buf) : dst[p] = d})
  /\ UNCHANGED <<maxLen, age, timer, pc, pkt, exp, garbage, exitPc>>

\* send_buf_set_max_len, through /proc: the list itself is not trimmed.
SetMaxLen(n) ==
  /\ exitPc = "run" /\ (Concurrent \/ AllIdle)
  /\ n # maxLen /\ maxLen' = n
  /\ UNCHANGED <<buf, age, timer, pc, pkt, exp, garbage, exitPc>>

\* One tick of the clock.  The expired timer may be served late.
Minus1(n) == IF n > 0 THEN n - 1 ELSE n
Tick ==
  /\ Concurrent \/ AllIdle
  /\ exitPc # "gone"
  /\ age' = [p \in Pkts |-> IF age[p] < Timeout THEN age[p] + 1 ELSE Timeout]
  /\ timer' = Minus1(timer)
  /\ exp' = [c \in Procs |-> Minus1(exp[c])]
  /\ UNCHANGED <<buf, maxLen, pc, pkt, garbage, exitPc>>

\* send_buf_cleanup, after synchronize_net has waited for the senders: a
\* pending timer is deleted, which waits for its handler; if no timer is
\* pending nobody is waited for.
CleanupTimer ==
  /\ exitPc = "run" /\ \A c \in Cpus : pc[c] = "idle"
  /\ Concurrent \/ AllIdle
  /\ timer # Off => pc[TimerCpu] = "idle"
  /\ timer' = Off
  /\ exitPc' = "flush"
  /\ UNCHANGED <<buf, maxLen, age, pc, pkt, exp, garbage>>

\* send_buf_flush.
CleanupFlush ==
  /\ exitPc = "flush" /\ LockFree
  /\ buf' = EmptyTbl
  /\ exitPc' = "gone"
  /\ UNCHANGED <<maxLen, age, timer, pc, pkt, exp, garbage>>

----------------------------------------------------------------------------
CpuStep(c)   == EnqueueLocked(c) \/ EnqueueArm(c) \/ SetTimer(c) \/ AddTimer(c)
HandlerStep  == TimeoutCollect \/ TimeoutPeek \/ SetTimer(TimerCpu) \/ AddTimer(TimerCpu)

Next ==
  \/ \E c \in Cpus, p \in Pkts : Create(c, p)
  \/ \E c \in Cpus : CpuStep(c)
  \/ TimeoutStart \/ HandlerStep
  \/ \E d \in Dsts : SetVerdict(d)
  \/ \E n \in MaxLens : SetMaxLen(n)
  \/ Tick
  \/ CleanupTimer \/ CleanupFlush

Spec == Init /\ [][Next]_vars

\* A function that has started is not abandoned (the Cpus keep running), time
\* passes however much traffic there is, and an expired timer is served.
Fairness ==
  /\ \A c \in Cpus : WF_vars(CpuStep(c))
  /\ WF_vars(HandlerStep) /\ WF_vars(CleanupFlush)
  /\ SF_vars(Tick) /\ SF_vars(TimeoutStart)

FairSpec == Spec /\ Fairness

----------------------------------------------------------------------------
HandlerActive == pc[TimerCpu] \in {"gc", "peek", "set", "add"}

\* While packets wait, something is bound to look at them: the timer is armed,
\* its handler is under way, or the Cpu that put the first packet into the
\* empty buffer is about to arm it (send-buf.c:152, :180 and :99).  This is
\* why no buffered packet is forgotten, in whatever order the locked sections
\* of senders, replies and handler interleave.
NonEmptyArmed ==
  Entries(buf) # {} =>
    \/ timer # Off
    \/ HandlerActive
    \/ \E c \in Cpus : pc[c] \in {"arm", "set", "add"}
    \/ exitPc = "flush"

\* Run to completion only: between two functions the timer is due no later
\* than the oldest packet, although it is armed for whichever packet was
\* first at some earlier time (evictions, replies and re-arming from
\* send_buf_timeout included), so no packet overstays SendBufferTimeout by
\* more than the delay with which the timer is served.
DeadlineCovered ==
  AllIdle /\ exitPc = "run" =>
    \A p \in Entries(buf) : timer # Off /\ timer <= Timeout - age[p]

\* Run to completion only: the list is ordered by age, so the entry freed
\* when the buffer is full (send-buf.c:161) is the oldest one and the entry
\* whose expiry send_buf_timeout arms (:99) is the next to expire.
OldestFirst ==
  \A p \in Entries(buf) : \A q \in buf[p] : age[q] >= age[p]

\* The kernel is stuck: a Cpu spins on the lock it holds, or hit the BUG of
\* adding a timer that is already pending.
Halted == \E c \in Procs : pc[c] \in {"bug", "relock"}

\* Every packet leaves the buffer: sent or freed on a Route Reply, evicted, or
\* collected by the timer.
EveryPacketLeaves ==
  \A p \in Pkts : (p \in Entries(buf)) ~> (p \notin Entries(buf) \/ Halted)
=============================================================================
