---------------------------- MODULE KernelProofs ---------------------------
(***************************************************************************)
(* What the kernel build adds: the module with its device, whatever fails  *)
(* while it is loaded and whatever interfaces come and go, and the two     *)
(* tables that are filled by several CPUs and flushed when it is unloaded, *)
(* for any number of CPUs, neighbours and measurements, any longest        *)
(* round-trip time and any width of usecs_t that holds it.                 *)
(***************************************************************************)
EXTENDS KernelModule, RecvTables, FiniteSetTheorems, SequenceTheorems, TLAPS

----------------------------------------------------------------------------
(* The life of the module: ModuleSpec. *)

\* The device is there from the first step of loading until unloading or
\* unwinding takes it away; while the module is out or leaving it is not.
Phase ==
  /\ mod \in {"out", "loading", "in", "leaving"} /\ step \in 1 .. 10
  /\ mod \in {"out", "leaving"} => "dev" \notin parts
  /\ mod # "loading" => step = 1
  /\ mod = "loading" => step > 1

\* The slave's handler and reference agree with the device and the slave.
AttachedInv ==
  /\ slaveDev \in {"NULL", "slave"} /\ func \in {"NULL", "llrecv"}
  /\ func = "llrecv" <=> Attached
  /\ Attached <=> "dev" \in parts /\ slave # "none"
  /\ held = IF Attached THEN 1 ELSE 0

\* The inductive invariant.
HandlerInv == ~oops => Phase /\ AttachedInv

\* Every label of dsr_module_init runs on to dsr_dev_cleanup.
LEMMA UnwindingEndsWithDev ==
  ASSUME NEW s \in DOMAIN LabelOf
  PROVE  "dev" \in Unwound(s)
<1>1. /\ DOMAIN Unwinding = 1 .. 9 /\ Unwinding[9] = "dev"
  BY DEF Unwinding
<1>2. \E k \in 1 .. 9 : Unwinding[k] = LabelOf[s]
  <2>1. LabelOf[s] \in {"dev", "sendbuf", "grat", "rreq", "neigh", "pre", "fwd", "maint", "proc"}
    BY DEF LabelOf
  <2>2. \A l \in {"dev", "sendbuf", "grat", "rreq", "neigh", "pre", "fwd", "maint", "proc"} :
          \E k \in 1 .. 9 : Unwinding[k] = l
    BY DEF Unwinding
  <2> QED BY <2>1, <2>2
<1> QED BY <1>1, <1>2 DEF Unwound

\* Every step after the first has a label to jump to when it fails.
LEMMA FailingStepHasLabel ==
  ASSUME Phase, mod = "loading"
  PROVE  Steps[step] \in DOMAIN LabelOf
<1>1. \A i \in 2 .. 10 : Steps[i] \in {"sendbuf", "rreq", "grat", "neigh", "pre", "fwd", "maint", "proc", "prot"}
  BY DEF Steps
<1>2. step \in 2 .. 10
  BY DEF Phase
<1> QED BY <1>1, <1>2 DEF LabelOf

\* dsr_dev_init attaches the slave that is there; the other steps of loading
\* leave the device alone.
LEMMA LoadKeeps ==
  ASSUME HandlerInv, NEW s \in Parts, LoadStep(s)
  PROVE  HandlerInv'
<1>1. ~oops /\ Phase /\ AttachedInv /\ s = Steps[step]
  BY DEF LoadStep, Running, HandlerInv
<1>2. DOMAIN Steps = 1 .. 10 /\ Steps[1] = "dev" /\ Last(Steps) = Steps[10]
      /\ \A i \in 2 .. 10 : Steps[i] # "dev"
  BY DEF Steps, Last
<1>3. CASE s = "dev"
  <2>1. step = 1 /\ mod = "out" /\ "dev" \notin parts
    <3>1. step \in 1 .. 10 /\ step \notin 2 .. 10
      BY <1>1, <1>2, <1>3 DEF Phase
    <3>2. step = 1
      BY <3>1
    <3> QED BY <1>1, <3>2 DEF Phase, LoadStep
  <2>2. slaveDev = "NULL" /\ held = 0 /\ func = "NULL"
    BY <1>1, <2>1 DEF AttachedInv, Attached
  <2>3. Phase'
    BY <1>1, <1>2, <1>3, <2>1 DEF LoadStep, Phase
  <2>4. AttachedInv'
    BY <1>3, <2>1, <2>2 DEF LoadStep, DevInit, AttachSlave, AttachedInv, Attached, host
  <2> QED BY <2>3, <2>4 DEF HandlerInv
<1>4. CASE s # "dev"
  <2>1. step > 1 /\ mod = "loading"
    BY <1>1, <1>2, <1>4 DEF Phase, LoadStep
  <2>2. Phase'
    BY <1>1, <1>2, <1>4, <2>1 DEF LoadStep, Phase
  <2>3. AttachedInv'
    BY <1>1, <1>4 DEF LoadStep, AttachedInv, Attached, host, node
  <2> QED BY <2>2, <2>3 DEF HandlerInv
<1> QED BY <1>3, <1>4

\* A failure of any step but the first runs dsr_dev_cleanup.
LEMMA FailKeeps ==
  ASSUME HandlerInv, NEW s \in Parts, LoadFail(s)
  PROVE  HandlerInv'
<1>1. ~oops /\ Phase /\ AttachedInv /\ mod = "loading" /\ s = Steps[step]
  BY DEF LoadFail, Running, HandlerInv
<1>2. CASE s = "grat"
  BY <1>2 DEF LoadFail, Crash, HandlerInv
<1>3. CASE s # "grat"
  <2>1. s \in DOMAIN LabelOf
    BY <1>1, FailingStepHasLabel
  <2>2. "dev" \notin parts'
    BY <1>3, <2>1, UnwindingEndsWithDev DEF LoadFail
  <2>3. Phase'
    BY <1>1, <1>3, <2>2 DEF LoadFail, Phase
  <2>4. AttachedInv'
    BY <1>1, <1>3, <2>2 DEF LoadFail, DevCleanup, DetachSlave, AttachedInv, Attached
  <2> QED BY <2>3, <2>4 DEF HandlerInv
<1> QED BY <1>2, <1>3

\* Unloading takes the device away with its first step, and the tables after it.
LEMMA UnloadKeeps ==
  ASSUME HandlerInv, Unload \/ LateTimer \/ \E s \in Parts : TableCleanup(s)
  PROVE  HandlerInv'
<1>1. CASE Unload
  BY <1>1 DEF Unload, Crash, Running, DevCleanup, DetachSlave, HandlerInv, Phase, AttachedInv, Attached
<1>2. CASE LateTimer
  BY <1>2 DEF LateTimer, Crash, HandlerInv
<1>3. ASSUME NEW s \in Parts, TableCleanup(s) PROVE HandlerInv'
  BY <1>3 DEF TableCleanup, Running, HandlerInv, Phase, AttachedInv, Attached, host, node
<1> QED BY <1>1, <1>2, <1>3

\* The notifications: the slave comes and goes, the rest leaves it alone.
LEMMA EventKeeps ==
  ASSUME HandlerInv,
         \/ SlaveRegister \/ SlaveUp \/ SlaveDown \/ SlaveUnregister
         \/ DsrUp \/ DsrDown \/ DsrAddress \/ \E v \in BOOLEAN : SetPromisc(v)
  PROVE  HandlerInv'
<1>1. CASE SlaveRegister
  BY <1>1 DEF SlaveRegister, Running, Notified, AttachSlave, HandlerInv, Phase, AttachedInv, Attached
<1>2. CASE SlaveUp
  BY <1>2 DEF SlaveUp, Running, HandlerInv, Phase, AttachedInv, Attached, node
<1>3. CASE SlaveDown
  BY <1>3 DEF SlaveDown, Running, HandlerInv, Phase, AttachedInv, Attached
<1>4. CASE SlaveUnregister
  BY <1>4 DEF SlaveUnregister, Running, Notified, DetachSlave, HandlerInv, Phase, AttachedInv, Attached
<1>5. CASE DsrUp
  BY <1>5 DEF DsrUp, Notified, Running, HandlerInv, Phase, AttachedInv, Attached
<1>6. CASE DsrDown
  BY <1>6 DEF DsrDown, Notified, Running, HandlerInv, Phase, AttachedInv, Attached
<1>7. CASE DsrAddress
  BY <1>7 DEF DsrAddress, Crash, Notified, Running, HandlerInv, Phase, AttachedInv, Attached
<1>8. ASSUME NEW v \in BOOLEAN, SetPromisc(v) PROVE HandlerInv'
  BY <1>8 DEF SetPromisc, Crash, Running, HandlerInv, Phase, AttachedInv, Attached
<1> QED BY <1>1, <1>2, <1>3, <1>4, <1>5, <1>6, <1>7, <1>8

\* The module starts unloaded, knowing no slave.
LEMMA InitHandlerInv == ModuleInit => HandlerInv
  BY DEF ModuleInit, HandlerInv, Phase, AttachedInv, Attached

\* Every step keeps the inductive invariant.
LEMMA StepKeepsHandlerInv == HandlerInv /\ [ModuleNext]_moduleVars => HandlerInv'
<1> SUFFICES ASSUME HandlerInv, [ModuleNext]_moduleVars PROVE HandlerInv'
  OBVIOUS
<1>1. CASE UNCHANGED moduleVars
  BY <1>1 DEF moduleVars, host, node, HandlerInv, Phase, AttachedInv, Attached
<1>2. CASE LoadFailDev
  BY <1>2 DEF LoadFailDev, Crash, HandlerInv
<1> QED BY <1>1, <1>2, LoadKeeps, FailKeeps, UnloadKeeps, EventKeeps DEF ModuleNext

\* In every state of every history of loading, hot-plugging, administration,
\* failure and unloading, frames reach the module exactly while it knows the
\* slave, and it holds exactly one reference then and none otherwise.
THEOREM HandlerInvariant == ModuleSpec => []HandlerIffSlave
<1>1. HandlerInv => HandlerIffSlave
  BY DEF HandlerInv, AttachedInv, Attached, HandlerIffSlave
<1> QED BY <1>1, InitHandlerInv, StepKeepsHandlerInv, PTL DEF ModuleSpec

\* What makes SettingsRestored inductive: an in_device of a slave that has left
\* says nothing about the settings of the one that is there.
SettingsInv ==
  /\ indev \in {"none", "cur", "old"}
  /\ ~oops /\ "dev" \in parts /\ indev # "cur" /\ saved = "host" => settings = "host"

\* The notifications keep it: what replaces the settings holds the in_device,
\* and what drops the in_device writes the saved settings back.
LEMMA EventKeepsSettings ==
  ASSUME SettingsInv,
         \/ SlaveRegister \/ SlaveUp \/ SlaveDown \/ SlaveUnregister
         \/ DsrUp \/ DsrDown \/ DsrAddress \/ \E v \in BOOLEAN : SetPromisc(v)
  PROVE  SettingsInv'
<1>1. CASE SlaveRegister \/ SlaveUp
  BY <1>1 DEF SlaveRegister, SlaveUp, Running, SettingsInv, node
<1>2. CASE SlaveDown
  BY <1>2 DEF SlaveDown, RestoreIndev, Running, SettingsInv
<1>3. CASE SlaveUnregister
  BY <1>3 DEF SlaveUnregister, Running, SettingsInv
<1>4. CASE DsrUp
  BY <1>4 DEF DsrUp, Notified, Running, SettingsInv
<1>5. CASE DsrDown
  BY <1>5 DEF DsrDown, RestoreIndev, Notified, Running, SettingsInv
<1>6. CASE DsrAddress
  BY <1>6 DEF DsrAddress, Crash, Notified, Running, SettingsInv, host, node
<1>7. ASSUME NEW v \in BOOLEAN, SetPromisc(v) PROVE SettingsInv'
  BY <1>7 DEF SetPromisc, Crash, Running, SettingsInv, host, node
<1> QED BY <1>1, <1>2, <1>3, <1>4, <1>5, <1>6, <1>7

\* Loading starts with nothing saved; without the device nothing is promised.
LEMMA LoadKeepsSettings ==
  ASSUME HandlerInv, SettingsInv,
         \/ Unload \/ LateTimer \/ LoadFailDev
         \/ \E s \in Parts : LoadStep(s) \/ LoadFail(s) \/ TableCleanup(s)
  PROVE  SettingsInv'
<1>1. CASE Unload
  BY <1>1 DEF Unload, Crash, DevCleanup, SettingsInv, host, node
<1>2. CASE LateTimer \/ LoadFailDev
  BY <1>2 DEF LateTimer, LoadFailDev, Crash, SettingsInv, host, node
<1>3. ASSUME NEW s \in Parts, LoadStep(s) PROVE SettingsInv'
  <2>1. CASE s = "dev"
    BY <1>3, <2>1 DEF LoadStep, DevInit, SettingsInv
  <2>2. CASE s # "dev"
    BY <1>3, <2>2 DEF LoadStep, SettingsInv, host, node
  <2> QED BY <2>1, <2>2
<1>4. ASSUME NEW s \in Parts, LoadFail(s) PROVE SettingsInv'
  <2>1. CASE s = "grat"
    BY <1>4, <2>1 DEF LoadFail, Crash, SettingsInv, host, node
  <2>2. CASE s # "grat"
    <3>1. ~oops /\ mod' \in {"in", "out"} /\ indev' = "none"
      BY <1>4, <2>2 DEF LoadFail, DevCleanup, Running
    <3>2. "dev" \notin parts'
      <4>1. ~oops /\ Phase /\ mod = "loading" /\ s = Steps[step]
        BY <1>4 DEF LoadFail, Running, HandlerInv
      <4>2. s \in DOMAIN LabelOf
        BY <4>1, FailingStepHasLabel
      <4> QED BY <1>4, <2>2, <4>2, UnwindingEndsWithDev DEF LoadFail
    <3> QED BY <3>1, <3>2 DEF SettingsInv
  <2> QED BY <2>1, <2>2
<1>5. ASSUME NEW s \in Parts, TableCleanup(s) PROVE SettingsInv'
  BY <1>5 DEF TableCleanup, SettingsInv, host, node
<1> QED BY <1>1, <1>2, <1>3, <1>4, <1>5

\* Whenever the loaded module holds no in_device and what it saved were the
\* host's settings, the slave has the host's settings: in no order of
\* addresses, closing, unplugging and plugging in are they lost.
THEOREM SettingsInvariant == ModuleSpec => []SettingsRestored
<1>1. ModuleInit => HandlerInv /\ SettingsInv
  BY InitHandlerInv DEF ModuleInit, SettingsInv
<1>2. HandlerInv /\ SettingsInv /\ [ModuleNext]_moduleVars => HandlerInv' /\ SettingsInv'
  <2> SUFFICES ASSUME HandlerInv, SettingsInv, [ModuleNext]_moduleVars PROVE SettingsInv'
    BY StepKeepsHandlerInv
  <2>1. CASE UNCHANGED moduleVars
    BY <2>1 DEF moduleVars, host, node, SettingsInv
  <2> QED BY <2>1, EventKeepsSettings, LoadKeepsSettings DEF ModuleNext
<1>3. SettingsInv => SettingsRestored
  BY DEF SettingsInv, SettingsRestored
<1> QED BY <1>1, <1>2, <1>3, PTL DEF ModuleSpec
----------------------------------------------------------------------------
(* Loading that fails leaves nothing but the table of gratuitous replies.   *)

\* What loading has initialised when step k comes next; a table that an
\* earlier failure left behind may be there as well.
Done(k) == {Steps[i] : i \in 1 .. k - 1}

LeftInv ==
  ~oops =>
    /\ mod = "out" => parts \subseteq {"grat"}
    /\ mod = "loading" => parts \subseteq Done(step) \cup {"grat"}
    /\ mod \in {"out", "leaving"} => dsr = "none"

\* The labels run through everything that the steps before the failing one
\* have initialised, but for the table of gratuitous replies.
LEMMA UnwindsAllButGrat ==
  ASSUME NEW k \in 2 .. 10, Steps[k] # "grat", NEW i \in 1 .. k - 1, Steps[i] # "grat"
  PROVE  Steps[i] \in Unwound(Steps[k])
<1>1. DOMAIN Unwinding = 1 .. 9 /\ \A j \in 1 .. 9 : Unwinding[10 - j] = Steps[j]
  BY DEF Unwinding, Steps
<1>2. 10 - i \in 1 .. 9 /\ Unwinding[10 - i] = Steps[i]
  BY <1>1
<1>3. \E m \in 1 .. 9 : Unwinding[m] = LabelOf[Steps[k]] /\ 10 - i >= m
  <2>1. CASE Steps[k] = "neigh"
    <3>1. k = 5
      BY <2>1 DEF Steps
    <3>2. Unwinding[7] = LabelOf["neigh"] /\ Steps[4] = "grat"
      BY DEF Unwinding, LabelOf, Steps
    <3> QED BY <2>1, <3>1, <3>2
  <2>2. CASE Steps[k] # "neigh"
    <3>1. Steps[k - 1] = LabelOf[Steps[k]]
      BY <2>2 DEF Steps, LabelOf
    <3>2. 11 - k \in 1 .. 9 /\ Unwinding[11 - k] = Steps[k - 1]
      BY <1>1
    <3> QED BY <3>1, <3>2
  <2> QED BY <2>1, <2>2
<1> QED BY <1>1, <1>2, <1>3 DEF Unwound

\* A step of loading, successful or not, leaves what LeftInv allows.
LEMMA LoadKeepsLeft ==
  ASSUME HandlerInv, LeftInv, NEW s \in Parts, LoadStep(s) \/ LoadFail(s)
  PROVE  LeftInv'
<1>1. ~oops /\ Phase /\ s = Steps[step] /\ mod \in {"out", "loading"}
  BY DEF LoadStep, LoadFail, Running, HandlerInv
<1>2. /\ mod = "out" => step = 1 /\ parts \subseteq {"grat"}
      /\ mod = "loading" => step \in 2 .. 10 /\ parts \subseteq Done(step) \cup {"grat"}
  BY <1>1 DEF LeftInv, Phase
<1>3. CASE LoadStep(s)
  <2>1. mod' \in {"in", "loading"} /\ (mod' = "loading" => step' = step + 1) /\ parts' = parts \cup {s}
    BY <1>3 DEF LoadStep
  <2>2. step \in 1 .. 10 /\ parts \subseteq Done(step) \cup {"grat"}
    BY <1>1, <1>2
  <2>3. Done(step) \cup {s} \subseteq Done(step + 1)
    BY <1>1, <2>2 DEF Done
  <2> QED BY <2>1, <2>2, <2>3 DEF LeftInv
<1>4. CASE LoadFail(s)
  <2>1. CASE s = "grat"
    BY <1>4, <2>1 DEF LoadFail, Crash, LeftInv
  <2>2. CASE s # "grat"
    <3>1. /\ mod = "loading" /\ mod' \in {"in", "out"} /\ dsr' = "none"
          /\ parts' = parts \ Unwound(s)
      BY <1>4, <2>2 DEF LoadFail, DevCleanup
    <3>2. \A x \in Done(step) : x # "grat" => x \in Unwound(s)
      BY <1>1, <1>2, <2>2, <3>1, UnwindsAllButGrat DEF Done
    <3> QED BY <1>2, <3>1, <3>2 DEF LeftInv
  <2> QED BY <2>1, <2>2
<1> QED BY <1>3, <1>4

\* Whichever step of loading fails, and however often loading is tried again,
\* nothing of an unloaded module stays registered but that table.
THEOREM NothingLeft == ModuleSpec => []NothingLeftBehind
<1>1. ModuleInit => HandlerInv /\ LeftInv
  BY InitHandlerInv DEF ModuleInit, LeftInv
<1>2. HandlerInv /\ LeftInv /\ [ModuleNext]_moduleVars => HandlerInv' /\ LeftInv'
  <2> SUFFICES ASSUME HandlerInv, LeftInv, [ModuleNext]_moduleVars PROVE LeftInv'
    BY StepKeepsHandlerInv
  <2> USE DEF LeftInv, Running
  <2>1. CASE SlaveRegister \/ SlaveUp \/ SlaveDown \/ SlaveUnregister
    BY <2>1 DEF SlaveRegister, SlaveUp, SlaveDown, SlaveUnregister, node
  <2>2. CASE DsrUp \/ DsrDown
    BY <2>2 DEF DsrUp, DsrDown, Notified, HandlerInv, Phase
  <2>3. CASE DsrAddress \/ \E v \in BOOLEAN : SetPromisc(v)
    BY <2>3 DEF DsrAddress, SetPromisc, Crash
  <2>4. ASSUME NEW s \in Parts, LoadStep(s) \/ LoadFail(s) PROVE LeftInv'
    BY <2>4, LoadKeepsLeft
  <2>5. ASSUME NEW s \in Parts, TableCleanup(s) PROVE LeftInv'
    BY <2>5 DEF TableCleanup, node
  <2>6. CASE LoadFailDev \/ LateTimer
    BY <2>6 DEF LoadFailDev, LateTimer, Crash
  <2>7. CASE Unload
    BY <2>7 DEF Unload, Crash, DevCleanup
  <2>8. CASE UNCHANGED moduleVars
    BY <2>8 DEF moduleVars, node
  <2> QED BY <2>1, <2>2, <2>3, <2>4, <2>5, <2>6, <2>7, <2>8 DEF ModuleNext
<1>3. LeftInv => NothingLeftBehind
  BY DEF LeftInv, NothingLeftBehind
<1> QED BY <1>1, <1>2, <1>3, PTL DEF ModuleSpec

----------------------------------------------------------------------------
(* The tables: Spec. *)

VarBound == IF MaxRtt > 60 THEN 4 * MaxRtt ELSE 240

Bounded == [addr : Nbrs, srtt : 0 .. 8 * MaxRtt, rttvar : 1 .. VarBound]

\* The inductive invariant: the type of the neighbour table says it all, and
\* what a CPU is about to add is a neighbour.
EstimateInv == neigh \in Seq(Bounded) /\ pkt \in [Cpus -> Pkts]

\* A fraction of a natural number.
LEMMA Quotients ==
  ASSUME NEW n \in Nat
  PROVE  /\ n \div 8 \in Nat /\ 8 * (n \div 8) <= n /\ n < 8 * (n \div 8) + 8
         /\ n \div 4 \in Nat /\ 4 * (n \div 4) <= n /\ n < 4 * (n \div 4) + 4
  OBVIOUS

\* What fits is not changed by the width.
LEMMA Fits ==
  ASSUME NEW n \in Nat, n < ULong
  PROVE  Unsigned(n) = n
  BY RttsAssumption DEF Unsigned

\* rto_calc keeps the estimate within its bounds: the new average lies between
\* the old one and the measurement, and never reaches zero from above.
LEMMA RtoCalcBounded ==
  ASSUME NEW n \in Bounded, NEW rtt \in Rtts
  PROVE  RtoCalc(n, rtt) \in Bounded
<1> DEFINE q == n.srtt \div 8
           d == rtt - 1 - q
           v == n.rttvar \div 4
<1>1. /\ rtt \in 1 .. MaxRtt /\ MaxRtt \in Nat \ {0}
      /\ n.srtt \in 0 .. 8 * MaxRtt /\ n.rttvar \in 1 .. VarBound
  BY RttsAssumption DEF Bounded
<1>2. /\ VarBound \in Nat /\ 4 * MaxRtt <= VarBound /\ VarBound < ULong - MaxRtt
      /\ 8 * MaxRtt < ULong /\ ULong \in Nat /\ 240 <= VarBound
  BY RttsAssumption DEF VarBound
<1>3. /\ q \in Nat /\ 8 * q <= n.srtt /\ n.srtt < 8 * q + 8
      /\ v \in Nat /\ 4 * v <= n.rttvar /\ n.rttvar < 4 * v + 4
  BY <1>1, <1>2, Quotients
<1>4. ASSUME NEW x \in 0 .. 8 * MaxRtt, NEW y \in 1 .. VarBound
      PROVE  [n EXCEPT !.srtt = x, !.rttvar = y] \in Bounded
  BY DEF Bounded
<1>5. CASE n.srtt = 0
  <2>1. Unsigned(rtt * 8) = rtt * 8 /\ Unsigned(rtt * 2) = rtt * 2
    BY <1>1, <1>2, Fits
  <2>2. RtoCalc(n, rtt) = [n EXCEPT !.srtt = Unsigned(rtt * 8), !.rttvar = Unsigned(rtt * 2)]
    BY <1>5, Zenon DEF RtoCalc
  <2>3. rtt * 8 \in 0 .. 8 * MaxRtt /\ rtt * 2 \in 1 .. VarBound
    BY <1>1, <1>2
  <2>4. Unsigned(rtt * 8) \in 0 .. 8 * MaxRtt /\ Unsigned(rtt * 2) \in 1 .. VarBound
    BY <2>1, <2>3
  <2> QED BY <1>4, <2>2, <2>4, Zenon
<1>6. CASE n.srtt # 0
  <2>1. n.srtt + d \in 1 .. 8 * MaxRtt
    <3> HIDE DEF q
    <3>1. q <= MaxRtt
      BY <1>1, <1>3
    <3>2. CASE q = MaxRtt
      BY <1>1, <1>3, <1>6, <3>2
    <3>3. CASE q < MaxRtt
      BY <1>1, <1>3, <1>6, <3>3
    <3> QED BY <1>1, <1>3, <3>1, <3>2, <3>3
  <2>2. /\ Abs(d) \in 0 .. MaxRtt
        /\ n.rttvar + Abs(d) - v \in 1 .. VarBound
    BY <1>1, <1>2, <1>3 DEF Abs
  <2>3. ASSUME NEW k \in Nat, k > 0, k < ULong
        PROVE  AtLeast1(Unsigned(k)) = k
    BY <2>3, Fits DEF AtLeast1
  <2> HIDE DEF d, v
  <2>4. n.srtt + d \in Nat /\ n.srtt + d > 0 /\ n.srtt + d < ULong
    BY <1>1, <1>2, <2>1
  <2>5. /\ n.rttvar + Abs(d) - v \in Nat /\ n.rttvar + Abs(d) - v > 0
        /\ n.rttvar + Abs(d) - v < ULong
    BY <1>1, <1>2, <2>2
  <2>6. /\ AtLeast1(Unsigned(n.srtt + d)) = n.srtt + d
        /\ AtLeast1(Unsigned(n.rttvar + Abs(d) - v)) = n.rttvar + Abs(d) - v
    BY <2>3, <2>4, <2>5
  <2>7. RtoCalc(n, rtt) = [n EXCEPT !.srtt = n.srtt + d, !.rttvar = n.rttvar + Abs(d) - v]
    BY <1>6, <2>6, Zenon DEF RtoCalc, d, v, q
  <2>8. n.srtt + d \in 0 .. 8 * MaxRtt
    BY <2>1
  <2> QED BY <1>4, <2>2, <2>7, <2>8, Zenon
<1> QED BY <1>5, <1>6

\* A step keeps the table well formed: only neigh_tbl_add, neigh_tbl_set_rto
\* and the flush change it.
LEMMA StepKeepsEstimates ==
  ASSUME EstimateInv, [Next]_vars
  PROVE  EstimateInv'
<1>1. ASSUME NEW c \in Cpus, NEW p \in Pkts, NeighLookup(c, p) PROVE EstimateInv'
  BY <1>1 DEF NeighLookup, EstimateInv
<1>2. ASSUME NEW c \in Cpus, NeighAdd(c) PROVE EstimateInv'
  <2>1. NewNeigh(PrvHop(c)) \in Bounded
    BY RttsAssumption DEF EstimateInv, NewNeigh, PrvHop, Pkts, Bounded, VarBound
  <2>2. <<NewNeigh(PrvHop(c))>> \o neigh \in Seq(Bounded)
    BY <2>1 DEF EstimateInv
  <2> QED BY <1>2, <2>2 DEF NeighAdd, EstimateInv
<1>3. ASSUME NEW a \in Nbrs, NEW rtt \in Rtts, SetRto(a, rtt) PROVE EstimateInv'
  <2>1. PICK i \in DOMAIN neigh : neigh' = [neigh EXCEPT ![i] = RtoCalc(neigh[i], rtt)]
    BY <1>3 DEF SetRto
  <2>2. RtoCalc(neigh[i], rtt) \in Bounded
    BY RtoCalcBounded DEF EstimateInv
  <2> QED BY <1>3, <2>1, <2>2 DEF SetRto, EstimateInv
<1>4. ASSUME NEW c \in Cpus,
             GratFind(c) \/ GratQuery(c) \/ GratStop(c) \/ GratInsert(c) \/ GratArm(c) \/ GratSetTimer(c)
      PROVE  EstimateInv'
  BY <1>4 DEF GratFind, GratQuery, GratStop, GratInsert, GratArm, GratSetTimer, EstimateInv, gvars
<1>5. CASE Fire \/ Detach \/ CheckEmpty \/ Rearm \/ RearmSetTimer \/ DelTimer
  BY <1>5 DEF Fire, Detach, CheckEmpty, Rearm, RearmSetTimer, DelTimer, EstimateInv
<1>6. CASE Flush
  BY <1>6 DEF Flush, EstimateInv
<1>7. CASE UNCHANGED vars
  BY <1>7 DEF vars, EstimateInv
<1> QED BY <1>1, <1>2, <1>3, <1>4, <1>5, <1>6, <1>7 DEF Next, RecvStep, Handler

\* Both tables start empty.
LEMMA InitEstimates == Init => EstimateInv
<1>1. Pkts # {}
  <2>1. PICK s \in Srcs, a \in Nbrs : TRUE
    BY InputsAssumption
  <2>2. <<s, a>> \in Srcs \X Nbrs
    BY <2>1
  <2> QED BY <2>2 DEF Pkts
<1>2. (CHOOSE p \in Pkts : TRUE) \in Pkts
  BY <1>1
<1> QED BY <1>2 DEF Init, EstimateInv

\* However many measurements rto_calc averages, on whatever CPUs, the
\* estimates stay within eight times, and four times, the longest one.
THEOREM EstimatesBounded == Spec => []EstimateBounded
<1>1. Init => EstimateInv
  BY InitEstimates
<1>2. EstimateInv /\ [Next]_vars => EstimateInv'
  BY StepKeepsEstimates
<1>3. EstimateInv => EstimateBounded
  <2>1. EstimateInv => \A i \in DOMAIN neigh : neigh[i] \in Bounded
    BY DEF EstimateInv
  <2>2. \A n \in Bounded : n.srtt \in 0 .. 8 * MaxRtt /\ n.rttvar \in 1 .. VarBound
    BY DEF Bounded
  <2> QED BY <2>1, <2>2, Zenon DEF EstimateBounded, VarBound
<1> QED BY <1>1, <1>2, <1>3, PTL DEF Spec

\* What makes QuietAfterUnload inductive: once the tables are flushed nobody is
\* receiving, so that only the handler can arm the timer.
Places == {"idle", "nadd", "find", "query", "stop", "add", "arm", "modt", "addt", "bug"}
QuietInv ==
  /\ up \in {"yes", "flushed", "no"} /\ pc \in [Cpus -> Places]
  /\ up # "yes" => \A c \in Cpus : pc[c] = "idle"
  /\ up = "no" => ~timer /\ tpc = "idle"

\* A step of a receiving CPU is taken only while the module is there.
LEMMA RecvKeepsQuiet ==
  ASSUME QuietInv, NEW c \in Cpus, RecvStep(c) \/ \E p \in Pkts : NeighLookup(c, p)
  PROVE  QuietInv'
<1>1. up = "yes" /\ UNCHANGED up
  BY DEF QuietInv, RecvStep, NeighLookup, NeighAdd, GratFind, GratQuery, GratStop, GratInsert, GratArm,
     GratSetTimer
<1>2. \E l \in Places : Goto(c, l)
  BY DEF RecvStep, NeighLookup, NeighAdd, GratFind, GratQuery, GratStop, GratInsert, GratArm,
     GratSetTimer, Places
<1> QED BY <1>1, <1>2 DEF QuietInv, Goto

\* After the module is gone its timer is never armed and its handler never
\* runs, whatever the handler was doing when the tables were flushed.
THEOREM QuietInvariant == Spec => []QuietAfterUnload
<1>1. Init => QuietInv
  BY DEF Init, QuietInv, Places
<1>2. QuietInv /\ [Next]_vars => QuietInv'
  <2> SUFFICES ASSUME QuietInv, [Next]_vars PROVE QuietInv'
    OBVIOUS
  <2>1. ASSUME NEW a \in Nbrs, NEW rtt \in Rtts, SetRto(a, rtt) PROVE QuietInv'
    BY <2>1 DEF SetRto, QuietInv, gvars
  <2>2. CASE Handler
    BY <2>2 DEF Handler, Fire, Detach, CheckEmpty, Rearm, RearmSetTimer, QuietInv
  <2>3. CASE Flush \/ DelTimer
    BY <2>3 DEF Flush, DelTimer, QuietInv
  <2>4. CASE UNCHANGED vars
    BY <2>4 DEF vars, gvars, QuietInv
  <2> QED BY <2>1, <2>2, <2>3, <2>4, RecvKeepsQuiet DEF Next
<1>3. QuietInv => QuietAfterUnload
  BY DEF QuietInv, QuietAfterUnload
<1> QED BY <1>1, <1>2, <1>3, PTL DEF Spec
----------------------------------------------------------------------------
(* A neighbour or a reply is added no more often than there are CPUs.       *)

\* The places at which x is in the list s, and the addresses of neighbours.
At(s, x) == {i \in DOMAIN s : s[i] = x}
Addrs(s) == [i \in DOMAIN s |-> s[i].addr]

\* The CPUs that have found x absent and are about to add it.
AddingNeigh(a) == {c \in Cpus : pc[c] = "nadd" /\ pkt[c][2] = a}
AddingGrat(p)  == {c \in Cpus : pc[c] \in {"stop", "add"} /\ pkt[c] = p}

\* The inductive invariant: every copy of x stands for a CPU that is not about
\* to add another one.
NeighCount == \A a \in Nbrs :
  Cardinality(At(Addrs(neigh), a)) + Cardinality(AddingNeigh(a)) <= Cardinality(Cpus)
GratCount == \A p \in Pkts :
  Cardinality(At(grat, p)) + Cardinality(AddingGrat(p)) <= Cardinality(Cpus)
CopiesInv ==
  /\ EstimateInv /\ pc \in [Cpus -> Places] /\ grat \in Seq(Pkts)
  /\ NeighCount /\ GratCount

\* The places of a list are finite in number.
LEMMA AtFinite ==
  ASSUME NEW s, NEW n \in Nat, DOMAIN s = 1 .. n, NEW x
  PROVE  IsFiniteSet(At(s, x)) /\ Cardinality(At(s, x)) \in Nat
<1>1. IsFiniteSet(1 .. n)
  BY FS_Interval
<1>2. At(s, x) \in SUBSET (1 .. n)
  BY DEF At
<1> QED BY <1>1, <1>2, FS_Subset, FS_CardinalityType

\* A set of CPUs is finite.
LEMMA CpusFinite ==
  ASSUME NEW S \in SUBSET Cpus
  PROVE  /\ IsFiniteSet(S) /\ Cardinality(S) \in Nat
         /\ Cardinality(S) <= Cardinality(Cpus) /\ Cardinality(Cpus) \in Nat
  BY CpusAssumption, FS_Subset, FS_CardinalityType

\* Whatever is moved about is no more than it was.
LEMMA MovedIsNoMore ==
  ASSUME NEW S, IsFiniteSet(S), NEW f, DOMAIN f = S, NEW T, \A y \in T : \E x \in S : f[x] = y
  PROVE  IsFiniteSet(T) /\ Cardinality(T) <= Cardinality(S)
<1> DEFINE R == {f[x] : x \in S}
<1>1. [x \in S |-> f[x]] \in Surjection(S, R)
  BY DEF Surjection
<1>2. IsFiniteSet(R) /\ Cardinality(R) <= Cardinality(S)
  BY <1>1, FS_Surjection
<1>3. T \in SUBSET R
  OBVIOUS
<1>4. IsFiniteSet(T) /\ Cardinality(T) <= Cardinality(R)
  BY <1>2, <1>3, FS_Subset
<1>5. Cardinality(T) \in Nat /\ Cardinality(R) \in Nat /\ Cardinality(S) \in Nat
  BY <1>2, <1>4, FS_CardinalityType
<1> QED BY <1>2, <1>4, <1>5

\* Inserting x at i adds one place of x and none of anything else.
LEMMA InsertCounts ==
  ASSUME NEW s, NEW t, NEW n \in Nat, DOMAIN s = 1 .. n, DOMAIN t = 1 .. n + 1,
         NEW i \in 1 .. n + 1, NEW x, t[i] = x,
         \A j \in 1 .. n + 1 : /\ j < i => t[j] = s[j]
                               /\ j > i => t[j] = s[j - 1]
  PROVE  \A y : Cardinality(At(t, y)) <= Cardinality(At(s, y)) + (IF y = x THEN 1 ELSE 0)
<1> SUFFICES ASSUME NEW y
             PROVE  Cardinality(At(t, y)) <= Cardinality(At(s, y)) + (IF y = x THEN 1 ELSE 0)
  OBVIOUS
<1> DEFINE A == At(s, y)
           f == [j \in A |-> IF j < i THEN j ELSE j + 1]
           T == At(t, y) \ {i}
<1>1. IsFiniteSet(A) /\ Cardinality(A) \in Nat
  BY AtFinite
<1>2. IsFiniteSet(At(t, y)) /\ Cardinality(At(t, y)) \in Nat
  BY AtFinite
<1>3. \A k \in T : \E j \in A : f[j] = k
  <2> SUFFICES ASSUME NEW k \in T PROVE \E j \in A : f[j] = k
    OBVIOUS
  <2>1. k \in 1 .. n + 1 /\ k # i /\ t[k] = y
    BY DEF At
  <2>2. CASE k < i
    <3>1. k \in A /\ f[k] = k
      BY <2>1, <2>2 DEF At
    <3> QED BY <3>1
  <2>3. CASE k > i
    <3>1. k - 1 \in 1 .. n /\ s[k - 1] = y /\ ~(k - 1 < i) /\ (k - 1) + 1 = k
      BY <2>1, <2>3
    <3>2. k - 1 \in A
      BY <3>1 DEF At
    <3>3. f[k - 1] = k
      BY <3>1, <3>2
    <3> QED BY <3>2, <3>3
  <2> QED BY <2>1, <2>2, <2>3
<1>4. DOMAIN f = A
  OBVIOUS
<1> HIDE DEF A, f
<1>5. IsFiniteSet(T) /\ Cardinality(T) <= Cardinality(A)
  BY <1>1, <1>3, <1>4, MovedIsNoMore
<1>6. Cardinality(T) = IF i \in At(t, y) THEN Cardinality(At(t, y)) - 1 ELSE Cardinality(At(t, y))
  BY <1>2, FS_RemoveElement
<1>7. i \in At(t, y) <=> y = x
  BY DEF At
<1> QED BY <1>1, <1>2, <1>5, <1>6, <1>7 DEF A

\* Taking the first element out adds no place of anything.
LEMMA TailCounts ==
  ASSUME NEW S, NEW s \in Seq(S), s # <<>>
  PROVE  \A y : Cardinality(At(Tail(s), y)) <= Cardinality(At(s, y))
<1> SUFFICES ASSUME NEW y PROVE Cardinality(At(Tail(s), y)) <= Cardinality(At(s, y))
  OBVIOUS
<1> DEFINE A == At(s, y)
           f == [j \in A |-> j - 1]
<1>1. /\ Len(s) \in Nat /\ DOMAIN s = 1 .. Len(s) /\ Len(Tail(s)) = Len(s) - 1
      /\ DOMAIN Tail(s) = 1 .. Len(s) - 1 /\ \A j \in 1 .. Len(s) - 1 : Tail(s)[j] = s[j + 1]
  OBVIOUS
<1>2. IsFiniteSet(A)
  BY <1>1, AtFinite
<1>3. \A k \in At(Tail(s), y) : \E j \in A : f[j] = k
  <2> SUFFICES ASSUME NEW k \in At(Tail(s), y) PROVE \E j \in A : f[j] = k
    OBVIOUS
  <2>1. k \in 1 .. Len(s) - 1 /\ s[k + 1] = y
    BY <1>1 DEF At
  <2>2. k + 1 \in 1 .. Len(s) /\ (k + 1) - 1 = k
    BY <1>1, <2>1
  <2>3. k + 1 \in A
    BY <1>1, <2>1, <2>2 DEF At
  <2>4. f[k + 1] = k
    BY <2>2, <2>3
  <2> QED BY <2>3, <2>4
<1>4. DOMAIN f = A
  OBVIOUS
<1> HIDE DEF A, f
<1> QED BY <1>2, <1>3, <1>4, MovedIsNoMore DEF A

\* A list in which x is not found has no place of it.
LEMMA AbsentCounts ==
  ASSUME NEW s, NEW x, \A i \in DOMAIN s : s[i] # x
  PROVE  Cardinality(At(s, x)) = 0
<1>1. At(s, x) = {}
  BY DEF At
<1> QED BY <1>1, FS_EmptySet
\* Counts that do not grow keep their bound.
LEMMA NoMoreIsEnough ==
  ASSUME NEW s, NEW t, NEW m \in Nat, NEW n \in Nat, DOMAIN s = 1 .. m, DOMAIN t = 1 .. n,
         NEW x, Cardinality(At(t, x)) <= Cardinality(At(s, x)),
         NEW B \in SUBSET Cpus, NEW C \in SUBSET B,
         Cardinality(At(s, x)) + Cardinality(B) <= Cardinality(Cpus)
  PROVE  Cardinality(At(t, x)) + Cardinality(C) <= Cardinality(Cpus)
<1>1. Cardinality(At(s, x)) \in Nat /\ Cardinality(At(t, x)) \in Nat
  BY AtFinite
<1>2. IsFiniteSet(B) /\ Cardinality(B) \in Nat /\ Cardinality(Cpus) \in Nat
  BY CpusFinite
<1>3. Cardinality(C) \in Nat /\ Cardinality(C) <= Cardinality(B)
  BY <1>2, FS_Subset, FS_CardinalityType
<1> QED BY <1>1, <1>2, <1>3

\* The CPU that adds x gives its place up to the new copy.
LEMMA PlaceForCopy ==
  ASSUME NEW s, NEW t, NEW m \in Nat, NEW n \in Nat, DOMAIN s = 1 .. m, DOMAIN t = 1 .. n,
         NEW x, Cardinality(At(t, x)) <= Cardinality(At(s, x)) + 1,
         NEW B \in SUBSET Cpus, NEW c \in B, NEW C, C \subseteq B \ {c},
         Cardinality(At(s, x)) + Cardinality(B) <= Cardinality(Cpus)
  PROVE  Cardinality(At(t, x)) + Cardinality(C) <= Cardinality(Cpus)
<1>1. Cardinality(At(s, x)) \in Nat /\ Cardinality(At(t, x)) \in Nat
  BY AtFinite
<1>2. IsFiniteSet(B) /\ Cardinality(B) \in Nat /\ Cardinality(Cpus) \in Nat
  BY CpusFinite
<1>3. IsFiniteSet(B \ {c}) /\ Cardinality(B \ {c}) = Cardinality(B) - 1
  BY <1>2, FS_RemoveElement
<1>4. C \in SUBSET (B \ {c})
  OBVIOUS
<1>5. Cardinality(C) \in Nat /\ Cardinality(C) <= Cardinality(B) - 1
  BY <1>3, <1>4, FS_Subset, FS_CardinalityType
<1> QED BY <1>1, <1>2, <1>5

\* The lists of the invariant, as the lemmas above take them.
LEMMA Lists ==
  ASSUME CopiesInv
  PROVE  /\ Len(neigh) \in Nat /\ DOMAIN neigh = 1 .. Len(neigh)
         /\ DOMAIN Addrs(neigh) = 1 .. Len(neigh)
         /\ Len(grat) \in Nat /\ DOMAIN grat = 1 .. Len(grat)
<1>1. neigh \in Seq(Bounded) /\ grat \in Seq(Pkts)
  BY DEF CopiesInv, EstimateInv
<1> QED BY <1>1 DEF Addrs

\* A CPU that is about to add fewer things, and an unchanged table.
LEMMA NeighKept ==
  ASSUME CopiesInv, Addrs(neigh') = Addrs(neigh), \A a \in Nbrs : AddingNeigh(a)' \subseteq AddingNeigh(a)
  PROVE  NeighCount'
<1> SUFFICES ASSUME NEW a \in Nbrs
             PROVE  Cardinality(At(Addrs(neigh'), a)) + Cardinality(AddingNeigh(a)') <= Cardinality(Cpus)
  BY DEF NeighCount
<1>1. Cardinality(At(Addrs(neigh), a)) + Cardinality(AddingNeigh(a)) <= Cardinality(Cpus)
  BY DEF CopiesInv, NeighCount
<1>2. AddingNeigh(a) \in SUBSET Cpus /\ AddingNeigh(a)' \in SUBSET AddingNeigh(a)
  BY DEF AddingNeigh
<1>3. Len(neigh) \in Nat /\ DOMAIN Addrs(neigh) = 1 .. Len(neigh)
  BY Lists
<1>4. Cardinality(At(Addrs(neigh), a)) <= Cardinality(At(Addrs(neigh), a))
  BY <1>3, AtFinite
<1>5. Cardinality(At(Addrs(neigh), a)) + Cardinality(AddingNeigh(a)') <= Cardinality(Cpus)
  BY <1>1, <1>2, <1>3, <1>4, NoMoreIsEnough
<1> QED BY <1>5

\* A step that adds no gratuitous entry and sends no CPU to add one keeps
\* the count.
LEMMA GratKept ==
  ASSUME CopiesInv, grat' \in Seq(Pkts),
         \A p \in Pkts : /\ Cardinality(At(grat', p)) <= Cardinality(At(grat, p))
                         /\ AddingGrat(p)' \subseteq AddingGrat(p)
  PROVE  GratCount'
<1> SUFFICES ASSUME NEW p \in Pkts
             PROVE  Cardinality(At(grat', p)) + Cardinality(AddingGrat(p)') <= Cardinality(Cpus)
  BY DEF GratCount
<1>1. Cardinality(At(grat, p)) + Cardinality(AddingGrat(p)) <= Cardinality(Cpus)
  BY DEF CopiesInv, GratCount
<1>2. AddingGrat(p) \in SUBSET Cpus /\ AddingGrat(p)' \in SUBSET AddingGrat(p)
  BY DEF AddingGrat
<1>3. Len(grat) \in Nat /\ DOMAIN grat = 1 .. Len(grat)
  BY Lists
<1>4. Len(grat') \in Nat /\ DOMAIN grat' = 1 .. Len(grat')
  OBVIOUS
<1> QED BY <1>1, <1>2, <1>3, <1>4, NoMoreIsEnough

\* A step that leaves grat as it is.
LEMMA SameCounts ==
  ASSUME CopiesInv
  PROVE  \A p \in Pkts : Cardinality(At(grat, p)) <= Cardinality(At(grat, p))
<1> SUFFICES ASSUME NEW p \in Pkts PROVE Cardinality(At(grat, p)) \in Nat
  OBVIOUS
<1> QED BY Lists, AtFinite

\* neigh_tbl_add looks up: whoever goes on to add has found no copy.
LEMMA LookupKeepsCounts ==
  ASSUME CopiesInv, NEW c \in Cpus, NEW p \in Pkts, NeighLookup(c, p)
  PROVE  CopiesInv'
<1>1. /\ pc[c] = "idle" /\ pkt' = [pkt EXCEPT ![c] = p] /\ UNCHANGED <<neigh, grat>>
      /\ pc' = [pc EXCEPT ![c] = IF IsNeigh(p[2]) THEN "find" ELSE "nadd"]
  BY DEF NeighLookup, gvars, Goto
<1>2. pc \in [Cpus -> Places] /\ pkt \in [Cpus -> Pkts] /\ grat \in Seq(Pkts)
  BY DEF CopiesInv, EstimateInv
<1>3. EstimateInv' /\ pc' \in [Cpus -> Places] /\ grat' \in Seq(Pkts)
  BY <1>1, <1>2 DEF CopiesInv, EstimateInv, Places
<1>4. \A q \in Pkts : AddingGrat(q)' \subseteq AddingGrat(q)
  BY <1>1, <1>2 DEF AddingGrat
<1>5. GratCount'
  BY <1>1, <1>3, <1>4, SameCounts, GratKept
<1>6. NeighCount'
  <2> SUFFICES ASSUME NEW a \in Nbrs
               PROVE  Cardinality(At(Addrs(neigh), a)) + Cardinality(AddingNeigh(a)') <= Cardinality(Cpus)
    BY <1>1 DEF NeighCount
  <2>1. Len(neigh) \in Nat /\ DOMAIN Addrs(neigh) = 1 .. Len(neigh)
    BY Lists
  <2>2. CASE a = p[2] /\ ~IsNeigh(a)
    <3>1. \A i \in DOMAIN Addrs(neigh) : Addrs(neigh)[i] # a
      BY <2>2 DEF IsNeigh, Addrs
    <3>2. Cardinality(At(Addrs(neigh), a)) = 0
      BY <3>1, AbsentCounts
    <3>3. AddingNeigh(a)' \in SUBSET Cpus
      BY DEF AddingNeigh
    <3>4. Cardinality(AddingNeigh(a)') \in Nat /\ Cardinality(AddingNeigh(a)') <= Cardinality(Cpus)
      BY <3>3, CpusFinite
    <3> QED BY <3>2, <3>4
  <2>3. CASE ~(a = p[2] /\ ~IsNeigh(a))
    <3>1. AddingNeigh(a)' \in SUBSET AddingNeigh(a)
      BY <1>1, <1>2, <2>3 DEF AddingNeigh
    <3>2. Cardinality(At(Addrs(neigh), a)) + Cardinality(AddingNeigh(a)) <= Cardinality(Cpus)
      BY DEF CopiesInv, NeighCount
    <3>3. Cardinality(At(Addrs(neigh), a)) <= Cardinality(At(Addrs(neigh), a))
      BY <2>1, AtFinite
    <3>4. AddingNeigh(a) \in SUBSET Cpus
      BY DEF AddingNeigh
    <3> QED BY <2>1, <3>1, <3>2, <3>3, <3>4, NoMoreIsEnough
  <2> QED BY <2>2, <2>3
<1> QED BY <1>3, <1>5, <1>6 DEF CopiesInv
\* Its tbl_add: a new copy, and one CPU less that is about to add one.
LEMMA AddKeepsCounts ==
  ASSUME CopiesInv, NEW c \in Cpus, NeighAdd(c)
  PROVE  CopiesInv'
<1>0. PICK a \in Nbrs : a = PrvHop(c)
  BY DEF CopiesInv, EstimateInv, PrvHop, Pkts
<1>1. /\ pc[c] = "nadd" /\ pc' = [pc EXCEPT ![c] = "find"] /\ UNCHANGED <<grat, pkt>>
      /\ neigh' = IF Len(neigh) >= NeighTblMaxLen THEN neigh ELSE <<NewNeigh(a)>> \o neigh
  BY <1>0 DEF NeighAdd, gvars, Goto
<1>2. /\ pc \in [Cpus -> Places] /\ pkt \in [Cpus -> Pkts] /\ grat \in Seq(Pkts)
      /\ neigh \in Seq(Bounded) /\ EstimateInv
  BY DEF CopiesInv, EstimateInv
<1>3. EstimateInv' /\ pc' \in [Cpus -> Places]
  BY <1>1, <1>2, StepKeepsEstimates DEF Places, Next, RecvStep
<1>4. \A q \in Pkts : AddingGrat(q)' \subseteq AddingGrat(q)
  BY <1>1, <1>2 DEF AddingGrat
<1>5. GratCount'
  BY <1>1, <1>2, <1>4, SameCounts, GratKept
<1>6. /\ c \in AddingNeigh(a) /\ AddingNeigh(a)' \subseteq AddingNeigh(a) \ {c}
      /\ \A b \in Nbrs : AddingNeigh(b)' \subseteq AddingNeigh(b) /\ AddingNeigh(b) \subseteq Cpus
  BY <1>0, <1>1, <1>2 DEF AddingNeigh, PrvHop, Pkts
<1>7. NeighCount'
  <2>1. CASE Len(neigh) >= NeighTblMaxLen
    BY <1>1, <1>6, <2>1, NeighKept
  <2>2. CASE ~(Len(neigh) >= NeighTblMaxLen)
    <3> DEFINE s == Addrs(neigh)
               t == Addrs(neigh')
               n == Len(neigh)
    <3>1. n \in Nat /\ DOMAIN s = 1 .. n
      BY Lists
    <3>2. NewNeigh(a).addr = a
      BY DEF NewNeigh
    <3>3. /\ DOMAIN neigh' = 1 .. n + 1 /\ neigh'[1] = NewNeigh(a)
          /\ \A j \in 1 .. n + 1 : j > 1 => neigh'[j] = neigh[j - 1] /\ j - 1 \in 1 .. n
      <4>1. neigh' = <<NewNeigh(a)>> \o neigh
        BY <1>1, <2>2
      <4> QED BY <4>1, <1>2
    <3>4. DOMAIN neigh = 1 .. n
      BY <1>2
    <3>5. /\ DOMAIN t = 1 .. n + 1 /\ t[1] = a
          /\ \A j \in 1 .. n + 1 : (j < 1 => t[j] = s[j]) /\ (j > 1 => t[j] = s[j - 1])
      BY <3>2, <3>3, <3>4 DEF Addrs
    <3> HIDE DEF s, t, n
    <3>6. 1 \in 1 .. n + 1 /\ n + 1 \in Nat
      BY <3>1
    <3>7. \A y : Cardinality(At(t, y)) <= Cardinality(At(s, y)) + (IF y = a THEN 1 ELSE 0)
      BY <3>1, <3>5, <3>6, InsertCounts
    <3> SUFFICES ASSUME NEW b \in Nbrs
                 PROVE  Cardinality(At(t, b)) + Cardinality(AddingNeigh(b)') <= Cardinality(Cpus)
      BY DEF NeighCount, t
    <3>8. Cardinality(At(s, b)) + Cardinality(AddingNeigh(b)) <= Cardinality(Cpus)
      BY DEF CopiesInv, NeighCount, s
    <3>9. CASE b = a
      <4>1. Cardinality(At(t, b)) <= Cardinality(At(s, b)) + 1
        BY <3>7, <3>9
      <4>2. c \in AddingNeigh(b) /\ AddingNeigh(b)' \subseteq AddingNeigh(b) \ {c} /\ AddingNeigh(b) \in SUBSET Cpus
        BY <1>6, <3>9
      <4> QED BY <3>1, <3>5, <3>6, <3>8, <4>1, <4>2, PlaceForCopy
    <3>10. CASE b # a
      <4>1. Cardinality(At(s, b)) \in Nat
        BY <3>1, AtFinite
      <4>2. Cardinality(At(t, b)) <= Cardinality(At(s, b)) + 0
        BY <3>7, <3>10
      <4>3. Cardinality(At(t, b)) <= Cardinality(At(s, b))
        BY <4>1, <4>2
      <4>4. AddingNeigh(b)' \in SUBSET AddingNeigh(b) /\ AddingNeigh(b) \in SUBSET Cpus
        BY <1>6
      <4> QED BY <3>1, <3>5, <3>6, <3>8, <4>3, <4>4, NoMoreIsEnough
    <3> QED BY <3>9, <3>10
  <2> QED BY <2>1, <2>2
<1> QED BY <1>1, <1>2, <1>3, <1>5, <1>7 DEF CopiesInv

\* Inserting at i, element by element.
LEMMA InsertAtElements ==
  ASSUME NEW S, NEW s \in Seq(S), NEW x \in S, NEW i \in 1 .. Len(s) + 1,
         NEW t, t = InsertAt(s, i, x)
  PROVE  /\ t \in Seq(S) /\ DOMAIN t = 1 .. Len(s) + 1 /\ t[i] = x
         /\ \A j \in 1 .. Len(s) + 1 : (j < i => t[j] = s[j]) /\ (j > i => t[j] = s[j - 1])
<1> DEFINE u == SubSeq(s, 1, i - 1)
           v == SubSeq(s, i, Len(s))
           w == u \o <<x>>
<1>1. /\ Len(s) \in Nat /\ i \in Nat /\ i - 1 \in 0 .. Len(s) /\ i <= Len(s) + 1
  OBVIOUS
<1>2. /\ u \in Seq(S) /\ Len(u) = i - 1 /\ \A j \in 1 .. i - 1 : u[j] = s[j]
  BY <1>1
<1>3. /\ v \in Seq(S) /\ Len(v) = Len(s) - i + 1
      /\ \A j \in 1 .. Len(s) - i + 1 : v[j] = s[i + j - 1]
  BY <1>1
<1> HIDE DEF u, v
<1>4. /\ w \in Seq(S) /\ Len(w) = i /\ w[i] = x /\ \A j \in 1 .. i - 1 : w[j] = s[j]
  BY <1>1, <1>2
<1> HIDE DEF w
<1>5. /\ w \o v \in Seq(S) /\ Len(w \o v) = Len(s) + 1
      /\ \A j \in 1 .. i : (w \o v)[j] = w[j]
      /\ \A j \in 1 .. Len(s) + 1 : j > i => (w \o v)[j] = v[j - i] /\ j - i \in 1 .. Len(s) - i + 1
  <2>1. w \in Seq(S) /\ v \in Seq(S) /\ Len(w) = i /\ Len(v) = Len(s) - i + 1
    BY <1>3, <1>4
  <2>2. w \o v \in Seq(S) /\ Len(w \o v) = Len(w) + Len(v)
    BY <2>1
  <2>3. \A j \in 1 .. Len(w) + Len(v) :
          (w \o v)[j] = IF j <= Len(w) THEN w[j] ELSE v[j - Len(w)]
    BY <2>1
  <2>4. Len(w) + Len(v) = Len(s) + 1
    BY <1>1, <2>1
  <2> QED BY <1>1, <2>1, <2>2, <2>3, <2>4
<1>6. \A j \in 1 .. Len(s) + 1 : j > i => (w \o v)[j] = s[j - 1]
  <2> SUFFICES ASSUME NEW j \in 1 .. Len(s) + 1, j > i PROVE (w \o v)[j] = s[j - 1]
    OBVIOUS
  <2>1. (w \o v)[j] = v[j - i] /\ j - i \in 1 .. Len(s) - i + 1
    BY <1>5
  <2>2. i + (j - i) - 1 = j - 1
    BY <1>1
  <2>3. v[j - i] = s[i + (j - i) - 1]
    BY <1>3, <2>1
  <2> QED BY <2>1, <2>2, <2>3
<1>7. InsertAt(s, i, x) = w \o v
  BY DEF InsertAt, w, u, v
<1>8. DOMAIN (w \o v) = 1 .. Len(s) + 1
  BY <1>1, <1>5
<1>9. (w \o v)[i] = x /\ \A j \in 1 .. Len(s) + 1 : j < i => (w \o v)[j] = s[j]
  BY <1>1, <1>4, <1>5
<1> QED BY <1>5, <1>6, <1>7, <1>8, <1>9

\* grat_rrep_tbl_add: the same for the replies, wherever the entry goes.
LEMMA InsertKeepsCounts ==
  ASSUME CopiesInv, NEW c \in Cpus, GratInsert(c)
  PROVE  CopiesInv'
<1> DEFINE n == Len(grat)
<1>0. PICK x \in Pkts : x = pkt[c]
  BY DEF CopiesInv, EstimateInv
<1>1. pc[c] = "add" /\ pc' = [pc EXCEPT ![c] = "arm"] /\ UNCHANGED <<neigh, pkt>>
  BY DEF GratInsert, Goto
<1>2. /\ pc \in [Cpus -> Places] /\ pkt \in [Cpus -> Pkts] /\ grat \in Seq(Pkts) /\ EstimateInv
      /\ n \in Nat /\ DOMAIN grat = 1 .. n
  BY Lists DEF CopiesInv, EstimateInv
<1>3. EstimateInv' /\ pc' \in [Cpus -> Places]
  BY <1>1, <1>2 DEF Places, EstimateInv
<1>4. NeighCount'
  <2>1. \A a \in Nbrs : AddingNeigh(a)' \subseteq AddingNeigh(a)
    BY <1>1, <1>2 DEF AddingNeigh
  <2> QED BY <1>1, <2>1, NeighKept
<1>5. /\ c \in AddingGrat(x) /\ AddingGrat(x)' \subseteq AddingGrat(x) \ {c}
      /\ \A p \in Pkts : AddingGrat(p)' \subseteq AddingGrat(p) /\ AddingGrat(p) \subseteq Cpus
  BY <1>0, <1>1, <1>2 DEF AddingGrat
<1>6. GratCount' /\ grat' \in Seq(Pkts)
  <2>1. CASE grat' = grat
    BY <1>2, <1>5, <2>1, SameCounts, GratKept
  <2>2. CASE grat' # grat
    <3>1. PICK i \in 1 .. n + 1 : grat' = InsertAt(grat, i, x)
      BY <1>0, <2>2 DEF GratInsert
    <3>2. /\ grat' \in Seq(Pkts) /\ DOMAIN grat' = 1 .. n + 1 /\ grat'[i] = x
          /\ \A j \in 1 .. n + 1 : (j < i => grat'[j] = grat[j]) /\ (j > i => grat'[j] = grat[j - 1])
      <4>1. PICK S, s, t : S = Pkts /\ s = grat /\ t = grat'
        OBVIOUS
      <4>2. s \in Seq(S) /\ x \in S /\ i \in 1 .. Len(s) + 1 /\ t = InsertAt(s, i, x)
        BY <1>2, <3>1, <4>1
      <4>3. /\ t \in Seq(S) /\ DOMAIN t = 1 .. Len(s) + 1 /\ t[i] = x
            /\ \A j \in 1 .. Len(s) + 1 : (j < i => t[j] = s[j]) /\ (j > i => t[j] = s[j - 1])
        BY <4>2, InsertAtElements, SMTT(60)
      <4> QED BY <4>1, <4>3
    <3> HIDE DEF n
    <3>3. \A y : Cardinality(At(grat', y)) <= Cardinality(At(grat, y)) + (IF y = x THEN 1 ELSE 0)
      BY <1>2, <3>2, InsertCounts
    <3>4. n + 1 \in Nat
      BY <1>2
    <3> SUFFICES ASSUME NEW p \in Pkts
                 PROVE  Cardinality(At(grat', p)) + Cardinality(AddingGrat(p)') <= Cardinality(Cpus)
      BY <3>2 DEF GratCount
    <3>5. Cardinality(At(grat, p)) + Cardinality(AddingGrat(p)) <= Cardinality(Cpus)
      BY DEF CopiesInv, GratCount
    <3>6. CASE p = x
      <4>1. Cardinality(At(grat', p)) <= Cardinality(At(grat, p)) + 1
        BY <3>3, <3>6
      <4>2. c \in AddingGrat(p) /\ AddingGrat(p)' \subseteq AddingGrat(p) \ {c} /\ AddingGrat(p) \in SUBSET Cpus
        BY <1>5, <3>6
      <4> QED BY <1>2, <3>2, <3>4, <3>5, <4>1, <4>2, PlaceForCopy
    <3>7. CASE p # x
      <4>1. Cardinality(At(grat, p)) \in Nat
        BY <1>2, AtFinite
      <4>2. Cardinality(At(grat', p)) <= Cardinality(At(grat, p)) + 0
        BY <3>3, <3>7
      <4>3. Cardinality(At(grat', p)) <= Cardinality(At(grat, p))
        BY <4>1, <4>2
      <4>4. AddingGrat(p)' \in SUBSET AddingGrat(p) /\ AddingGrat(p) \in SUBSET Cpus
        BY <1>5
      <4> QED BY <1>2, <3>2, <3>4, <3>5, <4>3, <4>4, NoMoreIsEnough
    <3> QED BY <3>6, <3>7
  <2> QED BY <2>1, <2>2
<1> QED BY <1>3, <1>4, <1>6 DEF CopiesInv
\* The other steps of a CPU add nothing; whoever goes on to add a reply has
\* found no copy of it.
LEMMA GratKeepsCounts ==
  ASSUME CopiesInv, NEW c \in Cpus, GratFind(c) \/ GratQuery(c) \/ GratStop(c) \/ GratArm(c) \/ GratSetTimer(c)
  PROVE  CopiesInv'
<1>1. UNCHANGED <<neigh, grat, pkt>> /\ pc[c] # "idle"
  BY DEF GratFind, GratQuery, GratStop, GratArm, GratSetTimer, gvars
<1>2. pc \in [Cpus -> Places] /\ pkt \in [Cpus -> Pkts] /\ grat \in Seq(Pkts)
  BY DEF CopiesInv, EstimateInv
<1>3. PICK l \in {"idle", "query", "stop", "add", "modt", "addt", "bug"} :
        /\ pc' = [pc EXCEPT ![c] = l]
        /\ l \in {"stop", "add"} => pc[c] \in {"stop", "add"} \/ ~Lately(c)
  BY DEF GratFind, GratQuery, GratStop, GratArm, GratSetTimer, Goto
<1>4. EstimateInv' /\ pc' \in [Cpus -> Places]
  BY <1>1, <1>2, <1>3 DEF CopiesInv, EstimateInv, Places
<1>5. NeighCount'
  <2>1. \A a \in Nbrs : AddingNeigh(a)' \subseteq AddingNeigh(a)
    BY <1>1, <1>2, <1>3 DEF AddingNeigh
  <2> QED BY <1>1, <2>1, NeighKept
<1>6. GratCount'
  <2> SUFFICES ASSUME NEW p \in Pkts
               PROVE  Cardinality(At(grat, p)) + Cardinality(AddingGrat(p)') <= Cardinality(Cpus)
    BY <1>1 DEF GratCount
  <2>1. Len(grat) \in Nat /\ DOMAIN grat = 1 .. Len(grat)
    BY Lists
  <2>2. CASE p = pkt[c] /\ ~Lately(c)
    <3>1. \A i \in DOMAIN grat : grat[i] # p
      BY <2>2 DEF Lately, ToSet
    <3>2. Cardinality(At(grat, p)) = 0
      BY <3>1, AbsentCounts
    <3>3. AddingGrat(p)' \in SUBSET Cpus
      BY DEF AddingGrat
    <3>4. Cardinality(AddingGrat(p)') \in Nat /\ Cardinality(AddingGrat(p)') <= Cardinality(Cpus)
      BY <3>3, CpusFinite
    <3> QED BY <3>2, <3>4
  <2>3. CASE ~(p = pkt[c] /\ ~Lately(c))
    <3>1. AddingGrat(p)' \in SUBSET AddingGrat(p)
      BY <1>1, <1>2, <1>3, <2>3 DEF AddingGrat
    <3>2. Cardinality(At(grat, p)) + Cardinality(AddingGrat(p)) <= Cardinality(Cpus)
      BY DEF CopiesInv, GratCount
    <3>3. Cardinality(At(grat, p)) <= Cardinality(At(grat, p))
      BY SameCounts
    <3>4. AddingGrat(p) \in SUBSET Cpus
      BY DEF AddingGrat
    <3> QED BY <2>1, <3>1, <3>2, <3>3, <3>4, NoMoreIsEnough
  <2> QED BY <2>2, <2>3
<1> QED BY <1>1, <1>2, <1>4, <1>5, <1>6 DEF CopiesInv

\* A measurement, the handler and unloading: no address changes, and the
\* tables only get shorter.
LEMMA OtherKeepsCounts ==
  ASSUME CopiesInv,
         \/ \E a \in Nbrs, rtt \in Rtts : SetRto(a, rtt)
         \/ Handler \/ Flush \/ DelTimer \/ UNCHANGED vars
  PROVE  CopiesInv'
<1>1. /\ pc \in [Cpus -> Places] /\ grat \in Seq(Pkts) /\ neigh \in Seq(Bounded) /\ EstimateInv
  BY DEF CopiesInv, EstimateInv
<1>2. UNCHANGED <<pc, pkt>>
  BY DEF SetRto, Handler, Fire, Detach, CheckEmpty, Rearm, RearmSetTimer, Flush, DelTimer, vars
<1>3. EstimateInv'
  BY <1>1, StepKeepsEstimates DEF Next
<1>4. /\ \A a \in Nbrs : AddingNeigh(a)' \subseteq AddingNeigh(a)
      /\ \A p \in Pkts : AddingGrat(p)' \subseteq AddingGrat(p)
  BY <1>2 DEF AddingNeigh, AddingGrat
<1>5. CASE Flush
  <2>1. neigh' = <<>> /\ grat' = <<>>
    BY <1>5 DEF Flush
  <2>2. \A x : At(<<>>, x) = {} /\ At(Addrs(<<>>), x) = {}
    BY DEF At, Addrs
  <2>3. Cardinality({}) = 0
    BY FS_EmptySet
  <2>4. ASSUME NEW S \in SUBSET Cpus PROVE 0 + Cardinality(S) <= Cardinality(Cpus)
    BY CpusFinite
  <2>5. /\ \A a \in Nbrs : AddingNeigh(a)' \in SUBSET Cpus
        /\ \A p \in Pkts : AddingGrat(p)' \in SUBSET Cpus
    BY DEF AddingNeigh, AddingGrat
  <2>6. NeighCount' /\ GratCount'
    BY <2>1, <2>2, <2>3, <2>4, <2>5 DEF NeighCount, GratCount
  <2> QED BY <1>1, <1>2, <1>3, <2>1, <2>6 DEF CopiesInv
<1>6. CASE ~Flush
  <2>1. Addrs(neigh') = Addrs(neigh)
    <3>1. CASE neigh' = neigh
      BY <3>1
    <3>2. CASE neigh' # neigh
      <4>1. PICK i \in DOMAIN neigh, rtt \in Rtts : neigh' = [neigh EXCEPT ![i] = RtoCalc(neigh[i], rtt)]
        BY <1>6, <3>2 DEF SetRto, Handler, Fire, Detach, CheckEmpty, Rearm, RearmSetTimer, DelTimer, vars
      <4>2. \A n \in Bounded : RtoCalc(n, rtt).addr = n.addr
        BY DEF Bounded, RtoCalc
      <4>3. DOMAIN neigh' = DOMAIN neigh /\ \A j \in DOMAIN neigh : neigh'[j].addr = neigh[j].addr
        BY <1>1, <4>1, <4>2
      <4> QED BY <4>3 DEF Addrs
    <3> QED BY <3>1, <3>2
  <2>2. NeighCount'
    BY <1>4, <2>1, NeighKept
  <2>3. grat' = grat \/ (grat # <<>> /\ grat' = Tail(grat))
    BY <1>6 DEF SetRto, Handler, Fire, Detach, CheckEmpty, Rearm, RearmSetTimer, DelTimer, vars, gvars
  <2>4. grat' \in Seq(Pkts)
    BY <1>1, <2>3
  <2>5. \A p \in Pkts : Cardinality(At(grat', p)) <= Cardinality(At(grat, p))
    BY <1>1, <2>3, SameCounts, TailCounts
  <2>6. GratCount'
    BY <1>4, <2>4, <2>5, GratKept
  <2> QED BY <1>1, <1>2, <1>3, <2>2, <2>4, <2>6 DEF CopiesInv
<1> QED BY <1>5, <1>6

\* Empty tables and idle CPUs satisfy the invariant.
LEMMA InitCopies == Init => CopiesInv
<1> SUFFICES ASSUME Init PROVE CopiesInv
  OBVIOUS
<1>1. /\ neigh = <<>> /\ grat = <<>> /\ pc \in [Cpus -> Places]
      /\ \A c \in Cpus : pc[c] = "idle"
  BY DEF Init, Places
<1>2. \A x : At(<<>>, x) = {} /\ At(Addrs(<<>>), x) = {}
  BY DEF At, Addrs
<1>3. /\ \A a \in Nbrs : AddingNeigh(a) = {}
      /\ \A p \in Pkts : AddingGrat(p) = {}
  BY <1>1 DEF AddingNeigh, AddingGrat
<1>4. Cardinality({}) = 0 /\ Cardinality(Cpus) \in Nat
  BY FS_EmptySet, CpusAssumption, FS_CardinalityType
<1>5. NeighCount /\ GratCount
  <2>1. \A x : Cardinality(At(grat, x)) = 0 /\ Cardinality(At(Addrs(neigh), x)) = 0
    BY <1>1, <1>2, <1>4
  <2>2. /\ \A a \in Nbrs : Cardinality(AddingNeigh(a)) = 0
        /\ \A p \in Pkts : Cardinality(AddingGrat(p)) = 0
    BY <1>3, <1>4
  <2> QED BY <1>4, <2>1, <2>2 DEF NeighCount, GratCount
<1> QED BY <1>1, <1>5, InitEstimates DEF CopiesInv

\* However packets interleave, and however long it goes on, an address or a
\* reply is in its table no more often than there are CPUs.
THEOREM CopiesBounded == Spec => []AtMostOncePerCpu
<1>1. CopiesInv /\ [Next]_vars => CopiesInv'
  BY LookupKeepsCounts, AddKeepsCounts, InsertKeepsCounts, GratKeepsCounts, OtherKeepsCounts
     DEF Next, RecvStep
<1>2. CopiesInv => AtMostOncePerCpu
  <2> SUFFICES ASSUME CopiesInv PROVE AtMostOncePerCpu
    OBVIOUS
  <2>1. ASSUME NEW a \in Nbrs PROVE Cardinality(At(Addrs(neigh), a)) <= Cardinality(Cpus)
    <3>1. Cardinality(At(Addrs(neigh), a)) \in Nat
      BY Lists, AtFinite
    <3>2. Cardinality(AddingNeigh(a)) \in Nat /\ Cardinality(Cpus) \in Nat
      BY CpusFinite DEF AddingNeigh
    <3>3. Cardinality(At(Addrs(neigh), a)) + Cardinality(AddingNeigh(a)) <= Cardinality(Cpus)
      BY DEF CopiesInv, NeighCount
    <3> QED BY <3>1, <3>2, <3>3
  <2>2. ASSUME NEW p \in Pkts PROVE Cardinality(At(grat, p)) <= Cardinality(Cpus)
    <3>1. Cardinality(At(grat, p)) \in Nat
      BY Lists, AtFinite
    <3>2. Cardinality(AddingGrat(p)) \in Nat /\ Cardinality(Cpus) \in Nat
      BY CpusFinite DEF AddingGrat
    <3>3. Cardinality(At(grat, p)) + Cardinality(AddingGrat(p)) <= Cardinality(Cpus)
      BY DEF CopiesInv, GratCount
    <3> QED BY <3>1, <3>2, <3>3
  <2> QED BY <2>1, <2>2, Zenon DEF AtMostOncePerCpu, At, Addrs
<1> QED BY <1>1, <1>2, InitCopies, PTL DEF Spec
=============================================================================
