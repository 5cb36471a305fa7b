---------------------------- MODULE KernelModule ---------------------------
(***************************************************************************)
(* The life of the kernel module (dsr-module.c) and of its network device  *)
(* (dsr-dev.c): loading it step by step with a failure possible in each    *)
(* step, the appearance and disappearance of the interface below it (the   *)
(* slave), the administration of both interfaces, the configuration file   *)
(* and unloading.  The host and its slave are external; the handlers of    *)
(* the kernel's notifications run one at a time (the rtnl lock), between   *)
(* the steps of dsr_module_init and dsr_module_cleanup.                    *)
(***************************************************************************)
EXTENDS Integers, SequencesExt

CONSTANT MaxPromisc    \* bound on the slave's promiscuity count, either way

ASSUME PromiscAssumption == MaxPromisc \in Nat \ {0}

VARIABLES
  mod,        \* "out", "loading", "in", "leaving"
  step,       \* the step of dsr_module_init that comes next
  parts,      \* what has been initialised and not been cleaned up
  slave,      \* the slave interface of the host: "none", "down", "up"
  dsr,        \* dsr0: "none", "down", "up"
  slaveDev,   \* dsr_node->slave_dev: "NULL" or "slave"
  held,       \* references to the slave taken by dev_hold
  func,       \* dsr_packet_type.func: "llrecv" while the handler is registered, or "NULL"
  indev,      \* slave_indev: "none", "cur" (the slave's), "old" (of one that left)
  settings,   \* rp_filter and forwarding of the slave: the "host"'s or "dsr"'s
  saved,      \* the static rp_filter and forwarding: "unset", "host", "dsr"
  promisc,    \* the slave's promiscuity count
  conf,       \* PromiscOperation
  oops        \* a NULL pointer was followed, a part cleaned up twice, or a wait never ends

host == <<slave, settings, promisc>>
node == <<dsr, slaveDev, held, func, indev, saved, conf>>
moduleVars == <<mod, step, parts, host, node, oops>>

\* dsr_module_init in its order: the device, four tables, two netfilter
\* hooks, the maintenance buffer, the configuration file, the IP protocol.
Steps == <<"dev", "sendbuf", "rreq", "grat", "neigh", "pre", "fwd", "maint", "proc", "prot">>
Parts == ToSet(Steps)

ModuleInit ==
  /\ mod = "out" /\ step = 1 /\ parts = {} /\ oops = FALSE
  /\ slave \in {"none", "down", "up"} /\ settings = "host" /\ promisc = 0
  /\ dsr = "none" /\ slaveDev = "NULL" /\ held = 0 /\ func = "NULL"
  /\ indev = "none" /\ saved = "unset" /\ conf = TRUE

Running  == ~oops
Notified == Running /\ "dev" \in parts       \* both notifiers are registered
Attached == slaveDev # "NULL"
Crash    == oops' = TRUE /\ UNCHANGED <<mod, step, parts, host, node>>

----------------------------------------------------------------------------
(* dsr_dev_netdev_event and dsr_dev_inetaddr_event. *)

\* NETDEV_REGISTER of the slave.
AttachSlave == slaveDev' = "slave" /\ held' = held + 1 /\ func' = "llrecv"

\* Mutant: the handler stays registered for the device that is gone.
DetachSlavePut ==
  /\ slaveDev' = "NULL" /\ held' = IF Attached THEN held - 1 ELSE held
  /\ UNCHANGED func

\* NETDEV_UNREGISTER of the slave, and what dsr_dev_uninit does with it.
DetachSlave ==
  IF Attached
  THEN slaveDev' = "NULL" /\ held' = held - 1 /\ func' = "NULL"
  ELSE UNCHANGED <<slaveDev, held, func>>

\* Mutant: the reference is dropped and the settings are kept.
PutIndev == indev' = "none" /\ UNCHANGED settings

\* NETDEV_DOWN: the settings are written back to the in_device they were
\* taken from, which is not the slave's if that has been registered anew.
RestoreIndev ==
  /\ indev' = "none"
  /\ settings' = IF indev = "cur" THEN saved ELSE settings

\* dev_set_promiscuity(slave_dev, n), within the bound.
Promiscuity(n) ==
  /\ promisc' = promisc + n
  /\ promisc' \in -MaxPromisc .. MaxPromisc

\* The slave appears, down and with the host's settings.
SlaveRegister ==
  /\ Running /\ slave = "none"
  /\ slave' = "down" /\ settings' = "host" /\ promisc' = 0
  /\ IF Notified /\ ~Attached THEN AttachSlave ELSE UNCHANGED <<slaveDev, held, func>>
  /\ UNCHANGED <<mod, step, parts, dsr, indev, saved, conf, oops>>

SlaveUp ==
  /\ Running /\ slave = "down" /\ slave' = "up"
  /\ UNCHANGED <<mod, step, parts, settings, promisc, node, oops>>

SlaveDown ==
  /\ Running /\ slave = "up" /\ slave' = "down"
  /\ IF Notified /\ Attached /\ indev # "none"
     THEN RestoreIndev
     ELSE UNCHANGED <<indev, settings>>
  /\ UNCHANGED <<mod, step, parts, promisc, dsr, slaveDev, held, func, saved, conf, oops>>

\* The slave disappears; the kernel has closed it first.  slave_indev keeps
\* what it holds.
SlaveUnregister ==
  /\ Running /\ slave = "down"
  /\ slave' = "none" /\ settings' = "host" /\ promisc' = 0
  /\ IF Notified THEN DetachSlave ELSE UNCHANGED <<slaveDev, held, func>>
  /\ indev' = IF indev = "cur" THEN "old" ELSE indev
  /\ UNCHANGED <<mod, step, parts, dsr, saved, conf, oops>>

\* ifconfig dsr0 up.
DsrUp ==
  /\ Notified /\ dsr = "down" /\ dsr' = "up"
  /\ IF conf /\ Attached THEN Promiscuity(1) ELSE UNCHANGED promisc
  /\ UNCHANGED <<mod, step, parts, slave, settings, slaveDev, held, func, indev, saved, conf, oops>>

\* ifconfig dsr0 down.
DsrDown ==
  /\ Notified /\ dsr = "up" /\ dsr' = "down"
  /\ IF conf /\ Attached THEN Promiscuity(-1) ELSE UNCHANGED promisc
  /\ IF indev # "none" THEN RestoreIndev ELSE UNCHANGED <<indev, settings>>
  /\ UNCHANGED <<mod, step, parts, slave, slaveDev, held, func, saved, conf, oops>>

\* dsr0 is given an address: the slave's settings are saved and replaced, once
\* more for every further address; in_dev_get follows slave_dev unchecked.
DsrAddress ==
  \/ /\ Notified /\ Attached
     /\ indev' = "cur" /\ saved' = settings /\ settings' = "dsr"
     /\ UNCHANGED <<mod, step, parts, slave, promisc, dsr, slaveDev, held, func, conf, oops>>
  \/ Notified /\ ~Attached /\ Crash

\* dsr_config_proc_write of PromiscOperation=v; dsr0 need not be up.
SetPromisc(v) ==
  \/ /\ Running /\ "proc" \in parts /\ conf # v /\ Attached
     /\ conf' = v /\ Promiscuity(IF v THEN 1 ELSE -1)
     /\ UNCHANGED <<mod, step, parts, slave, settings, dsr, slaveDev, held, func, indev, saved, oops>>
  \/ Running /\ "proc" \in parts /\ conf # v /\ ~Attached /\ Crash

----------------------------------------------------------------------------
(* Loading and unloading. *)

\* dsr_dev_init: dsr0 is registered, and registering the notifier reports the
\* interfaces there are.  The variables of the module are new.
DevInit ==
  /\ dsr' = "down" /\ conf' = TRUE /\ saved' = "unset" /\ indev' = "none"
  /\ IF slave # "none" THEN AttachSlave ELSE UNCHANGED <<slaveDev, held, func>>
  /\ UNCHANGED host

\* dsr_dev_cleanup: the notifiers go first, so that closing dsr0 reports
\* nothing; dsr_dev_uninit drops the references and the packet handler.
DevCleanup ==
  /\ dsr' = "none" /\ indev' = "none" /\ DetachSlave
  /\ UNCHANGED <<host, saved, conf>>

\* The labels at the end of dsr_module_init, in the order they are run.
Unwinding == <<"proc", "maint", "fwd", "pre", "neigh", "grat", "rreq", "sendbuf", "dev">>

\* Mutant: the labels of the two hooks are mixed up.
LabelOfSwapped ==
  [sendbuf |-> "dev", rreq |-> "sendbuf", grat |-> "grat", neigh |-> "rreq",
   pre |-> "neigh", fwd |-> "fwd", maint |-> "pre", proc |-> "maint", prot |-> "proc"]

\* The label each failing step jumps to.
LabelOf ==
  [sendbuf |-> "dev", rreq |-> "sendbuf", grat |-> "grat", neigh |-> "rreq",
   pre |-> "neigh", fwd |-> "pre", maint |-> "fwd", proc |-> "maint", prot |-> "proc"]

\* What is cleaned up when step s fails.
Unwound(s) == {Unwinding[i] : i \in {j \in DOMAIN Unwinding :
                 \E k \in DOMAIN Unwinding : Unwinding[k] = LabelOf[s] /\ j >= k}}

\* A step of dsr_module_init that succeeds; the last makes it return.
LoadStep(s) ==
  /\ Running /\ mod \in {"out", "loading"} /\ s = Steps[step]
  /\ parts' = parts \cup {s}
  /\ IF s = Last(Steps) THEN mod' = "in" /\ step' = 1 ELSE mod' = "loading" /\ step' = step + 1
  /\ IF s = "dev" THEN DevInit ELSE UNCHANGED <<host, node>>
  /\ UNCHANGED oops

\* A notifier cannot be registered in dsr_dev_init: dsr_dev_uninit puts a
\* reference to dsr0 that was not taken yet, and unregister_netdev waits
\* forever.  (Failing earlier it leaves everything as it was.)
LoadFailDev == Running /\ mod = "out" /\ Crash

\* A later step fails.  grat_rrep_tbl_cleanup stops a timer that was never
\* initialised; without a configuration file init returns 1, the result of
\* maint_buf_init, which counts as success.
LoadFail(s) ==
  /\ Running /\ mod = "loading" /\ s = Steps[step]
  /\ \/ s = "grat" /\ Crash
     \/ /\ s # "grat"
        /\ parts' = parts \ Unwound(s) /\ step' = 1
        /\ mod' = IF s = "proc" THEN "in" ELSE "out"
        /\ DevCleanup /\ UNCHANGED oops

\* dsr_module_cleanup, up to the tables.  What was unwound is cleaned up again.
Unload ==
  \/ /\ Running /\ mod = "in" /\ parts = Parts
     /\ mod' = "leaving" /\ parts' = parts \ {"prot", "pre", "fwd", "dev", "proc"}
     /\ DevCleanup /\ UNCHANGED <<step, oops>>
  \/ Running /\ mod = "in" /\ parts # Parts /\ Crash

\* A table's timer is still served and transmits: dsr_node is NULL.
LateTimer == Running /\ mod = "leaving" /\ parts \cap {"rreq", "maint"} # {} /\ Crash

\* The tables, in their order.
TableCleanup(s) ==
  /\ Running /\ mod = "leaving"
  /\ s = SelectSeq(<<"rreq", "grat", "neigh", "maint", "sendbuf">>, LAMBDA t : t \in parts)[1]
  /\ parts' = parts \ {s} /\ mod' = IF parts' = {} THEN "out" ELSE "leaving"
  /\ UNCHANGED <<step, host, node, oops>>

ModuleNext ==
  \/ SlaveRegister \/ SlaveUp \/ SlaveDown \/ SlaveUnregister
  \/ DsrUp \/ DsrDown \/ DsrAddress \/ \E v \in BOOLEAN : SetPromisc(v)
  \/ \E s \in Parts : LoadStep(s) \/ LoadFail(s) \/ TableCleanup(s)
  \/ LoadFailDev \/ Unload \/ LateTimer

ModuleSpec == ModuleInit /\ [][ModuleNext]_moduleVars

----------------------------------------------------------------------------
\* dsr_dev_llrecv receives frames exactly while the module knows the slave,
\* it knows the slave exactly while its device and the slave exist, and it
\* holds one reference to it then and none otherwise: the packet handler of an
\* unloaded module would be called at an address that is gone, a reference
\* left behind keeps the slave's driver from ever being unloaded.
HandlerIffSlave ==
  ~oops =>
    /\ func = "llrecv" <=> Attached
    /\ Attached <=> "dev" \in parts /\ slave # "none"
    /\ held = IF Attached THEN 1 ELSE 0

\* The module gives the slave its settings back: when it has let go of the
\* slave's in_device and has not saved its own values over the host's, the
\* settings are the host's.  (An unload with dsr0 up and a second address are
\* the ways to lose them.)
SettingsRestored ==
  ~oops /\ "dev" \in parts /\ indev = "none" /\ saved = "host" => settings = "host"

\* Whatever step of loading fails, nothing stays registered in the kernel when
\* the module is gone, but for the table of gratuitous replies, whose cleanup
\* the failing neighbour table jumps over.
NothingLeftBehind ==
  ~oops /\ mod = "out" => parts \subseteq {"grat"} /\ dsr = "none"
=============================================================================
