# A TLA+ model of DSR-UU

DSR-UU is an implementation of the Dynamic Source Routing protocol for wireless
ad hoc networks.  One C code base is compiled as a Linux kernel module and,
within a C++ class, as a routing agent of the ns-2 simulator.  This directory
models its tables, its timers, its route lookup, the exchange of route requests,
replies, acknowledgements and errors between nodes, and the life of the kernel
module.  TLC checks the models on small instances; TLAPS proves every safety
property that TLC checks, for every instance that section 5 admits.

Paths below are relative to `src/`; the protocol text is
`draft-ietf-manet-dsr-10.txt` ("the draft").

## 1. The system

### Components, their state and their operations

| Component | State | Operations | Modelled by |
|---|---|---|---|
| Bounded list, `tbl.h` | linked entries, `len`, `max_len`, lock | add (sorted), add at the tail, find, detach, delete by criterion, flush | `Tbl` |
| Send buffer, `send-buf.c` | packets waiting for a route, one timer | enqueue, verdict for a destination, timeout, new limit, cleanup | `SendBuf` |
| Request table, `dsr-rreq.c` | per address: discovery state, retransmissions, timeout, TTL, timer, ids of received requests | start of a discovery, cancel, timeout, record an id, new limit, cleanup | `RreqTbl`, `RreqTblSmp` |
| Link cache, `link-cache.c` | nodes with reference counts, directed links | add a link or a route, delete a link, find a route (Dijkstra), flush | `LinkCache`, `Dijkstra` |
| Maintenance buffer, `maint-buf.c`, with `dsr-ack.c` and the ids of `neigh.c` | copies of packets sent, ACK REQ ids, one timer | add, timeout and retransmission, salvage, acknowledgement, Route Error, cleanup | `MaintBuf`; between nodes: `RouteMaint` |
| Source routes, `dsr-srt.c` | none (values) | reverse, split, concatenate, shortcut, duplicate check, processing of the option | `SourceRoute`, `RouteDiscovery`, `RouteMaint` |
| Discovery between nodes, `dsr-rreq.c`, `dsr-rrep.c`, `dsr-io.c`, `dsr-opt.c` | caches, neighbours, request tables and gratuitous reply tables of all nodes, frames in the air | send, receive a request, a reply, source routed data; overhear; time out | `RouteDiscovery` |
| Route errors, `dsr-rerr.c` | none | send, forward, receive | `RouteMaint`; its effect on one buffer: `MaintBuf` |
| Neighbour table, `neigh.c` | hardware addresses, ids, round-trip estimate, garbage timer | add, query, next id, RTO estimate | `RecvTables`; ids: `MaintBuf` |
| Gratuitous reply table, `dsr-rrep.c` | (source, previous hop) pairs, one timer | add, find, timeout | `RecvTables`; its effect on replies: `RouteDiscovery` |
| Virtual device, `dsr-dev.c` | the slave, its saved settings, its promiscuity | device and address events, transmit | `KernelModule`; transmit: `MaintBuf`, `RouteDiscovery` |
| Kernel module, `dsr-module.c` | configuration values, `/proc` | init with unwinding, exit, `/proc` writes, hooks | `KernelModule`; limits in the modules of the tables |
| ns-2 agent, `ns-agent.cc` | the same tables as class members | recv, tap, xmit, link failure | recv, tap, xmit: `RouteDiscovery` |
| Packet memory, debugging, simple route cache, ns-2 patches | | | not modelled, see section 7 |

### How they interact

A packet of an application enters `dsr_start_xmit` (`dsr-io.c`).  With a route
in the link cache it gets a source route and leaves through `XMIT`, which puts
a copy into the maintenance buffer.  Without one it goes into the send buffer
and the request table starts a discovery.  `dsr_recv` parses the options of an
incoming packet, calls one handler per option and ORs the actions they return
(deliver, forward, send the buffered packets, forward the request ...).  The
handlers fill the link cache and the neighbour table with what they learn, a
reply cancels the discovery and releases the send buffer, an acknowledgement or
a Route Error empties the maintenance buffer, and the maintenance buffer's
timeout deletes links and salvages packets, which transmits again.  All tables
have timers of their own and limits that are set through `/proc/net/dsr_config`.

### What is hard

* **Concurrency.**  On an SMP kernel senders, timer handlers, received packets
  and the unload run at once; tables are locked per operation, not per handler.
* **Nesting.**  The maintenance buffer's timeout transmits, hence calls back
  into the buffer whose loop it is in, and runs itself again if it is overdue.
* **One timer for many entries.**  Send buffer and maintenance buffer arm one
  timer for whichever entry was first, while evictions, replies and
  acknowledgements change which one is first.
* **Limits.**  Every insertion may fail, limits change at run time, and many
  callers ignore the result.
* **The radio.**  Frames are lost, overtake each other, are overheard, and are
  answered by nodes whose caches are out of date.
* **Links that break** while packets, requests, acknowledgements and errors are
  under way over them.
* **Hot plugging.**  The interface below the module comes and goes at any
  moment, also between two steps of loading or unloading it.

`PROJECT.json` lists these as hazards at the lines where they bite, each with
the properties that would catch it or the reason why none does.

## 2. The modules

| Module | What it is |
|---|---|
| `Tbl` | The list of `tbl.h`.  A list is a function from the linked entries to the set of entries ahead of each, so that taking entries out of the middle is a set difference and the lemmas need no induction. |
| `SendBuf`, `MCSendBuf`, `SendBufProofs` | The send buffer, in both builds. |
| `RreqTbl` | The request table, entries as heap cells, whole functions as steps, with time. |
| `RreqTblSmp`, `MCRreqTblSmp`, `RreqTblProofs` | The same table with its functions cut at the lock operations of an SMP kernel; the proofs are about both modules. |
| `Routes` | Reference definitions: paths, the routes over a set of links, the shortest ones. |
| `RouteQuery` | Abstract specification: a lookup is answered once, with a shortest route, or NULL if there is none. |
| `Dijkstra` | `lc_srt_find` step by step, shown to implement `RouteQuery` (`Promise == INSTANCE RouteQuery WITH result <- answer, NULL <- NoRoute`). |
| `LinkCache`, `MCLinkCache`, `LinkCacheProofs` | The graph and its reference counts; the proofs are about both it and the lookup. |
| `MaintBuf`, `MCMaintBuf`, `MaintBufProofs` | The maintenance buffer of one node, with the call stack of its nested functions. |
| `SourceRoute` | The operations of `dsr-srt.c` on routes and what they put into a cache, as operators. |
| `RouteDiscovery`, `MCRouteDiscovery`, `RouteDiscoveryProofs` | A network of nodes that look for routes; composes caches, request ids, discoveries, send buffers and source routes. |
| `RouteMaint`, `MCRouteMaint`, `RouteMaintProofs` | A network of nodes whose links break; composes caches, maintenance buffers, acknowledgements, Route Errors and salvage. |
| `KernelModule` | Loading, unloading and the events of the two interfaces. |
| `RecvTables` | The neighbour table and the table of gratuitous replies on several CPUs. |
| `KernelProofs` | The proofs about these two. |
| `DataProofs` | Lemmas that several proofs rest on: the operations of `Tbl` keep a list a list, what every round of a loop keeps holds after it, walks over a set of links can be shortened to routes without loops, and what the operations of `SourceRoute` do to routes. |

`PROJECT.json` ("map") gives the lines behind each definition.  Definitions
whose comment begins with "Mutant" are deliberately wrong variants of the
definition that follows them; no specification uses them.  They are there to
show that each property notices the bug they stand for.

### SendBuf

`pc` says where each context is between two lock operations.  With
`Concurrent = FALSE` a context only runs while the others are idle, which is
the ns-2 build (`lock.h` defines the locks away there); with `TRUE` all
contexts interleave.  `set_timer` is two steps, because `timer_pending` and
`add_timer` are.  Two outcomes stop the machine and are states of the model: a
CPU that spins on the lock it holds (`relock`), and `add_timer` of a pending
timer (`bug`).  Time is relative: ages of packets and time left on the timer.
A verdict with `SEND_BUF_DROP` is left out: no caller passes it.

### RreqTbl and RreqTblSmp

Entries are cells of memory, so that an entry that has fallen out of the list
while its timer runs is a state.  `UseEntry` is the common beginning of
`dsr_rreq_route_discovery` and `rreq_tbl_add_id`.  In `RreqTbl` every function
is one action and the table keeps its size: this is the ns-2 build or a
uniprocessor kernel, with the time of the timers.

`RreqTblSmp` extends it for the SMP kernel.  The timer handler is four steps
(`Fire`, `Detach`, `Rejoin`, `Arm`), a reply's cancel two (`CancelFind`,
`CancelEnd`), because both release `rreq_tbl.lock` in between; what runs under
the lock to its end is one step.  `RequestTableSize` changes at any moment.
Time is left out: a pending timer may expire whenever it likes.  The model ends
(`oops`) where the code is known to fail: the handler and a reply both take the
same entry (`dsr-rreq.c:164`, `:326`), an entry that no longer fitted is
unlinked again (`:201`), or `del_timer_sync` waits for a handler that waits for
the lock held (`:259`).  Up to there its properties say which entries are
allocated, who works on them and when their timers run, while the module is
loaded: `rreq_tbl_cleanup` is an action of `RreqTbl` only, and how it races
with handlers of several CPUs is not modelled.

### LinkCache and Dijkstra

`LinkCache` follows `__lc_link_add` and `__lc_link_del` and their counters, with
both lists bounded.  A node that does not fit into `LC.nodes` is used
nevertheless (`link-cache.c:311`, `:322` ignore the result): the link is stored
with an end that is in no list (`stray`).  It has its own counter, no lookup
finds it, a later link to the same address gets a node of its own, and when the
link is removed `__tbl_del` follows the null pointers of that node (`oops`),
unless the list of nodes is empty.
`lc_srt_add` adds the links of a route one at a time (`todo`); whether it adds
the reverse links as well depends on `srt->flags`, which `dsr_srt_new` leaves
uninitialised, hence the free choice of `bidir`.  `Dijkstra` starts from any
graph; one step is one turn of the loop of `__dijkstra` or of the walk back
over the predecessors.  The order in which nodes of equal cost are settled is
left open (in the code it is the order of the list).

### MaintBuf

`stack` holds the calls in progress: `_maint_buf_set_timeout`,
`_maint_buf_timeout` and its loop over the packets of a broken next hop.
Nothing else runs while it is not empty.  `usable` is the set of first hops
the cache has routes over; it changes freely, since other parts fill the cache.
`reqs` are the ACK REQs sent: each may be answered at any time, any number of
times, or never, which covers loss, duplication and reordering of
acknowledgements.  A forwarded packet that is sent without an ACK REQ of this
node keeps the one it came with (`Carried`), and the next hop answers it to
this node: such an id is in `reqs` with `own = FALSE`.  The id is kept
unbounded, and compared as the code compares it, modulo `IdMod`.

### RouteDiscovery

One action per handler and outcome: `StartXmitRouted`, `StartXmitBuffered`,
`RreqTimeout`, the five ways a request is handled (`RreqDuplicate`,
`RreqForMe`, `RreqDrop`, `RreqCachedReply`, `RreqForward`), `DataDeliver`,
`DataForward`, `RrepForMe`, `RrepForward`, `Tap` for an overheard frame, and
`Lose`.  A broadcast is one frame per neighbour, each of which arrives or is
lost on its own, in any order.  Route lookup is `Lookup` of `SourceRoute`, some
shortest route, justified by `Dijkstra`.  Table limits other than that of the
request ids are left to the modules above, and links are deleted from caches at
most `MaxBreaks` times by an action of its own, which stands for whatever made
the node do so.

### RouteMaint

The caches start full, links break (`Break`), frames are lost (`Lose`), and
every node handles a packet, an acknowledgement, a Route Error or a timeout in
one step.  `MaintBuf` has the timer and the limits of one buffer; here the
buffers of all nodes meet the packets, requests and acknowledgements between
them.  Timeouts are patient: one is served when nothing is in the air between
the node and a next hop it waits for.  `Later` lets the hold-off time pass
between any two steps.  A packet keeps the ACK REQ it came with unless the
forwarder writes its own over it, and the receiver answers to the previous hop,
as `dsr_ack_req_opt_recv` does.  A packet that is salvaged over a route of
another length keeps the old id although the node believes it has asked with
its own (`~placed` in `SendData`): `maint_buf_salvage` copies the options and
leaves `ack_req_opt` pointing to the old ones (`maint-buf.c:328`).  The walks
over a list are recursive functions of the position: `Kept` for those that
delete or detach by a criterion, `SalvageAll` for the one that salvages.

### KernelModule

The steps of `dsr_module_init` in their order, each of which may fail; the
label each failure jumps to (`LabelOf`) and the order in which the labels are
run through (`Unwinding`) are data copied from the source, and what is cleaned
up follows from them.  Between the steps the slave is registered, brought up
and down and removed, `dsr0` is brought up, down and given an address, and
`PromiscOperation` is written.  The model ends (`oops`) where a NULL pointer is
followed, a part is cleaned up twice or a wait never ends; section 4 lists
these cases.

### RecvTables

`dsr_srt_opt_recv` looks up and fills two tables in separate critical sections;
each CPU's `pc` is between two of them.  The handler of the gratuitous reply
timer is five steps.  `set_timer` is two, as in `SendBuf`: it is called under
the shared lock, so that two CPUs, or a CPU and the handler, can both find the
timer not pending; the second `add_timer` stops the kernel (`bug`).  Writers of
the table wait while someone is between the two steps (`WriteLock`).  `RtoCalc` works on unsigned words (`% ULong`), the test
`<= 0` on an unsigned value included.  The place of a new gratuitous entry is
left open: its criterion reads the list pointers of the new entry as a time
(`dsr-rrep.c:66`).

## 3. The runs

Twelve configurations, all finite; TLC explores each one completely within its
bounds and finds no violation.

| Run | Instance | States | Shows |
|---|---|---|---|
| `sendbuf_ns2` | run to completion, 3 packets, 2 destinations, limits 0 to 2 | 9.8k | order by age, deadlines covered by one timer, every packet leaves |
| `sendbuf_smp` | 2 CPUs and the handler, 2 packets, limits 1 and 2 | 70k | waiting packets are never without a timer; every packet leaves unless the kernel has halted |
| `rreqtbl_fixed` | 3 cells, 3 addresses, table of 2, 1 id per entry | 33k | one entry per address, no lost entry, retransmissions back off, every discovery ends |
| `rreqtbl_smp` | 3 cells, 2 addresses, 2 CPUs with replies, limits 0 to 2 changing | 316k | no use after free, one owner per entry, timers and discovery states agree when all is quiet |
| `dijkstra` | every graph of 4 nodes | 42k | certificate of shortest paths, writes inside the route, termination, implements `RouteQuery` |
| `linkcache` | 4 addresses, room for 3 nodes and 3 links | 1.40M | no link to a freed node, a learned route is found if it fitted |
| `maintbuf` | 2 packets, 2 next hops, limits 1 and 2 changing | 92k | a request outstanding has a timer that fires in time; nested handlers return; every request ends, also when the id comes round |
| `discovery_line` | line of 3 with sources at both ends, a target nobody reaches; no losses | 116k | every packet delivered; floods die out and do not loop although ids are forgotten |
| `discovery_radio` | triangle, losses, overhearing, retransmission, a deleted link, both values of `SRT_BIDIR` | 459k | no loops in shortened routes; first hops of cached routes are known neighbours, or the reverse of a cached link; cancelled discoveries leave a route |
| `routemaint` | kite of 4, 2 packets, 2 links break, 1 frame lost | 504k | no working link is declared broken, salvaged packets do not loop, the network comes to rest |
| `kmodule` | promiscuity count between -2 and 2 | 4.0k | handler and reference exactly while there is a slave, settings given back, what a failed load leaves behind |
| `recvtables` | 2 CPUs, 1 source, 2 neighbours, 3 packets, 2 measurements | 637k | duplicates bounded by the CPUs, estimates within what was measured, the reply table runs empty unless the kernel halts, nothing runs after the unload |

### Bounds and why they are enough

* *SendBuf*: three packets give a first, a middle and a last one, two
  destinations let a reply take packets out of the middle, and limit 0 is a
  legal value.  Two CPUs plus the handler are all pairs of contexts that can
  race on one buffer.  The theorems hold for any number of each.
* *RreqTbl*: three addresses in a table of two force evictions; one id per
  entry forces ids to be forgotten; two retransmissions reach the cap of the
  timeout (3) and of the TTL (3).  With three cells an entry can be outside the
  list while the list is full.
* *RreqTblSmp*: two replies at once, a handler per entry, and any number of
  packets and requests.  Two addresses and limit 1 force evictions; limits 0
  and 1 after 2 leave entries out of the table.  The run uses the symmetry of
  the cells and of the CPUs; it checks no liveness.
* *LinkCache*: four addresses, of which three fit, so that links are stored with
  one stray end or two and nodes are freed while others have none; three links
  let a route of two hops be learned beside another link, or find no room.  A
  full list makes the counters grow for ever; `CntMax = 3` (a CONSTRAINT) lets
  one run ahead of the links of its node.
* *MaintBuf*: `IdMax = 3` (a CONSTRAINT) lets a next hop be asked until two ids
  are outstanding at once.  Ids are compared modulo `IdMod = 3`, so that within
  this bound an id comes round and the comparison goes wrong as it does after
  65535 requests; a carried id (`StrayId = 3`) does the same.  Behaviours beyond
  the bound are not part of the liveness check.  Two packets
  for one next hop are needed, and enough, for one of them to be salvaged in the
  loop that the other one's timeout started.  Both next hops have the same
  timeout in this run, which `TimerCovers` needs; `RequestArmed` is proved
  without that.
* *RouteDiscovery*: on the line `IdRoom = 1` makes every second request overwrite
  the first: the requests of both ends meet in the relay, which forgets one for
  the other; the target out of reach keeps the floods unanswered, and one source
  sends to the other, so that a route may be known before it is asked for.
  Three nodes in a triangle are the smallest network with a shortcut; with
  `IdRoom = 2` no id is forgotten there, which keeps the run short.  Larger
  networks are out of TLC's reach in reasonable time; the theorems of
  `RouteDiscoveryProofs` hold for all of them.
* *RouteMaint*: in the kite (n1 - n2, and from n2 to n4 directly or through n3)
  n2 forwards p1 and sends p2 over the same next hop, so that requests,
  acknowledgements and timeouts of both packets overlap.  After the first break
  p1 is salvaged over the longer way, after the second the salvaged packet
  fails once more, or comes back towards n2.  The id counter of n2 is ahead of
  that of n1, so that an id taken from the wrong node is noticed.
  `MaxMaintRexmt` is 3 and one frame is lost: `MaintBounds` asks for two more
  timeouts than losses (see section 4 for the reason).
* *KernelModule*: only the promiscuity count is bounded.  `SettingsRestored`
  and `HandlerIffSlave` are proved for every bound.
* *RecvTables*: three packets over two CPUs let a packet find its neighbour
  known, unknown and being added, and the reply table (limit 2) empty, in use
  and full; the neighbour table (limit 3) fills up too.  Round trips of 1 and 30
  reach the correction to 1 and the largest estimate.  The estimate is proved
  for every set of measurements.

### What these instances do not show

* *Dijkstra*: on four nodes with links of cost 1 it makes no difference which
  reached node is settled next: with an arbitrary choice instead of the cheapest
  node, TLC still finds `Certificate` and `AnswersShortest` true.  The smallest
  graph where the choice matters has five nodes.  That the cheapest node is
  enough for larger graphs rests on the proof (`Ordered`).
* *RouteDiscovery*, *RouteMaint*: `discovery_line` and `routemaint` take
  `SRT_BIDIR` to be clear in the uninitialised flags; `discovery_radio`,
  `linkcache` and all the theorems have both values.  Delivery is checked without
  retransmissions of requests, which are out of TLC's reach there.  An overheard frame may be
  overheard again by the same node while it is in the air, which a radio does
  not do.  This only adds behaviours, but under the fairness below it would let
  gratuitous replies hold up a data frame for ever, so `FloodEnds` and
  `EveryPacketDelivered` are checked without overhearing (and without losses).
* *RouteMaint*: nothing is overheard, and a node that is left without a route
  does not start a discovery; with a timeout shorter than the exchange it guards
  working links would of course be declared broken.
* *MaintBuf*: different timeouts per next hop, and more than two packets, are
  covered by the theorems only.
* *MaintBuf*: which packets an acknowledgement removes once the 16 bit id has come
  round is not the subject of a property: the code then removes too many or none.
* *RreqTblSmp*, *KernelModule*, *LinkCache*: what follows one of the failures that
  set `oops` is not explored.

Deadlock is not checked: every component may really come to rest (a module is
unloaded, a packet is the last one, a kernel has halted).

### Fairness

* *SendBuf*: weak fairness of each CPU's and the handler's next step (a
  function that has begun is not abandoned).  Strong fairness of the clock and
  of the start of the handler: in the run-to-completion build both are disabled
  for a moment by every function that runs, and neither the simulator nor the
  kernel lets them wait for ever.  The environment has no fairness: no packet,
  reply or unload need ever come.
* *RreqTbl*: the clock and every expired timer are served.
* *Dijkstra*: the function goes on.
* *MaintBuf*: calls in progress go on; clock and expired timer as in SendBuf.
* *RouteDiscovery*: while there are frames in the air some frame arrives,
  and running timers expire.  Nothing obliges an application to
  send, a node to overhear, or the radio to lose.
* *RouteMaint*: while frames are in the air or timers run, some frame arrives or
  some timer is served.
* *RecvTables*: a CPU that is receiving a packet goes on, and the handler of a
  pending timer is started and goes on.  No packet, measurement or unload need
  come.
* *RreqTblSmp*, *KernelModule*: safety only, no fairness.

## 4. Deviations the models reach

These are places where the code departs from the draft, from a comment, or from
what it seems to intend.  The models contain them as the code has them, and the
properties are stated so that they hold beside them.

Failures of the kernel (`relock`, `bug` and `oops` in the models):

* `send-buf.c:168`: a packet arriving at a full send buffer makes the CPU take
  `send_buf.lock` twice: `tbl_add_tail`, which locks, is called under the lock
  (`tbl.h:53`: "Functions prefixed with "__" are unlocked, the others are
  safe.").
* `timer.h:90`: two CPUs can add the send buffer's timer twice, and that of the
  gratuitous replies (`dsr-rrep.c:90`, `:124`, under a shared lock).
* `link-cache.c:311`, `:322`: a node that does not fit into the list of nodes is
  used all the same.  Routes over its link are not found, and removing the link
  unlinks a node that was never linked.  The list does fill up, since nodes
  counted for links that were not stored are never freed (`:276`).
* `dsr-rreq.c:201`: when `RequestTableSize` is lowered below the number of
  entries, an entry that was detached is not put back, its timer goes on, and
  the handler unlinks it again through cleared pointers.
* `dsr-rreq.c:259`: an eviction calls `del_timer_sync` with `rreq_tbl.lock`
  held, for which the handler may be waiting.
* `dsr-rreq.c:326`: a reply detaches an entry and only then deletes its timer;
  a handler in between unlinks or links it a second time.
* `dsr-module.c:394`, `:389`: if the gratuitous reply table cannot be
  initialised, its cleanup runs nevertheless and stops a timer that was never
  set up; if the neighbour table cannot, that cleanup is jumped over.
* `dsr-module.c:417`: if the `/proc` file cannot be created, `dsr_module_init`
  returns 1, which counts as success, and unloading cleans up twice.
* `dsr-module.c:480`: the device goes before the tables, whose timers may still
  expire and transmit.
* `dsr-dev.c:194`: giving `dsr0` an address while there is no slave calls
  `in_dev_get(NULL)`; so does writing `PromiscOperation` with `dev_set_promiscuity`.

State that drifts:

* `dsr-dev.c`: a second address saves the module's own settings over the
  host's; unloading with `dsr0` up does not give them back; `PromiscOperation`
  changed while `dsr0` is down, or a slave that comes back, makes the
  promiscuity count drift.
* `link-cache.c:276`: nodes are counted for links that were not stored, so they
  are never freed again.
* `link-cache.h:14`: `LC_TIMER` is off, links never expire.
* `dsr-rrep.c:66`: the gratuitous replies are not in the order of their times;
  `:117`: `-ENOSPC` counts as an entry added.
* `neigh.c`: two CPUs may enter a neighbour twice.  The round-trip time is
  measured in microseconds, so that the adaptive timeout is always at its upper
  limit.

Protocol:

* `dsr-rrep.c:394`: a node that forwards a reply learns the route and cancels
  its own discovery for the target, but leaves its own packets in the send
  buffer until another reply or their timeout; the draft (line 1596) wants the
  send buffer looked at.
* `dsr-rrep.c:354`: all links of a reply are cached, also those the reply has
  not travelled yet, against the comment at line 345.
* `dsr-rreq.c:653`: the hop limit of a request is copied, not decremented.
* `dsr-rreq.c:382`: every discovery starts from `NonpropRequestTimeout`, also one
  that follows a discovery given up without a reply (`:172`).  The draft (lines
  1829, 4092, 4163) wants the timeout for a target to be doubled until a valid
  Route Reply arrives.  `BackoffWithinDiscovery` is about the retransmissions of
  one discovery only, and a code that went on doubling would keep it as well.
* `dsr-srt.c:72`: `dsr_srt_new` does not initialise `flags`.  Where `SRT_BIDIR`
  happens to be set, `lc_srt_add` (`link-cache.c:569`, `:580`) caches the reverse
  links too, and a destination that overhears a packet caches a first hop from
  which it has never heard; a frame sent there is lost (ns-2) or gets no
  hardware address (`dsr-dev.c:144`).
* `dsr-ack.c:280`: the ACK REQ of a forwarded packet that the forwarder did not
  replace is answered to the forwarder (the draft, line 4877, answers the node
  that asked).  With an id ahead of the forwarder's it acknowledges packets
  that were not received; it may also be the id of another packet for which the
  forwarder has asked the same next hop (`maint-buf.c:527`), where the draft
  (line 4876) wants ids to be unique.
* `maint-buf.c:67`: ids are compared with `<=` on 16 bits, so that an
  acknowledgement after the wrap removes packets sent later, or none.
* `maint-buf.c:328`: a salvaged packet may be sent with an id that the node did
  not choose (see `RouteMaint`).  The request is then of no use, so that with
  the default of two timeouts one lost frame is enough to declare a working
  link broken: `WorkingLinksKept` needs the `MaxLosses + 1 < MaxMaintRexmt` of
  `MaintBounds`.
* `maint-buf.c:278`: the salvage count is not compared with
  `MAX_SALVAGE_COUNT`, and has 4 bits.
* `maint-buf.c:420`: a packet sent without ACK REQ that is first in the list is
  freed after `MaxMaintRexmt` timeouts without salvage or Route Error (fate
  `"silent"`).
* `dsr-rerr.c:84`: the error for a packet that was salvaged goes to the second
  intermediate node of its route, not to the node that salvaged it; and packets
  are dropped at every node the error passes whose next hop is the error's
  destination.

## 5. What is proved

TLAPS checks these theorems; they hold for every value of the constants that
satisfies the named assumptions of the module.  The inductive invariants were
checked by TLC on the instances of section 3 before they were proved.

### Send buffer (`SendBufProofs`)

* **`TypeCorrect`, `AlwaysArmed`**: any number of packets, CPUs and limits, both
  builds.  `TypeOK` says that the buffer is a list in which no entry is linked
  twice.  It is not inductive: appending the packet of a CPU keeps the list well
  formed only because that packet is not in it, so `Holding` (a sender between
  creating an entry and linking it holds an unlinked packet of its own) is added,
  and `TypeInv == TypeOK /\ Holding` is inductive.  `NonEmptyArmed` is inductive
  together with `TypeInv`: the one place where packets could be left alone is the
  handler finding the buffer empty, and then the next sender sees it empty too.
* **`SortedByAge`, `TimerBeforeDeadline`**, where functions run to completion
  (`~Concurrent`, the ns-2 build): the list is sorted by age, and between two
  functions the timer is due before every packet.  `SerialInv` adds that one
  context runs at a time, and that a timeout which a context has computed and not
  yet set is early enough for every packet.  On several CPUs both are false: two
  senders may append in the other order than they took their time stamps.

### Request table (`RreqTblProofs`)

* **`OneEntryPerAddress`, `NoEntryLost`**: any addresses, cells and limits that
  do not change.  `TableInv` is the two properties together with the types and
  the size of the list: an entry is created only when the lookup has found none,
  and an eviction makes room for exactly that one.
* **`BackoffFollowsSchedule`**: any timeouts, hop limits and numbers of
  retransmissions.  `BackoffWithinDiscovery` bounds the timeout of a
  retransmission from below; its inductive form `BackoffSchedule` says what it is,
  and is inductive with `TableInv`.  The step is
  `DoubledCapped`: doubling a capped value and capping it again is capping the
  double.  The backends know little of exponents; that the next power of two is
  the double (`PowersOfTwo`) is derived from the number of subsets of a set.
* **`WorkedOnIsAllocated`, `EntryHasOneOwner`, `TimerRunsInDiscovery`**: any
  number of CPUs, entries and limits that change, until one of the known failures
  (`oops`).  `SmpInv` adds `HandlerAgrees`, which says for every place of the
  timer's handler what the state and the timer of its entry are: this is what
  holds while a handler or a reply is between two critical sections, where
  `QuietAgree` says nothing.

### Link cache and lookup (`LinkCacheProofs`)

* **`NodesOutliveLinks`**: any addresses, routes and limits of both lists, so
  that links with a stray end are among the cases.  `CacheInv` relates the
  counter of a listed node to the graph: it is at least the number of link ends
  that point to it, counted with `Cardinality` in both directions.  At least,
  since a link that did not fit is counted as well; that direction is the one
  that keeps nodes alive.
* **`LearnedRouteIsFound`**: between the steps of `lc_srt_add` the links of the
  route are cached or still to be added (`ToAdd`), as long as the list of links
  has room.  If none of them has a stray end, they are links the lookup can use.
  That a route over such links implies a shortest one without a loop
  (`WalkIsFound`) is in `DataProofs`.
* **`CertificateHolds`**: for every graph.  The certificate needs the classical
  strengthening (`Ordered`): settled nodes cost no more than unsettled ones, so
  relaxing never touches a settled node.
* **`LookupRefinesRouteQuery`, `FillStaysInBounds`**: for every graph
  `lc_srt_find` implements `RouteQuery`, and its walk back writes within the
  route that was allocated.  `Walk` says that the addresses filled in so far lead
  from the current node to the destination with costs that go up by one, so the
  walk ends at the source after exactly `hops[Dst] - 1` addresses.  That no route
  is shorter (`CostIsLowerBound`) is an induction over a path, done as the
  choice of its least position whose cost is too large (`LeastElement`).

### Maintenance buffer (`MaintBufProofs`)

* **`TypeCorrect`, `RequestAlwaysArmed`**: any packets, hops, timeouts, limits
  and stack depth.  The lemmas go operation by operation (`RemoveOK`, `AddOK`,
  `SalvageOK`, `PutBackOK`): each takes a well formed buffer value to a well
  formed one, and the actions compose them.  `RequestArmed` is inductive with
  `TypeOK`: the stack becomes empty only by `_maint_buf_set_timeout` returning
  with the timer set or nothing to wait for, or by a timeout that found the timer
  pending or the buffer empty.
* **`TimerCoversRequests`**, if all next hops have the same timeout (`SameRto`;
  the code sets one timer for the first entry of a list that is in the order of
  insertion, which is the order of the deadlines only then).  `CoverInv` holds
  within the nested calls too: the list is sorted by the time left, and a running
  timer is due before every request.

### Kernel module (`KernelProofs`)

* **`HandlerInvariant`, `SettingsInvariant`**: for every bound on the promiscuity
  count.  `HandlerIffSlave` speaks of the slave only; its inductive form
  `HandlerInv` adds in which phase of loading the device can be among the parts
  at all (`Phase`), since a step may only fail, or the module be unloaded, while
  the device is registered.  The lemma `UnwindingEndsWithDev` says that every
  label leads to the cleanup of the device, so that no failing step leaves the
  packet handler behind.  `SettingsInv` extends `SettingsRestored` to the time in
  which the module holds the in_device of a slave that has left, and is inductive
  with `HandlerInv`.
* **`NothingLeft`**: whichever step of loading fails, and however often it is
  tried again, only the table of gratuitous replies can be left behind.  `LeftInv`
  says what the steps so far have initialised; `UnwindsAllButGrat` that the label
  of every step undoes that.

### Receive tables (`KernelProofs`)

* **`EstimatesBounded`**: for every set of measurements that fit into the machine
  word, and any number of them.  The bound on `srtt` and `rttvar` is inductive by
  itself, the arithmetic with its quotients being the lemma `Quotients`.
* **`QuietInvariant`**: any number of CPUs, any limits.  `QuietAfterUnload` needs
  that no CPU is receiving once the flush has begun (`QuietInv`): otherwise one
  could set the timer after `del_timer_sync`.
* **`CopiesBounded`**: any finite number of CPUs.  `CopiesInv` counts: the copies
  of an address and the CPUs that have found it absent and are about to add it
  are together no more than the CPUs.

### Discovery in a network (`RouteDiscoveryProofs`)

Any finite set of nodes, any links between them (in one direction too), any
packets, losses, retransmissions and deletions of links.

* **`RoutesLoopFree`**: whatever `SRT_BIDIR` is.  `LoopFree` is not inductive by
  itself.  `NetInv` adds that a request has not been at its target (otherwise the
  target would append itself a second time), and that the route of a reply begins
  with the path of the reply read backwards (`Retraces`), which the shortcut of
  an overheard frame keeps.  That the routes found in a cache have no loops is
  `FoundSimple` of `DataProofs`.
* **`CancelledWithRoute`**: the same invariant: a node that a reply reaches is on
  the reply's route (`OnReplyRoute`), whose rest has just been cached.
* **`FirstHopsKnown`**: whatever `SRT_BIDIR` is.  `UnknownHopIsReverse` says that a
  first hop which the node has not heard is the reverse of a cached link, and that
  `SRT_BIDIR` may be set; where it is never set, all first hops are known.
  `HopsInv` adds what the frames in the air know: every hop of a request was heard
  by its receiver, and every hop of a source routed frame was made to a neighbour
  of the sender, so that what a node learns from them begins, at itself, with a
  neighbour.  Reverse links are cached with the links they reverse, and
  `lc_link_del` removes both (`Backed`).

### Maintenance in a network (`RouteMaintProofs`)

Any finite set of nodes, any packets, any links that break and any number of
losses within `MaintBounds`.

* **`RoutesLoopFree`**: whatever `SRT_BIDIR` is, and for links in one direction
  too.  The paths in the air have no loops because salvaging checks the route it
  puts together and the others come from a lookup; but that check, the split
  before it and the lookup mean what they should only for well formed data.
  `MaintInv` says so of every cache, every buffer and every frame: a frame is
  where its route says, and the route a buffered packet came by has this node as
  a hop in the middle, where it is split.
* **`LinksStayKept`** (`WorkingLinksKept`), if the links work in both directions
  at first (`Symmetric`; over a link in one direction no acknowledgement comes
  back, whoever asks over it declares it broken, and the property is false).  Why a
  timeout that gives up is right depends on all the timeouts before it.
  `LossInv` keeps account of them: of the requests for an entry whose link works
  all were lost, or all but the last, and then that request, the packet that
  carries it, or the answer is under way (`Unanswered`).  A timeout finds nothing
  under way and asks again or gives up; giving up takes more losses than
  there are, so the link is gone, and every Route Error is about such a link
  (`ErrorInv`).  New entries, salvaged ones included, start at no timeouts, which
  is why the stale id of a salvaged packet costs one request and no more.

What the loops `Kept` and `SalvageAll` compute is described by what every round
keeps (`KeptElements`, `SalvageAllInside`).  Both rest on `RunExists` and
`RunInside` of `DataProofs`: a loop has a run, and what a round keeps holds after
the last; in both the first round for which it would fail is looked at.

### Assumptions

`TimeoutAssumption`, `MaxLensAssumption`, `CpusAssumption`, `PktsAssumption`,
`ConcurrentAssumption` (SendBuf), `RreqAddrs`, `RreqLens`, `RreqBounds`
(RreqTbl), `LinkCacheAssumption`, `SrtAddedAssumption` (LinkCache: routes have two
different ends), `DijkstraAssumption`, `InfAssumption` (Dijkstra: there are fewer
nodes than `LC_COST_INF`, which is `UINT_MAX`), `MaintPkts`, `MaintLens`,
`MaintRto`, `MaintNums` (MaintBuf), `PromiscAssumption` (KernelModule),
`RttsAssumption`, `InputsAssumption`, `CpusAssumption` (RecvTables: finitely many
CPUs), `NodeEdges`, `PktEnds`, `DiscoveryNums`, `NoDiscovery` (RouteDiscovery:
finitely many nodes; NULL is no number), `MaintEnds`, `MaintBounds`, `NoRequest`
(RouteMaint: likewise, and fewer losses than requests).  They say that numbers are natural,
distinct things distinct, and that measured times are positive and fit into the
word; TLC evaluates them in every run.

The prover cannot use the induction theorems of its library.  Lists are
functions to sets where their order is all that matters (`Tbl`); where a path or
a loop has to be followed, the least position, or the shortest walk, with a
property is chosen by the well-foundedness of the natural numbers
(`LeastElement`).

## 6. What is only model-checked

* Liveness under fairness, which the prover cannot reach: `EveryPacketLeaves`,
  `DiscoveryEnds`, `Returns`, `HandlerReturns`, `EveryRequestEnds`,
  `EveryPacketDelivered`, `FloodEnds`, `ComesToRest`, `RunsEmpty`.

These are all.  No module uses a RECURSIVE operator.

## 7. What is not modelled

* Packet memory and option bytes (`dsr-pkt.c`, the parsing in `dsr-opt.c`): the
  layout of one packet; nothing outlives the call.
* SMP interleavings of `MaintBuf`: salvaging transmits with `maint_buf.lock`
  held (`maint-buf.c:345`), so that the first salvage ends them.
* The ns-2 agent's Tcl interface, and its callback for link-layer failures
  (used if `UseNetworkLayerAck` is off), which deletes the link, sends an error
  and salvages as the maintenance timeout does.
* Failed allocations: in all the tables they leave the state as it was.
* What needs real widths or packet memory: `SendBufferTimeout` in microseconds
  cast to int (`send-buf.c:67`), the 4 bits of the salvage count
  (`dsr-srt.h:31`), `dp->dst` read after the packet was handed to the send
  buffer (`dsr-io.c:162`), the route not freed for a node's own request
  (`dsr-rreq.c:590`).
* The garbage collectors: that of the link cache is compiled out, the handler of
  the neighbour table is empty.
* `dsr-rtc-simple.c` (not built), debugging output and portability, ns-2 scripts
  and patches (third-party code).

## 8. Plan

Done: all tables, alone and on several CPUs where the code can get that far; the
lookup and its abstract specification; discovery and maintenance in a network;
the life of the module; theorems for every safety property of every module.
Left: `MaintBuf` on several CPUs, up to the first salvage.
