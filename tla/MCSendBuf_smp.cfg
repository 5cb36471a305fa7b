SPECIFICATION FairSpec
CONSTANTS
  p1 = p1  p2 = p2  p3 = p3  d1 = d1  d2 = d2
  Pkts = {p1, p2}
  dst <- MCdst2
  MaxLens = {1, 2}
  Timeout = 1
  Cpus = {c1, c2}
  TimerCpu = h
  NoPkt = NoPkt
  Concurrent = TRUE
INVARIANT NonEmptyArmed
PROPERTIES EveryPacketLeaves
CHECK_DEADLOCK FALSE
