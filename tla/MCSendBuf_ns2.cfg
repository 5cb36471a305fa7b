SPECIFICATION FairSpec
CONSTANTS
  p1 = p1  p2 = p2  p3 = p3  d1 = d1  d2 = d2
  Pkts = {p1, p2, p3}
  dst <- MCdst
  MaxLens = {0, 1, 2}
  Timeout = 2
  Cpus = {c1}
  TimerCpu = h
  NoPkt = NoPkt
  Concurrent = FALSE
INVARIANTS TypeOK DeadlineCovered OldestFirst
PROPERTIES EveryPacketLeaves
CHECK_DEADLOCK FALSE
