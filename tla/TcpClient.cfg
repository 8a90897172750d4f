\* The line at timer.c:64 in place, as lwip_comm.c and tcp_client_demo.c assume.
SPECIFICATION FairSpec
CONSTANTS
  ClockRuns = TRUE
  Heap = 3
  MaxMsgs = 3
  MaxFaults = 3
INVARIANTS TypeOK ConnectedFlagIsTrue
PROPERTIES CommandActedOnOnce GetsIn
