\* The program at this commit: lwip_localtime stands still.
SPECIFICATION FairSpec
CONSTANTS
  ClockRuns = FALSE
  Heap = 3
  MaxMsgs = 3
  MaxFaults = 3
PROPERTY DataIsSent
