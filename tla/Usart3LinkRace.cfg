\* Any sender: every gap is possible and a burst can overflow the buffer.
SPECIFICATION FairSpec
CONSTANTS
  MAX_RECV_LEN = 2
  ARR = 3
  MaxIntra = 3
  MinInter = 4
  MaxBurst = 4
  MaxBursts = 3
  GapCap = 4
PROPERTY CompleteFrameFrozen
CHECK_DEADLOCK FALSE
