\* A sender whose bytes are close enough inside a burst and whose bursts fit
\* the buffer and are far enough apart: ARR - 2 and ARR + 2 are the tightest.
SPECIFICATION FairSpec
CONSTANTS
  MAX_RECV_LEN = 3
  ARR = 4
  MaxIntra = 2
  MinInter = 6
  MaxBurst = 3
  MaxBursts = 3
  GapCap = 6
INVARIANT FrameIsOneRun
PROPERTIES ImplementsMailbox ClosedAfterSilence FrameIsHandled
\* The sender may stop for good.
CHECK_DEADLOCK FALSE
