SPECIFICATION FairSpec
CONSTANTS
  BufSize = 2
  FrameLen = {2, 3}
  MaxFrames = 2
  RecLen = 2
  LineLen = {1, 3}
  Endings = {"crlf", "lf"}
  MaxLines = 2
INVARIANT TypeOK
PROPERTIES FrameIsWhole CommandIsTail AllAreAnswered
