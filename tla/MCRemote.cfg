\* Codes of four 2-bit bytes; the counter of 14 is cut to 2.
SPECIFICATION FairSpec
CONSTANTS
  W = 2
  HOLD = 2
  Key <- MCKey
  MinQuiet = 1
  MaxRepeatQuiet = 1
  MaxPresses = 2
  MaxRepeats = 1
INVARIANT TypeOK
PROPERTIES ReportedKeyIsLast PressIsReported ReleaseIsNoticed
