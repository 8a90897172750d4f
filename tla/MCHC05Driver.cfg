SPECIFICATION FairSpec
CONSTANTS
  Op = {"AT", "ROLE", "SET", "CFG"}
  Retries <- MCRetries
  MaxSent = 4
  MaxLen = 6
  Garbage = {0, 7}
INVARIANTS
  TypeOK
  GivesUpAfterAllAttempts
  ZeroNeedsOkOrSilence
  AcceptedIsReported
  CleanStartAcceptsOwnAnswer
  KeyLowBetweenCalls
PROPERTY CallsReturn
\* No more calls are made once MaxSent commands have been sent.
CHECK_DEADLOCK FALSE
