SPECIFICATION FairSpec
CONSTANTS
  SECTOR = 4
  PAGE = 2
  SECTORS = 15
  FONTSECSIZE = 7
  Ones = 31
  NF = 4
  FileLen <- MCFileLen
  MaxUpdates = 1
INVARIANT ZeroMeansUpdated
