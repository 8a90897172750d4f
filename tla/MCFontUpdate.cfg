\* Sectors of 4 cells, pages of 2: the fonts cross pages and sectors, and the
\* last block of the last one ends with the area.
SPECIFICATION FairSpec
CONSTANTS
  SECTOR = 4
  PAGE = 2
  SECTORS = 15
  FONTSECSIZE = 7
  Ones = 31
  NF = 4
  FileLen <- MCFileLen
  MaxUpdates = 2
INVARIANTS TypeOK OthersAreKept FontsMatchInfo UpdatedFontsAreUsable FailedUpdateIsNotUsable
PROPERTIES WriteIsExact UpdateEnds
