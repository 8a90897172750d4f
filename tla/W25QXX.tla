------------------------------- MODULE W25QXX -------------------------------
(***************************************************************************)
(* The SPI flash driver (w25qxx.c): W25QXX_Write, which reads a sector,    *)
(* erases it if it must and programs it page by page, and                  *)
(* W25QXX_Erase_Sector.  One action per access to the chip, so the power   *)
(* can fail between any two of them, or in the middle of a page.  The chip *)
(* itself is external: erasing sets a sector to FF, programming can only   *)
(* change FF.                                                              *)
(***************************************************************************)
EXTENDS Naturals, Sequences, FiniteSets

CONSTANTS
  SECTOR,    \* cells in a sector: 4096 in the code
  PAGE,      \* cells in a page: 256
  SECTORS    \* sectors of the chip

ASSUME FlashAssumption ==
  /\ {SECTOR, PAGE, SECTORS} \subseteq Nat \ {0}
  /\ SECTOR % PAGE = 0

Cell == 0..(SECTOR * SECTORS - 1)
FF    == <<"FF">>       \* the erased cell
Mixed == <<"mixed">>    \* programmed over what was not erased

VARIABLES
  flash,           \* the chip
  wpc,             \* W25QXX_Write: "none", "check", "erase", "program"
  waddr, wdata,    \* its WriteAddr and what is left of pBuffer
  paddr, pdata,    \* the same of W25QXX_Write_NoCheck
  want             \* history: what the chip should hold after the write

chip  == <<flash, wpc, waddr, wdata, paddr, pdata, want>>
write == <<wpc, waddr, wdata, paddr, pdata, want>>

Lesser(a, b) == IF a < b THEN a ELSE b

SectorCells(s) == (s * SECTOR)..(s * SECTOR + SECTOR - 1)
Span(a, n) == a..(a + n - 1)

Erased(s) == [c \in Cell |-> IF c \in SectorCells(s) THEN FF ELSE flash[c]]

Overwritten(a, data) ==
  [c \in Cell |-> IF c \in Span(a, Len(data)) THEN data[c - a + 1] ELSE flash[c]]

Burnt(old, new) ==
  IF old = FF THEN new ELSE IF new \in {FF, old} THEN old ELSE Mixed

\* The cells of "these" take their data.
Programmed(these, a, data) ==
  [c \in Cell |-> IF c \in these THEN Burnt(flash[c], data[c - a + 1]) ELSE flash[c]]

ChipInit(contents) ==
  /\ flash = contents
  /\ wpc = "none" /\ waddr = 0 /\ wdata = <<>> /\ paddr = 0 /\ pdata = <<>>
  /\ want = contents

-----------------------------------------------------------------------------

BeginWrite(a, data) ==
  /\ wpc = "none"
  /\ wpc' = "check" /\ waddr' = a /\ wdata' = data
  /\ want' = Overwritten(a, data)
  /\ UNCHANGED <<flash, paddr, pdata>>

\* secpos and secremain
Sec    == waddr \div SECTOR
Remain == Lesser(SECTOR - (waddr % SECTOR), Len(wdata))

\* W25QXX_BUF: the whole sector, as it will be once its part of the data is in it.
Merged ==
  LET all == Overwritten(waddr, SubSeq(wdata, 1, Remain))
  IN  [i \in 1..SECTOR |-> all[Sec * SECTOR + i - 1]]

\* The sector is read; it is erased if a cell of the range is not FF.
CheckSector_RangeOnly ==
  /\ wpc = "check"
  /\ paddr' = waddr /\ pdata' = SubSeq(wdata, 1, Remain)
  /\ wpc' = IF \A c \in Span(waddr, Remain) : flash[c] = FF
            THEN "program" ELSE "erase"
  /\ UNCHANGED <<flash, waddr, wdata, want>>

CheckSector_NeverErases ==
  /\ wpc = "check"
  /\ wpc' = "program" /\ paddr' = waddr /\ pdata' = SubSeq(wdata, 1, Remain)
  /\ UNCHANGED <<flash, waddr, wdata, want>>

CheckSector ==
  /\ wpc = "check"
  /\ IF \A c \in Span(waddr, Remain) : flash[c] = FF
       THEN /\ wpc' = "program"
            /\ paddr' = waddr /\ pdata' = SubSeq(wdata, 1, Remain)
       ELSE /\ wpc' = "erase"
            /\ paddr' = Sec * SECTOR /\ pdata' = Merged
  /\ UNCHANGED <<flash, waddr, wdata, want>>

EraseForWrite ==
  /\ wpc = "erase"
  /\ flash' = Erased(Sec) /\ wpc' = "program"
  /\ UNCHANGED <<waddr, wdata, paddr, pdata, want>>

\* pageremain
PageLen == Lesser(PAGE - (paddr % PAGE), Len(pdata))

\* The next sector, or the end of the write.
SectorDone ==
  IF Remain = Len(wdata)
  THEN wpc' = "none" /\ UNCHANGED <<waddr, wdata>>
  ELSE /\ wpc' = "check" /\ waddr' = waddr + Remain
       /\ wdata' = SubSeq(wdata, Remain + 1, Len(wdata))

W25QXX_Write_Page ==
  /\ wpc = "program"
  /\ flash' = Programmed(Span(paddr, PageLen), paddr, pdata)
  /\ paddr' = paddr + PageLen
  /\ pdata' = SubSeq(pdata, PageLen + 1, Len(pdata))
  /\ IF PageLen = Len(pdata) THEN SectorDone ELSE UNCHANGED <<wpc, waddr, wdata>>
  /\ UNCHANGED want

W25QXX_Write == CheckSector \/ EraseForWrite \/ W25QXX_Write_Page

\* Power fails: of a page being programmed any part may be done.
ChipLosesPower ==
  /\ \/ UNCHANGED flash
     \/ /\ wpc = "program"
        /\ \E these \in SUBSET Span(paddr, PageLen) :
             flash' = Programmed(these, paddr, pdata)
  /\ wpc' = "none" /\ waddr' = 0 /\ wdata' = <<>> /\ paddr' = 0 /\ pdata' = <<>>
  /\ want' = flash'
=============================================================================
